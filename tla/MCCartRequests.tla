--------------------------- MODULE MCCartRequests ---------------------------
(* Instances of CartRequests for TLC. *)
EXTENDS CartRequests

OnePrice == [i \in Items |-> 3]
OneExtras == [x \in Extras |-> 2]

(* Less than one item, so that a discount and the lines differ. *)
SmallValue == [c \in Coupons |-> 1]

(* More than the extras, so that a cart of one line may be free. *)
LargeValue == [c \in Coupons |-> 4]

CartSymmetry == Permutations(Workers) \cup Permutations(Coupons)

=============================================================================
