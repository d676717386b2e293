----------------------------- MODULE MCCheckout -----------------------------
(* Instances of Checkout for TLC. *)
EXTENDS Checkout, TLC

(* One use of the coupon in all, for two users who race for it. *)
ScarceUsage == [c \in Coupons |-> 1]

(* Room for two uses, but one per user. *)
AmpleUsage == [c \in Coupons |-> 2]
OncePerUser == [c \in Coupons |-> 1]

CheckoutSymmetry == Permutations(Workers) \cup Permutations(Users)

=============================================================================
