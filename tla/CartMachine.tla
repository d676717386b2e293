---------------------------- MODULE CartMachine -----------------------------
(***************************************************************************)
(* What the requests on one customer's cart amount to, each taken as one   *)
(* atomic step: the lines, the coupon and the totals they leave behind.    *)
(* CartRequests is shown to implement this module.                         *)
(*                                                                         *)
(* A request computes the totals from the objects its session loaded       *)
(* first. The session does not load a collection or a relationship twice,  *)
(* so the lines counted are those the request found, changed in place:     *)
(* a line it adds is not among them, extras it selects anew are not in     *)
(* their line's price, and the coupon is the one the cart had before.      *)
(*                                                                         *)
(* Prices are constants here, so every subtotal, discount and limit is in  *)
(* one unit of money; delivery fee and tax are functions of the two.       *)
(***************************************************************************)
EXTENDS Integers, SequencesExt

CONSTANTS
  Items,          \* products with a variant
  Extras,         \* selections of extras a line can have
  Coupons,        \* coupon codes
  ItemPrice,      \* effective unit price of an item
  ExtrasPrice,    \* what a selection of extras adds to it
  Value,          \* what a coupon takes off, at most
  MaxItems,       \* settings.cart_max_items
  MaxQuantity,    \* settings.cart_max_item_quantity
  None            \* no extras, no coupon

VARIABLE cart     \* the customer's last cart; earlier ones are converted

ASSUME PricesAssumption ==
  /\ ItemPrice \in [Items -> Nat]
  /\ ExtrasPrice \in [Extras -> Nat]
  /\ Value \in [Coupons -> Nat]
ASSUME CartLimitsAssumption == MaxItems \in Nat /\ MaxQuantity \in Nat \ {0}
ASSUME NoneAssumption == None \notin Extras \cup Coupons

MaybeExtras == Extras \cup {None}

Quantities == 1 .. MaxQuantity

(* cost: the line's subtotal as it is stored. *)
Line == [item : Items, extras : MaybeExtras, qty : Quantities, cost : Nat]

(* A cart row with its lines, in the order the database gives them; id     *)
(* counts the customer's carts, 0 before the first.                        *)
IsRow(c) ==
  /\ c = [id |-> c.id, active |-> c.active, lines |-> c.lines,
          coupon |-> c.coupon, subtotal |-> c.subtotal, discount |-> c.discount]
  /\ c.id \in Nat
  /\ c.active \in BOOLEAN
  /\ c.lines \in Seq(Line)
  /\ c.coupon \in Coupons \cup {None}

UnitPrice(item, x) ==
  ItemPrice[item] + (IF x = None THEN 0 ELSE ExtrasPrice[x])

NewLine(item, x, q) ==
  [item |-> item, extras |-> x, qty |-> q, cost |-> q * UnitPrice(item, x)]

(* recalculate gives every line it sees its price and subtotal. *)
Repriced(s) ==
  [i \in DOMAIN s |-> NewLine(s[i].item, s[i].extras, s[i].qty)]

SumOfCosts(s) ==
  LET sum[n \in 0 .. Len(s)] == IF n = 0 THEN 0 ELSE sum[n - 1] + s[n].cost
  IN sum[Len(s)]

(* Mutant: a coupon may take off more than there is. *)
WholeValue(coupon, subtotal) == Value[coupon]

(* calculate_discount. *)
Discount(coupon, subtotal) ==
  IF Value[coupon] < subtotal THEN Value[coupon] ELSE subtotal

(* recalculate, when coupon_id is coupon: the totals come from the lines   *)
(* counted, and from the coupon object the session loaded with c. ok: the  *)
(* coupons validate_for_user accepts. A rejected object clears coupon_id.  *)
Recalculated(c, lines, counted, coupon, ok) ==
  LET subtotal == SumOfCosts(counted)
      rejected == coupon # None /\ c.coupon # None /\ c.coupon \notin ok
  IN [id |-> c.id, active |-> TRUE, lines |-> lines,
      coupon |-> IF rejected THEN None ELSE coupon,
      subtotal |-> subtotal,
      discount |-> IF coupon # None /\ c.coupon \in ok
                     THEN Discount(c.coupon, subtotal) ELSE 0]

NewCart(n) ==
  [id |-> n, active |-> TRUE, lines |-> <<>>, coupon |-> None,
   subtotal |-> 0, discount |-> 0]

-----------------------------------------------------------------------------
(* The carts each request can leave behind when it finds cart c *)

(* Line i with quantity q, by an update or because an added item merges.   *)
Resized(c, i, q, ok) ==
  LET l == c.lines[i]
      s == Repriced(ReplaceAt(c.lines, i, NewLine(l.item, l.extras, q)))
  IN Recalculated(c, s, s, c.coupon, ok)

Appended(c, l, ok) ==
  LET s == Repriced(c.lines)
  IN Recalculated(c, Append(s, l), s, c.coupon, ok)

Matching(c, item, x) ==
  {i \in DOMAIN c.lines : c.lines[i].item = item /\ c.lines[i].extras = x}

(* Mutant: the quantity a line grows to is not validated. *)
MergedUnchecked(c) ==
  UNION {{Resized(c, i, c.lines[i].qty + q, ok) :
            q \in Quantities, ok \in SUBSET Coupons} : i \in DOMAIN c.lines}

(* add_item: a line with the item and the extras grows; without one, there *)
(* is a new line if the cart has room.                                     *)
Merged(c) ==
  UNION {{Resized(c, i, q, ok) : q \in c.lines[i].qty + 1 .. MaxQuantity,
                                 ok \in SUBSET Coupons} : i \in DOMAIN c.lines}

Addable(c) ==
  {t \in Items \X MaybeExtras \X Quantities :
     Len(c.lines) < MaxItems /\ Matching(c, t[1], t[2]) = {}}

Extended(c) ==
  {Appended(c, NewLine(t[1], t[2], t[3]), ok) :
     t \in Addable(c), ok \in SUBSET Coupons}

Added(c) == Merged(c) \cup Extended(c)

(* The selection of extras is replaced: the old rows are deleted, the new  *)
(* ones not in the collection, so the line is priced without any.          *)
Reselected(c, i, q, x, ok) ==
  LET s == [Repriced(c.lines) EXCEPT
              ![i] = [item |-> c.lines[i].item, extras |-> x, qty |-> q,
                      cost |-> q * UnitPrice(c.lines[i].item, None)]]
  IN Recalculated(c, s, s, c.coupon, ok)

Updated(c) ==
  {Resized(c, i, q, ok) :
     i \in DOMAIN c.lines, q \in Quantities, ok \in SUBSET Coupons}
  \cup {Reselected(c, i, q, x, ok) : i \in DOMAIN c.lines, q \in Quantities,
          x \in MaybeExtras, ok \in SUBSET Coupons}

(* Mutant: the totals still count the removed line. *)
RemovedCounted(c) ==
  {Recalculated(c, Repriced(RemoveAt(c.lines, i)), Repriced(c.lines),
                c.coupon, ok) : i \in DOMAIN c.lines, ok \in SUBSET Coupons}

Removed(c) ==
  {LET s == Repriced(RemoveAt(c.lines, i))
   IN Recalculated(c, s, s, c.coupon, ok) :
     i \in DOMAIN c.lines, ok \in SUBSET Coupons}

Cleared(c) == {Recalculated(c, <<>>, <<>>, None, {})}

(* The new code passed validate_for_user; the totals still come from the   *)
(* old coupon object, and its rejection clears the new coupon_id.          *)
CouponApplied(c) ==
  {Recalculated(c, Repriced(c.lines), Repriced(c.lines), t[1], t[2]) :
     t \in {t \in Coupons \X SUBSET Coupons : t[1] \in t[2]}}

CouponRemoved(c) ==
  {Recalculated(c, Repriced(c.lines), Repriced(c.lines), None, {})}

(* recalculate alone, as the checkout validation calls it. *)
Refreshed(c) ==
  {Recalculated(c, Repriced(c.lines), Repriced(c.lines), c.coupon, ok) :
     ok \in SUBSET Coupons}

(* place_order: the lines and the coupon go into an order, and the cart is *)
(* closed.                                                                 *)
Ordered(c) ==
  IF c.lines = <<>> THEN {}
  ELSE {[id |-> c.id, active |-> FALSE, lines |-> <<>>, coupon |-> None,
         subtotal |-> r.subtotal, discount |-> r.discount] : r \in Refreshed(c)}

-----------------------------------------------------------------------------
Init == cart = [NewCart(0) EXCEPT !.active = FALSE]

OpenCart ==
  /\ ~cart.active
  /\ cart' = NewCart(cart.id + 1)

Mutations(c) ==
  Added(c) \cup Updated(c) \cup Removed(c) \cup Cleared(c)
  \cup CouponApplied(c) \cup CouponRemoved(c) \cup Refreshed(c) \cup Ordered(c)

Mutate == cart.active /\ cart' \in Mutations(cart)

Spec == Init /\ [][OpenCart \/ Mutate]_cart

-----------------------------------------------------------------------------
(* Properties *)

(* No interleaving of requests gives a cart more lines than cart_max_items *)
(* or a line more than cart_max_item_quantity: both are checked on what    *)
(* the request loaded, not by the database (add_item, _validate_quantity). *)
CartWithinLimits ==
  /\ Len(cart.lines) <= MaxItems
  /\ \A i \in DOMAIN cart.lines : cart.lines[i].qty \in Quantities

(* The stored subtotal is that of all stored lines, or of all but the last *)
(* one added: whatever requests come, the totals miss at most one line,    *)
(* and the next request counts it (CartService.recalculate).               *)
TotalsMissOnlyNewest ==
  cart.active =>
    cart.subtotal \in {SumOfCosts(cart.lines), SumOfCosts(Front(cart.lines))}

(* A discount is part of the subtotal it is taken off, and there is none   *)
(* without a coupon: what is left to pay is never negative, as the check   *)
(* constraints of the carts table demand (calculate_discount, clear).      *)
DiscountCovered ==
  /\ cart.discount <= cart.subtotal
  /\ cart.active /\ cart.coupon = None => cart.discount = 0

-----------------------------------------------------------------------------
(* What the comments say and the code does not do *)

(* models/cart.py: "Snapshot totals - always recalculated from PostgreSQL  *)
(* catalog prices." The subtotal of a cart would be that of its lines.     *)
TotalsMatchLines == cart.active => cart.subtotal = SumOfCosts(Repriced(cart.lines))

=============================================================================
