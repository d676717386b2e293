----------------------------- MODULE Purchases ------------------------------
(***************************************************************************)
(* What placing an order promises, with every request taken as one atomic  *)
(* step: an order turns its user's active cart into a converted one, takes *)
(* the next number of the year, and either uses the cart's coupon, all of  *)
(* whose conditions hold at that instant, or uses none. Checkout is shown  *)
(* to implement this module.                                               *)
(***************************************************************************)
EXTENDS Integers, FiniteSets

CONSTANTS
  Users,          \* customers
  Coupons,        \* rows of the coupons table
  Keys,           \* idempotency keys clients choose
  UsageLimit,     \* coupons.usage_limit, per coupon
  PerUserLimit,   \* coupons.per_user_limit, per coupon
  None            \* no coupon, no key

VARIABLES
  carts,          \* the last cart of each user; earlier ones are converted
  coupons,        \* used_count and is_active of each coupon
  orders,         \* committed orders, each with its coupon_usages row
  lastNumber      \* order_number_sequences.last_value of the year

vars == <<carts, coupons, orders, lastNumber>>

ASSUME LimitsAssumption ==
  /\ UsageLimit \in [Coupons -> Nat]
  /\ PerUserLimit \in [Coupons -> Nat]
ASSUME NoCouponAssumption == None \notin Coupons

MaybeCoupon == Coupons \cup {None}
MaybeKey    == Keys \cup {None}

(* id counts the carts the user has had; 0 is a user who never had one. *)
Cart == [id : Nat, active : BOOLEAN, coupon : MaybeCoupon]

Coupon == [used : Nat, active : BOOLEAN]

(* coupon: the coupon the order used (its coupon_usages row);              *)
(* code: the coupon whose code the order shows.                            *)
Order == [number : Nat, user : Users, cart : Nat, coupon : MaybeCoupon,
          code : MaybeCoupon, key : MaybeKey]

TypeOK ==
  /\ carts \in [Users -> Cart]
  /\ coupons \in [Coupons -> Coupon]
  /\ orders \subseteq Order
  /\ lastNumber \in Nat

Usages(c) == {o \in orders : o.coupon = c}

UsagesBy(c, u) == {o \in Usages(c) : o.user = u}

(* Mutant: nobody counts the user's own usages. *)
UsableAgain(c, r, u) == r.active /\ r.used < UsageLimit[c]

(* validate_for_user, on a coupon whose row says r. Its dates and minimum  *)
(* order amount are left out here: they only add refusals.                 *)
Usable(c, r, u) ==
  /\ r.active
  /\ r.used < UsageLimit[c]
  /\ Cardinality(UsagesBy(c, u)) < PerUserLimit[c]

Init ==
  /\ carts = [u \in Users |-> [id |-> 0, active |-> FALSE, coupon |-> None]]
  /\ coupons = [c \in Coupons |-> [used |-> 0, active |-> TRUE]]
  /\ orders = {}
  /\ lastNumber = 0

(* The first item a user adds after a checkout opens a new cart. *)
AddItem(u) ==
  /\ ~carts[u].active
  /\ carts' = [carts EXCEPT
                 ![u] = [id |-> @.id + 1, active |-> TRUE, coupon |-> None]]
  /\ UNCHANGED <<coupons, orders, lastNumber>>

ApplyCoupon(u, c) ==
  /\ carts[u].active
  /\ Usable(c, coupons[c], u)
  /\ carts' = [carts EXCEPT
                 ![u] = [id |-> @.id, active |-> TRUE, coupon |-> c]]
  /\ UNCHANGED <<coupons, orders, lastNumber>>

RemoveCoupon(u) ==
  /\ carts[u].active
  /\ carts' = [carts EXCEPT
                 ![u] = [id |-> @.id, active |-> TRUE, coupon |-> None]]
  /\ UNCHANGED <<coupons, orders, lastNumber>>

(* Staff turn a coupon on or off. *)
SetActive(c) ==
  /\ coupons' = [coupons EXCEPT
                   ![c] = [used |-> @.used, active |-> ~@.active]]
  /\ UNCHANGED <<carts, orders, lastNumber>>

NewOrder(u, k, c) ==
  [number |-> lastNumber + 1, user |-> u, cart |-> carts[u].id, coupon |-> c,
   code |-> carts[u].coupon, key |-> k]

Purchase(u, k, c) ==
  /\ carts[u].active
  /\ c # None => c = carts[u].coupon /\ Usable(c, coupons[c], u)
  /\ orders' = orders \cup {NewOrder(u, k, c)}
  /\ lastNumber' = lastNumber + 1
  /\ carts' = [carts EXCEPT
                 ![u] = [id |-> @.id, active |-> FALSE, coupon |-> None]]
  /\ coupons' = [d \in Coupons |->
                   IF d = c THEN [used |-> coupons[d].used + 1,
                                  active |-> coupons[d].active]
                   ELSE coupons[d]]

Next ==
  \/ \E u \in Users :
       \/ AddItem(u) \/ RemoveCoupon(u)
       \/ \E c \in Coupons : ApplyCoupon(u, c)
       \/ \E k \in MaybeKey, c \in MaybeCoupon : Purchase(u, k, c)
  \/ \E c \in Coupons : SetActive(c)

Spec == Init /\ [][Next]_vars

-----------------------------------------------------------------------------
(* Properties *)

(* Order numbers are 1 to the sequence's last value, each on one order:    *)
(* no number is skipped by a checkout that failed and none is given twice  *)
(* (OrderNumberSequenceRepository.next_value).                             *)
NumbersGapFree ==
  /\ {o.number : o \in orders} = 1 .. lastNumber
  /\ \A o, p \in orders : o.number = p.number => o = p

(* A cart is ordered once, and is closed exactly when it was: the same     *)
(* cart is never paid for twice, and none is closed without its order      *)
(* (place_order, convert_cart_after_order).                                *)
CartsOrderedOnce ==
  /\ \A o, p \in orders : o.user = p.user /\ o.cart = p.cart => o = p
  /\ \A u \in Users : \A n \in 1 .. carts[u].id :
       (\E o \in orders : o.user = u /\ o.cart = n) <=>
         ~(n = carts[u].id /\ carts[u].active)
  /\ \A o \in orders : o.cart \in 1 .. carts[o.user].id

(* coupons.used_count is the number of coupon_usages rows, and neither the *)
(* coupon's usage limit nor any user's own limit is ever exceeded          *)
(* (place_order's coupon branch, CouponService.validate_for_user).         *)
CouponsCounted ==
  \A c \in Coupons :
    /\ coupons[c].used = Cardinality(Usages(c))
    /\ coupons[c].used <= UsageLimit[c]
    /\ \A u \in Users : Cardinality(UsagesBy(c, u)) <= PerUserLimit[c]

(* The inductive invariant: the three together, over finitely many orders, *)
(* with every active cart a numbered one.                                  *)
PurchasesInv ==
  /\ TypeOK
  /\ IsFiniteSet(orders)
  /\ \A u \in Users : carts[u].active => carts[u].id >= 1
  /\ NumbersGapFree
  /\ CartsOrderedOnce
  /\ CouponsCounted

=============================================================================
