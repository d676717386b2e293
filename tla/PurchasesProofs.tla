--------------------------- MODULE PurchasesProofs ---------------------------
(***************************************************************************)
(* The promises of Purchases hold for every set of users, coupons and keys *)
(* and every choice of limits.                                             *)
(***************************************************************************)
EXTENDS Purchases, FiniteSetTheorems, TLAPS

-----------------------------------------------------------------------------
(* A step that is no purchase adds no order and uses no coupon. *)

LEMMA CartChange ==
  ASSUME PurchasesInv, NEW u \in Users, NEW r \in Cart,
         carts' = [carts EXCEPT ![u] = r],
         UNCHANGED <<coupons, orders, lastNumber>>,
         \/ ~carts[u].active /\ r.id = carts[u].id + 1 /\ r.active
         \/ r.id = carts[u].id /\ r.active = carts[u].active
  PROVE  PurchasesInv'
<1>1. UNCHANGED <<coupons, orders, lastNumber>> /\ carts' \in [Users -> Cart]
  BY DEF PurchasesInv, TypeOK
<1>2. \A v \in Users \ {u} : carts'[v] = carts[v]
  BY DEF PurchasesInv, TypeOK
<1>3. \/ /\ ~carts[u].active
         /\ carts'[u].id = carts[u].id + 1 /\ carts'[u].active
      \/ /\ carts'[u].id = carts[u].id
         /\ carts'[u].active = carts[u].active
  BY DEF PurchasesInv, TypeOK
<1>4. TypeOK' /\ IsFiniteSet(orders)' /\ NumbersGapFree'
  BY <1>1 DEF PurchasesInv, TypeOK, NumbersGapFree
<1>5. CouponsCounted'
  BY <1>1 DEF PurchasesInv, CouponsCounted, Usages, UsagesBy
<1>6. \A v \in Users : carts'[v].active => carts'[v].id >= 1
  BY <1>2, <1>3 DEF PurchasesInv, TypeOK, Cart
<1>7. CartsOrderedOnce'
  <2>1. \A o \in orders' : o.cart \in 1 .. carts'[o.user].id
    BY <1>1, <1>2, <1>3 DEF PurchasesInv, CartsOrderedOnce, TypeOK, Cart, Order
  <2>2. ASSUME NEW v \in Users, NEW n \in 1 .. carts'[v].id
        PROVE  (\E o \in orders' : o.user = v /\ o.cart = n) <=>
                 ~(n = carts'[v].id /\ carts'[v].active)
    <3>1. CASE carts'[v].id = carts[v].id /\ carts'[v].active = carts[v].active
      BY <1>1, <2>2, <3>1 DEF PurchasesInv, CartsOrderedOnce
    <3>2. CASE /\ v = u /\ ~carts[u].active
               /\ carts'[u].id = carts[u].id + 1 /\ carts'[u].active
      <4>1. n \in 1 .. carts[u].id \/ n = carts[u].id + 1
        BY <2>2, <3>2 DEF PurchasesInv, TypeOK, Cart
      <4>2. ~ \E o \in orders : o.user = u /\ o.cart = carts[u].id + 1
        BY DEF PurchasesInv, CartsOrderedOnce, TypeOK, Cart
      <4>3. QED
        BY <1>1, <3>2, <4>1, <4>2
           DEF PurchasesInv, CartsOrderedOnce, TypeOK, Cart
    <3>3. QED
      BY <1>2, <1>3, <3>1, <3>2
  <2>3. QED
    BY <1>1, <2>1, <2>2 DEF PurchasesInv, CartsOrderedOnce
<1>8. QED
  BY <1>4, <1>5, <1>6, <1>7 DEF PurchasesInv

LEMMA CartStep ==
  ASSUME PurchasesInv, NEW u \in Users,
         AddItem(u) \/ RemoveCoupon(u) \/ (\E c \in Coupons : ApplyCoupon(u, c))
  PROVE  PurchasesInv'
<1>1. carts[u] \in Cart
  BY DEF PurchasesInv, TypeOK
<1>2. CASE AddItem(u)
  <2> DEFINE r == [id |-> carts[u].id + 1, active |-> TRUE, coupon |-> None]
  <2>1. r \in Cart
    BY <1>1 DEF Cart, MaybeCoupon
  <2>2. QED
    BY <1>2, <2>1, CartChange DEF AddItem
<1>3. CASE RemoveCoupon(u)
  <2> DEFINE r == [id |-> carts[u].id, active |-> TRUE, coupon |-> None]
  <2>1. r \in Cart /\ r.id = carts[u].id /\ r.active = carts[u].active
    BY <1>1, <1>3 DEF Cart, MaybeCoupon, RemoveCoupon
  <2>2. QED
    BY <1>3, <2>1, CartChange DEF RemoveCoupon
<1>4. ASSUME NEW c \in Coupons, ApplyCoupon(u, c)
      PROVE  PurchasesInv'
  <2> DEFINE r == [id |-> carts[u].id, active |-> TRUE, coupon |-> c]
  <2>1. r \in Cart /\ r.id = carts[u].id /\ r.active = carts[u].active
    BY <1>1, <1>4 DEF Cart, MaybeCoupon, ApplyCoupon
  <2>2. QED
    BY <1>4, <2>1, CartChange DEF ApplyCoupon
<1>5. QED
  BY <1>2, <1>3, <1>4

LEMMA SetActiveStep ==
  ASSUME PurchasesInv, NEW c \in Coupons, SetActive(c)
  PROVE  PurchasesInv'
<1>1. /\ UNCHANGED <<carts, orders, lastNumber>>
      /\ coupons' \in [Coupons -> Coupon]
      /\ \A d \in Coupons : coupons'[d].used = coupons[d].used
  BY DEF PurchasesInv, TypeOK, SetActive, Coupon
<1>2. TypeOK' /\ NumbersGapFree' /\ CartsOrderedOnce'
  BY <1>1 DEF PurchasesInv, TypeOK, NumbersGapFree, CartsOrderedOnce
<1>3. CouponsCounted'
  BY <1>1 DEF PurchasesInv, CouponsCounted, Usages, UsagesBy
<1>4. QED
  BY <1>1, <1>2, <1>3 DEF PurchasesInv

-----------------------------------------------------------------------------
(* A purchase *)

(* The new order is new, by its number. *)
LEMMA PurchaseAdds ==
  ASSUME PurchasesInv, NEW u \in Users, NEW k \in MaybeKey,
         NEW c \in MaybeCoupon, Purchase(u, k, c)
  PROVE  /\ NewOrder(u, k, c) \in Order
         /\ \A o \in orders : o.number # NewOrder(u, k, c).number
         /\ NewOrder(u, k, c) \notin orders
<1>1. NewOrder(u, k, c) \in Order
  BY DEF PurchasesInv, TypeOK, NewOrder, Order, Cart
<1>2. \A o \in orders : o.number \in 1 .. lastNumber
  BY DEF PurchasesInv, NumbersGapFree
<1>3. NewOrder(u, k, c).number = lastNumber + 1 /\ lastNumber \in Nat
  BY DEF NewOrder, PurchasesInv, TypeOK
<1>4. QED
  BY <1>1, <1>2, <1>3

LEMMA PurchaseNumbers ==
  ASSUME PurchasesInv, NEW u \in Users, NEW k \in MaybeKey,
         NEW c \in MaybeCoupon, Purchase(u, k, c)
  PROVE  NumbersGapFree'
<1> DEFINE new == NewOrder(u, k, c)
<1>1. orders' = orders \cup {new} /\ lastNumber' = lastNumber + 1
  BY DEF Purchase
<1>2. new.number = lastNumber + 1 /\ lastNumber \in Nat
  BY DEF NewOrder, PurchasesInv, TypeOK
<1>3. {o.number : o \in orders} = 1 .. lastNumber
  BY DEF PurchasesInv, NumbersGapFree
<1>4. {o.number : o \in orders'} = {o.number : o \in orders} \cup {new.number}
  BY <1>1
<1>5. {o.number : o \in orders'} = 1 .. lastNumber'
  BY <1>1, <1>2, <1>3, <1>4
<1>6. \A o, p \in orders' : o.number = p.number => o = p
  BY <1>1, PurchaseAdds DEF PurchasesInv, NumbersGapFree
<1>7. QED
  BY <1>5, <1>6 DEF NumbersGapFree

LEMMA PurchaseCarts ==
  ASSUME PurchasesInv, NEW u \in Users, NEW k \in MaybeKey,
         NEW c \in MaybeCoupon, Purchase(u, k, c)
  PROVE  CartsOrderedOnce'
<1> DEFINE new == NewOrder(u, k, c)
<1>1. orders' = orders \cup {new} /\ new.user = u /\ new.cart = carts[u].id
  BY DEF Purchase, NewOrder
<1>2. /\ \A v \in Users : carts'[v].id = carts[v].id
      /\ \A v \in Users \ {u} : carts'[v].active = carts[v].active
      /\ carts[u].active /\ ~carts'[u].active
      /\ carts[u].id \in Nat /\ carts[u].id >= 1
  BY DEF PurchasesInv, TypeOK, Purchase, Cart
<1>3. ~ \E o \in orders : o.user = u /\ o.cart = carts[u].id
  BY <1>2 DEF PurchasesInv, CartsOrderedOnce
<1>4. \A o, p \in orders' : o.user = p.user /\ o.cart = p.cart => o = p
  BY <1>1, <1>3 DEF PurchasesInv, CartsOrderedOnce
<1>5. ASSUME NEW v \in Users, NEW n \in 1 .. carts'[v].id
      PROVE  (\E o \in orders' : o.user = v /\ o.cart = n) <=>
               ~(n = carts'[v].id /\ carts'[v].active)
  <2>1. n \in 1 .. carts[v].id
    BY <1>2, <1>5
  <2>2. (\E o \in orders : o.user = v /\ o.cart = n) <=>
          ~(n = carts[v].id /\ carts[v].active)
    BY <2>1 DEF PurchasesInv, CartsOrderedOnce
  <2>3. QED
    BY <1>1, <1>2, <2>2
<1>6. \A o \in orders' : o.cart \in 1 .. carts'[o.user].id
  BY <1>1, <1>2 DEF PurchasesInv, CartsOrderedOnce, TypeOK, Order
<1>7. QED
  BY <1>4, <1>5, <1>6 DEF CartsOrderedOnce

LEMMA PurchaseCoupons ==
  ASSUME PurchasesInv, NEW u \in Users, NEW k \in MaybeKey,
         NEW c \in MaybeCoupon, Purchase(u, k, c)
  PROVE  CouponsCounted'
<1> DEFINE new == NewOrder(u, k, c)
<1>1. /\ orders' = orders \cup {new} /\ new \notin orders
      /\ new.user = u /\ new.coupon = c
  BY PurchaseAdds DEF Purchase, NewOrder
<1> SUFFICES ASSUME NEW d \in Coupons
             PROVE  /\ coupons'[d].used = Cardinality(Usages(d)')
                    /\ coupons'[d].used <= UsageLimit[d]
                    /\ \A v \in Users :
                         Cardinality(UsagesBy(d, v)') <= PerUserLimit[d]
  BY DEF CouponsCounted
<1>2. CASE d # c
  <2>1. Usages(d)' = Usages(d) /\ coupons'[d] = coupons[d]
    BY <1>1, <1>2 DEF Usages, Purchase
  <2>2. \A v \in Users : UsagesBy(d, v)' = UsagesBy(d, v)
    BY <2>1 DEF UsagesBy
  <2>3. QED
    BY <2>1, <2>2 DEF PurchasesInv, CouponsCounted
<1>3. CASE d = c
  <2>1. /\ Usages(d)' = Usages(d) \cup {new} /\ new \notin Usages(d)
        /\ coupons'[d].used = coupons[d].used + 1
        /\ coupons[d].used \in Nat
    BY <1>1, <1>3, NoCouponAssumption
       DEF Usages, Purchase, PurchasesInv, TypeOK, Coupon
  <2>2. Usable(d, coupons[d], u)
    BY <1>3, NoCouponAssumption DEF Purchase
  <2>3. IsFiniteSet(Usages(d)) /\ \A v \in Users : IsFiniteSet(UsagesBy(d, v))
    BY FS_Subset DEF PurchasesInv, Usages, UsagesBy
  <2>4. Cardinality(Usages(d)') = Cardinality(Usages(d)) + 1
    BY <2>1, <2>3, FS_AddElement
  <2>5. coupons[d].used = Cardinality(Usages(d))
    BY DEF PurchasesInv, CouponsCounted
  <2>6. coupons'[d].used <= UsageLimit[d]
    BY <2>1, <2>2, LimitsAssumption DEF Usable
  <2>7. ASSUME NEW v \in Users
        PROVE  Cardinality(UsagesBy(d, v)') <= PerUserLimit[d]
    <3>1. CASE v # u
      <4>1. UsagesBy(d, v)' = UsagesBy(d, v)
        BY <1>1, <2>1, <3>1 DEF UsagesBy
      <4>2. QED
        BY <4>1 DEF PurchasesInv, CouponsCounted
    <3>2. CASE v = u
      <4>1. UsagesBy(d, v)' = UsagesBy(d, v) \cup {new} /\ new \notin UsagesBy(d, v)
        BY <1>1, <2>1, <3>2 DEF UsagesBy
      <4>2. Cardinality(UsagesBy(d, v)') = Cardinality(UsagesBy(d, v)) + 1
        BY <2>3, <4>1, FS_AddElement
      <4>3. Cardinality(UsagesBy(d, v)) \in Nat
        BY <2>3, FS_CardinalityType
      <4>4. Cardinality(UsagesBy(d, v)) < PerUserLimit[d]
        BY <2>2, <3>2 DEF Usable
      <4>5. QED
        BY <4>2, <4>3, <4>4, LimitsAssumption
    <3>3. QED
      BY <3>1, <3>2
  <2>8. QED
    BY <2>1, <2>4, <2>5, <2>6, <2>7
<1>4. QED
  BY <1>2, <1>3

LEMMA PurchaseStep ==
  ASSUME PurchasesInv, NEW u \in Users, NEW k \in MaybeKey,
         NEW c \in MaybeCoupon, Purchase(u, k, c)
  PROVE  PurchasesInv'
<1>1. TypeOK'
  <2>1. carts' \in [Users -> Cart]
    BY DEF PurchasesInv, TypeOK, Purchase, Cart, MaybeCoupon
  <2>2. coupons' \in [Coupons -> Coupon]
    BY DEF PurchasesInv, TypeOK, Purchase, Coupon
  <2>3. orders' \subseteq Order /\ lastNumber' \in Nat
    <3>1. orders' = orders \cup {NewOrder(u, k, c)} /\ lastNumber' = lastNumber + 1
      BY DEF Purchase
    <3>2. NewOrder(u, k, c) \in Order
      BY PurchaseAdds
    <3>3. QED
      BY <3>1, <3>2 DEF PurchasesInv, TypeOK
  <2>4. QED
    BY <2>1, <2>2, <2>3 DEF TypeOK
<1>2. IsFiniteSet(orders')
  BY FS_AddElement DEF PurchasesInv, Purchase
<1>3. \A v \in Users : carts'[v].active => carts'[v].id >= 1
  BY DEF PurchasesInv, TypeOK, Purchase
<1>4. QED
  BY <1>1, <1>2, <1>3, PurchaseNumbers, PurchaseCarts, PurchaseCoupons
     DEF PurchasesInv

-----------------------------------------------------------------------------
LEMMA PurchasesInit == Init => PurchasesInv
<1> SUFFICES ASSUME Init PROVE PurchasesInv
  OBVIOUS
<1>1. TypeOK
  BY DEF Init, TypeOK, Cart, Coupon, MaybeCoupon
<1>2. IsFiniteSet(orders)
  BY FS_EmptySet DEF Init
<1>3. NumbersGapFree /\ \A u \in Users : carts[u].active => carts[u].id >= 1
  BY DEF Init, NumbersGapFree
<1>4. CartsOrderedOnce
  BY DEF Init, CartsOrderedOnce
<1>5. CouponsCounted
  <2>1. \A c \in Coupons : Usages(c) = {} /\ \A u \in Users : UsagesBy(c, u) = {}
    BY DEF Init, Usages, UsagesBy
  <2>2. QED
    <3>1. Cardinality({}) = 0
      BY FS_EmptySet
    <3>2. \A c \in Coupons : /\ coupons[c].used = 0
                             /\ UsageLimit[c] \in Nat /\ PerUserLimit[c] \in Nat
      BY LimitsAssumption DEF Init
    <3>3. \A n \in Nat : 0 <= n
      OBVIOUS
    <3>4. QED
      BY <2>1, <3>1, <3>2, <3>3 DEF CouponsCounted
<1>6. QED
  BY <1>1, <1>2, <1>3, <1>4, <1>5 DEF PurchasesInv

(* Order numbers stay gap-free, carts are ordered once, coupon counters    *)
(* count and limits hold, whatever purchases, carts and coupon edits do.   *)
THEOREM PurchasesSafe == Spec => []PurchasesInv
<1>1. PurchasesInv /\ [Next]_vars => PurchasesInv'
  <2> SUFFICES ASSUME PurchasesInv, [Next]_vars PROVE PurchasesInv'
    OBVIOUS
  <2>1. CASE UNCHANGED vars
    BY <2>1 DEF vars, PurchasesInv, TypeOK, NumbersGapFree, CartsOrderedOnce,
                CouponsCounted, Usages, UsagesBy
  <2>2. CASE Next
    BY <2>2, CartStep, SetActiveStep, PurchaseStep DEF Next
  <2>3. QED
    BY <2>1, <2>2
<1>2. QED
  BY <1>1, PurchasesInit, PTL DEF Spec

=============================================================================
