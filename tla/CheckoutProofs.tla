--------------------------- MODULE CheckoutProofs ---------------------------
(***************************************************************************)
(* Checkout implements Purchases for every set of users, workers, coupons  *)
(* and keys: the row locks and the coupon's version check alone make a     *)
(* concurrent checkout one atomic purchase.                                *)
(***************************************************************************)
EXTENDS Checkout, PurchasesProofs

-----------------------------------------------------------------------------
(* Types *)

LEMMA PriceType ==
  ASSUME CheckoutLocking, NEW w \in Workers, Price(w)
  PROVE  CheckoutTypeOK'
<1> DEFINE u == User(w)
           c == carts[u].coupon
<1>1. u \in Users /\ carts[u].id \in Nat /\ c \in MaybeCoupon
  BY DEF Price, User, Job, CheckoutLocking, CheckoutTypeOK, TypeOK, Cart
<1>2. PICK d \in {c, None} :
        tx' = [tx EXCEPT ![w] =
                 [cart |-> carts[u].id, code |-> c, coupon |-> d,
                  used |-> IF d = None THEN 0 ELSE coupons[d].used,
                  active |-> IF d = None THEN FALSE ELSE coupons[d].active,
                  version |-> IF d = None THEN 0 ELSE version[d],
                  number |-> 0]]
  BY DEF Price
<1>3. d # None => /\ d \in Coupons
                  /\ coupons[d] \in Coupon
                  /\ version[d] \in Nat
  BY <1>1 DEF CheckoutLocking, CheckoutTypeOK, TypeOK, MaybeCoupon
<1>4. tx'[w] \in Tx
  BY <1>1, <1>2, <1>3
     DEF Tx, Coupon, MaybeCoupon, CheckoutLocking, CheckoutTypeOK
<1>5. tx' \in [Workers -> Tx]
  BY <1>2, <1>4 DEF CheckoutLocking, CheckoutTypeOK
<1>6. QED
  BY <1>5 DEF Price, Goto, shop, dbLocks, redis, Positions, CheckoutLocking,
              CheckoutTypeOK, TypeOK

LEMMA CommitType ==
  ASSUME CheckoutLocking, NEW w \in Workers, Commit(w)
  PROVE  CheckoutTypeOK'
<1> USE DEF CheckoutLocking, CheckoutTypeOK, TypeOK
<1>1. tx[w] \in Tx /\ job[w] \in Job
  BY DEF Commit
<1>2. orders' \subseteq Order /\ lastNumber' \in Nat
  BY <1>1 DEF Commit, Job, Tx, Order, User
<1>3. carts' \in [Users -> Cart]
  BY <1>1 DEF Commit, Tx, Cart, MaybeCoupon
<1>4. coupons' \in [Coupons -> Coupon] /\ version' \in [Coupons -> Nat]
  BY <1>1 DEF Commit, Tx, Coupon
<1>5. /\ cartLock' \in [Users -> Holder]
      /\ numberLock' \in Holder
      /\ couponLock' \in [Coupons -> Holder]
  BY DEF Commit, Unlock, Holder
<1>6. /\ UNCHANGED <<redis, job, tx, requests>>
      /\ pc[w] = "counted" /\ pc' = [pc EXCEPT ![w] = "committed"]
  BY DEF Commit, Goto
<1>7. QED
  BY <1>2, <1>3, <1>4, <1>5, <1>6 DEF redis, Positions

LEMMA StoreKeyType ==
  ASSUME CheckoutLocking, NEW w \in Workers, StoreKey(w)
  PROVE  CheckoutTypeOK'
<1> USE DEF CheckoutLocking, CheckoutTypeOK, TypeOK
<1>1. tx[w].number \in Nat /\ User(w) \in Users /\ job[w].key \in MaybeKey
  BY DEF StoreKey, Tx, Job, User
<1>2. stored' \in [Users -> [Keys -> Nat]]
  <2>1. CASE job[w].key # None
    <3>1. job[w].key \in Keys
      BY <1>1, <2>1 DEF MaybeKey
    <3>2. stored' = [stored EXCEPT ![User(w)][job[w].key] = tx[w].number]
          \/ UNCHANGED stored
      BY DEF StoreKey
    <3>3. QED
      BY <1>1, <3>1, <3>2
  <2>2. CASE job[w].key = None
    BY <2>2 DEF StoreKey
  <2>3. QED
    BY <2>1, <2>2
<1>3. QED
  BY <1>2 DEF StoreKey, Goto, shop, dbLocks, Positions

LEMMA CartRequestType ==
  ASSUME CheckoutLocking, NEW u \in Users, CartRequest(u)
  PROVE  CheckoutTypeOK'
<1> USE DEF CheckoutLocking, CheckoutTypeOK, TypeOK
<1>1. carts[u] \in Cart
  OBVIOUS
<1>2. AddItem(u) => carts' \in [Users -> Cart]
  BY <1>1 DEF AddItem, Cart, MaybeCoupon
<1>3. RemoveCoupon(u) => carts' \in [Users -> Cart]
  BY <1>1 DEF RemoveCoupon, Cart, MaybeCoupon
<1>4. ASSUME NEW c \in Coupons, ApplyCoupon(u, c)
      PROVE  carts' \in [Users -> Cart]
  BY <1>1, <1>4 DEF ApplyCoupon, Cart, MaybeCoupon
<1>5. carts' \in [Users -> Cart] /\ UNCHANGED <<coupons, orders, lastNumber>>
  BY <1>2, <1>3, <1>4 DEF CartRequest, AddItem, RemoveCoupon, ApplyCoupon
<1>6. QED
  BY <1>5 DEF CartRequest, dbLocks, redis, local

LEMMA CancelledType ==
  ASSUME CheckoutLocking, NEW w \in Workers, Cancelled(w)
  PROVE  CheckoutTypeOK'
<1> USE DEF CheckoutLocking, CheckoutTypeOK, TypeOK, Holder, Positions
<1>1. CASE Rollback(w) /\ pc[w] \in InTry \cup {"committed"}
  BY <1>1 DEF Rollback, Unlock, Goto, shop, redis, InTry
<1>2. CASE Leave(w) /\ UNCHANGED <<shop, dbLocks, redis, requests>>
  BY <1>2 DEF Leave, Goto, shop, dbLocks, redis, NoJob, NoTx,
              Tx, Job, MaybeCoupon
<1>3. QED
  BY <1>1, <1>2 DEF Cancelled

(* Every step keeps the types.                                             *)
LEMMA TypeStep ==
  ASSUME CheckoutLocking, [CheckoutNext]_allVars
  PROVE  CheckoutTypeOK'
<1> USE WorkersAssumption
        DEF CheckoutLocking, CheckoutTypeOK, TypeOK, Holder, Positions,
            Job, NoJob, Tx, NoTx, MaybeKey, MaybeCoupon, User
<1>1. ASSUME NEW w \in Workers, Begin(w) PROVE CheckoutTypeOK'
  BY <1>1 DEF Begin, Goto, shop, dbLocks, redis
<1>2. ASSUME NEW w \in Workers, LookupHit(w) PROVE CheckoutTypeOK'
  BY <1>2 DEF LookupHit, Leave, Goto, shop, dbLocks, redis
<1>3. ASSUME NEW w \in Workers, LookupMiss(w) PROVE CheckoutTypeOK'
  BY <1>3 DEF LookupMiss, Goto, shop, dbLocks, redis
<1>4. ASSUME NEW w \in Workers, AcquireLock(w) PROVE CheckoutTypeOK'
  BY <1>4 DEF AcquireLock, Goto, shop, dbLocks
<1>5. ASSUME NEW w \in Workers, Conflict(w) PROVE CheckoutTypeOK'
  BY <1>5 DEF Conflict, Leave, Goto, shop, dbLocks
<1>6. ASSUME NEW w \in Workers, LockCart(w) PROVE CheckoutTypeOK'
  BY <1>6 DEF LockCart, Goto, shop, redis
<1>7. ASSUME NEW w \in Workers, NoCart(w) PROVE CheckoutTypeOK'
  BY <1>7 DEF NoCart, Rollback, Unlock, Goto, shop, redis
<1>8. ASSUME NEW w \in Workers, Price(w) PROVE CheckoutTypeOK'
  BY <1>8, PriceType
<1>9. ASSUME NEW w \in Workers, NextNumber(w) PROVE CheckoutTypeOK'
  BY <1>9 DEF NextNumber, Goto, Numbered, shop, redis, MaybeCoupon
<1>10. ASSUME NEW w \in Workers, NoCoupon(w) PROVE CheckoutTypeOK'
  BY <1>10 DEF NoCoupon, Goto, shop, dbLocks, redis
<1>11. ASSUME NEW w \in Workers, UseCoupon(w) PROVE CheckoutTypeOK'
  BY <1>11 DEF UseCoupon, Goto, shop, redis
<1>12. ASSUME NEW w \in Workers, CouponStale(w) PROVE CheckoutTypeOK'
  BY <1>12 DEF CouponStale, Rollback, Unlock, Goto, shop, redis
<1>13. ASSUME NEW w \in Workers, Refuse(w) PROVE CheckoutTypeOK'
  BY <1>13 DEF Refuse, Rollback, Unlock, Goto, shop, redis, InTry
<1>14. ASSUME NEW w \in Workers, Commit(w) PROVE CheckoutTypeOK'
  BY <1>14, CommitType
<1>15. ASSUME NEW w \in Workers, StoreKey(w) PROVE CheckoutTypeOK'
  BY <1>15, StoreKeyType
<1>16. ASSUME NEW w \in Workers, Release(w) PROVE CheckoutTypeOK'
  BY <1>16 DEF Release, Leave, Goto, shop, dbLocks
<1>17. ASSUME NEW w \in Workers, Cancelled(w) PROVE CheckoutTypeOK'
  BY <1>17, CancelledType
<1>18. ASSUME NEW w \in Workers, Crash(w) PROVE CheckoutTypeOK'
  BY <1>18 DEF Crash, Unlock, Leave, Goto, shop, redis
<1>19. ASSUME NEW u \in Users, ExpireLock(u) PROVE CheckoutTypeOK'
  BY <1>19 DEF ExpireLock, shop, dbLocks, local
<1>20. ASSUME NEW u \in Users, CartRequest(u) PROVE CheckoutTypeOK'
  BY <1>20, CartRequestType
<1>21. ASSUME NEW c \in Coupons, EditCoupon(c) PROVE CheckoutTypeOK'
  BY <1>21 DEF EditCoupon, SetActive, dbLocks, redis, local, Coupon
<1>22. CASE UNCHANGED allVars
  BY <1>22 DEF allVars, shop, dbLocks, redis, local
<1>23. ASSUME NEW u \in Users, NEW k \in Keys, ExpireKey(u, k) PROVE CheckoutTypeOK'
  BY <1>23 DEF ExpireKey, shop, dbLocks, local
<1>24. QED
  BY <1>1, <1>2, <1>3, <1>4, <1>5, <1>6, <1>7, <1>8, <1>9, <1>10, <1>11,
     <1>12, <1>13, <1>14, <1>15, <1>16, <1>17, <1>18, <1>19, <1>20, <1>21,
     <1>22, <1>23
     DEF CheckoutNext, HandlerStep

-----------------------------------------------------------------------------
(* Row locks *)

LEMMA CancelledLocks ==
  ASSUME CheckoutLocking, NEW w \in Workers, Cancelled(w)
  PROVE  LocksHeld'
<1> USE WorkersAssumption, NoCouponAssumption
        DEF CheckoutLocking, CheckoutTypeOK, Holder, LocksHeld,
            InTry, Job, Tx, MaybeCoupon, User
<1>1. CASE Rollback(w) /\ pc[w] \in InTry \cup {"committed"}
  BY <1>1 DEF Rollback, Unlock, Goto, shop, redis
<1>2. CASE /\ Leave(w) /\ pc[w] \in {"asked", "unlocked"}
           /\ UNCHANGED <<shop, dbLocks, redis, requests>>
  BY <1>2 DEF Leave, Goto, shop, dbLocks, redis
<1>3. QED
  BY <1>1, <1>2 DEF Cancelled

(* Row locks stay with the transaction that took them.                     *)
LEMMA LocksStep ==
  ASSUME CheckoutLocking, [CheckoutNext]_allVars
  PROVE  LocksHeld'
<1> USE WorkersAssumption, NoCouponAssumption
        DEF CheckoutLocking, CheckoutTypeOK, TypeOK, Holder, LocksHeld,
            InTry, Job, Tx, MaybeKey, MaybeCoupon, User
<1>1. ASSUME NEW w \in Workers, Begin(w) PROVE LocksHeld'
  BY <1>1 DEF Begin, Goto, shop, dbLocks, redis
<1>2. ASSUME NEW w \in Workers, LookupHit(w) PROVE LocksHeld'
  BY <1>2 DEF LookupHit, Leave, Goto, shop, dbLocks, redis
<1>3. ASSUME NEW w \in Workers, LookupMiss(w) PROVE LocksHeld'
  BY <1>3 DEF LookupMiss, Goto, shop, dbLocks, redis
<1>4. ASSUME NEW w \in Workers, AcquireLock(w) PROVE LocksHeld'
  BY <1>4 DEF AcquireLock, Goto, shop, dbLocks
<1>5. ASSUME NEW w \in Workers, Conflict(w) PROVE LocksHeld'
  BY <1>5 DEF Conflict, Leave, Goto, shop, dbLocks
<1>6. ASSUME NEW w \in Workers, LockCart(w) PROVE LocksHeld'
  BY <1>6 DEF LockCart, Goto, shop, redis
<1>7. ASSUME NEW w \in Workers, NoCart(w) PROVE LocksHeld'
  BY <1>7 DEF NoCart, Rollback, Unlock, Goto, shop, redis
<1>8. ASSUME NEW w \in Workers, Price(w) PROVE LocksHeld'
  BY <1>8 DEF Price, Goto, shop, dbLocks, redis
<1>9. ASSUME NEW w \in Workers, NextNumber(w) PROVE LocksHeld'
  BY <1>9 DEF NextNumber, Goto, Numbered, shop, redis
<1>10. ASSUME NEW w \in Workers, NoCoupon(w) PROVE LocksHeld'
  BY <1>10 DEF NoCoupon, Goto, shop, dbLocks, redis, MaybeCoupon
<1>11. ASSUME NEW w \in Workers, UseCoupon(w) PROVE LocksHeld'
  BY <1>11 DEF UseCoupon, Goto, shop, redis, MaybeCoupon
<1>12. ASSUME NEW w \in Workers, CouponStale(w) PROVE LocksHeld'
  BY <1>12 DEF CouponStale, Rollback, Unlock, Goto, shop, redis
<1>13. ASSUME NEW w \in Workers, Refuse(w) PROVE LocksHeld'
  BY <1>13 DEF Refuse, Rollback, Unlock, Goto, shop, redis
<1>14. ASSUME NEW w \in Workers, Commit(w) PROVE LocksHeld'
  BY <1>14 DEF Commit, Unlock, Goto, redis
<1>15. ASSUME NEW w \in Workers, StoreKey(w) PROVE LocksHeld'
  BY <1>15 DEF StoreKey, Goto, shop, dbLocks
<1>16. ASSUME NEW w \in Workers, Release(w) PROVE LocksHeld'
  BY <1>16 DEF Release, Leave, Goto, shop, dbLocks
<1>17. ASSUME NEW w \in Workers, Cancelled(w) PROVE LocksHeld'
  BY <1>17, CancelledLocks
<1>18. ASSUME NEW w \in Workers, Crash(w) PROVE LocksHeld'
  BY <1>18 DEF Crash, Unlock, Leave, Goto, shop, redis
<1>19. ASSUME NEW u \in Users, ExpireLock(u) PROVE LocksHeld'
  BY <1>19 DEF ExpireLock, shop, dbLocks, local
<1>20. ASSUME NEW u \in Users, CartRequest(u) PROVE LocksHeld'
  BY <1>20
     DEF CartRequest, AddItem, RemoveCoupon, ApplyCoupon, dbLocks, redis,
         local
<1>21. ASSUME NEW c \in Coupons, EditCoupon(c) PROVE LocksHeld'
  BY <1>21 DEF EditCoupon, SetActive, dbLocks, redis, local
<1>22. CASE UNCHANGED allVars
  BY <1>22 DEF allVars, shop, dbLocks, redis, local
<1>23. ASSUME NEW u \in Users, NEW k \in Keys, ExpireKey(u, k) PROVE LocksHeld'
  BY <1>23 DEF ExpireKey, shop, dbLocks, local
<1>24. QED
  BY <1>1, <1>2, <1>3, <1>4, <1>5, <1>6, <1>7, <1>8, <1>9, <1>10, <1>11,
     <1>12, <1>13, <1>14, <1>15, <1>16, <1>17, <1>18, <1>19, <1>20, <1>21,
     <1>22, <1>23
     DEF CheckoutNext, HandlerStep

-----------------------------------------------------------------------------
(* Reads *)

LEMMA PriceReads ==
  ASSUME CheckoutLocking, NEW w \in Workers, Price(w)
  PROVE  ReadsAreCurrent'
<1> DEFINE u == User(w)
           c == carts[u].coupon
<1>1. carts[u] = [id |-> carts[u].id, active |-> TRUE, coupon |-> c]
  BY DEF Price, User, Job, CheckoutLocking, CheckoutTypeOK, TypeOK, Cart,
         ReadsAreCurrent
<1>2. /\ tx'[w].cart = carts[u].id /\ tx'[w].code = c
      /\ tx'[w].coupon \in {c, None}
      /\ \A v \in Workers \ {w} : UNCHANGED <<pc[v], tx[v]>>
      /\ pc'[w] = "priced"
      /\ UNCHANGED <<job, carts, lastNumber>>
  BY DEF Price, Goto, shop, CheckoutLocking, CheckoutTypeOK
<1>3. QED
  BY <1>1, <1>2 DEF CheckoutLocking, ReadsAreCurrent, User

(* No cart request touches a cart whose checkout has its row. *)
LEMMA CartRequestReads ==
  ASSUME CheckoutLocking, NEW u \in Users, CartRequest(u)
  PROVE  ReadsAreCurrent'
<1>1. /\ UNCHANGED <<pc, job, tx, lastNumber>>
      /\ \A v \in Users \ {u} : carts'[v] = carts[v]
  BY DEF CartRequest, AddItem, RemoveCoupon, ApplyCoupon, local,
         CheckoutLocking, CheckoutTypeOK, TypeOK
<1>2. \A w \in Workers :
        pc[w] \in InTry \ {"locked"} => User(w) \in Users \ {u}
  BY WorkersAssumption DEF CartRequest, CheckoutLocking, CheckoutTypeOK,
     LocksHeld, InTry, Job, User
<1>3. QED
  BY <1>1, <1>2 DEF CheckoutLocking, ReadsAreCurrent, InTry, User

LEMMA CancelledReads ==
  ASSUME CheckoutLocking, NEW w \in Workers, Cancelled(w)
  PROVE  ReadsAreCurrent'
<1> USE WorkersAssumption, NoCouponAssumption
        DEF CheckoutLocking, CheckoutTypeOK, Holder, ReadsAreCurrent,
            InTry, Job, Tx, MaybeCoupon, User
<1>1. CASE Rollback(w) /\ pc[w] \in InTry \cup {"committed"}
  BY <1>1 DEF Rollback, Unlock, Goto, shop, redis
<1>2. CASE /\ Leave(w) /\ pc[w] \in {"asked", "unlocked"}
           /\ UNCHANGED <<shop, dbLocks, redis, requests>>
  BY <1>2 DEF Leave, Goto, shop, dbLocks, redis
<1>3. QED
  BY <1>1, <1>2 DEF Cancelled

(* What a transaction read of its cart and of the sequence stays true      *)
(* while it holds their rows.                                              *)
LEMMA ReadsStep ==
  ASSUME CheckoutLocking, [CheckoutNext]_allVars
  PROVE  ReadsAreCurrent'
<1> USE WorkersAssumption
        DEF CheckoutLocking, CheckoutTypeOK, TypeOK, LocksHeld,
            ReadsAreCurrent, InTry, Tx, User
<1>1. ASSUME NEW w \in Workers, Begin(w) PROVE ReadsAreCurrent'
  BY <1>1 DEF Begin, Goto, shop, dbLocks, redis
<1>2. ASSUME NEW w \in Workers, LookupHit(w) PROVE ReadsAreCurrent'
  BY <1>2 DEF LookupHit, Leave, Goto, shop, dbLocks, redis
<1>3. ASSUME NEW w \in Workers, LookupMiss(w) PROVE ReadsAreCurrent'
  BY <1>3 DEF LookupMiss, Goto, shop, dbLocks, redis
<1>4. ASSUME NEW w \in Workers, AcquireLock(w) PROVE ReadsAreCurrent'
  BY <1>4 DEF AcquireLock, Goto, shop, dbLocks
<1>5. ASSUME NEW w \in Workers, Conflict(w) PROVE ReadsAreCurrent'
  BY <1>5 DEF Conflict, Leave, Goto, shop, dbLocks
<1>6. ASSUME NEW w \in Workers, LockCart(w) PROVE ReadsAreCurrent'
  BY <1>6 DEF LockCart, Goto, shop, redis
<1>7. ASSUME NEW w \in Workers, NoCart(w) PROVE ReadsAreCurrent'
  BY <1>7 DEF NoCart, Rollback, Unlock, Goto, shop, redis
<1>8. ASSUME NEW w \in Workers, Price(w) PROVE ReadsAreCurrent'
  BY <1>8, PriceReads
<1>9. ASSUME NEW w \in Workers, NextNumber(w) PROVE ReadsAreCurrent'
  BY <1>9 DEF NextNumber, Goto, Numbered, shop, redis
<1>10. ASSUME NEW w \in Workers, NoCoupon(w) PROVE ReadsAreCurrent'
  BY <1>10 DEF NoCoupon, Goto, shop, dbLocks, redis
<1>11. ASSUME NEW w \in Workers, UseCoupon(w) PROVE ReadsAreCurrent'
  BY <1>11 DEF UseCoupon, Goto, shop, redis
<1>12. ASSUME NEW w \in Workers, CouponStale(w) PROVE ReadsAreCurrent'
  BY <1>12 DEF CouponStale, Rollback, Unlock, Goto, shop, redis
<1>13. ASSUME NEW w \in Workers, Refuse(w) PROVE ReadsAreCurrent'
  BY <1>13 DEF Refuse, Rollback, Unlock, Goto, shop, redis
<1>14. ASSUME NEW w \in Workers, Commit(w) PROVE ReadsAreCurrent'
  BY <1>14 DEF Commit, Unlock, Goto, redis
<1>15. ASSUME NEW w \in Workers, StoreKey(w) PROVE ReadsAreCurrent'
  BY <1>15 DEF StoreKey, Goto, shop, dbLocks
<1>16. ASSUME NEW w \in Workers, Release(w) PROVE ReadsAreCurrent'
  BY <1>16 DEF Release, Leave, Goto, shop, dbLocks
<1>17. ASSUME NEW w \in Workers, Cancelled(w) PROVE ReadsAreCurrent'
  BY <1>17, CancelledReads
<1>18. ASSUME NEW w \in Workers, Crash(w) PROVE ReadsAreCurrent'
  BY <1>18 DEF Crash, Unlock, Leave, Goto, shop, redis
<1>19. ASSUME NEW u \in Users, ExpireLock(u) PROVE ReadsAreCurrent'
  BY <1>19 DEF ExpireLock, shop, dbLocks, local
<1>20. ASSUME NEW u \in Users, CartRequest(u) PROVE ReadsAreCurrent'
  BY <1>20, CartRequestReads
<1>21. ASSUME NEW c \in Coupons, EditCoupon(c) PROVE ReadsAreCurrent'
  BY <1>21 DEF EditCoupon, SetActive, dbLocks, redis, local
<1>22. CASE UNCHANGED allVars
  BY <1>22 DEF allVars, shop, dbLocks, redis, local
<1>23. ASSUME NEW u \in Users, NEW k \in Keys, ExpireKey(u, k) PROVE ReadsAreCurrent'
  BY <1>23 DEF ExpireKey, shop, dbLocks, local
<1>24. QED
  BY <1>1, <1>2, <1>3, <1>4, <1>5, <1>6, <1>7, <1>8, <1>9, <1>10, <1>11,
     <1>12, <1>13, <1>14, <1>15, <1>16, <1>17, <1>18, <1>19, <1>20, <1>21,
     <1>22, <1>23
     DEF CheckoutNext, HandlerStep

(* Worker v is past pricing, with coupon c. *)
Uses(v, c) ==
  pc[v] \in {"priced", "numbered", "counted"} /\ tx[v].coupon = c

(* What CouponReads says of v and c. *)
ReadOK(v, c) ==
  /\ tx[v].version <= version[c]
  /\ tx[v].version = version[c] =>
       tx[v].used = coupons[c].used /\ tx[v].active = coupons[c].active
  /\ pc[v] = "counted" =>
       tx[v].version = version[c] /\ Usable(c, coupons[c], User(v))

(* A step that leaves coupons and orders alone, and whose worker goes on   *)
(* with the coupon object it has or has none.                              *)
Frame ==
  /\ UNCHANGED <<coupons, version, orders>>
  /\ \A v \in Workers, c \in Coupons :
       Uses(v, c)' =>
         \/ UNCHANGED <<pc[v], tx[v], job[v]>>
         \/ /\ Uses(v, c) /\ pc'[v] # "counted"
            /\ tx'[v] = Numbered(tx[v], tx'[v].number)

LEMMA CouponFrame ==
  ASSUME CheckoutLocking, Frame
  PROVE  CouponReads'
<1> SUFFICES ASSUME NEW v \in Workers, NEW c \in Coupons, Uses(v, c)'
             PROVE  ReadOK(v, c)'
  BY DEF CouponReads, Uses, ReadOK
<1>1. Uses(v, c)
  BY DEF Frame, Uses, Numbered
<1>2. ReadOK(v, c)
  BY <1>1 DEF CheckoutLocking, CouponReads, Uses, ReadOK
<1>3. \A u : UsagesBy(c, u)' = UsagesBy(c, u)
  BY DEF Frame, UsagesBy, Usages
<1>4. CASE UNCHANGED <<pc[v], tx[v], job[v]>>
  BY <1>2, <1>3, <1>4 DEF Frame, Usable, User, ReadOK
<1>5. CASE pc'[v] # "counted" /\ tx'[v] = Numbered(tx[v], tx'[v].number)
  BY <1>2, <1>5 DEF Frame, Numbered, ReadOK
<1>6. QED
  BY <1>4, <1>5 DEF Frame

(* Pricing reads the coupon as it is. *)
LEMMA PriceCoupon ==
  ASSUME CheckoutLocking, NEW w \in Workers, Price(w)
  PROVE  CouponReads'
<1> SUFFICES ASSUME NEW v \in Workers, NEW c \in Coupons, Uses(v, c)'
             PROVE  ReadOK(v, c)'
  BY DEF CouponReads, Uses, ReadOK
<1>1. UNCHANGED <<coupons, version, orders, job>>
  BY DEF Price, shop
<1>2. CASE v = w
  <2>1. pc'[w] = "priced" /\ version[c] \in Nat
    BY DEF Price, Goto, CheckoutLocking, CheckoutTypeOK
  <2>2. PICK d \in {carts[User(w)].coupon, None} :
          tx'[w] = [cart |-> carts[User(w)].id,
                    code |-> carts[User(w)].coupon, coupon |-> d,
                    used |-> IF d = None THEN 0 ELSE coupons[d].used,
                    active |-> IF d = None THEN FALSE ELSE coupons[d].active,
                    version |-> IF d = None THEN 0 ELSE version[d],
                    number |-> 0]
    BY DEF Price, CheckoutLocking, CheckoutTypeOK
  <2>3. d = c /\ d # None
    BY <1>2, <2>2, NoCouponAssumption DEF Uses
  <2>4. QED
    BY <1>1, <1>2, <2>1, <2>2, <2>3 DEF ReadOK
<1>3. CASE v # w
  <2>1. UNCHANGED <<pc[v], tx[v]>>
    BY <1>3 DEF Price, Goto, CheckoutLocking, CheckoutTypeOK
  <2>2. \A u : UsagesBy(c, u)' = UsagesBy(c, u)
    BY <1>1 DEF UsagesBy, Usages
  <2>3. QED
    BY <1>1, <2>1, <2>2
       DEF CheckoutLocking, CouponReads, Uses, ReadOK, Usable, User
<1>4. QED
  BY <1>2, <1>3

(* The version check makes the object it loaded the current one. *)
LEMMA UseCouponCoupon ==
  ASSUME CheckoutLocking, NEW w \in Workers, UseCoupon(w)
  PROVE  CouponReads'
<1> SUFFICES ASSUME NEW v \in Workers, NEW c \in Coupons, Uses(v, c)'
             PROVE  ReadOK(v, c)'
  BY DEF CouponReads, Uses, ReadOK
<1>1. UNCHANGED <<coupons, version, orders, job, tx>>
  BY DEF UseCoupon, shop
<1>2. \A u : UsagesBy(c, u)' = UsagesBy(c, u)
  BY <1>1 DEF UsagesBy, Usages
<1>3. CASE v = w
  BY <1>1, <1>2, <1>3 DEF UseCoupon, Revalidated, Usable, CheckoutLocking,
                          CouponReads, Uses, ReadOK, User
<1>4. CASE v # w
  <2>1. UNCHANGED pc[v]
    BY <1>4 DEF UseCoupon, Goto, CheckoutLocking, CheckoutTypeOK
  <2>2. QED
    BY <1>1, <1>2, <2>1
       DEF CheckoutLocking, CouponReads, Uses, ReadOK, Usable, User
<1>5. QED
  BY <1>3, <1>4

(* A commit makes every other object of its coupon an old one. *)
LEMMA CommitCoupon ==
  ASSUME CheckoutLocking, NEW w \in Workers, Commit(w)
  PROVE  CouponReads'
<1> SUFFICES ASSUME NEW v \in Workers, NEW c \in Coupons, Uses(v, c)'
             PROVE  ReadOK(v, c)'
  BY DEF CouponReads, Uses, ReadOK
<1>1. /\ v # w /\ UNCHANGED <<pc[v], tx[v], job[v]>>
      /\ tx[v].version \in Nat /\ version[c] \in Nat
      /\ pc[w] = "counted"
  BY DEF Commit, Goto, Uses, CheckoutLocking, CheckoutTypeOK, Tx
<1>2. ReadOK(v, c)
  BY <1>1 DEF CheckoutLocking, CouponReads, Uses, ReadOK
<1>3. CASE tx[w].coupon = c
  <2>1. version'[c] = version[c] + 1
    BY <1>1, <1>3 DEF Commit, CheckoutLocking, CouponReads
  <2>2. pc[v] # "counted"
    BY <1>1, <1>3, NoCouponAssumption
       DEF CheckoutLocking, LocksHeld, Uses
  <2>3. QED
    BY <1>1, <1>2, <2>1, <2>2 DEF ReadOK
<1>4. CASE tx[w].coupon # c
  <2>1. version'[c] = version[c] /\ coupons'[c] = coupons[c]
    BY <1>4 DEF Commit
  <2>2. \A u : UsagesBy(c, u)' = UsagesBy(c, u)
    BY <1>4 DEF UsagesBy, Usages, Commit
  <2>3. QED
    BY <1>1, <1>2, <2>1, <2>2 DEF Usable, User, ReadOK
<1>5. QED
  BY <1>3, <1>4

(* A staff edit too; no use of the coupon is under way then. *)
LEMMA EditCouponCoupon ==
  ASSUME CheckoutLocking, NEW d \in Coupons, EditCoupon(d)
  PROVE  CouponReads'
<1> SUFFICES ASSUME NEW v \in Workers, NEW c \in Coupons, Uses(v, c)'
             PROVE  ReadOK(v, c)'
  BY DEF CouponReads, Uses, ReadOK
<1>1. /\ UNCHANGED <<pc, tx, job, orders>>
      /\ tx[v].version \in Nat /\ version[c] \in Nat
  BY DEF EditCoupon, SetActive, local, CheckoutLocking, CheckoutTypeOK, Tx
<1>2. Uses(v, c) /\ ReadOK(v, c)
  BY <1>1 DEF CheckoutLocking, CouponReads, Uses, ReadOK
<1>3. CASE d = c
  <2>1. version'[c] = version[c] + 1
    BY <1>3 DEF EditCoupon, CheckoutLocking, CheckoutTypeOK
  <2>2. pc[v] # "counted"
    BY <1>2, <1>3, NoCouponAssumption, WorkersAssumption
       DEF CheckoutLocking, LocksHeld, Uses, EditCoupon
  <2>3. QED
    BY <1>1, <1>2, <2>1, <2>2 DEF ReadOK
<1>4. CASE d # c
  <2>1. version'[c] = version[c] /\ coupons'[c] = coupons[c]
    BY <1>4 DEF EditCoupon, SetActive, CheckoutLocking, CheckoutTypeOK, TypeOK
  <2>2. \A u : UsagesBy(c, u)' = UsagesBy(c, u)
    BY <1>1 DEF UsagesBy, Usages
  <2>3. QED
    BY <1>1, <1>2, <2>1, <2>2 DEF Usable, User, ReadOK
<1>5. QED
  BY <1>3, <1>4

(* Every other step is a Frame step, so every step keeps CouponReads.      *)
LEMMA CouponReadsStep ==
  ASSUME CheckoutLocking, [CheckoutNext]_allVars
  PROVE  CouponReads'
<1>1. ASSUME NEW w \in Workers,
             \/ Begin(w) \/ Cancelled(w) \/ Crash(w) \/ Refuse(w)
             \/ HandlerStep(w) /\ ~Price(w) /\ ~UseCoupon(w) /\ ~Commit(w)
      PROVE  Frame
  <2> USE NoCouponAssumption DEF Frame, Uses, CheckoutLocking,
          CheckoutTypeOK, TypeOK, InTry
  <2>1. CASE Begin(w)
    BY <2>1 DEF Begin, Goto, shop, dbLocks, redis
  <2>2. CASE LookupHit(w)
    BY <2>2 DEF LookupHit, Leave, Goto, shop, dbLocks, redis
  <2>3. CASE LookupMiss(w)
    BY <2>3 DEF LookupMiss, Goto, shop, dbLocks, redis
  <2>4. CASE AcquireLock(w)
    BY <2>4 DEF AcquireLock, Goto, shop, dbLocks
  <2>5. CASE Conflict(w)
    BY <2>5 DEF Conflict, Leave, Goto, shop, dbLocks
  <2>6. CASE LockCart(w)
    BY <2>6 DEF LockCart, Goto, shop, redis
  <2>7. CASE NoCart(w)
    BY <2>7 DEF NoCart, Rollback, Unlock, Goto, shop, redis
  <2>8. CASE NextNumber(w)
    BY <2>8 DEF NextNumber, Goto, Numbered, shop, redis
  <2>9. CASE NoCoupon(w)
    BY <2>9 DEF NoCoupon, Goto, shop, dbLocks, redis
  <2>10. CASE CouponStale(w)
    BY <2>10 DEF CouponStale, Rollback, Unlock, Goto, shop, redis
  <2>11. CASE Refuse(w)
    BY <2>11 DEF Refuse, Rollback, Unlock, Goto, shop, redis
  <2>12. CASE StoreKey(w)
    BY <2>12 DEF StoreKey, Goto, shop, dbLocks
  <2>13. CASE Release(w)
    BY <2>13 DEF Release, Leave, Goto, shop, dbLocks
  <2>14. CASE Cancelled(w)
    BY <2>14
       DEF Cancelled, Rollback, Unlock, Leave, Goto, shop, dbLocks, redis
  <2>15. CASE Crash(w)
    BY <2>15 DEF Crash, Unlock, Leave, Goto, shop, redis
  <2>16. QED
    BY <1>1, <2>1, <2>2, <2>3, <2>4, <2>5, <2>6, <2>7, <2>8, <2>9, <2>10,
       <2>11, <2>12, <2>13, <2>14, <2>15
       DEF HandlerStep
<1>2. ASSUME NEW u \in Users,
             ExpireLock(u) \/ CartRequest(u) \/ \E k \in Keys : ExpireKey(u, k)
      PROVE  Frame
  BY <1>2 DEF Frame, Uses, ExpireLock, ExpireKey, CartRequest, AddItem, RemoveCoupon,
              ApplyCoupon, shop, local
<1>3. ASSUME UNCHANGED allVars PROVE Frame
  BY <1>3 DEF Frame, Uses, allVars, shop, local
<1>4. QED
  BY <1>1, <1>2, <1>3, CouponFrame, PriceCoupon, UseCouponCoupon,
     CommitCoupon, EditCouponCoupon DEF CheckoutNext, HandlerStep

-----------------------------------------------------------------------------
(* The theorems *)

LEMMA LockingInit == CheckoutInit => CheckoutLocking
<1> SUFFICES ASSUME CheckoutInit PROVE CheckoutLocking
  OBVIOUS
<1>1. TypeOK
  BY PurchasesInit DEF CheckoutInit, PurchasesInv
<1>2. CheckoutTypeOK
  BY <1>1 DEF CheckoutInit, CheckoutTypeOK, Holder, Positions, Tx, NoTx,
              MaybeCoupon
<1>3. LocksHeld
  BY WorkersAssumption DEF CheckoutInit, LocksHeld, InTry
<1>4. ReadsAreCurrent /\ CouponReads
  BY DEF CheckoutInit, ReadsAreCurrent, CouponReads
<1>5. QED
  BY <1>2, <1>3, <1>4 DEF CheckoutLocking

(* The inductive invariant of Checkout: row locks are held to the end of   *)
(* the transaction, and what it read under them and under the version      *)
(* check is current when it commits.                                       *)
THEOREM CheckoutLockingHolds == CheckoutSpec => []CheckoutLocking
<1>1. CheckoutLocking /\ [CheckoutNext]_allVars => CheckoutLocking'
  BY TypeStep, LocksStep, ReadsStep, CouponReadsStep DEF CheckoutLocking
<1>2. QED
  BY <1>1, LockingInit, PTL DEF CheckoutSpec

(* The variables of a concurrent checkout keep their types. *)
THEOREM CheckoutTypeCorrect == CheckoutSpec => []CheckoutTypeOK
<1>1. CheckoutLocking => CheckoutTypeOK
  BY DEF CheckoutLocking
<1>2. QED
  BY <1>1, CheckoutLockingHolds, PTL

(* The commit of a checkout is the atomic purchase its reads describe. *)
LEMMA CommitPurchases ==
  ASSUME CheckoutLocking, NEW w \in Workers, Commit(w)
  PROVE  Next
<1> DEFINE u == User(w)
           c == tx[w].coupon
<1>1. /\ u \in Users /\ job[w].key \in MaybeKey /\ c \in MaybeCoupon
      /\ tx[w].number = lastNumber + 1
      /\ carts[u] = [id |-> tx[w].cart, active |-> TRUE, coupon |-> tx[w].code]
      /\ c \in {tx[w].code, None}
  BY DEF Commit, CheckoutLocking, CheckoutTypeOK, ReadsAreCurrent, Job, Tx,
         User
<1>2. c # None => /\ c \in Coupons
                  /\ tx[w].used = coupons[c].used
                  /\ tx[w].active = coupons[c].active
                  /\ Usable(c, coupons[c], u)
  BY <1>1 DEF Commit, CheckoutLocking, CouponReads, MaybeCoupon
<1>3. Purchase(u, job[w].key, c)
  <2>1. /\ carts[u].active
        /\ c # None => c = carts[u].coupon /\ Usable(c, coupons[c], u)
    BY <1>1, <1>2
  <2>2. orders' = orders \cup {NewOrder(u, job[w].key, c)}
    BY <1>1 DEF Commit, NewOrder
  <2>3. lastNumber' = lastNumber + 1
    BY <1>1 DEF Commit
  <2>4. carts' = [carts EXCEPT ![u] = [id |-> carts[u].id, active |-> FALSE,
                                       coupon |-> None]]
    BY <1>1 DEF Commit
  <2>5. coupons' = [d \in Coupons |->
                      IF d = c THEN [used |-> coupons[d].used + 1,
                                     active |-> coupons[d].active]
                      ELSE coupons[d]]
    BY <1>1, <1>2, NoCouponAssumption DEF Commit
  <2>6. QED
    BY <2>1, <2>2, <2>3, <2>4, <2>5 DEF Purchase
<1>4. QED
  BY <1>1, <1>3 DEF Next

(* A concurrent, failing, crashing checkout implements atomic purchases.   *)
THEOREM CheckoutRefinement == CheckoutSpec => ImplementsPurchases
<1>1. CheckoutInit => Init
  BY DEF CheckoutInit
<1>2. CheckoutLocking /\ [CheckoutNext]_allVars => [Next]_vars
  <2> SUFFICES ASSUME CheckoutLocking, [CheckoutNext]_allVars PROVE [Next]_vars
    OBVIOUS
  <2>1. ASSUME NEW w \in Workers, Commit(w) PROVE Next
    BY <2>1, CommitPurchases
  <2>2. ASSUME NEW u \in Users, CartRequest(u) PROVE Next
    BY <2>2 DEF CartRequest, Next
  <2>3. ASSUME NEW c \in Coupons, EditCoupon(c) PROVE Next
    BY <2>3 DEF EditCoupon, Next
  <2>4. ASSUME NEW w \in Workers, HandlerStep(w), ~Commit(w)
        PROVE  UNCHANGED vars
    BY <2>4 DEF HandlerStep, LookupHit, LookupMiss, AcquireLock, Conflict,
                LockCart, NoCart, Price, NextNumber, NoCoupon, UseCoupon,
                CouponStale, StoreKey, Release, Rollback, shop, vars
  <2>5. ASSUME NEW w \in Workers,
               Begin(w) \/ Refuse(w) \/ Cancelled(w) \/ Crash(w)
        PROVE  UNCHANGED vars
    BY <2>5 DEF Begin, Refuse, Cancelled, Crash, Rollback, shop, vars
  <2>6. ASSUME NEW u \in Users, ExpireLock(u) \/ \E k \in Keys : ExpireKey(u, k)
        PROVE  UNCHANGED vars
    BY <2>6 DEF ExpireLock, ExpireKey, shop, vars
  <2>7. UNCHANGED allVars => UNCHANGED vars
    BY DEF allVars, shop, vars
  <2>8. QED
    BY <2>1, <2>2, <2>3, <2>4, <2>5, <2>6, <2>7 DEF CheckoutNext
<1>3. QED
  BY <1>1, <1>2, CheckoutLockingHolds, PTL
     DEF CheckoutSpec, ImplementsPurchases, Spec

(* So order numbers stay gap-free and unique under concurrent checkouts,   *)
(* and failed ones leave no gap.                                           *)
THEOREM CheckoutNumbers == CheckoutSpec => []NumbersGapFree
<1>1. PurchasesInv => NumbersGapFree
  BY DEF PurchasesInv
<1>2. QED
  BY <1>1, CheckoutRefinement, PurchasesSafe, PTL DEF ImplementsPurchases

(* A cart is ordered at most once, even when its checkout lock expired or  *)
(* was released by another request.                                        *)
THEOREM CheckoutOncePerCart == CheckoutSpec => []CartsOrderedOnce
<1>1. PurchasesInv => CartsOrderedOnce
  BY DEF PurchasesInv
<1>2. QED
  BY <1>1, CheckoutRefinement, PurchasesSafe, PTL DEF ImplementsPurchases

(* Coupon counters count their usages and no limit is exceeded, although   *)
(* the limits are checked on an object loaded before the row was locked.   *)
THEOREM CheckoutCoupons == CheckoutSpec => []CouponsCounted
<1>1. PurchasesInv => CouponsCounted
  BY DEF PurchasesInv
<1>2. QED
  BY <1>1, CheckoutRefinement, PurchasesSafe, PTL DEF ImplementsPurchases

-----------------------------------------------------------------------------
(* Idempotency keys *)

(* Every step but a commit or the storing of a key: an expiry too. *)
Bystander ==
  /\ orders \subseteq orders'
  /\ \A u \in Users, k \in Keys : stored'[u][k] \in {stored[u][k], 0}
  /\ \A v \in Workers :
       pc'[v] = "committed" => UNCHANGED <<pc[v], tx[v], job[v]>>

LEMMA BystanderKeeps ==
  ASSUME StoredKeyNamesItsOrder, CommittedIsOrdered, Bystander
  PROVE  StoredKeyNamesItsOrder' /\ CommittedIsOrdered'
<1>1. StoredKeyNamesItsOrder'
  BY DEF StoredKeyNamesItsOrder, Bystander
<1>2. CommittedIsOrdered'
  BY DEF CommittedIsOrdered, Bystander, User
<1>3. QED
  BY <1>1, <1>2

LEMMA StepIsBystander ==
  ASSUME CheckoutLocking, [CheckoutNext]_allVars,
         ~ \E w \in Workers : Commit(w) \/ StoreKey(w)
  PROVE  Bystander
<1> USE DEF Bystander, CheckoutLocking, CheckoutTypeOK
<1>1. ASSUME NEW w \in Workers, HandlerStep(w) \/ Refuse(w)
      PROVE  Bystander
  BY <1>1 DEF HandlerStep, LookupHit, LookupMiss, AcquireLock, Conflict,
              LockCart, NoCart, Price, NextNumber, NoCoupon, UseCoupon,
              CouponStale, Refuse, Release, Rollback, Leave, Goto, shop, redis
<1>2. ASSUME NEW w \in Workers, Begin(w) \/ Crash(w)
      PROVE  Bystander
  BY <1>2 DEF Begin, Crash, Leave, Goto, shop, redis
<1>3. ASSUME NEW w \in Workers, Cancelled(w)
      PROVE  Bystander
  BY <1>3 DEF Cancelled, Rollback, Leave, Goto, shop, redis
<1>4. ASSUME NEW u \in Users,
             ExpireLock(u) \/ CartRequest(u) \/ \E k \in Keys : ExpireKey(u, k)
      PROVE  Bystander
  BY <1>4 DEF ExpireLock, ExpireKey, CartRequest, AddItem, RemoveCoupon, ApplyCoupon,
              shop, redis, local
<1>5. ASSUME NEW c \in Coupons, EditCoupon(c)
      PROVE  Bystander
  BY <1>5 DEF EditCoupon, SetActive, redis, local
<1>6. ASSUME UNCHANGED allVars
      PROVE  Bystander
  BY <1>6 DEF allVars, shop, redis, local
<1>7. QED
  BY <1>1, <1>2, <1>3, <1>4, <1>5, <1>6 DEF CheckoutNext

LEMMA CommitKeys ==
  ASSUME CheckoutLocking, StoredKeyNamesItsOrder, CommittedIsOrdered,
         NEW w \in Workers, Commit(w)
  PROVE  StoredKeyNamesItsOrder' /\ CommittedIsOrdered'
<1> DEFINE new == [number |-> tx[w].number, user |-> User(w),
                   cart |-> tx[w].cart, coupon |-> tx[w].coupon,
                   code |-> tx[w].code, key |-> job[w].key]
<1>1. /\ orders' = orders \cup {new}
      /\ UNCHANGED <<stored, job, tx>>
      /\ \A v \in Workers \ {w} : pc'[v] = pc[v]
  BY DEF Commit, Goto, redis, CheckoutLocking, CheckoutTypeOK
<1>2. StoredKeyNamesItsOrder'
  BY <1>1 DEF StoredKeyNamesItsOrder
<1>3. ASSUME NEW v \in Workers, pc'[v] = "committed"
      PROVE  \E o \in orders' : /\ o.number = tx'[v].number
                                /\ o.user = User(v)' /\ o.key = job'[v].key
  <2>1. CASE v = w
    <3>1. /\ new \in orders' /\ new.number = tx'[v].number
          /\ new.user = User(v)' /\ new.key = job'[v].key
      BY <1>1, <2>1 DEF User
    <3>2. QED
      BY <3>1
  <2>2. CASE v # w
    BY <1>1, <1>3, <2>2 DEF CommittedIsOrdered, User
  <2>3. QED
    BY <2>1, <2>2
<1>4. QED
  BY <1>2, <1>3 DEF CommittedIsOrdered

LEMMA StoreKeyKeys ==
  ASSUME CheckoutLocking, StoredKeyNamesItsOrder, CommittedIsOrdered,
         NEW w \in Workers, StoreKey(w)
  PROVE  StoredKeyNamesItsOrder' /\ CommittedIsOrdered'
<1>1. /\ UNCHANGED <<orders, job, tx>>
      /\ \A v \in Workers : pc'[v] = "committed" => pc[v] = "committed"
  BY DEF StoreKey, Goto, shop, CheckoutLocking, CheckoutTypeOK
<1>2. CommittedIsOrdered'
  BY <1>1 DEF CommittedIsOrdered, User
<1>3. PICK o \in orders : /\ o.number = tx[w].number
                          /\ o.user = User(w) /\ o.key = job[w].key
  BY DEF StoreKey, CommittedIsOrdered
<1>4. ASSUME NEW u \in Users, NEW k \in Keys, stored'[u][k] # 0
      PROVE  \E p \in orders' :
               p.number = stored'[u][k] /\ p.user = u /\ p.key = k
  <2>1. \/ stored'[u][k] = stored[u][k]
        \/ u = User(w) /\ k = job[w].key /\ stored'[u][k] = tx[w].number
    BY DEF StoreKey, CheckoutLocking, CheckoutTypeOK
  <2>2. QED
    BY <1>1, <1>3, <1>4, <2>1 DEF StoredKeyNamesItsOrder
<1>5. QED
  BY <1>2, <1>4 DEF StoredKeyNamesItsOrder

(* A stored idempotency key always names the committed order that its user *)
(* placed with it, so a replay is never answered with another order.       *)
THEOREM CheckoutKeys == CheckoutSpec => []StoredKeyNamesItsOrder
<1>1. CheckoutInit => StoredKeyNamesItsOrder /\ CommittedIsOrdered
  BY DEF CheckoutInit, StoredKeyNamesItsOrder, CommittedIsOrdered
<1>2. /\ CheckoutLocking /\ StoredKeyNamesItsOrder /\ CommittedIsOrdered
      /\ [CheckoutNext]_allVars
      => StoredKeyNamesItsOrder' /\ CommittedIsOrdered'
  BY BystanderKeeps, StepIsBystander, CommitKeys, StoreKeyKeys
<1>3. QED
  BY <1>1, <1>2, CheckoutLockingHolds, PTL DEF CheckoutSpec

-----------------------------------------------------------------------------
(* Why checkouts end *)

LEMMA Stages ==
  /\ Stage("idle") = 0 /\ Stage("asked") = 1 /\ Stage("unlocked") = 2
  /\ Stage("locked") = 3 /\ Stage("carted") = 4 /\ Stage("priced") = 5
  /\ Stage("numbered") = 6 /\ Stage("counted") = 7 /\ Stage("committed") = 8
  /\ Stage("finishing") = 9
  BY DEF Stage

(* p comes after q. *)
After(q, p) == p # q /\ (p = "idle" \/ Stage(p) > Stage(q))

LEMMA StepsAfter ==
  /\ \A q \in Positions \ {"idle"} : After(q, "idle")
  /\ \A q \in InTry \cup {"committed"} : After(q, "finishing")
  /\ After("asked", "unlocked") /\ After("unlocked", "locked") /\ After("locked", "carted")
  /\ After("carted", "priced") /\ After("priced", "numbered")
  /\ After("numbered", "counted") /\ After("counted", "committed")
  BY Stages DEF After, Positions, InTry

LEMMA HandlerMovesOn ==
  ASSUME CheckoutTypeOK, NEW w \in Workers,
         HandlerStep(w) \/ Refuse(w) \/ Cancelled(w) \/ Crash(w)
  PROVE  \E p : pc' = [pc EXCEPT ![w] = p] /\ After(pc[w], p)
<1>1. pc[w] \in Positions
  BY DEF CheckoutTypeOK
<1>2. CASE LookupHit(w) \/ Conflict(w) \/ Release(w) \/ Crash(w)
  <2>1. pc[w] # "idle" /\ pc' = [pc EXCEPT ![w] = "idle"]
    BY <1>2 DEF LookupHit, Conflict, Release, Crash, Leave, Goto
  <2>2. QED
    BY <1>1, <2>1, StepsAfter
<1>3. CASE NoCart(w) \/ CouponStale(w) \/ Refuse(w) \/ StoreKey(w)
  <2>1. pc[w] \in InTry \cup {"committed"} /\ pc' = [pc EXCEPT ![w] = "finishing"]
    BY <1>3 DEF NoCart, CouponStale, Refuse, StoreKey, Rollback, Goto, InTry
  <2>2. QED
    BY <2>1, StepsAfter
<1>4. CASE LookupMiss(w)
  BY <1>4, StepsAfter DEF LookupMiss, Goto
<1>5. CASE AcquireLock(w)
  BY <1>5, StepsAfter DEF AcquireLock, Goto
<1>6. CASE LockCart(w)
  BY <1>6, StepsAfter DEF LockCart, Goto
<1>7. CASE Price(w)
  BY <1>7, StepsAfter DEF Price, Goto
<1>8. CASE NextNumber(w)
  BY <1>8, StepsAfter DEF NextNumber, Goto
<1>9. CASE NoCoupon(w) \/ UseCoupon(w)
  BY <1>9, StepsAfter DEF NoCoupon, UseCoupon, Goto
<1>10. CASE Commit(w)
  BY <1>10, StepsAfter DEF Commit, Goto
<1>11. CASE Cancelled(w)
  <2>1. \/ pc[w] \in InTry \cup {"committed"} /\ pc' = [pc EXCEPT ![w] = "finishing"]
        \/ pc[w] # "idle" /\ pc' = [pc EXCEPT ![w] = "idle"]
    BY <1>11 DEF Cancelled, Rollback, Leave, Goto
  <2>2. QED
    BY <1>1, <2>1, StepsAfter
<1>12. QED
  BY <1>2, <1>3, <1>4, <1>5, <1>6, <1>7, <1>8, <1>9, <1>10, <1>11 DEF HandlerStep

(* Nothing moves a checkout but its own steps, its end and its death. *)
LEMMA NobodyMovesBack ==
  ASSUME CheckoutTypeOK, [CheckoutNext]_allVars,
         NEW v \in Workers, pc[v] # "idle", pc'[v] # pc[v]
  PROVE  pc'[v] = "idle" \/ Stage(pc'[v]) > Stage(pc[v])
<1>1. CASE \E w \in Workers : HandlerStep(w) \/ Refuse(w) \/ Cancelled(w) \/ Crash(w)
  <2>1. PICK w \in Workers : HandlerStep(w) \/ Refuse(w) \/ Cancelled(w) \/ Crash(w)
    BY <1>1
  <2>2. PICK p : pc' = [pc EXCEPT ![w] = p] /\ After(pc[w], p)
    BY <2>1, HandlerMovesOn
  <2>3. v = w /\ pc'[v] = p
    BY <2>2 DEF CheckoutTypeOK
  <2>4. QED
    BY <2>2, <2>3 DEF After
<1>2. CASE \E w \in Workers : Begin(w)
  BY <1>2 DEF Begin, Goto, CheckoutTypeOK
<1>3. CASE \E u \in Users :
             ExpireLock(u) \/ CartRequest(u) \/ \E k \in Keys : ExpireKey(u, k)
  BY <1>3 DEF ExpireLock, ExpireKey, CartRequest, local
<1>4. CASE (\E c \in Coupons : EditCoupon(c)) \/ UNCHANGED allVars
  BY <1>4 DEF EditCoupon, local, allVars
<1>5. QED
  BY <1>1, <1>2, <1>3, <1>4 DEF CheckoutNext

(* Who holds what a checkout waits for is further than that checkout. *)
LEMMA WaitsForLater ==
  ASSUME CheckoutLocking, NEW w \in Workers, NEW x \in Workers, WaitsFor(w, x)
  PROVE  /\ pc[x] \in InTry
         /\ \/ pc[w] = "locked" /\ pc[x] \in {"carted", "priced", "numbered", "counted"}
            \/ pc[w] = "priced" /\ pc[x] \in {"numbered", "counted"}
            \/ pc[w] = "numbered" /\ pc[x] = "counted"
<1>1. \/ pc[w] = "locked" /\ pc[x] \in InTry \ {"locked"}
      \/ pc[w] = "priced" /\ pc[x] \in {"numbered", "counted"}
      \/ pc[w] = "numbered" /\ pc[x] = "counted"
  <2>1. CASE pc[w] = "locked" /\ cartLock[User(w)] = x
    <3>1. User(w) \in Users
      BY <2>1 DEF CheckoutLocking, CheckoutTypeOK, Job, User
    <3>2. QED
      BY <2>1, <3>1 DEF CheckoutLocking, LocksHeld
  <2>2. CASE pc[w] = "priced" /\ numberLock = x
    BY <2>2 DEF CheckoutLocking, LocksHeld
  <2>3. CASE /\ pc[w] = "numbered" /\ tx[w].coupon # None
             /\ couponLock[tx[w].coupon] = x
    <3>1. tx[w].coupon \in Coupons
      BY <2>3 DEF CheckoutLocking, CheckoutTypeOK, Tx, MaybeCoupon
    <3>2. QED
      BY <2>3, <3>1 DEF CheckoutLocking, LocksHeld
  <2>4. QED
    BY <2>1, <2>2, <2>3 DEF WaitsFor
<1>2. QED
  BY <1>1 DEF InTry

(* No set of checkouts waits in a circle, no checkout waits for one that   *)
(* has ended, and none repeats a step: what is left of CheckoutsFinish is  *)
(* that each is given its nine steps.                                      *)
THEOREM CheckoutsNeverStuck == CheckoutSpec => []NoCircleOfWaits /\ CheckoutsGoForward
<1> DEFINE A(w) ==
      /\ HandlerStep(w) => pc'[w] # pc[w]
      /\ pc[w] # "idle" /\ pc'[w] # pc[w]
           => pc'[w] = "idle" \/ Stage(pc'[w]) > Stage(pc[w])
<1>1. CheckoutLocking => NoCircleOfWaits
  <2> SUFFICES ASSUME CheckoutLocking PROVE NoCircleOfWaits
    OBVIOUS
  <2>1. ASSUME NEW S \in SUBSET Workers, S # {}
        PROVE  \E w \in S : \A x \in S : ~WaitsFor(w, x)
    <3>1. CASE \E w \in S : pc[w] \notin {"locked", "priced", "numbered"}
      BY <3>1 DEF WaitsFor
    <3>2. CASE /\ \A w \in S : pc[w] \in {"locked", "priced", "numbered"}
               /\ \E w \in S : pc[w] = "numbered"
      BY <3>2, WaitsForLater
    <3>3. CASE /\ \A w \in S : pc[w] \in {"locked", "priced"}
               /\ \E w \in S : pc[w] = "priced"
      BY <3>3, WaitsForLater
    <3>4. CASE \A w \in S : pc[w] = "locked"
      BY <2>1, <3>4, WaitsForLater
    <3>5. QED
      BY <3>1, <3>2, <3>3, <3>4
  <2>2. QED
    BY <2>1, WaitsForLater DEF NoCircleOfWaits
<1>2. CheckoutLocking /\ [CheckoutNext]_allVars => [\A w \in Workers : A(w)]_allVars
  <2> SUFFICES ASSUME CheckoutLocking, [CheckoutNext]_allVars, NEW w \in Workers PROVE A(w)
    OBVIOUS
  <2>1. CheckoutTypeOK
    BY DEF CheckoutLocking
  <2>2. HandlerStep(w) => pc'[w] # pc[w]
    BY <2>1, HandlerMovesOn DEF CheckoutTypeOK, After
  <2>3. QED
    BY <2>1, <2>2, NobodyMovesBack
<1>3. QED
  BY <1>1, <1>2, CheckoutLockingHolds, PTL DEF CheckoutSpec, CheckoutsGoForward

=============================================================================
