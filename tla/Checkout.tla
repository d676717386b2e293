------------------------------ MODULE Checkout ------------------------------
(***************************************************************************)
(* OrderService.place_order: concurrent checkouts of several customers,    *)
(* with the Redis checkout lock and idempotency keys in front, and behind  *)
(* them one PostgreSQL transaction that locks the cart row, the year's     *)
(* order number row and the coupon row, in that order.                     *)
(*                                                                         *)
(* The Redis lock has a TTL and is released by deleting it, whoever set    *)
(* it, so it may be gone, or another request's, while a checkout runs. A   *)
(* checkout may be cancelled and the process may die at any await.         *)
(*                                                                         *)
(* Items, prices and addresses are abstracted to the refusals they cause.  *)
(***************************************************************************)
EXTENDS Purchases

CONSTANTS
  Workers,        \* requests that can be in flight together
  Lapses,         \* may a coupon pass its dates, a cart miss its minimum?
  Faults,         \* may Redis fail, and handlers be cancelled or die?
  MaxRequests,    \* bound: checkouts started in a behaviour
  MaxCarts,       \* bound: carts per user
  MaxVersion      \* bound: staff edits of a coupon

VARIABLES
  version,        \* coupons.version: SQLAlchemy's version_id_col
  cartLock,       \* worker whose transaction holds the user's cart row
  numberLock,     \* ... the order_number_sequences row of the year
  couponLock,     \* ... the coupon row
  lock,           \* Redis orders:checkout_lock:{user}; who set it
  stored,         \* Redis orders:idempotency:{user}:{key}: order number, or 0
  pc,             \* where each worker's handler is
  job,            \* the request a worker is serving
  tx,             \* what its transaction has read and is about to commit
  requests        \* checkouts started so far

shop    == <<carts, coupons, orders, lastNumber, version>>
dbLocks == <<cartLock, numberLock, couponLock>>
redis   == <<lock, stored>>
local   == <<pc, job, tx>>
allVars == <<shop, dbLocks, redis, local, requests>>

ASSUME WorkersAssumption == None \notin Workers
ASSUME FaultsAssumption  == Lapses \in BOOLEAN /\ Faults \in BOOLEAN
ASSUME BoundsAssumption  == MaxRequests \in Nat /\ MaxCarts \in Nat /\ MaxVersion \in Nat

Holder == Workers \cup {None}

Positions == {"idle", "asked", "unlocked", "locked", "carted", "priced",
              "numbered", "counted", "committed", "finishing"}

(* Positions at which the handler is inside its try block, uncommitted. *)
InTry == {"locked", "carted", "priced", "numbered", "counted"}

Job == [user : Users, key : MaybeKey]

NoJob == [user |-> None, key |-> None]

(* cart, code: the id and the coupon of the cart as it was locked;         *)
(* coupon: what recalculate left of that coupon;                           *)
(* used, version: the coupon object the session loaded; number: the order  *)
(* number allocated.                                                       *)
Tx == [cart : Nat, code : MaybeCoupon, coupon : MaybeCoupon, used : Nat,
       active : BOOLEAN, version : Nat, number : Nat]

NoTx == [cart |-> 0, code |-> None, coupon |-> None, used |-> 0,
         active |-> FALSE, version |-> 0, number |-> 0]

(* t with an order number. *)
Numbered(t, n) ==
  [cart |-> t.cart, code |-> t.code, coupon |-> t.coupon, used |-> t.used,
   active |-> t.active, version |-> t.version, number |-> n]

User(w) == job[w].user

-----------------------------------------------------------------------------
CheckoutInit ==
  /\ Init
  /\ version = [c \in Coupons |-> 1]
  /\ cartLock = [u \in Users |-> None]
  /\ numberLock = None
  /\ couponLock = [c \in Coupons |-> None]
  /\ lock = [u \in Users |-> None]
  /\ stored = [u \in Users |-> [k \in Keys |-> 0]]
  /\ pc = [w \in Workers |-> "idle"]
  /\ job = [w \in Workers |-> NoJob]
  /\ tx = [w \in Workers |-> NoTx]
  /\ requests = 0

(* The transaction ends: PostgreSQL releases its row locks. *)
Unlock(w) ==
  /\ cartLock' = [u \in Users |-> IF cartLock[u] = w THEN None ELSE cartLock[u]]
  /\ numberLock' = IF numberLock = w THEN None ELSE numberLock
  /\ couponLock' = [c \in Coupons |->
                      IF couponLock[c] = w THEN None ELSE couponLock[c]]

Goto(w, p) == pc' = [pc EXCEPT ![w] = p]

Leave(w) ==
  /\ Goto(w, "idle")
  /\ job' = [job EXCEPT ![w] = NoJob]
  /\ tx' = [tx EXCEPT ![w] = NoTx]

(* Mutant: the finally runs, the rollback does not. *)
NoRollback(w) ==
  /\ Goto(w, "finishing")
  /\ UNCHANGED <<shop, dbLocks, redis, job, tx, requests>>

(* An exception in the try block: rollback, then on to the finally. *)
Rollback(w) ==
  /\ Unlock(w)
  /\ Goto(w, "finishing")
  /\ UNCHANGED <<shop, redis, job, tx, requests>>

-----------------------------------------------------------------------------
(* Before the transaction *)

Begin(w) ==
  /\ pc[w] = "idle"
  /\ requests < MaxRequests
  /\ requests' = requests + 1
  /\ \E u \in Users, k \in MaybeKey :
       job' = [job EXCEPT ![w] = [user |-> u, key |-> k]]
  /\ Goto(w, "asked")
  /\ UNCHANGED <<shop, dbLocks, redis, tx>>

(* The key names an order of the user: it is the response. *)
LookupHit(w) ==
  /\ pc[w] = "asked"
  /\ job[w].key # None
  /\ stored[User(w)][job[w].key] # 0
  /\ Leave(w)
  /\ UNCHANGED <<shop, dbLocks, redis, requests>>

(* get_idempotent_order_id answers None also when Redis fails. *)
LookupMiss(w) ==
  /\ pc[w] = "asked"
  /\ job[w].key # None => stored[User(w)][job[w].key] = 0 \/ Faults
  /\ Goto(w, "unlocked")
  /\ UNCHANGED <<shop, dbLocks, redis, job, tx, requests>>

(* SET NX with a TTL. *)
AcquireLock(w) ==
  /\ pc[w] = "unlocked"
  /\ lock[User(w)] = None
  /\ lock' = [lock EXCEPT ![User(w)] = w]
  /\ Goto(w, "locked")
  /\ UNCHANGED <<shop, dbLocks, stored, job, tx, requests>>

(* The lock is taken, or Redis failed, before or after it set the key: the *)
(* request is refused, outside the try block whose finally releases.       *)
Conflict(w) ==
  /\ pc[w] = "unlocked"
  /\ lock[User(w)] # None \/ Faults
  /\ \/ UNCHANGED lock
     \/ lock[User(w)] = None /\ lock' = [lock EXCEPT ![User(w)] = w]
  /\ Leave(w)
  /\ UNCHANGED <<shop, dbLocks, stored, requests>>

-----------------------------------------------------------------------------
(* The transaction *)

(* Mutant: SELECT without FOR UPDATE. *)
ReadCart(w) ==
  /\ pc[w] = "locked"
  /\ carts[User(w)].active
  /\ Goto(w, "carted")
  /\ UNCHANGED <<shop, dbLocks, redis, job, tx, requests>>

(* SELECT ... FOR UPDATE waits for the row, then looks again whether it is *)
(* still active.                                                           *)
LockCart(w) ==
  /\ pc[w] = "locked"
  /\ cartLock[User(w)] = None
  /\ carts[User(w)].active
  /\ cartLock' = [cartLock EXCEPT ![User(w)] = w]
  /\ Goto(w, "carted")
  /\ UNCHANGED <<shop, numberLock, couponLock, redis, job, tx, requests>>

NoCart(w) ==
  /\ pc[w] = "locked"
  /\ cartLock[User(w)] = None
  /\ ~carts[User(w)].active
  /\ Rollback(w)

(* The validation and both recalculations, one session's reads: a coupon   *)
(* validate_for_user rejects is taken off the cart, without an issue.      *)
Price(w) ==
  LET u == User(w)
      c == carts[u].coupon
  IN /\ pc[w] = "carted"
     /\ \E d \in {c, None} :
          /\ d # None => Usable(d, coupons[d], u)
          /\ d # c => Lapses \/ ~Usable(c, coupons[c], u)
          /\ tx' = [tx EXCEPT ![w] =
                      [cart |-> carts[u].id, code |-> c, coupon |-> d,
                       used |-> IF d = None THEN 0 ELSE coupons[d].used,
                       active |-> IF d = None THEN FALSE ELSE coupons[d].active,
                       version |-> IF d = None THEN 0 ELSE version[d],
                       number |-> 0]]
     /\ Goto(w, "priced")
     /\ UNCHANGED <<shop, dbLocks, redis, job, requests>>

(* Mutant: SELECT without FOR UPDATE. *)
ReadNumber(w) ==
  /\ pc[w] = "priced"
  /\ tx' = [tx EXCEPT ![w] = Numbered(@, lastNumber + 1)]
  /\ Goto(w, "numbered")
  /\ UNCHANGED <<shop, dbLocks, redis, job, requests>>

(* The FOR UPDATE of the sequence row is the session's first read of it.   *)
(* Without a row yet, the insert of one waits on the unique year instead.  *)
NextNumber(w) ==
  /\ pc[w] = "priced"
  /\ numberLock = None
  /\ numberLock' = w
  /\ tx' = [tx EXCEPT ![w] = Numbered(@, lastNumber + 1)]
  /\ Goto(w, "numbered")
  /\ UNCHANGED <<shop, cartLock, couponLock, redis, job, requests>>

NoCoupon(w) ==
  /\ pc[w] = "numbered"
  /\ tx[w].coupon = None
  /\ Goto(w, "counted")
  /\ UNCHANGED <<shop, dbLocks, redis, job, tx, requests>>

(* get_for_update locks the row but gives back the object Price loaded:    *)
(* validate_for_user sees that, and a new count of the user's usages. The  *)
(* UPDATE of used_count then checks the version Price saw.                 *)
Revalidated(w) ==
  Usable(tx[w].coupon, [used |-> tx[w].used, active |-> tx[w].active], User(w))

(* Mutant: the row lock is trusted, the version not checked. *)
UseCouponUnchecked(w) ==
  LET c == tx[w].coupon
  IN /\ pc[w] = "numbered"
     /\ c # None
     /\ couponLock[c] = None
     /\ Revalidated(w)
     /\ couponLock' = [couponLock EXCEPT ![c] = w]
     /\ Goto(w, "counted")
     /\ UNCHANGED <<shop, cartLock, numberLock, redis, job, tx, requests>>

UseCoupon(w) ==
  LET c == tx[w].coupon
  IN /\ pc[w] = "numbered"
     /\ c # None
     /\ couponLock[c] = None
     /\ Revalidated(w)
     /\ version[c] = tx[w].version
     /\ couponLock' = [couponLock EXCEPT ![c] = w]
     /\ Goto(w, "counted")
     /\ UNCHANGED <<shop, cartLock, numberLock, redis, job, tx, requests>>

(* Rejected, or the UPDATE matched no row: StaleDataError. *)
CouponStale(w) ==
  /\ pc[w] = "numbered"
  /\ tx[w].coupon # None
  /\ couponLock[tx[w].coupon] = None
  /\ ~Revalidated(w) \/ version[tx[w].coupon] # tx[w].version
  /\ Rollback(w)

(* Payment method, a validation issue, a pricing error, an unknown         *)
(* address, a coupon past its dates or deleted.                            *)
Refuse(w) ==
  /\ pc[w] \in InTry \ {"counted"}
  /\ pc[w] = "numbered" => tx[w].coupon # None
  /\ Rollback(w)

(* Mutant: the cart is emptied of its coupon but not closed. *)
CommitOpenCart(w) ==
  LET u == User(w)
      t == tx[w]
  IN /\ pc[w] = "counted"
     /\ orders' = orders \cup
          {[number |-> t.number, user |-> u, cart |-> t.cart,
            coupon |-> t.coupon, code |-> t.code, key |-> job[w].key]}
     /\ lastNumber' = t.number
     /\ carts' = [carts EXCEPT
                    ![u] = [id |-> t.cart, active |-> TRUE, coupon |-> None]]
     /\ UNCHANGED <<coupons, version>>
     /\ Unlock(w)
     /\ Goto(w, "committed")
     /\ UNCHANGED <<redis, job, tx, requests>>

(* The order with its items, usage and timeline, the coupon's count, the   *)
(* sequence and the cart's conversion become visible together.             *)
Commit(w) ==
  LET u == User(w)
      t == tx[w]
  IN /\ pc[w] = "counted"
     /\ orders' = orders \cup
          {[number |-> t.number, user |-> u, cart |-> t.cart,
            coupon |-> t.coupon, code |-> t.code, key |-> job[w].key]}
     /\ lastNumber' = t.number
     /\ carts' = [carts EXCEPT
                    ![u] = [id |-> t.cart, active |-> FALSE, coupon |-> None]]
     /\ coupons' = [c \in Coupons |->
                      IF c = t.coupon
                        THEN [used |-> t.used + 1, active |-> t.active]
                        ELSE coupons[c]]
     /\ version' = [c \in Coupons |->
                      IF c = t.coupon THEN t.version + 1 ELSE version[c]]
     /\ Unlock(w)
     /\ Goto(w, "committed")
     /\ UNCHANGED <<redis, job, tx, requests>>

-----------------------------------------------------------------------------
(* After the commit *)

(* Mutant: the key is stored before the commit. *)
StoreKeyEarly(w) ==
  \/ /\ pc[w] = "counted" /\ job[w].key # None
     /\ stored' = [stored EXCEPT ![User(w)][job[w].key] = tx[w].number]
     /\ UNCHANGED <<shop, dbLocks, lock, local, requests>>
  \/ /\ pc[w] = "committed"
     /\ Goto(w, "finishing")
     /\ UNCHANGED <<shop, dbLocks, redis, job, tx, requests>>

(* The caches are invalidated and the key stored; Redis errors are logged. *)
StoreKey(w) ==
  /\ pc[w] = "committed"
  /\ \/ /\ job[w].key # None
        /\ stored' = [stored EXCEPT ![User(w)][job[w].key] = tx[w].number]
     \/ /\ job[w].key = None \/ Faults
        /\ UNCHANGED stored
  /\ Goto(w, "finishing")
  /\ UNCHANGED <<shop, dbLocks, lock, job, tx, requests>>

(* finally: DEL of the key, set by this request or not; errors are logged. *)
Release(w) ==
  /\ pc[w] = "finishing"
  /\ \/ lock' = [lock EXCEPT ![User(w)] = None]
     \/ Faults /\ UNCHANGED lock
  /\ Leave(w)
  /\ UNCHANGED <<shop, dbLocks, stored, requests>>

-----------------------------------------------------------------------------
(* The client hangs up, a statement times out or the database is gone: the *)
(* handler gets an exception, the transaction rolls back, finally runs.    *)
Cancelled(w) ==
  /\ Faults
  /\ \/ pc[w] \in InTry \cup {"committed"} /\ Rollback(w)
     \/ /\ pc[w] \in {"asked", "unlocked"}
        /\ Leave(w)
        /\ UNCHANGED <<shop, dbLocks, redis, requests>>

(* The process dies: PostgreSQL rolls back, Redis keeps what it has. *)
Crash(w) ==
  /\ Faults
  /\ pc[w] # "idle"
  /\ Unlock(w)
  /\ Leave(w)
  /\ UNCHANGED <<shop, redis, requests>>

(* Mutant: the lock is set without a TTL. *)
LockForever(u) == FALSE /\ UNCHANGED allVars

(* checkout_lock_ttl_seconds passed, whether or not its setter is done. *)
ExpireLock(u) ==
  /\ lock[u] # None
  /\ lock' = [lock EXCEPT ![u] = None]
  /\ UNCHANGED <<shop, dbLocks, stored, local, requests>>

(* A key is stored for a day, or for order_cache_ttl_seconds if that is longer. *)
ExpireKey(u, k) ==
  /\ stored[u][k] # 0
  /\ stored' = [stored EXCEPT ![u][k] = 0]
  /\ UNCHANGED <<shop, dbLocks, lock, local, requests>>

(* Cart requests lock the cart row too; each is one short transaction. *)
CartRequest(u) ==
  /\ cartLock[u] = None
  /\ \/ carts[u].id < MaxCarts /\ AddItem(u)
     \/ RemoveCoupon(u)
     \/ \E c \in Coupons : ApplyCoupon(u, c)
  /\ UNCHANGED <<version, dbLocks, redis, local, requests>>

EditCoupon(c) ==
  /\ couponLock[c] = None
  /\ version[c] < MaxVersion
  /\ SetActive(c)
  /\ version' = [version EXCEPT ![c] = @ + 1]
  /\ UNCHANGED <<dbLocks, redis, local, requests>>

HandlerStep(w) ==
  \/ LookupHit(w) \/ LookupMiss(w) \/ AcquireLock(w) \/ Conflict(w)
  \/ LockCart(w) \/ NoCart(w) \/ Price(w) \/ NextNumber(w)
  \/ NoCoupon(w) \/ UseCoupon(w) \/ CouponStale(w) \/ Commit(w)
  \/ StoreKey(w) \/ Release(w)

CheckoutNext ==
  \/ \E w \in Workers : Begin(w) \/ HandlerStep(w) \/ Refuse(w)
                        \/ Cancelled(w) \/ Crash(w)
  \/ \E u \in Users : ExpireLock(u) \/ CartRequest(u) \/ \E k \in Keys : ExpireKey(u, k)
  \/ \E c \in Coupons : EditCoupon(c)

CheckoutSpec == CheckoutInit /\ [][CheckoutNext]_allVars

(* Every await of a handler returns unless it waits for a row lock, and    *)
(* the TTL passes. Nobody has to call, and no request has to be refused.   *)
Fairness ==
  /\ \A w \in Workers : WF_allVars(HandlerStep(w))
  /\ \A u \in Users : WF_allVars(ExpireLock(u))

FairCheckoutSpec == CheckoutSpec /\ Fairness

-----------------------------------------------------------------------------
(* Properties *)

(* Every variable has its type; a worker has a job while it is not idle. *)
CheckoutTypeOK ==
  /\ TypeOK
  /\ version \in [Coupons -> Nat]
  /\ cartLock \in [Users -> Holder]
  /\ numberLock \in Holder
  /\ couponLock \in [Coupons -> Holder]
  /\ lock \in [Users -> Holder]
  /\ stored \in [Users -> [Keys -> Nat]]
  /\ pc \in [Workers -> Positions]
  /\ job \in [Workers -> Job \cup {NoJob}]
  /\ \A w \in Workers : pc[w] # "idle" => job[w] \in Job
  /\ tx \in [Workers -> Tx]
  /\ requests \in Nat

(* However checkouts of the same or different users interleave, fail or    *)
(* die, with or without the Redis lock, what is committed only takes the   *)
(* atomic steps of Purchases.                                              *)
ImplementsPurchases == Spec

(* An idempotency key that is stored names a committed order that the same *)
(* user placed with this very key: a replayed request is never answered    *)
(* with another order (store_idempotent_order_id after the commit).        *)
StoredKeyNamesItsOrder ==
  \A u \in Users, k \in Keys :
    stored[u][k] # 0 =>
      \E o \in orders : o.number = stored[u][k] /\ o.user = u /\ o.key = k

(* A checkout lock does not outlive its request for good: one a dead       *)
(* process left behind stops refusing the user (checkout_lock_ttl_seconds).*)
LockClears ==
  \A u \in Users : lock[u] # None ~> lock[u] = None

(* Every checkout ends: cart, sequence and coupon rows are locked in one   *)
(* order, so checkouts never wait for each other in a circle.              *)
CheckoutsFinish ==
  \A w \in Workers : pc[w] # "idle" ~> pc[w] = "idle"

(* In the end checkouts are over and no lock of theirs is left. *)
CheckoutsSettle == CheckoutsFinish /\ LockClears

-----------------------------------------------------------------------------
(* Why it works: the invariant the proofs of CheckoutProofs rest on *)

(* Row locks are held from the statement that takes them to the end of the *)
(* transaction, and by nobody else.                                        *)
LocksHeld ==
  /\ \A w \in Workers :
       /\ pc[w] \in InTry \ {"locked"} => cartLock[User(w)] = w
       /\ pc[w] \in {"numbered", "counted"} => numberLock = w
       /\ pc[w] = "counted" /\ tx[w].coupon # None =>
            couponLock[tx[w].coupon] = w
  /\ \A w \in Workers :
       /\ \A u \in Users :
            cartLock[u] = w => pc[w] \in InTry \ {"locked"} /\ User(w) = u
       /\ numberLock = w => pc[w] \in {"numbered", "counted"}
       /\ \A c \in Coupons :
            couponLock[c] = w => pc[w] = "counted" /\ tx[w].coupon = c

(* What a transaction read under a row lock is still so. *)
ReadsAreCurrent ==
  \A w \in Workers :
    /\ pc[w] = "carted" => carts[User(w)].active
    /\ pc[w] \in {"priced", "numbered", "counted"} =>
         /\ carts[User(w)] = [id |-> tx[w].cart, active |-> TRUE,
                              coupon |-> tx[w].code]
         /\ tx[w].coupon \in {tx[w].code, None}
    /\ pc[w] \in {"numbered", "counted"} => tx[w].number = lastNumber + 1

(* The coupon object is as old as its version says; a worker that counted  *)
(* its use has the current one, and all its conditions hold.               *)
CouponReads ==
  \A w \in Workers, c \in Coupons :
    pc[w] \in {"priced", "numbered", "counted"} /\ tx[w].coupon = c =>
      /\ tx[w].version <= version[c]
      /\ tx[w].version = version[c] =>
           tx[w].used = coupons[c].used /\ tx[w].active = coupons[c].active
      /\ pc[w] = "counted" =>
           tx[w].version = version[c] /\ Usable(c, coupons[c], User(w))

(* What a worker commits is an order of its user and key. *)
CommittedIsOrdered ==
  \A w \in Workers :
    pc[w] = "committed" =>
      \E o \in orders : /\ o.number = tx[w].number
                        /\ o.user = User(w) /\ o.key = job[w].key

(* The inductive invariant. It does not mention the Redis lock: the row    *)
(* locks and the version check are what checkout correctness rests on.     *)
CheckoutLocking ==
  CheckoutTypeOK /\ LocksHeld /\ ReadsAreCurrent /\ CouponReads

-----------------------------------------------------------------------------
(* Why checkouts end: nothing below mentions fairness *)

(* The next statement of w locks a row that the transaction of x holds. *)
WaitsFor(w, x) ==
  \/ pc[w] = "locked" /\ cartLock[User(w)] = x
  \/ pc[w] = "priced" /\ numberLock = x
  \/ pc[w] = "numbered" /\ tx[w].coupon # None /\ couponLock[tx[w].coupon] = x

(* Of any checkouts one waits for none of the others: cart, sequence and    *)
(* coupon rows are locked in this order, so there is no circle of waiting   *)
(* transactions, of whatever length, and who holds a row has not ended.     *)
NoCircleOfWaits ==
  /\ \A S \in SUBSET Workers : S # {} => \E w \in S : \A x \in S : ~WaitsFor(w, x)
  /\ \A w, x \in Workers : WaitsFor(w, x) => pc[x] \in InTry

(* How far a checkout has come. *)
Stage(p) ==
  CASE p = "idle" -> 0 [] p = "asked" -> 1 [] p = "unlocked" -> 2 [] p = "locked" -> 3
    [] p = "carted" -> 4 [] p = "priced" -> 5 [] p = "numbered" -> 6
    [] p = "counted" -> 7 [] p = "committed" -> 8 [] p = "finishing" -> 9

(* Each step of a checkout brings it further, nothing brings it back, and   *)
(* only itself further: it has ended after nine steps of its own at most,   *)
(* whatever others do and however it fails (place_order repeats nothing).   *)
CheckoutsGoForward ==
  [][\A w \in Workers :
       /\ HandlerStep(w) => pc'[w] # pc[w]
       /\ pc[w] # "idle" /\ pc'[w] # pc[w]
            => pc'[w] = "idle" \/ Stage(pc'[w]) > Stage(pc[w])]_allVars

-----------------------------------------------------------------------------
(* What the documentation says and the code does not do *)

(* docs/orders.md: "Checkout lock + idempotency keys prevent double        *)
(* submit." One key would place at most one order.                         *)
NoDoubleSubmit ==
  \A o, p \in orders : o.user = p.user /\ o.key = p.key /\ o.key # None => o = p

=============================================================================
