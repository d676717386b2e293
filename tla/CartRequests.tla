---------------------------- MODULE CartRequests ----------------------------
(***************************************************************************)
(* CartService, with the cart's part of checkout: concurrent requests of   *)
(* one customer on the cart row, its lines and the cached summary.         *)
(*                                                                         *)
(* A mutation takes the row lock when there is an active cart to lock. The *)
(* first request of a customer finds none and goes on without a lock, as   *)
(* the checkout validation always does; then only the version in the final *)
(* UPDATE of the row says whether what was loaded is still there.          *)
(***************************************************************************)
EXTENDS CartMachine

CONSTANTS
  Workers,        \* requests that can be in flight together
  Faults,         \* may Redis fail, and handlers die?
  MaxRequests     \* bound: requests started in a behaviour

VARIABLES
  stamp,          \* the cart row and its version, numbered over all carts
  rowLock,        \* worker whose transaction holds the cart row
  summary,        \* version that cart:summary:{user} shows, or None
  pc,             \* where each worker's handler is
  job,            \* what it is doing
  seen,           \* the cart object of its session, as loaded
  seenStamp,      \* ... and the version it was loaded with
  mine,           \* the cart as its transaction is about to leave it
  requests        \* requests started so far

shared  == <<cart, stamp>>
session == <<seen, seenStamp, mine>>
allVars == <<shared, rowLock, summary, pc, job, session, requests>>

ASSUME WorkersAssumption == None \notin Workers
ASSUME CartBoundsAssumption == Faults \in BOOLEAN /\ MaxRequests \in Nat

Positions == {"idle", "asked", "unlocked", "missing", "created", "found",
              "loaded", "decided", "flushed", "committed"}

(* mutate: a request of the cart endpoints; view: get_cart or get_summary; *)
(* validate: the checkout validation; order: place_order; touch: a         *)
(* mutation that goes on with another cart than it began with.             *)
Jobs == {"mutate", "view", "validate", "order", "touch"}

(* A cart object with its columns only, and with its lines. *)
Columns(c) ==
  [id |-> c.id, active |-> c.active, lines |-> <<>>, coupon |-> c.coupon,
   subtotal |-> c.subtotal, discount |-> c.discount]

WithLines(c, lines) ==
  [id |-> c.id, active |-> c.active, lines |-> lines, coupon |-> c.coupon,
   subtotal |-> c.subtotal, discount |-> c.discount]

CartInit ==
  /\ Init
  /\ stamp = 0
  /\ rowLock = None
  /\ summary = None
  /\ pc = [w \in Workers |-> "idle"]
  /\ job = [w \in Workers |-> "view"]
  /\ seen = [w \in Workers |-> NewCart(0)]
  /\ seenStamp = [w \in Workers |-> 0]
  /\ mine = [w \in Workers |-> NewCart(0)]
  /\ requests = 0

Goto(w, p) == pc' = [pc EXCEPT ![w] = p]

Unlock(w) == rowLock' = IF rowLock = w THEN None ELSE rowLock

(* Mutant: the connection goes back to the pool in its transaction. *)
LeaveLocked(w) ==
  /\ Goto(w, "idle")
  /\ job' = [job EXCEPT ![w] = "view"]
  /\ seen' = [seen EXCEPT ![w] = NewCart(0)]
  /\ seenStamp' = [seenStamp EXCEPT ![w] = 0]
  /\ mine' = [mine EXCEPT ![w] = NewCart(0)]
  /\ UNCHANGED rowLock

(* The request ends; the transaction, if it is still open, is rolled back. *)
Leave(w) ==
  /\ Unlock(w)
  /\ Goto(w, "idle")
  /\ job' = [job EXCEPT ![w] = "view"]
  /\ seen' = [seen EXCEPT ![w] = NewCart(0)]
  /\ seenStamp' = [seenStamp EXCEPT ![w] = 0]
  /\ mine' = [mine EXCEPT ![w] = NewCart(0)]

(* The session loads the columns of the cart row. *)
ReadRow(w) ==
  /\ seen' = [seen EXCEPT ![w] = Columns(cart)]
  /\ seenStamp' = [seenStamp EXCEPT ![w] = stamp]
  /\ UNCHANGED mine

-----------------------------------------------------------------------------
(* The request and the cart it works on *)

Begin(w) ==
  /\ pc[w] = "idle"
  /\ requests < MaxRequests
  /\ requests' = requests + 1
  /\ \E j \in {"mutate", "view", "validate", "order"} :
       job' = [job EXCEPT ![w] = j]
  /\ Goto(w, "asked")
  /\ UNCHANGED <<shared, rowLock, summary, session>>

(* The cached summary answers get_summary. *)
SummaryHit(w) ==
  /\ pc[w] = "asked"
  /\ job[w] = "view"
  /\ summary # None
  /\ Leave(w)
  /\ UNCHANGED <<shared, summary, requests>>

(* get_cart, no entry, or Redis failed; or a validation, which never locks.*)
NoLock(w) ==
  /\ pc[w] = "asked"
  /\ job[w] \in {"view", "validate"}
  /\ Goto(w, "unlocked")
  /\ UNCHANGED <<shared, rowLock, summary, job, session, requests>>

(* get_active_for_update; what follows finds the same object. *)
LockCart(w) ==
  /\ pc[w] = "asked"
  /\ job[w] \in {"mutate", "order"}
  /\ rowLock = None
  /\ cart.active
  /\ rowLock' = w
  /\ ReadRow(w)
  /\ Goto(w, "found")
  /\ UNCHANGED <<shared, summary, job, requests>>

(* There is no active cart to lock: a mutation goes on without. *)
NothingToLock(w) ==
  /\ pc[w] = "asked"
  /\ job[w] = "mutate"
  /\ ~cart.active
  /\ Goto(w, "unlocked")
  /\ UNCHANGED <<shared, rowLock, summary, job, session, requests>>

NothingToOrder(w) ==
  /\ pc[w] = "asked"
  /\ job[w] = "order"
  /\ ~cart.active
  /\ Leave(w)
  /\ UNCHANGED <<shared, summary, requests>>

(* get_or_create_cart. *)
FindCart(w) ==
  /\ pc[w] = "unlocked"
  /\ cart.active
  /\ ReadRow(w)
  /\ Goto(w, "found")
  /\ UNCHANGED <<shared, rowLock, summary, job, requests>>

MissCart(w) ==
  /\ pc[w] = "unlocked"
  /\ ~cart.active
  /\ Goto(w, "missing")
  /\ UNCHANGED <<shared, rowLock, summary, job, session, requests>>

(* The insert and its commit. *)
CreateCart(w) ==
  /\ pc[w] = "missing"
  /\ OpenCart
  /\ stamp' = stamp + 1
  /\ seen' = [seen EXCEPT ![w] = NewCart(cart.id + 1)]
  /\ seenStamp' = [seenStamp EXCEPT ![w] = stamp + 1]
  /\ Goto(w, "created")
  /\ UNCHANGED <<rowLock, summary, job, mine, requests>>

(* uq_carts_user_active refuses a second active cart. *)
CreateRefused(w) ==
  /\ pc[w] = "missing"
  /\ cart.active
  /\ Leave(w)
  /\ UNCHANGED <<shared, summary, requests>>

(* _require_cart after the commit: the object created keeps its columns,   *)
(* unless the customer has another active cart by now.                     *)
RequireCart(w) ==
  /\ pc[w] = "created"
  /\ cart.active
  /\ IF seen[w].id = cart.id THEN UNCHANGED session ELSE ReadRow(w)
  /\ Goto(w, "found")
  /\ UNCHANGED <<shared, rowLock, summary, job, requests>>

(* ... or none: NotFoundException. *)
CreatedGone(w) ==
  /\ pc[w] = "created"
  /\ ~cart.active
  /\ Leave(w)
  /\ UNCHANGED <<shared, summary, requests>>

(* The second SELECT of get_active_for_user: the lines, once per session.  *)
(* The lines of a converted cart are deleted.                              *)
LoadLines(w) ==
  /\ pc[w] = "found"
  /\ seen' = [seen EXCEPT
                ![w] = WithLines(@, IF @.id = cart.id THEN cart.lines ELSE <<>>)]
  /\ Goto(w, "loaded")
  /\ UNCHANGED <<shared, rowLock, summary, job, seenStamp, mine, requests>>

-----------------------------------------------------------------------------
(* What the request does to the cart *)

Decide(w, j, results) ==
  /\ pc[w] = "loaded"
  /\ job[w] \in j
  /\ \E d \in results : mine' = [mine EXCEPT ![w] = d]
  /\ Goto(w, "decided")
  /\ UNCHANGED <<shared, rowLock, summary, job, seen, seenStamp, requests>>

(* These four ask for the active cart again before they recalculate. *)
SameCart(w) == cart.active /\ seen[w].id = cart.id

AddItem(w)    == SameCart(w) /\ Decide(w, {"mutate"}, Added(seen[w]))
UpdateItem(w) == SameCart(w) /\ Decide(w, {"mutate"}, Updated(seen[w]))
RemoveItem(w) == SameCart(w) /\ Decide(w, {"mutate"}, Removed(seen[w]))
Clear(w)      == SameCart(w) /\ Decide(w, {"mutate"}, Cleared(seen[w]))

ApplyCoupon(w)  == Decide(w, {"mutate"}, CouponApplied(seen[w]))
RemoveCoupon(w) == Decide(w, {"mutate"}, CouponRemoved(seen[w]))

(* The validation, and a mutation that has changed another cart before. *)
Recalculate(w) == Decide(w, {"validate", "touch"}, Refreshed(seen[w]))

PlaceOrder(w) == Decide(w, {"order"}, Ordered(seen[w]))

(* _require_cart finds another active cart than the one the request began  *)
(* with, which was converted: an added line is lost in the converted cart; *)
(* a clear or an update that changed nothing passes as well. All then      *)
(* recalculate the new cart, and no version of the old one is checked.     *)
SwitchCart(w) ==
  /\ pc[w] = "loaded"
  /\ job[w] = "mutate"
  /\ cart.active
  /\ seen[w].id # cart.id
  /\ job' = [job EXCEPT ![w] = "touch"]
  /\ ReadRow(w)
  /\ Goto(w, "found")
  /\ UNCHANGED <<shared, rowLock, summary, requests>>

(* NotFoundException, ValidationException, or the version of a line. *)
Refuse(w) ==
  /\ pc[w] \in {"asked", "loaded"}
  /\ job[w] # "view"
  /\ Leave(w)
  /\ UNCHANGED <<shared, summary, requests>>

(* get_summary stores what OrderSummaryService.build made of the cart it   *)
(* loaded; get_cart does not, and Redis may fail.                          *)
FillSummary(w) ==
  /\ pc[w] = "loaded"
  /\ job[w] = "view"
  /\ summary' \in {summary, seenStamp[w]}
  /\ Leave(w)
  /\ UNCHANGED <<shared, requests>>

(* Redis deletes the entry, or fails and the error is logged. *)
InvalidateUser == summary' = None \/ (Faults /\ summary' = summary)

(* Mutant: the UPDATE does not name the version. *)
FlushUnchecked(w) ==
  /\ pc[w] = "decided"
  /\ rowLock \in {None, w}
  /\ rowLock' = w
  /\ Goto(w, "flushed")
  /\ UNCHANGED <<shared, summary, job, session, requests>>

(* The UPDATE of the row: last_activity always changes. It waits for the   *)
(* row and matches the version that was loaded; place_order invalidates    *)
(* the summary here already.                                               *)
Flush(w) ==
  /\ pc[w] = "decided"
  /\ rowLock \in {None, w}
  /\ seenStamp[w] = stamp
  /\ rowLock' = w
  /\ IF job[w] = "order" THEN InvalidateUser ELSE UNCHANGED summary
  /\ Goto(w, "flushed")
  /\ UNCHANGED <<shared, job, session, requests>>

(* It matches no row: StaleDataError, answered with 503. *)
FlushStale(w) ==
  /\ pc[w] = "decided"
  /\ rowLock \in {None, w}
  /\ seenStamp[w] # stamp
  /\ Leave(w)
  /\ UNCHANGED <<shared, summary, requests>>

(* Mutant: the version does not move. *)
CommitSameVersion(w) ==
  /\ pc[w] = "flushed"
  /\ cart' = mine[w]
  /\ Unlock(w)
  /\ Goto(w, "committed")
  /\ UNCHANGED <<stamp, summary, job, session, requests>>

Commit(w) ==
  /\ pc[w] = "flushed"
  /\ cart' = mine[w]
  /\ stamp' = stamp + 1
  /\ Unlock(w)
  /\ Goto(w, "committed")
  /\ UNCHANGED <<summary, job, session, requests>>

(* Every mutation invalidates the summary after its commit; the checkout   *)
(* validation does not.                                                    *)
Answer(w) ==
  /\ pc[w] = "committed"
  /\ IF job[w] = "validate" THEN UNCHANGED summary ELSE InvalidateUser
  /\ Leave(w)
  /\ UNCHANGED <<shared, requests>>

-----------------------------------------------------------------------------
(* The handler is cancelled or its process dies: PostgreSQL rolls back. *)
Crash(w) ==
  /\ Faults
  /\ pc[w] # "idle"
  /\ Leave(w)
  /\ UNCHANGED <<shared, summary, requests>>

(* Mutant: the entry is set without a TTL. *)
SummaryForever == FALSE /\ UNCHANGED allVars

(* cart_cache_ttl_seconds passed. *)
ExpireSummary ==
  /\ summary # None
  /\ summary' = None
  /\ UNCHANGED <<shared, rowLock, pc, job, session, requests>>

HandlerStep(w) ==
  \/ SummaryHit(w) \/ NoLock(w) \/ LockCart(w) \/ NothingToLock(w)
  \/ NothingToOrder(w) \/ FindCart(w) \/ MissCart(w) \/ CreateCart(w)
  \/ CreateRefused(w) \/ RequireCart(w) \/ CreatedGone(w) \/ LoadLines(w)
  \/ AddItem(w) \/ UpdateItem(w) \/ RemoveItem(w) \/ Clear(w)
  \/ ApplyCoupon(w) \/ RemoveCoupon(w) \/ Recalculate(w) \/ PlaceOrder(w)
  \/ SwitchCart(w) \/ FillSummary(w) \/ Flush(w) \/ FlushStale(w)
  \/ Commit(w) \/ Answer(w) \/ Refuse(w)

CartNext ==
  \/ \E w \in Workers : Begin(w) \/ HandlerStep(w) \/ Crash(w)
  \/ ExpireSummary

CartSpec == CartInit /\ [][CartNext]_allVars

(* Every await of a handler returns, and the TTL passes. *)
Fairness ==
  /\ \A w \in Workers : WF_allVars(HandlerStep(w))
  /\ WF_allVars(ExpireSummary)

FairCartSpec == CartSpec /\ Fairness

-----------------------------------------------------------------------------
(* Properties *)

CartTypeOK ==
  /\ IsRow(cart)
  /\ stamp \in Nat
  /\ rowLock \in Workers \cup {None}
  /\ summary \in Nat \cup {None}
  /\ pc \in [Workers -> Positions]
  /\ job \in [Workers -> Jobs]
  /\ DOMAIN seen = Workers
  /\ \A w \in Workers : IsRow(seen[w])
  /\ seenStamp \in [Workers -> Nat]
  /\ DOMAIN mine = Workers
  /\ requests \in Nat

(* A version no newer than the row's was loaded; if it is the row's, so    *)
(* are the columns and, once loaded, the lines. This is so although they   *)
(* are read by two statements, and with or without the row lock.           *)
LoadedRowsArePast ==
  \A w \in Workers :
    /\ seenStamp[w] <= stamp
    /\ seenStamp[w] = stamp =>
         /\ pc[w] \in {"created", "found"} =>
              cart.active /\ seen[w] = Columns(cart)
         /\ pc[w] \in {"loaded", "decided", "flushed"} =>
              cart.active /\ seen[w] = cart

(* What is about to be committed is a request's effect on what it loaded,  *)
(* and a flushed one holds the row its version check matched.              *)
WritesComeFromReads ==
  \A w \in Workers :
    /\ pc[w] \in {"decided", "flushed"} => mine[w] \in Mutations(seen[w])
    /\ pc[w] = "flushed" => rowLock = w /\ seenStamp[w] = stamp

(* The inductive invariant: the version check alone makes every request    *)
(* one on the current cart. The lock of get_active_for_update is not in it.*)
CartLocking == CartTypeOK /\ LoadedRowsArePast /\ WritesComeFromReads

(* However requests interleave, find no cart, go on without a lock, switch *)
(* carts or die, the row changes by atomic requests only.                  *)
ImplementsCartMachine == Spec

(* Every cart request ends. *)
CartRequestsFinish == \A w \in Workers : pc[w] # "idle" ~> pc[w] = "idle"

(* A summary that is not the cart's does not stay (cart_cache_ttl_seconds).*)
StaleSummaryExpires ==
  summary \notin {None, stamp} ~> summary \in {None, stamp}

(* In the end cart requests are over and no summary is stale. *)
CartSettles == CartRequestsFinish /\ StaleSummaryExpires

-----------------------------------------------------------------------------
(* Why cart requests end: nothing below mentions fairness *)

(* The cart row is held by a request that has found the cart and has not    *)
(* committed: by none that has ended or died, and by none whose next        *)
(* statement waits for it (a flush waits for a row another one holds).      *)
HolderIsUnderway ==
  rowLock # None =>
    rowLock \in Workers /\ pc[rowLock] \in {"found", "loaded", "decided", "flushed"}

(* How far a request has come; one that switched carts loads again.         *)
Stage(p, j) ==
  (IF j = "touch" THEN 10 ELSE 0)
  + CASE p = "idle" -> 0 [] p = "asked" -> 1 [] p = "unlocked" -> 2 [] p = "missing" -> 3
      [] p = "created" -> 4 [] p = "found" -> 5 [] p = "loaded" -> 6
      [] p = "decided" -> 7 [] p = "flushed" -> 8 [] p = "committed" -> 9

(* Each step of a request brings it further and nothing brings it back: it  *)
(* switches carts once at most, however often others order and create the   *)
(* cart in between (the second _require_cart is the last).                  *)
CartRequestsGoForward ==
  [][\A w \in Workers :
       /\ HandlerStep(w) => pc'[w] # pc[w]
       /\ pc[w] # "idle" /\ pc'[w] # pc[w]
            => pc'[w] = "idle" \/ Stage(pc'[w], job'[w]) > Stage(pc[w], job[w])]_allVars

=============================================================================
