--------------------------- MODULE OrderLifecycle ---------------------------
(***************************************************************************)
(* An order after it was placed: the customer cancelling it, staff moving  *)
(* its status, payment and notes, the customer tracking it, all of them    *)
(* concurrent request handlers over one PostgreSQL row, its timeline, the  *)
(* Redis tracking entry and the order's entry in data/order.json.          *)
(*                                                                         *)
(* A handler is a sequence of awaits. Each await that reads or writes      *)
(* shared state is an action; handlers interleave between them, and any    *)
(* handler may die between two of them. Nothing locks the order when it is *)
(* loaded: what orders concurrent handlers is the version column, checked  *)
(* by every UPDATE the ORM flushes, and the row lock that UPDATE takes.    *)
(***************************************************************************)
EXTENDS Integers, Sequences

CONSTANTS
  Orders,         \* rows of the orders table
  Workers,        \* request handlers that can be in flight together
  Kinds,          \* kinds of request the environment sends
  StaffPayments,  \* payment statuses staff ask for
  Faults,         \* may Redis or the file fail, and handlers die?
  MaxRequests,    \* bound: requests started in a behaviour
  None            \* no worker, no cache entry

VARIABLES
  row,        \* committed columns of each order: status, payment, version
  timeline,   \* committed order_timeline_events, in commit order
  rowLock,    \* worker whose open transaction updated the order's row
  tracking,   \* Redis orders:tracking:{order_id}
  mirror,     \* the order's entry of data/order.json
  pc,         \* where each worker's handler is
  job,        \* the request a worker is serving
  seen,       \* the order row as the worker's session loaded it
  mine,       \* the same ORM object after the handler's assignments
  events,     \* timeline events a tracking read found
  began,      \* when the worker's transaction started: its now()
  clock       \* requests started so far

dbVars == <<row, timeline, rowLock>>
local  == <<job, seen, mine, events, began>>
vars   == <<row, timeline, rowLock, tracking, mirror, pc, job, seen, mine,
            events, began, clock>>

Machine == INSTANCE OrderMachine WITH
             status  <- [o \in Orders |-> row[o].status],
             payment <- [o \in Orders |-> row[o].payment]

OrderStatus        == Machine!OrderStatus
PaymentStatus      == Machine!PaymentStatus
CustomerCancelable == Machine!CustomerCancelable
AllowedTransitions == Machine!AllowedTransitions
(* Mutant: a delivered order's payment status is set to the order's. *)
SettledAsStatus(s, p) ==
  IF s = "delivered" THEN s ELSE Machine!SettledPayment(s, p)

SettledPayment(s, p) == Machine!SettledPayment(s, p)

AllKinds == {"cancel", "status", "payment", "notes", "track"}

ASSUME KindsAssumption    == Kinds \subseteq AllKinds
ASSUME PaymentsAssumption == StaffPayments \subseteq PaymentStatus
ASSUME FaultsAssumption   == Faults \in BOOLEAN
ASSUME BoundAssumption    == MaxRequests \in Nat
ASSUME NoneAssumption     == None \notin Workers

-----------------------------------------------------------------------------
(* Data *)

Row == [status : OrderStatus, payment : PaymentStatus, version : Nat]

NewRow == [status |-> "pending", payment |-> "pending", version |-> 1]

(* by: the handler that wrote the event (its title and notes tell);        *)
(* at: created_at, which is now(), the start of the writing transaction.   *)
Event == [status : OrderStatus, by : {"status", "payment"}, at : Nat]

Placed == [status |-> "pending", by |-> "status", at |-> 0]

TrackingEntry == [row : Row, events : Nat]

(* What a request asks for: a status, a payment status, or notes that      *)
(* differ from the stored ones or not. An empty notes payload is refused.  *)
Asked ==
  [cancel  |-> {"none"},
   status  |-> OrderStatus,
   payment |-> StaffPayments,
   notes   |-> {"new", "same", "empty"},
   track   |-> {"none"}]

AllAsked == OrderStatus \cup PaymentStatus \cup {"new", "same", "empty", "none"}

Job == {j \in [kind : AllKinds, order : Orders, asked : AllAsked] :
          j.asked \in Asked[j.kind]}

NoJob == [kind |-> "none", order |-> None, asked |-> "none"]

Positions == {"idle", "begun", "loaded", "listed", "flushed", "committed",
              "invalidated"}

Order(w) == job[w].order

(* SQLAlchemy emits an UPDATE only for an object whose columns changed. *)
Dirty(w) == mine[w] # seen[w]

Writer(w) == job[w].kind # "track"

-----------------------------------------------------------------------------
Init ==
  /\ row = [o \in Orders |-> NewRow]
  /\ timeline = [o \in Orders |-> <<Placed>>]
  /\ rowLock = [o \in Orders |-> None]
  /\ tracking = [o \in Orders |-> None]
  /\ mirror = [o \in Orders |-> NewRow]
  /\ pc = [w \in Workers |-> "idle"]
  /\ job = [w \in Workers |-> NoJob]
  /\ seen = [w \in Workers |-> NewRow]
  /\ mine = [w \in Workers |-> NewRow]
  /\ events = [w \in Workers |-> 0]
  /\ began = [w \in Workers |-> 0]
  /\ clock = 0

(* The handler returns or raises: its session, and what it loaded, is gone. *)
Leave(w) ==
  /\ pc' = [pc EXCEPT ![w] = "idle"]
  /\ job' = [job EXCEPT ![w] = NoJob]
  /\ seen' = [seen EXCEPT ![w] = NewRow]
  /\ mine' = [mine EXCEPT ![w] = NewRow]
  /\ events' = [events EXCEPT ![w] = 0]
  /\ began' = [began EXCEPT ![w] = 0]

(* The session is request scoped and its first statement, the SELECT of    *)
(* the caller in get_current_user, opens the transaction the handler goes  *)
(* on using.                                                               *)
Begin(w) ==
  /\ pc[w] = "idle"
  /\ clock < MaxRequests
  /\ clock' = clock + 1
  /\ \E k \in Kinds, o \in Orders : \E a \in Asked[k] :
       job' = [job EXCEPT ![w] = [kind |-> k, order |-> o, asked |-> a]]
  /\ began' = [began EXCEPT ![w] = clock + 1]
  /\ pc' = [pc EXCEPT ![w] = "begun"]
  /\ UNCHANGED <<row, timeline, rowLock, tracking, mirror, seen, mine, events>>

(* The handler has the order and has assigned its columns in memory. *)
Load(w, assigned) ==
  /\ pc[w] = "begun"
  /\ seen' = [seen EXCEPT ![w] = row[Order(w)]]
  /\ mine' = [mine EXCEPT ![w] = assigned]
  /\ pc' = [pc EXCEPT ![w] = "loaded"]
  /\ UNCHANGED <<row, timeline, rowLock, tracking, mirror, job, events, began,
                 clock>>

Refuse(w) ==
  /\ pc[w] = "begun"
  /\ Leave(w)
  /\ UNCHANGED <<row, timeline, rowLock, tracking, mirror, clock>>

(* Mutant: cancelling and refunding leave the payment as it is. *)
MovedUnsettled(r, s) ==
  [status |-> s, payment |-> r.payment, version |-> r.version + 1]

(* Mutant: the model has no version_id_col. *)
MovedUnversioned(r, s) ==
  [status |-> s, payment |-> SettledPayment(s, r.payment),
   version |-> r.version]

(* What a handler turns a row r it loaded into. A row the ORM will write   *)
(* back carries the next version.                                          *)
Moved(r, s) ==
  [status |-> s, payment |-> SettledPayment(s, r.payment),
   version |-> r.version + 1]

Paid(r, p) ==
  IF p = r.payment THEN r
  ELSE [status |-> r.status, payment |-> p, version |-> r.version + 1]

Noted(r, a) ==
  IF a = "same" THEN r
  ELSE [status |-> r.status, payment |-> r.payment, version |-> r.version + 1]

(* Mutant: a customer may cancel whatever staff could. *)
LoadForCancelAsStaff(w) ==
  /\ job[w].kind = "cancel"
  /\ "cancelled" \in AllowedTransitions[row[Order(w)].status]
  /\ Load(w, Moved(row[Order(w)], "cancelled"))

LoadForCancel(w) ==
  /\ job[w].kind = "cancel"
  /\ row[Order(w)].status \in CustomerCancelable
  /\ Load(w, Moved(row[Order(w)], "cancelled"))

(* The cancel window is wall-clock time: past it, any cancel is refused. *)
RefuseCancel(w) ==
  /\ job[w].kind = "cancel"
  /\ Refuse(w)

LoadForStatus(w) ==
  /\ job[w].kind = "status"
  /\ job[w].asked \in AllowedTransitions[row[Order(w)].status]
  /\ Load(w, Moved(row[Order(w)], job[w].asked))

RefuseStatus(w) ==
  /\ job[w].kind = "status"
  /\ job[w].asked \notin AllowedTransitions[row[Order(w)].status]
  /\ Refuse(w)

LoadForPayment(w) ==
  /\ job[w].kind = "payment"
  /\ Load(w, Paid(row[Order(w)], job[w].asked))

LoadForNotes(w) ==
  /\ job[w].kind = "notes"
  /\ job[w].asked # "empty"
  /\ Load(w, Noted(row[Order(w)], job[w].asked))

RefuseNotes(w) ==
  /\ job[w].kind = "notes"
  /\ job[w].asked = "empty"
  /\ Refuse(w)

-----------------------------------------------------------------------------
(* Writing handlers, from flush to response *)

(* Mutant: the UPDATE does not check the version. *)
FlushUnchecked(w) ==
  /\ pc[w] = "loaded" /\ Writer(w) /\ Dirty(w)
  /\ rowLock[Order(w)] = None
  /\ rowLock' = [rowLock EXCEPT ![Order(w)] = w]
  /\ pc' = [pc EXCEPT ![w] = "flushed"]
  /\ UNCHANGED <<row, timeline, tracking, mirror, local, clock>>

(* UPDATE orders ... WHERE id = :id AND version = :loaded. The statement   *)
(* waits for a row lock another transaction holds.                         *)
Flush(w) ==
  /\ pc[w] = "loaded" /\ Writer(w) /\ Dirty(w)
  /\ rowLock[Order(w)] = None
  /\ row[Order(w)].version = seen[w].version
  /\ rowLock' = [rowLock EXCEPT ![Order(w)] = w]
  /\ pc' = [pc EXCEPT ![w] = "flushed"]
  /\ UNCHANGED <<row, timeline, tracking, mirror, local, clock>>

(* It matched no row: StaleDataError, rollback, 503. *)
FlushStale(w) ==
  /\ pc[w] = "loaded" /\ Writer(w) /\ Dirty(w)
  /\ rowLock[Order(w)] = None
  /\ row[Order(w)].version # seen[w].version
  /\ Leave(w)
  /\ UNCHANGED <<row, timeline, rowLock, tracking, mirror, clock>>

(* No column changed: no UPDATE, so neither a version check nor a lock. *)
FlushClean(w) ==
  /\ pc[w] = "loaded" /\ Writer(w) /\ ~Dirty(w)
  /\ pc' = [pc EXCEPT ![w] = "flushed"]
  /\ UNCHANGED <<row, timeline, rowLock, tracking, mirror, local, clock>>

(* The timeline event a handler inserts in its transaction, if it does. *)
NewEvent(w) ==
  [status |-> mine[w].status,
   by     |-> IF job[w].kind = "payment" THEN "payment" ELSE "status",
   at     |-> began[w]]

(* Mutant: a customer's cancellation adds no event. *)
NewEventsOfStaff(w) ==
  IF job[w].kind \in {"notes", "cancel"} THEN <<>> ELSE <<NewEvent(w)>>

NewEvents(w) == IF job[w].kind = "notes" THEN <<>> ELSE <<NewEvent(w)>>

(* Mutant: the transaction is left open. *)
StillLocked(w) == rowLock

Unlocked(w) == [o \in Orders |-> IF rowLock[o] = w THEN None ELSE rowLock[o]]

Commit(w) ==
  /\ pc[w] = "flushed"
  /\ row' = IF Dirty(w) THEN [row EXCEPT ![Order(w)] = mine[w]] ELSE row
  /\ timeline' = [timeline EXCEPT ![Order(w)] = @ \o NewEvents(w)]
  /\ rowLock' = Unlocked(w)
  /\ pc' = [pc EXCEPT ![w] = "committed"]
  /\ UNCHANGED <<tracking, mirror, local, clock>>

(* invalidate_order; its failure is logged and the handler goes on. *)
Invalidate(w) ==
  /\ pc[w] = "committed"
  /\ \/ tracking' = [tracking EXCEPT ![Order(w)] = None]
     \/ Faults /\ UNCHANGED tracking
  /\ IF job[w].kind \in {"cancel", "status"}
       THEN /\ pc' = [pc EXCEPT ![w] = "invalidated"]
            /\ UNCHANGED local
       ELSE Leave(w)
  /\ UNCHANGED <<row, timeline, rowLock, mirror, clock>>

(* The handler reads the order again, but in the same session: the         *)
(* identity map gives back the object it holds, with the columns as this   *)
(* handler wrote them. That is what the mirror gets.                       *)
SyncMirror(w) ==
  /\ pc[w] = "invalidated"
  /\ mirror' = [mirror EXCEPT ![Order(w)] = mine[w]]
  /\ Leave(w)
  /\ UNCHANGED <<row, timeline, rowLock, tracking, clock>>

(* sync_order_best_effort swallows any error of the file. *)
SyncMirrorFails(w) ==
  /\ Faults
  /\ pc[w] = "invalidated"
  /\ Leave(w)
  /\ UNCHANGED <<row, timeline, rowLock, tracking, mirror, clock>>

-----------------------------------------------------------------------------
(* Tracking *)

TrackHit(w) ==
  /\ pc[w] = "begun" /\ job[w].kind = "track"
  /\ tracking[Order(w)] # None
  /\ Leave(w)
  /\ UNCHANGED <<row, timeline, rowLock, tracking, mirror, clock>>

(* get_for_user is one SELECT for the order ... *)
LoadForTrack(w) ==
  /\ job[w].kind = "track"
  /\ tracking[Order(w)] = None \/ Faults
  /\ Load(w, row[Order(w)])

(* ... and a later one, selectinload, for its timeline. *)
ListTimeline(w) ==
  /\ pc[w] = "loaded" /\ job[w].kind = "track"
  /\ events' = [events EXCEPT ![w] = Len(timeline[Order(w)])]
  /\ pc' = [pc EXCEPT ![w] = "listed"]
  /\ UNCHANGED <<row, timeline, rowLock, tracking, mirror, job, seen, mine,
                 began, clock>>

(* Mutant: the status is read after the timeline. *)
FillTrackingReread(w) ==
  /\ pc[w] = "listed"
  /\ tracking' = [tracking EXCEPT
                    ![Order(w)] = [row |-> row[Order(w)], events |-> events[w]]]
  /\ Leave(w)
  /\ UNCHANGED <<row, timeline, rowLock, mirror, clock>>

FillTracking(w) ==
  /\ pc[w] = "listed"
  /\ \/ tracking' = [tracking EXCEPT
                       ![Order(w)] = [row |-> seen[w], events |-> events[w]]]
     \/ Faults /\ UNCHANGED tracking
  /\ Leave(w)
  /\ UNCHANGED <<row, timeline, rowLock, mirror, clock>>

(* Mutant: it is stored without. *)
NeverExpires(o) == FALSE /\ UNCHANGED vars

(* The entry is stored with a TTL. *)
ExpireTracking(o) ==
  /\ tracking[o] # None
  /\ tracking' = [tracking EXCEPT ![o] = None]
  /\ UNCHANGED <<row, timeline, rowLock, mirror, pc, local, clock>>

-----------------------------------------------------------------------------
(* The process dies, a statement times out or the connection is lost:      *)
(* PostgreSQL rolls back what the worker had not committed; what it wrote  *)
(* to Redis or to the file stays.                                          *)
Crash(w) ==
  /\ Faults
  /\ pc[w] # "idle"
  /\ rowLock' = Unlocked(w)
  /\ Leave(w)
  /\ UNCHANGED <<row, timeline, tracking, mirror, clock>>

CustomerStep(w) ==
  \/ LoadForCancel(w) \/ RefuseCancel(w)
  \/ TrackHit(w) \/ LoadForTrack(w) \/ ListTimeline(w) \/ FillTracking(w)

StaffStep(w) ==
  \/ LoadForStatus(w) \/ RefuseStatus(w)
  \/ LoadForPayment(w)
  \/ LoadForNotes(w) \/ RefuseNotes(w)

WriteStep(w) ==
  \/ Flush(w) \/ FlushStale(w) \/ FlushClean(w)
  \/ Commit(w) \/ Invalidate(w) \/ SyncMirror(w) \/ SyncMirrorFails(w)

HandlerStep(w) == CustomerStep(w) \/ StaffStep(w) \/ WriteStep(w)

Next ==
  \/ \E w \in Workers : Begin(w) \/ HandlerStep(w) \/ Crash(w)
  \/ \E o \in Orders : ExpireTracking(o)

Spec == Init /\ [][Next]_vars

(* Every await of a handler returns: statements have a timeout, Redis and  *)
(* file errors are caught; and a TTL runs out. Nothing makes clients send  *)
(* requests, and nothing makes a worker crash.                             *)
Fairness ==
  /\ \A w \in Workers : WF_vars(HandlerStep(w))
  /\ \A o \in Orders : WF_vars(ExpireTracking(o))

FairSpec == Spec /\ Fairness

-----------------------------------------------------------------------------
(* Properties *)

(* Every variable has its type; a worker holds a job exactly while it is   *)
(* not idle.                                                               *)
TypeOK ==
  /\ row \in [Orders -> Row]
  /\ timeline \in [Orders -> Seq(Event)]
  /\ rowLock \in [Orders -> Workers \cup {None}]
  /\ tracking \in [Orders -> TrackingEntry \cup {None}]
  /\ mirror \in [Orders -> Row]
  /\ pc \in [Workers -> Positions]
  /\ job \in [Workers -> Job \cup {NoJob}]
  /\ \A w \in Workers : pc[w] # "idle" => job[w] \in Job
  /\ seen \in [Workers -> Row]
  /\ mine \in [Workers -> Row]
  /\ events \in [Workers -> Nat]
  /\ began \in [Workers -> Nat]
  /\ clock \in Nat

(* Whatever handlers load, flush and commit concurrently, the committed    *)
(* rows only ever take the atomic steps of OrderMachine: no illegal jump,  *)
(* no terminal status replayed, and a move to cancelled or refunded        *)
(* settles the payment that is in the row at that moment.                  *)
ImplementsOrderMachine == Machine!Spec

(* A customer's cancellation, checked when the order was loaded, never     *)
(* lands on an order the kitchen has started in between                    *)
(* (cancel_my_order's CUSTOMER_CANCELABLE check).                          *)
CancelBeatsNoKitchen ==
  [][\A w \in Workers :
       (pc[w] = "flushed" /\ pc'[w] = "committed" /\ job[w].kind = "cancel")
         => row[Order(w)].status \in CustomerCancelable]_vars

(* Status events j and then i of a timeline with no other between them. *)
Follows(tl, i, j) ==
  /\ j < i
  /\ tl[i].by = "status" /\ tl[j].by = "status"
  /\ \A k \in (j + 1) .. (i - 1) : tl[k].by = "payment"

(* The status events of a timeline, in the order they were committed, are  *)
(* one path through the transition table from pending to the order's       *)
(* status: no lost, duplicated or phantom event, even when handlers race,  *)
(* fail their version check or die between flush and commit.               *)
TimelineIsStatusPath ==
  \A o \in Orders : LET tl == timeline[o] IN
    /\ \A i, j \in DOMAIN tl :
         Follows(tl, i, j) => tl[i].status \in AllowedTransitions[tl[j].status]
    /\ \E i \in DOMAIN tl :
         /\ tl[i].by = "status" /\ tl[i].status = row[o].status
         /\ \A k \in DOMAIN tl : k > i => tl[k].by = "payment"

(* A tracking response is put together from two statements that see        *)
(* different snapshots; the status it shows is still one its own timeline  *)
(* contains, because the order is read before the timeline                 *)
(* (track_my_order, get_for_user).                                         *)
TrackingShowsItsStatus ==
  \A o \in Orders :
    tracking[o] # None =>
      \E i \in 1 .. tracking[o].events :
        /\ i <= Len(timeline[o])
        /\ timeline[o][i].status = tracking[o].row.status

(* data/order.json never holds anything of an order that PostgreSQL did    *)
(* not commit: the entry is at most as new as the row, and when it is as   *)
(* new it agrees with it ("Postgres remains source of truth").             *)
MirrorHoldsCommitted ==
  \A o \in Orders :
    /\ mirror[o].version <= row[o].version
    /\ mirror[o].version = row[o].version => mirror[o] = row[o]

(* Every request that started ends, whatever the others do: no handler     *)
(* waits forever for a row another one locked.                             *)
RequestsFinish ==
  \A w \in Workers : pc[w] # "idle" ~> pc[w] = "idle"

StaleTracking(o) ==
  tracking[o] # None /\ tracking[o].row.version < row[o].version

(* A tracking entry that lost the race with an invalidation does not stay  *)
(* for good: its TTL (order_cache_ttl_seconds) removes it.                 *)
StaleTrackingExpires ==
  \A o \in Orders : StaleTracking(o) ~> ~StaleTracking(o)

-----------------------------------------------------------------------------
(* Why it works: the invariant the proofs of OrderLifecycleProofs rest on *)

(* A loaded object is of the past, or is the row as it is. *)
AtMost(r, o) ==
  /\ r.version <= row[o].version
  /\ r.version = row[o].version => r = row[o]

LoadedRowsArePast ==
  \A w \in Workers :
    /\ pc[w] \in {"loaded", "listed", "flushed"} => AtMost(seen[w], Order(w))
    /\ pc[w] \in {"committed", "invalidated"} => AtMost(mine[w], Order(w))

(* What a handler is about to write comes from what it loaded. *)
AssignedFrom(w) ==
  /\ job[w].kind = "cancel"  => /\ seen[w].status \in CustomerCancelable
                                /\ mine[w] = Moved(seen[w], "cancelled")
  /\ job[w].kind = "status"  => /\ job[w].asked \in
                                     AllowedTransitions[seen[w].status]
                                /\ mine[w] = Moved(seen[w], job[w].asked)
  /\ job[w].kind = "payment" => mine[w] = Paid(seen[w], job[w].asked)
  /\ job[w].kind = "notes"   => mine[w] = Noted(seen[w], job[w].asked)
  /\ job[w].kind = "track"   => mine[w] = seen[w]

WritesComeFromReads ==
  \A w \in Workers : pc[w] \in {"loaded", "flushed"} => AssignedFrom(w)

(* A flushed UPDATE holds the row lock, and the row is still the one its   *)
(* version check matched.                                                  *)
FlushedHoldsRow ==
  /\ \A w \in Workers :
       /\ pc[w] \in {"flushed", "committed", "invalidated"} => Writer(w)
       /\ pc[w] = "flushed" /\ Dirty(w) =>
            rowLock[Order(w)] = w /\ row[Order(w)] = seen[w]
  /\ \A o \in Orders : \A w \in Workers :
       rowLock[o] = w => pc[w] = "flushed" /\ Order(w) = o

(* The inductive invariant. It holds of the code because an UPDATE both    *)
(* checks the version and keeps the row locked until its commit.           *)
OptimisticLocking ==
  TypeOK /\ LoadedRowsArePast /\ WritesComeFromReads /\ FlushedHoldsRow

-----------------------------------------------------------------------------
(* Why requests end: nothing below mentions fairness *)

(* A row that a statement may wait for is held by a handler whose next      *)
(* statement is its COMMIT, and which so waits for no row itself: not by a  *)
(* handler that has ended, refused or died, and for one row only.           *)
HoldersCommitNext ==
  \A o \in Orders :
    rowLock[o] # None => pc[rowLock[o]] = "flushed" /\ Order(rowLock[o]) = o

(* How far a handler has come. *)
Stage(p) ==
  CASE p = "idle" -> 0 [] p = "begun" -> 1 [] p = "loaded" -> 2
    [] p \in {"listed", "flushed"} -> 3 [] p = "committed" -> 4 [] p = "invalidated" -> 5

(* Each step of a handler brings it further and nothing brings it back: it  *)
(* has ended after five steps of its own at most, whatever the others do. A *)
(* failed version check is answered, not tried again (StaleDataError, 503). *)
HandlersGoForward ==
  [][\A w \in Workers :
       /\ HandlerStep(w) => pc'[w] # pc[w]
       /\ pc[w] # "idle" /\ pc'[w] # pc[w]
            => pc'[w] = "idle" \/ Stage(pc'[w]) > Stage(pc[w])]_vars

=============================================================================
