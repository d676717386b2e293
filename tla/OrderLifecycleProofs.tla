------------------------ MODULE OrderLifecycleProofs ------------------------
(***************************************************************************)
(* Proofs about OrderLifecycle for any sets of orders and workers, any     *)
(* number of requests, with and without failures.                          *)
(***************************************************************************)
EXTENDS OrderLifecycle, SequenceTheorems, TLAPS

(* The status and payment tables have the types their readers expect. *)
LEMMA Tables ==
  /\ CustomerCancelable \subseteq OrderStatus
  /\ \A s \in OrderStatus : AllowedTransitions[s] \subseteq OrderStatus
  /\ \A s \in CustomerCancelable : "cancelled" \in AllowedTransitions[s]
  /\ \A s \in OrderStatus, p \in PaymentStatus :
       SettledPayment(s, p) \in PaymentStatus
  /\ "pending" \in OrderStatus /\ "cancelled" \in OrderStatus
  /\ "pending" \in PaymentStatus
<1> USE DEF CustomerCancelable, OrderStatus, AllowedTransitions, PaymentStatus,
            SettledPayment, Machine!CustomerCancelable, Machine!OrderStatus,
            Machine!AllowedTransitions, Machine!PaymentStatus,
            Machine!SettledPayment
<1>1. \A s \in OrderStatus : AllowedTransitions[s] \subseteq OrderStatus
  OBVIOUS
<1>2. QED
  BY <1>1

(* A handler's assignments turn a row into a row. *)
LEMMA AssignedRows ==
  ASSUME NEW r \in Row
  PROVE  /\ \A s \in OrderStatus : Moved(r, s) \in Row
         /\ \A p \in PaymentStatus : Paid(r, p) \in Row
         /\ \A a : Noted(r, a) \in Row
BY Tables DEF Row, Moved, Paid, Noted

LEMMA NewRowIsRow == NewRow \in Row
BY Tables DEF NewRow, Row

-----------------------------------------------------------------------------
(* Type correctness *)

(* Whoever leaves, the variables of its handler keep their types. *)
LEMMA LeaveType ==
  ASSUME TypeOK, NEW w \in Workers, Leave(w)
  PROVE  /\ pc' \in [Workers -> Positions]
         /\ job' \in [Workers -> Job \cup {NoJob}]
         /\ \A v \in Workers : pc'[v] # "idle" => job'[v] \in Job
         /\ seen' \in [Workers -> Row]
         /\ mine' \in [Workers -> Row]
         /\ events' \in [Workers -> Nat]
         /\ began' \in [Workers -> Nat]
BY NewRowIsRow DEF TypeOK, Leave, Positions

LEMMA LoadType ==
  ASSUME TypeOK, NEW w \in Workers, NEW r \in Row, Load(w, r)
  PROVE  TypeOK'
<1>1. Order(w) \in Orders
  BY DEF TypeOK, Load, Job, Order
<1>2. row[Order(w)] \in Row
  BY <1>1 DEF TypeOK
<1>3. QED
  BY <1>2 DEF TypeOK, Load, Positions

LEMMA UnlockedType ==
  ASSUME TypeOK, NEW w \in Workers
  PROVE  Unlocked(w) \in [Orders -> Workers \cup {None}]
BY DEF TypeOK, Unlocked

LEMMA TypeStep == TypeOK /\ [Next]_vars => TypeOK'
<1> SUFFICES ASSUME TypeOK, [Next]_vars
             PROVE  TypeOK'
  OBVIOUS
<1>1. ASSUME NEW w \in Workers, Begin(w)
      PROVE  TypeOK'
  <2>1. PICK k \in Kinds, o \in Orders : \E a \in Asked[k] :
          job' = [job EXCEPT ![w] = [kind |-> k, order |-> o, asked |-> a]]
    BY <1>1 DEF Begin
  <2>2. PICK a \in Asked[k] :
          job' = [job EXCEPT ![w] = [kind |-> k, order |-> o, asked |-> a]]
    BY <2>1
  <2>3. a \in AllAsked
    BY <2>2, KindsAssumption, PaymentsAssumption DEF Asked, AllAsked, AllKinds
  <2>4. [kind |-> k, order |-> o, asked |-> a] \in Job
    BY <2>2, <2>3, KindsAssumption DEF Job
  <2>5. QED
    BY <1>1, <2>2, <2>4 DEF Begin, TypeOK, Positions
<1>2. ASSUME NEW w \in Workers, CustomerStep(w) \/ StaffStep(w)
      PROVE  TypeOK'
  <2>0. pc[w] # "idle" => /\ job[w] \in Job
                          /\ Order(w) \in Orders
                          /\ row[Order(w)] \in Row
    BY DEF TypeOK, Job, Order
  <2>1. CASE LoadForCancel(w)
    BY <2>0, <2>1, AssignedRows, Tables, LoadType DEF LoadForCancel, Load
  <2>2. CASE LoadForStatus(w)
    <3>1. job[w].asked \in OrderStatus
      BY <2>0, <2>2, Tables DEF LoadForStatus, Load, Row
    <3>2. QED
      BY <2>0, <2>2, <3>1, AssignedRows, LoadType DEF LoadForStatus, Load
  <2>3. CASE LoadForPayment(w)
    <3>1. job[w].asked \in PaymentStatus
      BY <2>0, <2>3, PaymentsAssumption DEF LoadForPayment, Load, Job, Asked
    <3>2. QED
      BY <2>0, <2>3, <3>1, AssignedRows, LoadType DEF LoadForPayment, Load
  <2>4. CASE LoadForNotes(w)
    BY <2>0, <2>4, AssignedRows, LoadType DEF LoadForNotes, Load
  <2>5. CASE LoadForTrack(w)
    BY <2>0, <2>5, LoadType DEF LoadForTrack, Load
  <2>6. CASE ListTimeline(w)
    BY <2>0, <2>6 DEF ListTimeline, TypeOK, Positions
  <2>7. CASE FillTracking(w)
    <3>1. [row |-> seen[w], events |-> events[w]] \in TrackingEntry
      BY DEF TypeOK, TrackingEntry
    <3>2. tracking' \in [Orders -> TrackingEntry \cup {None}]
      BY <2>7, <3>1 DEF FillTracking, TypeOK
    <3>3. QED
      BY <2>7, <3>2, LeaveType DEF FillTracking, TypeOK
  <2>8. CASE RefuseCancel(w) \/ RefuseStatus(w) \/ RefuseNotes(w) \/ TrackHit(w)
    BY <2>8, LeaveType
       DEF RefuseCancel, RefuseStatus, RefuseNotes, Refuse, TrackHit, TypeOK
  <2>9. QED
    BY <1>2, <2>1, <2>2, <2>3, <2>4, <2>5, <2>6, <2>7, <2>8
       DEF CustomerStep, StaffStep
<1>3. ASSUME NEW w \in Workers, WriteStep(w)
      PROVE  TypeOK'
  <2>0. pc[w] # "idle" => /\ job[w] \in Job
                          /\ Order(w) \in Orders
    BY DEF TypeOK, Job, Order
  <2>1. CASE Flush(w) \/ FlushClean(w)
    BY <2>0, <2>1 DEF Flush, FlushClean, TypeOK, Positions, local
  <2>2. CASE FlushStale(w) \/ SyncMirrorFails(w)
    BY <2>2, LeaveType DEF FlushStale, SyncMirrorFails, TypeOK
  <2>3. CASE Commit(w)
    <3>1. row' \in [Orders -> Row]
      BY <2>0, <2>3 DEF Commit, TypeOK
    <3>2. NewEvents(w) \in Seq(Event)
      <4>1. NewEvent(w) \in Event
        BY DEF NewEvent, Event, TypeOK, Row
      <4>2. QED
        BY <4>1 DEF NewEvents
    <3>3. timeline' \in [Orders -> Seq(Event)]
      <4>1. \A s \in Seq(Event) : s \o NewEvents(w) \in Seq(Event)
        BY <3>2, ConcatProperties
      <4>2. QED
        BY <2>0, <2>3, <4>1 DEF Commit, TypeOK
    <3>4. QED
      BY <2>0, <2>3, <3>1, <3>3, UnlockedType DEF Commit, TypeOK, Positions, local
  <2>4. CASE Invalidate(w)
    <3>1. tracking' \in [Orders -> TrackingEntry \cup {None}]
      BY <2>4 DEF Invalidate, TypeOK
    <3>2. CASE Leave(w)
      BY <2>4, <3>1, <3>2, LeaveType DEF Invalidate, TypeOK
    <3>3. CASE ~Leave(w)
      BY <2>0, <2>4, <3>1, <3>3 DEF Invalidate, TypeOK, Positions, local
    <3>4. QED
      BY <3>2, <3>3
  <2>5. CASE SyncMirror(w)
    BY <2>5, LeaveType DEF SyncMirror, TypeOK
  <2>6. QED
    BY <1>3, <2>1, <2>2, <2>3, <2>4, <2>5 DEF WriteStep
<1>4. ASSUME NEW w \in Workers, Crash(w)
      PROVE  TypeOK'
  BY <1>4, LeaveType, UnlockedType DEF Crash, TypeOK
<1>5. ASSUME NEW o \in Orders, ExpireTracking(o)
      PROVE  TypeOK'
  BY <1>5 DEF ExpireTracking, TypeOK, local
<1>6. CASE UNCHANGED vars
  BY <1>6 DEF vars, TypeOK
<1>7. QED
  BY <1>1, <1>2, <1>3, <1>4, <1>5, <1>6 DEF Next, HandlerStep

LEMMA InitType == Init => TypeOK
<1> SUFFICES ASSUME Init PROVE TypeOK
  OBVIOUS
<1>1. Placed \in Event
  BY Tables DEF Placed, Event
<1>2. <<Placed>> \in Seq(Event)
  BY <1>1
<1>3. QED
  BY <1>2, NewRowIsRow DEF Init, TypeOK, Positions

(* The variables of OrderLifecycle always have their types. *)
THEOREM TypeCorrect == Spec => []TypeOK
<1>1. QED
  BY InitType, TypeStep, PTL DEF Spec

-----------------------------------------------------------------------------
(* Optimistic locking *)

(* A worker that leaves gives up at most what it had locked itself. *)
LEMMA LeaveKeepsLocking ==
  ASSUME OptimisticLocking, NEW w \in Workers, Leave(w), UNCHANGED row,
         rowLock' = Unlocked(w) \/ (rowLock' = rowLock /\ pc[w] # "flushed")
  PROVE  LoadedRowsArePast' /\ WritesComeFromReads' /\ FlushedHoldsRow'
<1>1. /\ pc'[w] = "idle"
      /\ \A v \in Workers : v # w => /\ pc'[v] = pc[v] /\ job'[v] = job[v]
                                     /\ seen'[v] = seen[v] /\ mine'[v] = mine[v]
  BY DEF OptimisticLocking, TypeOK, Leave
<1>2. LoadedRowsArePast'
  BY <1>1 DEF OptimisticLocking, LoadedRowsArePast, AtMost, Order
<1>3. WritesComeFromReads'
  BY <1>1 DEF OptimisticLocking, WritesComeFromReads, AssignedFrom
<1>4. \A o \in Orders : /\ rowLock'[o] # w
                        /\ \A v \in Workers : v # w =>
                             (rowLock'[o] = v <=> rowLock[o] = v)
  BY NoneAssumption DEF OptimisticLocking, FlushedHoldsRow, Unlocked, TypeOK
<1>5. FlushedHoldsRow'
  <2>1. ASSUME NEW v \in Workers, pc'[v] \in {"flushed", "committed", "invalidated"}
        PROVE  /\ Writer(v)'
               /\ (pc[v] = "flushed" /\ Dirty(v))' =>
                    (rowLock[Order(v)] = v /\ row[Order(v)] = seen[v])'
    <3>1. v # w /\ job[v] \in Job /\ Order(v) \in Orders
      BY <1>1, <2>1 DEF OptimisticLocking, TypeOK, Job, Order
    <3>2. QED
      BY <1>1, <1>4, <2>1, <3>1
         DEF OptimisticLocking, FlushedHoldsRow, Writer, Dirty, Order
  <2>2. ASSUME NEW o \in Orders, NEW v \in Workers, rowLock'[o] = v
        PROVE  pc'[v] = "flushed" /\ Order(v)' = o
    BY <1>1, <1>4, <2>2 DEF OptimisticLocking, FlushedHoldsRow, Order
  <2>3. QED
    BY <2>1, <2>2 DEF FlushedHoldsRow
<1>6. QED
  BY <1>2, <1>3, <1>5

(* Loading takes the row as it is and touches nothing shared. *)
LEMMA LoadKeepsLocking ==
  ASSUME OptimisticLocking, NEW w \in Workers, NEW r, Load(w, r),
         AssignedFrom(w)'
  PROVE  LoadedRowsArePast' /\ WritesComeFromReads' /\ FlushedHoldsRow'
<1>1. /\ pc'[w] = "loaded" /\ seen'[w] = row[Order(w)]
      /\ \A v \in Workers : v # w => /\ pc'[v] = pc[v]
                                     /\ seen'[v] = seen[v] /\ mine'[v] = mine[v]
      /\ pc[w] = "begun" /\ job' = job /\ row' = row /\ rowLock' = rowLock
      /\ job[w] \in Job /\ Order(w) \in Orders
      /\ row[Order(w)].version \in Nat
  BY DEF OptimisticLocking, TypeOK, Load, Job, Order, Row
<1>2. LoadedRowsArePast'
  BY <1>1 DEF OptimisticLocking, LoadedRowsArePast, AtMost, Order
<1>3. WritesComeFromReads'
  BY <1>1 DEF OptimisticLocking, WritesComeFromReads, AssignedFrom
<1>4. FlushedHoldsRow'
  BY <1>1 DEF OptimisticLocking, FlushedHoldsRow, Writer, Dirty, Order
<1>5. QED
  BY <1>2, <1>3, <1>4

(* What a handler assigns differs from what it loaded by at most one       *)
(* version, and is the same row if by none.                                *)
LEMMA AssignedVersion ==
  ASSUME TypeOK, NEW w \in Workers, pc[w] # "idle", AssignedFrom(w)
  PROVE  \/ mine[w] = seen[w]
         \/ mine[w].version = seen[w].version + 1
<1>1. job[w].kind \in AllKinds
  BY DEF TypeOK, Job
<1>2. QED
  BY <1>1 DEF AssignedFrom, AllKinds, Moved, Paid, Noted

(* A commit that changes a row changes it from what the worker had loaded, *)
(* by one version.                                                         *)
LEMMA CommitChanges ==
  ASSUME OptimisticLocking, NEW w \in Workers, Commit(w)
  PROVE  /\ Order(w) \in Orders /\ job[w] \in Job
         /\ \A o \in Orders : row'[o] # row[o] =>
              /\ o = Order(w) /\ Dirty(w) /\ row[o] = seen[w]
              /\ row'[o] = mine[w]
              /\ row'[o].version = row[o].version + 1
         /\ Dirty(w) => row[Order(w)] = seen[w] /\ row'[Order(w)] = mine[w]
<1>1. Order(w) \in Orders /\ job[w] \in Job /\ pc[w] = "flushed"
  BY DEF OptimisticLocking, TypeOK, Commit, Job, Order
<1>2. Dirty(w) => /\ row[Order(w)] = seen[w]
                  /\ mine[w].version = seen[w].version + 1
  BY <1>1, AssignedVersion
     DEF OptimisticLocking, FlushedHoldsRow, WritesComeFromReads, Dirty
<1>3. QED
  BY <1>1, <1>2 DEF OptimisticLocking, TypeOK, Commit

LEMMA CommitKeepsLocking ==
  ASSUME OptimisticLocking, NEW w \in Workers, Commit(w)
  PROVE  LoadedRowsArePast' /\ WritesComeFromReads' /\ FlushedHoldsRow'
<1>1. /\ pc[w] = "flushed" /\ pc'[w] = "committed"
      /\ \A v \in Workers : v # w => pc'[v] = pc[v]
      /\ job' = job /\ seen' = seen /\ mine' = mine
      /\ rowLock' = Unlocked(w)
  BY DEF OptimisticLocking, TypeOK, Commit, local
<1>2. \A o \in Orders : /\ row[o].version \in Nat
                        /\ \/ row'[o] = row[o]
                           \/ row'[o].version = row[o].version + 1
  BY CommitChanges DEF OptimisticLocking, TypeOK, Row
<1>3. \A v \in Workers : seen[v].version \in Nat /\ mine[v].version \in Nat
  BY DEF OptimisticLocking, TypeOK, Row
<1>4. \A r, o : o \in Orders /\ r.version \in Nat /\ AtMost(r, o) => AtMost(r, o)'
  BY <1>2 DEF AtMost
<1>5. LoadedRowsArePast'
  <2>1. AtMost(mine[w], Order(w))'
    <3>1. CASE Dirty(w)
      BY <1>1, <3>1, CommitChanges DEF AtMost, Order, OptimisticLocking, TypeOK, Row
    <3>2. CASE ~Dirty(w)
      BY <1>1, <1>3, <1>4, <3>2, CommitChanges
         DEF Dirty, Order, OptimisticLocking, LoadedRowsArePast
    <3>3. QED
      BY <3>1, <3>2
  <2>2. ASSUME NEW v \in Workers, v # w, pc[v] # "idle"
        PROVE  /\ Order(v)' = Order(v) /\ Order(v) \in Orders
               /\ AtMost(seen[v], Order(v)) => AtMost(seen[v], Order(v))'
               /\ AtMost(mine[v], Order(v)) => AtMost(mine[v], Order(v))'
    <3>1. Order(v)' = Order(v) /\ Order(v) \in Orders
      BY <1>1, <2>2 DEF Order, OptimisticLocking, TypeOK, Job
    <3>2. QED
      BY <1>1, <1>3, <1>2, <3>1 DEF AtMost
  <2>3. QED
    BY <1>1, <2>1, <2>2 DEF OptimisticLocking, LoadedRowsArePast
<1>6. WritesComeFromReads'
  BY <1>1 DEF OptimisticLocking, WritesComeFromReads, AssignedFrom
<1>7. FlushedHoldsRow'
  <2>1. ASSUME NEW v \in Workers, pc'[v] = "flushed", Dirty(v)'
        PROVE  rowLock'[Order(v)] = v /\ row'[Order(v)] = seen[v]
    <3>1. /\ v # w /\ Order(v) \in Orders
          /\ rowLock[Order(v)] = v /\ row[Order(v)] = seen[v]
      BY <1>1, <2>1 DEF OptimisticLocking, FlushedHoldsRow, Dirty, TypeOK, Job, Order
    <3>2. row'[Order(v)] # row[Order(v)] => rowLock[Order(v)] = w
      BY <1>1, <3>1, CommitChanges DEF OptimisticLocking, FlushedHoldsRow
    <3>3. QED
      BY <1>1, <3>1, <3>2 DEF Unlocked
  <2>2. \A o \in Orders : \A v \in Workers :
          rowLock'[o] = v => v # w /\ rowLock[o] = v
    BY <1>1, NoneAssumption DEF Unlocked
  <2>3. QED
    BY <1>1, <2>1, <2>2 DEF OptimisticLocking, FlushedHoldsRow, Writer, Order
<1>8. QED
  BY <1>5, <1>6, <1>7

LEMMA LockingStep == OptimisticLocking /\ [Next]_vars => OptimisticLocking'
<1> SUFFICES ASSUME OptimisticLocking, [Next]_vars
             PROVE  LoadedRowsArePast' /\ WritesComeFromReads' /\ FlushedHoldsRow'
  BY TypeStep DEF OptimisticLocking
<1> DEFINE Kept == LoadedRowsArePast' /\ WritesComeFromReads' /\ FlushedHoldsRow'
<1> HIDE DEF Kept
<1>1. ASSUME NEW w \in Workers, Begin(w)
      PROVE  Kept
  <2>1. /\ pc[w] = "idle" /\ pc'[w] = "begun"
        /\ \A v \in Workers : v # w => pc'[v] = pc[v] /\ job'[v] = job[v]
        /\ UNCHANGED <<row, rowLock, seen, mine>>
    BY <1>1 DEF Begin, OptimisticLocking, TypeOK
  <2>2. LoadedRowsArePast'
    BY <2>1 DEF OptimisticLocking, LoadedRowsArePast, AtMost, Order
  <2>3. WritesComeFromReads'
    BY <2>1 DEF OptimisticLocking, WritesComeFromReads, AssignedFrom
  <2>4. FlushedHoldsRow'
    BY <2>1 DEF OptimisticLocking, FlushedHoldsRow, Writer, Dirty, Order
  <2>5. QED
    BY <2>2, <2>3, <2>4 DEF Kept
<1>2. ASSUME NEW w \in Workers,
             RefuseCancel(w) \/ RefuseStatus(w) \/ RefuseNotes(w) \/ TrackHit(w)
               \/ FillTracking(w) \/ FlushStale(w) \/ SyncMirror(w)
               \/ SyncMirrorFails(w) \/ Crash(w)
      PROVE  Kept
  BY <1>2, LeaveKeepsLocking
     DEF Kept, RefuseCancel, RefuseStatus, RefuseNotes, Refuse, TrackHit,
         FillTracking, FlushStale, SyncMirror, SyncMirrorFails, Crash
<1>3. ASSUME NEW w \in Workers,
             LoadForCancel(w) \/ LoadForStatus(w) \/ LoadForPayment(w)
               \/ LoadForNotes(w) \/ LoadForTrack(w)
      PROVE  Kept
  <2>1. PICK r : Load(w, r) /\ AssignedFrom(w)'
    <3>1. ASSUME NEW r, Load(w, r)
          PROVE  job' = job /\ seen'[w] = row[Order(w)] /\ mine'[w] = r
      BY <3>1 DEF Load, OptimisticLocking, TypeOK
    <3>2. QED
      BY <1>3, <3>1
         DEF AssignedFrom, LoadForCancel, LoadForStatus, LoadForPayment,
             LoadForNotes, LoadForTrack
  <2>2. QED
    BY <2>1, LoadKeepsLocking DEF Kept
<1>4. ASSUME NEW w \in Workers, ListTimeline(w)
      PROVE  Kept
  <2>1. /\ pc[w] = "loaded" /\ pc'[w] = "listed" /\ job[w].kind = "track"
        /\ \A v \in Workers : v # w => pc'[v] = pc[v]
        /\ UNCHANGED <<row, rowLock, job, seen, mine>>
    BY <1>4 DEF ListTimeline, OptimisticLocking, TypeOK
  <2>2. LoadedRowsArePast'
    BY <2>1 DEF OptimisticLocking, LoadedRowsArePast, AtMost, Order
  <2>3. WritesComeFromReads'
    BY <2>1 DEF OptimisticLocking, WritesComeFromReads, AssignedFrom
  <2>4. FlushedHoldsRow'
    BY <2>1 DEF OptimisticLocking, FlushedHoldsRow, Writer, Dirty, Order
  <2>5. QED
    BY <2>2, <2>3, <2>4 DEF Kept
<1>5. ASSUME NEW w \in Workers, Flush(w) \/ FlushClean(w)
      PROVE  Kept
  <2>1. /\ pc[w] = "loaded" /\ pc'[w] = "flushed" /\ Writer(w)
        /\ \A v \in Workers : v # w => pc'[v] = pc[v]
        /\ UNCHANGED <<row, job, seen, mine>>
        /\ Order(w) \in Orders
    BY <1>5 DEF Flush, FlushClean, OptimisticLocking, TypeOK, local, Job, Order
  <2>2. LoadedRowsArePast'
    BY <2>1 DEF OptimisticLocking, LoadedRowsArePast, AtMost, Order
  <2>3. WritesComeFromReads'
    BY <2>1 DEF OptimisticLocking, WritesComeFromReads, AssignedFrom
  <2>4. FlushedHoldsRow'
    <3>1. CASE Flush(w)
      <4>1. /\ rowLock[Order(w)] = None /\ rowLock'[Order(w)] = w
            /\ \A o \in Orders : o # Order(w) => rowLock'[o] = rowLock[o]
            /\ row[Order(w)] = seen[w]
        BY <2>1, <3>1
           DEF Flush, OptimisticLocking, TypeOK, LoadedRowsArePast, AtMost
      <4>2. QED
        BY <2>1, <4>1, NoneAssumption
           DEF OptimisticLocking, FlushedHoldsRow, Writer, Dirty, Order, TypeOK, Job
    <3>2. CASE FlushClean(w)
      BY <2>1, <3>2
         DEF FlushClean, OptimisticLocking, FlushedHoldsRow, Writer, Dirty, Order
    <3>3. QED
      BY <1>5, <3>1, <3>2
  <2>5. QED
    BY <2>2, <2>3, <2>4 DEF Kept
<1>6. ASSUME NEW w \in Workers, Commit(w)
      PROVE  Kept
  BY <1>6, CommitKeepsLocking DEF Kept
<1>7. ASSUME NEW w \in Workers, Invalidate(w)
      PROVE  Kept
  <2>1. CASE Leave(w)
    BY <1>7, <2>1, LeaveKeepsLocking DEF Kept, Invalidate
  <2>2. CASE ~Leave(w)
    <3>1. /\ pc[w] = "committed" /\ pc'[w] = "invalidated"
          /\ \A v \in Workers : v # w => pc'[v] = pc[v]
          /\ UNCHANGED <<row, rowLock, job, seen, mine>>
      BY <1>7, <2>2 DEF Invalidate, OptimisticLocking, TypeOK, local
    <3>2. LoadedRowsArePast'
      BY <3>1 DEF OptimisticLocking, LoadedRowsArePast, AtMost, Order
    <3>3. WritesComeFromReads'
      BY <3>1 DEF OptimisticLocking, WritesComeFromReads, AssignedFrom
    <3>4. FlushedHoldsRow'
      BY <3>1 DEF OptimisticLocking, FlushedHoldsRow, Writer, Dirty, Order
    <3>5. QED
      BY <3>2, <3>3, <3>4 DEF Kept
  <2>3. QED
    BY <2>1, <2>2
<1>8. CASE (\E o \in Orders : ExpireTracking(o)) \/ UNCHANGED vars
  <2>1. UNCHANGED <<row, rowLock, pc, job, seen, mine>>
    BY <1>8 DEF ExpireTracking, vars, local
  <2>2. LoadedRowsArePast'
    BY <2>1 DEF OptimisticLocking, LoadedRowsArePast, AtMost, Order
  <2>3. WritesComeFromReads'
    BY <2>1 DEF OptimisticLocking, WritesComeFromReads, AssignedFrom
  <2>4. FlushedHoldsRow'
    BY <2>1 DEF OptimisticLocking, FlushedHoldsRow, Writer, Dirty, Order
  <2>5. QED
    BY <2>2, <2>3, <2>4 DEF Kept
<1>9. QED
  BY <1>1, <1>2, <1>3, <1>4, <1>5, <1>6, <1>7, <1>8
     DEF Kept, Next, HandlerStep, CustomerStep, StaffStep, WriteStep

LEMMA InitLocking == Init => OptimisticLocking
BY InitType, NoneAssumption
   DEF Init, OptimisticLocking, LoadedRowsArePast, WritesComeFromReads,
       FlushedHoldsRow

(* An UPDATE that was flushed is protected until its commit: the row it    *)
(* replaces is the row its handler checked.                                *)
THEOREM LockingHolds == Spec => []OptimisticLocking
<1>1. QED
  BY InitLocking, LockingStep, PTL DEF Spec

-----------------------------------------------------------------------------
(* Refinement of OrderMachine *)

(* Only a commit changes rows or timelines. *)
LEMMA OnlyCommits ==
  [Next]_vars => UNCHANGED <<row, timeline>> \/ \E w \in Workers : Commit(w)
BY DEF Next, HandlerStep, CustomerStep, StaffStep, WriteStep, vars, local, Begin,
       LoadForCancel, RefuseCancel, TrackHit, LoadForTrack, ListTimeline,
       FillTracking, LoadForStatus, RefuseStatus, LoadForPayment, LoadForNotes,
       RefuseNotes, Load, Refuse, Flush, FlushStale, FlushClean, Invalidate,
       SyncMirror, SyncMirrorFails, Crash, ExpireTracking

(* What a commit does to the row, by the kind of its request. *)
LEMMA CommitByKind ==
  ASSUME OptimisticLocking, NEW w \in Workers, Commit(w)
  PROVE  LET o == Order(w) IN
    /\ job[w].kind \in {"cancel", "status"} =>
         /\ row'[o].status \in AllowedTransitions[row[o].status]
         /\ row'[o].payment = SettledPayment(row'[o].status, row[o].payment)
         /\ mine[w].status = row'[o].status
    /\ job[w].kind = "cancel" =>
         row[o].status \in CustomerCancelable /\ row'[o].status = "cancelled"
    /\ job[w].kind \in {"payment", "notes"} => row'[o].status = row[o].status
    /\ job[w].kind = "notes" => row'[o].payment = row[o].payment
    /\ job[w].kind \in {"cancel", "status", "payment", "notes"}
<1>1. /\ Order(w) \in Orders /\ job[w] \in Job /\ pc[w] = "flushed"
      /\ AssignedFrom(w) /\ Writer(w)
      /\ row \in [Orders -> Row] /\ seen[w] \in Row /\ mine[w] \in Row
  BY CommitChanges
     DEF Commit, OptimisticLocking, TypeOK, WritesComeFromReads, FlushedHoldsRow
<1>2. job[w].kind \in {"cancel", "status", "payment", "notes"}
  BY <1>1 DEF Job, AllKinds, Writer
<1>3. CASE job[w].kind \in {"cancel", "status"}
  <2>1. mine[w].version = seen[w].version + 1 /\ seen[w].version \in Nat
    BY <1>1, <1>3 DEF AssignedFrom, Moved, Row
  <2>2. Dirty(w)
    BY <2>1 DEF Dirty
  <2>3. row[Order(w)] = seen[w] /\ row'[Order(w)] = mine[w]
    BY <2>2, CommitChanges
  <2>4. QED
    BY <1>1, <1>2, <1>3, <2>3, Tables DEF AssignedFrom, Moved
<1>4. CASE job[w].kind \in {"payment", "notes"}
  <2>1. mine[w].status = seen[w].status
    BY <1>1, <1>4 DEF AssignedFrom, Paid, Noted
  <2>2. job[w].kind = "notes" => mine[w].payment = seen[w].payment
    BY <1>1, <1>4 DEF AssignedFrom, Noted
  <2>3. row'[Order(w)] = row[Order(w)] \/
          (row[Order(w)] = seen[w] /\ row'[Order(w)] = mine[w])
    BY <1>1, CommitChanges
  <2>4. QED
    BY <1>2, <1>4, <2>1, <2>2, <2>3
<1>5. QED
  BY <1>2, <1>3, <1>4

LEMMA InitRefines == Init => Machine!Init
BY DEF Init, NewRow, Machine!Init

LEMMA StepRefines ==
  OptimisticLocking /\ OptimisticLocking' /\ [Next]_vars
    => [Machine!Next]_(Machine!vars)
<1> SUFFICES ASSUME OptimisticLocking, OptimisticLocking', [Next]_vars
             PROVE  [Machine!Next]_(Machine!vars)
  OBVIOUS
<1>1. CASE UNCHANGED row
  BY <1>1 DEF Machine!vars
<1>2. ASSUME NEW w \in Workers, Commit(w)
      PROVE  [Machine!Next]_(Machine!vars)
  <2>0. PICK o \in Orders : o = Order(w)
    BY <1>2, CommitChanges
  <2>1. /\ o \in Orders
        /\ row \in [Orders -> Row] /\ row' \in [Orders -> Row]
        /\ \A x \in Orders : x # o => row'[x] = row[x]
    BY <1>2, <2>0, CommitChanges DEF OptimisticLocking, TypeOK
  <2>2. CASE job[w].kind \in {"cancel", "status"}
    <3>1. /\ row'[o].status \in AllowedTransitions[row[o].status]
          /\ row'[o].payment = SettledPayment(row'[o].status, row[o].payment)
          /\ row'[o].status \in OrderStatus
      BY <1>2, <2>0, <2>1, <2>2, CommitByKind DEF Row
    <3>2. PICK s \in OrderStatus : s = row'[o].status
      BY <3>1
    <3>3. Machine!Move(o, s)
      BY <2>1, <3>1, <3>2 DEF Machine!Move, AllowedTransitions, SettledPayment
    <3>4. QED
      BY <3>3 DEF Machine!Next, OrderStatus
  <2>3. CASE job[w].kind \in {"payment", "notes"}
    <3>1. row'[o].status = row[o].status /\ row'[o].payment \in PaymentStatus
      BY <1>2, <2>0, <2>1, <2>3, CommitByKind DEF Row
    <3>2. PICK p \in PaymentStatus : p = row'[o].payment
      BY <3>1
    <3>3. Machine!SetPayment(o, p)
      BY <2>1, <3>1, <3>2 DEF Machine!SetPayment
    <3>4. QED
      BY <3>3 DEF Machine!Next, PaymentStatus
  <2>4. QED
    BY <1>2, <2>2, <2>3, CommitByKind
<1>3. QED
  BY <1>1, <1>2, OnlyCommits

(* However handlers interleave, race and fail, the committed rows behave   *)
(* as if every request were one atomic step of OrderMachine.               *)
THEOREM OrderRefinement == Spec => ImplementsOrderMachine
<1>1. Spec => []OptimisticLocking
  BY LockingHolds
<1>2. QED
  BY <1>1, InitRefines, StepRefines, PTL
     DEF Spec, ImplementsOrderMachine, Machine!Spec

(* A customer cancels only what is still pending or confirmed when the     *)
(* cancellation commits.                                                   *)
THEOREM CancelSafe == Spec => CancelBeatsNoKitchen
<1> DEFINE A(w) == (pc[w] = "flushed" /\ pc'[w] = "committed"
                     /\ job[w].kind = "cancel")
                       => row[Order(w)].status \in CustomerCancelable
<1>1. OptimisticLocking /\ [Next]_vars => [\A w \in Workers : A(w)]_vars
  <2> SUFFICES ASSUME OptimisticLocking, [Next]_vars, NEW w \in Workers,
                      pc[w] = "flushed", job[w].kind = "cancel"
               PROVE  row[Order(w)].status \in CustomerCancelable
    OBVIOUS
  <2>1. AssignedFrom(w) /\ job[w] \in Job /\ Writer(w) /\ seen[w].version \in Nat
    BY DEF OptimisticLocking, WritesComeFromReads, TypeOK, Writer, Row
  <2>2. Dirty(w) /\ seen[w].status \in CustomerCancelable
    BY <2>1 DEF AssignedFrom, Moved, Dirty
  <2>3. QED
    BY <2>2 DEF OptimisticLocking, FlushedHoldsRow
<1>2. QED
  BY <1>1, LockingHolds, PTL DEF Spec, CancelBeatsNoKitchen

-----------------------------------------------------------------------------
(* Timelines *)

(* tl is a path through the transition table that ends in status s. *)
PathTo(tl, s) ==
  /\ \A i, j \in DOMAIN tl :
       Follows(tl, i, j) => tl[i].status \in AllowedTransitions[tl[j].status]
  /\ \E i \in DOMAIN tl :
       /\ tl[i].by = "status" /\ tl[i].status = s
       /\ \A k \in DOMAIN tl : k > i => tl[k].by = "payment"

LEMMA Appended ==
  ASSUME NEW tl \in Seq(Event), NEW e \in Event
  PROVE  /\ DOMAIN tl = 1 .. Len(tl) /\ Len(tl) \in Nat
         /\ DOMAIN (tl \o <<e>>) = 1 .. (Len(tl) + 1)
         /\ Len(tl \o <<e>>) = Len(tl) + 1
         /\ \A i \in 1 .. Len(tl) : (tl \o <<e>>)[i] = tl[i]
         /\ (tl \o <<e>>)[Len(tl) + 1] = e
         /\ tl \o <<>> = tl
OBVIOUS

(* A payment event leaves the path as it is. *)
LEMMA PaymentEventKeepsPath ==
  ASSUME NEW tl \in Seq(Event), NEW e \in Event, NEW s,
         PathTo(tl, s), e.by = "payment"
  PROVE  PathTo(tl \o <<e>>, s)
<1> DEFINE t2 == tl \o <<e>>
<1> DEFINE n == Len(tl)
<1>1. /\ DOMAIN tl = 1 .. n /\ n \in Nat /\ DOMAIN t2 = 1 .. (n + 1)
      /\ \A i \in 1 .. n : t2[i] = tl[i]
      /\ t2[n + 1] = e
  BY Appended
<1> HIDE DEF t2, n
<1>2. ASSUME NEW i \in DOMAIN t2, NEW j \in DOMAIN t2, Follows(t2, i, j)
      PROVE  t2[i].status \in AllowedTransitions[t2[j].status]
  <2>1. i \in 1 .. n /\ j \in 1 .. n
    BY <1>1, <1>2 DEF Follows
  <2>2. Follows(tl, i, j)
    BY <1>1, <1>2, <2>1 DEF Follows
  <2>3. QED
    BY <1>1, <2>1, <2>2 DEF PathTo
<1>3. PICK i \in DOMAIN tl :
        /\ tl[i].by = "status" /\ tl[i].status = s
        /\ \A k \in DOMAIN tl : k > i => tl[k].by = "payment"
  BY DEF PathTo
<1>4. /\ i \in DOMAIN t2 /\ t2[i].by = "status" /\ t2[i].status = s
      /\ \A k \in DOMAIN t2 : k > i => t2[k].by = "payment"
  BY <1>1, <1>3
<1>5. PathTo(t2, s)
  BY <1>2, <1>4 DEF PathTo
<1>6. QED
  BY <1>5 DEF t2

(* A status event the table allows prolongs the path. *)
LEMMA StatusEventProlongsPath ==
  ASSUME NEW tl \in Seq(Event), NEW e \in Event, NEW s,
         PathTo(tl, s), e.by = "status", e.status \in AllowedTransitions[s]
  PROVE  PathTo(tl \o <<e>>, e.status)
<1> DEFINE t2 == tl \o <<e>>
<1> DEFINE n == Len(tl)
<1>1. /\ DOMAIN tl = 1 .. n /\ n \in Nat /\ DOMAIN t2 = 1 .. (n + 1)
      /\ \A i \in 1 .. n : t2[i] = tl[i]
      /\ t2[n + 1] = e
  BY Appended
<1> HIDE DEF t2, n
<1>2. PICK last \in 1 .. n :
        /\ tl[last].by = "status" /\ tl[last].status = s
        /\ \A k \in 1 .. n : k > last => tl[k].by = "payment"
  BY <1>1 DEF PathTo
<1>3. ASSUME NEW i \in DOMAIN t2, NEW j \in DOMAIN t2, Follows(t2, i, j)
      PROVE  t2[i].status \in AllowedTransitions[t2[j].status]
  <2>0. j \in 1 .. n
    BY <1>1, <1>3 DEF Follows
  <2>1. CASE i \in 1 .. n
    <3>1. Follows(tl, i, j)
      BY <1>1, <1>3, <2>0, <2>1 DEF Follows
    <3>2. QED
      BY <1>1, <2>0, <2>1, <3>1 DEF PathTo
  <2>2. CASE i = n + 1
    <3>1. ~ (last < j)
      BY <1>1, <1>2, <1>3, <2>0 DEF Follows
    <3>2. ~ (j < last)
      BY <1>1, <1>2, <1>3, <2>0, <2>2 DEF Follows
    <3>3. j = last
      BY <1>1, <2>0, <3>1, <3>2
    <3>4. QED
      BY <1>1, <1>2, <2>2, <3>3
  <2>3. QED
    BY <1>1, <2>1, <2>2
<1>4. /\ n + 1 \in DOMAIN t2 /\ t2[n + 1] = e
      /\ \A k \in DOMAIN t2 : ~ (k > n + 1)
  BY <1>1
<1>5. PathTo(t2, e.status)
  BY <1>3, <1>4 DEF PathTo
<1>6. QED
  BY <1>5 DEF t2

LEMMA TimelineStep ==
  OptimisticLocking /\ TimelineIsStatusPath /\ [Next]_vars
    => TimelineIsStatusPath'
<1> SUFFICES ASSUME OptimisticLocking, TimelineIsStatusPath, [Next]_vars
             PROVE  TimelineIsStatusPath'
  OBVIOUS
<1>1. CASE UNCHANGED <<row, timeline>>
  BY <1>1 DEF TimelineIsStatusPath, Follows
<1>2. ASSUME NEW w \in Workers, Commit(w)
      PROVE  TimelineIsStatusPath'
  <2>1. SUFFICES ASSUME NEW o \in Orders
                 PROVE  PathTo(timeline'[o], row'[o].status)
    BY DEF TimelineIsStatusPath, PathTo, Follows
  <2>2. PathTo(timeline[o], row[o].status) /\ timeline[o] \in Seq(Event)
    BY DEF TimelineIsStatusPath, PathTo, OptimisticLocking, TypeOK
  <2>3. CASE o # Order(w)
    <3>1. timeline'[o] = timeline[o] /\ row'[o] = row[o]
      BY <1>2, <2>3, CommitChanges DEF Commit, OptimisticLocking, TypeOK
    <3>2. QED
      BY <2>2, <3>1
  <2>4. CASE o = Order(w)
    <3>1. timeline'[o] = timeline[o] \o NewEvents(w)
      BY <1>2, <2>4 DEF Commit, OptimisticLocking, TypeOK
    <3>2. NewEvent(w) \in Event
      BY DEF NewEvent, Event, OptimisticLocking, TypeOK, Row
    <3>3. CASE job[w].kind = "notes"
      <4>1. timeline'[o] = timeline[o]
        BY <2>2, <3>1, <3>2, <3>3, Appended DEF NewEvents
      <4>2. QED
        BY <1>2, <2>2, <2>4, <3>3, <4>1, CommitByKind
    <3>4. CASE job[w].kind = "payment"
      <4>1. NewEvents(w) = <<NewEvent(w)>> /\ NewEvent(w).by = "payment"
        BY <3>4 DEF NewEvents, NewEvent
      <4>2. row'[o].status = row[o].status
        BY <1>2, <2>4, <3>4, CommitByKind
      <4>3. QED
        BY <2>2, <3>1, <3>2, <4>1, <4>2, PaymentEventKeepsPath
    <3>5. CASE job[w].kind \in {"cancel", "status"}
      <4>1. /\ NewEvents(w) = <<NewEvent(w)>> /\ NewEvent(w).by = "status"
            /\ NewEvent(w).status = mine[w].status
        BY <3>5 DEF NewEvents, NewEvent
      <4>2. /\ row'[o].status = mine[w].status
            /\ mine[w].status \in AllowedTransitions[row[o].status]
        BY <1>2, <2>4, <3>5, CommitByKind
      <4>3. QED
        BY <2>2, <3>1, <3>2, <4>1, <4>2, StatusEventProlongsPath
    <3>6. QED
      BY <1>2, <3>3, <3>4, <3>5, CommitByKind
  <2>5. QED
    BY <2>3, <2>4
<1>3. QED
  BY <1>1, <1>2, OnlyCommits

LEMMA InitTimeline == Init => TimelineIsStatusPath
<1> SUFFICES ASSUME Init, NEW o \in Orders
             PROVE  PathTo(timeline[o], row[o].status)
  BY DEF TimelineIsStatusPath, PathTo
<1>1. timeline[o] = <<Placed>> /\ row[o].status = "pending"
  BY DEF Init, NewRow
<1>2. DOMAIN <<Placed>> = {1} /\ <<Placed>>[1] = Placed
  OBVIOUS
<1>3. QED
  BY <1>1, <1>2 DEF PathTo, Follows, Placed

(* The timeline always tells the whole story of the order's status. *)
THEOREM TimelineComplete == Spec => []TimelineIsStatusPath
<1>1. QED
  BY InitTimeline, TimelineStep, LockingHolds, PTL DEF Spec

-----------------------------------------------------------------------------
(* The mirror file *)

(* What is no newer than a row stays so. *)
LEMMA AtMostStable ==
  OptimisticLocking /\ [Next]_vars =>
    \A o \in Orders : \A r \in Row : AtMost(r, o) => AtMost(r, o)'
<1> SUFFICES ASSUME OptimisticLocking, [Next]_vars,
                    NEW o \in Orders, NEW r \in Row, AtMost(r, o)
             PROVE  AtMost(r, o)'
  OBVIOUS
<1>1. row[o] \in Row
  BY DEF OptimisticLocking, TypeOK
<1>2. \/ row'[o] = row[o]
      \/ row'[o].version = row[o].version + 1
  BY OnlyCommits, CommitChanges
<1>3. QED
  BY <1>1, <1>2 DEF AtMost, Row

LEMMA MirrorStep ==
  OptimisticLocking /\ MirrorHoldsCommitted /\ [Next]_vars
    => MirrorHoldsCommitted'
<1> SUFFICES ASSUME OptimisticLocking, MirrorHoldsCommitted, [Next]_vars,
                    NEW o \in Orders
             PROVE  AtMost(mirror[o], o)'
  BY DEF MirrorHoldsCommitted, AtMost
<1>1. AtMost(mirror[o], o) /\ mirror[o] \in Row
  BY DEF MirrorHoldsCommitted, AtMost, OptimisticLocking, TypeOK
<1>2. CASE UNCHANGED mirror
  <2>1. PICK m \in Row : m = mirror[o]
    BY <1>1
  <2>2. AtMost(m, o)'
    BY <1>1, <2>1, AtMostStable
  <2>3. QED
    BY <1>2, <2>1, <2>2 DEF AtMost
<1>3. ASSUME NEW w \in Workers, SyncMirror(w)
      PROVE  AtMost(mirror[o], o)'
  <2>1. row' = row /\ mirror' = [mirror EXCEPT ![Order(w)] = mine[w]]
    BY <1>3 DEF SyncMirror
  <2>2. AtMost(mine[w], Order(w))
    BY <1>3 DEF SyncMirror, OptimisticLocking, LoadedRowsArePast
  <2>3. QED
    BY <1>1, <2>1, <2>2 DEF AtMost, OptimisticLocking, TypeOK
<1>4. UNCHANGED mirror \/ \E w \in Workers : SyncMirror(w)
  BY DEF Next, HandlerStep, CustomerStep, StaffStep, WriteStep, vars, local,
         Begin, LoadForCancel, RefuseCancel, TrackHit, LoadForTrack,
         ListTimeline, FillTracking, LoadForStatus, RefuseStatus,
         LoadForPayment, LoadForNotes, RefuseNotes, Load, Refuse, Flush,
         FlushStale, FlushClean, Commit, Invalidate, SyncMirrorFails, Crash,
         ExpireTracking
<1>5. QED
  BY <1>2, <1>3, <1>4

(* data/order.json never runs ahead of PostgreSQL. *)
THEOREM MirrorBehind == Spec => []MirrorHoldsCommitted
<1>1. Init => MirrorHoldsCommitted
  <2> SUFFICES ASSUME Init, NEW o \in Orders
               PROVE  /\ mirror[o].version <= row[o].version
                      /\ mirror[o].version = row[o].version =>
                           mirror[o] = row[o]
    BY DEF MirrorHoldsCommitted
  <2>1. NewRow.version \in Nat
    BY DEF NewRow
  <2>2. mirror[o] = NewRow /\ row[o] = NewRow
    BY DEF Init
  <2>3. QED
    BY <2>1, <2>2
<1>2. QED
  BY <1>1, MirrorStep, LockingHolds, PTL DEF Spec

-----------------------------------------------------------------------------
(* Tracking *)

(* Status s is among the first n events of tl. *)
Shown(tl, n, s) == \E i \in 1 .. n : i <= Len(tl) /\ tl[i].status = s

(* Timelines only grow at their end. *)
LEMMA ShownStays ==
  ASSUME OptimisticLocking, [Next]_vars, NEW o \in Orders,
         NEW n \in Nat, NEW s, Shown(timeline[o], n, s)
  PROVE  Shown(timeline'[o], n, s)
<1>1. CASE timeline'[o] = timeline[o]
  BY <1>1 DEF Shown
<1>2. ASSUME NEW w \in Workers, Commit(w), timeline'[o] # timeline[o]
      PROVE  Shown(timeline'[o], n, s)
  <2>1. /\ timeline[o] \in Seq(Event)
        /\ timeline'[o] = timeline[o] \o NewEvents(w)
    BY <1>2, CommitChanges DEF Commit, OptimisticLocking, TypeOK
  <2>2. NewEvent(w) \in Event
    BY DEF NewEvent, Event, OptimisticLocking, TypeOK, Row
  <2>3. timeline'[o] = timeline[o] \o <<NewEvent(w)>>
    BY <1>2, <2>1, <2>2, Appended DEF NewEvents
  <2>4. QED
    BY <2>1, <2>2, <2>3, Appended DEF Shown
<1>3. QED
  BY <1>1, <1>2, OnlyCommits

(* The row's status is in the timeline. *)
LEMMA RowStatusShown ==
  ASSUME TypeOK, TimelineIsStatusPath, NEW o \in Orders
  PROVE  Len(timeline[o]) \in Nat /\
           Shown(timeline[o], Len(timeline[o]), row[o].status)
<1>1. timeline[o] \in Seq(Event)
  BY DEF TypeOK
<1>2. DOMAIN timeline[o] = 1 .. Len(timeline[o]) /\ Len(timeline[o]) \in Nat
  BY <1>1
<1>3. PICK i \in DOMAIN timeline[o] : timeline[o][i].status = row[o].status
  BY DEF TimelineIsStatusPath
<1>4. QED
  BY <1>2, <1>3 DEF Shown

TrackingInv ==
  /\ \A w \in Workers : pc[w] = "listed" => job[w].kind = "track"
  /\ \A o \in Orders : tracking[o] # None =>
       Shown(timeline[o], tracking[o].events, tracking[o].row.status)
  /\ \A w \in Workers : job[w].kind = "track" =>
       /\ pc[w] = "loaded" =>
            Shown(timeline[Order(w)], Len(timeline[Order(w)]), seen[w].status)
       /\ pc[w] = "listed" =>
            Shown(timeline[Order(w)], events[w], seen[w].status)

(* Entries and half-done reads stay consistent whatever the writers do.    *)
LEMMA TrackingStep ==
  OptimisticLocking /\ TimelineIsStatusPath /\ TrackingInv /\ [Next]_vars
    => TrackingInv'
<1> SUFFICES ASSUME OptimisticLocking, TimelineIsStatusPath, TrackingInv,
                    [Next]_vars
             PROVE  TrackingInv'
  OBVIOUS
<1>0. TypeOK
  BY DEF OptimisticLocking
<1>1. ASSUME NEW o \in Orders, tracking'[o] # None, tracking'[o] = tracking[o]
      PROVE  Shown(timeline[o], tracking[o].events, tracking[o].row.status)'
  <2>1. PICK n \in Nat, s \in OrderStatus :
          n = tracking[o].events /\ s = tracking[o].row.status
    BY <1>0, <1>1 DEF TypeOK, TrackingEntry, Row
  <2>2. Shown(timeline[o], n, s)
    BY <1>1, <2>1 DEF TrackingInv
  <2>3. Shown(timeline'[o], n, s)
    BY <2>2, ShownStays
  <2>4. QED
    BY <1>1, <2>1, <2>3
<1>2. ASSUME NEW w \in Workers, job'[w] = job[w], pc'[w] = pc[w],
             seen'[w] = seen[w], events'[w] = events[w],
             job[w].kind = "track", pc[w] \in {"loaded", "listed"}
      PROVE  /\ pc[w] = "loaded" =>
                  Shown(timeline[Order(w)], Len(timeline[Order(w)]),
                        seen[w].status)'
             /\ pc[w] = "listed" =>
                  Shown(timeline[Order(w)], events[w], seen[w].status)'
  <2>1. PICK o \in Orders, s \in OrderStatus, m \in Nat :
          o = Order(w) /\ s = seen[w].status /\ m = events[w]
    BY <1>0, <1>2 DEF TypeOK, Job, Order, Row
  <2>2. PICK n \in Nat : n = Len(timeline[o])
    BY <1>0 DEF TypeOK
  <2>3. o = Order(w)' /\ s = seen'[w].status /\ m = events'[w]
    BY <1>2, <2>1 DEF Order
  <2>4. CASE pc[w] = "loaded"
    <3>1. Shown(timeline[o], n, s)
      BY <1>2, <2>1, <2>2, <2>4 DEF TrackingInv
    <3>2. Shown(timeline'[o], n, s)
      BY <3>1, ShownStays
    <3>3. Len(timeline'[o]) \in Nat
      BY TypeStep, <1>0 DEF TypeOK
    <3>4. Shown(timeline'[o], Len(timeline'[o]), s)
      BY <3>2, <3>3 DEF Shown
    <3>5. QED
      BY <2>3, <2>4, <3>4
  <2>5. CASE pc[w] = "listed"
    <3>1. Shown(timeline[o], m, s)
      BY <1>2, <2>1, <2>5 DEF TrackingInv
    <3>2. Shown(timeline'[o], m, s)
      BY <3>1, ShownStays
    <3>3. QED
      BY <2>3, <2>5, <3>2
  <2>6. QED
    BY <1>2, <2>4, <2>5
<1>3. ASSUME NEW o \in Orders
      PROVE  \/ tracking'[o] = tracking[o] \/ tracking'[o] = None
             \/ \E w \in Workers : FillTracking(w)
  BY <1>0
     DEF TypeOK, Next, HandlerStep, CustomerStep, StaffStep, WriteStep, vars,
         local, Begin, LoadForCancel, RefuseCancel, TrackHit, LoadForTrack,
         ListTimeline, LoadForStatus, RefuseStatus, LoadForPayment,
         LoadForNotes, RefuseNotes, Load, Refuse, Flush, FlushStale, FlushClean,
         Commit, Invalidate, SyncMirror, SyncMirrorFails, Crash, ExpireTracking
<1>4. ASSUME NEW w \in Workers, pc'[w] \in {"loaded", "listed"}
      PROVE  \/ /\ job'[w] = job[w] /\ pc'[w] = pc[w] /\ seen'[w] = seen[w]
                /\ events'[w] = events[w]
             \/ LoadForTrack(w) \/ ListTimeline(w)
             \/ pc'[w] = "loaded" /\ job'[w].kind # "track"
  <2> DEFINE Same == /\ job'[w] = job[w] /\ pc'[w] = pc[w]
                     /\ seen'[w] = seen[w] /\ events'[w] = events[w]
  <2>1. ASSUME NEW v \in Workers, v # w, HandlerStep(v) \/ Begin(v) \/ Crash(v)
        PROVE  Same
    <3>1. Leave(v) => Same
      BY <1>0, <2>1 DEF Leave, TypeOK
    <3>2. ASSUME NEW r, Load(v, r)
          PROVE  Same
      BY <1>0, <2>1, <3>2 DEF Load, TypeOK
    <3>3. QED
      BY <1>0, <2>1, <3>1, <3>2
         DEF TypeOK, HandlerStep, CustomerStep, StaffStep, WriteStep, local,
             Begin, LoadForCancel, RefuseCancel, TrackHit, LoadForTrack,
             ListTimeline, FillTracking, LoadForStatus, RefuseStatus,
             LoadForPayment, LoadForNotes, RefuseNotes, Refuse, Flush,
             FlushStale, FlushClean, Commit, Invalidate, SyncMirror,
             SyncMirrorFails, Crash
  <2>2. CASE HandlerStep(w) \/ Begin(w) \/ Crash(w)
    <3>1. ~ Leave(w)
      BY <1>0, <1>4 DEF Leave, TypeOK
    <3>2. ASSUME NEW r, Load(w, r)
          PROVE  job'[w] = job[w] /\ pc'[w] = "loaded"
      BY <1>0, <3>2 DEF Load, TypeOK
    <3>3. ~ Begin(w) /\ ~ Commit(w)
      BY <1>0, <1>4 DEF Begin, Commit, TypeOK
    <3>4. ~ Flush(w) /\ ~ FlushClean(w)
      BY <1>0, <1>4 DEF Flush, FlushClean, TypeOK
    <3>5. ~ Invalidate(w)
      BY <1>0, <1>4, <3>1 DEF Invalidate, TypeOK
    <3>6. QED
      BY <2>2, <3>1, <3>2, <3>3, <3>4, <3>5
         DEF HandlerStep, CustomerStep, StaffStep, WriteStep, LoadForCancel,
             RefuseCancel, TrackHit, FillTracking, LoadForStatus, RefuseStatus,
             LoadForPayment, LoadForNotes, RefuseNotes, Refuse, FlushStale,
             SyncMirror, SyncMirrorFails, Crash
  <2>3. CASE (\E o \in Orders : ExpireTracking(o)) \/ UNCHANGED vars
    BY <2>3 DEF ExpireTracking, vars, local
  <2>4. QED
    BY <2>1, <2>2, <2>3 DEF Next
<1>5. ASSUME NEW w \in Workers, LoadForTrack(w)
      PROVE  Shown(timeline[Order(w)], Len(timeline[Order(w)]), seen[w].status)'
  <2>1. Order(w) \in Orders
    BY <1>0, <1>5 DEF LoadForTrack, Load, TypeOK, Job, Order
  <2>2. /\ seen'[w] = row[Order(w)] /\ timeline' = timeline
        /\ Order(w)' = Order(w)
    BY <1>0, <1>5 DEF LoadForTrack, Load, TypeOK, Order
  <2>3. QED
    BY <1>0, <2>1, <2>2, RowStatusShown
<1>6. ASSUME NEW w \in Workers, ListTimeline(w)
      PROVE  Shown(timeline[Order(w)], events[w], seen[w].status)'
  <2>1. /\ seen'[w] = seen[w] /\ timeline' = timeline /\ Order(w)' = Order(w)
        /\ events'[w] = Len(timeline[Order(w)])
    BY <1>0, <1>6 DEF ListTimeline, TypeOK, Order
  <2>2. Shown(timeline[Order(w)], Len(timeline[Order(w)]), seen[w].status)
    BY <1>6 DEF ListTimeline, TrackingInv
  <2>3. QED
    BY <2>1, <2>2
<1>7. ASSUME NEW w \in Workers, FillTracking(w), NEW o \in Orders,
             tracking'[o] # None
      PROVE  Shown(timeline[o], tracking[o].events, tracking[o].row.status)'
  <2>1. CASE tracking'[o] = tracking[o]
    BY <1>1, <1>7, <2>1
  <2>2. CASE tracking'[o] # tracking[o]
    <3>1. /\ o = Order(w) /\ timeline' = timeline
          /\ tracking'[o] = [row |-> seen[w], events |-> events[w]]
      BY <1>0, <1>7, <2>2 DEF FillTracking, TypeOK
    <3>2. job[w].kind = "track"
      BY <1>7 DEF FillTracking, TrackingInv
    <3>3. Shown(timeline[o], events[w], seen[w].status)
      BY <1>7, <3>1, <3>2 DEF FillTracking, TrackingInv
    <3>4. QED
      BY <3>1, <3>3
  <2>3. QED
    BY <2>1, <2>2
<1>8. ASSUME NEW o \in Orders, tracking'[o] # None
      PROVE  Shown(timeline[o], tracking[o].events, tracking[o].row.status)'
  BY <1>1, <1>3, <1>7, <1>8
<1>9. ASSUME NEW w \in Workers, job'[w].kind = "track"
      PROVE  /\ pc'[w] = "loaded" =>
                  Shown(timeline[Order(w)], Len(timeline[Order(w)]),
                        seen[w].status)'
             /\ pc'[w] = "listed" =>
                  Shown(timeline[Order(w)], events[w], seen[w].status)'
  <2>1. CASE LoadForTrack(w)
    <3>1. pc'[w] = "loaded"
      BY <1>0, <2>1 DEF LoadForTrack, Load, TypeOK
    <3>2. QED
      BY <1>5, <2>1, <3>1
  <2>2. CASE ListTimeline(w)
    <3>1. pc'[w] = "listed"
      BY <1>0, <2>2 DEF ListTimeline, TypeOK
    <3>2. QED
      BY <1>6, <2>2, <3>1
  <2>3. CASE ~LoadForTrack(w) /\ ~ListTimeline(w)
    BY <1>2, <1>4, <1>9, <2>3
  <2>4. QED
    BY <2>1, <2>2, <2>3
<1>10. ASSUME NEW w \in Workers, pc'[w] = "listed"
       PROVE  job'[w].kind = "track"
  BY <1>0, <1>4, <1>10
     DEF LoadForTrack, ListTimeline, Load, TypeOK, TrackingInv
<1>11. QED
  BY <1>8, <1>9, <1>10 DEF TrackingInv

(* A tracking response, cached or not, never shows a status its own        *)
(* timeline does not explain.                                              *)
THEOREM TrackingConsistent == Spec => []TrackingShowsItsStatus
<1>1. Init => TrackingInv
  BY DEF Init, TrackingInv, NoJob
<1>2. TrackingInv => TrackingShowsItsStatus
  BY DEF TrackingInv, TrackingShowsItsStatus, Shown
<1>3. QED
  BY <1>1, <1>2, TrackingStep, LockingHolds, TimelineComplete, PTL DEF Spec

-----------------------------------------------------------------------------
(* Why requests end *)

LEMMA Stages ==
  /\ Stage("idle") = 0 /\ Stage("begun") = 1 /\ Stage("loaded") = 2
  /\ Stage("listed") = 3 /\ Stage("flushed") = 3 /\ Stage("committed") = 4
  /\ Stage("invalidated") = 5
  BY DEF Stage

(* p comes after q. *)
After(q, p) == p # q /\ (p = "idle" \/ Stage(p) > Stage(q))

LEMMA StepsAfter ==
  /\ \A q \in Positions \ {"idle"} : After(q, "idle")
  /\ After("begun", "loaded") /\ After("loaded", "listed") /\ After("loaded", "flushed")
  /\ After("flushed", "committed") /\ After("committed", "invalidated")
  BY Stages DEF After, Positions

LEMMA HandlerMovesOn ==
  ASSUME TypeOK, NEW w \in Workers, HandlerStep(w)
  PROVE  \E p : pc' = [pc EXCEPT ![w] = p] /\ After(pc[w], p)
<1>1. pc[w] \in Positions /\ Order(w) = job[w].order
  BY DEF TypeOK, Order
<1>2. CASE \/ RefuseCancel(w) \/ RefuseStatus(w) \/ RefuseNotes(w) \/ TrackHit(w)
           \/ FillTracking(w) \/ FlushStale(w) \/ SyncMirror(w) \/ SyncMirrorFails(w)
  <2>1. pc[w] # "idle" /\ pc' = [pc EXCEPT ![w] = "idle"]
    BY <1>2 DEF RefuseCancel, RefuseStatus, RefuseNotes, Refuse, TrackHit, FillTracking,
                FlushStale, SyncMirror, SyncMirrorFails, Leave
  <2>2. QED
    BY <1>1, <2>1, StepsAfter
<1>3. CASE \/ LoadForCancel(w) \/ LoadForStatus(w) \/ LoadForPayment(w)
           \/ LoadForNotes(w) \/ LoadForTrack(w)
  <2>1. pc[w] = "begun" /\ pc' = [pc EXCEPT ![w] = "loaded"]
    BY <1>3 DEF LoadForCancel, LoadForStatus, LoadForPayment, LoadForNotes, LoadForTrack, Load
  <2>2. QED
    BY <2>1, StepsAfter
<1>4. CASE ListTimeline(w)
  BY <1>4, StepsAfter DEF ListTimeline
<1>5. CASE Flush(w) \/ FlushClean(w)
  BY <1>5, StepsAfter DEF Flush, FlushClean
<1>6. CASE Commit(w)
  BY <1>6, StepsAfter DEF Commit
<1>7. CASE Invalidate(w)
  <2>1. pc[w] = "committed"
        /\ (pc' = [pc EXCEPT ![w] = "invalidated"] \/ pc' = [pc EXCEPT ![w] = "idle"])
    BY <1>7 DEF Invalidate, Leave
  <2>2. QED
    BY <1>1, <2>1, StepsAfter
<1>8. QED
  BY <1>2, <1>3, <1>4, <1>5, <1>6, <1>7
     DEF HandlerStep, CustomerStep, StaffStep, WriteStep

(* Nothing moves a handler but its own steps and its death. *)
LEMMA NobodyMovesBack ==
  ASSUME TypeOK, [Next]_vars, NEW v \in Workers, pc[v] # "idle", pc'[v] # pc[v]
  PROVE  pc'[v] = "idle" \/ Stage(pc'[v]) > Stage(pc[v])
<1>1. CASE \E w \in Workers : HandlerStep(w)
  <2>1. PICK w \in Workers : HandlerStep(w)
    BY <1>1
  <2>2. PICK p : pc' = [pc EXCEPT ![w] = p] /\ After(pc[w], p)
    BY <2>1, HandlerMovesOn
  <2>3. v = w /\ pc'[v] = p
    BY <2>2 DEF TypeOK
  <2>4. QED
    BY <2>2, <2>3 DEF After
<1>2. CASE \E w \in Workers : Begin(w)
  BY <1>2 DEF Begin, TypeOK
<1>3. CASE \E w \in Workers : Crash(w)
  BY <1>3 DEF Crash, Leave, TypeOK
<1>4. CASE (\E o \in Orders : ExpireTracking(o)) \/ UNCHANGED vars
  BY <1>4 DEF ExpireTracking, vars
<1>5. QED
  BY <1>1, <1>2, <1>3, <1>4 DEF Next

(* A row is locked only between the flush and the commit of one handler,   *)
(* which waits for no row then, and no handler repeats a step: what is left*)
(* of RequestsFinish is that the handler is given its five steps.          *)
THEOREM RequestsNeverStuck == Spec => []HoldersCommitNext /\ HandlersGoForward
<1> DEFINE A(w) ==
      /\ HandlerStep(w) => pc'[w] # pc[w]
      /\ pc[w] # "idle" /\ pc'[w] # pc[w]
           => pc'[w] = "idle" \/ Stage(pc'[w]) > Stage(pc[w])
<1>1. OptimisticLocking => HoldersCommitNext
  BY DEF OptimisticLocking, TypeOK, FlushedHoldsRow, HoldersCommitNext
<1>2. OptimisticLocking /\ [Next]_vars => [\A w \in Workers : A(w)]_vars
  <2> SUFFICES ASSUME OptimisticLocking, [Next]_vars, NEW w \in Workers PROVE A(w)
    OBVIOUS
  <2>1. TypeOK
    BY DEF OptimisticLocking
  <2>2. HandlerStep(w) => pc'[w] # pc[w]
    BY <2>1, HandlerMovesOn DEF TypeOK, After
  <2>3. QED
    BY <2>1, <2>2, NobodyMovesBack
<1>3. QED
  BY <1>1, <1>2, LockingHolds, PTL DEF Spec, HandlersGoForward

=============================================================================
