--------------------------------- MODULE Inbox ---------------------------------
(***************************************************************************)
(* In-app notifications: the chef's broadcasts and single notifications,   *)
(* and the inboxes of users who read and delete them, several at once.     *)
(*                                                                         *)
(* A broadcast lists the active users, adds a row for each and commits all *)
(* of them together; its audit record is a transaction of its own, after.  *)
(* mark_all_read is a bulk UPDATE: rows keep their versions.               *)
(***************************************************************************)
EXTENDS Handlers

CONSTANTS
  Readers,      \* users who may get notifications
  Sendings      \* broadcasts and single notifications to be sent

VARIABLES
  active,       \* users who are active
  since,        \* users active ever since the sending began, by sending
  note,         \* rows, by sending and reader
  sent,         \* sendings that are committed
  audited,      \* sendings with an audit record
  nreq          \* what each handler is at

inboxVars == <<active, since, note, sent, audited, nreq>>

Note(state, isRead, version) ==
  [state |-> state, isRead |-> isRead, version |-> version]

NoteAt(pc, sending, to, version) ==
  [pc |-> pc, sending |-> sending, to |-> to, version |-> version]

NoteIdle == NoteAt("idle", None, {}, 0)

InboxInit ==
  /\ active \in SUBSET Readers
  /\ since = [s \in Sendings |-> Readers]
  /\ note = [s \in Sendings |-> [u \in Readers |-> Note("none", FALSE, 0)]]
  /\ sent = {} /\ audited = {}
  /\ nreq = [w \in Workers |-> NoteIdle]

NoteGoto(w, r) == nreq' = [nreq EXCEPT ![w] = r]

Taken(s) == s \in sent \/ \E w \in Workers : nreq[w].sending = s

(* Mutant: when nobody is active, the notification is for nobody. *)
AddressNobody(w, s, to) ==
  /\ nreq[w] = NoteIdle /\ ~Taken(s) /\ to = active
  /\ since' = [since EXCEPT ![s] = active]
  /\ NoteGoto(w, NoteAt("send", s, IF to = {} THEN {None} ELSE to, 0))
  /\ UNCHANGED <<active, note, sent, audited>>

(* list_ids_by_role, or the user a single notification is for. *)
Address(w, s, to) ==
  /\ nreq[w] = NoteIdle /\ ~Taken(s)
  /\ to = active \/ \E u \in Readers : to = {u}
  /\ since' = [since EXCEPT ![s] = IF to = active THEN active ELSE {}]
  /\ NoteGoto(w, NoteAt("send", s, to, 0))
  /\ UNCHANGED <<active, note, sent, audited>>

(* Mutant: the rows are committed one at a time. *)
SendOne(w) ==
  LET s == nreq[w].sending IN
  /\ nreq[w].pc = "send"
  /\ \E u \in nreq[w].to :
       /\ note' = [note EXCEPT ![s][u] = Note("live", FALSE, 1)]
       /\ NoteGoto(w, [nreq[w] EXCEPT !.to = @ \ {u},
                         !.pc = IF nreq[w].to = {u} THEN "audit" ELSE "send"])
  /\ sent' = sent \cup {s}
  /\ UNCHANGED <<active, since, audited>>

Send(w) ==
  LET s == nreq[w].sending IN
  /\ nreq[w].pc = "send"
  /\ note' = [note EXCEPT ![s] = [u \in Readers |->
                IF u \in nreq[w].to THEN Note("live", FALSE, 1) ELSE @[u]]]
  /\ sent' = sent \cup {s}
  /\ NoteGoto(w, [nreq[w] EXCEPT !.pc = "audit"])
  /\ UNCHANGED <<active, since, audited>>

(* Mutant: the record is written before the rows. *)
AuditEarly(w) ==
  /\ nreq[w].pc \in {"send", "audit"}
  /\ audited' = audited \cup {nreq[w].sending}
  /\ NoteGoto(w, [nreq[w] EXCEPT !.pc = IF @ = "send" THEN "send" ELSE "idle"])
  /\ UNCHANGED <<active, since, note, sent>>

Audit(w) ==
  /\ nreq[w].pc = "audit"
  /\ audited' = audited \cup {nreq[w].sending}
  /\ NoteGoto(w, NoteIdle)
  /\ UNCHANGED <<active, since, note, sent>>

(* get_for_user, get_by_id: pc says what the row is loaded for. One that   *)
(* is read already is not written.                                         *)
OpenNote(w, s, u, pc) ==
  /\ nreq[w] = NoteIdle /\ note[s][u].state = "live"
  /\ pc = "read" => ~note[s][u].isRead
  /\ NoteGoto(w, NoteAt(pc, s, {u}, note[s][u].version))
  /\ UNCHANGED <<active, since, note, sent, audited>>

(* Mutant: a row is written as it was loaded but for the flag. *)
WriteWhole(w) ==
  /\ nreq[w].pc \in {"read", "delete"}
  /\ note' = [note EXCEPT ![nreq[w].sending] = [u \in Readers |->
       IF u \in nreq[w].to
         THEN Note(IF nreq[w].pc = "read" THEN "live" ELSE "deleted",
                   nreq[w].pc = "read", nreq[w].version + 1)
         ELSE @[u]]]
  /\ NoteGoto(w, NoteIdle)
  /\ UNCHANGED <<active, since, sent, audited>>

WriteNote(w) ==
  /\ nreq[w].pc \in {"read", "delete"}
  /\ \E u \in nreq[w].to :
       LET n == note[nreq[w].sending][u] IN
       IF n.version # nreq[w].version THEN UNCHANGED note
       ELSE note' = [note EXCEPT ![nreq[w].sending][u] =
              IF nreq[w].pc = "read" THEN Note("live", TRUE, n.version + 1)
                                     ELSE Note("deleted", n.isRead, n.version + 1)]
  /\ NoteGoto(w, NoteIdle)
  /\ UNCHANGED <<active, since, sent, audited>>

MarkAllRead(u) ==
  /\ note' = [s \in Sendings |->
       [note[s] EXCEPT ![u] = IF @.state = "live" THEN [@ EXCEPT !.isRead = TRUE] ELSE @]]
  /\ note' # note
  /\ UNCHANGED <<active, since, sent, audited, nreq>>

(* Accounts are registered, deactivated and restored all the while. *)
Toggle(u) ==
  /\ active' = IF u \in active THEN active \ {u} ELSE active \cup {u}
  /\ since' = [s \in Sendings |-> IF s \in sent THEN since[s] ELSE since[s] \ {u}]
  /\ UNCHANGED <<note, sent, audited, nreq>>

AbortNote(w) ==
  /\ nreq[w] # NoteIdle
  /\ NoteGoto(w, NoteIdle)
  /\ UNCHANGED <<active, since, note, sent, audited>>

InboxNext ==
  \/ \E w \in Workers :
       \/ \E s \in Sendings, to \in SUBSET Readers : Address(w, s, to)
       \/ \E s \in Sendings, u \in Readers, pc \in {"read", "delete"} :
            OpenNote(w, s, u, pc)
       \/ Send(w) \/ Audit(w) \/ WriteNote(w) \/ AbortNote(w)
  \/ \E u \in Readers : MarkAllRead(u) \/ Toggle(u)

InboxSpec == InboxInit /\ [][InboxNext]_inboxVars

-----------------------------------------------------------------------------
InboxTypeOK ==
  /\ active \subseteq Readers /\ audited \cup sent \subseteq Sendings
  /\ since \in [Sendings -> SUBSET Readers]
  /\ note \in [Sendings -> [Readers ->
       [state : {"none", "live", "deleted"}, isRead : BOOLEAN, version : Nat]]]
  /\ \A w \in Workers : nreq[w].to \subseteq Readers

(* A broadcast that is committed has reached every user who was active     *)
(* from before it began until then, and whoever it reached has the row.    *)
BroadcastReaches ==
  \A s \in sent : \A u \in since[s] : note[s][u].state # "none"

(* What is audited happened; what was sent and is not audited belongs to a *)
(* handler that is about to, or did not live to, record it.                *)
AuditedIsSent == audited \subseteq sent

(* What a user has read or deleted stays so, whichever handler is late. *)
ReadStaysRead ==
  [][\A s \in Sendings, u \in Readers :
       /\ note[s][u].isRead => note'[s][u].isRead
       /\ note[s][u].state = "deleted" => note'[s][u].state = "deleted"]_inboxVars

(* All that is promised of notifications: broadcasts reach whom they must, *)
(* what is audited was sent, and what was read or deleted stays so.        *)
InboxCorrect ==
  /\ [](InboxTypeOK /\ BroadcastReaches /\ AuditedIsSent)
  /\ ReadStaysRead

=============================================================================
