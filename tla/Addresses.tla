------------------------------- MODULE Addresses -------------------------------
(***************************************************************************)
(* The addresses of one customer, one of which is the default, as handlers *)
(* change them in transactions at READ COMMITTED.                          *)
(*                                                                         *)
(* A handler reads what is committed and what it wrote itself. A row it    *)
(* wrote is locked until its transaction ends; another UPDATE of the row   *)
(* waits and then looks at the row again. clear_defaults is a bulk UPDATE: *)
(* it does not move the version of the row. The unique index over default  *)
(* addresses makes whoever writes a second default wait for the first to   *)
(* be committed or rolled back, and then fail.                             *)
(***************************************************************************)
EXTENDS Handlers

CONSTANTS
  MaxAddresses,  \* settings.max_addresses_per_user
  MaxRows,       \* bound: addresses ever created
  MaxChanges     \* bound: updates of one address

ASSUME AddressBounds == MaxAddresses \in Nat /\ MaxRows \in Nat /\ MaxChanges \in Nat

VARIABLES
  address,      \* committed rows, by the order of their creation
  draft,        \* rows a transaction has written
  areq          \* what each handler is at

addressVars == <<address, draft, areq>>

Rows == 1 .. MaxRows

AddressRow(state, isDefault, version) ==
  [state |-> state, isDefault |-> isDefault, version |-> version]

(* row: the one to write, and version: of it when it was loaded; for a new *)
(* row, how many were counted. was: it was the default then; for a new     *)
(* row, whether it is to be. old: the default that clear_defaults found.   *)
AddressAt(pc, kind, row, version, was) ==
  [pc |-> pc, kind |-> kind, row |-> row, version |-> version, was |-> was,
   old |-> None]

AddressIdle == AddressAt("idle", None, None, 0, FALSE)

AddressInit ==
  /\ address = [a \in Rows |-> AddressRow("none", FALSE, 0)]
  /\ draft = [w \in Workers |-> <<>>]
  /\ areq = [w \in Workers |-> AddressIdle]

-----------------------------------------------------------------------------
View(w) == [a \in Rows |-> IF a \in DOMAIN draft[w] THEN draft[w][a] ELSE address[a]]

LiveRows(table) == {a \in Rows : table[a].state = "live"}

Defaults(table) == {a \in LiveRows(table) : table[a].isDefault}

LockedBy(a) == {v \in Workers : a \in DOMAIN draft[v]}

(* Transactions whose outcome decides whether a default can be written. *)
IndexHolders ==
  {v \in Workers : \E a \in DOMAIN draft[v] :
     a \in Defaults(address) \/ a \in Defaults(View(v))}

AddressGoto(w, r) == areq' = [areq EXCEPT ![w] = r]

RollBack(w) ==
  /\ draft' = [draft EXCEPT ![w] = <<>>]
  /\ AddressGoto(w, AddressIdle)

Put(w, a, row) == draft' = [draft EXCEPT ![w] = With(@, a, row)]

-----------------------------------------------------------------------------
Counted == Cardinality(LiveRows(address))

(* Mutant: one more than the limit is let in. *)
CountLoosely(w, wanted) ==
  /\ areq[w] = AddressIdle /\ Counted <= MaxAddresses
  /\ LET first == wanted \/ Counted = 0 IN
     AddressGoto(w, AddressAt(IF first THEN "clear" ELSE "write",
                              "create", None, Counted, first))
  /\ UNCHANGED <<address, draft>>

(* Mutant: whether an address is the default is not known when it is not   *)
(* asked for.                                                              *)
CountVaguely(w, wanted) ==
  /\ areq[w] = AddressIdle /\ Counted < MaxAddresses
  /\ AddressGoto(w, AddressAt("clear", "create", None, Counted,
                              IF wanted \/ Counted = 0 THEN TRUE ELSE None))
  /\ UNCHANGED <<address, draft>>

(* create_address counts; the first one is the default. *)
CountAddresses(w, wanted) ==
  /\ areq[w] = AddressIdle /\ Counted < MaxAddresses
  /\ LET first == wanted \/ Counted = 0 IN
     AddressGoto(w, AddressAt(IF first THEN "clear" ELSE "write",
                              "create", None, Counted, first))
  /\ UNCHANGED <<address, draft>>

(* Mutant: the address is loaded FOR UPDATE. *)
LoadLocking(w, a, kind) ==
  /\ areq[w] = AddressIdle /\ a \in LiveRows(address) /\ LockedBy(a) = {}
  /\ Put(w, a, address[a])
  /\ AddressGoto(w, AddressAt(IF kind = "choose" THEN "clear" ELSE "write",
                   kind, a, address[a].version, address[a].isDefault))
  /\ UNCHANGED address

(* _get_owned. kind: set_default or update with is_default, update without *)
(* it, update with is_default FALSE, delete_address.                       *)
LoadAddress(w, a, kind) ==
  /\ areq[w] = AddressIdle /\ a \in LiveRows(address)
  /\ AddressGoto(w, AddressAt(IF kind = "choose" THEN "clear" ELSE "write",
                   kind, a, address[a].version, address[a].isDefault))
  /\ UNCHANGED <<address, draft>>

(* The rows the bulk UPDATE finds when it starts. *)
FindDefaults(w) ==
  /\ areq[w].pc = "clear"
  /\ IF Defaults(address) = {} THEN AddressGoto(w, [areq[w] EXCEPT !.pc = "write"])
     ELSE \E a \in Defaults(address) :
            AddressGoto(w, [areq[w] EXCEPT !.pc = "clearing", !.old = a])
  /\ UNCHANGED <<address, draft>>

ClearDefaults(w) ==
  /\ areq[w].pc = "clearing"
  /\ LET a == areq[w].old IN
     /\ LockedBy(a) = {}
     /\ IF a \in Defaults(address)
          THEN Put(w, a, [address[a] EXCEPT !.isDefault = FALSE])
          ELSE UNCHANGED draft
  /\ AddressGoto(w, [areq[w] EXCEPT !.pc = "write", !.old = None])
  /\ UNCHANGED address

(* Mutant: the flag is not among the fields that are assigned. *)
ChangedTimidly(w) ==
  [View(w)[areq[w].row] EXCEPT
     !.state = IF areq[w].kind = "delete" THEN "deleted" ELSE @, !.version = @ + 1]

(* The row a handler is about to write, changed. *)
Changed(w) ==
  LET r == areq[w]
      old == View(w)[r.row]
  IN CASE r.kind \in {"choose", "promote"} ->
            AddressRow("live", TRUE, old.version + 1)
       [] r.kind = "unset" -> AddressRow("live", FALSE, old.version + 1)
       [] r.kind = "edit" -> [old EXCEPT !.version = @ + 1]
       [] r.kind = "delete" -> [old EXCEPT !.state = "deleted", !.version = @ + 1]

(* Mutant: the unique index is missing. *)
NoIndex(w, a, row) == TRUE

MayWrite(w, a, row) ==
  row.isDefault /\ row.state = "live" /\ a \notin Defaults(address)
    => Defaults(View(w)) \ {a} = {}

(* An index entry is needed, and another transaction holds one. *)
MustWait(w, row) ==
  row.isDefault /\ row.state = "live" /\ IndexHolders \ {w} # {}

InsertAddress(w, a) ==
  /\ areq[w].pc = "write" /\ areq[w].kind = "create"
  /\ address[a].state = "none" /\ LockedBy(a) = {}
  /\ \A b \in Rows : address[b].state = "none" /\ LockedBy(b) = {} => a <= b
  /\ LET row == AddressRow("live", areq[w].was, 1) IN
     /\ ~MustWait(w, row)
     /\ IF MayWrite(w, a, row)
          THEN /\ Put(w, a, row)
               /\ AddressGoto(w, [areq[w] EXCEPT !.pc = "commit", !.row = a])
          ELSE RollBack(w)
  /\ UNCHANGED address

(* Setting a flag to what it was changes nothing: there is no UPDATE. *)
NoChange(r) == r.kind = (IF r.was THEN "promote" ELSE "unset")

(* A row that was changed since it was loaded has another version. *)
UpdateAddress(w) ==
  LET r == areq[w] IN
  /\ r.pc = "write" /\ r.kind # "create"
  /\ NoChange(r) \/ LockedBy(r.row) \subseteq {w}
  /\ IF NoChange(r)
       THEN AddressGoto(w, [r EXCEPT !.pc = "commit"]) /\ UNCHANGED draft
     ELSE IF View(w)[r.row].version # r.version THEN RollBack(w)
     ELSE /\ address[r.row].version < MaxChanges
          /\ ~MustWait(w, Changed(w))
          /\ IF MayWrite(w, r.row, Changed(w))
               THEN /\ Put(w, r.row, Changed(w))
                    /\ AddressGoto(w, [r EXCEPT
                         !.pc = IF r.kind = "delete" /\ r.was THEN "list"
                                ELSE "commit"])
               ELSE RollBack(w)
  /\ UNCHANGED address

(* list_for_user: the default first, then the newest. *)
FirstListed(table) ==
  IF Defaults(table) # {} THEN CHOOSE a \in Defaults(table) : TRUE
  ELSE CHOOSE a \in LiveRows(table) : \A b \in LiveRows(table) : b <= a

(* Mutant: the default that is deleted is not replaced. *)
ListNothing(w) ==
  /\ areq[w].pc = "list"
  /\ AddressGoto(w, [areq[w] EXCEPT !.pc = "commit"])
  /\ UNCHANGED <<address, draft>>

ListRemaining(w) ==
  /\ areq[w].pc = "list"
  /\ LET table == View(w)
         a == FirstListed(table)
     IN IF LiveRows(table) = {}
          THEN AddressGoto(w, AddressAt("commit", "last", None, 0, FALSE))
          ELSE AddressGoto(w, AddressAt("write", "promote", a,
                                        table[a].version, table[a].isDefault))
  /\ UNCHANGED <<address, draft>>

CommitAddresses(w) ==
  /\ areq[w].pc = "commit"
  /\ address' = View(w)
  /\ RollBack(w)

(* An error of the database, a lost connection, the end of the process. *)
AbortAddresses(w) ==
  /\ areq[w] # AddressIdle
  /\ RollBack(w)
  /\ UNCHANGED address

AddressStep(w) ==
  \/ FindDefaults(w) \/ ClearDefaults(w) \/ UpdateAddress(w)
  \/ \E a \in Rows : InsertAddress(w, a)
  \/ ListRemaining(w) \/ CommitAddresses(w)

AddressNext ==
  \E w \in Workers :
    \/ \E wanted \in BOOLEAN : CountAddresses(w, wanted)
    \/ \E a \in Rows, kind \in {"choose", "unset", "edit", "delete"} :
         LoadAddress(w, a, kind)
    \/ AddressStep(w)
    \/ AbortAddresses(w)

AddressSpec == AddressInit /\ [][AddressNext]_addressVars

-----------------------------------------------------------------------------
AddressTypeOK ==
  LET Row == [state : {"none", "live", "deleted"}, isDefault : BOOLEAN, version : Nat]
  IN /\ address \in [Rows -> Row]
     /\ \A w \in Workers :
          /\ DOMAIN draft[w] \subseteq Rows
          /\ \A a \in DOMAIN draft[w] : draft[w][a] \in Row
          /\ areq[w].row \in Rows \cup {None} /\ areq[w].was \in BOOLEAN

(* However the requests of a customer interleave, at most one committed    *)
(* address is the default.                                                 *)
OneDefault == Cardinality(Defaults(address)) <= 1

(* Transactions lock the default first, so they do not wait for each other *)
(* in a circle, except that a deletion may find the address it deletes not *)
(* to be the default any more, and then takes the default second. In a     *)
(* circle everybody waits and is waited for, and of those that do at most  *)
(* one is no such deletion.                                                *)
WritesDefault(r) ==
  (r.kind = "create" /\ r.was) \/ r.kind = "choose" \/ (r.kind = "promote" /\ ~r.was)

WaitsFor(w, v) ==
  LET r == areq[w] IN
  /\ w # v
  /\ \/ r.pc = "clearing" /\ v \in LockedBy(r.old)
     \/ r.pc = "write" /\ r.kind # "create" /\ ~NoChange(r) /\ v \in LockedBy(r.row)
     \/ r.pc = "write" /\ WritesDefault(r) /\ v \in IndexHolders

Entangled(w) == \E x, y \in Workers : WaitsFor(w, x) /\ WaitsFor(y, w)

DeletedStale(w) ==
  /\ areq[w].kind = "promote"
  /\ \E a \in DOMAIN draft[w] : draft[w][a].state = "deleted" /\ ~draft[w][a].isDefault

DeadlockNeedsStaleDefault ==
  \A w, v \in Workers :
    w # v /\ Entangled(w) /\ Entangled(v) => DeletedStale(w) \/ DeletedStale(v)

(* Addresses are counted before one is inserted, so requests that count    *)
(* together may pass the limit together; a request passes it only when     *)
(* others have added addresses since it counted.                           *)
LimitNeedsRace ==
  [][\A w \in Workers :
       /\ areq[w].pc = "commit" /\ areq[w].kind = "create" /\ areq'[w] = AddressIdle
       /\ Cardinality(LiveRows(address')) > Counted
       /\ Cardinality(LiveRows(address')) > MaxAddresses
       => Counted > areq[w].version]_addressVars

(* A commit takes the default away from a customer who still has addresses *)
(* only if the customer asked for that, or if the deleted address was the  *)
(* only one when the others were listed.                                   *)
DefaultKept ==
  [][\A w \in Workers :
       /\ Defaults(address) # {} /\ Defaults(address') = {}
       /\ areq[w].pc = "commit" /\ areq'[w] = AddressIdle /\ address' # address
       => \/ LiveRows(address') = {}
          \/ areq[w].kind \in {"unset", "last"}]_addressVars

(* An address that was chosen as the default is the default, and not a     *)
(* deleted one, when the request that chose it has committed.              *)
ChosenIsDefault ==
  [][\A w \in Workers :
       areq[w].pc = "commit" /\ areq[w].kind = "choose"
         /\ areq'[w] = AddressIdle /\ address' # address
       => Defaults(address') = {areq[w].row}]_addressVars

(* All that is promised of addresses: one default at most and the chosen   *)
(* one, none lost unasked, the limit passed and transactions deadlocked in *)
(* the one way each that the order of the statements leaves open.          *)
AddressesCorrect ==
  /\ [](AddressTypeOK /\ OneDefault /\ DeadlockNeedsStaleDefault)
  /\ LimitNeedsRace
  /\ DefaultKept
  /\ ChosenIsDefault

=============================================================================
