------------------------------ MODULE Replacement ------------------------------
(***************************************************************************)
(* Replacing the rows that belong to another row: the variants and the     *)
(* extras of a product, the products of a deal.                            *)
(*                                                                         *)
(* A request lists the live rows, soft-deletes them one by one at the      *)
(* versions it listed, and inserts its own, one by one; an index keeps     *)
(* one live row per key (the size, the extra, the product). The row they   *)
(* belong to is not written, so only the rows themselves keep two          *)
(* requests apart: where there are none, nothing does.                     *)
(***************************************************************************)
EXTENDS Handlers

CONSTANTS
  Sizes,           \* keys of the rows
  MaxReplacements  \* bound: requests in all

ASSUME ReplacementBound == MaxReplacements \in Nat

VARIABLES
  part,       \* committed live rows
  rdraft,     \* rows a transaction has deleted and inserted
  rreq,       \* what each handler is at
  begun       \* requests begun

replacementVars == <<part, rdraft, rreq, begun>>

(* by: the request that inserted it; bare: that one found no rows.         *)
PartRow(key, by, bare) == [key |-> key, by |-> by, bare |-> bare]

(* doomed: the rows still to delete, wanted: the keys still to insert.     *)
RequestAt(pc, id, bare, doomed, wanted) ==
  [pc |-> pc, id |-> id, bare |-> bare, doomed |-> doomed, wanted |-> wanted]

ReplaceIdle == RequestAt("idle", 0, FALSE, {}, {})
NoParts == [deleted |-> {}, inserted |-> {}]

ReplacementInit ==
  /\ part = {}
  /\ rdraft = [w \in Workers |-> NoParts]
  /\ rreq = [w \in Workers |-> ReplaceIdle]
  /\ begun = 0

-----------------------------------------------------------------------------
ReplaceGoto(w, r) == rreq' = [rreq EXCEPT ![w] = r]

CancelParts(w) ==
  /\ rdraft' = [rdraft EXCEPT ![w] = NoParts]
  /\ ReplaceGoto(w, ReplaceIdle)

DeletedByOthers(w) == UNION {rdraft[v].deleted : v \in Workers \ {w}}
InsertedByOthers(w) == UNION {rdraft[v].inserted : v \in Workers \ {w}}

KeysOf(rows) == {row.key : row \in rows}

(* replace_variants, replace_extras, _sync_products: list_for_product.     *)
ListParts(w, wanted) ==
  /\ rreq[w] = ReplaceIdle /\ begun < MaxReplacements
  /\ begun' = begun + 1
  /\ ReplaceGoto(w, RequestAt("delete", begun', part = {}, part, wanted))
  /\ UNCHANGED <<part, rdraft>>

(* Mutant: a row that is gone is taken for deleted. *)
DeleteQuietly(w, row) ==
  LET r == rreq[w]
  IN /\ r.pc = "delete" /\ row \in r.doomed
     /\ row \notin DeletedByOthers(w)
     /\ rdraft' = [rdraft EXCEPT ![w].deleted = @ \cup {row}]
     /\ ReplaceGoto(w, [r EXCEPT !.doomed = @ \ {row}])
     /\ UNCHANGED <<part, begun>>

(* soft_delete_for_product, in the order the rows were listed, which the   *)
(* query leaves open; a row that is gone has another version.              *)
DeletePart(w, row) ==
  LET r == rreq[w]
  IN /\ r.pc = "delete" /\ row \in r.doomed
     /\ row \notin DeletedByOthers(w)
     /\ IF row \in part
          THEN /\ rdraft' = [rdraft EXCEPT ![w].deleted = @ \cup {row}]
               /\ ReplaceGoto(w, [r EXCEPT !.doomed = @ \ {row}])
          ELSE CancelParts(w)
     /\ UNCHANGED <<part, begun>>

(* Mutant: the index is missing. *)
InsertAnyPart(w, key) ==
  LET r == rreq[w] IN
  /\ r.pc = "delete" /\ r.doomed = {} /\ key \in r.wanted
  /\ rdraft' = [rdraft EXCEPT ![w].inserted = @ \cup {PartRow(key, r.id, r.bare)}]
  /\ ReplaceGoto(w, [r EXCEPT !.wanted = @ \ {key}])
  /\ UNCHANGED <<part, begun>>

(* The insertion waits for a transaction that holds an entry of the index. *)
InsertPart(w, key) ==
  LET r == rreq[w] IN
  /\ r.pc = "delete" /\ r.doomed = {} /\ key \in r.wanted
  /\ key \notin KeysOf(InsertedByOthers(w) \cup DeletedByOthers(w))
  /\ IF key \notin KeysOf(part \ rdraft[w].deleted)
       THEN /\ rdraft' = [rdraft EXCEPT ![w].inserted = @ \cup {PartRow(key, r.id, r.bare)}]
            /\ ReplaceGoto(w, [r EXCEPT !.wanted = @ \ {key}])
       ELSE CancelParts(w)
  /\ UNCHANGED <<part, begun>>

CommitParts(w) ==
  /\ rreq[w].pc = "delete" /\ rreq[w].doomed = {} /\ rreq[w].wanted = {}
  /\ part' = (part \ rdraft[w].deleted) \cup rdraft[w].inserted
  /\ CancelParts(w)
  /\ UNCHANGED begun

(* A duplicate or unknown key in the request, an error, the end. *)
AbandonParts(w) ==
  /\ rreq[w] # ReplaceIdle
  /\ CancelParts(w)
  /\ UNCHANGED <<part, begun>>

ReplacementNext ==
  \E w \in Workers :
    \/ \E wanted \in SUBSET Sizes : ListParts(w, wanted)
    \/ \E row \in rreq[w].doomed : DeletePart(w, row)
    \/ \E key \in Sizes : InsertPart(w, key)
    \/ CommitParts(w) \/ AbandonParts(w)

ReplacementSpec == ReplacementInit /\ [][ReplacementNext]_replacementVars

-----------------------------------------------------------------------------
(* Each key has one live row, whoever replaced the rows at the same time.  *)
OnePerKey == \A x, y \in part : x.key = y.key => x = y

(* Rows of two requests are live together only if one of the two found no  *)
(* rows to replace, and so nothing to queue up at.                         *)
OneRequestsRows == \A x, y \in part : x.by = y.by \/ x.bare \/ y.bare

(* All that is promised of replaced variants and extras: one live row for  *)
(* a key, and the rows of one request, unless it found none to lock.       *)
ReplacementCorrect == OnePerKey /\ OneRequestsRows

=============================================================================
