---------------------------- MODULE CatalogProofs ----------------------------
(***************************************************************************)
(* What Replacement, Menu and Gallery promise, proved for any number of    *)
(* handlers, rows and names. For each of them: the state its handlers can  *)
(* be in, the invariant that is inductive, a lemma for every action, and   *)
(* the theorem at the end of its part.                                     *)
(***************************************************************************)
EXTENDS Menu, Gallery, Replacement, FiniteSetTheorems, WellFoundedInduction, TLAPS

-----------------------------------------------------------------------------
(* Replacement *)

PartRows == [key : Sizes, by : Nat, bare : BOOLEAN]

Drafted == [deleted : SUBSET PartRows, inserted : SUBSET PartRows]

Replacer == [pc : {"idle", "delete"}, id : Nat, bare : BOOLEAN,
             doomed : SUBSET PartRows, wanted : SUBSET Sizes]

ReplacementTyped ==
  /\ part \in SUBSET PartRows
  /\ rdraft \in [Workers -> Drafted]
  /\ rreq \in [Workers -> Replacer]
  /\ begun \in Nat

(* The rows a request listed: it has deleted some, and will the others.    *)
Listed(w) == rreq[w].doomed \cup rdraft[w].deleted

Replacing(w) == rreq[w].pc = "delete"

(* It may still commit, and did find rows.                                 *)
Viable(w) == Replacing(w) /\ ~rreq[w].bare /\ Listed(w) \subseteq part

(* What the rows a transaction inserted are like.                          *)
DraftFits(w) ==
  /\ rreq[w].pc = "idle" => rdraft[w] = NoParts
  /\ rdraft[w].deleted \subseteq part
  /\ \A x \in rdraft[w].inserted :
       /\ x.by = rreq[w].id /\ x.bare = rreq[w].bare
       /\ x.key \notin rreq[w].wanted
       /\ \A y \in part \ rdraft[w].deleted : x.key # y.key
       /\ \A y \in rdraft[w].inserted : x.key = y.key => x = y
  /\ rdraft[w].inserted # {} => rreq[w].doomed = {}
  /\ Replacing(w) => rreq[w].id <= begun
  /\ Replacing(w) /\ ~rreq[w].bare => Listed(w) # {}
  /\ \A x \in Listed(w) : x.by <= begun

(* Requests have numbers of their own, and no committed or listed row has  *)
(* the number of a request that is under way.                              *)
Numbered ==
  /\ \A x \in part : x.by <= begun
  /\ \A w \in Workers : Replacing(w) =>
       /\ \A x \in part : x.by # rreq[w].id
       /\ \A v \in Workers : \A x \in Listed(v) : x.by # rreq[w].id
       /\ \A v \in Workers \ {w} : Replacing(v) => rreq[v].id # rreq[w].id

(* The index and the row locks keep transactions apart.                    *)
DraftsApart ==
  \A w \in Workers : \A v \in Workers \ {w} :
    /\ rdraft[w].deleted \cap rdraft[v].deleted = {}
    /\ \A x \in rdraft[w].inserted, y \in rdraft[v].inserted : x.key # y.key

(* Of two requests that may both still commit one listed all the other     *)
(* did; and besides what such a request listed there are only rows of      *)
(* requests that found none.                                               *)
ListedInOrder ==
  \A w, v \in Workers : Viable(w) /\ Viable(v) =>
    Listed(w) \subseteq Listed(v) \/ Listed(v) \subseteq Listed(w)

OthersBare ==
  \A w \in Workers : Viable(w) => \A x \in part \ Listed(w) : x.bare

ReplacementInv ==
  /\ ReplacementTyped
  /\ \A w \in Workers : DraftFits(w)
  /\ Numbered /\ DraftsApart /\ ListedInOrder /\ OthersBare
  /\ ReplacementCorrect

LEMMA ReplaceIdleTyped == ReplaceIdle \in Replacer /\ NoParts \in Drafted
<1>1. FALSE \in BOOLEAN
  OBVIOUS
<1>2. QED
  BY <1>1, Zenon DEF ReplaceIdle, RequestAt, Replacer, NoParts, Drafted

LEMMA ReplacementStart == ReplacementInit => ReplacementInv
<1> SUFFICES ASSUME ReplacementInit PROVE ReplacementInv
  OBVIOUS
<1>1. ReplacementTyped
  BY ReplaceIdleTyped DEF ReplacementInit, ReplacementTyped
<1>2. \A w \in Workers :
        /\ rdraft[w] = NoParts /\ rreq[w].pc = "idle" /\ rreq[w].doomed = {}
  BY DEF ReplacementInit, ReplaceIdle, RequestAt
<1>3. \A w \in Workers : DraftFits(w) /\ ~Replacing(w)
  BY <1>2 DEF ReplacementInit, DraftFits, NoParts, Listed, Replacing
<1>4. DraftsApart
  BY <1>2 DEF DraftsApart, NoParts
<1>5. Numbered /\ ListedInOrder /\ OthersBare /\ ReplacementCorrect
  BY <1>3 DEF ReplacementInit, Numbered, ListedInOrder, OthersBare, Viable,
              ReplacementCorrect, OnePerKey, OneRequestsRows
<1>6. QED
  BY <1>1, <1>3, <1>4, <1>5 DEF ReplacementInv

(* The others stay as they are. *)
Alone(w) ==
  \A v \in Workers \ {w} : rreq'[v] = rreq[v] /\ rdraft'[v] = rdraft[v]

LEMMA AloneListed ==
  ASSUME NEW w \in Workers, Alone(w), NEW v \in Workers \ {w}
  PROVE  /\ Listed(v)' = Listed(v)
         /\ Replacing(v)' = Replacing(v)
BY DEF Alone, Listed, Replacing

LEMMA CancelMeans ==
  ASSUME ReplacementTyped, NEW w \in Workers, CancelParts(w)
  PROVE  /\ rreq'[w] = ReplaceIdle /\ rdraft'[w] = NoParts /\ Alone(w)
         /\ rdraft' \in [Workers -> Drafted] /\ rreq' \in [Workers -> Replacer]
         /\ ~Replacing(w)' /\ Listed(w)' = {} /\ DraftFits(w)'
<1>1. /\ rreq'[w] = ReplaceIdle /\ rdraft'[w] = NoParts /\ Alone(w)
      /\ rdraft' \in [Workers -> Drafted] /\ rreq' \in [Workers -> Replacer]
  BY ReplaceIdleTyped DEF CancelParts, ReplaceGoto, ReplacementTyped, Alone
<1>2. ReplaceIdle.pc = "idle" /\ ReplaceIdle.doomed = {}
  BY DEF ReplaceIdle, RequestAt
<1>3. ~Replacing(w)' /\ Listed(w)' = {}
  BY <1>1, <1>2 DEF Replacing, Listed, NoParts
<1>4. DraftFits(w)'
  BY <1>1, <1>2, <1>3 DEF DraftFits, NoParts, Replacing, Listed
<1>5. QED
  BY <1>1, <1>3, <1>4

(* A request that gives up keeps the invariant. *)
LEMMA CancelKeeps ==
  ASSUME ReplacementInv, NEW w \in Workers, CancelParts(w),
         UNCHANGED <<part, begun>>
  PROVE  ReplacementInv'
<1>1. ReplacementTyped /\ ReplacementCorrect
  BY DEF ReplacementInv
<1>2. /\ rreq'[w] = ReplaceIdle /\ rdraft'[w] = NoParts /\ Alone(w)
      /\ rdraft' \in [Workers -> Drafted] /\ rreq' \in [Workers -> Replacer]
      /\ ~Replacing(w)' /\ Listed(w)' = {} /\ DraftFits(w)'
  BY <1>1, CancelMeans
<1>3. \A v \in Workers \ {w} :
        /\ Listed(v)' = Listed(v) /\ (Replacing(v)' <=> Replacing(v))
        /\ rreq'[v] = rreq[v] /\ rdraft'[v] = rdraft[v]
  BY <1>2, AloneListed DEF Alone
<1>4. \A v \in Workers : DraftFits(v)'
  <2>1. ASSUME NEW v \in Workers \ {w} PROVE DraftFits(v)'
    BY <1>3 DEF ReplacementInv, DraftFits
  <2>2. QED
    BY <1>2, <2>1
<1>5. Numbered'
  BY <1>2, <1>3 DEF ReplacementInv, Numbered
<1>6. DraftsApart'
  BY <1>2, <1>3 DEF ReplacementInv, DraftsApart, NoParts
<1>7. \A v \in Workers : Viable(v)' => v # w /\ Viable(v)
  BY <1>2, <1>3 DEF Viable
<1>8. ListedInOrder' /\ OthersBare'
  BY <1>3, <1>7 DEF ReplacementInv, ListedInOrder, OthersBare
<1>9. ReplacementTyped' /\ ReplacementCorrect'
  BY <1>1, <1>2 DEF ReplacementTyped, ReplacementCorrect, OnePerKey, OneRequestsRows
<1>10. QED
  BY <1>4, <1>5, <1>6, <1>8, <1>9 DEF ReplacementInv


LEMMA ListKeeps ==
  ASSUME ReplacementInv, NEW w \in Workers, NEW wanted \in SUBSET Sizes,
         ListParts(w, wanted)
  PROVE  ReplacementInv'
<1>1. ReplacementTyped /\ DraftFits(w)
  BY DEF ReplacementInv
<1>2. \E b \in BOOLEAN :
        /\ b <=> part = {}
        /\ rreq' = [rreq EXCEPT ![w] =
                      [pc |-> "delete", id |-> begun + 1, bare |-> b,
                       doomed |-> part, wanted |-> wanted]]
  <2>1. (part = {}) \in BOOLEAN /\ begun' = begun + 1
    BY DEF ListParts
  <2>2. rreq' = [rreq EXCEPT ![w] = RequestAt("delete", begun', part = {}, part, wanted)]
    BY DEF ListParts, ReplaceGoto
  <2>3. QED
    BY <2>1, <2>2, Zenon DEF RequestAt
<1>3. PICK b \in BOOLEAN :
        /\ b <=> part = {}
        /\ rreq' = [rreq EXCEPT ![w] =
                      [pc |-> "delete", id |-> begun + 1, bare |-> b,
                       doomed |-> part, wanted |-> wanted]]
  BY <1>2
<1>4. rdraft[w] = NoParts /\ UNCHANGED <<part, rdraft>> /\ begun' = begun + 1
  BY <1>1 DEF ListParts, DraftFits, ReplaceIdle, RequestAt
<1>5. ReplacementTyped'
  BY <1>1, <1>3, <1>4 DEF ReplacementTyped, Replacer
<1>6. /\ rreq'[w].pc = "delete" /\ rreq'[w].id = begun + 1
      /\ rreq'[w].bare <=> part = {}
      /\ rreq'[w].doomed = part /\ Alone(w)
  BY <1>1, <1>3, <1>4 DEF ReplacementTyped, Alone
<1>7. \A v \in Workers \ {w} :
        /\ Listed(v)' = Listed(v) /\ (Replacing(v)' <=> Replacing(v))
        /\ rreq'[v] = rreq[v] /\ rdraft'[v] = rdraft[v]
  BY <1>6, AloneListed DEF Alone
<1>8. Listed(w)' = part /\ Replacing(w)'
  BY <1>4, <1>6 DEF Listed, NoParts, Replacing
<1>9. begun \in Nat /\ (\A x \in part : x.by \in Nat)
      /\ \A v \in Workers : rreq[v].id \in Nat
  BY <1>1 DEF ReplacementTyped, PartRows, Replacer
<1>10. \A v \in Workers : DraftFits(v)'
  <2>1. ASSUME NEW v \in Workers \ {w} PROVE DraftFits(v)'
    <3>1. DraftFits(v) /\ \A x \in Listed(v) : x.by \in Nat
      BY <1>1 DEF ReplacementInv, ReplacementTyped, Listed, Drafted, Replacer, PartRows
    <3>2. QED
      BY <1>4, <1>7, <1>9, <3>1 DEF DraftFits
  <2>2. DraftFits(w)'
    <3>1. \A x \in part : x.by <= begun + 1
      BY <1>9 DEF ReplacementInv, Numbered
    <3>2. begun + 1 <= begun'
      BY <1>4, <1>9
    <3>3. QED
      BY <1>4, <1>6, <1>8, <3>1, <3>2 DEF DraftFits, NoParts
  <2>3. QED
    BY <2>1, <2>2
<1>11. Numbered'
  <2>1. \A x \in part : x.by <= begun' /\ x.by # begun + 1
    BY <1>4, <1>9 DEF ReplacementInv, Numbered
  <2>2. ASSUME NEW v \in Workers \ {w}
        PROVE  /\ \A x \in Listed(v) : x.by # begun + 1
               /\ Replacing(v) => rreq[v].id # begun + 1
    <3>1. DraftFits(v) /\ \A x \in Listed(v) : x.by \in Nat
      BY <1>1 DEF ReplacementInv, ReplacementTyped, Listed, Drafted, Replacer, PartRows
    <3>2. QED
      BY <1>9, <3>1 DEF DraftFits
  <2>3. QED
    BY <1>4, <1>6, <1>7, <1>8, <2>1, <2>2 DEF ReplacementInv, Numbered
<1>12. DraftsApart'
  BY <1>4 DEF ReplacementInv, DraftsApart
<1>13. \A v \in Workers \ {w} : Viable(v)' => Viable(v) /\ Listed(v) \subseteq part
  BY <1>4, <1>7 DEF Viable
<1>14. ListedInOrder' /\ OthersBare'
  BY <1>4, <1>7, <1>8, <1>13 DEF ReplacementInv, ListedInOrder, OthersBare
<1>15. ReplacementCorrect'
  BY <1>4 DEF ReplacementInv, ReplacementCorrect, OnePerKey, OneRequestsRows
<1>16. QED
  BY <1>5, <1>10, <1>11, <1>12, <1>14, <1>15 DEF ReplacementInv

LEMMA DeleteKeeps ==
  ASSUME ReplacementInv, NEW w \in Workers, NEW row \in rreq[w].doomed,
         DeletePart(w, row)
  PROVE  ReplacementInv'
<1>1. ReplacementTyped /\ DraftFits(w)
  BY DEF ReplacementInv
<1>2. CASE row \notin part
  BY <1>2, CancelKeeps DEF DeletePart
<1>3. CASE row \in part
  <2> DEFINE r == [rreq[w] EXCEPT !.doomed = @ \ {row}]
             d == [rdraft[w] EXCEPT !.deleted = @ \cup {row}]
  <2>1. /\ rreq' = [rreq EXCEPT ![w] = r] /\ rdraft' = [rdraft EXCEPT ![w] = d]
        /\ UNCHANGED <<part, begun>> /\ rreq[w].pc = "delete"
        /\ row \notin DeletedByOthers(w)
    BY <1>3 DEF DeletePart, ReplaceGoto
  <2>2. rreq[w] \in Replacer /\ rdraft[w] \in Drafted /\ row \in PartRows
    BY <1>1 DEF ReplacementTyped, Replacer
  <2>3. /\ r \in Replacer /\ d \in Drafted
        /\ r.pc = "delete" /\ r.id = rreq[w].id /\ r.bare = rreq[w].bare
        /\ r.doomed = rreq[w].doomed \ {row} /\ r.wanted = rreq[w].wanted
        /\ d.deleted = rdraft[w].deleted \cup {row}
        /\ d.inserted = rdraft[w].inserted
    BY <2>1, <2>2 DEF Replacer, Drafted
  <2> HIDE DEF r, d
  <2>4. rreq'[w] = r /\ rdraft'[w] = d /\ Alone(w) /\ ReplacementTyped'
    BY <1>1, <2>1, <2>3 DEF ReplacementTyped, Alone
  <2>5. Listed(w)' = Listed(w) /\ (Replacing(w)' <=> Replacing(w))
    BY <2>1, <2>3, <2>4 DEF Listed, Replacing
  <2>6. \A v \in Workers \ {w} : rreq'[v] = rreq[v] /\ rdraft'[v] = rdraft[v]
    BY <2>4 DEF Alone
  <2>7. \A v \in Workers : Listed(v)' = Listed(v) /\ (Replacing(v)' <=> Replacing(v))
    BY <2>4, <2>5, AloneListed
  <2>8. \A v \in Workers : DraftFits(v)'
    <3>1. ASSUME NEW v \in Workers \ {w} PROVE DraftFits(v)'
      BY <2>1, <2>6, <2>7 DEF ReplacementInv, DraftFits
    <3>2. DraftFits(w)'
      BY <1>1, <1>3, <2>1, <2>3, <2>4, <2>5 DEF DraftFits
    <3>3. QED
      BY <3>1, <3>2
  <2>9. \A v \in Workers : rreq'[v].id = rreq[v].id /\ (rreq'[v].bare <=> rreq[v].bare)
    BY <2>3, <2>4, <2>6
  <2>10. Numbered'
    BY <2>1, <2>7, <2>9 DEF ReplacementInv, Numbered
  <2>11. DraftsApart'
    <3>1. \A v \in Workers \ {w} : row \notin rdraft[v].deleted
      BY <2>1 DEF DeletedByOthers
    <3>2. QED
      BY <2>3, <2>4, <2>6, <3>1 DEF ReplacementInv, DraftsApart
  <2>12. \A v \in Workers : Viable(v)' <=> Viable(v)
    BY <2>1, <2>7, <2>9 DEF Viable
  <2>13. ListedInOrder' /\ OthersBare'
    BY <2>1, <2>7, <2>12 DEF ReplacementInv, ListedInOrder, OthersBare
  <2>14. ReplacementCorrect'
    BY <2>1 DEF ReplacementInv, ReplacementCorrect, OnePerKey, OneRequestsRows
  <2>15. QED
    BY <2>4, <2>8, <2>10, <2>11, <2>13, <2>14 DEF ReplacementInv
<1>4. QED
  BY <1>2, <1>3

LEMMA InsertKeeps ==
  ASSUME ReplacementInv, NEW w \in Workers, NEW key \in Sizes, InsertPart(w, key)
  PROVE  ReplacementInv'
<1>1. ReplacementTyped /\ DraftFits(w)
  BY DEF ReplacementInv
<1>2. CASE key \in KeysOf(part \ rdraft[w].deleted)
  BY <1>2, CancelKeeps DEF InsertPart
<1>3. CASE key \notin KeysOf(part \ rdraft[w].deleted)
  <2> DEFINE row == [key |-> key, by |-> rreq[w].id, bare |-> rreq[w].bare]
             r == [rreq[w] EXCEPT !.wanted = @ \ {key}]
             d == [rdraft[w] EXCEPT !.inserted = @ \cup {row}]
  <2>1. /\ rreq' = [rreq EXCEPT ![w] = r] /\ rdraft' = [rdraft EXCEPT ![w] = d]
        /\ UNCHANGED <<part, begun>> /\ rreq[w].pc = "delete"
        /\ rreq[w].doomed = {} /\ key \in rreq[w].wanted
        /\ key \notin KeysOf(InsertedByOthers(w) \cup DeletedByOthers(w))
    BY <1>3, Zenon DEF InsertPart, ReplaceGoto, PartRow
  <2>2. rreq[w] \in Replacer /\ rdraft[w] \in Drafted
    BY <1>1 DEF ReplacementTyped
  <2>3. row \in PartRows
    BY <2>2 DEF PartRows, Replacer
  <2>4. /\ row.key = key /\ row.by = rreq[w].id /\ row.bare = rreq[w].bare
    OBVIOUS
  <2> HIDE DEF row
  <2>5. /\ r \in Replacer /\ d \in Drafted
        /\ r.pc = "delete" /\ r.id = rreq[w].id /\ r.bare = rreq[w].bare
        /\ r.doomed = {} /\ r.wanted = rreq[w].wanted \ {key}
        /\ d.deleted = rdraft[w].deleted
        /\ d.inserted = rdraft[w].inserted \cup {row}
    BY <2>1, <2>2, <2>3 DEF Replacer, Drafted
  <2> HIDE DEF r, d
  <2>6. rreq'[w] = r /\ rdraft'[w] = d /\ Alone(w) /\ ReplacementTyped'
    BY <1>1, <2>1, <2>5 DEF ReplacementTyped, Alone
  <2>7. Listed(w)' = Listed(w) /\ (Replacing(w)' <=> Replacing(w))
    BY <2>1, <2>5, <2>6 DEF Listed, Replacing
  <2>8. \A v \in Workers \ {w} : rreq'[v] = rreq[v] /\ rdraft'[v] = rdraft[v]
    BY <2>6 DEF Alone
  <2>9. \A v \in Workers : Listed(v)' = Listed(v) /\ (Replacing(v)' <=> Replacing(v))
    BY <2>6, <2>7, AloneListed
  <2>10. \A y \in part \ rdraft[w].deleted : y.key # key
    BY <1>3 DEF KeysOf
  <2>11. \A v \in Workers : DraftFits(v)'
    <3>1. ASSUME NEW v \in Workers \ {w} PROVE DraftFits(v)'
      BY <2>1, <2>8, <2>9 DEF ReplacementInv, DraftFits
    <3>2. \A y \in rdraft[w].inserted : y.key # key
      BY <1>1, <2>1 DEF DraftFits
    <3>3. \A x \in d.inserted :
            /\ x.by = r.id /\ x.bare = r.bare
            /\ x.key \notin r.wanted
            /\ \A y \in part \ d.deleted : x.key # y.key
            /\ \A y \in d.inserted : x.key = y.key => x = y
      BY <1>1, <2>4, <2>5, <2>10, <3>2 DEF DraftFits
    <3>4. DraftFits(w)'
      BY <1>1, <2>1, <2>5, <2>6, <2>7, <3>3 DEF DraftFits
    <3>5. QED
      BY <3>1, <3>4
  <2>12. \A v \in Workers : rreq'[v].id = rreq[v].id /\ (rreq'[v].bare <=> rreq[v].bare)
    BY <2>5, <2>6, <2>8
  <2>13. Numbered'
    BY <2>1, <2>9, <2>12 DEF ReplacementInv, Numbered
  <2>14. DraftsApart'
    <3>1. \A v \in Workers \ {w} : \A y \in rdraft[v].inserted : y.key # key
      BY <2>1 DEF InsertedByOthers, KeysOf
    <3>2. QED
      BY <2>4, <2>5, <2>6, <2>8, <3>1 DEF ReplacementInv, DraftsApart
  <2>15. \A v \in Workers : Viable(v)' <=> Viable(v)
    BY <2>1, <2>9, <2>12 DEF Viable
  <2>16. ListedInOrder' /\ OthersBare'
    BY <2>1, <2>9, <2>15 DEF ReplacementInv, ListedInOrder, OthersBare
  <2>17. ReplacementCorrect'
    BY <2>1 DEF ReplacementInv, ReplacementCorrect, OnePerKey, OneRequestsRows
  <2>18. QED
    BY <2>6, <2>11, <2>13, <2>14, <2>16, <2>17 DEF ReplacementInv
<1>4. QED
  BY <1>2, <1>3

LEMMA CommitKeeps ==
  ASSUME ReplacementInv, NEW w \in Workers, CommitParts(w)
  PROVE  ReplacementInv'
<1>1. ReplacementTyped /\ DraftFits(w)
  BY DEF ReplacementInv
<1>2. /\ rreq'[w] = ReplaceIdle /\ rdraft'[w] = NoParts /\ Alone(w)
      /\ rdraft' \in [Workers -> Drafted] /\ rreq' \in [Workers -> Replacer]
      /\ ~Replacing(w)' /\ Listed(w)' = {} /\ DraftFits(w)'
  BY <1>1, CancelMeans DEF CommitParts
<1>3. \A v \in Workers \ {w} :
        /\ Listed(v)' = Listed(v) /\ (Replacing(v)' <=> Replacing(v))
        /\ rreq'[v] = rreq[v] /\ rdraft'[v] = rdraft[v]
  BY <1>2, AloneListed DEF Alone
<1> DEFINE del == rdraft[w].deleted
           ins == rdraft[w].inserted
<1>4. /\ part' = (part \ del) \cup ins /\ begun' = begun
      /\ Replacing(w) /\ Listed(w) = del /\ del \subseteq part
  BY <1>1 DEF CommitParts, Replacing, Listed, DraftFits
<1>5. /\ \A x \in ins : x.by = rreq[w].id /\ x.bare = rreq[w].bare /\ x.by <= begun
      /\ \A x \in ins : \A y \in part \ del : x.key # y.key
      /\ \A x, y \in ins : x.key = y.key => x = y
  BY <1>1, <1>4 DEF DraftFits
<1>6. ~rreq[w].bare => Viable(w) /\ del # {}
  BY <1>1, <1>4 DEF Viable, DraftFits
<1>7. \A v \in Workers \ {w} :
        /\ rdraft[v].deleted \cap del = {}
        /\ \A x \in ins, y \in rdraft[v].inserted : x.key # y.key
  BY DEF ReplacementInv, DraftsApart
<1>8. \A v \in Workers : \A x \in Listed(v) : x \notin ins
  BY <1>4, <1>5 DEF ReplacementInv, Numbered
<1>9. \A x \in ins : \A v \in Workers \ {w} : Replacing(v) => x.by # rreq[v].id
  BY <1>4, <1>5 DEF ReplacementInv, Numbered
<1> ins \in SUBSET PartRows
  BY <1>1 DEF ReplacementTyped, Drafted
<1> HIDE DEF del, ins
<1>10. ReplacementTyped'
  BY <1>1, <1>2, <1>4 DEF ReplacementTyped
<1>11. \A v \in Workers : DraftFits(v)'
  <2>1. ASSUME NEW v \in Workers \ {w} PROVE DraftFits(v)'
    <3>1. DraftFits(v)
      BY DEF ReplacementInv
    <3>2. rdraft[v].deleted \subseteq part'
      BY <1>4, <1>7, <3>1 DEF DraftFits
    <3>3. \A x \in rdraft[v].inserted : \A y \in part' \ rdraft[v].deleted : x.key # y.key
      BY <1>4, <1>7, <3>1 DEF DraftFits
    <3>4. QED
      BY <1>3, <1>4, <3>1, <3>2, <3>3 DEF DraftFits
  <2>2. QED
    BY <1>2, <2>1
<1>12. Numbered'
  BY <1>2, <1>3, <1>4, <1>5, <1>9 DEF ReplacementInv, Numbered
<1>13. DraftsApart'
  BY <1>2, <1>3 DEF ReplacementInv, DraftsApart, NoParts
<1>14. \A v \in Workers : Viable(v)' => v # w /\ Viable(v) /\ Listed(v) \subseteq part'
  BY <1>2, <1>3, <1>4, <1>8 DEF Viable
<1>15. ListedInOrder'
  BY <1>3, <1>14 DEF ReplacementInv, ListedInOrder
<1>16. OthersBare'
  <2>1. ASSUME NEW v \in Workers, Viable(v)', NEW x \in part' \ Listed(v)', ~x.bare
        PROVE  FALSE
    <3>1. v # w /\ Viable(v) /\ Listed(v) \subseteq part' /\ x \notin Listed(v)
      BY <1>3, <1>14, <2>1
    <3>2. x \in ins
      BY <1>4, <2>1, <3>1 DEF ReplacementInv, OthersBare
    <3>3. Viable(w) /\ del # {}
      BY <1>5, <1>6, <2>1, <3>2
    <3>4. del \subseteq Listed(v) \/ Listed(v) \subseteq del
      BY <1>4, <3>1, <3>3 DEF ReplacementInv, ListedInOrder
    <3>5. Listed(v) # {}
      BY <3>1 DEF ReplacementInv, DraftFits, Viable
    <3>6. PICK y : y \in del /\ y \in Listed(v)
      BY <3>3, <3>4, <3>5
    <3>7. QED
      BY <1>4, <1>8, <3>1, <3>6
  <2>2. QED
    BY <2>1 DEF OthersBare
<1>17. ReplacementCorrect'
  <2>1. OnePerKey'
    BY <1>4, <1>5 DEF ReplacementInv, ReplacementCorrect, OnePerKey
  <2>2. ~rreq[w].bare => \A x \in part \ del : x.bare
    BY <1>4, <1>6 DEF ReplacementInv, OthersBare
  <2>3. OneRequestsRows'
    <3>1. ASSUME NEW x \in part', NEW y \in part'
          PROVE  x.by = y.by \/ x.bare \/ y.bare
      <4>1. CASE x \in ins /\ y \in ins
        BY <1>5, <4>1
      <4>2. CASE x \in ins /\ y \in part \ del
        BY <1>5, <2>2, <4>2
      <4>3. CASE x \in part \ del /\ y \in ins
        BY <1>5, <2>2, <4>3
      <4>4. CASE x \in part \ del /\ y \in part \ del
        BY <4>4 DEF ReplacementInv, ReplacementCorrect, OneRequestsRows
      <4>5. QED
        BY <1>4, <4>1, <4>2, <4>3, <4>4
    <3>2. QED
      BY <3>1 DEF OneRequestsRows
  <2>4. QED
    BY <2>1, <2>3 DEF ReplacementCorrect
<1>18. QED
  BY <1>10, <1>11, <1>12, <1>13, <1>15, <1>16, <1>17 DEF ReplacementInv

LEMMA ReplacementStep == ReplacementInv /\ [ReplacementNext]_replacementVars => ReplacementInv'
<1> SUFFICES ASSUME ReplacementInv, [ReplacementNext]_replacementVars
             PROVE  ReplacementInv'
  OBVIOUS
<1>1. CASE UNCHANGED replacementVars
  BY <1>1 DEF replacementVars, ReplacementInv, ReplacementTyped, DraftFits, Numbered,
              DraftsApart, ListedInOrder, OthersBare, Viable, Replacing, Listed,
              ReplacementCorrect, OnePerKey, OneRequestsRows
<1>2. ASSUME NEW w \in Workers, AbandonParts(w) PROVE ReplacementInv'
  BY <1>2, CancelKeeps DEF AbandonParts
<1>3. QED
  BY <1>1, <1>2, ListKeeps, DeleteKeeps, InsertKeeps, CommitKeeps DEF ReplacementNext

(* Each key has one live row, and the live rows are those of one request,  *)
(* but for requests that found none to lock.                               *)
THEOREM ReplacementHolds == ReplacementSpec => []ReplacementCorrect
<1>1. ReplacementInv => ReplacementCorrect
  BY DEF ReplacementInv
<1>2. QED
  BY <1>1, ReplacementStart, ReplacementStep, PTL DEF ReplacementSpec

-----------------------------------------------------------------------------
(* Menu *)

Row == [state : {"none", "live", "deleted", "purged"}, slug : Slugs \cup {None},
        visible : BOOLEAN, version : Nat]

EditKinds == {"rename", "show", "hide", "touch", "delete", "restore"}

Editor == [pc : {"idle", "slug", "write", "commit", "detail", "scan", "unlink", "fill"},
           kind : EditKinds \cup {None, "create", "bulkShow", "bulkHide", "purge", "read"},
           row : MenuRows \cup {None}, slug : Slugs \cup {None},
           loaded : Row \cup {None} \cup (Nat \X Nat), keys : SUBSET Slugs]

(* A row that exists has a slug.                                           *)
Named(x) == x \in Row /\ (x.state # "none" => x.slug \in Slugs)

(* What an editor goes by, of the table: the row it loaded has its version *)
(* still or a later one, and if it has it still, was not deleted since.    *)
GoesBy(table, r) ==
  r.pc \in {"slug", "write"} =>
    IF r.kind = "create" THEN r.slug \in Slugs
    ELSE /\ r.kind \in EditKinds /\ r.row \in MenuRows /\ r.loaded \in Row
         /\ r.kind = "rename" => r.slug \in Slugs
         /\ table[r.row].state # "none"
         /\ r.loaded.version <= table[r.row].version
         /\ r.loaded.version = table[r.row].version =>
              (table[r.row].state = "deleted" => r.kind = "restore")

(* What the row x that an edit of a kind wrote may be, of the row old.     *)
EditOf(old, x, kind) ==
  /\ Named(x) /\ x.state # "none"
  /\ old.state = "deleted" => x.state = "live"
  /\ \/ old.state = "none" \/ old.version < x.version
     \/ old.version = x.version /\ x.state # "deleted"
  /\ x.state # old.state => kind \in {"create", "delete", "purge", "restore"}
  /\ x.visible # old.visible =>
       kind \in {"create", "show", "hide", "bulkShow", "bulkHide", "restore"}

(* A transaction that has written a row holds its lock and the entry of    *)
(* the index over slugs until it commits.                                  *)
MenuDraftFits(table, d, r) ==
  /\ r.pc # "commit" => DOMAIN d = {}
  /\ DOMAIN d \subseteq MenuRows
  /\ \A p, q \in DOMAIN d : p = q
  /\ \A q \in DOMAIN d :
       /\ EditOf(table[q], d[q], r.kind)
       /\ d[q].state = "live" =>
            \A p \in MenuRows \ {q} :
              table[p].state = "live" => table[p].slug # d[q].slug

MenuApart(d, e) ==
  \A q \in DOMAIN d, p \in DOMAIN e :
    /\ q # p
    /\ d[q].state = "live" /\ e[p].state = "live" => d[q].slug # e[p].slug

MenuTyped ==
  /\ menu \in [MenuRows -> Row]
  /\ \A q \in MenuRows : Named(menu[q])
  /\ mdraft = [w \in Workers |-> mdraft[w]]
  /\ mreq \in [Workers -> Editor]

EditsSound ==
  /\ MenuTyped
  /\ \A w \in Workers : GoesBy(menu, mreq[w])
  /\ \A w \in Workers : MenuDraftFits(menu, mdraft[w], mreq[w])
  /\ \A w \in Workers : \A v \in Workers \ {w} : MenuApart(mdraft[w], mdraft[v])
  /\ SlugNamesOne

(* It will drop the page of the slug.                                      *)
Drops(r, s) == r.pc \in {"detail", "scan"} \/ (r.pc = "unlink" /\ s \in r.keys)

Fresh(s) == page[s] = None \/ page[s] = Late \/ page[s] = Public(s)

PagesSound ==
  /\ page \in [Slugs -> {None} \cup (Nat \X Nat)]
  /\ \A w \in Workers : mreq[w].pc = "fill" =>
       /\ mreq[w].slug \in Slugs /\ mreq[w].loaded \in Nat \X Nat
       /\ mreq[w].loaded = Late \/ mreq[w].loaded = Public(mreq[w].slug)
  /\ \A s \in Slugs : Fresh(s) \/ \E w \in Workers : Drops(mreq[w], s)

MenuInv == EditsSound /\ PagesSound

-----------------------------------------------------------------------------
LEMMA IdleEditor == MenuIdle \in Editor /\ MenuIdle.pc = "idle"
BY DEF MenuIdle, MenuAt, Editor

LEMMA NothingDrafted ==
  ASSUME NEW table, NEW r, NEW e
  PROVE  MenuDraftFits(table, <<>>, r) /\ MenuApart(<<>>, e) /\ MenuApart(e, <<>>)
BY DEF MenuDraftFits, MenuApart

LEMMA MenuStart == MenuInit => MenuInv
<1> SUFFICES ASSUME MenuInit PROVE MenuInv
  OBVIOUS
<1>1. MenuRow("none", None, FALSE, 0) \in Row
  <2>1. FALSE \in BOOLEAN
    OBVIOUS
  <2>2. QED
    BY <2>1, Zenon DEF MenuRow, Row
<1>2. MenuRow("none", None, FALSE, 0).state = "none"
  BY DEF MenuRow
<1>3. \A q \in MenuRows : menu[q] = MenuRow("none", None, FALSE, 0)
  BY DEF MenuInit
<1>4. MenuTyped
  BY <1>1, <1>2, <1>3, IdleEditor DEF MenuInit, MenuTyped, Named
<1>5. EditsSound
  BY <1>2, <1>3, <1>4, IdleEditor, NothingDrafted
     DEF MenuInit, EditsSound, GoesBy, SlugNamesOne, LiveOn
<1>6. PagesSound
  BY IdleEditor DEF MenuInit, PagesSound, Fresh
<1>7. QED
  BY <1>5, <1>6 DEF MenuInv

-----------------------------------------------------------------------------
(* Steps of one editor, by what they do to the edits *)

LEMMA GotoKeepsEdits ==
  ASSUME EditsSound, NEW w \in Workers, NEW r \in Editor, MenuGoto(w, r),
         UNCHANGED <<menu, mdraft>>, GoesBy(menu, r),
         MenuDraftFits(menu, mdraft[w], r)
  PROVE  EditsSound'
BY DEF EditsSound, MenuTyped, MenuGoto, SlugNamesOne, LiveOn

LEMMA EndKeepsEdits ==
  ASSUME EditsSound, NEW w \in Workers, EndEdit(w), UNCHANGED menu
  PROVE  EditsSound'
<1>1. /\ mdraft' = [mdraft EXCEPT ![w] = <<>>]
      /\ mreq' = [mreq EXCEPT ![w] = MenuIdle]
  BY DEF EndEdit, MenuGoto
<1>2. MenuTyped'
  BY <1>1, IdleEditor DEF EditsSound, MenuTyped
<1>3. GoesBy(menu, MenuIdle)
  BY IdleEditor DEF GoesBy
<1>4. QED
  BY <1>1, <1>2, <1>3, IdleEditor, NothingDrafted
     DEF EditsSound, MenuTyped, SlugNamesOne, LiveOn

LEMMA WriteKeepsEdits ==
  ASSUME EditsSound, NEW w \in Workers, NEW r \in Editor, r.pc = "commit",
         MenuGoto(w, r), UNCHANGED menu, NEW d,
         mdraft' = [mdraft EXCEPT ![w] = d],
         MenuDraftFits(menu, d, r),
         \A v \in Workers \ {w} : MenuApart(d, mdraft[v]) /\ MenuApart(mdraft[v], d)
  PROVE  EditsSound'
<1>1. GoesBy(menu, r)
  BY DEF GoesBy
<1>2. MenuTyped'
  BY DEF EditsSound, MenuTyped, MenuGoto
<1>3. /\ mreq'[w] = r /\ mdraft'[w] = d
      /\ \A v \in Workers \ {w} : mreq'[v] = mreq[v] /\ mdraft'[v] = mdraft[v]
  BY DEF EditsSound, MenuTyped, MenuGoto
<1>4. QED
  BY <1>1, <1>2, <1>3 DEF EditsSound, SlugNamesOne, LiveOn

(* What an UPDATE writes fits the row it found.                            *)
LEMMA EditFits ==
  ASSUME NEW r \in Editor, r.kind \in EditKinds, r.kind = "rename" => r.slug \in Slugs,
         NEW old, Named(old), old.state # "none",
         old.state = "deleted" => r.kind = "restore"
  PROVE  EditOf(old, EditedAs(r, old), r.kind)
<1> DEFINE x == EditedAs(r, old)
<1>1. \E b \in BOOLEAN :
        /\ b <=> ((old.visible \/ r.kind \in {"show", "restore"}) /\ r.kind # "hide")
        /\ x = [state |-> IF r.kind = "delete" THEN "deleted"
                          ELSE IF r.kind = "restore" THEN "live" ELSE old.state,
                slug |-> IF r.kind = "rename" THEN r.slug ELSE old.slug,
                visible |-> b, version |-> old.version + 1]
  <2>1. ((old.visible \/ r.kind \in {"show", "restore"}) /\ r.kind # "hide") \in BOOLEAN
    OBVIOUS
  <2>2. QED
    BY <2>1, Zenon DEF EditedAs, Columns
<1>2. PICK b \in BOOLEAN :
        /\ b <=> ((old.visible \/ r.kind \in {"show", "restore"}) /\ r.kind # "hide")
        /\ x = [state |-> IF r.kind = "delete" THEN "deleted"
                          ELSE IF r.kind = "restore" THEN "live" ELSE old.state,
                slug |-> IF r.kind = "rename" THEN r.slug ELSE old.slug,
                visible |-> b, version |-> old.version + 1]
  BY <1>1
<1> HIDE DEF x
<1>3. old \in Row /\ old.version \in Nat /\ old.slug \in Slugs
      /\ old.state \in {"live", "deleted", "purged"} /\ old.visible \in BOOLEAN
  BY DEF Named, Row
<1>4. /\ x.state = IF r.kind = "delete" THEN "deleted"
                   ELSE IF r.kind = "restore" THEN "live" ELSE old.state
      /\ x.slug = IF r.kind = "rename" THEN r.slug ELSE old.slug
      /\ x.version = old.version + 1 /\ x.visible = b
  BY <1>2
<1>5. Named(x) /\ x.state # "none"
  <2>1. x \in Row
    BY <1>2, <1>3 DEF Row
  <2>2. QED
    BY <1>3, <1>4, <2>1 DEF Named
<1>6. r.kind \notin {"show", "hide", "restore"} => x.visible = old.visible
  <2>1. r.kind \notin {"show", "hide", "restore"} => (b <=> old.visible)
    BY <1>2
  <2>2. QED
    BY <1>3, <1>4, <2>1, Zenon
<1>7. old.version < x.version
  BY <1>3, <1>4
<1>8. EditOf(old, x, r.kind)
  BY <1>4, <1>5, <1>6, <1>7 DEF EditOf
<1>9. QED
  BY <1>8 DEF x

(* A row is written that nobody else has written, with a slug that no      *)
(* other row has.                                                          *)
LEMMA RowKeepsEdits ==
  ASSUME EditsSound, NEW w \in Workers, NEW r \in Editor, r.pc = "commit",
         MenuGoto(w, r), UNCHANGED menu, NEW q \in MenuRows, NEW x,
         mdraft' = [mdraft EXCEPT ![w] = With(@, q, x)], DOMAIN mdraft[w] = {},
         MenuLockedBy(q) = {}, EditOf(menu[q], x, r.kind),
         x.state = "live" =>
           /\ \A p \in MenuRows \ {q} : menu[p].state = "live" => menu[p].slug # x.slug
           /\ \A v \in Workers \ {w} : \A p \in DOMAIN mdraft[v] :
                mdraft[v][p].state = "live" => mdraft[v][p].slug # x.slug
  PROVE  EditsSound'
<1> DEFINE d == With(mdraft[w], q, x)
<1>1. DOMAIN d = {q} /\ d[q] = x
  BY DEF With
<1> HIDE DEF d
<1>2. MenuDraftFits(menu, d, r)
  BY <1>1 DEF MenuDraftFits
<1>3. ASSUME NEW v \in Workers \ {w}
      PROVE  MenuApart(d, mdraft[v]) /\ MenuApart(mdraft[v], d)
  <2>1. q \notin DOMAIN mdraft[v]
    BY DEF MenuLockedBy
  <2>2. QED
    BY <1>1, <2>1 DEF MenuApart
<1>4. mdraft' = [mdraft EXCEPT ![w] = d]
  BY DEF d, EditsSound, MenuTyped
<1>5. QED
  BY <1>2, <1>3, <1>4, WriteKeepsEdits

LEMMA FieldsOfEditor ==
  ASSUME EditsSound, NEW w \in Workers
  PROVE  /\ mreq[w] \in Editor /\ GoesBy(menu, mreq[w])
         /\ MenuDraftFits(menu, mdraft[w], mreq[w])
BY DEF EditsSound, MenuTyped

LEMMA MenuAtFields ==
  ASSUME NEW pc, NEW kind, NEW row, NEW slug, NEW loaded
  PROVE  /\ MenuAt(pc, kind, row, slug, loaded).pc = pc
         /\ MenuAt(pc, kind, row, slug, loaded).kind = kind
         /\ MenuAt(pc, kind, row, slug, loaded).row = row
         /\ MenuAt(pc, kind, row, slug, loaded).slug = slug
         /\ MenuAt(pc, kind, row, slug, loaded).loaded = loaded
         /\ MenuAt(pc, kind, row, slug, loaded).keys = {}
BY DEF MenuAt

LEMMA InsertKeepsEdits ==
  ASSUME EditsSound, NEW w \in Workers, NEW q \in MenuRows, InsertRow(w, q)
  PROVE  EditsSound'
<1> DEFINE x == MenuRow("live", mreq[w].slug, TRUE, 1)
           r == MenuAt("commit", "create", q, None, None)
<1>1. mreq[w] \in Editor /\ mreq[w].slug \in Slugs
  BY FieldsOfEditor DEF InsertRow, GoesBy
<1>2. x \in Row /\ x.state = "live" /\ x.slug = mreq[w].slug
  <2>1. TRUE \in BOOLEAN
    OBVIOUS
  <2>2. 1 \in Nat
    OBVIOUS
  <2>3. x \in Row
    BY <1>1, <2>1, <2>2, Zenon DEF MenuRow, Row
  <2>4. QED
    BY <2>3 DEF MenuRow
<1>3. r \in Editor /\ r.pc = "commit" /\ r.kind = "create"
  BY DEF MenuAt, Editor
<1>4. /\ menu[q].state = "none" /\ MenuLockedBy(q) = {}
      /\ ~SlugTaken(w, q, x) /\ UNCHANGED menu
      /\ IF FreeSlug(q, x) THEN /\ mdraft' = [mdraft EXCEPT ![w] = With(@, q, x)]
                                /\ MenuGoto(w, r)
                           ELSE EndEdit(w)
  <2>1. q >= q
    BY DEF MenuRows
  <2>2. QED
    BY <2>1 DEF InsertRow
<1> HIDE DEF x, r
<1>5. EditOf(menu[q], x, r.kind)
  BY <1>1, <1>2, <1>3, <1>4 DEF EditOf, Named
<1>6. \A v \in Workers \ {w} : \A p \in DOMAIN mdraft[v] :
        mdraft[v][p].state = "live" => mdraft[v][p].slug # x.slug
  BY <1>2, <1>4 DEF SlugTaken, MenuLockedBy
<1>7. FreeSlug(q, x) =>
        \A p \in MenuRows \ {q} : menu[p].state = "live" => menu[p].slug # x.slug
  BY <1>2 DEF FreeSlug, LiveOn
<1>11. DOMAIN mdraft[w] = {}
  BY FieldsOfEditor DEF MenuDraftFits, InsertRow
<1>8. CASE FreeSlug(q, x)
  BY <1>3, <1>4, <1>5, <1>6, <1>7, <1>8, <1>11, RowKeepsEdits
<1>9. CASE ~FreeSlug(q, x)
  BY <1>4, <1>9, EndKeepsEdits
<1>10. QED
  BY <1>8, <1>9

LEMMA UpdateKeepsEdits ==
  ASSUME EditsSound, NEW w \in Workers, UpdateRow(w)
  PROVE  EditsSound'
<1> DEFINE r == mreq[w]
           q == r.row
           x == EditedAs(r, menu[q])
           n == MenuAt("commit", r.kind, q, None, None)
<1>1. /\ r.pc = "write" /\ r.kind # "create" /\ UNCHANGED menu
  BY DEF UpdateRow
<1>2. /\ r \in Editor /\ r.kind \in EditKinds /\ q \in MenuRows
      /\ r.kind = "rename" => r.slug \in Slugs
      /\ menu[q].state # "none"
      /\ r.loaded.version = menu[q].version =>
           (menu[q].state = "deleted" => r.kind = "restore")
  BY <1>1, FieldsOfEditor DEF GoesBy
<1>3. n \in Editor /\ n.pc = "commit" /\ n.kind = r.kind
  BY <1>2, MenuAtFields DEF MenuAt, Editor
<1>7. DOMAIN mdraft[w] = {}
  BY <1>1, FieldsOfEditor DEF MenuDraftFits
<1>4. CASE Unchanged(r)
  <2>1. MenuGoto(w, n) /\ UNCHANGED mdraft
    BY <1>1, <1>4 DEF UpdateRow
  <2>3. MenuDraftFits(menu, mdraft[w], n)
    BY <1>7 DEF MenuDraftFits
  <2>4. GoesBy(menu, n)
    BY <1>3 DEF GoesBy
  <2> HIDE DEF n
  <2>5. QED
    BY <1>1, <1>3, <2>1, <2>3, <2>4, GotoKeepsEdits
<1>5. CASE ~Unchanged(r)
  <2>1. /\ MenuLockedBy(q) = {} /\ ~SlugTaken(w, q, x)
        /\ IF menu[q].version = r.loaded.version /\ FreeSlug(q, x)
             THEN mdraft' = [mdraft EXCEPT ![w] = With(@, q, x)] /\ MenuGoto(w, n)
             ELSE EndEdit(w)
    BY <1>1, <1>5 DEF UpdateRow
  <2>2. Named(menu[q])
    BY <1>2 DEF EditsSound, MenuTyped
  <2>3. CASE menu[q].version = r.loaded.version /\ FreeSlug(q, x)
    <3>1. EditOf(menu[q], x, r.kind)
      BY <1>2, <2>2, <2>3, EditFits
    <3> HIDE DEF x, n
    <3>2. x.state = "live" => \A v \in Workers \ {w} : \A p \in DOMAIN mdraft[v] :
            mdraft[v][p].state = "live" => mdraft[v][p].slug # x.slug
      BY <2>1 DEF SlugTaken, MenuLockedBy
    <3>3. x.state = "live" =>
            \A p \in MenuRows \ {q} : menu[p].state = "live" => menu[p].slug # x.slug
      BY <2>3 DEF FreeSlug, LiveOn
    <3> HIDE DEF r, q
    <3>4. QED
      BY <1>1, <1>2, <1>3, <1>7, <2>1, <2>3, <3>1, <3>2, <3>3, RowKeepsEdits
  <2>4. CASE ~(menu[q].version = r.loaded.version /\ FreeSlug(q, x))
    BY <1>1, <2>1, <2>4, EndKeepsEdits
  <2>5. QED
    BY <2>3, <2>4
<1>6. QED
  BY <1>4, <1>5

LEMMA BulkKeepsEdits ==
  ASSUME EditsSound, NEW w \in Workers, NEW q \in MenuRows,
         NEW kind \in {"bulkShow", "bulkHide", "purge"}, BulkUpdate(w, q, kind)
  PROVE  EditsSound'
<1> DEFINE r == MenuAt("commit", kind, q, None, None)
<1>1. /\ MenuLockedBy(q) = {} /\ q \in LiveOn(menu) /\ UNCHANGED menu /\ MenuGoto(w, r)
  BY DEF BulkUpdate
<1>2. r \in Editor /\ r.pc = "commit" /\ r.kind = kind
  BY MenuAtFields DEF MenuAt, Editor
<1>3. menu[q] \in Row /\ Named(menu[q]) /\ menu[q].state = "live"
  BY <1>1 DEF EditsSound, MenuTyped, LiveOn
<1>4. \E b \in BOOLEAN :
        mdraft' = [mdraft EXCEPT ![w] =
                     With(@, q, IF kind = "purge" THEN [menu[q] EXCEPT !.state = "purged"]
                                ELSE [menu[q] EXCEPT !.visible = b])]
  <2>1. (kind = "bulkShow") \in BOOLEAN
    OBVIOUS
  <2>2. QED
    BY <2>1, Zenon DEF BulkUpdate
<1>5. PICK b \in BOOLEAN :
        mdraft' = [mdraft EXCEPT ![w] =
                     With(@, q, IF kind = "purge" THEN [menu[q] EXCEPT !.state = "purged"]
                                ELSE [menu[q] EXCEPT !.visible = b])]
  BY <1>4
<1> DEFINE x == IF kind = "purge" THEN [menu[q] EXCEPT !.state = "purged"]
                ELSE [menu[q] EXCEPT !.visible = b]
<1>6. /\ x \in Row /\ x.slug = menu[q].slug /\ x.version = menu[q].version
      /\ x.state \in {"live", "purged"}
      /\ kind = "purge" => x.visible = menu[q].visible
      /\ kind # "purge" => x.state = "live"
  BY <1>3 DEF Row
<1> HIDE DEF x, r
<1>7. EditOf(menu[q], x, r.kind)
  <2>1. Named(x)
    BY <1>3, <1>6 DEF Named
  <2>2. QED
    BY <1>2, <1>3, <1>6, <2>1 DEF EditOf
<1>8. \A p \in MenuRows \ {q} : menu[p].state = "live" => menu[p].slug # x.slug
  BY <1>1, <1>6 DEF EditsSound, SlugNamesOne, LiveOn
<1>9. \A v \in Workers \ {w} : \A p \in DOMAIN mdraft[v] :
        mdraft[v][p].state = "live" => mdraft[v][p].slug # x.slug
  <2>1. ASSUME NEW v \in Workers \ {w}, NEW p \in DOMAIN mdraft[v],
               mdraft[v][p].state = "live"
        PROVE  mdraft[v][p].slug # x.slug
    <3>1. p # q
      BY <1>1 DEF MenuLockedBy
    <3>2. QED
      BY <1>1, <1>3, <1>6, <2>1, <3>1, FieldsOfEditor DEF MenuDraftFits
  <2>2. QED
    BY <2>1
<1>10. mdraft' = [mdraft EXCEPT ![w] = With(@, q, x)]
  BY <1>5 DEF x
<1>11. DOMAIN mdraft[w] = {}
  BY FieldsOfEditor, IdleEditor DEF MenuDraftFits, BulkUpdate
<1>12. QED
  BY <1>1, <1>2, <1>7, <1>8, <1>9, <1>10, <1>11, RowKeepsEdits


(* A commit, by what it does to the editors and the table.                 *)
LEMMA CommitMeans ==
  ASSUME EditsSound, NEW w \in Workers, CommitMenu(w)
  PROVE  /\ mreq[w].pc = "commit"
         /\ \A q \in MenuRows :
              menu'[q] = IF q \in DOMAIN mdraft[w] THEN mdraft[w][q] ELSE menu[q]
         /\ mdraft' = [mdraft EXCEPT ![w] = <<>>]
         /\ mreq' \in [Workers -> Editor]
         /\ mreq'[w].pc \in {"detail", "scan"}
         /\ \A v \in Workers \ {w} :
              IF mreq[v].pc = "fill" THEN mreq'[v] = [mreq[v] EXCEPT !.loaded = Late]
              ELSE mreq'[v] = mreq[v]
<1>1. \A v \in Workers : mreq[v] \in Editor
  BY DEF EditsSound, MenuTyped
<1> DEFINE r == MenuAt(IF mreq[w].kind \in {"create", "rename", "show", "hide", "touch"}
                         THEN "detail" ELSE "scan", None, mreq[w].row, None, None)
<1>2. r \in Editor /\ r.pc \in {"detail", "scan"}
  BY <1>1 DEF MenuAt, Editor
<1>3. mreq' = [v \in Workers |->
         IF v = w THEN r
         ELSE [mreq[v] EXCEPT !.loaded = IF mreq[v].pc = "fill" THEN Late ELSE @]]
  BY DEF CommitMenu
<1> HIDE DEF r
<1>4. Late \in Nat \X Nat
  BY DEF Late
<1>5. ASSUME NEW v \in Workers \ {w}
      PROVE  /\ mreq'[v] \in Editor
             /\ IF mreq[v].pc = "fill" THEN mreq'[v] = [mreq[v] EXCEPT !.loaded = Late]
                ELSE mreq'[v] = mreq[v]
  <2>1. CASE mreq[v].pc = "fill"
    BY <1>1, <1>3, <1>4, <2>1 DEF Editor
  <2>2. CASE mreq[v].pc # "fill"
    BY <1>1, <1>3, <2>2 DEF Editor
  <2>3. QED
    BY <2>1, <2>2
<1>6. mreq' \in [Workers -> Editor]
  BY <1>2, <1>3, <1>5
<1>7. QED
  BY <1>2, <1>3, <1>5, <1>6 DEF CommitMenu

LEMMA CommitKeepsEdits ==
  ASSUME EditsSound, NEW w \in Workers, CommitMenu(w)
  PROVE  EditsSound'
<1> DEFINE d == mdraft[w]
<1>1. /\ mreq[w].pc = "commit"
      /\ \A q \in MenuRows : menu'[q] = IF q \in DOMAIN d THEN d[q] ELSE menu[q]
      /\ mdraft' = [mdraft EXCEPT ![w] = <<>>]
      /\ mreq' \in [Workers -> Editor]
      /\ mreq'[w].pc \in {"detail", "scan"}
  BY CommitMeans
<1>2. ASSUME NEW v \in Workers \ {w}
      PROVE  /\ mreq'[v].pc = mreq[v].pc /\ mreq'[v].kind = mreq[v].kind
             /\ mreq[v].pc # "fill" => mreq'[v] = mreq[v]
             /\ mdraft'[v] = mdraft[v]
  <2>1. mreq[v] \in Editor
    BY DEF EditsSound, MenuTyped
  <2>2. IF mreq[v].pc = "fill" THEN mreq'[v] = [mreq[v] EXCEPT !.loaded = Late]
        ELSE mreq'[v] = mreq[v]
    BY CommitMeans
  <2>3. mdraft'[v] = mdraft[v]
    BY <1>1 DEF EditsSound, MenuTyped
  <2>4. QED
    BY <2>1, <2>2, <2>3 DEF Editor
<1>3. /\ \A q \in DOMAIN d : q \in MenuRows /\ EditOf(menu[q], d[q], mreq[w].kind)
      /\ \A p, q \in DOMAIN d : p = q
      /\ \A q \in DOMAIN d : d[q].state = "live" =>
           \A p \in MenuRows \ {q} : menu[p].state = "live" => menu[p].slug # d[q].slug
  BY FieldsOfEditor DEF MenuDraftFits
<1>4. menu \in [MenuRows -> Row] /\ \A q \in MenuRows : Named(menu[q])
  BY DEF EditsSound, MenuTyped
<1>5. \A v \in Workers \ {w} : MenuApart(d, mdraft[v]) /\ MenuApart(mdraft[v], d)
  BY DEF EditsSound
<1>6. menu' = [q \in MenuRows |-> menu'[q]]
  BY DEF CommitMenu
<1> HIDE DEF d
<1>7. \A q \in MenuRows : Named(menu'[q])
  BY <1>1, <1>3, <1>4 DEF EditOf
<1>8. MenuTyped'
  <2>1. menu' \in [MenuRows -> Row]
    BY <1>6, <1>7 DEF Named
  <2>2. mdraft' = [v \in Workers |-> mdraft'[v]]
    BY <1>1 DEF EditsSound, MenuTyped
  <2>3. QED
    BY <1>1, <1>7, <2>1, <2>2 DEF MenuTyped
<1>9. mdraft'[w] = <<>>
  BY <1>1 DEF EditsSound, MenuTyped
<1>10. \A v \in Workers : GoesBy(menu', mreq'[v])
  <2>1. ASSUME NEW v \in Workers \ {w} PROVE GoesBy(menu', mreq'[v])
    <3> DEFINE r == mreq[v]
    <3>1. SUFFICES ASSUME r.pc \in {"slug", "write"}, r.kind # "create", r.row \in MenuRows
                   PROVE  GoesBy(menu', r)
      BY <1>2, FieldsOfEditor DEF GoesBy
    <3>2. GoesBy(menu, r)
      BY FieldsOfEditor
    <3>3. CASE r.row \notin DOMAIN d
      BY <1>1, <3>1, <3>2, <3>3 DEF GoesBy
    <3>4. CASE r.row \in DOMAIN d
      <4>1. /\ menu'[r.row] = d[r.row] /\ EditOf(menu[r.row], d[r.row], mreq[w].kind)
            /\ menu[r.row].version \in Nat /\ d[r.row].version \in Nat
        BY <1>1, <1>3, <1>4, <3>1, <3>4 DEF EditOf, Named, Row
      <4>2. /\ r.kind \in EditKinds /\ r.loaded \in Row /\ r.loaded.version \in Nat
            /\ r.kind = "rename" => r.slug \in Slugs
            /\ menu[r.row].state # "none"
            /\ r.loaded.version <= menu[r.row].version
        BY <3>1, <3>2 DEF GoesBy, Row
      <4>3. d[r.row].state # "none" /\ r.loaded.version <= d[r.row].version
        BY <4>1, <4>2 DEF EditOf
      <4>4. r.loaded.version = d[r.row].version => d[r.row].state # "deleted"
        BY <4>1, <4>2 DEF EditOf
      <4>5. QED
        BY <3>1, <4>1, <4>2, <4>3, <4>4 DEF GoesBy
    <3>5. QED
      BY <3>3, <3>4
  <2>2. GoesBy(menu', mreq'[w])
    BY <1>1 DEF GoesBy
  <2>3. QED
    BY <2>1, <2>2
<1>11. \A v \in Workers : MenuDraftFits(menu', mdraft'[v], mreq'[v])
  <2>1. ASSUME NEW v \in Workers \ {w} PROVE MenuDraftFits(menu', mdraft'[v], mreq'[v])
    <3> DEFINE e == mdraft[v]
    <3>1. MenuDraftFits(menu, e, mreq[v]) /\ MenuApart(d, e) /\ MenuApart(e, d)
      BY <1>5, FieldsOfEditor
    <3> HIDE DEF e
    <3>2. \A q \in DOMAIN e : q \in MenuRows /\ menu'[q] = menu[q]
      BY <1>1, <3>1 DEF MenuDraftFits, MenuApart
    <3>3. ASSUME NEW q \in DOMAIN e, e[q].state = "live", NEW p \in MenuRows \ {q},
                 menu'[p].state = "live"
          PROVE  menu'[p].slug # e[q].slug
      <4>1. CASE p \in DOMAIN d
        BY <1>1, <3>1, <3>3, <4>1 DEF MenuApart
      <4>2. CASE p \notin DOMAIN d
        BY <1>1, <3>1, <3>3, <4>2 DEF MenuDraftFits
      <4>3. QED
        BY <4>1, <4>2
    <3>4. MenuDraftFits(menu', e, mreq'[v])
      BY <1>2, <3>1, <3>2, <3>3 DEF MenuDraftFits
    <3>5. QED
      BY <1>2, <3>4 DEF e
  <2>2. MenuDraftFits(menu', mdraft'[w], mreq'[w])
    BY <1>9, NothingDrafted
  <2>3. QED
    BY <2>1, <2>2
<1>12. \A u \in Workers : \A v \in Workers \ {u} : MenuApart(mdraft'[u], mdraft'[v])
  BY <1>2, <1>9, NothingDrafted DEF EditsSound
<1>13. SlugNamesOne'
  <2>1. ASSUME NEW p \in MenuRows, NEW q \in MenuRows, p # q,
               menu'[p].state = "live", menu'[q].state = "live"
        PROVE  menu'[p].slug # menu'[q].slug
    <3>1. CASE p \in DOMAIN d
      BY <1>1, <1>3, <2>1, <3>1
    <3>2. CASE q \in DOMAIN d
      BY <1>1, <1>3, <2>1, <3>2
    <3>3. CASE p \notin DOMAIN d /\ q \notin DOMAIN d
      BY <1>1, <2>1, <3>3 DEF EditsSound, SlugNamesOne, LiveOn
    <3>4. QED
      BY <3>1, <3>2, <3>3
  <2>2. QED
    BY <2>1 DEF SlugNamesOne, LiveOn
<1>14. QED
  BY <1>8, <1>10, <1>11, <1>12, <1>13 DEF EditsSound

LEMMA StepKeepsEdits == EditsSound /\ [MenuNext]_menuVars => EditsSound'
<1> SUFFICES ASSUME EditsSound, [MenuNext]_menuVars PROVE EditsSound'
  OBVIOUS
<1>1. CASE UNCHANGED menuVars
  BY <1>1 DEF menuVars, EditsSound, MenuTyped, SlugNamesOne, LiveOn
<1>2. ASSUME NEW s \in Slugs, ExpirePage(s) PROVE EditsSound'
  BY <1>2 DEF ExpirePage, EditsSound, MenuTyped, SlugNamesOne, LiveOn
<1>3. ASSUME NEW w \in Workers PROVE mreq[w].pc # "commit" => DOMAIN mdraft[w] = {}
  BY FieldsOfEditor DEF MenuDraftFits
<1>4. ASSUME NEW w \in Workers, NEW r \in Editor, MenuGoto(w, r),
             UNCHANGED <<menu, mdraft>>, mreq[w].pc # "commit", GoesBy(menu, r)
      PROVE  EditsSound'
  <2>1. MenuDraftFits(menu, mdraft[w], r)
    BY <1>3, <1>4 DEF MenuDraftFits
  <2>2. QED
    BY <1>4, <2>1, GotoKeepsEdits
<1>5. ASSUME NEW w \in Workers, NEW s \in Slugs, StartCreate(w, s) \/ ReadPage(w, s)
      PROVE  EditsSound'
  <2>1. mreq[w].pc # "commit" /\ UNCHANGED <<menu, mdraft>>
    BY <1>5, IdleEditor DEF StartCreate, ReadPage
  <2>2. CASE StartCreate(w, s)
    <3> DEFINE r == MenuAt("slug", "create", None, s, None)
    <3>1. r \in Editor /\ GoesBy(menu, r)
      BY DEF MenuAt, Editor, GoesBy
    <3>2. MenuGoto(w, r)
      BY <2>2 DEF StartCreate
    <3> HIDE DEF r
    <3>3. QED
      BY <1>4, <2>1, <3>1, <3>2
  <2>3. CASE ReadPage(w, s)
    <3> DEFINE r == MenuAt("fill", "read", None, s, Public(s))
    <3>1. Public(s) \in Nat \X Nat
      <4>1. \A q \in LiveOn(menu) : q \in Nat /\ menu[q].version \in Nat
        BY DEF EditsSound, MenuTyped, LiveOn, MenuRows, Row
      <4>2. Public(s) # None
        BY <2>3 DEF ReadPage
      <4>3. QED
        BY <4>1, <4>2 DEF Public
    <3>2. r \in Editor /\ GoesBy(menu, r)
      BY <3>1 DEF MenuAt, Editor, GoesBy
    <3>3. MenuGoto(w, r)
      BY <2>3 DEF ReadPage
    <3> HIDE DEF r
    <3>4. QED
      BY <1>4, <2>1, <3>2, <3>3
  <2>4. QED
    BY <1>5, <2>2, <2>3
<1>6. ASSUME NEW w \in Workers, NEW q \in MenuRows, NEW s \in Slugs \cup {None},
             NEW kind \in EditKinds, kind = "rename" => s \in Slugs, LoadRow(w, q, kind, s)
      PROVE  EditsSound'
  <2> DEFINE r == MenuAt(IF kind = "rename" THEN "slug" ELSE "write", kind, q, s, menu[q])
  <2>1. mreq[w].pc # "commit" /\ UNCHANGED <<menu, mdraft>> /\ MenuGoto(w, r)
    BY <1>6, IdleEditor DEF LoadRow
  <2>2. menu[q] \in Row /\ menu[q].version \in Nat
    BY DEF EditsSound, MenuTyped, Row
  <2>3. menu[q].state # "none" /\ (menu[q].state = "deleted" => kind = "restore")
    BY <1>6 DEF LoadRow, LiveOn
  <2>4. /\ r \in Editor /\ r.kind = kind /\ r.row = q /\ r.loaded = menu[q]
        /\ r.slug = s
    <3>1. (IF kind = "rename" THEN "slug" ELSE "write") \in {"slug", "write"}
      OBVIOUS
    <3>2. QED
      BY <2>2, <3>1 DEF MenuAt, Editor
  <2> HIDE DEF r
  <2>5. GoesBy(menu, r)
    BY <1>6, <2>2, <2>3, <2>4 DEF GoesBy, EditKinds
  <2>6. QED
    BY <1>4, <2>1, <2>4, <2>5
<1>7. ASSUME NEW w \in Workers, CheckSlug(w) PROVE EditsSound'
  <2> DEFINE r == [mreq[w] EXCEPT !.pc = "write"]
  <2>1. /\ mreq[w].pc = "slug" /\ UNCHANGED <<menu, mdraft>> /\ MenuGoto(w, r)
        /\ mreq[w] \in Editor /\ GoesBy(menu, mreq[w])
    BY <1>7, FieldsOfEditor DEF CheckSlug
  <2>2. /\ r \in Editor /\ r.kind = mreq[w].kind /\ r.row = mreq[w].row
        /\ r.slug = mreq[w].slug /\ r.loaded = mreq[w].loaded
    BY <2>1 DEF Editor
  <2> HIDE DEF r
  <2>3. GoesBy(menu, r)
    BY <2>1, <2>2 DEF GoesBy
  <2>4. QED
    BY <1>4, <2>1, <2>2, <2>3
<1>8. ASSUME NEW w \in Workers,
             ReadDetail(w) \/ ScanPages(w) \/ UnlinkPages(w) \/ FillPage(w)
      PROVE  EditsSound'
  <2>1. mreq[w].pc # "commit" /\ UNCHANGED <<menu, mdraft>> /\ mreq[w] \in Editor
    BY <1>8, FieldsOfEditor DEF ReadDetail, ScanPages, UnlinkPages, FillPage
  <2> DEFINE keys == {s \in Slugs : page[s] # None}
             scan == [mreq[w] EXCEPT !.pc = "scan"]
             unlink == [mreq[w] EXCEPT !.pc = "unlink", !.keys = keys]
  <2>2. MenuGoto(w, MenuIdle) \/ MenuGoto(w, scan) \/ MenuGoto(w, unlink)
    BY <1>8 DEF ReadDetail, ScanPages, UnlinkPages, FillPage
  <2>3. /\ scan \in Editor /\ scan.pc = "scan"
        /\ unlink \in Editor /\ unlink.pc = "unlink"
    BY <2>1 DEF Editor
  <2> HIDE DEF scan, unlink
  <2>4. GoesBy(menu, MenuIdle) /\ GoesBy(menu, scan) /\ GoesBy(menu, unlink)
    BY <2>3, IdleEditor DEF GoesBy
  <2>5. QED
    BY <1>4, <2>1, <2>2, <2>3, <2>4, IdleEditor
<1>9. ASSUME NEW w \in Workers, AbandonMenu(w) PROVE EditsSound'
  BY <1>9, EndKeepsEdits DEF AbandonMenu
<1>10. MenuEdits \subseteq EditKinds /\ "rename" \notin MenuEdits
  BY DEF MenuEdits, EditKinds
<1>11. "rename" \in EditKinds
  BY DEF EditKinds
<1>12. QED
  BY <1>1, <1>2, <1>5, <1>6, <1>7, <1>8, <1>9, <1>10, <1>11, InsertKeepsEdits,
     UpdateKeepsEdits, BulkKeepsEdits, CommitKeepsEdits DEF MenuNext


-----------------------------------------------------------------------------
(* The cached pages *)

(* A step of one editor that changes no row and no page.                   *)
LEMMA GotoKeepsPages ==
  ASSUME EditsSound, PagesSound, NEW w \in Workers, NEW r, MenuGoto(w, r),
         UNCHANGED <<menu, page>>, r.pc # "fill",
         \A s \in Slugs : Drops(mreq[w], s) => Drops(r, s) \/ Fresh(s)
  PROVE  PagesSound'
<1>1. /\ mreq'[w] = r /\ \A v \in Workers \ {w} : mreq'[v] = mreq[v]
  BY DEF MenuGoto, EditsSound, MenuTyped
<1>2. \A s \in Slugs : Public(s)' = Public(s) /\ (Fresh(s)' <=> Fresh(s))
  BY DEF Public, Fresh, LiveOn
<1>3. \A s \in Slugs : Fresh(s)' \/ \E v \in Workers : Drops(mreq'[v], s)
  BY <1>1, <1>2 DEF PagesSound
<1>4. QED
  BY <1>1, <1>2, <1>3 DEF PagesSound

(* After a step that leaves no stale page, the others need not drop any.   *)
LEMMA DoubtedPages ==
  ASSUME EditsSound, PagesSound, NEW w \in Workers, MenuGoto(w, MenuIdle),
         UNCHANGED menu, page' = Doubted
  PROVE  PagesSound'
<1>1. Late \in Nat \X Nat
  BY DEF Late
<1>2. mreq'[w] = MenuIdle /\ \A v \in Workers \ {w} : mreq'[v] = mreq[v]
  BY DEF MenuGoto, EditsSound, MenuTyped
<1>3. \A s \in Slugs : Public(s)' = Public(s)
  BY DEF Public, LiveOn
<1>4. /\ page' \in [Slugs -> {None} \cup (Nat \X Nat)]
      /\ \A s \in Slugs : page'[s] = None \/ page'[s] = Late
  BY <1>1 DEF Doubted
<1>5. QED
  BY <1>2, <1>3, <1>4, IdleEditor DEF PagesSound, Fresh

LEMMA CommitKeepsPages ==
  ASSUME EditsSound, PagesSound, NEW w \in Workers, CommitMenu(w)
  PROVE  PagesSound'
<1>1. Late \in Nat \X Nat
  BY DEF Late
<1>2. /\ mreq'[w].pc \in {"detail", "scan"}
      /\ \A v \in Workers \ {w} :
           IF mreq[v].pc = "fill" THEN mreq'[v] = [mreq[v] EXCEPT !.loaded = Late]
           ELSE mreq'[v] = mreq[v]
  BY CommitMeans
<1>3. UNCHANGED page /\ \A v \in Workers : mreq[v] \in Editor
  BY DEF CommitMenu, EditsSound, MenuTyped
<1>4. ASSUME NEW v \in Workers, mreq'[v].pc = "fill"
      PROVE  mreq'[v].slug \in Slugs /\ mreq'[v].loaded = Late
  <2>1. v # w /\ mreq[v].pc = "fill"
    BY <1>2, <1>4
  <2>2. mreq'[v] = [mreq[v] EXCEPT !.loaded = Late]
    BY <1>2, <2>1
  <2>3. QED
    BY <1>3, <2>1, <2>2 DEF PagesSound, Editor
<1>5. \A s \in Slugs : Drops(mreq'[w], s)
  BY <1>2 DEF Drops
<1>6. QED
  BY <1>1, <1>3, <1>4, <1>5 DEF PagesSound

LEMMA StepKeepsPages ==
  EditsSound /\ PagesSound /\ [MenuNext]_menuVars => PagesSound'
<1> SUFFICES ASSUME EditsSound, PagesSound, [MenuNext]_menuVars PROVE PagesSound'
  OBVIOUS
<1>1. CASE UNCHANGED menuVars
  BY <1>1 DEF menuVars, PagesSound, Fresh, Public, LiveOn
<1>2. ASSUME NEW s \in Slugs, ExpirePage(s) PROVE PagesSound'
  <2>1. \A t \in Slugs : Public(t)' = Public(t)
    BY <1>2 DEF ExpirePage, Public, LiveOn
  <2>2. /\ UNCHANGED mreq /\ page' \in [Slugs -> {None} \cup (Nat \X Nat)]
        /\ \A t \in Slugs : page'[t] = None \/ page'[t] = page[t]
    BY <1>2 DEF ExpirePage, PagesSound
  <2>3. \A t \in Slugs : Fresh(t) => Fresh(t)'
    BY <2>1, <2>2 DEF Fresh
  <2>4. QED
    BY <2>1, <2>2, <2>3 DEF PagesSound
<1>4. ASSUME NEW w \in Workers, NEW r, MenuGoto(w, r), UNCHANGED <<menu, page>>,
             mreq[w].pc \notin {"detail", "scan", "unlink"}, r.pc # "fill"
      PROVE  PagesSound'
  BY <1>4, GotoKeepsPages DEF Drops
<1>5. ASSUME NEW w \in Workers, NEW s \in Slugs, StartCreate(w, s) PROVE PagesSound'
  BY <1>4, <1>5, MenuAtFields, IdleEditor DEF StartCreate
<1>6. ASSUME NEW w \in Workers, NEW q, NEW kind, NEW s, LoadRow(w, q, kind, s)
      PROVE  PagesSound'
  <2>1. (IF kind = "rename" THEN "slug" ELSE "write") # "fill"
    OBVIOUS
  <2>2. QED
    BY <1>4, <1>6, <2>1, MenuAtFields, IdleEditor DEF LoadRow
<1>7. ASSUME NEW w \in Workers, CheckSlug(w) PROVE PagesSound'
  <2>1. [mreq[w] EXCEPT !.pc = "write"].pc # "fill"
    BY FieldsOfEditor DEF Editor
  <2>2. QED
    BY <1>4, <1>7, <2>1 DEF CheckSlug
<1>8. ASSUME NEW w \in Workers, NEW q \in MenuRows, InsertRow(w, q) PROVE PagesSound'
  <2> DEFINE r == MenuAt("commit", "create", q, None, None)
  <2>1. MenuGoto(w, r) \/ MenuGoto(w, MenuIdle)
    BY <1>8 DEF InsertRow, EndEdit
  <2>2. mreq[w].pc = "write" /\ UNCHANGED <<menu, page>>
    BY <1>8 DEF InsertRow
  <2>3. r.pc = "commit"
    BY MenuAtFields
  <2> HIDE DEF r
  <2>4. QED
    BY <1>4, <2>1, <2>2, <2>3, IdleEditor
<1>9. ASSUME NEW w \in Workers, UpdateRow(w) PROVE PagesSound'
  <2>1. \E r : MenuGoto(w, r) /\ r.pc # "fill"
    BY <1>9, MenuAtFields, IdleEditor DEF UpdateRow, EndEdit
  <2>2. QED
    BY <1>4, <1>9, <2>1 DEF UpdateRow
<1>10. ASSUME NEW w \in Workers, NEW q \in MenuRows, NEW kind, BulkUpdate(w, q, kind)
       PROVE  PagesSound'
  BY <1>4, <1>10, MenuAtFields, IdleEditor DEF BulkUpdate
<1>11. ASSUME NEW w \in Workers, ReadDetail(w) PROVE PagesSound'
  <2>1. CASE mreq[w].row \in LiveOn(menu)
    <3> DEFINE r == [mreq[w] EXCEPT !.pc = "scan"]
    <3>1. r.pc = "scan"
      BY FieldsOfEditor DEF Editor
    <3>2. MenuGoto(w, r) /\ UNCHANGED <<menu, page>>
      BY <1>11, <2>1 DEF ReadDetail
    <3> HIDE DEF r
    <3>3. QED
      BY <3>1, <3>2, GotoKeepsPages DEF Drops
  <2>2. CASE mreq[w].row \notin LiveOn(menu)
    BY <1>11, <2>2, DoubtedPages DEF ReadDetail
  <2>3. QED
    BY <2>1, <2>2
<1>12. ASSUME NEW w \in Workers, ScanPages(w) PROVE PagesSound'
  <2> DEFINE r == [mreq[w] EXCEPT !.pc = "unlink", !.keys = {s \in Slugs : page[s] # None}]
  <2>1. r.pc = "unlink" /\ r.keys = {s \in Slugs : page[s] # None}
    BY FieldsOfEditor DEF Editor
  <2>2. MenuGoto(w, r) /\ UNCHANGED <<menu, page>>
    BY <1>12 DEF ScanPages
  <2> HIDE DEF r
  <2>3. QED
    BY <2>1, <2>2, GotoKeepsPages DEF Drops, Fresh
<1>13. ASSUME NEW w \in Workers, UnlinkPages(w) PROVE PagesSound'
  <2>1. /\ mreq'[w] = MenuIdle /\ \A v \in Workers \ {w} : mreq'[v] = mreq[v]
        /\ UNCHANGED menu /\ mreq[w].pc = "unlink"
    BY <1>13 DEF UnlinkPages, MenuGoto, EditsSound, MenuTyped
  <2>2. /\ page' \in [Slugs -> {None} \cup (Nat \X Nat)]
        /\ \A s \in Slugs : page'[s] = IF s \in mreq[w].keys THEN None ELSE page[s]
    BY <1>13 DEF UnlinkPages, PagesSound
  <2>3. \A s \in Slugs : Public(s)' = Public(s)
    BY <2>1 DEF Public, LiveOn
  <2>4. ASSUME NEW s \in Slugs
        PROVE  Fresh(s)' \/ \E v \in Workers : Drops(mreq'[v], s)
    <3>1. CASE s \in mreq[w].keys
      BY <2>2, <3>1 DEF Fresh
    <3>2. CASE Fresh(s)
      BY <2>2, <2>3, <3>2 DEF Fresh
    <3>3. CASE s \notin mreq[w].keys /\ ~Fresh(s)
      <4>1. PICK v \in Workers : Drops(mreq[v], s)
        BY <3>3 DEF PagesSound
      <4>2. v # w
        BY <2>1, <3>3, <4>1 DEF Drops
      <4>3. QED
        BY <2>1, <4>1, <4>2
    <3>4. QED
      BY <3>1, <3>2, <3>3
  <2>5. QED
    BY <2>1, <2>2, <2>3, <2>4, IdleEditor DEF PagesSound
<1>14. ASSUME NEW w \in Workers, AbandonMenu(w) PROVE PagesSound'
  <2>1. CASE mreq[w].pc \in {"detail", "scan", "unlink"}
    BY <1>14, <2>1, DoubtedPages DEF AbandonMenu, EndEdit
  <2>2. CASE mreq[w].pc \notin {"detail", "scan", "unlink"}
    BY <1>4, <1>14, <2>2, IdleEditor DEF AbandonMenu, EndEdit
  <2>3. QED
    BY <2>1, <2>2
<1>15. ASSUME NEW w \in Workers, NEW s \in Slugs, ReadPage(w, s) PROVE PagesSound'
  <2> DEFINE r == MenuAt("fill", "read", None, s, Public(s))
  <2>1. r.pc = "fill" /\ r.slug = s /\ r.loaded = Public(s)
    BY MenuAtFields
  <2>2. /\ mreq'[w] = r /\ \A v \in Workers \ {w} : mreq'[v] = mreq[v]
        /\ UNCHANGED <<menu, page>> /\ mreq[w] = MenuIdle
    BY <1>15 DEF ReadPage, MenuGoto, EditsSound, MenuTyped
  <2>3. Public(s) \in Nat \X Nat
    <3>1. \A q \in LiveOn(menu) : q \in Nat /\ menu[q].version \in Nat
      BY DEF EditsSound, MenuTyped, LiveOn, MenuRows, Row
    <3>2. Public(s) # None
      BY <1>15 DEF ReadPage
    <3>3. QED
      BY <3>1, <3>2 DEF Public
  <2>4. \A t \in Slugs : Public(t)' = Public(t) /\ (Fresh(t)' <=> Fresh(t))
    BY <2>2 DEF Public, Fresh, LiveOn
  <2> HIDE DEF r
  <2>5. \A t \in Slugs : ~Drops(mreq[w], t)
    BY <2>2, IdleEditor DEF Drops
  <2>6. \A t \in Slugs : Fresh(t)' \/ \E v \in Workers : Drops(mreq'[v], t)
    BY <2>2, <2>4, <2>5 DEF PagesSound
  <2>7. QED
    BY <2>1, <2>2, <2>3, <2>4, <2>6 DEF PagesSound
<1>16. ASSUME NEW w \in Workers, FillPage(w) PROVE PagesSound'
  <2> DEFINE r == mreq[w]
  <2>1. /\ mreq'[w] = MenuIdle /\ \A v \in Workers \ {w} : mreq'[v] = mreq[v]
        /\ UNCHANGED menu /\ r.pc = "fill" /\ page' = [page EXCEPT ![r.slug] = r.loaded]
    BY <1>16 DEF FillPage, MenuGoto, EditsSound, MenuTyped
  <2>2. /\ r.slug \in Slugs /\ r.loaded \in Nat \X Nat
        /\ r.loaded = Late \/ r.loaded = Public(r.slug)
    BY <2>1 DEF PagesSound
  <2>3. \A t \in Slugs : Public(t)' = Public(t)
    BY <2>1 DEF Public, LiveOn
  <2> HIDE DEF r
  <2>4. /\ page' \in [Slugs -> {None} \cup (Nat \X Nat)]
        /\ \A t \in Slugs : page'[t] = IF t = r.slug THEN r.loaded ELSE page[t]
    BY <2>1, <2>2 DEF PagesSound
  <2>5. \A t \in Slugs : ~Drops(mreq[w], t)
    BY <2>1 DEF Drops, r
  <2>6. \A t \in Slugs : Fresh(t)' \/ \E v \in Workers : Drops(mreq'[v], t)
    BY <2>1, <2>2, <2>3, <2>4, <2>5 DEF PagesSound, Fresh
  <2>7. QED
    BY <2>1, <2>3, <2>4, <2>6, IdleEditor DEF PagesSound
<1>17. QED
  BY <1>1, <1>2, <1>5, <1>6, <1>7, <1>8, <1>9, <1>10, <1>11, <1>12, <1>13, <1>14,
     <1>15, <1>16, CommitKeepsPages DEF MenuNext

LEMMA MenuInvHolds == MenuSpec => []MenuInv
<1>1. MenuInv /\ [MenuNext]_menuVars => MenuInv'
  BY StepKeepsEdits, StepKeepsPages DEF MenuInv
<1>2. QED
  BY <1>1, MenuStart, PTL DEF MenuSpec

-----------------------------------------------------------------------------
(* Who changes rows *)

(* A step changes rows by a commit at most, and then those it has written. *)
LEMMA OnlyCommitsChange ==
  ASSUME EditsSound, [MenuNext]_menuVars
  PROVE  menu' = menu \/ \E w \in Workers : CommitMenu(w)
BY DEF MenuNext, menuVars, StartCreate, ReadPage, LoadRow, CheckSlug, InsertRow,
       UpdateRow, BulkUpdate, ReadDetail, ScanPages, UnlinkPages, AbandonMenu,
       FillPage, ExpirePage

LEMMA ChangedRow ==
  ASSUME EditsSound, NEW w \in Workers, CommitMenu(w),
         NEW q \in MenuRows, menu'[q] # menu[q]
  PROVE  EditOf(menu[q], menu'[q], mreq[w].kind)
<1>1. menu'[q] = IF q \in DOMAIN mdraft[w] THEN mdraft[w][q] ELSE menu[q]
  BY CommitMeans
<1>2. q \in DOMAIN mdraft[w] /\ menu'[q] = mdraft[w][q]
  BY <1>1
<1>3. QED
  BY <1>2, FieldsOfEditor DEF MenuDraftFits

(* Rows change as the request asked that commits, deleted rows by being    *)
(* restored only, a slug names one live row, and cached pages are stale    *)
(* for named reasons only.                                                 *)
THEOREM MenuHolds == MenuSpec => MenuCorrect
<1>1. MenuInv => MenuTypeOK /\ SlugNamesOne /\ StalePageIsLate
  <2> SUFFICES ASSUME MenuInv PROVE MenuTypeOK /\ SlugNamesOne /\ StalePageIsLate
    OBVIOUS
  <2>1. MenuTypeOK
    <3>1. \A w \in Workers : \A q \in DOMAIN mdraft[w] : mdraft[w][q] \in Row
      BY DEF MenuInv, EditsSound, MenuDraftFits, EditOf, Named
    <3>2. QED
      BY <3>1 DEF MenuInv, EditsSound, MenuTyped, PagesSound, MenuTypeOK, Named, Row
  <2>2. StalePageIsLate
    BY DEF MenuInv, PagesSound, StalePageIsLate, Fresh, Drops
  <2>3. QED
    BY <2>1, <2>2 DEF MenuInv, EditsSound
<1>2. MenuInv /\ [MenuNext]_menuVars =>
        [\A w \in Workers, r \in MenuRows :
           mreq[w].pc = "commit" /\ mreq'[w] # mreq[w] /\ menu'[r] # menu[r]
           => /\ menu'[r].state # menu[r].state =>
                   mreq[w].kind \in {"create", "delete", "purge", "restore"}
              /\ menu'[r].visible # menu[r].visible =>
                   mreq[w].kind \in {"create", "show", "hide", "bulkShow", "bulkHide",
                                     "restore"}]_menuVars
  <2> SUFFICES ASSUME MenuInv, [MenuNext]_menuVars, NEW w \in Workers, NEW r \in MenuRows,
                      mreq[w].pc = "commit", mreq'[w] # mreq[w], menu'[r] # menu[r]
               PROVE  EditOf(menu[r], menu'[r], mreq[w].kind)
    BY DEF EditOf
  <2>1. PICK v \in Workers : CommitMenu(v)
    BY OnlyCommitsChange DEF MenuInv
  <2>2. v = w
    BY <2>1, CommitMeans DEF MenuInv
  <2>3. QED
    BY <2>1, <2>2, ChangedRow DEF MenuInv
<1>3. MenuInv /\ [MenuNext]_menuVars =>
        [\A r \in MenuRows :
           menu[r].state = "deleted" /\ menu'[r] # menu[r] => menu'[r].state = "live"]_menuVars
  BY OnlyCommitsChange, ChangedRow DEF MenuInv, EditOf
<1>4. MenuSpec => [](MenuTypeOK /\ SlugNamesOne /\ StalePageIsLate)
  BY <1>1, MenuInvHolds, PTL
<1>5. MenuSpec => AskedOnly
  BY <1>2, MenuInvHolds, PTL DEF MenuSpec, AskedOnly
<1>6. MenuSpec => DeletedIsLeftAlone
  BY <1>3, MenuInvHolds, PTL DEF MenuSpec, DeletedIsLeftAlone
<1>7. QED
  BY <1>4, <1>5, <1>6 DEF MenuCorrect

-----------------------------------------------------------------------------
(* Gallery *)

ImageRows == [state : {"none", "live", "deleted"}, primary : BOOLEAN, order : Nat, version : Nat]

Covers == Images \cup {None, Chosen}

ProductRows == [cover : Covers, version : Nat]

GalleryDrafts == UNION {[S -> ImageRows \cup ProductRows] : S \in SUBSET ({0} \cup Images)}

Versions == UNION {[S -> Nat] : S \in SUBSET Images}

GalleryKinds == {"edit", "upload", "delete", "reorder"}

GalleryPCs ==
  {"idle", "edit", "upload", "delete", "reorder", "find", "clear", "order", "insert",
   "cover", "softDelete", "list", "promote", "aside", "arrange", "commit", "destroy"}

GalleryRequest ==
  [pc : GalleryPCs, kind : GalleryKinds \cup {None}, row : Images \cup {None},
   primary : BOOLEAN, order : Nat, cover : Covers, loaded : ProductRows,
   seen : Versions, todo : SUBSET Images, asked : Seq(Images)]

FileStates == {"none", "stored", "gone"}

IsPrimary(x) == x.state = "live" /\ x.primary

(* The images that a transaction has written.                              *)
Written(d) == DOMAIN d \ {0}

(* What the bulk UPDATE leaves of a primary.                               *)
Cleared(d, table, a) ==
  IsPrimary(table[a]) /\ d[a] = [table[a] EXCEPT !.primary = FALSE]

(* Rows that exist are written with a higher version, but for primaries    *)
(* that an upload clears; a row that does not exist, by its upload alone.  *)
WrittenFits(r, d, table, kept) ==
  \A a \in Written(d) :
    /\ d[a] \in ImageRows
    /\ table[a].state # "deleted" /\ d[a].state # "none"
    /\ table[a].state = "none" => r.kind = "upload" /\ a = r.row
    /\ table[a].version <= d[a].version
    /\ d[a].version = table[a].version =>
         r.kind = "upload" /\ r.primary /\ a # r.row /\ Cleared(d, table, a)
    /\ d[a].state = "live" => kept[a] = "stored"

(* Who has written the product has found it at the version it loaded.      *)
ProductWritten(r, d, prod) ==
  0 \in DOMAIN d =>
    /\ d[0] = ProductRow(r.cover, prod.version + 1)
    /\ prod.version = r.loaded.version
    /\ r.pc \in {"promote", "commit"}

LoadedFits(r, table, prod) ==
  /\ r.loaded.version <= prod.version
  /\ r.loaded.version = prod.version => r.loaded.cover = prod.cover
  /\ r.loaded.cover \in Images => table[r.loaded.cover].state # "none"

SeenFits(r, table) ==
  \A a \in DOMAIN r.seen :
    /\ table[a].state # "none"
    /\ r.seen[a] <= table[a].version
    /\ r.seen[a] = table[a].version => table[a].state = "live"

EditsFit(r, d) ==
  /\ r.pc \in {"edit", "cover", "commit"}
  /\ r.pc \in {"cover", "commit"} => r.cover \in {r.loaded.cover, Chosen}
  /\ r.pc \in {"edit", "cover"} => DOMAIN d = {}
  /\ r.pc = "commit" => DOMAIN d = {0}

UploadFits(r, d, table, kept) ==
  /\ r.pc \in {"upload", "find", "clear", "order", "insert", "cover", "commit"}
  /\ r.pc = "upload" => r.row = None
  /\ r.pc # "upload" => r.row \in Images /\ table[r.row].state = "none" /\ kept[r.row] = "stored"
  /\ r.pc \in {"find", "clear", "cover"} => r.primary
  /\ r.pc \in {"order", "insert"} =>
       /\ \A a \in DOMAIN d : a # 0 /\ Cleared(d, table, a)
       /\ r.primary \/ DOMAIN d = {}
  /\ r.pc \in {"cover", "commit"} =>
       /\ r.row \in DOMAIN d /\ d[r.row].state = "live" /\ d[r.row].primary = r.primary
       /\ \A a \in DOMAIN d \ {0, r.row} : Cleared(d, table, a)
       /\ r.primary \/ DOMAIN d = {r.row}
       /\ r.cover = r.row
  /\ r.pc = "commit" /\ r.primary => 0 \in DOMAIN d

AskedImages(asked) == {asked[i] : i \in DOMAIN asked}

ReorderFits(r, d, table) ==
  /\ r.pc \in {"reorder", "aside", "arrange", "commit"}
  /\ r.pc = "reorder" => DOMAIN d = {}
  /\ r.pc # "reorder" =>
       /\ \A i, j \in DOMAIN r.asked : r.asked[i] = r.asked[j] => i = j
       /\ \A a \in DOMAIN d : /\ a # 0 /\ d[a].state = "live" /\ table[a].state = "live"
                              /\ d[a].primary = table[a].primary
  /\ r.pc = "aside" => /\ r.todo # {} /\ DOMAIN d \cup r.todo = AskedImages(r.asked)
                       /\ r.todo \subseteq DOMAIN r.seen
  /\ r.pc \in {"arrange", "commit"} => DOMAIN d = AskedImages(r.asked)
  /\ r.pc = "commit" => \A i \in DOMAIN r.asked : d[r.asked[i]].order = i - 1

(* The product was written since it was loaded.                            *)
Overtaken(r, prod) == r.loaded.version < prod.version

(* An image that was the primary when it was loaded is it still, or the    *)
(* product has a later version, which stops the deletion.                  *)
DeleteFits(r, d, table, prod) ==
  /\ r.pc \in {"delete", "softDelete", "list", "cover", "promote", "commit"}
  /\ r.row \in Images
  /\ r.pc \in {"delete", "softDelete"} => DOMAIN d = {} /\ table[r.row].state # "none"
  /\ r.pc \in {"delete", "softDelete", "list"} => r.cover = None
  /\ r.pc = "softDelete" =>
       /\ r.row \in DOMAIN r.seen
       /\ r.seen[r.row] = table[r.row].version =>
            /\ r.primary => IsPrimary(table[r.row]) \/ Overtaken(r, prod)
            /\ ~ r.primary => ~ IsPrimary(table[r.row])
  /\ r.pc \in {"list", "cover", "promote", "commit"} =>
       r.row \in DOMAIN d /\ d[r.row].state = "deleted" /\ table[r.row].state = "live"
  /\ r.pc \in {"list", "cover"} => DOMAIN d = {r.row}
  /\ r.pc = "list" => r.primary /\ (IsPrimary(table[r.row]) \/ Overtaken(r, prod))
  /\ r.pc = "cover" /\ r.cover = None => r.primary
  /\ r.pc \in {"cover", "promote", "commit"} /\ r.cover # None =>
       r.cover \in Images /\ r.cover # r.row /\ table[r.cover].state # "none"
  /\ r.pc \in {"cover", "promote"} /\ r.cover # None => r.cover \in DOMAIN r.seen
  /\ r.pc \in {"cover", "commit"} /\ r.cover # None /\ r.primary =>
       DOMAIN d = {r.row} /\ ~ IsPrimary(table[r.row]) /\ Overtaken(r, prod)
  /\ r.pc = "promote" => ~ r.primary /\ r.cover # None /\ DOMAIN d \subseteq {0, r.row}
  /\ r.pc = "commit" /\ r.cover = None /\ ~ r.primary =>
       DOMAIN d = {r.row} /\ ~ IsPrimary(table[r.row])
  /\ r.pc = "commit" /\ r.cover = None => DOMAIN d \subseteq {0, r.row}
  /\ r.pc = "commit" /\ r.cover # None /\ ~ r.primary =>
       /\ DOMAIN d \subseteq {0, r.row, r.cover}
       /\ r.cover \in DOMAIN d /\ IsPrimary(d[r.cover])
  /\ r.pc \in {"promote", "commit"} /\ (r.primary \/ r.cover # None) /\ 0 \notin DOMAIN d =>
       r.cover = r.loaded.cover

Busy(r) == r.pc \notin {"idle", "destroy"}

DestroyFits(r, d, table) ==
  r.row \in Images /\ table[r.row].state = "deleted" /\ DOMAIN d = {} /\ r.seen = <<>>

KindFits(r, d, table, prod, kept) ==
  /\ r.pc = "idle" => r = GalleryIdle /\ DOMAIN d = {}
  /\ r.pc = "destroy" => DestroyFits(r, d, table)
  /\ Busy(r) =>
       /\ r.kind \in GalleryKinds
       /\ r.kind = "edit" => EditsFit(r, d)
       /\ r.kind = "upload" => UploadFits(r, d, table, kept)
       /\ r.kind = "delete" => DeleteFits(r, d, table, prod)
       /\ r.kind = "reorder" => ReorderFits(r, d, table)
       /\ r.pc \in {"upload", "find", "clear"} => DOMAIN d = {}
       /\ r.pc = "cover" => 0 \notin DOMAIN d

RequestFits(r, d, table, prod, kept) ==
  /\ r \in GalleryRequest
  /\ d \in GalleryDrafts
  /\ WrittenFits(r, d, table, kept)
  /\ ProductWritten(r, d, prod)
  /\ LoadedFits(r, table, prod)
  /\ SeenFits(r, table)
  /\ KindFits(r, d, table, prod, kept)

(* A transaction that makes a primary of an image holds its entry of the   *)
(* index over primaries.                                                   *)
NewPrimary(d, table) == \E a \in Written(d) : IsPrimary(d[a]) /\ ~ IsPrimary(table[a])

Holds(d, table) == \E a \in Written(d) : IsPrimary(table[a]) \/ IsPrimary(d[a])

(* The only primary that a transaction sees is one it wrote.               *)
Sole(d, table) ==
  \E a \in Written(d) :
    /\ IsPrimary(d[a])
    /\ \A b \in Written(d) : IsPrimary(d[b]) => b = a
    /\ \A b \in Images \ DOMAIN d : ~ IsPrimary(table[b])

RowsApart == \A v, w \in Workers : v # w => DOMAIN gdraft[v] \cap DOMAIN gdraft[w] = {}

UploadOf(r, a) == Busy(r) /\ r.kind = "upload" /\ r.row = a

UploadsApart ==
  \A v, w \in Workers : v # w =>
    \A a \in Images : ~ (UploadOf(greq[v], a) /\ UploadOf(greq[w], a))

SinglePrimary(table) == \A a, b \in Images : IsPrimary(table[a]) /\ IsPrimary(table[b]) => a = b

(* A cover that is live is the primary.                                    *)
CoverFits(table, prod) ==
  prod.cover \in Images =>
    /\ table[prod.cover].state # "none"
    /\ table[prod.cover].state = "live" => table[prod.cover].primary

TableFits(table, prod, kept) ==
  /\ \A a \in Images : table[a].state = "none" => table[a].version = 0
  /\ \A a \in Images : table[a].state = "live" => kept[a] = "stored"
  /\ \A a \in Images : kept[a] = "none" => table[a].state = "none"
  /\ prod.version >= 1
  /\ CoverFits(table, prod)

WriterHolds(w) ==
  NewPrimary(gdraft[w], image) =>
    /\ greq[w].pc \in {"cover", "commit"}
    /\ Sole(gdraft[w], image)
    /\ \A v \in Workers \ {w} : ~ Holds(gdraft[v], image)

(* A deletion that saw no other image, of a product nobody has written     *)
(* since.                                                                  *)
LastOne(r, prod) ==
  /\ Busy(r) /\ r.kind = "delete" /\ r.pc \in {"cover", "commit"} /\ r.primary /\ r.cover = None
  /\ r.loaded.version = prod.version

(* The images there are then are no primaries, nor known as covers.        *)
LastAlone(w) ==
  LastOne(greq[w], product) =>
    \A b \in LiveImages(image) \ {greq[w].row} :
      /\ ~ image[b].primary
      /\ \A v \in Workers : greq[v].loaded.cover # b

GalleryTyped ==
  /\ image \in [Images -> ImageRows]
  /\ product \in ProductRows
  /\ files \in [Images -> FileStates]
  /\ gdraft \in [Workers -> GalleryDrafts]
  /\ greq \in [Workers -> GalleryRequest]

GalleryInv ==
  /\ GalleryTyped
  /\ \A w \in Workers : RequestFits(greq[w], gdraft[w], image, product, files)
  /\ RowsApart /\ UploadsApart
  /\ SinglePrimary(image)
  /\ TableFits(image, product, files)
  /\ \A w \in Workers : WriterHolds(w)
  /\ \A w \in Workers : LastAlone(w)

-----------------------------------------------------------------------------
(* No image is the product (0), nobody, or a chosen cover.                 *)
LEMMA ImagesAreNumbers ==
  /\ 0 \notin Images /\ Images \subseteq Nat /\ IsFiniteSet(Images)
  /\ None \notin Images /\ Chosen \notin Images
BY GalleryBounds, FS_Interval DEF Images

(* A draft holds rows of images, and of the product.                       *)
LEMMA WrittenImages ==
  ASSUME NEW d \in GalleryDrafts
  PROVE  Written(d) \subseteq Images /\ DOMAIN d \subseteq {0} \cup Images
         /\ Written(d) = DOMAIN d \cap Images
BY ImagesAreNumbers DEF GalleryDrafts, Written

(* What an idle handler has written.                                       *)
LEMMA NothingWritten ==
  /\ <<>> \in GalleryDrafts /\ <<>> \in Versions /\ <<>> \in Seq(Images)
  /\ DOMAIN <<>> = {}
<1>1. <<>> = [a \in {} |-> 0]
  OBVIOUS
<1>2. <<>> \in [{} -> ImageRows \cup ProductRows] /\ <<>> \in [{} -> Nat]
  BY <1>1
<1>3. <<>> \in GalleryDrafts /\ <<>> \in Versions
  BY <1>2 DEF GalleryDrafts, Versions
<1>4. <<>> \in Seq(Images) /\ DOMAIN <<>> = {}
  OBVIOUS
<1>5. QED
  BY <1>3, <1>4

(* What writing one more row makes of a draft.                             *)
LEMMA WithOf ==
  ASSUME NEW d, NEW a, NEW x
  PROVE  /\ DOMAIN With(d, a, x) = DOMAIN d \cup {a}
         /\ With(d, a, x)[a] = x
         /\ \A b \in DOMAIN d \ {a} : With(d, a, x)[b] = d[b]
BY DEF With

(* A draft with one more row is a draft.                                   *)
LEMMA WrittenToo ==
  ASSUME NEW d \in GalleryDrafts, NEW a \in {0} \cup Images, NEW x \in ImageRows \cup ProductRows
  PROVE  With(d, a, x) \in GalleryDrafts
<1> DEFINE e == With(d, a, x)
<1>1. /\ e = [b \in DOMAIN d \cup {a} |-> IF b = a THEN x ELSE d[b]]
      /\ DOMAIN d \cup {a} \in SUBSET ({0} \cup Images)
      /\ \A b \in DOMAIN d : d[b] \in ImageRows \cup ProductRows
  BY DEF With, GalleryDrafts
<1> HIDE DEF e
<1>2. e \in [DOMAIN d \cup {a} -> ImageRows \cup ProductRows]
  BY <1>1
<1>3. QED
  BY <1>1, <1>2 DEF GalleryDrafts, e

(* An idle handler fits any table.                                         *)
LEMMA IdleGallery ==
  ASSUME NEW table, NEW prod \in ProductRows, NEW kept, prod.version >= 1
  PROVE  /\ GalleryIdle \in GalleryRequest /\ GalleryIdle.pc = "idle"
         /\ GalleryIdle.loaded = NotLoaded /\ GalleryIdle.seen = <<>> /\ GalleryIdle.cover = None
         /\ ~ Busy(GalleryIdle)
         /\ NotLoaded \in ProductRows /\ NotLoaded.version = 0 /\ NotLoaded.cover = None
         /\ RequestFits(GalleryIdle, <<>>, table, prod, kept)
         /\ ~ NewPrimary(<<>>, table) /\ ~ Holds(<<>>, table)
<1>1. NotLoaded \in ProductRows /\ NotLoaded.version = 0 /\ NotLoaded.cover = None
  BY DEF NotLoaded, ProductRow, ProductRows, Covers
<1>2. GalleryIdle \in GalleryRequest /\ GalleryIdle.pc = "idle"
  BY <1>1, NothingWritten DEF GalleryIdle, GalleryRequest, GalleryPCs, Covers
<1>3. GalleryIdle.loaded = NotLoaded /\ GalleryIdle.seen = <<>> /\ GalleryIdle.cover = None
  BY DEF GalleryIdle
<1>4. ~ Busy(GalleryIdle)
  BY <1>2 DEF Busy
<1>5. ~ NewPrimary(<<>>, table) /\ ~ Holds(<<>>, table) /\ WrittenFits(GalleryIdle, <<>>, table, kept)
  BY NothingWritten DEF Written, NewPrimary, Holds, WrittenFits
<1>6. ProductWritten(GalleryIdle, <<>>, prod)
  BY NothingWritten DEF ProductWritten
<1>7. LoadedFits(GalleryIdle, table, prod)
  BY <1>1, <1>3, ImagesAreNumbers DEF LoadedFits, ProductRows
<1>8. SeenFits(GalleryIdle, table)
  BY <1>3, NothingWritten DEF SeenFits
<1>9. KindFits(GalleryIdle, <<>>, table, prod, kept)
  BY <1>2, <1>4, NothingWritten DEF KindFits
<1>10. RequestFits(GalleryIdle, <<>>, table, prod, kept)
  BY <1>2, <1>5, <1>6, <1>7, <1>8, <1>9, NothingWritten DEF RequestFits
<1>11. QED
  BY <1>1, <1>2, <1>3, <1>4, <1>5, <1>10

(* The invariant holds when no image was ever uploaded.                    *)
LEMMA GalleryStart ==
  ASSUME GalleryInit
  PROVE  GalleryInv
<1>1. /\ image \in [Images -> ImageRows]
      /\ \A a \in Images : image[a].state = "none" /\ image[a].version = 0
  BY DEF GalleryInit, ImageRow, ImageRows
<1>2. product \in ProductRows /\ product.version = 1 /\ product.cover = None
  BY DEF GalleryInit, ProductRow, ProductRows, Covers
<1>3. files \in [Images -> FileStates] /\ \A a \in Images : files[a] = "none"
  BY DEF GalleryInit, FileStates
<1>4. gdraft \in [Workers -> GalleryDrafts] /\ \A w \in Workers : gdraft[w] = <<>>
  BY NothingWritten DEF GalleryInit
<1>6. product.version >= 1
  BY <1>2
<1>5. greq \in [Workers -> GalleryRequest] /\ \A w \in Workers : greq[w] = GalleryIdle
  BY <1>2, <1>6, IdleGallery DEF GalleryInit
<1>7. \A w \in Workers : RequestFits(greq[w], gdraft[w], image, product, files)
  BY <1>2, <1>4, <1>5, <1>6, IdleGallery
<1>8. \A w \in Workers : WriterHolds(w) /\ LastAlone(w)
  BY <1>2, <1>4, <1>5, <1>6, IdleGallery DEF WriterHolds, LastAlone, LastOne
<1>9. RowsApart /\ UploadsApart
  BY <1>2, <1>4, <1>5, <1>6, NothingWritten, IdleGallery DEF RowsApart, UploadsApart, UploadOf
<1>10. SinglePrimary(image)
  BY <1>1 DEF SinglePrimary, IsPrimary
<1>11. TableFits(image, product, files)
  BY <1>1, <1>2, <1>3, ImagesAreNumbers DEF TableFits, CoverFits
<1>12. QED
  BY <1>1, <1>2, <1>3, <1>4, <1>5, <1>7, <1>8, <1>9, <1>10, <1>11 DEF GalleryInv, GalleryTyped

(* What a commit may make of the rows that others go by.                   *)
Later(table, after, prod, next) ==
  /\ \A a \in Images : after[a] # table[a] =>
       /\ after[a].state # "none" /\ table[a].state # "deleted"
       /\ table[a].version <= after[a].version
       /\ after[a].version = table[a].version =>
            /\ after[a].state = table[a].state
            /\ IsPrimary(after[a]) => IsPrimary(table[a])
            /\ IsPrimary(table[a]) => IsPrimary(after[a]) \/ prod.version < next.version
  /\ prod.version <= next.version
  /\ next.version = prod.version => next = prod

(* Versions that were seen stay versions that were seen.                   *)
LEMMA SeenStillFits ==
  ASSUME NEW old \in ImageRows, NEW new \in ImageRows, NEW n \in Nat,
         n <= old.version, n = old.version => old.state = "live", old.state # "none",
         new # old => /\ new.state # "none" /\ old.version <= new.version
                      /\ new.version = old.version => new.state = old.state
  PROVE  /\ new.state # "none" /\ n <= new.version
         /\ n = new.version => new.state = "live" /\ n = old.version
BY DEF ImageRows

(* What others commit changes nothing of what a handler goes by.           *)
LEMMA OthersFit ==
  ASSUME NEW table \in [Images -> ImageRows], NEW after \in [Images -> ImageRows],
         NEW prod \in ProductRows, NEW next \in ProductRows, NEW kept, NEW now,
         NEW r, NEW d, RequestFits(r, d, table, prod, kept),
         \A a \in Written(d) : after[a] = table[a],
         0 \in DOMAIN d => next = prod,
         \A a \in Images : UploadOf(r, a) => after[a] = table[a],
         Later(table, after, prod, next),
         \A a \in Images : kept[a] = "stored" => now[a] = "stored" \/ table[a].state = "deleted"
  PROVE  RequestFits(r, d, after, next, now)
<1>1. /\ r \in GalleryRequest /\ d \in GalleryDrafts /\ WrittenFits(r, d, table, kept)
      /\ ProductWritten(r, d, prod) /\ LoadedFits(r, table, prod) /\ SeenFits(r, table)
      /\ KindFits(r, d, table, prod, kept)
  BY DEF RequestFits
<1>2. Written(d) \subseteq Images
  BY <1>1, WrittenImages
<1>3. WrittenFits(r, d, after, now)
  BY <1>1, <1>2 DEF WrittenFits, Cleared
<1>4. ProductWritten(r, d, next)
  BY <1>1 DEF ProductWritten
<1>5. LoadedFits(r, after, next)
  <2>1. r.loaded.version \in Nat /\ prod.version \in Nat /\ next.version \in Nat
    BY <1>1 DEF GalleryRequest, ProductRows
  <2>2. r.loaded.version <= next.version
    BY <1>1, <2>1 DEF LoadedFits, Later
  <2>3. r.loaded.version = next.version => r.loaded.cover = next.cover
    BY <1>1, <2>1 DEF LoadedFits, Later
  <2>4. r.loaded.cover \in Images => after[r.loaded.cover].state # "none"
    BY <1>1 DEF LoadedFits, Later
  <2>5. QED
    BY <2>2, <2>3, <2>4 DEF LoadedFits
<1>6. \A a \in DOMAIN r.seen : a \in Images /\ r.seen[a] \in Nat
  BY <1>1 DEF GalleryRequest, Versions
<1>7. ASSUME NEW a \in DOMAIN r.seen
      PROVE  /\ after[a].state # "none" /\ r.seen[a] <= after[a].version
             /\ r.seen[a] = after[a].version =>
                  after[a].state = "live" /\ r.seen[a] = table[a].version
  <2>1. /\ table[a].state # "none" /\ r.seen[a] <= table[a].version
        /\ r.seen[a] = table[a].version => table[a].state = "live"
    BY <1>1 DEF SeenFits
  <2>2. after[a] # table[a] =>
          /\ after[a].state # "none" /\ table[a].version <= after[a].version
          /\ after[a].version = table[a].version => after[a].state = table[a].state
    BY <1>6 DEF Later
  <2>3. table[a] \in ImageRows /\ after[a] \in ImageRows /\ r.seen[a] \in Nat
    BY <1>6
  <2>4. QED
    BY <2>1, <2>2, <2>3, SeenStillFits
<1>8. SeenFits(r, after)
  BY <1>7 DEF SeenFits
<1>9. \A a \in Images : table[a].state # "none" => after[a].state # "none"
  BY DEF Later
<1>10. ASSUME Busy(r), r.kind = "upload"
       PROVE  UploadFits(r, d, after, now)
  <2>1. UploadFits(r, d, table, kept)
    BY <1>1, <1>10 DEF KindFits
  <2>2. r.pc # "upload" => after[r.row] = table[r.row] /\ now[r.row] = "stored"
    BY <1>10, <2>1 DEF UploadFits, UploadOf
  <2>3. \A a \in DOMAIN d : a # 0 => after[a] = table[a]
    BY DEF Written
  <2>4. \A a \in DOMAIN d : a # 0 /\ Cleared(d, table, a) => Cleared(d, after, a)
    BY <2>3 DEF Cleared
  <2>5. QED
    BY <2>1, <2>2, <2>4 DEF UploadFits
<1>11. ASSUME Busy(r), r.kind = "reorder"
       PROVE  ReorderFits(r, d, after)
  <2>1. ReorderFits(r, d, table)
    BY <1>1, <1>11 DEF KindFits
  <2>2. \A a \in DOMAIN d : a # 0 => after[a] = table[a]
    BY DEF Written
  <2>3. QED
    BY <2>1, <2>2 DEF ReorderFits
<1>12. ASSUME Busy(r), r.kind = "delete"
       PROVE  DeleteFits(r, d, after, next)
  <2>1. DeleteFits(r, d, table, prod)
    BY <1>1, <1>12 DEF KindFits
  <2>2. PICK a \in Images : a = r.row
    BY <2>1 DEF DeleteFits
  <2>3. a \in DOMAIN d => after[a] = table[a]
    BY ImagesAreNumbers DEF Written
  <2>4. Overtaken(r, prod) => Overtaken(r, next)
    BY <1>1 DEF Overtaken, Later, GalleryRequest, ProductRows
  <2>5. r.pc = "softDelete" /\ r.seen[a] = after[a].version =>
            /\ r.primary => IsPrimary(after[a]) \/ Overtaken(r, next)
            /\ ~ r.primary => ~ IsPrimary(after[a])
    <3>1. SUFFICES ASSUME r.pc = "softDelete", r.seen[a] = after[a].version
                   PROVE  /\ r.primary => IsPrimary(after[a]) \/ Overtaken(r, next)
                          /\ ~ r.primary => ~ IsPrimary(after[a])
      OBVIOUS
    <3>2. a \in DOMAIN r.seen
      BY <2>1, <2>2, <3>1 DEF DeleteFits
    <3>3. r.seen[a] = table[a].version
      BY <1>7, <3>1, <3>2
    <3>4. /\ r.primary => IsPrimary(table[a]) \/ Overtaken(r, prod)
          /\ ~ r.primary => ~ IsPrimary(table[a])
      BY <2>1, <2>2, <3>1, <3>3 DEF DeleteFits
    <3>5. /\ IsPrimary(after[a]) => IsPrimary(table[a])
          /\ IsPrimary(table[a]) => IsPrimary(after[a]) \/ prod.version < next.version
      BY <3>1, <3>3 DEF Later
    <3>6. prod.version < next.version => Overtaken(r, next)
      BY <1>1 DEF Overtaken, LoadedFits, GalleryRequest, ProductRows
    <3>7. QED
      BY <2>4, <3>4, <3>5, <3>6
  <2>6. r.pc = "list" => IsPrimary(after[a]) \/ Overtaken(r, next)
    BY <2>1, <2>2, <2>3, <2>4 DEF DeleteFits
  <2>7. QED
    BY <1>9, <2>1, <2>2, <2>3, <2>4, <2>5, <2>6 DEF DeleteFits
<1>13. r.pc = "destroy" => DestroyFits(r, d, after)
  BY <1>1 DEF KindFits, DestroyFits, Later
<1>14. KindFits(r, d, after, next, now)
  BY <1>1, <1>10, <1>11, <1>12, <1>13 DEF KindFits
<1>15. QED
  BY <1>1, <1>3, <1>4, <1>5, <1>8, <1>14 DEF RequestFits

-----------------------------------------------------------------------------
(* The parts of the invariant about one handler.                           *)
LEMMA FieldsOfGallery ==
  ASSUME GalleryInv, NEW w \in Workers
  PROVE  /\ greq[w] \in GalleryRequest /\ gdraft[w] \in GalleryDrafts
         /\ RequestFits(greq[w], gdraft[w], image, product, files)
         /\ WrittenFits(greq[w], gdraft[w], image, files)
         /\ ProductWritten(greq[w], gdraft[w], product)
         /\ LoadedFits(greq[w], image, product)
         /\ SeenFits(greq[w], image)
         /\ KindFits(greq[w], gdraft[w], image, product, files)
BY DEF GalleryInv, RequestFits

(* What a handler may come to be at, having written e, and now the files.  *)
Moves(w, r, e, now) ==
  /\ now \in [Images -> FileStates]
  /\ \A a \in Images : files[a] = "stored" => now[a] = "stored" \/ image[a].state = "deleted"
  /\ TableFits(image, product, now)
  /\ RequestFits(r, e, image, product, now)
  /\ \A v \in Workers \ {w} : DOMAIN e \cap DOMAIN gdraft[v] = {}
  /\ \A a \in Images : UploadOf(r, a) => UploadOf(greq[w], a) \/ files[a] = "none"
  /\ r.loaded \in {greq[w].loaded, NotLoaded, product}
  /\ LastOne(r, product) =>
       \/ LastOne(greq[w], product) /\ r.row = greq[w].row
       \/ LiveImages(image) \subseteq {r.row}
  /\ NewPrimary(e, image) =>
       /\ r.pc \in {"cover", "commit"} /\ Sole(e, image)
       /\ \A v \in Workers \ {w} : ~ Holds(gdraft[v], image)
  /\ \A v \in Workers \ {w} : NewPrimary(gdraft[v], image) => ~ Holds(e, image)

(* One handler moves or writes, and commits nothing.                       *)
LEMMA OneMoves ==
  ASSUME GalleryInv, NEW w \in Workers, NEW r, NEW e,
         greq' = [greq EXCEPT ![w] = r], gdraft' = [gdraft EXCEPT ![w] = e],
         image' = image, product' = product, Moves(w, r, e, files')
  PROVE  GalleryInv'
<1> USE DEF Moves
<1>1. r \in GalleryRequest /\ e \in GalleryDrafts
  BY DEF RequestFits
<1>2. /\ greq' \in [Workers -> GalleryRequest] /\ greq'[w] = r
      /\ \A v \in Workers \ {w} : greq'[v] = greq[v]
  BY <1>1 DEF GalleryInv, GalleryTyped
<1>3. /\ gdraft' \in [Workers -> GalleryDrafts] /\ gdraft'[w] = e
      /\ \A v \in Workers \ {w} : gdraft'[v] = gdraft[v]
  BY <1>1 DEF GalleryInv, GalleryTyped
<1>4. GalleryTyped'
  BY <1>2, <1>3 DEF GalleryInv, GalleryTyped
<1>5. image \in [Images -> ImageRows] /\ product \in ProductRows
  BY DEF GalleryInv, GalleryTyped
<1>6. ASSUME NEW v \in Workers PROVE RequestFits(greq'[v], gdraft'[v], image', product', files')
  <2>1. CASE v = w
    BY <1>2, <1>3, <2>1
  <2>2. CASE v # w
    <3>1. RequestFits(greq[v], gdraft[v], image, product, files)
      BY DEF GalleryInv
    <3>2. Later(image, image, product, product)
      BY <1>5 DEF Later, ProductRows
    <3>3. RequestFits(greq[v], gdraft[v], image, product, files')
      BY <1>5, <3>1, <3>2, OthersFit
    <3>4. QED
      BY <1>2, <1>3, <2>2, <3>3
  <2>3. QED
    BY <2>1, <2>2
<1>7. RowsApart'
  BY <1>3 DEF GalleryInv, RowsApart
<1>8. UploadsApart'
  <2>1. ASSUME NEW v \in Workers \ {w}, NEW a \in Images, UploadOf(greq[v], a), UploadOf(r, a)
        PROVE  FALSE
    <3>1. CASE UploadOf(greq[w], a)
      BY <2>1, <3>1 DEF GalleryInv, UploadsApart
    <3>2. CASE files[a] = "none"
      <4>1. UploadFits(greq[v], gdraft[v], image, files)
        BY <2>1, FieldsOfGallery DEF KindFits, UploadOf
      <4>2. QED
        BY <2>1, <3>2, <4>1, ImagesAreNumbers DEF UploadFits, UploadOf
    <3>3. QED
      BY <2>1, <3>1, <3>2
  <2>2. ASSUME NEW v \in Workers, NEW u \in Workers, v # u, NEW a \in Images,
               UploadOf(greq'[v], a), UploadOf(greq'[u], a)
        PROVE  FALSE
    <3>1. CASE v = w
      BY <1>2, <2>1, <2>2, <3>1
    <3>2. CASE u = w
      BY <1>2, <2>1, <2>2, <3>2
    <3>3. CASE v # w /\ u # w
      BY <1>2, <2>2, <3>3 DEF GalleryInv, UploadsApart
    <3>4. QED
      BY <3>1, <3>2, <3>3
  <2>3. QED
    BY <2>2 DEF UploadsApart
<1>9. ASSUME NEW v \in Workers PROVE WriterHolds(v)'
  <2>1. CASE v = w
    <3>1. NewPrimary(e, image) =>
            /\ r.pc \in {"cover", "commit"} /\ Sole(e, image)
            /\ \A u \in Workers \ {w} : ~ Holds(gdraft'[u], image)
      BY <1>3
    <3>2. QED
      BY <1>2, <1>3, <2>1, <3>1 DEF WriterHolds
  <2>2. CASE v # w
    <3>1. SUFFICES ASSUME NewPrimary(gdraft[v], image)
                   PROVE  /\ greq[v].pc \in {"cover", "commit"} /\ Sole(gdraft[v], image)
                          /\ \A u \in Workers \ {v} : ~ Holds(gdraft'[u], image)
      BY <1>2, <1>3, <2>2 DEF WriterHolds
    <3>2. /\ greq[v].pc \in {"cover", "commit"} /\ Sole(gdraft[v], image)
          /\ \A u \in Workers \ {v} : ~ Holds(gdraft[u], image)
      BY <3>1 DEF GalleryInv, WriterHolds
    <3>3. ~ Holds(e, image)
      BY <2>2, <3>1
    <3>4. QED
      BY <1>3, <3>2, <3>3
  <2>3. QED
    BY <2>1, <2>2
<1>10. ASSUME NEW v \in Workers PROVE LastAlone(v)'
  <2>1. SUFFICES ASSUME LastOne(greq'[v], product), NEW b \in LiveImages(image) \ {greq'[v].row}
                 PROVE  /\ ~ image[b].primary
                        /\ \A u \in Workers : greq'[u].loaded.cover # b
    BY DEF LastAlone
  <2>2. v # w \/ (LastOne(greq[w], product) /\ r.row = greq[w].row)
    BY <1>2, <2>1
  <2>3. LastOne(greq[v], product) /\ b \in LiveImages(image) \ {greq[v].row}
    BY <1>2, <2>1, <2>2
  <2>4. /\ ~ image[b].primary
        /\ \A u \in Workers : greq[u].loaded.cover # b
    BY <2>3 DEF GalleryInv, LastAlone
  <2>5. b \in Images /\ image[b].state = "live"
    BY <2>1 DEF LiveImages
  <2>6. product.cover # b
    BY <2>4, <2>5 DEF GalleryInv, TableFits, CoverFits
  <2>7. NotLoaded.cover # b
    BY <2>5, ImagesAreNumbers DEF NotLoaded, ProductRow
  <2>8. QED
    BY <1>2, <2>4, <2>6, <2>7
<1>11. QED
  BY <1>4, <1>6, <1>7, <1>8, <1>9, <1>10 DEF GalleryInv

(* A handler that writes nothing.                                          *)
LEMMA MoveKeepsGallery ==
  ASSUME GalleryInv, NEW w \in Workers, NEW r,
         GalleryGoto(w, r), UNCHANGED <<image, product, files, gdraft>>,
         RequestFits(r, gdraft[w], image, product, files),
         \A a \in Images : UploadOf(r, a) => UploadOf(greq[w], a),
         r.loaded \in {greq[w].loaded, NotLoaded, product},
         LastOne(r, product) =>
           \/ LastOne(greq[w], product) /\ r.row = greq[w].row
           \/ LiveImages(image) \subseteq {r.row},
         NewPrimary(gdraft[w], image) => r.pc \in {"cover", "commit"}
  PROVE  GalleryInv'
<1> DEFINE e == gdraft[w]
<1>1. greq' = [greq EXCEPT ![w] = r]
  BY DEF GalleryGoto
<1>2. gdraft' = [gdraft EXCEPT ![w] = e]
  BY DEF GalleryInv, GalleryTyped
<1>3. image' = image /\ product' = product /\ files' = files /\ files \in [Images -> FileStates]
  BY DEF GalleryInv, GalleryTyped
<1>4. \A v \in Workers \ {w} : DOMAIN e \cap DOMAIN gdraft[v] = {}
  BY DEF GalleryInv, RowsApart
<1>5. NewPrimary(e, image) =>
        /\ r.pc \in {"cover", "commit"} /\ Sole(e, image)
        /\ \A v \in Workers \ {w} : ~ Holds(gdraft[v], image)
  BY DEF GalleryInv, WriterHolds
<1>6. \A v \in Workers \ {w} : NewPrimary(gdraft[v], image) => ~ Holds(e, image)
  BY DEF GalleryInv, WriterHolds
<1>7. TableFits(image, product, files)
  BY DEF GalleryInv
<1>8. RequestFits(r, e, image, product, files)
  OBVIOUS
<1> HIDE DEF e
<1>9. QED
  <2>1. \A a \in Images : UploadOf(r, a) => UploadOf(greq[w], a) \/ files[a] = "none"
    OBVIOUS
  <2>2. Moves(w, r, e, files)
    BY <1>3, <1>4, <1>5, <1>6, <1>7, <1>8, <2>1 DEF Moves
  <2>3. QED
    BY <1>1, <1>2, <1>3, <2>2, OneMoves

(* A handler that gives up.                                                *)
LEMMA UndoKeepsGallery ==
  ASSUME GalleryInv, NEW w \in Workers, Undo(w), UNCHANGED <<image, product, files>>
  PROVE  GalleryInv'
<1>1. greq' = [greq EXCEPT ![w] = GalleryIdle] /\ gdraft' = [gdraft EXCEPT ![w] = <<>>]
  BY DEF Undo, GalleryGoto
<1>2. /\ image' = image /\ product' = product /\ files' = files
      /\ files \in [Images -> FileStates] /\ product \in ProductRows
      /\ TableFits(image, product, files)
  BY DEF GalleryInv, GalleryTyped
<1>3. product.version >= 1
  BY <1>2 DEF TableFits
<1>4. /\ RequestFits(GalleryIdle, <<>>, image, product, files) /\ ~ Busy(GalleryIdle)
      /\ GalleryIdle.loaded = NotLoaded
      /\ ~ NewPrimary(<<>>, image) /\ ~ Holds(<<>>, image)
  BY <1>2, <1>3, IdleGallery
<1>5. ~ LastOne(GalleryIdle, product) /\ \A a \in Images : ~ UploadOf(GalleryIdle, a)
  BY <1>4 DEF LastOne, UploadOf
<1>6. \A v \in Workers \ {w} : DOMAIN <<>> \cap DOMAIN gdraft[v] = {}
  BY NothingWritten
<1> DEFINE r == GalleryIdle
           e == <<>>
<1>7. /\ greq' = [greq EXCEPT ![w] = r] /\ gdraft' = [gdraft EXCEPT ![w] = e]
      /\ RequestFits(r, e, image, product, files) /\ r.loaded \in {greq[w].loaded, NotLoaded, product}
      /\ \A a \in Images : ~ UploadOf(r, a)
      /\ ~ LastOne(r, product) /\ ~ NewPrimary(e, image) /\ ~ Holds(e, image)
      /\ \A v \in Workers \ {w} : DOMAIN e \cap DOMAIN gdraft[v] = {}
  BY <1>1, <1>4, <1>5, <1>6
<1> HIDE DEF r, e
<1>8. Moves(w, r, e, files)
  BY <1>2, <1>7 DEF Moves
<1>9. QED
  BY <1>2, <1>7, <1>8, OneMoves

(* A handler that writes the product.                                      *)
LEMMA CoverKeepsGallery ==
  ASSUME GalleryInv, NEW w \in Workers, NEW r, NEW x \in ProductRows,
         GalleryGoto(w, r), Write(w, 0, x), UNCHANGED <<image, product, files>>,
         RequestFits(r, With(gdraft[w], 0, x), image, product, files),
         RowLockedBy(0) = {}, greq[w].pc = "cover",
         \A a \in Images : UploadOf(r, a) => UploadOf(greq[w], a),
         r.loaded = greq[w].loaded,
         LastOne(r, product) => LastOne(greq[w], product) /\ r.row = greq[w].row,
         NewPrimary(gdraft[w], image) => r.pc = "commit"
  PROVE  GalleryInv'
<1> DEFINE d == gdraft[w]
           e == With(d, 0, x)
<1>1. greq' = [greq EXCEPT ![w] = r] /\ gdraft' = [gdraft EXCEPT ![w] = e]
  BY DEF GalleryGoto, Write
<1>2. /\ image' = image /\ product' = product /\ files' = files
      /\ files \in [Images -> FileStates] /\ TableFits(image, product, files)
  BY DEF GalleryInv, GalleryTyped
<1>3. d \in GalleryDrafts
  BY FieldsOfGallery
<1>4. DOMAIN e = DOMAIN d \cup {0}
  BY DEF With
<1>5. \A b \in DOMAIN d \ {0} : e[b] = d[b]
  BY DEF With
<1>6. RequestFits(r, e, image, product, files)
  OBVIOUS
<1> HIDE DEF e
<1>7. Written(e) = Written(d) /\ \A b \in Written(d) : e[b] = d[b]
  BY <1>4, <1>5 DEF Written
<1>8. \A v \in Workers \ {w} : DOMAIN e \cap DOMAIN gdraft[v] = {}
  BY <1>4 DEF GalleryInv, RowsApart, RowLockedBy
<1>9. (NewPrimary(e, image) <=> NewPrimary(d, image)) /\ (Holds(e, image) <=> Holds(d, image))
  BY <1>7 DEF NewPrimary, Holds
<1>10. Sole(d, image) => Sole(e, image)
  BY <1>4, <1>7, ImagesAreNumbers DEF Sole
<1>11. NewPrimary(d, image) =>
         /\ Sole(d, image)
         /\ \A v \in Workers \ {w} : ~ Holds(gdraft[v], image)
  BY DEF GalleryInv, WriterHolds
<1>12. \A v \in Workers \ {w} : NewPrimary(gdraft[v], image) => ~ Holds(e, image)
  BY <1>9 DEF GalleryInv, WriterHolds
<1>13. NewPrimary(e, image) =>
         /\ r.pc \in {"cover", "commit"} /\ Sole(e, image)
         /\ \A v \in Workers \ {w} : ~ Holds(gdraft[v], image)
  BY <1>9, <1>10, <1>11
<1>14. QED
  <2>1. /\ r.loaded \in {greq[w].loaded, NotLoaded, product}
        /\ \A a \in Images : UploadOf(r, a) => UploadOf(greq[w], a) \/ files[a] = "none"
        /\ LastOne(r, product) =>
             \/ LastOne(greq[w], product) /\ r.row = greq[w].row
             \/ LiveImages(image) \subseteq {r.row}
    OBVIOUS
  <2>2. QED
    <3>1. Moves(w, r, e, files)
      BY <1>2, <1>6, <1>8, <1>12, <1>13, <2>1 DEF Moves
    <3>2. QED
      BY <1>1, <1>2, <3>1, OneMoves

(* A handler that writes an image nobody else has written.                 *)
LEMMA ImageKeepsGallery ==
  ASSUME GalleryInv, NEW w \in Workers, NEW r, NEW a \in Images, NEW x \in ImageRows,
         GalleryGoto(w, r), Write(w, a, x), UNCHANGED <<image, product, files>>,
         RequestFits(r, With(gdraft[w], a, x), image, product, files),
         \A v \in Workers \ {w} : a \notin DOMAIN gdraft[v],
         greq[w].pc \notin {"cover", "commit"},
         \A b \in Images : UploadOf(r, b) => UploadOf(greq[w], b),
         r.loaded = greq[w].loaded,
         ~ LastOne(r, product),
         IsPrimary(x) /\ ~ IsPrimary(image[a]) =>
           r.pc \in {"cover", "commit"} /\ Unique(w, a, x) /\ ~ EntryTaken(w, a, x)
  PROVE  GalleryInv'
<1> DEFINE d == gdraft[w]
           e == With(d, a, x)
<1>1. greq' = [greq EXCEPT ![w] = r] /\ gdraft' = [gdraft EXCEPT ![w] = e]
  BY DEF GalleryGoto, Write
<1>2. /\ image' = image /\ product' = product /\ files' = files
      /\ files \in [Images -> FileStates] /\ TableFits(image, product, files)
  BY DEF GalleryInv, GalleryTyped
<1>3. d \in GalleryDrafts
  BY FieldsOfGallery
<1>4. DOMAIN e = DOMAIN d \cup {a}
  BY DEF With
<1>5. e[a] = x
  BY DEF With
<1>6. \A b \in DOMAIN d \ {a} : e[b] = d[b]
  BY DEF With
<1>7. RequestFits(r, e, image, product, files)
  OBVIOUS
<1> HIDE DEF e
<1>8. \A v \in Workers \ {w} : DOMAIN e \cap DOMAIN gdraft[v] = {}
  BY <1>4 DEF GalleryInv, RowsApart
<1>9. ~ NewPrimary(d, image)
  BY DEF GalleryInv, WriterHolds
<1>10. a \in Written(e) /\ Written(e) = Written(d) \cup {a}
  BY <1>4, ImagesAreNumbers DEF Written
<1>11. \A b \in Written(e) \ {a} : b \in Written(d) /\ e[b] = d[b]
  BY <1>6, <1>10 DEF Written
<1>12. ASSUME NEW v \in Workers \ {w}, NewPrimary(gdraft[v], image)
       PROVE  ~ Holds(e, image)
  <2>1. Sole(gdraft[v], image) /\ ~ Holds(d, image)
    BY <1>12 DEF GalleryInv, WriterHolds
  <2>2. ~ IsPrimary(image[a])
    BY <2>1 DEF Sole
  <2>3. ASSUME IsPrimary(x) PROVE FALSE
    <3>1. PICK b \in Written(gdraft[v]) : IsPrimary(gdraft[v][b])
      BY <1>12 DEF NewPrimary
    <3>2. b \in DOMAIN gdraft[v] \ {0, a}
      BY <3>1 DEF Written
    <3>3. EntryTaken(w, a, x)
      BY <2>3, <3>1, <3>2 DEF EntryTaken, IsPrimary
    <3>4. QED
      BY <2>2, <2>3, <3>3
  <2>4. QED
    BY <1>5, <1>11, <2>1, <2>2, <2>3 DEF Holds
<1>13. ASSUME NewPrimary(e, image)
       PROVE  /\ r.pc \in {"cover", "commit"} /\ Sole(e, image)
              /\ \A v \in Workers \ {w} : ~ Holds(gdraft[v], image)
  <2>1. IsPrimary(x) /\ ~ IsPrimary(image[a])
    BY <1>5, <1>9, <1>11, <1>13 DEF NewPrimary
  <2>2. r.pc \in {"cover", "commit"} /\ Unique(w, a, x) /\ ~ EntryTaken(w, a, x)
    BY <2>1
  <2>3. ASSUME NEW v \in Workers \ {w}, NEW b \in Written(gdraft[v])
        PROVE  ~ IsPrimary(image[b]) /\ ~ IsPrimary(gdraft[v][b])
    <3>1. b \in DOMAIN gdraft[v] \ {0, a}
      BY <2>3 DEF Written
    <3>2. QED
      BY <2>1, <2>2, <3>1 DEF EntryTaken, IsPrimary
  <2>4. \A v \in Workers \ {w} : ~ Holds(gdraft[v], image)
    BY <2>3 DEF Holds
  <2>5. \A b \in Images \ {a} : ~ IsPrimary(ImageView(w)[b])
    BY <2>1, <2>2 DEF Unique, LiveImages, IsPrimary
  <2>6. \A b \in Written(e) \ {a} : ~ IsPrimary(e[b])
    <3>1. SUFFICES ASSUME NEW b \in Written(e) \ {a} PROVE ~ IsPrimary(e[b])
      OBVIOUS
    <3>2. b \in Images /\ b \in DOMAIN d /\ e[b] = d[b]
      BY <1>3, <1>11, WrittenImages DEF Written
    <3>3. ImageView(w)[b] = d[b]
      BY <3>2 DEF ImageView
    <3>4. QED
      BY <2>5, <3>2, <3>3
  <2>7. \A b \in Images \ DOMAIN e : ~ IsPrimary(image[b])
    <3>1. SUFFICES ASSUME NEW b \in Images \ DOMAIN e PROVE ~ IsPrimary(image[b])
      OBVIOUS
    <3>2. b \notin DOMAIN d /\ b # a
      BY <1>4
    <3>3. ImageView(w)[b] = image[b]
      BY <3>2 DEF ImageView
    <3>4. QED
      BY <2>5, <3>2, <3>3
  <2>8. Sole(e, image)
    BY <1>5, <1>10, <2>1, <2>6, <2>7 DEF Sole
  <2>9. QED
    BY <2>2, <2>4, <2>8
<1>14. QED
  <2>1. /\ r.loaded \in {greq[w].loaded, NotLoaded, product}
        /\ \A b \in Images : UploadOf(r, b) => UploadOf(greq[w], b) \/ files[b] = "none"
        /\ LastOne(r, product) =>
             \/ LastOne(greq[w], product) /\ r.row = greq[w].row
             \/ LiveImages(image) \subseteq {r.row}
    OBVIOUS
  <2>2. QED
    <3>1. Moves(w, r, e, files)
      BY <1>2, <1>7, <1>8, <1>12, <1>13, <2>1 DEF Moves
    <3>2. QED
      BY <1>1, <1>2, <3>1, OneMoves

-----------------------------------------------------------------------------
(* What is known of a draft that holds the row of an image.                *)
LEMMA WroteImage ==
  ASSUME NEW d \in GalleryDrafts, NEW a \in Images, NEW x \in ImageRows
  PROVE  /\ With(d, a, x) \in GalleryDrafts
         /\ DOMAIN With(d, a, x) = DOMAIN d \cup {a} /\ With(d, a, x)[a] = x
         /\ \A b \in DOMAIN d \ {a} : With(d, a, x)[b] = d[b]
<1>1. With(d, a, x) \in GalleryDrafts
  BY WrittenToo
<1>2. QED
  BY <1>1 DEF With

(* What is known of a draft that holds the row of the product.             *)
LEMMA WroteProduct ==
  ASSUME NEW d \in GalleryDrafts, NEW x \in ProductRows
  PROVE  /\ With(d, 0, x) \in GalleryDrafts
         /\ DOMAIN With(d, 0, x) = DOMAIN d \cup {0} /\ With(d, 0, x)[0] = x
         /\ \A b \in DOMAIN d \ {0} : With(d, 0, x)[b] = d[b]
<1>1. With(d, 0, x) \in GalleryDrafts
  BY WrittenToo
<1>2. QED
  BY <1>1 DEF With

(* A handler without a draft has made no primary.                          *)
LEMMA NothingYet ==
  ASSUME NEW r, NEW d, NEW table, NEW prod, NEW kept, DOMAIN d = {}
  PROVE  /\ WrittenFits(r, d, table, kept) /\ ProductWritten(r, d, prod)
         /\ ~ NewPrimary(d, table) /\ ~ Holds(d, table) /\ 0 \notin DOMAIN d
BY DEF WrittenFits, ProductWritten, NewPrimary, Holds, Written

(* A primary is made only by who is about to commit.                       *)
LEMMA PrimariesLate ==
  ASSUME GalleryInv, NEW w \in Workers, greq[w].pc \notin {"cover", "commit"}
  PROVE  ~ NewPrimary(gdraft[w], image)
BY DEF GalleryInv, WriterHolds

(* Which request is at a position.                                         *)
LEMMA KindOfPosition ==
  ASSUME NEW r, NEW d, NEW table, NEW prod, NEW kept, KindFits(r, d, table, prod, kept), Busy(r)
  PROVE  /\ r.pc = "edit" => r.kind = "edit"
         /\ r.pc \in {"upload", "find", "clear", "order", "insert"} => r.kind = "upload"
         /\ r.pc \in {"delete", "softDelete", "list", "promote"} => r.kind = "delete"
         /\ r.pc \in {"reorder", "aside", "arrange"} => r.kind = "reorder"
         /\ r.pc = "cover" => r.kind \in {"edit", "upload", "delete"}
         /\ r.kind = "edit" => EditsFit(r, d)
         /\ r.kind = "upload" => UploadFits(r, d, table, kept)
         /\ r.kind = "delete" => DeleteFits(r, d, table, prod)
         /\ r.kind = "reorder" => ReorderFits(r, d, table)
         /\ r.pc \in {"upload", "find", "clear"} => DOMAIN d = {}
         /\ r.pc = "cover" => 0 \notin DOMAIN d
         /\ r.kind \in GalleryKinds
<1>1. r.kind \in {"edit", "upload", "delete", "reorder"}
  BY DEF KindFits, GalleryKinds
<1>2. /\ r.kind = "edit" => EditsFit(r, d)
      /\ r.kind = "upload" => UploadFits(r, d, table, kept)
      /\ r.kind = "delete" => DeleteFits(r, d, table, prod)
      /\ r.kind = "reorder" => ReorderFits(r, d, table)
  BY DEF KindFits
<1>3. /\ r.kind = "edit" => r.pc \in {"edit", "cover", "commit"}
      /\ r.kind = "upload" =>
           r.pc \in {"upload", "find", "clear", "order", "insert", "cover", "commit"}
      /\ r.kind = "delete" =>
           r.pc \in {"delete", "softDelete", "list", "cover", "promote", "commit"}
      /\ r.kind = "reorder" => r.pc \in {"reorder", "aside", "arrange", "commit"}
  BY <1>2 DEF EditsFit, UploadFits, DeleteFits, ReorderFits
<1>4. /\ r.pc \in {"upload", "find", "clear"} => DOMAIN d = {}
      /\ r.pc = "cover" => 0 \notin DOMAIN d
  BY DEF KindFits
<1>5. QED
  BY <1>1, <1>2, <1>3, <1>4 DEF GalleryKinds

(* Each action but Commit keeps the invariant. LoadProduct:                *)
LEMMA LoadProductKeeps ==
  ASSUME GalleryInv, NEW w \in Workers, NEW kind \in GalleryKinds,
         NEW a \in Images \cup {None}, LoadProduct(w, kind, a)
  PROVE  GalleryInv'
<1> DEFINE d == gdraft[w]
           p == IF kind = "reorder" THEN NotLoaded ELSE product
           r == [GalleryIdle EXCEPT !.pc = kind, !.kind = kind, !.row = a, !.loaded = p]
<1>1. product \in ProductRows /\ product.version >= 1 /\ CoverFits(image, product)
  BY DEF GalleryInv, GalleryTyped, TableFits
<1>2. /\ GalleryIdle \in GalleryRequest /\ GalleryIdle.loaded = NotLoaded
      /\ GalleryIdle.seen = <<>> /\ GalleryIdle.cover = None
      /\ NotLoaded \in ProductRows /\ NotLoaded.version = 0 /\ NotLoaded.cover = None
  BY <1>1, IdleGallery
<1>3. DOMAIN d = {} /\ d \in GalleryDrafts
  BY FieldsOfGallery DEF KindFits, LoadProduct, At
<1>4. p \in {product, NotLoaded} /\ p \in ProductRows
  BY <1>1, <1>2
<1>5. GalleryGoto(w, r) /\ UNCHANGED <<image, product, files, gdraft>>
  BY <1>2 DEF LoadProduct
<1>6. /\ r \in GalleryRequest /\ r.pc = kind /\ r.kind = kind /\ r.row = a /\ r.loaded = p
      /\ r.seen = <<>> /\ r.cover = None
  BY <1>2, <1>4 DEF GalleryRequest, GalleryKinds, GalleryPCs
<1>7. kind = "delete" => a \in Images /\ image[a].state # "none"
  BY DEF LoadProduct
<1>8. kind # "delete" => a = None
  BY DEF LoadProduct
<1> HIDE DEF r, p
<1>9. LoadedFits(r, image, product)
  <2>1. CASE p = product
    BY <1>1, <1>6, <2>1 DEF LoadedFits, ProductRows, CoverFits
  <2>2. CASE p = NotLoaded
    BY <1>1, <1>2, <1>6, <2>2, ImagesAreNumbers DEF LoadedFits, ProductRows
  <2>3. QED
    BY <1>4, <2>1, <2>2
<1>10. SeenFits(r, image)
  BY <1>6, NothingWritten DEF SeenFits
<1>11. KindFits(r, d, image, product, files)
  <2>1. r.pc = kind /\ kind \in {"edit", "upload", "delete", "reorder"}
    BY <1>6 DEF GalleryKinds
  <2>2. kind = "edit" => EditsFit(r, d)
    BY <1>3, <1>6 DEF EditsFit
  <2>3. kind = "upload" => UploadFits(r, d, image, files)
    BY <1>6, <1>8 DEF UploadFits
  <2>4. kind = "delete" => DeleteFits(r, d, image, product)
    BY <1>3, <1>6, <1>7 DEF DeleteFits
  <2>5. kind = "reorder" => ReorderFits(r, d, image)
    BY <1>3, <1>6 DEF ReorderFits
  <2>6. QED
    BY <1>3, <1>6, <2>1, <2>2, <2>3, <2>4, <2>5 DEF KindFits, GalleryKinds
<1>12. RequestFits(r, d, image, product, files)
  BY <1>3, <1>6, <1>9, <1>10, <1>11, NothingYet DEF RequestFits
<1>13. \A b \in Images : ~ UploadOf(r, b)
  BY <1>6, <1>8, ImagesAreNumbers DEF UploadOf
<1>14. ~ LastOne(r, product) /\ r.loaded \in {greq[w].loaded, NotLoaded, product}
  BY <1>4, <1>6 DEF LastOne, GalleryKinds
<1>15. ~ NewPrimary(d, image)
  BY <1>3, NothingYet
<1>16. QED
  BY <1>5, <1>12, <1>13, <1>14, <1>15, MoveKeepsGallery

(* EditProduct, before anything is written.                                *)
LEMMA EditProductKeeps ==
  ASSUME GalleryInv, NEW w \in Workers, EditProduct(w)
  PROVE  GalleryInv'
<1> DEFINE d == gdraft[w]
<1>1. /\ greq[w] \in GalleryRequest /\ d \in GalleryDrafts
      /\ LoadedFits(greq[w], image, product) /\ SeenFits(greq[w], image)
      /\ KindFits(greq[w], d, image, product, files)
  BY FieldsOfGallery
<1>2. greq[w].pc = "edit" /\ greq[w].kind = "edit"
  BY <1>1, KindOfPosition DEF EditProduct, At, Busy
<1>3. DOMAIN d = {}
  BY <1>1, <1>2 DEF KindFits, EditsFit, Busy, GalleryKinds
<1>4. PICK c \in {greq[w].loaded.cover, Chosen} :
        GalleryGoto(w, [greq[w] EXCEPT !.pc = "cover", !.cover = c])
  BY DEF EditProduct
<1>5. c \in Covers
  BY <1>1 DEF GalleryRequest, ProductRows, Covers
<1>6. PICK r : r = [greq[w] EXCEPT !.pc = "cover", !.cover = c]
  OBVIOUS
<1>7. /\ r \in GalleryRequest /\ r.pc = "cover" /\ r.kind = "edit" /\ r.cover = c
      /\ r.loaded = greq[w].loaded /\ r.seen = greq[w].seen /\ r.row = greq[w].row
  BY <1>1, <1>2, <1>5, <1>6 DEF GalleryRequest, GalleryPCs
<1>8. LoadedFits(r, image, product) /\ SeenFits(r, image)
  BY <1>1, <1>7 DEF LoadedFits, SeenFits
<1>9. EditsFit(r, d)
  BY <1>3, <1>4, <1>7 DEF EditsFit
<1>10. KindFits(r, d, image, product, files)
  BY <1>3, <1>7, <1>9 DEF KindFits, GalleryKinds
<1>11. RequestFits(r, d, image, product, files)
  BY <1>1, <1>3, <1>7, <1>8, <1>10, NothingYet DEF RequestFits
<1>12. (\A b \in Images : ~ UploadOf(r, b)) /\ ~ LastOne(r, product) /\ ~ NewPrimary(d, image)
  BY <1>3, <1>7, NothingYet DEF UploadOf, LastOne
<1>13. GalleryGoto(w, r) /\ UNCHANGED <<image, product, files, gdraft>>
  BY <1>4, <1>6 DEF EditProduct
<1>14. QED
  BY <1>7, <1>11, <1>12, <1>13, MoveKeepsGallery

(* StoreFile: the number it takes is free for the upload.                  *)
LEMMA StoreFileKeeps ==
  ASSUME GalleryInv, NEW w \in Workers, NEW wanted \in BOOLEAN, StoreFile(w, wanted)
  PROVE  GalleryInv'
<1> DEFINE d == gdraft[w]
<1>1. /\ greq[w] \in GalleryRequest /\ d \in GalleryDrafts
      /\ LoadedFits(greq[w], image, product) /\ SeenFits(greq[w], image)
      /\ KindFits(greq[w], d, image, product, files)
  BY FieldsOfGallery
<1>2. greq[w].pc = "upload"
  BY DEF StoreFile, At
<1>3. greq[w].kind = "upload" /\ DOMAIN d = {}
  BY <1>1, <1>2, KindOfPosition DEF Busy
<1>4. PICK first \in BOOLEAN : first <=> (wanted \/ Cardinality(LiveImages(image)) = 0)
  BY Zenon
<1>5. PICK a \in Images :
        /\ \A b \in Images : files[b] = "none" <=> b >= a
        /\ files' = [files EXCEPT ![a] = "stored"]
        /\ GalleryGoto(w, [greq[w] EXCEPT
             !.pc = IF wanted \/ Cardinality(LiveImages(image)) = 0 THEN "find" ELSE "order",
             !.row = a, !.primary = (wanted \/ Cardinality(LiveImages(image)) = 0),
             !.loaded = IF wanted \/ Cardinality(LiveImages(image)) = 0 THEN @ ELSE NotLoaded])
  BY DEF StoreFile
<1>6. PICK r : r = [greq[w] EXCEPT !.pc = IF first THEN "find" ELSE "order", !.row = a,
                       !.primary = first, !.loaded = IF first THEN @ ELSE NotLoaded]
  OBVIOUS
<1>7. GalleryGoto(w, r)
  BY <1>4, <1>5, <1>6, Zenon
<1>8. /\ product \in ProductRows /\ product.version >= 1 /\ TableFits(image, product, files)
      /\ image \in [Images -> ImageRows] /\ files \in [Images -> FileStates]
  BY DEF GalleryInv, GalleryTyped, TableFits
<1>9. NotLoaded \in ProductRows /\ NotLoaded.version = 0 /\ NotLoaded.cover = None
  BY <1>8, IdleGallery
<1>10. /\ r \in GalleryRequest /\ r.kind = "upload" /\ r.row = a /\ r.seen = greq[w].seen
       /\ r.loaded \in {greq[w].loaded, NotLoaded}
       /\ r.pc \in {"find", "order"}
  BY <1>1, <1>3, <1>6, <1>9 DEF GalleryRequest, GalleryPCs
<1>11. r.pc = "find" => r.primary
  BY <1>1, <1>6 DEF GalleryRequest
<1>12. /\ files[a] = "none" /\ image[a].state = "none"
       /\ files' \in [Images -> FileStates] /\ files'[a] = "stored"
       /\ \A b \in Images \ {a} : files'[b] = files[b]
  <2>1. a \in Nat
    BY ImagesAreNumbers
  <2>2. files[a] = "none"
    BY <1>5, <2>1
  <2>3. QED
    BY <1>5, <1>8, <2>2 DEF TableFits, FileStates
<1>13. TableFits(image, product, files')
  BY <1>8, <1>12 DEF TableFits
<1>14. LoadedFits(r, image, product)
  <2>1. CASE r.loaded = greq[w].loaded
    BY <1>1, <2>1 DEF LoadedFits
  <2>2. CASE r.loaded = NotLoaded
    BY <1>8, <1>9, <2>2, ImagesAreNumbers DEF LoadedFits, ProductRows
  <2>3. QED
    BY <1>10, <2>1, <2>2
<1>15. SeenFits(r, image)
  BY <1>1, <1>10 DEF SeenFits
<1>16. UploadFits(r, d, image, files')
  BY <1>3, <1>10, <1>11, <1>12 DEF UploadFits
<1>17. KindFits(r, d, image, product, files')
  BY <1>3, <1>10, <1>16 DEF KindFits, GalleryKinds
<1>18. RequestFits(r, d, image, product, files')
  BY <1>1, <1>3, <1>10, <1>14, <1>15, <1>17, NothingYet DEF RequestFits
<1>19. /\ \A b \in Images : UploadOf(r, b) => files[b] = "none"
       /\ ~ LastOne(r, product) /\ ~ NewPrimary(d, image) /\ ~ Holds(d, image)
  BY <1>3, <1>10, <1>12, NothingYet DEF UploadOf, LastOne
<1>20. PICK now : now = files'
  OBVIOUS
<1>21. Moves(w, r, d, now)
  <2>1. \A b \in Images : files[b] = "stored" => now[b] = "stored"
    BY <1>12, <1>20
  <2>2. r.loaded \in {greq[w].loaded, NotLoaded, product}
    BY <1>10
  <2>3. QED
    BY <1>3, <1>12, <1>13, <1>18, <1>19, <1>20, <2>1, <2>2 DEF Moves
<1>22. gdraft' = [gdraft EXCEPT ![w] = d] /\ image' = image /\ product' = product
  BY DEF StoreFile, GalleryInv, GalleryTyped
<1>23. greq' = [greq EXCEPT ![w] = r]
  BY <1>7 DEF GalleryGoto
<1>24. QED
  BY <1>20, <1>21, <1>22, <1>23, OneMoves
(* FindPrimary, of an upload to be the primary.                            *)
LEMMA FindPrimaryKeeps ==
  ASSUME GalleryInv, NEW w \in Workers, FindPrimary(w)
  PROVE  GalleryInv'
<1> DEFINE d == gdraft[w]
<1>1. /\ greq[w] \in GalleryRequest /\ d \in GalleryDrafts
      /\ LoadedFits(greq[w], image, product) /\ SeenFits(greq[w], image)
      /\ KindFits(greq[w], d, image, product, files)
  BY FieldsOfGallery
<1>2. greq[w].pc = "find"
  BY DEF FindPrimary, At
<1>3. greq[w].kind = "upload" /\ DOMAIN d = {} /\ UploadFits(greq[w], d, image, files)
  BY <1>1, <1>2, KindOfPosition DEF Busy
<1>4. PICK r : /\ GalleryGoto(w, r)
               /\ \/ r = [greq[w] EXCEPT !.pc = "order"]
                  \/ \E t \in SUBSET Images : r = [greq[w] EXCEPT !.pc = "clear", !.todo = t]
  <2>1. CASE Primaries(image) = {}
    BY <2>1 DEF FindPrimary, Step
  <2>2. CASE Primaries(image) # {}
    <3>1. PICK a \in Primaries(image) : GalleryGoto(w, [greq[w] EXCEPT !.pc = "clear", !.todo = {a}])
      BY <2>2 DEF FindPrimary
    <3>2. PICK t : t = {a}
      OBVIOUS
    <3>3. t \in SUBSET Images
      BY <3>1, <3>2 DEF Primaries, LiveImages
    <3>4. QED
      BY <3>1, <3>2, <3>3
  <2>3. QED
    BY <2>1, <2>2
<1>5. /\ r \in GalleryRequest /\ r.pc \in {"order", "clear"} /\ r.kind = "upload"
      /\ r.row = greq[w].row /\ r.primary = greq[w].primary
      /\ r.loaded = greq[w].loaded /\ r.seen = greq[w].seen
  <2>1. CASE r = [greq[w] EXCEPT !.pc = "order"]
    BY <1>1, <1>3, <2>1 DEF GalleryRequest, GalleryPCs
  <2>2. CASE \E t \in SUBSET Images : r = [greq[w] EXCEPT !.pc = "clear", !.todo = t]
    BY <1>1, <1>3, <2>2 DEF GalleryRequest, GalleryPCs
  <2>3. QED
    BY <1>4, <2>1, <2>2
<1>6. LoadedFits(r, image, product) /\ SeenFits(r, image)
  BY <1>1, <1>5 DEF LoadedFits, SeenFits
<1>7. UploadFits(r, d, image, files)
  BY <1>2, <1>3, <1>5 DEF UploadFits
<1>8. KindFits(r, d, image, product, files)
  BY <1>3, <1>5, <1>7 DEF KindFits, GalleryKinds
<1>9. RequestFits(r, d, image, product, files)
  BY <1>1, <1>3, <1>5, <1>6, <1>8, NothingYet DEF RequestFits
<1>10. /\ \A b \in Images : UploadOf(r, b) => UploadOf(greq[w], b)
       /\ ~ LastOne(r, product) /\ ~ NewPrimary(d, image)
  BY <1>2, <1>3, <1>5, NothingYet DEF UploadOf, LastOne, Busy
<1>11. UNCHANGED <<image, product, files, gdraft>>
  BY DEF FindPrimary
<1>12. QED
  BY <1>4, <1>5, <1>9, <1>10, <1>11, MoveKeepsGallery

(* ClearPrimary: the one it found is the primary still, or is left.        *)
LEMMA ClearPrimaryKeeps ==
  ASSUME GalleryInv, NEW w \in Workers, ClearPrimary(w)
  PROVE  GalleryInv'
<1> DEFINE d == gdraft[w]
<1>1. /\ greq[w] \in GalleryRequest /\ d \in GalleryDrafts
      /\ LoadedFits(greq[w], image, product) /\ SeenFits(greq[w], image)
      /\ KindFits(greq[w], d, image, product, files)
  BY FieldsOfGallery
<1>2. greq[w].pc = "clear"
  BY DEF ClearPrimary, At
<1>3. greq[w].kind = "upload" /\ DOMAIN d = {} /\ UploadFits(greq[w], d, image, files)
  BY <1>1, <1>2, KindOfPosition DEF Busy
<1>4. PICK r : r = [greq[w] EXCEPT !.pc = "order", !.todo = {}]
  OBVIOUS
<1>5. /\ r \in GalleryRequest /\ r.pc = "order" /\ r.kind = "upload"
      /\ r.row = greq[w].row /\ r.primary = greq[w].primary
      /\ r.loaded = greq[w].loaded /\ r.seen = greq[w].seen
  BY <1>1, <1>3, <1>4 DEF GalleryRequest, GalleryPCs
<1>6. LoadedFits(r, image, product) /\ SeenFits(r, image)
  BY <1>1, <1>5 DEF LoadedFits, SeenFits
<1>7. GalleryGoto(w, r) /\ UNCHANGED <<image, product, files>>
  BY <1>4 DEF ClearPrimary
<1>8. /\ \A b \in Images : UploadOf(r, b) => UploadOf(greq[w], b)
      /\ ~ LastOne(r, product) /\ ~ NewPrimary(d, image)
  BY <1>2, <1>3, <1>5, NothingYet DEF UploadOf, LastOne, Busy
<1>9. PICK a \in greq[w].todo :
        /\ RowLockedBy(a) = {}
        /\ IF a \in Primaries(image)
             THEN Write(w, a, [image[a] EXCEPT !.primary = FALSE])
             ELSE UNCHANGED gdraft
  BY DEF ClearPrimary
<1>10. CASE a \notin Primaries(image)
  <2>1. UploadFits(r, d, image, files)
    BY <1>2, <1>3, <1>5 DEF UploadFits
  <2>2. KindFits(r, d, image, product, files)
    BY <1>3, <1>5, <2>1 DEF KindFits, GalleryKinds
  <2>3. RequestFits(r, d, image, product, files)
    BY <1>1, <1>3, <1>5, <1>6, <2>2, NothingYet DEF RequestFits
  <2>4. UNCHANGED <<image, product, files, gdraft>>
    BY <1>7, <1>9, <1>10
  <2>5. QED
    BY <1>5, <1>7, <1>8, <2>3, <2>4, MoveKeepsGallery
<1>11. CASE a \in Primaries(image)
  <2>1. /\ a \in Images /\ IsPrimary(image[a]) /\ image[a] \in ImageRows
        /\ files[a] = "stored"
    BY <1>11 DEF Primaries, LiveImages, IsPrimary, GalleryInv, GalleryTyped, TableFits
  <2>2. PICK x : x = [image[a] EXCEPT !.primary = FALSE]
    OBVIOUS
  <2>3. /\ x \in ImageRows /\ x.state = "live" /\ x.primary = FALSE
        /\ x.version = image[a].version /\ image[a].state = "live"
    BY <2>1, <2>2 DEF ImageRows, IsPrimary
  <2>4. Write(w, a, x)
    BY <1>9, <1>11, <2>2
  <2>5. PICK e : e = With(d, a, x)
    OBVIOUS
  <2>6. /\ DOMAIN e = {a} /\ e[a] = x /\ e \in GalleryDrafts /\ a # 0
    <3>1. DOMAIN e = DOMAIN d \cup {a} /\ e[a] = x /\ e \in GalleryDrafts
      BY <1>1, <2>1, <2>3, <2>5, WroteImage
    <3>2. QED
      BY <1>3, <2>1, <3>1, ImagesAreNumbers
  <2>7. Cleared(e, image, a) /\ r.primary /\ a # r.row
    BY <1>2, <1>3, <1>5, <2>1, <2>2, <2>3, <2>6 DEF Cleared, UploadFits
  <2>8. WrittenFits(r, e, image, files)
    BY <1>5, <2>1, <2>3, <2>6, <2>7 DEF WrittenFits, Written, ImageRows
  <2>9. ProductWritten(r, e, product) /\ 0 \notin DOMAIN e
    BY <2>6 DEF ProductWritten
  <2>10. UploadFits(r, e, image, files)
    BY <1>2, <1>3, <1>5, <2>6, <2>7 DEF UploadFits
  <2>11. KindFits(r, e, image, product, files)
    BY <1>5, <2>10 DEF KindFits, GalleryKinds
  <2>12. RequestFits(r, e, image, product, files)
    BY <1>5, <1>6, <2>6, <2>8, <2>9, <2>11 DEF RequestFits
  <2>13. \A v \in Workers \ {w} : a \notin DOMAIN gdraft[v]
    BY <1>9 DEF RowLockedBy
  <2>14. greq[w].pc \notin {"cover", "commit"} /\ ~ IsPrimary(x)
    BY <1>2, <2>3 DEF IsPrimary
  <2>15. RequestFits(r, With(gdraft[w], a, x), image, product, files)
    BY <2>5, <2>12
  <2>16. QED
    BY <1>5, <1>7, <1>8, <2>1, <2>3, <2>4, <2>13, <2>14, <2>15, ImageKeepsGallery
<1>12. QED
  BY <1>10, <1>11

(* Of some images one has the least number.                                *)
LEMMA LeastImage ==
  ASSUME NEW T, T \subseteq Nat, T # {}
  PROVE  \E k \in T : \A j \in T : k <= j
<1> DEFINE R == OpToRel(<, Nat)
<1>1. IsWellFoundedOn(R, Nat)
  BY NatLessThanWellFounded
<1>2. \A i, j \in Nat : i < j => <<i, j>> \in R
  BY DEF OpToRel
<1> HIDE DEF R
<1>3. PICK k \in T : \A j \in T : ~ (<<j, k>> \in R)
  BY <1>1, WFMin, Zenon
<1>4. ASSUME NEW j \in T PROVE k <= j
  <2>1. k \in Nat /\ j \in Nat /\ ~ (j < k)
    BY <1>2, <1>3
  <2>2. QED
    BY <2>1
<1>5. QED
  BY <1>4

(* Orders up to image k.                                                   *)
OrdersTo(table, k) == {-1} \cup {table[a].order : a \in {b \in LiveImages(table) : b <= k}}

HasLast(table, k) == \E x \in OrdersTo(table, k) : \A y \in OrdersTo(table, k) : x >= y

(* Of the display orders there is a last one.                              *)
LEMMA OrdersHaveLast ==
  ASSUME NEW table \in [Images -> ImageRows]
  PROVE  LET orders == {-1} \cup {table[a].order : a \in LiveImages(table)}
         IN Max(orders) \in orders
<1>1. \A a \in LiveImages(table) : a \in Images /\ a \in Nat /\ a >= 1 /\ a <= MaxImages
                                   /\ table[a].order \in Nat
  BY GalleryBounds DEF LiveImages, Images, ImageRows
<1>2. \A k \in Nat : HasLast(table, k)
  <2> DEFINE T == {k \in Nat : ~ HasLast(table, k)}
  <2>1. SUFFICES ASSUME T # {} PROVE FALSE
    OBVIOUS
  <2>2. PICK k \in T : \A j \in T : k <= j
    <3>1. T \subseteq Nat
      OBVIOUS
    <3> HIDE DEF T
    <3>2. QED
      BY <2>1, <3>1, LeastImage
  <2>3. k \in Nat /\ ~ HasLast(table, k)
    OBVIOUS
  <2>4. CASE k = 0
    <3>1. OrdersTo(table, k) = {-1}
      BY <1>1, <2>4 DEF OrdersTo
    <3>2. QED
      BY <2>3, <3>1 DEF HasLast
  <2>5. CASE k # 0
    <3>1. k - 1 \in Nat /\ ~ (k <= k - 1)
      BY <2>3, <2>5
    <3>2. HasLast(table, k - 1)
      BY <2>2, <3>1
    <3>3. PICK x \in OrdersTo(table, k - 1) : \A y \in OrdersTo(table, k - 1) : x >= y
      BY <3>2 DEF HasLast
    <3>4. x \in Int
      BY <1>1, <3>3 DEF OrdersTo
    <3>5. CASE k \in LiveImages(table)
      <4>1. PICK n \in Nat : n = table[k].order
        BY <1>1, <3>5
      <4>2. /\ \A y \in OrdersTo(table, k) : y \in OrdersTo(table, k - 1) \/ y = n
            /\ OrdersTo(table, k - 1) \subseteq OrdersTo(table, k) /\ n \in OrdersTo(table, k)
        BY <1>1, <2>3, <3>5, <4>1 DEF OrdersTo
      <4>3. \A y \in OrdersTo(table, k - 1) : y \in Int
        BY <1>1 DEF OrdersTo
      <4>4. CASE x >= n
        BY <2>3, <3>3, <4>2, <4>4 DEF HasLast
      <4>5. CASE ~ (x >= n)
        <5>1. \A y \in OrdersTo(table, k) : n >= y
          BY <3>3, <3>4, <4>1, <4>2, <4>3, <4>5
        <5>2. QED
          BY <2>3, <4>2, <5>1 DEF HasLast
      <4>6. QED
        BY <4>4, <4>5
    <3>6. CASE k \notin LiveImages(table)
      <4>1. OrdersTo(table, k) = OrdersTo(table, k - 1)
        BY <1>1, <2>3, <3>6 DEF OrdersTo
      <4>2. QED
        BY <2>3, <3>2, <4>1 DEF HasLast
    <3>7. QED
      BY <3>5, <3>6
  <2>6. QED
    BY <2>4, <2>5
<1>3. OrdersTo(table, MaxImages) = {-1} \cup {table[a].order : a \in LiveImages(table)}
  BY <1>1 DEF OrdersTo
<1>4. HasLast(table, MaxImages)
  BY <1>2, GalleryBounds
<1>5. Max(OrdersTo(table, MaxImages)) \in OrdersTo(table, MaxImages)
  BY <1>4 DEF HasLast, Max
<1>6. QED
  BY <1>3, <1>5, Zenon

(* NextDisplayOrder: what it picks is a display order.                     *)
LEMMA NextDisplayOrderKeeps ==
  ASSUME GalleryInv, NEW w \in Workers, NextDisplayOrder(w)
  PROVE  GalleryInv'
<1> DEFINE d == gdraft[w]
<1>1. /\ greq[w] \in GalleryRequest /\ d \in GalleryDrafts
      /\ WrittenFits(greq[w], d, image, files) /\ ProductWritten(greq[w], d, product)
      /\ LoadedFits(greq[w], image, product) /\ SeenFits(greq[w], image)
      /\ KindFits(greq[w], d, image, product, files)
  BY FieldsOfGallery
<1>2. greq[w].pc = "order"
  BY DEF NextDisplayOrder, At
<1>3. greq[w].kind = "upload" /\ UploadFits(greq[w], d, image, files)
  BY <1>1, <1>2, KindOfPosition DEF Busy
<1>4. PICK n : n = Max({-1} \cup {image[a].order : a \in LiveImages(image)}) + 1
  OBVIOUS
<1>5. n \in Nat
  <2>1. image \in [Images -> ImageRows]
    BY DEF GalleryInv, GalleryTyped
  <2>2. PICK m : m = Max({-1} \cup {image[a].order : a \in LiveImages(image)})
    OBVIOUS
  <2>3. m \in {-1} \cup {image[a].order : a \in LiveImages(image)}
    BY <2>1, <2>2, OrdersHaveLast
  <2>4. m = -1 \/ m \in Nat
    BY <2>1, <2>3 DEF LiveImages, ImageRows
  <2>5. QED
    BY <1>4, <2>2, <2>4
<1>6. PICK r : r = [greq[w] EXCEPT !.pc = "insert", !.order = n]
  OBVIOUS
<1>7. /\ r \in GalleryRequest /\ r.pc = "insert" /\ r.kind = "upload"
      /\ r.row = greq[w].row /\ r.primary = greq[w].primary
      /\ r.loaded = greq[w].loaded /\ r.seen = greq[w].seen
  BY <1>1, <1>3, <1>5, <1>6 DEF GalleryRequest, GalleryPCs
<1>8. LoadedFits(r, image, product) /\ SeenFits(r, image)
  BY <1>1, <1>7 DEF LoadedFits, SeenFits
<1>9. 0 \notin DOMAIN d
  BY <1>2, <1>3 DEF UploadFits
<1>10. WrittenFits(r, d, image, files) /\ ProductWritten(r, d, product)
  BY <1>1, <1>3, <1>7, <1>9 DEF WrittenFits, ProductWritten
<1>11. UploadFits(r, d, image, files)
  BY <1>2, <1>3, <1>7 DEF UploadFits
<1>12. KindFits(r, d, image, product, files)
  BY <1>7, <1>11 DEF KindFits, GalleryKinds
<1>13. RequestFits(r, d, image, product, files)
  BY <1>1, <1>7, <1>8, <1>10, <1>12 DEF RequestFits
<1>14. /\ \A b \in Images : UploadOf(r, b) => UploadOf(greq[w], b)
       /\ ~ LastOne(r, product) /\ ~ NewPrimary(d, image)
  BY <1>2, <1>3, <1>7, PrimariesLate DEF UploadOf, LastOne, Busy
<1>15. GalleryGoto(w, r) /\ UNCHANGED <<image, product, files, gdraft>>
  BY <1>4, <1>6 DEF NextDisplayOrder
<1>16. QED
  BY <1>7, <1>13, <1>14, <1>15, MoveKeepsGallery
(* InsertImage: a new primary passes the unique index.                     *)
LEMMA InsertImageKeeps ==
  ASSUME GalleryInv, NEW w \in Workers, InsertImage(w)
  PROVE  GalleryInv'
<1> DEFINE d == gdraft[w]
           q == greq[w]
<1>1. /\ q \in GalleryRequest /\ d \in GalleryDrafts
      /\ WrittenFits(q, d, image, files) /\ ProductWritten(q, d, product)
      /\ LoadedFits(q, image, product) /\ SeenFits(q, image)
      /\ KindFits(q, d, image, product, files)
  BY FieldsOfGallery
<1>2. q.pc = "insert"
  BY DEF InsertImage
<1>3. q.kind = "upload" /\ UploadFits(q, d, image, files)
  BY <1>1, <1>2, KindOfPosition DEF Busy
<1>4. /\ q.row \in Images /\ image[q.row].state = "none" /\ files[q.row] = "stored"
      /\ 0 \notin DOMAIN d
      /\ \A b \in DOMAIN d : Cleared(d, image, b)
      /\ q.primary \/ DOMAIN d = {}
  BY <1>2, <1>3 DEF UploadFits
<1>5. PICK a \in Images : a = q.row
  BY <1>4
<1>6. PICK x : x = ImageRow("live", q.primary, q.order, 1)
  OBVIOUS
<1>7. x \in ImageRows /\ x.state = "live" /\ x.primary = q.primary /\ x.version = 1
  BY <1>1, <1>6 DEF ImageRow, ImageRows, GalleryRequest
<1>8. ~ EntryTaken(w, a, x) /\ UNCHANGED <<image, product, files>>
  BY <1>5, <1>6 DEF InsertImage
<1>9. CASE ~ Unique(w, a, x)
  <2>1. Undo(w)
    BY <1>5, <1>6, <1>9 DEF InsertImage
  <2>2. QED
    BY <1>8, <2>1, UndoKeepsGallery
<1>10. CASE Unique(w, a, x)
  <2>1. PICK r : r = [q EXCEPT !.pc = IF q.primary THEN "cover" ELSE "commit",
                               !.cover = q.row, !.order = 0]
    OBVIOUS
  <2>2. Write(w, a, x) /\ GalleryGoto(w, r)
    BY <1>5, <1>6, <1>10, <2>1 DEF InsertImage
  <2>3. /\ r \in GalleryRequest /\ r.pc \in {"cover", "commit"} /\ r.kind = "upload"
        /\ r.row = a /\ r.primary = q.primary /\ r.cover = a
        /\ r.loaded = q.loaded /\ r.seen = q.seen
    BY <1>1, <1>3, <1>5, <2>1 DEF GalleryRequest, GalleryPCs, Covers
  <2>4. r.pc = "cover" => r.primary
    BY <1>1, <2>1 DEF GalleryRequest
  <2>5. r.pc = "commit" => ~ r.primary
    BY <1>1, <2>1 DEF GalleryRequest
  <2>6. LoadedFits(r, image, product) /\ SeenFits(r, image)
    BY <1>1, <2>3 DEF LoadedFits, SeenFits
  <2>7. PICK e : e = With(d, a, x)
    OBVIOUS
  <2>8. /\ e \in GalleryDrafts /\ DOMAIN e = DOMAIN d \cup {a} /\ e[a] = x /\ a # 0
        /\ \A b \in DOMAIN d \ {a} : e[b] = d[b]
    BY <1>1, <1>7, <2>7, WroteImage, ImagesAreNumbers
  <2>9. \A b \in DOMAIN d : b # a
    BY <1>4, <1>5 DEF Cleared, IsPrimary
  <2>10. \A b \in DOMAIN e \ {a} : b \in DOMAIN d /\ e[b] = d[b] /\ Cleared(e, image, b)
    BY <1>4, <2>8 DEF Cleared
  <2>11. WrittenFits(r, e, image, files)
    <3>1. SUFFICES ASSUME NEW b \in Written(e)
                   PROVE  /\ e[b] \in ImageRows
                          /\ image[b].state # "deleted" /\ e[b].state # "none"
                          /\ image[b].state = "none" => r.kind = "upload" /\ b = r.row
                          /\ image[b].version <= e[b].version
                          /\ e[b].version = image[b].version =>
                               r.kind = "upload" /\ r.primary /\ b # r.row /\ Cleared(e, image, b)
                          /\ e[b].state = "live" => files[b] = "stored"
      BY DEF WrittenFits
    <3>2. CASE b = a
      <4>1. image[a].version = 0
        BY <1>4, <1>5 DEF GalleryInv, TableFits
      <4>2. QED
        BY <1>4, <1>5, <1>7, <2>3, <2>8, <3>2, <4>1
    <3>3. CASE b # a
      <4>1. b \in Written(d) /\ e[b] = d[b] /\ Cleared(e, image, b)
        BY <2>10, <3>1, <3>3 DEF Written
      <4>2. QED
        BY <1>1, <1>3, <1>4, <1>5, <2>3, <3>3, <4>1 DEF WrittenFits
    <3>4. QED
      BY <3>2, <3>3
  <2>12. 0 \notin DOMAIN e
    BY <1>4, <2>8
  <2>13. ProductWritten(r, e, product)
    BY <2>12 DEF ProductWritten
  <2>14. UploadFits(r, e, image, files)
    <3>1. r.primary \/ DOMAIN e = {a}
      BY <1>4, <2>3, <2>8
    <3>2. QED
      BY <1>4, <1>5, <1>7, <2>3, <2>4, <2>5, <2>8, <2>10, <3>1 DEF UploadFits
  <2>15. KindFits(r, e, image, product, files)
    BY <2>3, <2>12, <2>14 DEF KindFits, GalleryKinds
  <2>16. RequestFits(r, e, image, product, files)
    BY <2>3, <2>6, <2>8, <2>11, <2>13, <2>15 DEF RequestFits
  <2>17. \A v \in Workers \ {w} : a \notin DOMAIN gdraft[v]
    <3>1. SUFFICES ASSUME NEW v \in Workers \ {w}, a \in DOMAIN gdraft[v] PROVE FALSE
      OBVIOUS
    <3>2. WrittenFits(greq[v], gdraft[v], image, files) /\ KindFits(greq[v], gdraft[v], image, product, files)
      BY FieldsOfGallery
    <3>3. greq[v].kind = "upload" /\ greq[v].row = a
      BY <1>4, <1>5, <2>8, <3>1, <3>2 DEF WrittenFits, Written
    <3>4. Busy(greq[v])
      BY <3>1, <3>2 DEF KindFits, DestroyFits, Busy
    <3>5. UploadOf(greq[v], a) /\ UploadOf(q, a)
      BY <1>2, <1>3, <1>5, <3>3, <3>4 DEF UploadOf, Busy
    <3>6. QED
      BY <3>5 DEF GalleryInv, UploadsApart
  <2>18. /\ \A b \in Images : UploadOf(r, b) => UploadOf(greq[w], b)
         /\ ~ LastOne(r, product) /\ greq[w].pc \notin {"cover", "commit"}
    BY <1>2, <1>3, <1>5, <2>3 DEF UploadOf, LastOne, Busy
  <2>19. RequestFits(r, With(gdraft[w], a, x), image, product, files)
    BY <2>7, <2>16
  <2>20. QED
    BY <1>7, <1>8, <1>10, <2>2, <2>3, <2>17, <2>18, <2>19, ImageKeepsGallery
<1>11. QED
  BY <1>9, <1>10

(* LoadImage: what it sees of the primary goes with the version.           *)
LEMMA LoadImageKeeps ==
  ASSUME GalleryInv, NEW w \in Workers, LoadImage(w)
  PROVE  GalleryInv'
<1> DEFINE d == gdraft[w]
           q == greq[w]
<1>1. /\ q \in GalleryRequest /\ d \in GalleryDrafts
      /\ LoadedFits(q, image, product) /\ SeenFits(q, image)
      /\ KindFits(q, d, image, product, files)
  BY FieldsOfGallery
<1>2. q.pc = "delete"
  BY DEF LoadImage, At
<1>3. q.kind = "delete" /\ DeleteFits(q, d, image, product)
  BY <1>1, <1>2, KindOfPosition DEF Busy
<1>4. DOMAIN d = {} /\ q.cover = None
  BY <1>2, <1>3 DEF DeleteFits
<1>5. PICK a \in Images : a = q.row
  BY <1>3 DEF DeleteFits
<1>6. image[a].state = "live" /\ image[a] \in ImageRows
  BY <1>5 DEF LoadImage, LiveImages, GalleryInv, GalleryTyped
<1>7. PICK s : s = [b \in {a} |-> image[b].version]
  OBVIOUS
<1>8. s \in Versions /\ DOMAIN s = {a} /\ s[a] = image[a].version
  <2>1. s \in [{a} -> Nat] /\ {a} \in SUBSET Images
    BY <1>6, <1>7 DEF ImageRows
  <2>2. QED
    BY <1>7, <2>1 DEF Versions
<1>9. PICK r : r = [q EXCEPT !.pc = "softDelete", !.primary = image[a].primary, !.seen = s]
  OBVIOUS
<1>10. GalleryGoto(w, r) /\ UNCHANGED <<image, product, files, gdraft>>
  BY <1>5, <1>7, <1>9 DEF LoadImage
<1>11. /\ r \in GalleryRequest /\ r.pc = "softDelete" /\ r.kind = "delete" /\ r.row = a
       /\ r.primary = image[a].primary /\ r.cover = None /\ r.loaded = q.loaded /\ r.seen = s
  BY <1>1, <1>3, <1>4, <1>5, <1>6, <1>8, <1>9 DEF GalleryRequest, GalleryPCs, ImageRows
<1>12. LoadedFits(r, image, product)
  BY <1>1, <1>11 DEF LoadedFits
<1>13. SeenFits(r, image)
  BY <1>6, <1>8, <1>11 DEF SeenFits, ImageRows
<1>14. DeleteFits(r, d, image, product)
  BY <1>4, <1>6, <1>8, <1>11 DEF DeleteFits, IsPrimary
<1>15. KindFits(r, d, image, product, files)
  BY <1>11, <1>14 DEF KindFits, GalleryKinds
<1>16. RequestFits(r, d, image, product, files)
  BY <1>1, <1>4, <1>11, <1>12, <1>13, <1>15, NothingYet DEF RequestFits
<1>17. (\A b \in Images : ~ UploadOf(r, b)) /\ ~ LastOne(r, product) /\ ~ NewPrimary(d, image)
  BY <1>4, <1>11, NothingYet DEF UploadOf, LastOne
<1>18. QED
  BY <1>10, <1>11, <1>16, <1>17, MoveKeepsGallery

(* SoftDelete: the row is the one that was seen.                           *)
LEMMA SoftDeleteKeeps ==
  ASSUME GalleryInv, NEW w \in Workers, SoftDelete(w)
  PROVE  GalleryInv'
<1> DEFINE d == gdraft[w]
           q == greq[w]
<1>1. /\ q \in GalleryRequest /\ d \in GalleryDrafts
      /\ LoadedFits(q, image, product) /\ SeenFits(q, image)
      /\ KindFits(q, d, image, product, files)
  BY FieldsOfGallery
<1>2. q.pc = "softDelete"
  BY DEF SoftDelete
<1>3. q.kind = "delete" /\ DeleteFits(q, d, image, product)
  BY <1>1, <1>2, KindOfPosition DEF Busy
<1>4. DOMAIN d = {} /\ q.cover = None /\ q.row \in DOMAIN q.seen
  BY <1>2, <1>3 DEF DeleteFits
<1>5. PICK a \in Images : a = q.row
  BY <1>3 DEF DeleteFits
<1>6. UNCHANGED <<image, product, files>> /\ RowLockedBy(a) = {}
  BY <1>5 DEF SoftDelete
<1>7. CASE image[a].version # q.seen[a]
  <2>1. Undo(w)
    BY <1>5, <1>7 DEF SoftDelete
  <2>2. QED
    BY <1>6, <2>1, UndoKeepsGallery
<1>8. CASE image[a].version = q.seen[a]
  <2>1. image[a].state = "live" /\ image[a] \in ImageRows
    BY <1>1, <1>4, <1>5, <1>8 DEF SeenFits, GalleryInv, GalleryTyped
  <2>2. PICK x : x = ImageRow("deleted", FALSE, 0, image[a].version + 1)
    OBVIOUS
  <2>3. x \in ImageRows /\ x.state = "deleted" /\ x.version = image[a].version + 1
    BY <2>1, <2>2 DEF ImageRow, ImageRows
  <2>4. PICK r : r = [q EXCEPT !.pc = IF q.primary THEN "list" ELSE "commit", !.seen = <<>>]
    OBVIOUS
  <2>5. Write(w, a, x) /\ GalleryGoto(w, r)
    BY <1>5, <1>8, <2>2, <2>4 DEF SoftDelete
  <2>6. /\ r \in GalleryRequest /\ r.pc \in {"list", "commit"} /\ r.kind = "delete" /\ r.row = a
        /\ r.primary = q.primary /\ r.cover = None /\ r.loaded = q.loaded /\ r.seen = <<>>
    BY <1>1, <1>3, <1>4, <1>5, <2>4, NothingWritten DEF GalleryRequest, GalleryPCs
  <2>7. (r.pc = "list" => r.primary) /\ (r.pc = "commit" => ~ r.primary)
    BY <1>1, <2>4 DEF GalleryRequest
  <2>8. LoadedFits(r, image, product)
    BY <1>1, <2>6 DEF LoadedFits
  <2>9. SeenFits(r, image)
    BY <2>6, NothingWritten DEF SeenFits
  <2>10. PICK e : e = With(d, a, x)
    OBVIOUS
  <2>11. e \in GalleryDrafts /\ DOMAIN e = {a} /\ e[a] = x /\ a # 0
    BY <1>1, <1>4, <2>3, <2>10, WroteImage, ImagesAreNumbers
  <2>12. WrittenFits(r, e, image, files)
    BY <2>1, <2>3, <2>11 DEF WrittenFits, Written, ImageRows
  <2>13. ProductWritten(r, e, product)
    BY <2>11 DEF ProductWritten
  <2>14. /\ q.primary => IsPrimary(image[a]) \/ Overtaken(q, product)
         /\ ~ q.primary => ~ IsPrimary(image[a])
    BY <1>2, <1>3, <1>5, <1>8 DEF DeleteFits
  <2>15. Overtaken(q, product) => Overtaken(r, product)
    BY <2>6 DEF Overtaken
  <2>16. DeleteFits(r, e, image, product)
    BY <2>1, <2>3, <2>6, <2>7, <2>11, <2>14, <2>15 DEF DeleteFits
  <2>17. KindFits(r, e, image, product, files)
    BY <2>6, <2>16 DEF KindFits, GalleryKinds
  <2>18. RequestFits(r, e, image, product, files)
    BY <2>6, <2>8, <2>9, <2>11, <2>12, <2>13, <2>17 DEF RequestFits
  <2>19. \A v \in Workers \ {w} : a \notin DOMAIN gdraft[v]
    BY <1>6 DEF RowLockedBy
  <2>20. /\ \A b \in Images : ~ UploadOf(r, b)
         /\ ~ LastOne(r, product) /\ greq[w].pc \notin {"cover", "commit"} /\ ~ IsPrimary(x)
    BY <1>2, <2>3, <2>6, <2>7 DEF UploadOf, LastOne, IsPrimary
  <2>21. RequestFits(r, With(gdraft[w], a, x), image, product, files)
    BY <2>10, <2>18
  <2>22. QED
    BY <1>6, <2>3, <2>5, <2>6, <2>19, <2>20, <2>21, ImageKeepsGallery
<1>9. QED
  BY <1>7, <1>8

(* The image that stands first is one of them.                             *)
LEMMA FirstIsLive ==
  ASSUME NEW table \in [Images -> ImageRows], LiveImages(table) # {}
  PROVE  FirstImage(table) \in LiveImages(table)
<1> DEFINE T == {table[a].order : a \in LiveImages(table)}
<1>1. T \subseteq Nat /\ T # {}
  BY DEF LiveImages, ImageRows
<1>2. \A a \in LiveImages(table) : table[a].order \in T
  OBVIOUS
<1>3. \A n \in T : \E a \in LiveImages(table) : n = table[a].order
  OBVIOUS
<1> HIDE DEF T
<1>4. PICK n \in T : \A j \in T : n <= j
  BY <1>1, LeastImage
<1>5. PICK a \in LiveImages(table) : n = table[a].order
  BY <1>3
<1>6. \A b \in LiveImages(table) : table[a].order <= table[b].order
  BY <1>2, <1>4, <1>5
<1>7. QED
  BY <1>6 DEF FirstImage
(* What a transaction sees is a table of images.                           *)
LEMMA ViewOfImages ==
  ASSUME GalleryInv, NEW w \in Workers
  PROVE  /\ ImageView(w) \in [Images -> ImageRows]
         /\ \A b \in Written(gdraft[w]) : b \in Images /\ ImageView(w)[b] = gdraft[w][b]
         /\ \A b \in Images \ DOMAIN gdraft[w] : ImageView(w)[b] = image[b]
<1>1. /\ gdraft[w] \in GalleryDrafts /\ WrittenFits(greq[w], gdraft[w], image, files)
      /\ image \in [Images -> ImageRows]
  BY FieldsOfGallery DEF GalleryInv, GalleryTyped
<1>2. \A b \in Images : b \in DOMAIN gdraft[w] => b \in Written(gdraft[w])
  BY ImagesAreNumbers DEF Written
<1>3. \A b \in Written(gdraft[w]) : gdraft[w][b] \in ImageRows /\ b \in Images /\ b \in DOMAIN gdraft[w]
  BY <1>1, WrittenImages DEF WrittenFits, Written
<1>4. \A b \in Images : ImageView(w)[b] \in ImageRows
  BY <1>1, <1>2, <1>3 DEF ImageView
<1>5. ImageView(w) \in [Images -> ImageRows]
  BY <1>4 DEF ImageView
<1>6. QED
  BY <1>3, <1>5 DEF ImageView

(* ListRemainingImages: no image left, or the first of them.               *)
LEMMA ListRemainingImagesKeeps ==
  ASSUME GalleryInv, NEW w \in Workers, ListRemainingImages(w)
  PROVE  GalleryInv'
<1> DEFINE d == gdraft[w]
           q == greq[w]
<1>1. /\ q \in GalleryRequest /\ d \in GalleryDrafts
      /\ WrittenFits(q, d, image, files)
      /\ LoadedFits(q, image, product) /\ SeenFits(q, image)
      /\ KindFits(q, d, image, product, files)
  BY FieldsOfGallery
<1>2. q.pc = "list"
  BY DEF ListRemainingImages, At
<1>3. q.kind = "delete" /\ DeleteFits(q, d, image, product)
  BY <1>1, <1>2, KindOfPosition DEF Busy
<1>4. PICK a \in Images : a = q.row
  BY <1>3 DEF DeleteFits
<1>5. /\ DOMAIN d = {a} /\ d[a].state = "deleted" /\ image[a].state = "live" /\ a # 0
      /\ q.primary /\ (IsPrimary(image[a]) \/ Overtaken(q, product))
  BY <1>2, <1>3, <1>4, ImagesAreNumbers DEF DeleteFits
<1>6. PICK table : table = ImageView(w)
  OBVIOUS
<1>7. table \in [Images -> ImageRows] /\ \A b \in Images \ {a} : table[b] = image[b]
  BY <1>5, <1>6, ViewOfImages
<1>8. table[a].state = "deleted"
  BY <1>4, <1>5, <1>6, ViewOfImages DEF Written
<1>9. UNCHANGED <<image, product, files, gdraft>>
  BY DEF ListRemainingImages
<1>10. ProductWritten(q, d, product) /\ 0 \notin DOMAIN d
  BY <1>5 DEF ProductWritten
<1>11. ~ NewPrimary(d, image)
  BY <1>2, PrimariesLate
<1>12. CASE LiveImages(table) = {}
  <2>1. PICK r : r = [q EXCEPT !.pc = "cover", !.cover = None]
    OBVIOUS
  <2>2. GalleryGoto(w, r)
    BY <1>6, <1>12, <2>1 DEF ListRemainingImages
  <2>3. /\ r \in GalleryRequest /\ r.pc = "cover" /\ r.kind = "delete" /\ r.row = a
        /\ r.primary = q.primary /\ r.cover = None /\ r.loaded = q.loaded /\ r.seen = q.seen
    BY <1>1, <1>3, <1>4, <2>1 DEF GalleryRequest, GalleryPCs, Covers
  <2>4. LoadedFits(r, image, product) /\ SeenFits(r, image)
    BY <1>1, <2>3 DEF LoadedFits, SeenFits
  <2>5. WrittenFits(r, d, image, files) /\ ProductWritten(r, d, product)
    BY <1>1, <1>3, <1>10, <2>3 DEF WrittenFits, ProductWritten
  <2>6. DeleteFits(r, d, image, product)
    BY <1>5, <2>3 DEF DeleteFits
  <2>7. KindFits(r, d, image, product, files)
    BY <1>10, <2>3, <2>6 DEF KindFits, GalleryKinds
  <2>8. RequestFits(r, d, image, product, files)
    BY <1>1, <2>3, <2>4, <2>5, <2>7 DEF RequestFits
  <2>9. LiveImages(image) \subseteq {r.row}
    BY <1>7, <1>12, <2>3 DEF LiveImages
  <2>10. \A b \in Images : ~ UploadOf(r, b)
    BY <2>3 DEF UploadOf
  <2>11. QED
    BY <1>9, <1>11, <2>2, <2>3, <2>8, <2>9, <2>10, MoveKeepsGallery
<1>13. CASE LiveImages(table) # {}
  <2>1. PICK first \in Images : first = FirstImage(table) /\ table[first].state = "live"
    BY <1>7, <1>13, FirstIsLive DEF LiveImages
  <2>2. first # a /\ table[first] = image[first] /\ image[first].state = "live" /\ image[first] \in ImageRows
    BY <1>7, <1>8, <2>1
  <2>3. PICK s : s = [b \in {first} |-> table[b].version]
    OBVIOUS
  <2>4. s \in Versions /\ DOMAIN s = {first} /\ s[first] = image[first].version
    <3>1. s \in [{first} -> Nat] /\ {first} \in SUBSET Images
      BY <2>2, <2>3 DEF ImageRows
    <3>2. QED
      BY <2>2, <2>3, <3>1 DEF Versions
  <2>5. PICK r : r = [q EXCEPT !.pc = "cover", !.cover = first,
                               !.primary = table[first].primary, !.seen = s]
    OBVIOUS
  <2>6. GalleryGoto(w, r)
    BY <1>6, <1>13, <2>1, <2>3, <2>5 DEF ListRemainingImages
  <2>7. /\ r \in GalleryRequest /\ r.pc = "cover" /\ r.kind = "delete" /\ r.row = a
        /\ r.primary = image[first].primary /\ r.cover = first /\ r.loaded = q.loaded /\ r.seen = s
    BY <1>1, <1>3, <1>4, <2>2, <2>4, <2>5 DEF GalleryRequest, GalleryPCs, Covers, ImageRows
  <2>8. LoadedFits(r, image, product)
    BY <1>1, <2>7 DEF LoadedFits
  <2>9. SeenFits(r, image)
    BY <2>2, <2>4, <2>7 DEF SeenFits, ImageRows
  <2>10. WrittenFits(r, d, image, files) /\ ProductWritten(r, d, product)
    <3>1. \A b \in Written(d) : b = a /\ d[b].state = "deleted" /\ image[b].state = "live"
      BY <1>5 DEF Written
    <3>2. \A b \in Written(d) : d[b].version # image[b].version
      BY <1>1, <1>3, <3>1 DEF WrittenFits, Cleared, IsPrimary
    <3>3. QED
      BY <1>1, <1>10, <3>1, <3>2 DEF WrittenFits, ProductWritten
  <2>11. Overtaken(q, product) => Overtaken(r, product)
    BY <2>7 DEF Overtaken
  <2>12. r.primary => ~ IsPrimary(image[a]) /\ Overtaken(r, product)
    BY <1>5, <2>2, <2>7, <2>11 DEF GalleryInv, SinglePrimary, IsPrimary
  <2>13. r.cover # None
    BY <2>7, ImagesAreNumbers
  <2>14. DeleteFits(r, d, image, product)
    BY <1>5, <2>2, <2>4, <2>7, <2>12, <2>13 DEF DeleteFits
  <2>15. KindFits(r, d, image, product, files)
    BY <1>10, <2>7, <2>14 DEF KindFits, GalleryKinds
  <2>16. RequestFits(r, d, image, product, files)
    BY <1>1, <2>7, <2>8, <2>9, <2>10, <2>15 DEF RequestFits
  <2>17. (\A b \in Images : ~ UploadOf(r, b)) /\ ~ LastOne(r, product)
    BY <2>7, <2>13 DEF UploadOf, LastOne
  <2>18. QED
    BY <1>9, <1>11, <2>6, <2>7, <2>16, <2>17, MoveKeepsGallery
<1>14. QED
  BY <1>12, <1>13

(* UpdateCover: the product is the one that was loaded.                    *)
LEMMA UpdateCoverKeeps ==
  ASSUME GalleryInv, NEW w \in Workers, UpdateCover(w)
  PROVE  GalleryInv'
<1> DEFINE d == gdraft[w]
           q == greq[w]
<1>1. /\ q \in GalleryRequest /\ d \in GalleryDrafts
      /\ WrittenFits(q, d, image, files)
      /\ LoadedFits(q, image, product) /\ SeenFits(q, image)
      /\ KindFits(q, d, image, product, files)
  BY FieldsOfGallery
<1>2. q.pc = "cover"
  BY DEF UpdateCover
<1>3. /\ q.kind \in {"edit", "upload", "delete"} /\ 0 \notin DOMAIN d
      /\ q.kind = "edit" => EditsFit(q, d)
      /\ q.kind = "upload" => UploadFits(q, d, image, files)
      /\ q.kind = "delete" => DeleteFits(q, d, image, product)
  BY <1>1, <1>2, KindOfPosition DEF Busy
<1>4. UNCHANGED <<image, product, files>>
  BY DEF UpdateCover
<1>5. PICK r : r = [q EXCEPT !.pc = AfterCover(q)]
  OBVIOUS
<1>6. AfterCover(q) \in {"promote", "commit"}
  BY DEF AfterCover
<1>7. /\ r \in GalleryRequest /\ r.pc = AfterCover(q) /\ r.kind = q.kind /\ r.row = q.row
      /\ r.primary = q.primary /\ r.cover = q.cover /\ r.loaded = q.loaded /\ r.seen = q.seen
  BY <1>1, <1>5, <1>6 DEF GalleryRequest, GalleryPCs
<1>8. /\ r.pc = "promote" => r.kind = "delete" /\ r.cover # None /\ ~ r.primary
      /\ r.pc = "commit" => r.kind # "delete" \/ r.cover = None \/ r.primary
      /\ r.pc \in {"promote", "commit"}
  BY <1>6, <1>7 DEF AfterCover
<1>9. LoadedFits(r, image, product) /\ SeenFits(r, image)
  BY <1>1, <1>7 DEF LoadedFits, SeenFits
<1>10. \A b \in Images : UploadOf(r, b) => UploadOf(greq[w], b)
  BY <1>2, <1>7 DEF UploadOf, Busy
<1>11. LastOne(r, product) => LastOne(greq[w], product) /\ r.row = greq[w].row
  BY <1>2, <1>7 DEF LastOne, Busy
<1>12. NewPrimary(d, image) => r.pc = "commit"
  <2>1. SUFFICES ASSUME r.pc = "promote" PROVE ~ NewPrimary(d, image)
    BY <1>8
  <2>2. \A b \in Written(d) : d[b].state = "deleted"
    BY <1>2, <1>3, <1>7, <1>8, <2>1 DEF DeleteFits, Written
  <2>3. QED
    BY <2>2 DEF NewPrimary, IsPrimary
<1>13. CASE q.kind # "edit" /\ q.cover = q.loaded.cover
  <2>1. GalleryGoto(w, r) /\ UNCHANGED gdraft
    BY <1>5, <1>13 DEF UpdateCover, Step
  <2>2. q.kind = "delete"
    <3>1. SUFFICES ASSUME q.kind = "upload" PROVE FALSE
      BY <1>3, <1>13
    <3>2. q.cover \in Images /\ image[q.cover].state = "none"
      BY <1>2, <1>3, <3>1 DEF UploadFits
    <3>3. QED
      BY <1>1, <1>13, <3>2 DEF LoadedFits
  <2>3. DeleteFits(q, d, image, product)
    BY <1>3, <2>2
  <2>4. WrittenFits(r, d, image, files) /\ ProductWritten(r, d, product)
    BY <1>1, <1>3, <1>7 DEF WrittenFits, ProductWritten
  <2>5. Overtaken(q, product) => Overtaken(r, product)
    BY <1>7 DEF Overtaken
  <2>6. /\ q.row \in Images /\ q.row \in DOMAIN d /\ d[q.row].state = "deleted"
        /\ image[q.row].state = "live" /\ DOMAIN d = {q.row}
        /\ q.cover = None => q.primary
        /\ q.cover # None =>
             /\ q.cover \in Images /\ q.cover # q.row /\ image[q.cover].state # "none"
             /\ q.cover \in DOMAIN q.seen
             /\ q.primary => ~ IsPrimary(image[q.row]) /\ Overtaken(q, product)
    BY <1>2, <2>3 DEF DeleteFits
  <2>7. DeleteFits(r, d, image, product)
    BY <1>7, <1>8, <1>13, <2>2, <2>5, <2>6 DEF DeleteFits
  <2>8. KindFits(r, d, image, product, files)
    BY <1>7, <1>8, <2>2, <2>7 DEF KindFits, GalleryKinds
  <2>9. RequestFits(r, d, image, product, files)
    BY <1>1, <1>7, <1>9, <2>4, <2>8 DEF RequestFits
  <2>10. NewPrimary(gdraft[w], image) => r.pc \in {"cover", "commit"}
    BY <1>12
  <2>11. UNCHANGED <<image, product, files, gdraft>>
    BY <1>4, <2>1
  <2>12. QED
    BY <1>7, <1>10, <1>11, <2>1, <2>9, <2>10, <2>11, MoveKeepsGallery
<1>14. CASE ~ (q.kind # "edit" /\ q.cover = q.loaded.cover)
  <2>1. CASE product.version # q.loaded.version
    <3>1. Undo(w)
      BY <1>14, <2>1 DEF UpdateCover
    <3>2. QED
      BY <1>4, <3>1, UndoKeepsGallery
  <2>2. CASE product.version = q.loaded.version
    <3>1. PICK x : x = ProductRow(q.cover, product.version + 1)
      OBVIOUS
    <3>2. x \in ProductRows
      BY <1>1, <3>1 DEF ProductRow, ProductRows, GalleryRequest, GalleryInv, GalleryTyped
    <3>3. RowLockedBy(0) = {} /\ Write(w, 0, x) /\ GalleryGoto(w, r)
      BY <1>5, <1>14, <2>2, <3>1 DEF UpdateCover, Step
    <3>4. PICK e : e = With(d, 0, x)
      OBVIOUS
    <3>5. /\ e \in GalleryDrafts /\ DOMAIN e = DOMAIN d \cup {0} /\ e[0] = x
          /\ \A b \in DOMAIN d \ {0} : e[b] = d[b]
      BY <1>1, <3>2, <3>4, WroteProduct
    <3>6. \A b \in DOMAIN d : b # 0 /\ e[b] = d[b]
      BY <1>3, <3>5
    <3>7. Written(e) = Written(d) /\ \A b \in Written(d) : e[b] = d[b]
      BY <3>5 DEF Written
    <3>8. WrittenFits(r, e, image, files)
      BY <1>1, <1>7, <3>7 DEF WrittenFits, Cleared
    <3>9. ProductWritten(r, e, product)
      BY <1>7, <1>8, <2>2, <3>1, <3>5 DEF ProductWritten
    <3>10. r.kind = "edit" => EditsFit(r, e)
      <4>1. SUFFICES ASSUME q.kind = "edit" PROVE EditsFit(r, e)
        BY <1>7
      <4>2. DOMAIN d = {} /\ q.cover \in {q.loaded.cover, Chosen}
        BY <1>2, <1>3, <4>1 DEF EditsFit
      <4>3. QED
        BY <1>7, <1>8, <3>5, <4>1, <4>2 DEF EditsFit
    <3>11. r.kind = "upload" => UploadFits(r, e, image, files)
      <4>1. SUFFICES ASSUME q.kind = "upload" PROVE UploadFits(r, e, image, files)
        BY <1>7
      <4>2. UploadFits(q, d, image, files)
        BY <1>3, <4>1
      <4>3. \A b \in DOMAIN e \ {0, q.row} : Cleared(e, image, b)
        BY <1>2, <3>5, <3>6, <4>2 DEF UploadFits, Cleared
      <4>4. r.pc = "commit"
        BY <1>7, <1>8, <4>1
      <4>5. QED
        BY <1>2, <1>7, <3>5, <3>6, <4>2, <4>3, <4>4 DEF UploadFits
    <3>12. r.kind = "delete" => DeleteFits(r, e, image, product)
      <4>1. SUFFICES ASSUME q.kind = "delete" PROVE DeleteFits(r, e, image, product)
        BY <1>7
      <4>2. DeleteFits(q, d, image, product)
        BY <1>3, <4>1
      <4>3. ~ Overtaken(q, product)
        BY <1>1, <2>2 DEF Overtaken, GalleryRequest, ProductRows
      <4>4. /\ q.row \in Images /\ q.row \in DOMAIN d /\ d[q.row].state = "deleted"
            /\ image[q.row].state = "live" /\ DOMAIN d = {q.row}
            /\ q.cover = None => q.primary
            /\ q.cover # None =>
                 /\ q.cover \in Images /\ q.cover # q.row /\ image[q.cover].state # "none"
                 /\ q.cover \in DOMAIN q.seen
                 /\ ~ q.primary
        BY <1>2, <4>2, <4>3 DEF DeleteFits
      <4>5. q.row \in DOMAIN e /\ e[q.row].state = "deleted" /\ DOMAIN e = {0, q.row}
        BY <3>5, <3>6, <4>4
      <4>6. QED
        BY <1>7, <1>8, <4>1, <4>4, <4>5 DEF DeleteFits
    <3>13. KindFits(r, e, image, product, files)
      BY <1>3, <1>7, <1>8, <3>10, <3>11, <3>12 DEF KindFits, GalleryKinds
    <3>14. RequestFits(r, With(gdraft[w], 0, x), image, product, files)
      BY <1>7, <1>9, <3>4, <3>5, <3>8, <3>9, <3>13 DEF RequestFits
    <3>15. greq[w].pc = "cover" /\ r.loaded = greq[w].loaded
      BY <1>2, <1>7
    <3>16. NewPrimary(gdraft[w], image) => r.pc = "commit"
      BY <1>12
    <3>17. QED
      BY <1>4, <1>10, <1>11, <3>2, <3>3, <3>14, <3>15, <3>16, CoverKeepsGallery
  <2>3. QED
    BY <2>1, <2>2
<1>15. QED
  BY <1>13, <1>14
(* Promote: a new primary passes the unique index.                         *)
LEMMA PromoteKeeps ==
  ASSUME GalleryInv, NEW w \in Workers, Promote(w)
  PROVE  GalleryInv'
<1> DEFINE d == gdraft[w]
           q == greq[w]
<1>1. /\ q \in GalleryRequest /\ d \in GalleryDrafts
      /\ WrittenFits(q, d, image, files) /\ ProductWritten(q, d, product)
      /\ LoadedFits(q, image, product) /\ SeenFits(q, image)
      /\ KindFits(q, d, image, product, files)
  BY FieldsOfGallery
<1>2. q.pc = "promote"
  BY DEF Promote
<1>3. q.kind = "delete" /\ DeleteFits(q, d, image, product)
  BY <1>1, <1>2, KindOfPosition DEF Busy
<1>4. /\ q.row \in Images /\ q.row \in DOMAIN d /\ d[q.row].state = "deleted"
      /\ image[q.row].state = "live"
      /\ q.cover # None /\ ~ q.primary /\ DOMAIN d \subseteq {0, q.row}
      /\ q.cover \in Images /\ q.cover # q.row /\ q.cover \in DOMAIN q.seen
      /\ 0 \notin DOMAIN d => q.cover = q.loaded.cover
  BY <1>2, <1>3 DEF DeleteFits
<1>5. PICK a \in Images : a = q.cover
  BY <1>4
<1>6. PICK x : x = [image[a] EXCEPT !.primary = TRUE, !.version = @ + 1]
  OBVIOUS
<1>7. /\ UNCHANGED <<image, product, files>> /\ RowLockedBy(a) = {} /\ ~ EntryTaken(w, a, x)
  BY <1>5, <1>6 DEF Promote
<1>8. CASE ~ (image[a].version = q.seen[a] /\ Unique(w, a, x))
  <2>1. Undo(w)
    BY <1>5, <1>6, <1>8 DEF Promote
  <2>2. QED
    BY <1>7, <2>1, UndoKeepsGallery
<1>9. CASE image[a].version = q.seen[a] /\ Unique(w, a, x)
  <2>1. image[a].state = "live" /\ image[a] \in ImageRows
    BY <1>1, <1>4, <1>5, <1>9 DEF SeenFits, GalleryInv, GalleryTyped
  <2>2. x \in ImageRows /\ x.state = "live" /\ x.primary /\ x.version = image[a].version + 1
    <3>1. PICK row \in ImageRows : row = image[a]
      BY <2>1
    <3>2. PICK m \in Nat : m = row.version + 1
      BY DEF ImageRows
    <3>3. x = [row EXCEPT !.primary = TRUE, !.version = m]
      BY <1>6, <3>1, <3>2 DEF ImageRows
    <3>4. x \in ImageRows /\ x.primary /\ x.state = row.state /\ x.version = m
      BY <3>3 DEF ImageRows
    <3>5. QED
      BY <2>1, <3>1, <3>2, <3>4
  <2>3. PICK r : r = [q EXCEPT !.pc = "commit", !.seen = <<>>]
    OBVIOUS
  <2>4. Write(w, a, x) /\ GalleryGoto(w, r)
    BY <1>5, <1>6, <1>9, <2>3 DEF Promote
  <2>5. /\ r \in GalleryRequest /\ r.pc = "commit" /\ r.kind = "delete" /\ r.row = q.row
        /\ r.primary = q.primary /\ r.cover = a /\ r.loaded = q.loaded /\ r.seen = <<>>
    BY <1>1, <1>3, <1>5, <2>3, NothingWritten DEF GalleryRequest, GalleryPCs
  <2>6. LoadedFits(r, image, product)
    BY <1>1, <2>5 DEF LoadedFits
  <2>7. SeenFits(r, image)
    BY <2>5, NothingWritten DEF SeenFits
  <2>8. PICK e : e = With(d, a, x)
    OBVIOUS
  <2>9. /\ e \in GalleryDrafts /\ DOMAIN e = DOMAIN d \cup {a} /\ e[a] = x /\ a # 0
        /\ \A b \in DOMAIN d \ {a} : e[b] = d[b]
    <3>1. With(d, a, x) \in GalleryDrafts /\ DOMAIN With(d, a, x) = DOMAIN d \cup {a}
          /\ With(d, a, x)[a] = x /\ \A b \in DOMAIN d \ {a} : With(d, a, x)[b] = d[b]
      <4>1. x \in ImageRows
        BY <2>2
      <4>2. QED
        BY <1>1, <4>1, WroteImage
    <3>2. QED
      BY <2>8, <3>1, ImagesAreNumbers
  <2>10. /\ a # q.row /\ a \notin DOMAIN d
         /\ \A b \in DOMAIN d : b # a /\ e[b] = d[b]
    BY <1>4, <1>5, <2>9
  <2>11. WrittenFits(r, e, image, files)
    <3>1. SUFFICES ASSUME NEW b \in Written(e)
                   PROVE  /\ e[b] \in ImageRows
                          /\ image[b].state # "deleted" /\ e[b].state # "none"
                          /\ image[b].state # "none"
                          /\ image[b].version <= e[b].version
                          /\ e[b].version # image[b].version
                          /\ e[b].state = "live" => files[b] = "stored"
      BY DEF WrittenFits
    <3>2. CASE b = a
      <4>1. files[a] = "stored"
        BY <2>1 DEF GalleryInv, TableFits
      <4>2. QED
        BY <2>1, <2>2, <2>9, <3>2, <4>1 DEF ImageRows
    <3>3. CASE b # a
      <4>1. b \in Written(d) /\ e[b] = d[b] /\ b = q.row
        BY <1>4, <2>9, <3>1, <3>3 DEF Written
      <4>2. QED
        BY <1>1, <1>3, <1>4, <4>1 DEF WrittenFits
    <3>4. QED
      BY <3>2, <3>3
  <2>12. ProductWritten(r, e, product)
    <3>1. 0 \in DOMAIN e => 0 \in DOMAIN d /\ e[0] = d[0]
      BY <2>9
    <3>2. r.cover = q.cover
      BY <1>5, <2>5
    <3>3. QED
      BY <1>1, <2>5, <3>1, <3>2 DEF ProductWritten
  <2>13. DeleteFits(r, e, image, product)
    <3>1. /\ r.row \in DOMAIN e /\ e[r.row].state = "deleted" /\ image[r.row].state = "live"
          /\ DOMAIN e \subseteq {0, r.row, r.cover} /\ r.cover \in DOMAIN e
          /\ IsPrimary(e[r.cover]) /\ 0 \notin DOMAIN e => r.cover = r.loaded.cover
      BY <1>4, <1>5, <2>2, <2>5, <2>9, <2>10 DEF IsPrimary
    <3>2. IsPrimary(e[r.cover]) /\ (0 \notin DOMAIN e => r.cover = r.loaded.cover)
      BY <1>4, <1>5, <2>2, <2>5, <2>9 DEF IsPrimary
    <3>3. r.row \in Images /\ r.cover # None /\ ~ r.primary /\ r.cover \in Images
          /\ r.cover # r.row /\ image[r.cover].state # "none"
      BY <1>4, <1>5, <2>1, <2>5
    <3>4. QED
      BY <2>5, <3>1, <3>2, <3>3 DEF DeleteFits
  <2>14. KindFits(r, e, image, product, files)
    BY <2>5, <2>13 DEF KindFits, GalleryKinds
  <2>15. RequestFits(r, e, image, product, files)
    BY <2>5, <2>6, <2>7, <2>9, <2>11, <2>12, <2>14 DEF RequestFits
  <2>16. \A v \in Workers \ {w} : a \notin DOMAIN gdraft[v]
    BY <1>7 DEF RowLockedBy
  <2>17. /\ \A b \in Images : ~ UploadOf(r, b)
         /\ ~ LastOne(r, product) /\ greq[w].pc \notin {"cover", "commit"}
    BY <1>2, <1>4, <1>5, <2>5 DEF UploadOf, LastOne
  <2>18. RequestFits(r, With(gdraft[w], a, x), image, product, files)
    BY <2>8, <2>15
  <2>19. QED
    BY <1>7, <1>9, <2>2, <2>4, <2>5, <2>16, <2>17, <2>18, ImageKeepsGallery
<1>10. QED
  BY <1>8, <1>9

(* A permutation names every element once.                                 *)
LEMMA OrdersAsked ==
  ASSUME NEW S \in SUBSET Images, NEW asked \in SetToSeqs(S)
  PROVE  /\ asked \in Seq(Images) /\ AskedImages(asked) = S
         /\ \A i, j \in DOMAIN asked : asked[i] = asked[j] => i = j
<1> DEFINE n == Cardinality(S)
<1>1. IsFiniteSet(S) /\ n \in Nat
  BY ImagesAreNumbers, FS_Subset, FS_CardinalityType
<1> HIDE DEF n
<1>2. asked \in [1 .. n -> S] /\ \A i, j \in 1 .. n : i # j => asked[i] # asked[j]
  BY DEF SetToSeqs, n
<1>3. asked \in Injection(1 .. n, S)
  BY <1>2 DEF Injection, IsInjective
<1>4. IsFiniteSet(1 .. n) /\ Cardinality(1 .. n) = n
  BY <1>1, FS_Interval
<1>5. Cardinality(S) = n
  BY DEF n
<1>6. asked \in Surjection(1 .. n, S)
  BY <1>1, <1>3, <1>4, <1>5, FS_Injection
<1>7. \A a \in S : \E i \in 1 .. n : asked[i] = a
  BY <1>6 DEF Surjection
<1>8. asked \in Seq(Images)
  BY <1>1, <1>2
<1>9. QED
  BY <1>2, <1>7, <1>8 DEF AskedImages

(* ListForReorder: it asks for each image once.                            *)
LEMMA ListForReorderKeeps ==
  ASSUME GalleryInv, NEW w \in Workers, ListForReorder(w)
  PROVE  GalleryInv'
<1> DEFINE d == gdraft[w]
           q == greq[w]
<1>1. /\ q \in GalleryRequest /\ d \in GalleryDrafts
      /\ LoadedFits(q, image, product)
      /\ KindFits(q, d, image, product, files)
  BY FieldsOfGallery
<1>2. q.pc = "reorder"
  BY DEF ListForReorder, At
<1>3. q.kind = "reorder" /\ DOMAIN d = {}
  BY <1>1, <1>2, KindOfPosition DEF Busy, ReorderFits
<1>4. PICK live : live = LiveImages(image)
  OBVIOUS
<1>5. live \in SUBSET Images /\ live # {} /\ \A a \in live : image[a].state = "live" /\ image[a] \in ImageRows
  BY <1>4 DEF LiveImages, ListForReorder, GalleryInv, GalleryTyped
<1>6. PICK s : s = [a \in live |-> image[a].version]
  OBVIOUS
<1>7. PICK asked \in SetToSeqs(live) :
        GalleryGoto(w, [greq[w] EXCEPT !.pc = "aside", !.asked = asked, !.todo = live, !.seen = s])
  BY <1>4, <1>6 DEF ListForReorder
<1>8. /\ asked \in Seq(Images) /\ AskedImages(asked) = live
      /\ \A i, j \in DOMAIN asked : asked[i] = asked[j] => i = j
  BY <1>5, OrdersAsked
<1>9. s \in Versions /\ DOMAIN s = live /\ \A a \in live : s[a] = image[a].version
  <2>1. s \in [live -> Nat]
    BY <1>5, <1>6 DEF ImageRows
  <2>2. QED
    BY <1>5, <1>6, <2>1 DEF Versions
<1>10. PICK r : r = [q EXCEPT !.pc = "aside", !.asked = asked, !.todo = live, !.seen = s]
  OBVIOUS
<1>11. /\ r \in GalleryRequest /\ r.pc = "aside" /\ r.kind = "reorder" /\ r.asked = asked
       /\ r.todo = live /\ r.loaded = q.loaded /\ r.seen = s
  BY <1>1, <1>3, <1>5, <1>8, <1>9, <1>10 DEF GalleryRequest, GalleryPCs
<1>12. LoadedFits(r, image, product)
  BY <1>1, <1>11 DEF LoadedFits
<1>13. SeenFits(r, image)
  BY <1>5, <1>9, <1>11 DEF SeenFits, ImageRows
<1>14. ReorderFits(r, d, image)
  BY <1>3, <1>5, <1>8, <1>9, <1>11 DEF ReorderFits
<1>15. KindFits(r, d, image, product, files)
  BY <1>11, <1>14 DEF KindFits, GalleryKinds
<1>16. RequestFits(r, d, image, product, files)
  BY <1>1, <1>3, <1>11, <1>12, <1>13, <1>15, NothingYet DEF RequestFits
<1>17. (\A b \in Images : ~ UploadOf(r, b)) /\ ~ LastOne(r, product) /\ ~ NewPrimary(d, image)
  BY <1>3, <1>11, NothingYet DEF UploadOf, LastOne
<1>18. GalleryGoto(w, r) /\ UNCHANGED <<image, product, files, gdraft>>
  BY <1>7, <1>10 DEF ListForReorder
<1>19. QED
  BY <1>11, <1>16, <1>17, <1>18, MoveKeepsGallery

(* An image that is asked for has one place in the order.                  *)
LEMMA IndexFound ==
  ASSUME NEW asked \in Seq(Images), NEW a \in AskedImages(asked)
  PROVE  /\ IndexIn(a, asked) \in DOMAIN asked /\ asked[IndexIn(a, asked)] = a
         /\ IndexIn(a, asked) \in Nat /\ IndexIn(a, asked) >= 1
<1>1. \E i \in DOMAIN asked : asked[i] = a
  BY DEF AskedImages
<1>2. IndexIn(a, asked) \in DOMAIN asked /\ asked[IndexIn(a, asked)] = a
  BY <1>1 DEF IndexIn
<1>3. DOMAIN asked = 1 .. Len(asked) /\ Len(asked) \in Nat
  OBVIOUS
<1>4. QED
  BY <1>2, <1>3

(* SetAside writes one of the rows asked for after the other.              *)
LEMMA SetAsideKeeps ==
  ASSUME GalleryInv, NEW w \in Workers, SetAside(w)
  PROVE  GalleryInv'
<1> DEFINE d == gdraft[w]
           q == greq[w]
<1>1. /\ q \in GalleryRequest /\ d \in GalleryDrafts
      /\ WrittenFits(q, d, image, files)
      /\ LoadedFits(q, image, product) /\ SeenFits(q, image)
      /\ KindFits(q, d, image, product, files)
  BY FieldsOfGallery
<1>2. q.pc = "aside"
  BY DEF SetAside
<1>3. q.kind = "reorder" /\ ReorderFits(q, d, image)
  BY <1>1, <1>2, KindOfPosition DEF Busy
<1>4. /\ \A i, j \in DOMAIN q.asked : q.asked[i] = q.asked[j] => i = j
      /\ \A b \in DOMAIN d : /\ b # 0 /\ d[b].state = "live" /\ image[b].state = "live"
                             /\ d[b].primary = image[b].primary
      /\ q.todo # {} /\ DOMAIN d \cup q.todo = AskedImages(q.asked) /\ q.todo \subseteq DOMAIN q.seen
  BY <1>2, <1>3 DEF ReorderFits
<1>5. PICK a \in Images : a = Min(q.todo) /\ a \in q.todo
  <2>1. q.todo \subseteq Nat /\ q.todo \subseteq Images
    BY <1>1, ImagesAreNumbers DEF GalleryRequest
  <2>2. \E k \in q.todo : \A j \in q.todo : k <= j
    BY <1>4, <2>1, LeastImage
  <2>3. Min(q.todo) \in q.todo
    BY <2>2 DEF Min
  <2>4. QED
    BY <2>1, <2>3
<1>6. UNCHANGED <<image, product, files>> /\ RowLockedBy(a) = {}
  BY <1>5 DEF SetAside
<1>7. CASE image[a].version # q.seen[a]
  <2>1. Undo(w)
    BY <1>5, <1>7 DEF SetAside
  <2>2. QED
    BY <1>6, <2>1, UndoKeepsGallery
<1>8. CASE image[a].version = q.seen[a]
  <2>1. image[a].state = "live" /\ image[a] \in ImageRows
    BY <1>1, <1>4, <1>5, <1>8 DEF SeenFits, GalleryInv, GalleryTyped
  <2>2. PICK n : n = Aside + IndexIn(a, q.asked)
    OBVIOUS
  <2>3. n \in Nat
    <3>1. q.asked \in Seq(Images) /\ a \in AskedImages(q.asked)
      BY <1>1, <1>4, <1>5 DEF GalleryRequest
    <3>2. IndexIn(a, q.asked) \in Nat
      BY <3>1, IndexFound
    <3>3. QED
      BY <2>2, <3>2 DEF Aside
  <2>4. PICK x : x = [image[a] EXCEPT !.order = n, !.version = @ + 1]
    OBVIOUS
  <2>5. /\ x \in ImageRows /\ x.state = "live" /\ x.primary = image[a].primary
        /\ x.version = image[a].version + 1
    <3>1. PICK row \in ImageRows : row = image[a]
      BY <2>1
    <3>2. PICK m \in Nat : m = row.version + 1
      BY DEF ImageRows
    <3>3. x = [row EXCEPT !.order = n, !.version = m]
      BY <2>4, <3>1, <3>2 DEF ImageRows
    <3>4. /\ x \in ImageRows /\ x.state = row.state /\ x.version = m
          /\ x.primary = row.primary
      BY <2>3, <3>3 DEF ImageRows
    <3>5. QED
      BY <2>1, <3>1, <3>2, <3>4
  <2>6. PICK r : r = [q EXCEPT !.todo = @ \ {a}, !.pc = IF q.todo = {a} THEN "arrange" ELSE @]
    OBVIOUS
  <2>7. Write(w, a, x) /\ GalleryGoto(w, r)
    BY <1>5, <1>8, <2>2, <2>4, <2>6 DEF SetAside
  <2>8. PICK t \in SUBSET Images : t = q.todo \ {a}
    BY <1>1 DEF GalleryRequest
  <2>9. /\ r \in GalleryRequest /\ r.pc \in {"aside", "arrange"} /\ r.kind = "reorder"
        /\ r.todo = t /\ r.asked = q.asked /\ r.loaded = q.loaded /\ r.seen = q.seen
    <3>1. r = [q EXCEPT !.todo = t, !.pc = IF q.todo = {a} THEN "arrange" ELSE @]
      BY <1>1, <2>6, <2>8 DEF GalleryRequest
    <3>2. CASE q.todo = {a}
      <4>1. r = [q EXCEPT !.todo = t, !.pc = "arrange"]
        BY <1>1, <3>1, <3>2 DEF GalleryRequest
      <4>2. QED
        BY <1>1, <1>3, <4>1 DEF GalleryRequest, GalleryPCs
    <3>3. CASE q.todo # {a}
      <4>1. r = [q EXCEPT !.todo = t]
        BY <1>1, <3>1, <3>3 DEF GalleryRequest
      <4>2. QED
        BY <1>1, <1>2, <1>3, <4>1 DEF GalleryRequest, GalleryPCs
    <3>4. QED
      BY <3>2, <3>3
  <2>10. (r.pc = "arrange" => q.todo = {a}) /\ (r.pc = "aside" => q.todo # {a})
    <3>1. CASE q.todo = {a}
      BY <1>1, <2>6, <3>1 DEF GalleryRequest
    <3>2. CASE q.todo # {a}
      BY <1>1, <1>2, <2>6, <3>2 DEF GalleryRequest
    <3>3. QED
      BY <3>1, <3>2
  <2>11. LoadedFits(r, image, product) /\ SeenFits(r, image)
    BY <1>1, <2>9 DEF LoadedFits, SeenFits
  <2>12. PICK e : e = With(d, a, x)
    OBVIOUS
  <2>13. /\ e \in GalleryDrafts /\ DOMAIN e = DOMAIN d \cup {a} /\ e[a] = x /\ a # 0
         /\ \A b \in DOMAIN d \ {a} : e[b] = d[b]
    BY <1>1, <2>5, <2>12, WroteImage, ImagesAreNumbers
  <2>14. WrittenFits(r, e, image, files)
    <3>1. SUFFICES ASSUME NEW b \in Written(e)
                   PROVE  /\ e[b] \in ImageRows
                          /\ image[b].state # "deleted" /\ e[b].state # "none"
                          /\ image[b].state # "none"
                          /\ image[b].version <= e[b].version
                          /\ e[b].version # image[b].version
                          /\ e[b].state = "live" => files[b] = "stored"
      BY DEF WrittenFits
    <3>2. CASE b = a
      <4>1. files[a] = "stored"
        BY <2>1 DEF GalleryInv, TableFits
      <4>2. QED
        BY <2>1, <2>5, <2>13, <3>2, <4>1 DEF ImageRows
    <3>3. CASE b # a
      <4>1. b \in Written(d) /\ e[b] = d[b] /\ b \in DOMAIN d
        BY <2>13, <3>1, <3>3 DEF Written
      <4>2. QED
        BY <1>1, <1>3, <1>4, <4>1 DEF WrittenFits
    <3>4. QED
      BY <3>2, <3>3
  <2>15. 0 \notin DOMAIN e
    BY <1>4, <2>13
  <2>16. ProductWritten(r, e, product)
    BY <2>15 DEF ProductWritten
  <2>17. ReorderFits(r, e, image)
    <3>1. \A b \in DOMAIN e : /\ b # 0 /\ e[b].state = "live" /\ image[b].state = "live"
                              /\ e[b].primary = image[b].primary
      BY <1>4, <2>1, <2>5, <2>13
    <3>2. DOMAIN e \cup t = AskedImages(r.asked) /\ t \subseteq DOMAIN r.seen
      BY <1>4, <1>5, <2>8, <2>9, <2>13
    <3>3. r.pc = "aside" => t # {}
      BY <1>4, <1>5, <2>8, <2>10
    <3>4. r.pc = "arrange" => t = {}
      BY <2>8, <2>10
    <3>5. QED
      BY <1>4, <2>9, <3>1, <3>2, <3>3, <3>4 DEF ReorderFits
  <2>18. KindFits(r, e, image, product, files)
    BY <2>9, <2>17 DEF KindFits, GalleryKinds
  <2>19. RequestFits(r, With(gdraft[w], a, x), image, product, files)
    BY <2>9, <2>11, <2>12, <2>13, <2>14, <2>16, <2>18 DEF RequestFits
  <2>20. \A v \in Workers \ {w} : a \notin DOMAIN gdraft[v]
    BY <1>6 DEF RowLockedBy
  <2>21. /\ \A b \in Images : ~ UploadOf(r, b)
         /\ ~ LastOne(r, product) /\ greq[w].pc \notin {"cover", "commit"}
         /\ ~ (IsPrimary(x) /\ ~ IsPrimary(image[a]))
    BY <1>2, <2>1, <2>5, <2>9 DEF UploadOf, LastOne, IsPrimary
  <2>22. QED
    BY <1>6, <2>5, <2>7, <2>9, <2>19, <2>20, <2>21, ImageKeepsGallery
<1>9. QED
  BY <1>7, <1>8
(* The second phase changes orders and versions only.                      *)
LEMMA ArrangeKeeps ==
  ASSUME GalleryInv, NEW w \in Workers, Arrange(w)
  PROVE  GalleryInv'
<1> DEFINE d == gdraft[w]
           q == greq[w]
           Arranged(a) == [d[a] EXCEPT !.order = IndexIn(a, q.asked) - 1, !.version = @ + 1]
<1>1. /\ q \in GalleryRequest /\ d \in GalleryDrafts
      /\ WrittenFits(q, d, image, files)
      /\ LoadedFits(q, image, product) /\ SeenFits(q, image)
      /\ KindFits(q, d, image, product, files)
  BY FieldsOfGallery
<1>2. q.pc = "arrange"
  BY DEF Arrange
<1>3. q.kind = "reorder" /\ ReorderFits(q, d, image)
  BY <1>1, <1>2, KindOfPosition DEF Busy
<1>4. /\ \A i, j \in DOMAIN q.asked : q.asked[i] = q.asked[j] => i = j
      /\ \A b \in DOMAIN d : /\ b # 0 /\ d[b].state = "live" /\ image[b].state = "live"
                             /\ d[b].primary = image[b].primary
      /\ DOMAIN d = AskedImages(q.asked)
  BY <1>2, <1>3 DEF ReorderFits
<1>5. UNCHANGED <<image, product, files>>
  BY DEF Arrange
<1>6. CASE ~ \A b \in LiveImages(image) \ DOMAIN d : image[b].order >= Len(q.asked)
  <2>1. Undo(w)
    BY <1>6 DEF Arrange
  <2>2. QED
    BY <1>5, <2>1, UndoKeepsGallery
<1>7. CASE \A b \in LiveImages(image) \ DOMAIN d : image[b].order >= Len(q.asked)
  <2>1. PICK e : e = [a \in DOMAIN d |-> Arranged(a)]
    OBVIOUS
  <2>2. /\ gdraft' = [gdraft EXCEPT ![w] = e] /\ greq' = [greq EXCEPT ![w] = [q EXCEPT !.pc = "commit"]]
    <3>1. gdraft' = [gdraft EXCEPT ![w] = [a \in DOMAIN @ |-> Arranged(a)]]
      BY <1>7 DEF Arrange
    <3>2. gdraft' = [gdraft EXCEPT ![w] = e]
      BY <2>1, <3>1 DEF GalleryInv, GalleryTyped
    <3>3. QED
      BY <1>7, <3>2 DEF Arrange, Step, GalleryGoto
  <2>3. PICK r : r = [q EXCEPT !.pc = "commit"]
    OBVIOUS
  <2>4. /\ r \in GalleryRequest /\ r.pc = "commit" /\ r.kind = "reorder"
        /\ r.asked = q.asked /\ r.loaded = q.loaded /\ r.seen = q.seen
    BY <1>1, <1>3, <2>3 DEF GalleryRequest, GalleryPCs
  <2>5. DOMAIN e = DOMAIN d
    BY <2>1
  <2>6. ASSUME NEW b \in DOMAIN d
        PROVE  /\ b \in Images /\ e[b] \in ImageRows /\ e[b].state = "live"
               /\ IsPrimary(e[b]) => IsPrimary(image[b])
               /\ e[b].primary = image[b].primary
               /\ e[b].order = IndexIn(b, q.asked) - 1
               /\ image[b].version <= e[b].version /\ e[b].version # image[b].version
               /\ files[b] = "stored"
    <3>1. b \in Written(d) /\ b \in Images
      BY <1>1, <1>4, <2>6, WrittenImages DEF Written
    <3>2. PICK row \in ImageRows : row = d[b]
      BY <1>1, <3>1 DEF WrittenFits
    <3>3. PICK n \in Nat : n = IndexIn(b, q.asked) - 1
      <4>1. q.asked \in Seq(Images) /\ b \in AskedImages(q.asked)
        BY <1>1, <1>4, <2>6 DEF GalleryRequest
      <4>2. IndexIn(b, q.asked) \in Nat /\ IndexIn(b, q.asked) >= 1
        BY <4>1, IndexFound
      <4>3. QED
        BY <4>2
    <3>4. PICK m \in Nat : m = row.version + 1
      BY DEF ImageRows
    <3>5. PICK x : x = e[b]
      OBVIOUS
    <3>6. x = [row EXCEPT !.order = n, !.version = m]
      BY <2>1, <3>2, <3>3, <3>4, <3>5 DEF ImageRows
    <3>7. /\ x \in ImageRows /\ x.state = row.state /\ x.version = m /\ x.order = n
          /\ x.primary = row.primary
      BY <3>6 DEF ImageRows
    <3>8. x.state = "live" /\ x.primary = image[b].primary /\ image[b].state = "live"
      BY <1>4, <2>6, <3>2, <3>7
    <3>9. IsPrimary(x) => IsPrimary(image[b])
      BY <3>8 DEF IsPrimary
    <3>10. image[b].version <= x.version /\ x.version # image[b].version
      <4>1. image[b].version <= row.version /\ image[b].version \in Nat /\ row.version \in Nat
        BY <1>1, <3>1, <3>2 DEF WrittenFits, ImageRows, GalleryInv, GalleryTyped
      <4>2. QED
        BY <3>4, <3>7, <4>1
    <3>11. files[b] = "stored"
      BY <3>1, <3>8 DEF GalleryInv, TableFits
    <3>12. QED
      BY <3>1, <3>3, <3>5, <3>7, <3>8, <3>9, <3>10, <3>11
  <2>7. e \in GalleryDrafts
    <3>1. e \in [DOMAIN d -> ImageRows \cup ProductRows]
      BY <2>1, <2>5, <2>6
    <3>2. DOMAIN d \in SUBSET ({0} \cup Images)
      BY <1>1, WrittenImages
    <3>3. QED
      BY <3>1, <3>2 DEF GalleryDrafts
  <2> HIDE DEF Arranged
  <2>8. LoadedFits(r, image, product) /\ SeenFits(r, image)
    BY <1>1, <2>4 DEF LoadedFits, SeenFits
  <2>9. WrittenFits(r, e, image, files)
    <3>1. SUFFICES ASSUME NEW b \in DOMAIN d
                   PROVE  /\ e[b] \in ImageRows
                          /\ image[b].state = "live" /\ e[b].state = "live"
                          /\ image[b].version <= e[b].version
                          /\ e[b].version # image[b].version
                          /\ files[b] = "stored"
      BY <2>5 DEF WrittenFits, Written
    <3>2. QED
      BY <1>4, <2>6
  <2>10. 0 \notin DOMAIN e
    BY <1>4, <2>5
  <2>11. ProductWritten(r, e, product)
    BY <2>10 DEF ProductWritten
  <2>12. \A i \in DOMAIN r.asked : e[r.asked[i]].order = i - 1
    <3>1. SUFFICES ASSUME NEW i \in DOMAIN q.asked PROVE e[q.asked[i]].order = i - 1
      BY <2>4
    <3>2. PICK b : b = q.asked[i]
      OBVIOUS
    <3>3. q.asked \in Seq(Images) /\ b \in AskedImages(q.asked)
      BY <1>1, <3>2 DEF GalleryRequest, AskedImages
    <3>4. IndexIn(b, q.asked) = i
      BY <1>4, <3>2, <3>3, IndexFound
    <3>5. QED
      BY <1>4, <2>6, <3>2, <3>3, <3>4
  <2>13. ReorderFits(r, e, image)
    <3>1. \A b \in DOMAIN e : /\ b # 0 /\ e[b].state = "live" /\ image[b].state = "live"
                              /\ e[b].primary = image[b].primary
      BY <1>4, <2>5, <2>6
    <3>2. QED
      BY <1>4, <2>4, <2>5, <2>12, <3>1 DEF ReorderFits
  <2>14. KindFits(r, e, image, product, files)
    BY <2>4, <2>13 DEF KindFits, GalleryKinds
  <2>15. RequestFits(r, e, image, product, files)
    BY <2>4, <2>7, <2>8, <2>9, <2>11, <2>14 DEF RequestFits
  <2>16. ~ NewPrimary(e, image)
    BY <2>5, <2>6 DEF NewPrimary, Written
  <2>17. Holds(e, image) => Holds(d, image)
    BY <2>5, <2>6 DEF Holds, Written
  <2>18. \A v \in Workers \ {w} : NewPrimary(gdraft[v], image) => ~ Holds(e, image)
    BY <2>17 DEF GalleryInv, WriterHolds
  <2>19. \A v \in Workers \ {w} : DOMAIN e \cap DOMAIN gdraft[v] = {}
    BY <2>5 DEF GalleryInv, RowsApart
  <2>20. /\ files \in [Images -> FileStates] /\ TableFits(image, product, files)
         /\ \A b \in Images : files[b] = "stored" => files[b] = "stored" \/ image[b].state = "deleted"
    BY DEF GalleryInv, GalleryTyped
  <2>21. (\A b \in Images : ~ UploadOf(r, b)) /\ ~ LastOne(r, product)
    BY <2>4 DEF UploadOf, LastOne
  <2>22. Moves(w, r, e, files)
    BY <2>4, <2>15, <2>16, <2>18, <2>19, <2>20, <2>21 DEF Moves
  <2>23. files' = files /\ image' = image /\ product' = product
    BY <1>5
  <2>24. QED
    BY <2>2, <2>3, <2>22, <2>23, OneMoves
<1>8. QED
  BY <1>6, <1>7

(* DestroyFile: the row is deleted by now.                                 *)
LEMMA DestroyFileKeeps ==
  ASSUME GalleryInv, NEW w \in Workers, DestroyFile(w)
  PROVE  GalleryInv'
<1> DEFINE d == gdraft[w]
           q == greq[w]
<1>1. /\ q \in GalleryRequest /\ d \in GalleryDrafts
      /\ KindFits(q, d, image, product, files)
  BY FieldsOfGallery
<1>2. q.pc = "destroy"
  BY DEF DestroyFile, At
<1>3. q.row \in Images /\ image[q.row].state = "deleted" /\ DOMAIN d = {}
  BY <1>1, <1>2 DEF KindFits, DestroyFits
<1>4. PICK a \in Images : a = q.row
  BY <1>3
<1>5. d = <<>>
  <2>1. PICK S \in SUBSET ({0} \cup Images) : d \in [S -> ImageRows \cup ProductRows]
    BY <1>1 DEF GalleryDrafts
  <2>2. d \in [{} -> ImageRows \cup ProductRows]
    BY <1>3, <2>1
  <2>3. d = [b \in {} |-> 0]
    BY <2>2
  <2>4. QED
    BY <2>3
<1>6. /\ greq' = [greq EXCEPT ![w] = GalleryIdle] /\ gdraft' = [gdraft EXCEPT ![w] = <<>>]
      /\ image' = image /\ product' = product /\ files' = [files EXCEPT ![a] = "gone"]
  BY <1>4, <1>5 DEF DestroyFile, GalleryGoto, GalleryInv, GalleryTyped
<1>7. /\ files \in [Images -> FileStates] /\ product \in ProductRows
      /\ TableFits(image, product, files)
  BY DEF GalleryInv, GalleryTyped
<1>8. PICK now : now = files'
  OBVIOUS
<1>9. /\ now \in [Images -> FileStates] /\ now[a] = "gone"
      /\ \A b \in Images \ {a} : now[b] = files[b]
  BY <1>6, <1>7, <1>8 DEF FileStates
<1>10. TableFits(image, product, now)
  BY <1>3, <1>4, <1>7, <1>9 DEF TableFits
<1>11. \A b \in Images : files[b] = "stored" => now[b] = "stored" \/ image[b].state = "deleted"
  BY <1>3, <1>4, <1>9
<1>12. product.version >= 1
  BY <1>7 DEF TableFits
<1>13. /\ RequestFits(GalleryIdle, <<>>, image, product, now) /\ ~ Busy(GalleryIdle)
       /\ GalleryIdle.loaded = NotLoaded
       /\ ~ NewPrimary(<<>>, image) /\ ~ Holds(<<>>, image)
  BY <1>7, <1>12, IdleGallery
<1>14. ~ LastOne(GalleryIdle, product) /\ \A b \in Images : ~ UploadOf(GalleryIdle, b)
  BY <1>13 DEF LastOne, UploadOf
<1>15. \A v \in Workers \ {w} : DOMAIN <<>> \cap DOMAIN gdraft[v] = {}
  BY NothingWritten
<1> DEFINE r == GalleryIdle
           e == <<>>
<1>16. /\ greq' = [greq EXCEPT ![w] = r] /\ gdraft' = [gdraft EXCEPT ![w] = e]
       /\ RequestFits(r, e, image, product, now) /\ r.loaded \in {greq[w].loaded, NotLoaded, product}
       /\ \A b \in Images : ~ UploadOf(r, b)
       /\ ~ LastOne(r, product) /\ ~ NewPrimary(e, image) /\ ~ Holds(e, image)
       /\ \A v \in Workers \ {w} : DOMAIN e \cap DOMAIN gdraft[v] = {}
  BY <1>6, <1>13, <1>14, <1>15
<1> HIDE DEF r, e
<1>17. Moves(w, r, e, now)
  BY <1>9, <1>10, <1>11, <1>16 DEF Moves
<1>18. QED
  BY <1>6, <1>8, <1>16, <1>17, OneMoves
-----------------------------------------------------------------------------
(* A transaction that commits what it has written.                         *)
Commits(r, d, table, prod, kept, after, next) ==
  /\ RequestFits(r, d, table, prod, kept) /\ r.pc = "commit"
  /\ TableFits(table, prod, kept)
  /\ table \in [Images -> ImageRows] /\ after \in [Images -> ImageRows]
  /\ prod \in ProductRows /\ next \in ProductRows
  /\ \A b \in Written(d) : b \in Images /\ after[b] = d[b]
  /\ \A b \in Images \ DOMAIN d : after[b] = table[b]
  /\ next = IF 0 \in DOMAIN d THEN d[0] ELSE prod

(* What Commit does, on the values before and after it.                    *)
LEMMA CommitCommits ==
  ASSUME GalleryInv, NEW w \in Workers, Commit(w)
  PROVE  Commits(greq[w], gdraft[w], image, product, files, image', product')
<1>1. /\ RequestFits(greq[w], gdraft[w], image, product, files)
      /\ ProductWritten(greq[w], gdraft[w], product) /\ greq[w] \in GalleryRequest
      /\ TableFits(image, product, files) /\ greq[w].pc = "commit"
      /\ image \in [Images -> ImageRows] /\ product \in ProductRows
  BY FieldsOfGallery DEF GalleryInv, GalleryTyped, Commit, At
<1>2. image' = ImageView(w)
  BY DEF Commit
<1>3. /\ image' \in [Images -> ImageRows]
      /\ \A b \in Written(gdraft[w]) : b \in Images /\ image'[b] = gdraft[w][b]
      /\ \A b \in Images \ DOMAIN gdraft[w] : image'[b] = image[b]
  BY <1>2, ViewOfImages
<1>4. product' = IF 0 \in DOMAIN gdraft[w] THEN gdraft[w][0] ELSE product
  BY DEF Commit
<1>5. product' \in ProductRows
  BY <1>1, <1>4 DEF ProductWritten, ProductRow, ProductRows, GalleryRequest
<1>6. QED
  BY <1>1, <1>3, <1>4, <1>5 DEF Commits

(* What the invariant says of who commits.                                 *)
LEMMA CommitFields ==
  ASSUME NEW r, NEW d, NEW table, NEW prod, NEW kept, NEW after, NEW next,
         Commits(r, d, table, prod, kept, after, next)
  PROVE  /\ r \in GalleryRequest /\ d \in GalleryDrafts
         /\ WrittenFits(r, d, table, kept) /\ ProductWritten(r, d, prod)
         /\ LoadedFits(r, table, prod)
         /\ r.kind \in {"edit", "upload", "delete", "reorder"}
         /\ r.kind = "edit" => EditsFit(r, d)
         /\ r.kind = "upload" => UploadFits(r, d, table, kept)
         /\ r.kind = "delete" => DeleteFits(r, d, table, prod)
         /\ r.kind = "reorder" => ReorderFits(r, d, table)
         /\ Written(d) = DOMAIN d \cap Images
         /\ 0 \notin Images
<1>1. /\ r \in GalleryRequest /\ d \in GalleryDrafts
      /\ WrittenFits(r, d, table, kept) /\ ProductWritten(r, d, prod)
      /\ LoadedFits(r, table, prod) /\ KindFits(r, d, table, prod, kept) /\ Busy(r)
  BY DEF Commits, RequestFits, Busy
<1>2. QED
  BY <1>1, KindOfPosition, WrittenImages, ImagesAreNumbers DEF GalleryKinds

(* A product that is written has the version and cover loaded.             *)
LEMMA CommittedProduct ==
  ASSUME NEW r, NEW d, NEW table, NEW prod, NEW kept, NEW after, NEW next,
         Commits(r, d, table, prod, kept, after, next)
  PROVE  /\ 0 \notin DOMAIN d => next = prod
         /\ 0 \in DOMAIN d => /\ next.cover = r.cover /\ next.version = prod.version + 1
                              /\ prod.version = r.loaded.version /\ prod.cover = r.loaded.cover
         /\ prod.version <= next.version
         /\ next.version = prod.version => next = prod
<1>1. ProductWritten(r, d, prod) /\ LoadedFits(r, table, prod) /\ prod.version \in Nat
  BY CommitFields DEF Commits, ProductRows
<1>2. next = IF 0 \in DOMAIN d THEN d[0] ELSE prod
  BY DEF Commits
<1>3. CASE 0 \notin DOMAIN d
  BY <1>1, <1>2, <1>3
<1>4. CASE 0 \in DOMAIN d
  <2>1. next = ProductRow(r.cover, prod.version + 1) /\ prod.version = r.loaded.version
    BY <1>1, <1>2, <1>4 DEF ProductWritten
  <2>2. next.cover = r.cover /\ next.version = prod.version + 1
    BY <2>1 DEF ProductRow
  <2>3. prod.cover = r.loaded.cover
    BY <1>1, <2>1 DEF LoadedFits
  <2>4. QED
    BY <1>1, <1>4, <2>1, <2>2, <2>3
<1>5. QED
  BY <1>3, <1>4

(* Commits by kind: what becomes of the images, and of the product.        *)
Unmoved(table, after, S) == \A b \in Images \ S : after[b] = table[b]

(* An edit leaves the images, and the cover or chooses one.                *)
LEMMA EditCommits ==
  ASSUME NEW r, NEW d, NEW table, NEW prod, NEW kept, NEW after, NEW next,
         Commits(r, d, table, prod, kept, after, next), r.kind = "edit"
  PROVE  Unmoved(table, after, {}) /\ next.cover \in {prod.cover, Chosen}
<1>1. EditsFit(r, d) /\ r.pc = "commit" /\ 0 \notin Images
  BY CommitFields DEF Commits
<1>2. DOMAIN d = {0} /\ r.cover \in {r.loaded.cover, Chosen}
  BY <1>1 DEF EditsFit
<1>3. Unmoved(table, after, {})
  BY <1>1, <1>2 DEF Commits, Unmoved
<1>4. QED
  BY <1>2, <1>3, CommittedProduct

(* An upload adds its row, and clears the primary it replaces.             *)
LEMMA UploadCommits ==
  ASSUME NEW r, NEW d, NEW table, NEW prod, NEW kept, NEW after, NEW next,
         Commits(r, d, table, prod, kept, after, next), r.kind = "upload"
  PROVE  /\ r.row \in Images /\ table[r.row].state = "none" /\ kept[r.row] = "stored"
         /\ after[r.row].state = "live" /\ after[r.row].primary = r.primary
         /\ \A b \in Images \ {r.row} : after[b] # table[b] =>
              /\ r.primary /\ IsPrimary(table[b]) /\ after[b].state = "live" /\ ~ after[b].primary
         /\ r.primary => next.cover = r.row /\ next.version = prod.version + 1
         /\ ~ r.primary => next = prod
<1>1. UploadFits(r, d, table, kept) /\ r.pc = "commit" /\ 0 \notin Images /\ Written(d) = DOMAIN d \cap Images
  BY CommitFields DEF Commits
<1>2. /\ r.row \in Images /\ table[r.row].state = "none" /\ kept[r.row] = "stored"
      /\ r.row \in DOMAIN d /\ d[r.row].state = "live" /\ d[r.row].primary = r.primary
      /\ \A a \in DOMAIN d \ {0, r.row} : Cleared(d, table, a)
      /\ r.primary \/ DOMAIN d = {r.row}
      /\ r.cover = r.row
      /\ r.primary => 0 \in DOMAIN d
  BY <1>1 DEF UploadFits
<1>3. after[r.row] = d[r.row]
  BY <1>1, <1>2 DEF Commits
<1>4. ASSUME NEW b \in Images \ {r.row}, after[b] # table[b]
      PROVE  r.primary /\ IsPrimary(table[b]) /\ after[b].state = "live" /\ ~ after[b].primary
  <2>1. b \in DOMAIN d /\ b # 0
    BY <1>1, <1>4 DEF Commits
  <2>2. after[b] = d[b]
    BY <1>1, <2>1 DEF Commits
  <2>3. Cleared(d, table, b) /\ r.primary
    BY <1>2, <1>4, <2>1
  <2>4. PICK row \in ImageRows : row = table[b]
    BY DEF Commits
  <2>5. IsPrimary(row) /\ after[b] = [row EXCEPT !.primary = FALSE]
    BY <2>2, <2>3, <2>4 DEF Cleared
  <2>6. PICK x : x = after[b]
    OBVIOUS
  <2>7. x.state = "live" /\ ~ x.primary
    BY <2>5, <2>6 DEF ImageRows, IsPrimary
  <2>8. QED
    BY <2>3, <2>4, <2>5, <2>6, <2>7
<1>5. r.primary => next.cover = r.row /\ next.version = prod.version + 1
  BY <1>2, CommittedProduct
<1>6. ~ r.primary => next = prod
  BY <1>1, <1>2, CommittedProduct
<1>7. QED
  BY <1>2, <1>3, <1>4, <1>5, <1>6

(* A reordering leaves the primary and the cover.                          *)
LEMMA ReorderCommits ==
  ASSUME NEW r, NEW d, NEW table, NEW prod, NEW kept, NEW after, NEW next,
         Commits(r, d, table, prod, kept, after, next), r.kind = "reorder"
  PROVE  /\ \A b \in Images : /\ after[b].state = table[b].state
                              /\ IsPrimary(after[b]) <=> IsPrimary(table[b])
         /\ next = prod
         /\ \A i \in DOMAIN r.asked :
              /\ r.asked[i] \in Images /\ after[r.asked[i]].state = "live"
              /\ after[r.asked[i]].order = i - 1
<1>1. /\ ReorderFits(r, d, table) /\ r.pc = "commit" /\ 0 \notin Images
      /\ Written(d) = DOMAIN d \cap Images
  BY CommitFields DEF Commits
<1>2. /\ \A a \in DOMAIN d : /\ a # 0 /\ d[a].state = "live" /\ table[a].state = "live"
                             /\ d[a].primary = table[a].primary
      /\ DOMAIN d = AskedImages(r.asked)
      /\ \A i \in DOMAIN r.asked : d[r.asked[i]].order = i - 1
  BY <1>1 DEF ReorderFits
<1>3. \A a \in DOMAIN d : a \in Images /\ after[a] = d[a]
  BY <1>2 DEF Commits, Written
<1>4. \A b \in Images : /\ after[b].state = table[b].state
                        /\ IsPrimary(after[b]) <=> IsPrimary(table[b])
  <2>1. SUFFICES ASSUME NEW b \in Images
                 PROVE  /\ after[b].state = table[b].state
                        /\ IsPrimary(after[b]) <=> IsPrimary(table[b])
    OBVIOUS
  <2>2. CASE b \in DOMAIN d
    BY <1>2, <1>3, <2>2 DEF IsPrimary
  <2>3. CASE b \notin DOMAIN d
    BY <2>3 DEF Commits
  <2>4. QED
    BY <2>2, <2>3
<1>5. next = prod
  BY <1>2, CommittedProduct
<1>6. \A i \in DOMAIN r.asked : r.asked[i] \in DOMAIN d
  BY <1>2 DEF AskedImages
<1>7. QED
  BY <1>2, <1>3, <1>4, <1>5, <1>6

(* The four ways a deletion can end.                                       *)
Ordinary(r, table, prod, after, next) ==
  /\ r.cover = None /\ ~ r.primary /\ ~ IsPrimary(table[r.row])
  /\ Unmoved(table, after, {r.row}) /\ next = prod

Emptied(r, table, prod, after, next) ==
  /\ r.cover = None /\ r.primary /\ Unmoved(table, after, {r.row})
  /\ \/ next = prod /\ r.loaded.cover = None
     \/ next.cover = None /\ LastOne(r, prod) /\ prod.version < next.version

Replaced(r, table, prod, after, next) ==
  /\ r.cover \in Images /\ r.cover # r.row /\ ~ r.primary
  /\ table[r.cover].state = "live" /\ IsPrimary(after[r.cover])
  /\ Unmoved(table, after, {r.row, r.cover})
  /\ \/ next = prod /\ r.cover = r.loaded.cover
     \/ next.cover = r.cover /\ prod.version < next.version

Beside(r, table, prod, after, next) ==
  /\ r.cover # None /\ r.primary /\ ~ IsPrimary(table[r.row])
  /\ Unmoved(table, after, {r.row}) /\ next = prod

(* A deletion ends in one of the four ways.                                *)
LEMMA DeleteCommits ==
  ASSUME NEW r, NEW d, NEW table, NEW prod, NEW kept, NEW after, NEW next,
         Commits(r, d, table, prod, kept, after, next), r.kind = "delete"
  PROVE  /\ r.row \in Images /\ table[r.row].state = "live" /\ after[r.row].state = "deleted"
         /\ \/ Ordinary(r, table, prod, after, next)
            \/ Emptied(r, table, prod, after, next)
            \/ Replaced(r, table, prod, after, next)
            \/ Beside(r, table, prod, after, next)
<1>1. /\ DeleteFits(r, d, table, prod) /\ r.pc = "commit" /\ 0 \notin Images
      /\ Written(d) = DOMAIN d \cap Images /\ WrittenFits(r, d, table, kept)
      /\ r \in GalleryRequest
  BY CommitFields DEF Commits
<1>2. /\ r.row \in Images /\ r.row \in DOMAIN d /\ d[r.row].state = "deleted"
      /\ table[r.row].state = "live" /\ after[r.row] = d[r.row]
  BY <1>1 DEF DeleteFits, Commits
<1>3. \A b \in Images \ DOMAIN d : after[b] = table[b]
  BY DEF Commits
<1>4. CASE r.cover = None /\ ~ r.primary
  <2>1. DOMAIN d = {r.row} /\ ~ IsPrimary(table[r.row])
    BY <1>1, <1>4 DEF DeleteFits
  <2>2. next = prod
    BY <1>1, <1>2, <2>1, CommittedProduct
  <2>3. Unmoved(table, after, {r.row})
    BY <1>3, <2>1 DEF Unmoved
  <2>4. QED
    BY <1>2, <1>4, <2>1, <2>2, <2>3 DEF Ordinary
<1>5. CASE r.cover = None /\ r.primary
  <2>1. DOMAIN d \subseteq {0, r.row} /\ (0 \notin DOMAIN d => r.cover = r.loaded.cover)
    BY <1>1, <1>5 DEF DeleteFits
  <2>2. Unmoved(table, after, {r.row})
    BY <1>1, <1>3, <2>1 DEF Unmoved
  <2>3. CASE 0 \notin DOMAIN d
    <3>1. next = prod /\ r.loaded.cover = None
      BY <1>5, <2>1, <2>3, CommittedProduct
    <3>2. QED
      BY <1>2, <1>5, <2>2, <3>1 DEF Emptied
  <2>4. CASE 0 \in DOMAIN d
    <3>1. /\ next.cover = None /\ next.version = prod.version + 1
          /\ prod.version = r.loaded.version /\ prod.version \in Nat
      BY <1>5, <2>4, CommittedProduct DEF Commits, ProductRows
    <3>2. LastOne(r, prod)
      BY <1>1, <1>5, <3>1 DEF LastOne, Busy
    <3>3. QED
      BY <1>2, <1>5, <2>2, <3>1, <3>2 DEF Emptied
  <2>5. QED
    BY <2>3, <2>4
<1>6. CASE r.cover # None /\ ~ r.primary
  <2>1. /\ r.cover \in Images /\ r.cover # r.row
        /\ DOMAIN d \subseteq {0, r.row, r.cover} /\ r.cover \in DOMAIN d /\ IsPrimary(d[r.cover])
        /\ 0 \notin DOMAIN d => r.cover = r.loaded.cover
    BY <1>1, <1>6 DEF DeleteFits
  <2>2. Unmoved(table, after, {r.row, r.cover})
    BY <1>1, <1>3, <2>1 DEF Unmoved
  <2>3. after[r.cover] = d[r.cover]
    BY <1>1, <2>1 DEF Commits
  <2>4. table[r.cover].state = "live"
    <3>1. table[r.cover].state \notin {"deleted", "none"}
      BY <1>1, <2>1 DEF WrittenFits, DeleteFits
    <3>2. table[r.cover] \in ImageRows
      BY <2>1 DEF Commits
    <3>3. QED
      BY <3>1, <3>2 DEF ImageRows
  <2>5. CASE 0 \notin DOMAIN d
    <3>1. next = prod
      BY <2>5, CommittedProduct
    <3>2. QED
      BY <1>2, <1>6, <2>1, <2>2, <2>3, <2>4, <2>5, <3>1 DEF Replaced
  <2>6. CASE 0 \in DOMAIN d
    <3>1. next.cover = r.cover /\ next.version = prod.version + 1 /\ prod.version \in Nat
      BY <2>6, CommittedProduct DEF Commits, ProductRows
    <3>2. QED
      BY <1>2, <1>6, <2>1, <2>2, <2>3, <2>4, <3>1 DEF Replaced
  <2>7. QED
    BY <2>5, <2>6
<1>7. CASE r.cover # None /\ r.primary
  <2>1. DOMAIN d = {r.row} /\ ~ IsPrimary(table[r.row])
    BY <1>1, <1>7 DEF DeleteFits
  <2>2. next = prod
    BY <1>1, <1>2, <2>1, CommittedProduct
  <2>3. Unmoved(table, after, {r.row})
    BY <1>3, <2>1 DEF Unmoved
  <2>4. QED
    BY <1>2, <1>7, <2>1, <2>2, <2>3 DEF Beside
<1>8. QED
  BY <1>4, <1>5, <1>6, <1>7
(* A commit brings later versions of the rows it changes.                  *)
LEMMA CommitIsLater ==
  ASSUME NEW r, NEW d, NEW table, NEW prod, NEW kept, NEW after, NEW next,
         Commits(r, d, table, prod, kept, after, next)
  PROVE  Later(table, after, prod, next)
<1>1. /\ WrittenFits(r, d, table, kept) /\ Written(d) = DOMAIN d \cap Images
      /\ prod.version <= next.version /\ (next.version = prod.version => next = prod)
  BY CommitFields, CommittedProduct
<1>2. SUFFICES ASSUME NEW b \in Images, after[b] # table[b]
               PROVE  /\ after[b].state # "none" /\ table[b].state # "deleted"
                      /\ table[b].version <= after[b].version
                      /\ after[b].version = table[b].version =>
                           /\ after[b].state = table[b].state
                           /\ IsPrimary(after[b]) => IsPrimary(table[b])
                           /\ IsPrimary(table[b]) => IsPrimary(after[b]) \/ prod.version < next.version
  BY <1>1 DEF Later
<1>3. b \in Written(d) /\ after[b] = d[b]
  BY <1>1, <1>2 DEF Commits
<1>4. /\ after[b].state # "none" /\ table[b].state # "deleted"
      /\ table[b].version <= after[b].version
      /\ after[b].version = table[b].version => r.kind = "upload" /\ r.primary /\ b # r.row
  BY <1>1, <1>3 DEF WrittenFits
<1>5. ASSUME after[b].version = table[b].version
      PROVE  /\ after[b].state = table[b].state
             /\ IsPrimary(after[b]) => IsPrimary(table[b])
             /\ prod.version < next.version
  <2>1. r.kind = "upload" /\ r.primary /\ b # r.row
    BY <1>4, <1>5
  <2>2. IsPrimary(table[b]) /\ after[b].state = "live"
    BY <1>2, <2>1, UploadCommits
  <2>3. next.version = prod.version + 1 /\ prod.version \in Nat
    <3>1. next.version = prod.version + 1
      BY <2>1, UploadCommits
    <3>2. prod.version \in Nat
      BY DEF Commits, ProductRows
    <3>3. QED
      BY <3>1, <3>2
  <2>4. QED
    BY <2>2, <2>3 DEF IsPrimary
<1>6. QED
  BY <1>4, <1>5

(* A commit leaves no cover that is live and not the primary.              *)
LEMMA CommitCover ==
  ASSUME NEW r, NEW d, NEW table, NEW prod, NEW kept, NEW after, NEW next,
         Commits(r, d, table, prod, kept, after, next), CoverFits(table, prod)
  PROVE  CoverFits(after, next)
<1>1. r.kind \in {"edit", "upload", "delete", "reorder"} /\ None \notin Images /\ Chosen \notin Images
  BY CommitFields, ImagesAreNumbers
<1>2. CASE r.kind = "edit"
  <2>1. Unmoved(table, after, {}) /\ next.cover \in {prod.cover, Chosen}
    BY <1>2, EditCommits
  <2>2. QED
    BY <1>1, <2>1 DEF Unmoved, CoverFits
<1>3. CASE r.kind = "upload"
  <2>1. CASE r.primary
    <3>1. next.cover = r.row /\ after[r.row].state = "live"
      BY <1>3, <2>1, UploadCommits
    <3>2. after[r.row].primary = r.primary
      BY <1>3, UploadCommits
    <3>3. QED
      BY <2>1, <3>1, <3>2 DEF CoverFits
  <2>2. CASE ~ r.primary
    <3>1. /\ r.row \in Images /\ table[r.row].state = "none" /\ next = prod
          /\ \A b \in Images \ {r.row} : after[b] = table[b]
      BY <1>3, <2>2, UploadCommits
    <3>2. QED
      BY <3>1 DEF CoverFits
  <2>3. QED
    BY <2>1, <2>2
<1>4. CASE r.kind = "reorder"
  <2>1. /\ \A b \in Images : /\ after[b].state = table[b].state
                             /\ IsPrimary(after[b]) <=> IsPrimary(table[b])
        /\ next = prod
    BY <1>4, ReorderCommits
  <2>2. QED
    BY <2>1 DEF CoverFits, IsPrimary
<1>5. CASE r.kind = "delete"
  <2>1. r.row \in Images /\ table[r.row].state = "live" /\ after[r.row].state = "deleted"
    BY <1>5, DeleteCommits
  <2>2. CASE Ordinary(r, table, prod, after, next)
    BY <2>1, <2>2 DEF Ordinary, Unmoved, CoverFits
  <2>3. CASE Emptied(r, table, prod, after, next)
    BY <1>1, <2>1, <2>3 DEF Emptied, Unmoved, CoverFits
  <2>4. CASE Replaced(r, table, prod, after, next)
    BY <2>1, <2>4 DEF Replaced, Unmoved, CoverFits, IsPrimary
  <2>5. CASE Beside(r, table, prod, after, next)
    BY <2>1, <2>5 DEF Beside, Unmoved, CoverFits
  <2>6. QED
    BY <1>5, <2>2, <2>3, <2>4, <2>5, DeleteCommits
<1>6. QED
  BY <1>1, <1>2, <1>3, <1>4, <1>5

(* A commit lists no image without its file.                               *)
LEMMA CommitTable ==
  ASSUME NEW r, NEW d, NEW table, NEW prod, NEW kept, NEW after, NEW next,
         Commits(r, d, table, prod, kept, after, next)
  PROVE  TableFits(after, next, kept)
<1>1. /\ WrittenFits(r, d, table, kept) /\ Written(d) = DOMAIN d \cap Images
      /\ TableFits(table, prod, kept)
      /\ prod.version \in Nat /\ next.version \in Nat /\ prod.version <= next.version
  BY CommitFields, CommittedProduct DEF Commits, ProductRows
<1>2. CoverFits(after, next)
  BY <1>1, CommitCover DEF TableFits
<1>3. ASSUME NEW b \in Images
      PROVE  /\ after[b].state = "none" => after[b].version = 0
             /\ after[b].state = "live" => kept[b] = "stored"
             /\ kept[b] = "none" => after[b].state = "none"
  <2>1. CASE b \in Written(d)
    <3>1. after[b] = d[b]
      BY <2>1 DEF Commits
    <3>2. after[b].state # "none" /\ (after[b].state = "live" => kept[b] = "stored")
      BY <1>1, <2>1, <3>1 DEF WrittenFits
    <3>3. kept[b] # "none"
      <4>1. SUFFICES ASSUME kept[b] = "none" PROVE FALSE
        OBVIOUS
      <4>2. table[b].state = "none"
        BY <1>1, <4>1 DEF TableFits
      <4>3. r.kind = "upload" /\ b = r.row
        BY <1>1, <2>1, <4>2 DEF WrittenFits
      <4>4. QED
        BY <4>1, <4>3, UploadCommits
    <3>4. QED
      BY <3>2, <3>3
  <2>2. CASE b \notin Written(d)
    <3>1. after[b] = table[b]
      BY <1>1, <2>2 DEF Commits
    <3>2. QED
      BY <1>1, <3>1 DEF TableFits
  <2>3. QED
    BY <2>1, <2>2
<1>4. prod.version >= 1
  BY <1>1 DEF TableFits
<1>5. QED
  BY <1>1, <1>2, <1>3, <1>4 DEF TableFits

(* A commit brings no second primary.                                      *)
LEMMA CommitSingle ==
  ASSUME NEW r, NEW d, NEW table, NEW prod, NEW kept, NEW after, NEW next,
         Commits(r, d, table, prod, kept, after, next),
         SinglePrimary(table), NewPrimary(d, table) => Sole(d, table)
  PROVE  SinglePrimary(after)
<1>1. Written(d) = DOMAIN d \cap Images
  BY CommitFields
<1>2. \A b \in Written(d) : b \in Images /\ after[b] = d[b]
  BY DEF Commits
<1>3. \A b \in Images \ DOMAIN d : after[b] = table[b]
  BY DEF Commits
<1>4. CASE NewPrimary(d, table)
  BY <1>1, <1>2, <1>3, <1>4 DEF Sole, SinglePrimary
<1>5. CASE ~ NewPrimary(d, table)
  <2>1. \A b \in Images : IsPrimary(after[b]) => IsPrimary(table[b])
    BY <1>1, <1>2, <1>3, <1>5 DEF NewPrimary
  <2>2. QED
    BY <2>1 DEF SinglePrimary
<1>6. QED
  BY <1>4, <1>5

(* Who becomes a primary without the product being written is the cover a  *)
(* deletion loaded; who becomes live, no primary.                          *)
LEMMA CommitUnwritten ==
  ASSUME NEW r, NEW d, NEW table, NEW prod, NEW kept, NEW after, NEW next,
         Commits(r, d, table, prod, kept, after, next), next.version = prod.version,
         NEW b \in Images, after[b].state = "live"
  PROVE  /\ table[b].state = "live" /\ IsPrimary(after[b]) =>
              IsPrimary(table[b]) \/ b = r.loaded.cover
         /\ table[b].state # "live" => table[b].state = "none" /\ ~ after[b].primary
<1>1. /\ r.kind \in {"edit", "upload", "delete", "reorder"}
      /\ prod.version \in Nat /\ table[b] \in ImageRows
  BY CommitFields DEF Commits, ProductRows
<1>2. CASE r.kind = "edit"
  BY <1>2, EditCommits DEF Unmoved
<1>3. CASE r.kind = "upload"
  <2>1. ~ r.primary
    <3>1. SUFFICES ASSUME r.primary PROVE FALSE
      OBVIOUS
    <3>2. next.version = prod.version + 1
      BY <1>3, <3>1, UploadCommits
    <3>3. QED
      BY <1>1, <3>2
  <2>2. /\ r.row \in Images /\ table[r.row].state = "none"
        /\ \A a \in Images \ {r.row} : after[a] = table[a]
    BY <1>3, <2>1, UploadCommits
  <2>3. after[r.row].primary = r.primary
    BY <1>3, UploadCommits
  <2>4. CASE b = r.row
    BY <2>1, <2>2, <2>3, <2>4
  <2>5. CASE b # r.row
    BY <2>2, <2>5
  <2>6. QED
    BY <2>4, <2>5
<1>4. CASE r.kind = "reorder"
  BY <1>4, ReorderCommits
<1>5. CASE r.kind = "delete"
  <2>1. r.row \in Images /\ after[r.row].state = "deleted"
    BY <1>5, DeleteCommits
  <2>2. CASE Ordinary(r, table, prod, after, next)
    BY <2>1, <2>2 DEF Ordinary, Unmoved
  <2>3. CASE Emptied(r, table, prod, after, next)
    BY <2>1, <2>3 DEF Emptied, Unmoved
  <2>4. CASE Replaced(r, table, prod, after, next)
    BY <1>1, <2>1, <2>4 DEF Replaced, Unmoved
  <2>5. CASE Beside(r, table, prod, after, next)
    BY <2>1, <2>5 DEF Beside, Unmoved
  <2>6. QED
    BY <1>5, <2>2, <2>3, <2>4, <2>5, DeleteCommits
<1>6. QED
  BY <1>1, <1>2, <1>3, <1>4, <1>5

(* What the handler is at after its commit.                                *)
LEMMA AfterCommit ==
  ASSUME GalleryInv, NEW w \in Workers, Commit(w),
         NEW q, q = greq'[w]
  PROVE  /\ q \in GalleryRequest /\ ~ Busy(q) /\ q.loaded.cover = None
         /\ RequestFits(q, <<>>, image', product', files')
<1> DEFINE r == greq[w]
<1>1. Commits(r, gdraft[w], image, product, files, image', product')
  BY CommitCommits
<1>2. PICK after, next : after = image' /\ next = product'
  OBVIOUS
<1>3. Commits(r, gdraft[w], image, product, files, after, next)
  BY <1>1, <1>2
<1>4. TableFits(after, next, files) /\ next \in ProductRows
  BY <1>3, CommitTable DEF Commits
<1>5. next.version >= 1
  BY <1>4 DEF TableFits
<1>6. /\ GalleryIdle \in GalleryRequest /\ GalleryIdle.pc = "idle"
      /\ GalleryIdle.loaded = NotLoaded /\ GalleryIdle.seen = <<>> /\ ~ Busy(GalleryIdle)
      /\ NotLoaded.cover = None
      /\ RequestFits(GalleryIdle, <<>>, after, next, files)
  BY <1>4, <1>5, IdleGallery
<1>7. greq \in [Workers -> GalleryRequest] /\ files' = files
  BY DEF GalleryInv, GalleryTyped, Commit
<1>8. CASE r.kind # "delete"
  <2>1. q = GalleryIdle
    BY <1>7, <1>8 DEF Commit, GalleryGoto
  <2>2. QED
    BY <1>2, <1>6, <1>7, <2>1
<1>9. CASE r.kind = "delete"
  <2>1. q = [GalleryIdle EXCEPT !.pc = "destroy", !.row = r.row]
    BY <1>7, <1>9 DEF Commit, GalleryGoto
  <2>2. r.row \in Images /\ after[r.row].state = "deleted"
    BY <1>3, <1>9, DeleteCommits
  <2>3. /\ q \in GalleryRequest /\ q.pc = "destroy" /\ q.row = r.row
        /\ q.loaded = NotLoaded /\ q.seen = <<>>
    BY <1>6, <2>1, <2>2 DEF GalleryRequest, GalleryPCs
  <2>4. ~ Busy(q)
    BY <2>3 DEF Busy
  <2>5. DestroyFits(q, <<>>, after)
    BY <2>2, <2>3, NothingWritten DEF DestroyFits
  <2>6. KindFits(q, <<>>, after, next, files)
    BY <2>3, <2>4, <2>5 DEF KindFits
  <2>7. LoadedFits(q, after, next) /\ SeenFits(q, after)
    BY <1>6, <2>3 DEF RequestFits, LoadedFits, SeenFits
  <2>8. RequestFits(q, <<>>, after, next, files)
    BY <2>3, <2>6, <2>7, NothingWritten, NothingYet DEF RequestFits
  <2>9. QED
    BY <1>2, <1>6, <1>7, <2>3, <2>4, <2>8
<1>10. QED
  BY <1>8, <1>9
(* A commit: what the others go by stays true, and nobody else was about   *)
(* to make a primary beside the one that is committed.                     *)
LEMMA CommitKeepsGallery ==
  ASSUME GalleryInv, NEW w \in Workers, Commit(w)
  PROVE  GalleryInv'
<1> DEFINE r == greq[w]
           d == gdraft[w]
<1>1. PICK after, next, q : after = image' /\ next = product' /\ q = greq'[w]
  OBVIOUS
<1>2. Commits(r, d, image, product, files, after, next)
  BY <1>1, CommitCommits
<1>3. /\ q \in GalleryRequest /\ ~ Busy(q) /\ q.loaded.cover = None
      /\ RequestFits(q, <<>>, after, next, files)
  BY <1>1, AfterCommit DEF Commit
<1>4. /\ files' = files /\ gdraft' = [gdraft EXCEPT ![w] = <<>>]
      /\ greq \in [Workers -> GalleryRequest] /\ gdraft \in [Workers -> GalleryDrafts]
      /\ files \in [Images -> FileStates]
  BY DEF Commit, GalleryInv, GalleryTyped
<1>5. greq' \in [Workers -> GalleryRequest] /\ \A v \in Workers \ {w} : greq'[v] = greq[v]
  <2>1. PICK x : greq' = [greq EXCEPT ![w] = x]
    BY DEF Commit, GalleryGoto
  <2>2. x = q
    BY <1>1, <1>4, <2>1
  <2>3. QED
    BY <1>3, <1>4, <2>1, <2>2
<1>6. /\ gdraft' \in [Workers -> GalleryDrafts] /\ gdraft'[w] = <<>>
      /\ \A v \in Workers \ {w} : gdraft'[v] = gdraft[v]
  BY <1>4, NothingWritten
<1>7. GalleryTyped'
  BY <1>1, <1>2, <1>4, <1>5, <1>6 DEF GalleryTyped, Commits
<1>8. /\ image \in [Images -> ImageRows] /\ after \in [Images -> ImageRows]
      /\ product \in ProductRows /\ next \in ProductRows
      /\ Later(image, after, product, next)
      /\ Written(d) = DOMAIN d \cap Images
      /\ \A b \in Images \ DOMAIN d : after[b] = image[b]
      /\ \A b \in Written(d) : after[b] = d[b]
  BY <1>2, CommitIsLater, CommitFields DEF Commits
<1>9. ASSUME NEW v \in Workers \ {w}
      PROVE  /\ \A b \in Written(gdraft[v]) : b \in Images /\ b \notin DOMAIN d /\ after[b] = image[b]
             /\ 0 \in DOMAIN gdraft[v] => next = product
  <2>1. DOMAIN d \cap DOMAIN gdraft[v] = {}
    BY DEF GalleryInv, RowsApart
  <2>2. Written(gdraft[v]) \subseteq Images
    BY <1>4, WrittenImages
  <2>3. 0 \notin DOMAIN d => next = product
    BY <1>2, CommittedProduct
  <2>4. QED
    BY <1>8, <2>1, <2>2, <2>3 DEF Written
<1>10. ASSUME NEW v \in Workers PROVE RequestFits(greq'[v], gdraft'[v], after, next, files)
  <2>1. CASE v = w
    BY <1>1, <1>3, <1>6, <2>1
  <2>2. CASE v # w
    <3>1. RequestFits(greq[v], gdraft[v], image, product, files)
      BY DEF GalleryInv
    <3>2. \A b \in Images : UploadOf(greq[v], b) => after[b] = image[b]
      <4>1. SUFFICES ASSUME NEW b \in Images, UploadOf(greq[v], b), after[b] # image[b] PROVE FALSE
        OBVIOUS
      <4>2. UploadFits(greq[v], gdraft[v], image, files)
        BY <4>1, FieldsOfGallery DEF KindFits, UploadOf
      <4>3. image[b].state = "none"
        BY <4>1, <4>2, ImagesAreNumbers DEF UploadFits, UploadOf
      <4>4. b \in Written(d)
        BY <1>8, <4>1
      <4>5. r.kind = "upload" /\ b = r.row
        BY <4>3, <4>4, FieldsOfGallery DEF WrittenFits
      <4>6. UploadOf(r, b)
        BY <1>2, <4>5 DEF UploadOf, Busy, Commits
      <4>7. QED
        BY <2>2, <4>1, <4>6 DEF GalleryInv, UploadsApart
    <3>3. \A b \in Images : files[b] = "stored" => files[b] = "stored" \/ image[b].state = "deleted"
      OBVIOUS
    <3>4. RequestFits(greq[v], gdraft[v], after, next, files)
      BY <1>8, <1>9, <2>2, <3>1, <3>2, <3>3, OthersFit
    <3>5. QED
      BY <1>5, <1>6, <2>2, <3>4
  <2>3. QED
    BY <2>1, <2>2
<1>11. RowsApart'
  BY <1>6, NothingWritten DEF GalleryInv, RowsApart
<1>12. UploadsApart'
  <2>1. \A b \in Images : ~ UploadOf(greq'[w], b)
    BY <1>1, <1>3 DEF UploadOf
  <2>2. QED
    BY <1>5, <2>1 DEF GalleryInv, UploadsApart
<1>13. NewPrimary(d, image) =>
         Sole(d, image) /\ \A v \in Workers \ {w} : ~ Holds(gdraft[v], image)
  BY DEF GalleryInv, WriterHolds
<1>14. SinglePrimary(after)
  BY <1>2, <1>13, CommitSingle DEF GalleryInv
<1>15. TableFits(after, next, files)
  BY <1>2, CommitTable
<1>16. ASSUME NEW v \in Workers \ {w}
       PROVE  /\ NewPrimary(gdraft[v], after) => NewPrimary(gdraft[v], image)
              /\ Holds(gdraft[v], after) => Holds(gdraft[v], image)
  BY <1>9, <1>16 DEF NewPrimary, Holds
<1>17. ~ NewPrimary(<<>>, after) /\ ~ Holds(<<>>, after)
  BY NothingWritten DEF NewPrimary, Holds, Written
<1>18. ASSUME NEW v \in Workers \ {w}, NewPrimary(gdraft[v], after)
       PROVE  /\ greq[v].pc \in {"cover", "commit"} /\ Sole(gdraft[v], after)
              /\ \A u \in Workers \ {v} : ~ Holds(gdraft'[u], after)
  <2>1. /\ greq[v].pc \in {"cover", "commit"} /\ Sole(gdraft[v], image)
        /\ \A u \in Workers \ {v} : ~ Holds(gdraft[u], image)
    BY <1>16, <1>18 DEF GalleryInv, WriterHolds
  <2>2. \A u \in Workers \ {v} : ~ Holds(gdraft'[u], after)
    BY <1>6, <1>16, <1>17, <2>1
  <2>3. ~ Holds(d, image)
    BY <2>1
  <2>4. \A b \in Written(d) : ~ IsPrimary(after[b])
    BY <1>8, <2>3 DEF Holds
  <2>5. PICK a \in Written(gdraft[v]) :
          /\ IsPrimary(gdraft[v][a])
          /\ \A b \in Written(gdraft[v]) : IsPrimary(gdraft[v][b]) => b = a
          /\ \A b \in Images \ DOMAIN gdraft[v] : ~ IsPrimary(image[b])
    BY <2>1 DEF Sole
  <2>6. \A b \in Images \ DOMAIN gdraft[v] : ~ IsPrimary(after[b])
    BY <1>8, <2>4, <2>5
  <2>7. Sole(gdraft[v], after)
    BY <2>5, <2>6 DEF Sole
  <2>8. QED
    BY <2>1, <2>2, <2>7
<1>19. ASSUME NEW v \in Workers
       PROVE  NewPrimary(gdraft'[v], after) =>
                /\ greq'[v].pc \in {"cover", "commit"} /\ Sole(gdraft'[v], after)
                /\ \A u \in Workers \ {v} : ~ Holds(gdraft'[u], after)
  <2>1. CASE v = w
    BY <1>6, <1>17, <2>1
  <2>2. CASE v # w
    BY <1>5, <1>6, <1>18, <2>2
  <2>3. QED
    BY <2>1, <2>2
<1>20. ASSUME NEW v \in Workers, LastOne(greq'[v], next), NEW b \in LiveImages(after) \ {greq'[v].row}
       PROVE  ~ after[b].primary /\ \A u \in Workers : greq'[u].loaded.cover # b
  <2>1. v # w
    BY <1>1, <1>3, <1>20 DEF LastOne
  <2>2. greq'[v] = greq[v] /\ b \in Images /\ after[b].state = "live" /\ b # greq[v].row
    BY <1>5, <1>20, <2>1 DEF LiveImages
  <2>3. LoadedFits(greq[v], image, product) /\ greq[v] \in GalleryRequest
    BY FieldsOfGallery
  <2>4. next.version = product.version
    <3>1. greq[v].loaded.version <= product.version /\ greq[v].loaded.version = next.version
      BY <1>20, <2>2, <2>3 DEF LastOne, LoadedFits
    <3>2. product.version \in Nat /\ next.version \in Nat /\ product.version <= next.version
      BY <1>8 DEF Later, ProductRows
    <3>3. QED
      BY <3>1, <3>2
  <2>5. LastOne(greq[v], product)
    BY <1>20, <2>2, <2>4 DEF LastOne
  <2>6. image[b].state = "live" =>
          /\ ~ image[b].primary
          /\ \A u \in Workers : greq[u].loaded.cover # b
    BY <2>2, <2>5 DEF GalleryInv, LastAlone, LiveImages
  <2>7. CASE image[b].state = "live"
    <3>1. IsPrimary(after[b]) => IsPrimary(image[b]) \/ b = r.loaded.cover
      BY <1>2, <2>2, <2>4, <2>7, CommitUnwritten
    <3>2. \A u \in Workers : greq'[u].loaded.cover # b
      BY <1>1, <1>3, <1>5, <2>2, <2>6, <2>7, ImagesAreNumbers
    <3>3. ~ IsPrimary(after[b])
      BY <2>6, <2>7, <3>1 DEF IsPrimary
    <3>4. QED
      BY <2>2, <3>2, <3>3 DEF IsPrimary
  <2>8. CASE image[b].state # "live"
    <3>1. image[b].state = "none" /\ ~ after[b].primary
      BY <1>2, <2>2, <2>4, <2>8, CommitUnwritten
    <3>2. \A u \in Workers : greq[u].loaded.cover # b
      <4>1. SUFFICES ASSUME NEW u \in Workers, greq[u].loaded.cover = b PROVE FALSE
        OBVIOUS
      <4>2. LoadedFits(greq[u], image, product)
        BY FieldsOfGallery
      <4>3. QED
        BY <2>2, <3>1, <4>1, <4>2 DEF LoadedFits
    <3>3. QED
      BY <1>1, <1>3, <1>5, <2>2, <3>1, <3>2, ImagesAreNumbers
  <2>9. QED
    BY <2>7, <2>8
<1>21. \A v \in Workers : RequestFits(greq'[v], gdraft'[v], image', product', files')
  BY <1>1, <1>4, <1>10
<1>22. SinglePrimary(image)' /\ TableFits(image, product, files)'
  BY <1>1, <1>4, <1>14, <1>15
<1>23. \A v \in Workers : WriterHolds(v)'
  BY <1>1, <1>19 DEF WriterHolds
<1>24. \A v \in Workers : LastAlone(v)'
  BY <1>1, <1>20 DEF LastAlone
<1>25. QED
  BY <1>7, <1>11, <1>12, <1>21, <1>22, <1>23, <1>24 DEF GalleryInv

(* The invariant is inductive.                                             *)
LEMMA GalleryKept ==
  ASSUME GalleryInv, [GalleryNext]_galleryVars
  PROVE  GalleryInv'
<1>1. CASE UNCHANGED galleryVars
  BY <1>1 DEF galleryVars, GalleryInv, GalleryTyped, RowsApart, UploadsApart, WriterHolds, LastAlone,
              LiveImages
<1>2. ASSUME NEW w \in Workers,
             \/ \E kind \in {"edit", "upload", "delete", "reorder"}, a \in Images \cup {None} :
                  LoadProduct(w, kind, a)
             \/ \E wanted \in BOOLEAN : StoreFile(w, wanted)
             \/ EditProduct(w) \/ LoadImage(w)
             \/ FindPrimary(w) \/ ClearPrimary(w) \/ NextDisplayOrder(w) \/ InsertImage(w)
             \/ SoftDelete(w) \/ ListRemainingImages(w) \/ UpdateCover(w) \/ Promote(w)
             \/ ListForReorder(w) \/ SetAside(w) \/ Arrange(w)
             \/ Commit(w) \/ DestroyFile(w) \/ AbandonGallery(w)
      PROVE  GalleryInv'
  <2>1. ASSUME NEW kind \in {"edit", "upload", "delete", "reorder"}, NEW a \in Images \cup {None},
               LoadProduct(w, kind, a)
        PROVE  GalleryInv'
    BY <2>1, LoadProductKeeps DEF GalleryKinds
  <2>2. ASSUME NEW wanted \in BOOLEAN, StoreFile(w, wanted) PROVE GalleryInv'
    BY <2>2, StoreFileKeeps
  <2>3. CASE EditProduct(w)
    BY <2>3, EditProductKeeps
  <2>4. CASE LoadImage(w)
    BY <2>4, LoadImageKeeps
  <2>5. CASE FindPrimary(w)
    BY <2>5, FindPrimaryKeeps
  <2>6. CASE ClearPrimary(w)
    BY <2>6, ClearPrimaryKeeps
  <2>7. CASE NextDisplayOrder(w)
    BY <2>7, NextDisplayOrderKeeps
  <2>8. CASE InsertImage(w)
    BY <2>8, InsertImageKeeps
  <2>9. CASE SoftDelete(w)
    BY <2>9, SoftDeleteKeeps
  <2>10. CASE ListRemainingImages(w)
    BY <2>10, ListRemainingImagesKeeps
  <2>11. CASE UpdateCover(w)
    BY <2>11, UpdateCoverKeeps
  <2>12. CASE Promote(w)
    BY <2>12, PromoteKeeps
  <2>13. CASE ListForReorder(w)
    BY <2>13, ListForReorderKeeps
  <2>14. CASE SetAside(w)
    BY <2>14, SetAsideKeeps
  <2>15. CASE Arrange(w)
    BY <2>15, ArrangeKeeps
  <2>16. CASE Commit(w)
    BY <2>16, CommitKeepsGallery
  <2>17. CASE DestroyFile(w)
    BY <2>17, DestroyFileKeeps
  <2>18. CASE AbandonGallery(w)
    BY <2>18, UndoKeepsGallery DEF AbandonGallery
  <2>19. QED
    BY <1>2, <2>1, <2>2, <2>3, <2>4, <2>5, <2>6, <2>7, <2>8, <2>9, <2>10, <2>11, <2>12, <2>13,
       <2>14, <2>15, <2>16, <2>17, <2>18
<1>3. QED
  BY <1>1, <1>2 DEF GalleryNext
-----------------------------------------------------------------------------
(* What the invariant says of one state.                                   *)
LEMMA GalleryHeld ==
  ASSUME GalleryInv
  PROVE  GalleryTypeOK /\ OnePrimary /\ ListedHaveFiles
<1>1. GalleryTyped /\ SinglePrimary(image) /\ TableFits(image, product, files)
  BY DEF GalleryInv
<1>2. ASSUME NEW w \in Workers, NEW a \in DOMAIN gdraft[w] \ {0} PROVE gdraft[w][a] \in ImageRows
  <2>1. RequestFits(greq[w], gdraft[w], image, product, files)
    BY DEF GalleryInv
  <2>2. QED
    BY <1>2, <2>1 DEF RequestFits, WrittenFits, Written
<1>3. GalleryTypeOK
  BY <1>1, <1>2 DEF GalleryTypeOK, GalleryTyped, ImageRows, ProductRows, Covers, FileStates
<1>4. OnePrimary
  BY <1>1 DEF OnePrimary, Primaries, LiveImages, SinglePrimary, IsPrimary
<1>5. ListedHaveFiles
  BY <1>1 DEF ListedHaveFiles, LiveImages, TableFits
<1>6. QED
  BY <1>3, <1>4, <1>5

(* Only commits change rows.                                               *)
LEMMA OnlyCommitsChangeRows ==
  ASSUME GalleryInv, [GalleryNext]_galleryVars, image' # image \/ product' # product
  PROVE  \E w \in Workers : Commit(w)
<1>1. PICK w \in Workers :
        \/ \E kind \in {"edit", "upload", "delete", "reorder"}, a \in Images \cup {None} :
             LoadProduct(w, kind, a)
        \/ \E wanted \in BOOLEAN : StoreFile(w, wanted)
        \/ EditProduct(w) \/ LoadImage(w)
        \/ FindPrimary(w) \/ ClearPrimary(w) \/ NextDisplayOrder(w) \/ InsertImage(w)
        \/ SoftDelete(w) \/ ListRemainingImages(w) \/ UpdateCover(w) \/ Promote(w)
        \/ ListForReorder(w) \/ SetAside(w) \/ Arrange(w)
        \/ Commit(w) \/ DestroyFile(w) \/ AbandonGallery(w)
  BY DEF galleryVars, GalleryNext
<1>2. CASE \/ EditProduct(w) \/ LoadImage(w) \/ FindPrimary(w) \/ ClearPrimary(w)
           \/ NextDisplayOrder(w) \/ InsertImage(w) \/ SoftDelete(w)
           \/ ListRemainingImages(w) \/ UpdateCover(w) \/ Promote(w)
  BY <1>2 DEF EditProduct, LoadImage, FindPrimary, ClearPrimary, NextDisplayOrder, InsertImage,
              SoftDelete, ListRemainingImages, UpdateCover, Promote
<1>3. CASE \/ ListForReorder(w) \/ SetAside(w) \/ Arrange(w) \/ DestroyFile(w) \/ AbandonGallery(w)
           \/ \E wanted \in BOOLEAN : StoreFile(w, wanted)
           \/ \E kind \in {"edit", "upload", "delete", "reorder"}, a \in Images \cup {None} :
                LoadProduct(w, kind, a)
  BY <1>3 DEF ListForReorder, SetAside, Arrange, DestroyFile, AbandonGallery, StoreFile, LoadProduct
<1>4. QED
  BY <1>1, <1>2, <1>3

(* A deletion that writes the cover it loaded, not the one there is.       *)
Unchecked(r, prod) ==
  r.kind = "delete" /\ r.cover = r.loaded.cover /\ prod.cover # r.loaded.cover

Shows(table, cover) == \A a \in Images : IsPrimary(table[a]) => cover = Chosen \/ cover = a

(* A commit whose deletion looked at the product keeps the cover true.     *)
LEMMA CommitShows ==
  ASSUME NEW r, NEW d, NEW table, NEW prod, NEW kept, NEW after, NEW next,
         Commits(r, d, table, prod, kept, after, next), SinglePrimary(after),
         LastOne(r, prod) => \A b \in Images \ {r.row} : ~ IsPrimary(table[b]),
         Shows(table, prod.cover), ~ Unchecked(r, prod)
  PROVE  Shows(after, next.cover)
<1>1. r.kind \in {"edit", "upload", "delete", "reorder"}
  BY CommitFields
<1>2. CASE r.kind = "edit"
  <2>1. Unmoved(table, after, {}) /\ next.cover \in {prod.cover, Chosen}
    BY <1>2, EditCommits
  <2>2. QED
    BY <2>1 DEF Unmoved, Shows
<1>3. CASE r.kind = "upload"
  <2>1. CASE r.primary
    <3>1. next.cover = r.row /\ r.row \in Images /\ after[r.row].state = "live"
      BY <1>3, <2>1, UploadCommits
    <3>2. after[r.row].primary = r.primary
      BY <1>3, UploadCommits
    <3>3. IsPrimary(after[r.row])
      BY <2>1, <3>1, <3>2 DEF IsPrimary
    <3>4. QED
      BY <3>1, <3>3 DEF Shows, SinglePrimary
  <2>2. CASE ~ r.primary
    <3>1. next = prod /\ \A b \in Images \ {r.row} : after[b] = table[b]
      BY <1>3, <2>2, UploadCommits
    <3>2. after[r.row].primary = r.primary
      BY <1>3, UploadCommits
    <3>3. ~ IsPrimary(after[r.row])
      BY <2>2, <3>2 DEF IsPrimary
    <3>4. QED
      BY <3>1, <3>3 DEF Shows
  <2>3. QED
    BY <2>1, <2>2
<1>4. CASE r.kind = "reorder"
  <2>1. next = prod /\ \A b \in Images : IsPrimary(after[b]) <=> IsPrimary(table[b])
    BY <1>4, ReorderCommits
  <2>2. QED
    BY <2>1 DEF Shows
<1>5. CASE r.kind = "delete"
  <2>1. r.row \in Images /\ ~ IsPrimary(after[r.row])
    BY <1>5, DeleteCommits DEF IsPrimary
  <2>2. CASE Unmoved(table, after, {r.row}) /\ next = prod
    BY <2>1, <2>2 DEF Unmoved, Shows
  <2>3. CASE Unmoved(table, after, {r.row}) /\ LastOne(r, prod)
    BY <2>1, <2>3 DEF Unmoved, Shows
  <2>4. CASE Replaced(r, table, prod, after, next)
    <3>1. r.cover \in Images /\ IsPrimary(after[r.cover])
      BY <2>4 DEF Replaced
    <3>2. next.cover = r.cover
      BY <1>5, <2>4 DEF Replaced, Unchecked
    <3>3. QED
      BY <3>1, <3>2 DEF Shows, SinglePrimary
  <2>5. QED
    BY <1>5, <2>2, <2>3, <2>4, DeleteCommits DEF Ordinary, Emptied, Beside
<1>6. QED
  BY <1>1, <1>2, <1>3, <1>4, <1>5

(* Only a deletion that saw no other image takes the primary away.         *)
LEMMA CommitKeepsPrimary ==
  ASSUME NEW r, NEW d, NEW table, NEW prod, NEW kept, NEW after, NEW next,
         Commits(r, d, table, prod, kept, after, next),
         NEW a \in Images, IsPrimary(table[a]), \A b \in Images : ~ IsPrimary(after[b])
  PROVE  r.kind = "delete" /\ r.primary /\ r.cover = None
<1>1. r.kind \in {"edit", "upload", "delete", "reorder"}
  BY CommitFields
<1>2. r.kind # "edit"
  BY EditCommits DEF Unmoved
<1>3. ASSUME r.kind = "upload" PROVE FALSE
  <2>1. CASE r.primary
    <3>1. r.row \in Images /\ after[r.row].state = "live"
      BY <1>3, UploadCommits
    <3>2. after[r.row].primary = r.primary
      BY <1>3, UploadCommits
    <3>3. QED
      BY <2>1, <3>1, <3>2 DEF IsPrimary
  <2>2. CASE ~ r.primary
    <3>1. table[r.row].state = "none" /\ \A b \in Images \ {r.row} : after[b] = table[b]
      BY <1>3, <2>2, UploadCommits
    <3>2. QED
      BY <3>1 DEF IsPrimary
  <2>3. QED
    BY <2>1, <2>2
<1>4. r.kind # "reorder"
  BY ReorderCommits
<1>5. r.kind = "delete"
  BY <1>1, <1>2, <1>3, <1>4
<1>6. CASE Ordinary(r, table, prod, after, next)
  BY <1>6 DEF Ordinary, Unmoved
<1>7. CASE Emptied(r, table, prod, after, next)
  BY <1>5, <1>7 DEF Emptied
<1>8. CASE Replaced(r, table, prod, after, next)
  BY <1>8 DEF Replaced
<1>9. CASE Beside(r, table, prod, after, next)
  BY <1>9 DEF Beside, Unmoved
<1>10. QED
  BY <1>5, <1>6, <1>7, <1>8, <1>9, DeleteCommits

(* A cover is deleted and left only by who did not look.                   *)
LEMMA CommitLeavesCover ==
  ASSUME NEW r, NEW d, NEW table, NEW prod, NEW kept, NEW after, NEW next,
         Commits(r, d, table, prod, kept, after, next), CoverFits(table, prod),
         prod.cover \in Images, table[prod.cover].state = "live",
         after[prod.cover].state # "live", next.cover = prod.cover
  PROVE  Unchecked(r, prod)
<1>1. r.kind \in {"edit", "upload", "delete", "reorder"} /\ None \notin Images
  BY CommitFields, ImagesAreNumbers
<1>2. r.kind # "edit"
  BY EditCommits DEF Unmoved
<1>3. ASSUME r.kind = "upload" PROVE FALSE
  BY <1>3, UploadCommits
<1>4. r.kind # "reorder"
  BY ReorderCommits
<1>5. r.kind = "delete"
  BY <1>1, <1>2, <1>3, <1>4
<1>6. IsPrimary(table[prod.cover])
  BY DEF CoverFits, IsPrimary
<1>7. CASE Ordinary(r, table, prod, after, next)
  BY <1>6, <1>7 DEF Ordinary, Unmoved
<1>8. CASE Beside(r, table, prod, after, next)
  BY <1>6, <1>8 DEF Beside, Unmoved
<1>9. CASE Emptied(r, table, prod, after, next)
  BY <1>1, <1>5, <1>9 DEF Emptied, Unchecked
<1>10. CASE Replaced(r, table, prod, after, next)
  <2>1. prod.cover \in {r.row, r.cover}
    BY <1>10 DEF Replaced, Unmoved
  <2>2. prod.cover # r.cover
    BY <1>10 DEF Replaced, IsPrimary
  <2>3. QED
    BY <1>5, <1>10, <2>1, <2>2 DEF Replaced, Unchecked
<1>11. QED
  BY <1>5, <1>7, <1>8, <1>9, <1>10, DeleteCommits

(* A deletion that commits goes on to destroy the file.                    *)
LEMMA CommitOfDeletion ==
  ASSUME GalleryInv, NEW w \in Workers, Commit(w)
  PROVE  /\ greq[w].pc = "commit"
         /\ greq[w].kind = "delete" => greq'[w].pc = "destroy"
         /\ Unchecked(greq[w], product) => UncheckedDeletion(w)
<1>1. greq[w].pc = "commit" /\ greq \in [Workers -> GalleryRequest]
  BY DEF Commit, At, GalleryInv, GalleryTyped
<1>2. ASSUME greq[w].kind = "delete" PROVE greq'[w].pc = "destroy"
  <2>1. PICK q : q = [GalleryIdle EXCEPT !.pc = "destroy", !.row = greq[w].row]
    OBVIOUS
  <2>2. greq' = [greq EXCEPT ![w] = q]
    BY <1>2, <2>1 DEF Commit, GalleryGoto
  <2>3. q.pc = "destroy"
    BY <2>1 DEF GalleryIdle
  <2>4. QED
    BY <1>1, <2>2, <2>3
<1>3. QED
  BY <1>1, <1>2 DEF Unchecked, UncheckedDeletion

(* CoverIsPrimary, on the values of the rows.                              *)
LEMMA ShownCover == CoverIsPrimary <=> Shows(image, product.cover)
BY DEF CoverIsPrimary, Shows, Primaries, LiveImages, IsPrimary

(* The same after a step.                                                  *)
LEMMA ShownCoverNext == CoverIsPrimary' <=> Shows(image', product'.cover)
BY DEF CoverIsPrimary, Shows, Primaries, LiveImages, IsPrimary

(* The step of CoverFollowsPrimary.                                        *)
LEMMA CoverFollows ==
  ASSUME GalleryInv, [GalleryNext]_galleryVars, CoverIsPrimary, ~ CoverIsPrimary'
  PROVE  \E w \in Workers : UncheckedDeletion(w)
<1>1. PICK w \in Workers : Commit(w)
  <2>1. Shows(image, product.cover) /\ ~ Shows(image', product'.cover)
    BY ShownCover, ShownCoverNext
  <2>2. QED
    BY <2>1, OnlyCommitsChangeRows
<1>2. Commits(greq[w], gdraft[w], image, product, files, image', product')
  BY <1>1, CommitCommits
<1>3. SinglePrimary(image')
  BY GalleryKept DEF GalleryInv
<1>4. LastOne(greq[w], product) => \A b \in Images \ {greq[w].row} : ~ IsPrimary(image[b])
  BY DEF GalleryInv, LastAlone, LiveImages, IsPrimary
<1>5. Unchecked(greq[w], product)
  BY <1>2, <1>3, <1>4, CommitShows, ShownCover, ShownCoverNext
<1>6. QED
  BY <1>1, <1>5, CommitOfDeletion

(* The step of PrimaryKept.                                                *)
LEMMA PrimaryLost ==
  ASSUME GalleryInv, [GalleryNext]_galleryVars,
         Primaries(image) # {}, Primaries(image') = {}
  PROVE  \E w \in Workers :
           /\ greq[w].kind = "delete" /\ greq[w].pc = "commit" /\ greq'[w].pc = "destroy"
           /\ greq[w].primary /\ greq[w].cover = None
<1>1. image' # image
  OBVIOUS
<1>2. PICK w \in Workers : Commit(w)
  BY <1>1, OnlyCommitsChangeRows
<1>3. Commits(greq[w], gdraft[w], image, product, files, image', product')
  BY <1>2, CommitCommits
<1>4. PICK a \in Images : IsPrimary(image[a])
  BY DEF Primaries, LiveImages, IsPrimary
<1>5. \A b \in Images : ~ IsPrimary(image'[b])
  BY DEF Primaries, LiveImages, IsPrimary
<1>6. greq[w].kind = "delete" /\ greq[w].primary /\ greq[w].cover = None
  BY <1>3, <1>4, <1>5, CommitKeepsPrimary
<1>7. QED
  BY <1>2, <1>6, CommitOfDeletion

(* The step of CoverOutlivesRow.                                           *)
LEMMA CoverLeft ==
  ASSUME GalleryInv, [GalleryNext]_galleryVars,
         product.cover \in LiveImages(image), product'.cover = product.cover,
         product.cover \notin LiveImages(image')
  PROVE  \E w \in Workers : UncheckedDeletion(w)
<1>1. /\ product.cover \in Images /\ image[product.cover].state = "live"
      /\ image'[product.cover].state # "live"
  BY DEF LiveImages
<1>2. PICK w \in Workers : Commit(w)
  BY <1>1, OnlyCommitsChangeRows
<1>3. Commits(greq[w], gdraft[w], image, product, files, image', product')
  BY <1>2, CommitCommits
<1>4. CoverFits(image, product)
  BY DEF GalleryInv, TableFits
<1>5. Unchecked(greq[w], product)
  BY <1>1, <1>3, <1>4, CommitLeavesCover
<1>6. QED
  BY <1>2, <1>5, CommitOfDeletion

(* The step of ReorderHolds.                                               *)
LEMMA OrderHeld ==
  ASSUME GalleryInv, [GalleryNext]_galleryVars, NEW w \in Workers,
         greq[w].kind = "reorder", greq[w].pc = "commit", image' # image,
         greq'[w] = GalleryIdle
  PROVE  /\ ToSet(greq[w].asked) \subseteq LiveImages(image')
         /\ \A i, j \in DOMAIN greq[w].asked :
              i < j => image'[greq[w].asked[i]].order < image'[greq[w].asked[j]].order
<1>1. PICK v \in Workers : Commit(v)
  BY OnlyCommitsChangeRows
<1>2. v = w
  <2>1. v # w => greq'[w] = greq[w]
    BY <1>1 DEF Commit, GalleryGoto, GalleryInv, GalleryTyped
  <2>2. QED
    BY <2>1 DEF GalleryIdle
<1>3. Commits(greq[w], gdraft[w], image, product, files, image', product')
  BY <1>1, <1>2, CommitCommits
<1>4. PICK asked \in Seq(Images) : asked = greq[w].asked
  BY DEF GalleryInv, GalleryTyped, GalleryRequest
<1>5. \A i \in DOMAIN asked :
        /\ asked[i] \in Images /\ image'[asked[i]].state = "live"
        /\ image'[asked[i]].order = i - 1
  BY <1>3, <1>4, ReorderCommits
<1>6. ToSet(asked) \subseteq LiveImages(image')
  BY <1>5 DEF ToSet, LiveImages
<1>7. \A i \in DOMAIN asked : i \in Nat
  BY <1>4
<1>8. \A i, j \in DOMAIN asked : i < j => image'[asked[i]].order < image'[asked[j]].order
  BY <1>5, <1>7
<1>9. QED
  BY <1>4, <1>6, <1>8

(* The gallery of a product, for every number of images, edits and         *)
(* workers: one primary image at most, files for all that is listed, and   *)
(* no request undoes another's deletion, cover or order, but for the       *)
(* deletion that did not look at the product.                              *)
THEOREM GalleryHolds == GallerySpec => GalleryCorrect
<1>1. GalleryInit => GalleryInv
  BY GalleryStart
<1>2. GalleryInv /\ [GalleryNext]_galleryVars => GalleryInv'
  BY GalleryKept
<1>3. GalleryInv => GalleryTypeOK /\ OnePrimary /\ ListedHaveFiles
  BY GalleryHeld
<1>4. ASSUME GalleryInv, [GalleryNext]_galleryVars
      PROVE  CoverIsPrimary /\ ~CoverIsPrimary' => \E w \in Workers : UncheckedDeletion(w)
  BY <1>4, CoverFollows
<1>5. ASSUME GalleryInv, [GalleryNext]_galleryVars
      PROVE  Primaries(image) # {} /\ Primaries(image') = {} /\ LiveImages(image') # {}
             => \E w \in Workers :
                  /\ greq[w].kind = "delete" /\ greq[w].pc = "commit" /\ greq'[w].pc = "destroy"
                  /\ greq[w].primary /\ greq[w].cover = None
  BY <1>5, PrimaryLost
<1>6. ASSUME GalleryInv, [GalleryNext]_galleryVars
      PROVE  product.cover \in LiveImages(image) /\ product'.cover = product.cover
               /\ product.cover \notin LiveImages(image')
             => \E w \in Workers : UncheckedDeletion(w)
  BY <1>6, CoverLeft
<1>7. ASSUME GalleryInv, [GalleryNext]_galleryVars
      PROVE  \A w \in Workers :
               greq[w].kind = "reorder" /\ greq[w].pc = "commit" /\ image' # image
                 /\ greq'[w] = GalleryIdle
               => LET asked == greq[w].asked
                  IN /\ ToSet(asked) \subseteq LiveImages(image')
                     /\ \A i, j \in DOMAIN asked :
                          i < j => image'[asked[i]].order < image'[asked[j]].order
  BY <1>7, OrderHeld
<1>8. QED
  BY <1>1, <1>2, <1>3, <1>4, <1>5, <1>6, <1>7, PTL
     DEF GallerySpec, GalleryCorrect, CoverFollowsPrimary, PrimaryKept, CoverOutlivesRow, ReorderHolds

=============================================================================
