--------------------------------- MODULE Mirrors --------------------------------
(***************************************************************************)
(* The JSON files beside the database: data/order.json for orders;         *)
(* data/user.json and its copy data/users.json for accounts. After its     *)
(* commit a handler reads the file, puts its row into the list and writes  *)
(* the list back, all in threads and without a lock. Writing truncates     *)
(* first, and an empty file reads as an empty list.                        *)
(*                                                                         *)
(* Only what becomes of the files is modelled: which rows they hold, of    *)
(* which version. A file whose writing was cut short cannot be parsed.     *)
(***************************************************************************)
EXTENDS Handlers

CONSTANTS
  Mirrored,     \* orders, or accounts
  MaxCommits    \* bound on the versions of each

ASSUME MirrorBounds == MaxCommits \in Nat

VARIABLES
  copies,       \* the mirror is of accounts, and has two files
  version,      \* committed version of each row, 0 before there is one
  erased,       \* accounts that are soft-deleted
  file,         \* what each file holds: a list, and whether it parses
  mirroring,    \* what each handler is at
  disturbed     \* some mirroring overlapped another, failed or was cut short

mirrorVars == <<copies, version, erased, file, mirroring, disturbed>>

Entry(row, v) == [row |-> row, version |-> v]
Listing(list, whole) == [list |-> list, whole |-> whole]
Torn == Listing(<<>>, FALSE)
Files == {"main", "copy"}

MirrorAt(pc, row, v, list) == [pc |-> pc, row |-> row, version |-> v, list |-> list]
MirrorIdle == MirrorAt("idle", None, 0, <<>>)

MirrorInit ==
  /\ copies \in BOOLEAN
  /\ version = [r \in Mirrored |-> 0] /\ erased = {}
  /\ file = [f \in Files |-> Listing(<<>>, TRUE)]
  /\ mirroring = [w \in Workers |-> MirrorIdle]
  /\ disturbed = FALSE

MirrorGoto(w, m) == mirroring' = [mirroring EXCEPT ![w] = m]

Crowded(w) == \E x \in Workers \ {w} : mirroring[x] # MirrorIdle

(* Mutant: the row is mirrored before its transaction commits, or does not. *)
CommitLater(w, r) ==
  /\ mirroring[w] = MirrorIdle /\ r \notin erased /\ version[r] < MaxCommits
  /\ version' \in {version, [version EXCEPT ![r] = @ + 1]}
  /\ disturbed' = (disturbed \/ Crowded(w))
  /\ MirrorGoto(w, MirrorAt("read", r, version[r] + 1, <<>>))
  /\ UNCHANGED <<copies, erased, file>>

(* A request, an order's or an account's, commits the row. Versions make   *)
(* sure that an erased account is not written again.                       *)
CommitRow(w, r) ==
  /\ mirroring[w] = MirrorIdle /\ r \notin erased /\ version[r] < MaxCommits
  /\ version' = [version EXCEPT ![r] = @ + 1]
  /\ disturbed' = (disturbed \/ Crowded(w))
  /\ MirrorGoto(w, MirrorAt("refresh", r, 0, <<>>))
  /\ UNCHANGED <<copies, erased, file>>

(* soft_delete_account, whose entry is removed and not put. *)
EraseRow(w, r) ==
  /\ mirroring[w] = MirrorIdle /\ copies /\ r \notin erased /\ version[r] > 0
  /\ erased' = erased \cup {r}
  /\ disturbed' = (disturbed \/ Crowded(w))
  /\ MirrorGoto(w, MirrorAt("read", r, 0, <<>>))
  /\ UNCHANGED <<copies, version, file>>

(* The row as it is committed by then, which may be another's work. *)
RefreshRow(w) ==
  /\ mirroring[w].pc = "refresh"
  /\ MirrorGoto(w, [mirroring[w] EXCEPT !.pc = "read", !.version = version[mirroring[w].row]])
  /\ UNCHANGED <<copies, version, erased, file, disturbed>>

(* The list without the entries of a row. *)
Without(list, r) ==
  LET kept[i \in 0 .. Len(list)] ==
        IF i = 0 THEN <<>>
        ELSE IF list[i].row = r THEN kept[i - 1] ELSE Append(kept[i - 1], list[i])
  IN kept[Len(list)]

(* Mutant: the row is appended whether or not it is listed. *)
Appended(list, r, v) ==
  IF v = 0 THEN Without(list, r) ELSE Append(list, Entry(r, v))

(* The list with the row replaced, appended or (version 0) removed. *)
Merged(list, r, v) ==
  LET listed == {i \in DOMAIN list : list[i].row = r} IN
  IF v = 0 THEN Without(list, r)
  ELSE IF listed = {} THEN Append(list, Entry(r, v))
  ELSE [list EXCEPT ![Min(listed)] = Entry(r, v)]

(* A file that does not parse fails the mirroring (one that is half written *)
(* does, too: MirrorFails). The failure is only logged,                    *)
(* unless an account was to be removed.                                    *)
ReadFile(w) ==
  LET m == mirroring[w] IN
  /\ m.pc = "read"
  /\ IF file["main"].whole
       THEN /\ MirrorGoto(w, [m EXCEPT !.pc = "main",
                                       !.list = Merged(file["main"].list, m.row, m.version)])
            /\ UNCHANGED disturbed
       ELSE MirrorGoto(w, MirrorIdle) /\ disturbed' = TRUE
  /\ UNCHANGED <<copies, version, erased, file>>

(* open(..., "w") truncates the file. *)
Truncate(w) ==
  LET m == mirroring[w] IN
  /\ m.pc \in Files
  /\ file' = [file EXCEPT ![m.pc] = Listing(<<>>, TRUE)]
  /\ MirrorGoto(w, [m EXCEPT !.pc = IF m.pc = "main" THEN "fill main" ELSE "fill copy"])
  /\ UNCHANGED <<copies, version, erased, disturbed>>

(* Both wrote from the start of the file: the longer text keeps its end. *)
Filled(w, f) ==
  {Listing(mirroring[w].list, TRUE)}
    \cup (IF file[f] = Listing(<<>>, TRUE) THEN {} ELSE {Torn})

(* Mutant: only user.json is written. *)
FillMain(w) ==
  /\ mirroring[w].pc = "fill main"
  /\ \E l \in Filled(w, "main") : file' = [file EXCEPT !["main"] = l]
  /\ MirrorGoto(w, MirrorIdle)
  /\ UNCHANGED <<copies, version, erased, disturbed>>

Fill(w) ==
  LET m == mirroring[w] IN
  /\ \/ /\ m.pc = "fill main"
        /\ \E l \in Filled(w, "main") : file' = [file EXCEPT !["main"] = l]
        /\ MirrorGoto(w, IF copies THEN [m EXCEPT !.pc = "copy"] ELSE MirrorIdle)
     \/ /\ m.pc = "fill copy"
        /\ \E l \in Filled(w, "copy") : file' = [file EXCEPT !["copy"] = l]
        /\ MirrorGoto(w, MirrorIdle)
  /\ UNCHANGED <<copies, version, erased, disturbed>>

(* The disk is full, or the process dies: what was being written is torn,  *)
(* unless nothing was written yet.                                         *)
MirrorFails(w) ==
  /\ mirroring[w] # MirrorIdle
  /\ \/ UNCHANGED file
     \/ mirroring[w].pc = "fill main" /\ file' = [file EXCEPT !["main"] = Torn]
     \/ mirroring[w].pc = "fill copy" /\ file' = [file EXCEPT !["copy"] = Torn]
  /\ MirrorGoto(w, MirrorIdle)
  /\ disturbed' = TRUE
  /\ UNCHANGED <<copies, version, erased>>

MirrorNext ==
  \E w \in Workers :
    \/ \E r \in Mirrored : CommitRow(w, r) \/ EraseRow(w, r)
    \/ RefreshRow(w) \/ ReadFile(w) \/ Truncate(w) \/ Fill(w)
    \/ MirrorFails(w)

MirrorSpec == MirrorInit /\ [][MirrorNext]_mirrorVars

-----------------------------------------------------------------------------
MirrorTypeOK ==
  /\ version \in [Mirrored -> 0..MaxCommits] /\ erased \subseteq Mirrored
  /\ \A f \in Files :
       /\ file[f].list \in Seq([row : Mirrored, version : 1..MaxCommits])
       /\ ~file[f].whole => file[f].list = <<>>
  /\ \A w \in Workers : mirroring[w].version \in 0..MaxCommits

(* A file lists no order and no account twice, however its writers race. *)
OneEntryEach ==
  \A f \in Files : \A i, j \in DOMAIN file[f].list :
    file[f].list[i].row = file[f].list[j].row => i = j

(* The database is the source of truth: what a file shows was committed. *)
MirroredWasCommitted ==
  \A f \in Files : \A i \in DOMAIN file[f].list :
    file[f].list[i].version <= version[file[f].list[i].row]

(* If no mirroring has overlapped another or failed, the files show what   *)
(* is committed once nobody is at it: every row, no erased account, in its *)
(* newest version, and both files alike. Nothing less will do: a handler   *)
(* that reads while another writes may find an empty list, and then every  *)
(* row is lost from the file but its own.                                  *)
MirrorFollows ==
  (~disturbed /\ \A w \in Workers : mirroring[w] = MirrorIdle) =>
    \A f \in (IF copies THEN Files ELSE {"main"}) :
      ToSet(file[f].list) =
        {Entry(r, version[r]) : r \in {x \in Mirrored \ erased : version[x] > 0}}

(* All that is promised of the mirror files: no row twice, nothing that    *)
(* was not committed, and once all is quiet the rows as committed, unless  *)
(* writers overlapped or failed.                                           *)
MirrorsCorrect ==
  /\ MirrorTypeOK /\ OneEntryEach
  /\ MirroredWasCommitted /\ MirrorFollows

=============================================================================
