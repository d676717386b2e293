----------------------------- MODULE SchemaFacts ------------------------------
(***************************************************************************)
(* What the revisions can make of a database, and closed facts about it.   *)
(* They have no parameter: TLC evaluates them, and the proofs about        *)
(* processes that migrate (module StartupProofs) start from them. Folds    *)
(* over operations are what TLC computes and no prover does.               *)
(***************************************************************************)
EXTENDS Migrations

(* What one step of a boot or of the operator makes of a database; with     *)
(* each goes whether the models have filled it.                             *)
Become(x) ==
  {<<Filled(x[1]), TRUE>>}
  \cup (IF x[1].rev < Latest THEN {<<Advanced(x[1]), x[2]>>} ELSE {})
  \cup (IF x[1].rev > Base THEN {<<TakenBack(x[1]), x[2]>>} ELSE {})

(* bound: rounds, above the number after which nothing new appears *)
Rounds == 20

(* known: what appears in n rounds; fresh: of it, what the last one added. *)
Grown[n \in 0..Rounds] ==
  LET start == {<<EmptyDatabase, FALSE>>} IN
  IF n = 0 THEN [known |-> start, fresh |-> start]
  ELSE LET before == Grown[n - 1]
           reached == {y \in UNION {Become(x) : x \in before.fresh} : y[1].schema.ok}
       IN [known |-> before.known \cup reached, fresh |-> reached \ before.known]

Databases == Grown[Rounds].known

ASSUME CommitsAtRevisions ==
  /\ Base = 0 /\ Latest \in Nat
  /\ \A rev \in Base..Latest : CommitPoint(rev) \in Base..Latest

(* Nothing that a boot or the operator does leads out of them. *)
ASSUME DatabasesClosed ==
  /\ <<EmptyDatabase, FALSE>> \in Databases
  /\ \A x \in Databases :
       /\ <<Filled(x[1]), TRUE>> \in Databases
       /\ x[1].rev < Latest /\ Advanced(x[1]).schema.ok => <<Advanced(x[1]), x[2]>> \in Databases
       /\ x[1].rev > Base /\ TakenBack(x[1]).schema.ok => <<TakenBack(x[1]), x[2]>> \in Databases

(* What each of them is, by its version. *)
ASSUME DatabasesSound ==
  \A x \in Databases :
    /\ x[1].rev \in Base..Latest /\ x[1].schema.ok /\ x[2] \in BOOLEAN
    /\ x[1].rev = Latest => ServesModels(x[1])
    /\ ~x[2] => ToldByVersion(x[1])
    /\ ~x[2] /\ (x[1].rev > Base \/ ~x[1].versioned) => CanBeUpgraded(x[1])

=============================================================================
