------------------------------- MODULE Handlers --------------------------------
(***************************************************************************)
(* What the models of request handlers share: who handles requests, the    *)
(* value that stands for nothing, and a table with one more entry.         *)
(***************************************************************************)
EXTENDS Integers, SequencesExt

CONSTANTS
  Workers,      \* request handlers
  None          \* no row, nothing chosen

With(f, x, y) == [z \in DOMAIN f \cup {x} |-> IF z = x THEN y ELSE f[z]]

=============================================================================
