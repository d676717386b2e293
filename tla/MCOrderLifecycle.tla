-------------------------- MODULE MCOrderLifecycle --------------------------
(* Small instances of OrderLifecycle for TLC. *)
EXTENDS OrderLifecycle, TLC

\* Handlers run the same code: safety runs may permute them.
WorkerSymmetry == Permutations(Workers)

=============================================================================
