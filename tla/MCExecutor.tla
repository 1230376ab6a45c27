----------------------------- MODULE MCExecutor -----------------------------
(* Executor.tla on small instances. *)
EXTENDS Executor, TLC

Symmetry == Permutations(Requests)
=============================================================================
