----------------------------- MODULE MCExecutor -----------------------------
(* Model-checking instances of the executor. *)
EXTENDS Executor, TLC

(* Tasks, submitters and workers are interchangeable. *)
Symmetry ==
  Permutations(Tasks) \cup Permutations(Submitters) \cup Permutations(Workers)
=============================================================================
