----------------------------- MODULE MCEventBus -----------------------------
(* Small instances of EventBus for TLC. *)
EXTENDS EventBus, TLC

MCSymmetry == Permutations(Consumers) \cup Permutations(Callers)
=============================================================================
