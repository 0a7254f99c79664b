----------------------------- MODULE MCPlatform -----------------------------
(* Small instances of Platform for TLC. *)
EXTENDS Platform, TLC

MCCallers == {"deploy", "close"} \X Deployments \cup {"undeploy"} \X Undeployers

MCSymmetry == Permutations(Deployments) \cup Permutations(Undeployers)
=============================================================================
