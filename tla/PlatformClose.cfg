SPECIFICATION Spec
CONSTANTS
  Deployments = {d1, d2}
  Undeployers = {u1}
  Callers <- MCCallers
  NoCmd = NoCmd
  NoDeployment = NoDeployment
  ParentMayCancel = FALSE
SYMMETRY MCSymmetry
INVARIANT CloseStopsWhatRan
CHECK_DEADLOCK FALSE
