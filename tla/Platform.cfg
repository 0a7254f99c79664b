SPECIFICATION FairSpec
CONSTANTS
  Deployments = {d1}
  Undeployers = {u1, u2}
  Callers <- MCCallers
  NoCmd = NoCmd
  NoDeployment = NoDeployment
  ParentMayCancel = TRUE
CHECK_DEADLOCK FALSE
INVARIANTS
  HooksExact
  AnswersAreTrue
  CommandAccounted
PROPERTY
  PlatformProgress
