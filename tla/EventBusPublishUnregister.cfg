SPECIFICATION Spec
CONSTANTS
  Mailboxes = {c1, c2, c3}
  Consumers = {c1, c2, c3}
  NoConsumer = NoConsumer
  Unregistering = {c1}
  Callers = {p1}
  Kinds = {"publish"}
  MaxCalls = 1
  Workers = 3
  MayClose = FALSE
  Capacity = 2
INVARIANT PublishReachesEach
CHECK_DEADLOCK FALSE
