SPECIFICATION FairSpec
CONSTANTS
  Mailboxes = {c1, c2}
  Consumers = {c1, c2}
  NoConsumer = NoConsumer
  Unregistering = {c1}
  Callers = {p1}
  Kinds = {"publish"}
  MaxCalls = 2
  Workers = 2
  MayClose = TRUE
  Capacity = 1
CHECK_DEADLOCK FALSE
PROPERTY
  BusProgress
