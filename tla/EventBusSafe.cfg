SPECIFICATION Spec
CONSTANTS
  Mailboxes = {c1, c2}
  Consumers = {c1, c2}
  NoConsumer = NoConsumer
  Unregistering = {c1, c2}
  Callers = {p1}
  Kinds = {"publish", "send"}
  MaxCalls = 3
  Workers = 1
  MayClose = TRUE
  Capacity = 2
SYMMETRY MCSymmetry
CHECK_DEADLOCK FALSE
INVARIANTS
  ConsumersExact
  PublishIsExact
  HandledInOrder
