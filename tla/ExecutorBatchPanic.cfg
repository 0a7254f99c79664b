CONSTANTS
  Tasks = {t1, t2}
  NoTask = NoTask
  Submitters = {s1}
  Workers = {w1}
  Closers = {c1}
  Calls = {"SubmitBatch"}
  QueueSize = 2
SPECIFICATION Spec
CHECK_DEADLOCK FALSE
INVARIANTS
  NoSendOnClosedChannel
