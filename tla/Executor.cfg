CONSTANTS
  Tasks = {t1, t2, t3}
  NoTask = NoTask
  Submitters = {s1, s2}
  Workers = {w1}
  Closers = {c1}
  Calls = {"Submit", "SubmitWithTimeout", "SubmitBatch"}
  QueueSize = 1
SPECIFICATION FairSpec
CHECK_DEADLOCK FALSE
INVARIANT
  EveryTaskAccounted
PROPERTIES
  QueueIsSafe
  ExecutorProgress
