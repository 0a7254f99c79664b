\* Two Awaits wait for a future: is each of them woken?
SPECIFICATION CoreSpec
CONSTANTS
  Parts = {"future"}
  Starters = {a1, a2}
  Stoppers = {b1, b2}
  MaxStarts = 1
  MaxStops = 1
  Futures = {t1, t2}
  SharedFuture = t1
  Completers = {w1, c1, c2}
  Awaiters = {c1, c2}
  Registrars = {c1, c2}
  Handlers = {h1}
  PoolTasks = {t1, t2}
  PoolWorkers = {w1}
  PoolSubmitters = {c1}
  PoolQueueSize = 1
  MaxPoolStarts = 1
  MaxBatch = 1
  NilTask = NilTask
  Children <- MCChildren
  RestartLimit = 1
  Within = 2
  MaxEnds = 2
  MaxFailures = 1
  MaxTime = 1
  Deployments = {d1, d2, d3}
  MaxRefs = 2
  Exiting = {d1}
  Messages = {m1, m2, m3}
  Casts = {m2}
  Queries = {m3}
  NoMessage = NoMessage
  LoopQueueSize = 2
  MaxTimerStarts = 4
  Jobs = {j1, j2, j3}
  NoJob = NoJob
  JobWorkers = {w1}
  QueueSize = 1
  JobPolicies = {"block", "drop_newest", "drop_oldest", "coalesce"}
  CancellableJobs = {j1}
  BreakerCallers = {c1, c2}
  FailureThreshold = 1
  SuccessThreshold = 2
  HalfOpenMaxRequests = 2
  Calls = {c1, c2, c3}
  NoCall = NoCall
  MaxConcurrency = 1
  MaxQueueSize = 1
  QueueTimeout = TRUE
  Impatient = {c1, c2}
  Requesters = {c1, c2}
  Rate = 1
  RefillInterval = 2
  Burst = 2
  MaxIdle = 5
  Granularity = 3
  BucketSize = 2
  MaxRateTime = 11
  N = 3
  Policies = {"timeout", "retry", "fallback", "hedge", "hedgeAll"}
  HedgeConcurrency = 2
  Operators = {o1, o2}
  Waiters = {w1}
  NoOperator = NoOperator
  MaxTransitions = 7
  Users = {u1, u2, u3}
  Limit = 2
  HasWindow = TRUE
  MaxObjects = 2
  MaxResets = 1
  Members = {"a", "b", "c"}
  Priority <- MCPriority
  AsyncMembers = {"c"}
  HookConcurrency = 1
  Rounds = {r1, r2}
  MaxRounds = 2
CHECK_DEADLOCK FALSE
PROPERTY
  AwaitReturns
