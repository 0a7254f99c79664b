\* Liveness of the components, one at a time.
SPECIFICATION ComponentsSpec
CONSTANTS
  Parts = {"future", "blocking", "supervisor", "compute", "breaker", "bulkhead", "limiter", "calls",
           "conn", "cluster", "log", "scheduler", "workflow", "shop",
           "group", "actors", "discovery", "signals", "shutdown"}
  Starters = {a1, a2}
  Stoppers = {b1, b2}
  MaxStarts = 1
  MaxStops = 1
  Futures = {t1, t2}
  SharedFuture = t1
  Completers = {w1, c1, c2}
  Awaiters = {c1, c2}
  Registrars = {c1, c2}
  Handlers = {h1}
  PoolTasks = {t1, t2}
  PoolWorkers = {w1}
  PoolSubmitters = {c1}
  PoolQueueSize = 1
  MaxPoolStarts = 1
  MaxBatch = 1
  NilTask = NilTask
  Children <- MCChildren
  RestartLimit = 1
  Within = 2
  MaxEnds = 2
  MaxFailures = 1
  MaxTime = 0
  Deployments = {d1, d2, d3}
  MaxRefs = 0
  Exiting = {}
  Messages = {m1, m2, m3}
  Casts = {m2}
  Queries = {m3}
  NoMessage = NoMessage
  LoopQueueSize = 2
  MaxTimerStarts = 4
  Jobs = {j1, j2}
  NoJob = NoJob
  JobWorkers = {w1}
  QueueSize = 1
  JobPolicies = {"block", "drop_newest", "drop_oldest", "coalesce"}
  CancellableJobs = {}
  BreakerCallers = {c1, c2}
  FailureThreshold = 1
  SuccessThreshold = 1
  HalfOpenMaxRequests = 1
  Calls = {c1, c2, c3}
  NoCall = NoCall
  MaxConcurrency = 1
  MaxQueueSize = 1
  QueueTimeout = TRUE
  Impatient = {c1, c2}
  Requesters = {c1, c2}
  Rate = 1
  RefillInterval = 2
  Burst = 2
  MaxIdle = 5
  Granularity = 3
  BucketSize = 2
  MaxRateTime = 0
  N = 3
  Policies = {"timeout", "retry", "fallback", "hedge", "hedgeAll"}
  HedgeConcurrency = 2
  Operators = {o1, o2}
  Waiters = {w1}
  NoOperator = NoOperator
  MaxTransitions = 0
  Users = {u1, u2, u3}
  Limit = 2
  HasWindow = TRUE
  MaxObjects = 2
  MaxResets = 0
  Members = {"a", "b", "c"}
  Priority <- MCPriority
  AsyncMembers = {"c"}
  HookConcurrency = 1
  Rounds = {r1, r2}
  MaxRounds = 0
  ServerKinds = {"tcp"}
  Conns = {c1, c2}
  NoConn = NoConn
  Acceptors = {a1, a2}
  ConnWorkers = {w1}
  MaxConns = 1
  Queue = q
  Mailboxes = {q}
  Capacity = 1
  Acquirers = {g1, g2}
  NormalCapacity = 1
  ResetInterval = 1
  MaxClock = 0
  BindRetryAttempts = 2
  Posts = {"b"}
  PostKind <- MCPostKind
  Replicas = {r1, r2}
  ServiceOf <- MCServiceOf
  MaxAckPending = 1
  ExecQueue = 1
  MaxCrashes = 1
  RPCs = {k1, k2}
  NoRPC = NoRPC
  MaxRedeliveries = 1
  Appenders = {p1, p2}
  Durabilities = {"memory", "fsync"}
  MaxSegmentItems = 2
  MaxSegments = 2
  MaxBuffered = 2
  QueueCap = 1
  MaxAppends = 2
  MaxRestarts = 1
  Torn = Torn
  Entries = {"daily"}
  Period <- MCPeriod
  Recurring = {"daily"}
  MaxOverlap = 2
  Trees = {"switch"}
  Joins = {"merge"}
  Workflows <- MCWorkflows
  Cancellable <- MCCancellable
  Messaged <- MCMessaged
  MaxMessages = 1
  Shoppers = {s1, s2}
  WalletTypes = {"primary", "savings"}
  MinBalance <- MCMin
  MaxBalance <- MCMax
  Rules <- MCRules
  Deposits = {2}
  Transfers = {}
  Carts <- MCCarts
  Price <- MCPrice
  InitialStock <- MCStock
  MaxOpenConns = 3
  MaxRequests = 2
  Requester = "eve"
  Nobody = Nobody
  Deciders <- MCDeciders
  Producers = {p1, p2}
  BufferSize = 2
  MaxSequence = 0
  Prices = {1, 2}
  Quantities = {1, 2}
  MaxOrders = 0
  NumLoops = 2
  RingSize = 2
  GroupEvents = {"e1", "e2", "e4", "e5"}
  NoGroupEvent = NoGroupEvent
  KeyOf <- MCKeyOf
  NoKey = ""
  HashOf <- MCHashOf
  ByKey = {"e2"}
  DispatchedBy <- MCDispatchedBy
  BlockOnFull = TRUE
  Actors <- MCActors
  ActorStrategies = {"OneForOne"}
  MaxActorRestarts = 1
  MaxInstances = 3
  ActorStoppers = {"s1"}
  Apps = {"a"}
  AppService <- MCAppService
  MaxPosts <- MCMaxPosts
  MaxBeats = 2
  SignalQueue = 2
  MaxSignals = 2
  SignalStoppers = {"s1"}
  SignalWaiters = {"w1", "w2"}
  ComponentNames = {"x", "y", "z"}
  MaxComponents = 2
  ManyCalls <- MCManyCalls
  SingleCalls = {"c1"}
  PhaseHooks <- MCPhaseHooks
  RiskOrders <- MCRiskOrders
  MarketPrices = {0, 8}
  MaxOrderSize = 3
  MaxNotionalPerOrder = 15
  MaxPositionPerSymbol = 2
  MaxNotionalExposure = 10
  DeviationPercent = 50
  RiskScale = 2
CHECK_DEADLOCK FALSE
PROPERTIES
  CallsReturn
  
