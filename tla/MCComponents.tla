---------------------------- MODULE MCComponents ----------------------------
(***************************************************************************)
(* The components of MCCore, and the packages outside pkg/core (with its   *)
(* cluster event bus and its group of event loops): network servers,       *)
(* messaging, workflow engine, matching and risk engine, the services of   *)
(* apps/postgres-demo, service discovery, the actor supervisor and what    *)
(* surrounds the components of a process.  They do not interact; the       *)
(* constant Parts says which of them a run looks at.                       *)
(***************************************************************************)
EXTENDS MCCore, ConnServer, WebServer, Brokers, AppendLog, Scheduler, Workflow,
        PostgresDemo, Disruptor, Trading, LoopGroup, ActorSupervisor, Discovery, Managers

CONSTANTS Trees, Joins   \* names of the workflows of the model, see Definition

(* A workflow whose nodes are actions, tried once, unless said otherwise.  *)
Def(ns, type, next, trueNext, falseNext, onError, retries) ==
  [nodes |-> ns, type |-> type @@ [n \in ns |-> "action"], next |-> next @@ [n \in ns |-> {}],
   trueNext |-> trueNext @@ [n \in ns |-> {}], falseNext |-> falseNext @@ [n \in ns |-> {}],
   onError |-> onError @@ [n \in ns |-> {}], cases |-> [n \in ns |-> {}],
   retries |-> retries @@ [n \in ns |-> 1], mode |-> [n \in ns |-> "waitAll"]]
None == [n \in {} |-> {}]

Definition ==
  [one    |-> Def({"a"}, None, None, None, None, None, None),
   tree   |-> Def({"a", "b", "c"}, "a" :> "trigger", "a" :> {"b", "c"}, None, None, "a" :> {"b"}, "b" :> 2),
   switch |-> [Def({"a", "b", "c", "d"}, "a" :> "condition" @@ "d" :> "unknown", "b" :> {"d"},
                   "a" :> {"b"}, "a" :> {"c"}, "b" :> {"d"}, None)
               EXCEPT !.cases = "c" :> {{"d"}} @@ @],
   merge  |-> Def({"a", "b", "c", "d"}, "d" :> "merge",
                  "a" :> {"b", "c"} @@ "b" :> {"d"} @@ "c" :> {"d"}, None, None, None, None)]
MCWorkflows == {Definition[w] : w \in Trees \cup Joins}
MCCancellable == {Definition[w] : w \in Trees \ {"one"}}
MCMessaged == {Definition[w] : w \in Trees \cap {"one"}}

MCPostKind == "a" :> "publish" @@ "b" :> "send" @@ "r" :> "request"
MCServiceOf == [r \in Replicas |-> "s"]
MCPeriod == [e \in Entries |-> 2]
MCMin == [primary |-> 0, savings |-> 1]
MCMax == [primary |-> 0, savings |-> 3]
MCRules == {[type |-> "deposit_limit", wallet |-> "any", min |-> 0, max |-> 2],
            [type |-> "daily_limit", wallet |-> "any", min |-> 0, max |-> 3]}
MCPrice == [pen |-> 1]
MCStock == [pen |-> 1]
MCCarts == {<<[product |-> "pen", quantity |-> 1]>>}
MCKeyOf == "e1" :> "k" @@ "e2" :> "k" @@ "e3" :> "k" @@ "e4" :> "" @@ "e5" :> "l"
MCHashOf == "k" :> 4 @@ "l" :> 7
MCDispatchedBy == [e \in GroupEvents |-> IF e = "e5" THEN "e1" ELSE NoGroupEvent]
MCActors == <<"x", "y">>
MCAppService == [a \in Apps |-> "s"]
MCMaxPosts == [a \in Apps |-> IF a = "a" THEN 2 ELSE 1]
MCManyCalls == [b1 |-> {"x", "y"}, b2 |-> {"y", "z"}]
MCPhaseHooks == <<{"h1", "h2"}, {"h3", "h4"}, {"h5"}>>
MCRiskOrders == [o1 |-> [symbol |-> "s", side |-> "buy", quantity |-> 2, price |-> 3],
                 o2 |-> [symbol |-> "s", side |-> "sell", quantity |-> 3, price |-> 4],
                 o3 |-> [symbol |-> "s", side |-> "sell", quantity |-> 3, price |-> 5],
                 o4 |-> [symbol |-> "t", side |-> "sell", quantity |-> 1, price |-> 5]]
MCDeciders == [a |-> "ann", b |-> "bob", c |-> "bob", d |-> "eve"]

netVars == <<connVars, bpVars, webVars>>
messagingVars == <<clusterVars, rpcVars, logVars, schedVars>>
businessVars == <<wfVars, shopVars, approvalVars>>
hftVars == <<ringVars, bookVars, riskVars>>
processVars == <<groupVars, actorSupVars, discoveryVars, signalVars, regVars, shutdownVars>>
servicesVars == <<netVars, messagingVars, businessVars, hftVars, processVars>>

ServicesInit ==
  /\ NewServer /\ NewFastHTTPServer /\ NewClusterEventBus /\ NewRPCClient /\ LogInit /\ NewScheduler
  /\ NewEngine /\ Setup /\ CreateApproval /\ NewRingBuffer /\ NewOrderBook
  /\ NewRiskEngine /\ NewEventLoopGroup /\ NewActorSupervisor /\ NewDiscovery /\ NewSignalHandler
  /\ NewRegistryManager /\ NewShutdown
  /\ part # "conn" => kind = CHOOSE k \in ServerKinds : TRUE
  /\ part # "cluster" => bus = "nats"
  /\ part # "log" => durability = CHOOSE d \in Durabilities : TRUE
  /\ part # "workflow" => wf = CHOOSE w \in MCWorkflows : TRUE
  /\ part # "actors" => actorStrategy = CHOOSE s \in ActorStrategies : TRUE
  /\ part # "signals" => ~hasTimeout /\ ~continueOnSignal
  /\ part # "registry" => ~allowOverwrite

NetNext ==
  \/ part = "conn" /\ ConnNext /\ UNCHANGED <<bpVars, webVars>>
  \/ part = "web" /\ WebNext /\ UNCHANGED connVars
  \/ part = "backpressure" /\ BackpressureNext /\ UNCHANGED <<connVars, webVars>>

MessagingNext ==
  \/ part = "cluster" /\ ClusterNext /\ UNCHANGED <<rpcVars, logVars, schedVars>>
  \/ part = "rpc" /\ RPCNext /\ UNCHANGED <<clusterVars, logVars, schedVars>>
  \/ part = "log" /\ LogNext /\ UNCHANGED <<clusterVars, rpcVars, schedVars>>
  \/ part = "scheduler" /\ SchedulerNext /\ UNCHANGED <<clusterVars, rpcVars, logVars>>

BusinessNext ==
  \/ part = "workflow" /\ WorkflowNext /\ UNCHANGED <<shopVars, approvalVars>>
  \/ part = "shop" /\ ShopNext /\ UNCHANGED <<wfVars, approvalVars>>
  \/ part = "approval" /\ ApprovalNext /\ UNCHANGED <<wfVars, shopVars>>

HftNext ==
  \/ part = "disruptor" /\ DisruptorNext /\ UNCHANGED <<bookVars, riskVars>>
  \/ part = "orderbook" /\ OrderBookNext /\ UNCHANGED <<ringVars, riskVars>>
  \/ part = "risk" /\ RiskNext /\ UNCHANGED <<ringVars, bookVars>>

ProcessNext ==
  \/ part = "group" /\ GroupNext
     /\ UNCHANGED <<actorSupVars, discoveryVars, signalVars, regVars, shutdownVars>>
  \/ part = "actors" /\ ActorSupNext
     /\ UNCHANGED <<groupVars, discoveryVars, signalVars, regVars, shutdownVars>>
  \/ part = "discovery" /\ DiscoveryNext
     /\ UNCHANGED <<groupVars, actorSupVars, signalVars, regVars, shutdownVars>>
  \/ part = "signals" /\ SignalNext
     /\ UNCHANGED <<groupVars, actorSupVars, discoveryVars, regVars, shutdownVars>>
  \/ part = "registry" /\ RegistryNext
     /\ UNCHANGED <<groupVars, actorSupVars, discoveryVars, signalVars, shutdownVars>>
  \/ part = "shutdown" /\ ShutdownNext
     /\ UNCHANGED <<groupVars, actorSupVars, discoveryVars, signalVars, regVars>>

ServicesNext ==
  /\ UNCHANGED part
  /\ \/ NetNext /\ UNCHANGED <<messagingVars, businessVars, hftVars, processVars>>
     \/ MessagingNext /\ UNCHANGED <<netVars, businessVars, hftVars, processVars>>
     \/ BusinessNext /\ UNCHANGED <<netVars, messagingVars, hftVars, processVars>>
     \/ HftNext /\ UNCHANGED <<netVars, messagingVars, businessVars, processVars>>
     \/ ProcessNext /\ UNCHANGED <<netVars, messagingVars, businessVars, hftVars>>

(* Goroutines that can run do; the broker hands out what is not             *)
(* acknowledged, AckWait elapses, and a handler that is tried again and     *)
(* again on a message succeeds in the end; leases that nobody renews end.   *)
ServicesFairness ==
  /\ \A a \in Acceptors : WF_connVars(In("conn", ~crashed /\ AcceptorStep(a)))
  /\ \A w \in ConnWorkers : WF_connVars(In("conn", ~crashed /\ ConnWorkerStep(w)))
  /\ WF_connVars(In("conn", ~crashed /\ StopStep))
  /\ \A r \in Replicas : WF_clusterVars(In("cluster", ReplicaStep(r)))
  /\ \A r \in Replicas, p \in Posts : SF_clusterVars(In("cluster", HandlerSucceeds(r, p)))
  /\ \A d \in Durables, p \in Posts : /\ WF_clusterVars(In("cluster", HandOut(d, p)))
                                      /\ WF_clusterVars(In("cluster", AckWaitElapses(d, p)))
  /\ WF_clusterVars(In("cluster", \E x \in delivering : OnMsg(x)))
  /\ WF_logVars(In("log", LogStep))
  /\ \A p \in Appenders : WF_logVars(In("log", AppenderStep(p)))
  /\ WF_schedVars(In("scheduler", LoopEnds)) /\ WF_schedVars(In("scheduler", ExecuteDueTasks))
  /\ WF_schedVars(In("scheduler", StopSchedulerReturns))
  /\ \A e \in Entries, s \in Slots : WF_schedVars(In("scheduler", RunStep(e, s)))
  /\ WF_wfVars(In("workflow", EngineStep)) /\ WF_wfVars(In("workflow", CancelCleanup))
  /\ \A t \in 1 .. 6 : WF_wfVars(In("workflow", TaskStep(t)))
  /\ \A s \in Shoppers : WF_shopVars(In("shop", ShopperStep(s)))
  /\ \A e \in GroupEvents : WF_groupVars(In("group", GroupCallStep(e)))
  /\ \A l \in GroupLoops : WF_groupVars(In("group", GroupLoopStep(l)))
  /\ WF_groupVars(In("group", GroupCloseStep))
  /\ WF_actorSupVars(In("actors", ActorStartStep))
  /\ \A s \in ActorStoppers : WF_actorSupVars(In("actors", StopActorsReturns(s)))
  /\ WF_discoveryVars(In("discovery", EvictExpired))
  /\ \A a \in Apps : /\ \A o \in InstanceObjects(a) : WF_discoveryVars(In("discovery", LeaseEnds(o)))
                     /\ \A b \in BeatIDs : WF_discoveryVars(In("discovery", BeatStep(a, b)))
  /\ WF_signalVars(In("signals", RunLoopStep))
  /\ \A c \in SigCallers : WF_signalVars(In("signals", SigCallStep(c)))
  /\ WF_shutdownVars(In("shutdown", PhaseStep))

ComponentsInit == part \in Parts /\ CoreInit /\ ServicesInit

ComponentsNext ==
  \/ CoreNext /\ UNCHANGED servicesVars
  \/ ServicesNext /\ UNCHANGED coreVars

ComponentsSafe == ComponentsInit /\ [][ComponentsNext]_<<part, coreVars, servicesVars>>

ComponentsSpec == ComponentsSafe /\ CoreFairness /\ ServicesFairness
-----------------------------------------------------------------------------
(* Money and goods of apps/postgres-demo are accounted for: what is frozen *)
(* is what pending transactions took, balances are what the completed ones *)
(* left, and the stock went where the orders say.                          *)
ShopAccounted == part = "shop" => MoneyAccounted /\ StockAccounted

(* A record of the log that was made durable is there after every crash,   *)
(* in offset order within a segment, and the buffer counter is what the    *)
(* accepted appends hold (fs_store.go).                                    *)
LogExact == part = "log" => LogSurvives /\ BufferExact

(* What an event loop owes its callers: a generic server's reply is that   *)
(* of a state all earlier messages made (genserver.go), and a loop group   *)
(* handles the events of a key in order (dispatcher.go).                   *)
LoopsInOrder ==
  /\ part = "genserver" => RepliesHold
  /\ part = "group" => KeyedInOrder

(* A supervisor restarts no more often than it is told to (supervisor.go   *)
(* of pkg/core), and the actor supervisor runs no child twice and leaves   *)
(* none behind (pkg/actor).                                                *)
RestartsExact ==
  /\ part = "supervisor" => RestartIntensity
  /\ part = "actors" => OneInstance

(* The services of a process keep their word: exclusive rounds and quotas, *)
(* a signal handler that is silent once it is stopped, batches of the      *)
(* registry that are rolled back, shutdown phases in their order, and a    *)
(* service directory whose two maps agree.                                 *)
RuntimeExact ==
  /\ RuntimeExclusive
  /\ part = "signals" => StoppedIsSilent
  /\ part = "registry" => BatchesRollBack
  /\ part = "shutdown" => PhasesInOrder
  /\ part = "discovery" => DirectoryExact

(* Trades are made at the best price and at one price in the order of      *)
(* arrival, and the positions that fills make are what was traded and stay *)
(* near the limit (pkg/hft).                                               *)
TradingExact == PriceTimePriority /\ [](part = "risk" => PositionBounded /\ PositionTellsTruth)

(* Whoever waits for an answer gets one: of a future (one of those that    *)
(* wait for it), of blocking work and of the verticle that stops, of the   *)
(* compute pool, of a bulkhead, of a resilience policy, of an append to    *)
(* the log and of a request to the services of apps/postgres-demo; of      *)
(* Dispatch on a loop group, unless it is behind a handler that dispatches *)
(* itself, and of its Close; of Stop of an actor supervisor (OneForOne)    *)
(* and of a signal handler (with a timeout), and of Shutdown.              *)
CallsReturn ==
  /\ \A a \in Awaiters, f \in Futures :
       []<>(part = "future" /\ Selecting(a, f) /\ completed[f] => taken[f])
  /\ BlockingCompletes /\ VerticleStopReturns
  /\ FutureAnswered
  /\ CallEnds
  /\ []<>(part = "calls" => callAnswer # "none")
  /\ AppendAnswered
  /\ RequestsAnswered
  /\ GroupCloses
  /\ \A e \in GroupEvents : []<>(part = "group" => ~DispatchWaits(e) \/ HandlerWaits)
  /\ ActorStopReturns
  /\ SignalCallsReturn
  /\ ShutdownEnds

(* What is promised to happen happens: the restart of a child that ended,  *)
(* a scheduled run, the end of a workflow, the release of a connection,    *)
(* the redelivery of a message until it is handled; and a breaker leaves   *)
(* half open, a limiter grants again, an instance that nobody renews is    *)
(* evicted.                                                                *)
WorkIsDone ==
  /\ EndedIsRestarted
  /\ ScheduledIsExecuted
  /\ ExecutionEnds
  /\ AcceptedIsClosed
  /\ PostReachesServices
  /\ LeavesHalfOpen
  /\ DeadIsEvicted
  /\ []<>(part = "limiter" => \E r \in Requesters : limitPC[r] = "granted")
=============================================================================
