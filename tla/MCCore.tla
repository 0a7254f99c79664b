------------------------------- MODULE MCCore -------------------------------
(***************************************************************************)
(* Model of the components of pkg/core that do not interact: server life   *)
(* cycle, futures, worker pool and blocking work, supervisor; links,       *)
(* generic server, tick timer, compute pool; pkg/core/resilience and       *)
(* pkg/core/runtime.  Which of them moves is chosen initially and never    *)
(* changes, so that their state spaces add up instead of multiplying.      *)
(***************************************************************************)
EXTENDS BaseServer, BlockingWork, Supervisor, Links, GenServer, ComputePool, Bulkhead, Resilience,
        RuntimeServices, TLC

CONSTANTS
  Parts,        \* the components of the model
  SharedFuture, \* the future the goroutines Registrars race on
  Registrars

VARIABLE part   \* the component that moves

(* An action of a component, where that component is the one that moves. *)
In(p, A) == part = p /\ A

(* The children of the supervisor, in the order of their start. *)
MCChildren == <<"k1", "k2">>

(* The hook "a" comes after the others. *)
MCPriority == [m \in Members |-> IF m = "a" THEN 2 ELSE 1]

taskVars == <<serverVars, futureVars, poolVars, blockingVars, supervisorVars>>
actorVars == <<linkVars, gsVars, timerVars, jobVars>>
resilienceVars == <<breakerVars, bulkVars, limitVars, rateVars, callsVars>>
runtimeVars == <<stateVars, quotaVars, lifeVars>>
coreVars == <<taskVars, actorVars, resilienceVars, runtimeVars>>

(* Where a constructor chooses, the parts that do not move choose once. *)
CoreInit ==
  /\ NewBaseServer /\ BlockingInit /\ NewSupervisor
  /\ NewLinkManager /\ NewGenServer /\ NewScheduleTimer /\ NewComputePool
  /\ NewBreaker /\ NewBulkhead /\ NewLimiter /\ NewRate /\ NewCall
  /\ NewManager /\ NewQuotas /\ NewLifecycle
  /\ part # "supervisor" => strategy = "one-for-one" /\ restartType = [c \in ChildIDs |-> "permanent"]
  /\ part # "compute" => jobPolicy = CHOOSE p \in JobPolicies : TRUE
  /\ part # "calls" => policy = CHOOSE p \in Policies : TRUE
  /\ part # "lifecycle" => lifeKind = "drain" /\ ~parallel

WorkNext ==
  \/ part = "server" /\ ServerNext
     /\ UNCHANGED <<futureVars, poolVars, blockingVars, supervisorVars>>
  \/ part = "future" /\ FutureSteps({SharedFuture}, Registrars, Registrars)
     /\ UNCHANGED <<serverVars, poolVars, blockingVars, supervisorVars>>
  \/ part = "pool" /\ PoolNext
     /\ UNCHANGED <<serverVars, futureVars, blockingVars, supervisorVars>>
  \/ part = "blocking" /\ BlockingNext /\ UNCHANGED <<serverVars, supervisorVars>>
  \/ part = "supervisor" /\ SupervisorNext
     /\ UNCHANGED <<serverVars, futureVars, poolVars, blockingVars>>

ActorNext ==
  \/ part = "links" /\ LinksNext /\ UNCHANGED <<gsVars, timerVars, jobVars>>
  \/ part = "genserver" /\ GenServerNext /\ UNCHANGED <<linkVars, timerVars, jobVars>>
  \/ part = "timer" /\ TimerNext /\ UNCHANGED <<linkVars, gsVars, jobVars>>
  \/ part = "compute" /\ ComputeNext /\ UNCHANGED <<linkVars, gsVars, timerVars>>

ResilienceNext ==
  \/ part = "breaker" /\ BreakerNext /\ UNCHANGED <<bulkVars, limitVars, rateVars, callsVars>>
  \/ part = "bulkhead" /\ BulkheadNext /\ UNCHANGED <<breakerVars, limitVars, rateVars, callsVars>>
  \/ part = "limiter" /\ LimiterNext /\ UNCHANGED <<breakerVars, bulkVars, rateVars, callsVars>>
  \/ part = "rate" /\ RateNext /\ UNCHANGED <<breakerVars, bulkVars, limitVars, callsVars>>
  \/ part = "calls" /\ CallsNext /\ UNCHANGED <<breakerVars, bulkVars, limitVars, rateVars>>

RuntimeNext ==
  \/ part = "state" /\ StateNext /\ UNCHANGED <<quotaVars, lifeVars>>
  \/ part = "quota" /\ QuotaNext /\ UNCHANGED <<stateVars, lifeVars>>
  \/ part = "lifecycle" /\ LifecycleNext /\ UNCHANGED <<stateVars, quotaVars>>

CoreNext ==
  /\ UNCHANGED part
  /\ \/ WorkNext /\ UNCHANGED <<actorVars, resilienceVars, runtimeVars>>
     \/ ActorNext /\ UNCHANGED <<taskVars, resilienceVars, runtimeVars>>
     \/ ResilienceNext /\ UNCHANGED <<taskVars, actorVars, runtimeVars>>
     \/ RuntimeNext /\ UNCHANGED <<taskVars, actorVars, resilienceVars>>

CoreSafe == part \in Parts /\ CoreInit /\ [][CoreNext]_<<part, coreVars>>

(* Goroutines that can run do, functions return, timers and deadlines come *)
(* and time passes; contexts need never be cancelled.                      *)
CoreFairness ==
  /\ \A g \in Completers : WF_futureVars(In("future", CompleteStep(g)))
  /\ \A h \in Handlers : WF_futureVars(In("future", RegisterCheck(h)))
  /\ \A a \in Awaiters : WF_futureVars(In("future", AwaitStep(a)))
  /\ WF_<<futureVars, poolVars, blockingVars>>(In("blocking", VerticleStopStep))
  /\ \A c \in Callers : WF_<<futureVars, poolVars, blockingVars>>(In("blocking", CallerStep(c)))
  /\ \A w \in PoolWorkers : WF_<<futureVars, poolVars, blockingVars>>(In("blocking", BlockingWorkerStep(w)))
  /\ WF_supervisorVars(In("supervisor", SupervisorStep))
  /\ \A w \in JobWorkers : WF_jobVars(In("compute", JobWorkerStep(w)))
  /\ \A j \in Jobs : WF_jobVars(In("compute", GetResult(j)))
  /\ WF_breakerVars(In("breaker", TimeoutElapses))
  /\ \A c \in BreakerCallers : WF_breakerVars(In("breaker", CallStep(c)))
  /\ WF_bulkVars(In("bulkhead", ProcessorStep))
  /\ \A c \in Calls : /\ WF_bulkVars(In("bulkhead", CallGoes(c)))
                      /\ WF_bulkVars(In("bulkhead", ExecuteWithSemaphore(c)))
  /\ WF_limitVars(In("limiter", LimiterTicks))
  /\ \A r \in Requesters : WF_limitVars(In("limiter", RequesterStep(r)))
  /\ WF_callsVars(In("calls", CallStepOf))
  /\ WF_callsVars(In("calls", policy = "timeout" /\ ContextDone))
  /\ \A i \in Functions : WF_callsVars(In("calls", policy # "timeout" /\ FunctionEnds(i)))

CoreSpec == CoreSafe /\ CoreFairness
-----------------------------------------------------------------------------
(* What a future tells is what happened: the first completion wins and no  *)
(* handler misses it (future.go), a future of blocking work has the result *)
(* of its function, and one of the compute pool that of its job, or that   *)
(* it was superseded.                                                      *)
FuturesTellTruth ==
  /\ part \in {"future", "blocking"} => FirstOutcomeWins /\ NoHandlerMissed
  /\ part = "blocking" => FutureTellsTruth
  /\ part = "compute" => JobTellsTruth

(* The policies of pkg/core/resilience answer the truth: a success only if *)
(* a function succeeded, a bulkhead's caller what became of its function,  *)
(* the rate window no event it should not count and all it should; and a   *)
(* limiter grants no more than Burst between two refills.                  *)
ResilienceTellsTruth ==
  /\ part = "calls" => CallTellsTruth
  /\ part = "bulkhead" => BulkheadTellsTruth
  /\ part = "rate" => WindowHolds
  /\ part = "limiter" => GrantsBounded

(* What is to be exclusive in the runtime services is: no more units of a  *)
(* quota than its limit, one drain or hook round, one tick loop at a time. *)
RuntimeExclusive ==
  /\ part = "quota" => UsageIsHeld
  /\ part = "lifecycle" => RoundsExclusive
  /\ part = "timer" => OneTickLoop
=============================================================================
