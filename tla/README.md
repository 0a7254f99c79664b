# Fluxor runtime: TLA+ models, model checking and proofs

Fluxor is a reactive runtime for Go in the manner of Vert.x and OTP.  This
directory holds TLA+ models of its concurrent core, TLC configurations that
check them on small instances, and TLAPS proofs of the properties that matter
most for instances of any size.

## 1. The system

| Part | Where | State | Operations | What makes it hard |
|---|---|---|---|---|
| Ring buffer and event loop | `pkg/core/eventloop/ringbuffer.go`, `loop.go` | slots, published sequences, cursor, gating sequence, closed flag, context | Next, Publish, WaitFor, Get, Consume; Dispatch, run, Close, Stats | lock-free multi-producer claims, two-store publication, stale loads, Close racing Dispatch |
| Dispatcher and loop group | `dispatcher.go`, `group.go`, `key.go` | loops, round-robin counter, RWMutex | Dispatch, DispatchByKey, DispatchEnvelope, Close | a lock held across a blocking Dispatch |
| Executor | `pkg/core/concurrency/executor_impl.go` | task channel, worker goroutines, closed flag, counters | Submit, SubmitWithTimeout, SubmitBatch, Shutdown | closing a channel others send on, abandoned tasks |
| Mailbox, worker pool, future, backpressure controller | `pkg/core/concurrency` | channels, flags, result cells | Send/Receive/Close, Start/Stop/Submit, Complete/Await, TryAcquire/Release | check-then-send, single-slot result channels |
| Event bus | `pkg/core/eventbus_impl.go` | consumers per address, mailboxes, executor | Publish, Send, Request, Consumer, Handler, Unregister, Close | snapshots of a shared slice, mailboxes closed during delivery |
| Deployments | `pkg/core/platform.go`, `deployment.go` | deployment map, per-deployment state machine, command channel | DeployVerticle, UndeployVerticle, Close | timeouts racing late answers, concurrent undeploys |
| Links, supervisor, generic server, timers | `link.go`, `supervisor.go`, `genserver.go`, `schedule_timer.go` | link graph, child table, restart window | Link, Monitor, NotifyExit; Start, checkChildren, restartChild; Call, Cast | notifications during mutation, restart storms |
| Base classes | `base_server.go`, `base_verticle.go`, `base_component.go` | lifecycle state | Start, Stop and their hooks | Stop during a slow Start |

How the parts interact: `GoCMD` (platform) owns the deployments and the event
bus; a deployed verticle registers consumers on the bus, submits blocking work
to its worker pool and gets futures back; the bus runs the receivers of its
mailboxes on an executor, or routes messages to a group of event loops; the
supervisor is a verticle that deploys other verticles through `GoCMD`; servers
(HTTP, TCP, UDP) are built on `BaseServer` and guard themselves with the
backpressure controller.

Outside this inventory are the libraries above the core (actors, append log,
cache, queue, scheduler, workflow), the resilience and runtime services of
`pkg/core`, the cluster bus, and the drivers, servers and commands.
`PROJECT.json` lists all parts with what is modelled of each.

## 2. Modules

| Module | Models | State and actions against the code |
|---|---|---|
| `RingBuffer` | `eventloop/ringbuffer.go` | one action per atomic access of `Next`, `Publish`, `Consume` |
| `EventLoop` | `eventloop/loop.go` over `RingBuffer` | `Dispatch` in both backpressure modes, `run`, `Close`, the parent's cancel, `Stats` |
| `EventQueue` | abstract | a bounded FIFO of accepted and handled events; `EventLoop` refines it with `pending <- SubSeq(claimed, Len(processed) + 1, Len(claimed))` |
| `Executor` | `concurrency/executor_impl.go` | the three submissions, workers, `Shutdown`; one action per channel, lock or atomic operation |
| `Deployment` | `deployment.go` | the goroutine of each deployment and its state machine, commands and replies |
| `Platform` | `platform.go` over `Deployment` | `DeployVerticle`, `UndeployVerticle`, `Close` with their timeouts |
| `Mailbox` | `concurrency/mailbox_impl.go` | the buffered channel, its closed flag and context |
| `EventBus` | `eventbus_impl.go` over `Mailbox` | `Publish`, `Send`, `Consumer`, `Handler`, `processMessages`, `Unregister`, `Close` on one address |
| `Future` | `concurrency/future.go` | `Complete`, `Fail`, `Await`, `OnSuccess`, `OnFailure` |
| `WorkerPool` | `concurrency/workerpool_impl.go` | `Start`, `Submit`, `SubmitBatch`, workers, `Stop` |
| `BlockingWork` | `base_verticle.go`, `base_verticle_eventloop.go` | composes `WorkerPool` and `Future`: `SubmitBlockingFunc` against the verticle's `Start` and `Stop` |
| `Backpressure` | `concurrency/backpressure.go` | `TryAcquire`, `Release`, one action per atomic operation |
| `BaseServer` | `base_server.go` | `Start` and `Stop` with the hooks they run outside the lock |
| `Supervisor` | `supervisor.go` | `Start`, `Stop`, `checkChildren`, `restartChild`; deployments reduced to their effect |
| `MCEventLoop`, `MCExecutor`, `MCPlatform`, `MCEventBus` | | values of constants and symmetry for TLC |
| `MCCore` | | the small components of `pkg/core`, of which a run explores one at a time: `part` chooses it initially, so their state spaces add up instead of multiplying |
| `*Proofs` | | theorems of the module they are named after |

Variables carry the names of the fields they model; `pc` variables say where a
goroutine stands between two atomic steps; variables marked *history* in the
declarations are not in the code and only serve properties. Definitions named
after a mapped one with a suffix, introduced by "Mutant:", are plausible bugs;
each property is violated when the definition is replaced by its mutant, which
shows that the property depends on the code.

Abstractions common to all modules: payloads, names and errors are model values
or short strings; logging and metrics are left out; Go's memory model is
sequentially consistent for the atomics and locks the code uses; a `select` with
several ready cases takes any of them; a timer may fire at any time after it was
set. A panic stops the program: it sets a variable, and what the properties say
about a program that panicked is stated in each.

## 3. Runs

Run one with `tlc -config X.cfg M`; `PROJECT.json` has the table of runs,
their properties and, for each property, the mutant that violates it.

| Run | Configuration | What it shows |
|---|---|---|
| `eventloop_safe` | `MCEventLoop`, `EventLoopSafe.cfg` | claims are handled in order, slots are never shared, answers of `Dispatch` are true, and the loop refines `EventQueue` |
| `eventloop_live` | `EventLoopLive.cfg` | accepted events are handled and `Dispatch` returns, unless the loop's context is cancelled or a handler has starved its own loop in Block mode |
| `executor` | `MCExecutor`, `ExecutorAll.cfg` | sends under the lock never meet the closed channel; each task is in one place and refused ones in none; nothing is queued after the close; accepted tasks run; submissions and `Shutdown` end |
| `executor_batch_panic` | `ExecutorBatchPanic.cfg` | violation: `SubmitBatch` sends on the closed channel |
| `platform` | `MCPlatform`, `PlatformLive.cfg` | exit signalled once, `Stop` only after a successful `Start`, true answers, every command accounted for, every call returns, an undeploy that reached a running deployment takes effect |
| `platform_close` | `PlatformClose.cfg` | `Close` stops what ran before it cancels the root context |
| `eventbus_safe` | `MCEventBus`, `EventBusSafe.cfg` | the slice of consumers stays exact, undisturbed publications are exact, messages are received in order |
| `eventbus_live` | `EventBusLive.cfg` | queued messages are received while a worker serves each consumer; `Unregister` leads to completion |
| `eventbus_publish_unregister` | `EventBusPublishUnregister.cfg` | violation: an `Unregister` makes a concurrent `Publish` skip another consumer |
| `core_safe` | `MCCore`, `CoreSafe.cfg` | server, future, pool, blocking work, backpressure and supervisor: see the properties' comments |
| `core_live` | `CoreLive.cfg` | awaits, blocking work, the verticle's `Stop` and restarts come to an end |
| `future_await` | `FutureAwait.cfg` | violation: of two waiting `Await`s only one is woken |

Deadlock is not checked: in every model all calls may have returned and all
bounded inputs be spent, and the real program may be idle as well. That nobody
waits for ever is what the liveness properties say.

### Bounds

* Ring of two slots, four events, two outside producers and the loop itself: the
  ring wraps twice, so a slot is reused while a stale load of an earlier lap is
  still held, and a producer can lose its compare-and-swap to either of two
  others. Three events suffice for liveness (a full ring and one waiting).
* Executor: queue of one, two submitters and three tasks, so that one submission
  waits for room while `Shutdown` waits for the lock it holds. One worker
  keeps the run short; the safety of locked sends is proved for any number.
* Platform: one deployment with two undeploys, a `Close` and the parent's cancel
  (all the races for one command channel), and two deployments for `Close`.
* Event bus: two consumers that both unregister, three calls; three consumers
  where `Unregister` has to shift two of them. Mailboxes of one or two messages
  fill up.
* Core: two goroutines on each side of every race; `MaxStarts`, `MaxStops`,
  `MaxPoolStarts` allow a restart; a clock of four ticks allows two resets of an
  interval of one; two supervised children make the strategies differ, and three
  ends with a window of two ticks and a limit of two reach the limit, exceed it
  and outlive the window.
* Named bounds in guards: `MaxCalls`, `MaxStarts`, `MaxStops`, `MaxPoolStarts`,
  `MaxBatch`, `MaxClock`, `MaxEnds`, `MaxFailures`, `MaxTime`.

### Fairness

Weak fairness of each goroutine's next step, once it has begun a call: the Go
scheduler runs every runnable goroutine. Handlers, hooks and tasks are assumed
to return, since the code imposes no limit on them. Timers that bound a wait
(`startTimeout`, the 5, 30 and 35 second limits of the platform, the 5 seconds of
a verticle's `Stop`) do fire. Nothing obliges anyone to begin a call, to cancel
a context, to call `Close` or to let time pass otherwise. A `select` that can take
its own case forever is not assumed to take another one.

## 4. Proofs

`tlapm M.tla` checks the proofs of a module. All theorems hold for every value of
the constants that satisfies the named assumptions, and none is taken on trust.

* **`EventLoopProofs`** (assumes `Size > 0`, `NoEvent` is no event, modes are
  Drop or Block). The invariant `RingInv` is inductive. `HandledInClaimOrder` and
  `ExclusiveSlots` are not so by themselves: that no slot is shared needs
  `NextInv` (what `Next` loaded is stale only in the safe direction: the consumer
  can only have advanced), `PublishingInv` (a producer between `Next` and
  `Publish` owns an unconsumed, unpublished sequence) and `SlotsInv` (a published
  slot holds the event that claimed it until it is consumed). From it follow
  `ClaimOrder`, `NoOverclaim`, `SlotExclusion`, `StatsAreSane`; `AnswersAreTrue`
  adds `AnswerInv` (only the Block loop can give up with a nil error).
  `LoopIsEventQueue` shows step by step that the loop implements `EventQueue`: the
  compare-and-swap of `Next` is `Accept`, the invocation of the handler is
  `Handle`, everything else stutters.
* **`ExecutorProofs`** (queue size positive, `NoTask` no task). `ExecutorInv`:
  who holds `shutdownMu`, and that a reader past its check of `closed` keeps the
  channel open. `SubmitIsSafe`: no `Submit` or `SubmitWithTimeout` sends on a
  closed channel. `QueueStaysClosed`: an action property, nothing is queued once
  a `Shutdown` waits for the workers.
* **`PlatformProofs`** (the callers are distinct). `PlatformInv`: the place of a
  deployment's goroutine determines its state, its command and the counts of
  `Start`, `Stop` and `onExit`; there is one start command per deployment.
  `ExitOnce`, `StopIsEarned`, and `LifecycleIsValid` (`setState` is never asked for
  a transition at which it would panic).
* **`BaseServerProofs`**. `StartHooksExclude`; `ContextsFollow` and `HaltedStays`
  under the condition, part of the properties, that no `Stop` overlapped a start
  hook: when one does, the code lets a late start overwrite the halted state.
* **`SupervisorProofs`** (children have distinct IDs). `SupervisorInv` says why
  no deployment is lost: a child is deployed once by `Start`, is undeployed
  before it is redeployed, is only redeployed while the supervisor runs
  (`monitoring` implies it), and is among those undeployed at the end.
  `SupervisorLeavesNoOrphans` follows.

## 5. Only model-checked

Liveness under fairness is out of the prover's reach. So is counting over sets
and sequences by induction: the accounting of tasks (`EveryTaskAccounted`,
`PoolTasksAccounted`), the restart window (`RestartIntensity`, which filters a
sequence), the load (`HeldBounded`). `ConsumersExact` and `PublishIsExact` of the
event bus and the properties of `Future` are candidates for the next proofs.

## 6. Where the code and its documentation disagree

Three disagreements have a run that exhibits them (`findings` in
`PROJECT.json`): `SubmitBatch` panics when `Shutdown` closes the channel under
it; `Publish` misses a consumer when another one unregisters; the second of two
waiting `Await`s is not woken. The models contain the others as well. Those that
are stated as a definition are violated by the model they belong to; the
properties of the runs are stated so that they hold up to them.

| Documentation | Code | Definition |
|---|---|---|
| `platform.go:401`, Close: "1. Undeploy all verticles (calls Stop on each)" | `DeployVerticle` does not look at `closed`, so a verticle can be deployed during or after `Close`; and when the parent context is cancelled first, every undeploy is answered with the context's error and no `Stop` is called (`deployment.go:298`) | `CloseUndeploysAll` |
| `platform.go:285`, UndeployVerticle: "Channel might be closed or blocked, continue to cleanup" | a send on the closed `cmdChan` panics: the second of two undeploys, having looked the deployment up before the first removed it | `ClosedChannelIsCleanup` |
| `eventbus.go:128`, Send "sends a point-to-point message to one handler" | nil is returned for a message nobody gets, when the mailbox of the chosen consumer is closed (`eventbus_impl.go:302`) | `SendReachesOne` |
| `mailbox.go:24`, Send "Returns ErrMailboxClosed if mailbox is closed" | `Close` between the check of the flag and the send makes the send panic (`mailbox_impl.go:40`) | `ClosedMailboxIsAnError` |
| `eventbus.go:163`: "After Close, all other methods will fail" | `Publish` to an address without consumers returns nil (`eventbus_impl.go:136`) | `CallsFailAfterClose` |
| `executor.go:10`, QueuedTasks: the number of queued tasks | a worker decrements the counter before the submitter increments it: it can be -1 (`executor_impl.go:171`) | `QueuedTasksIsACount` |
| `executor.go:35`, Shutdown waits for the queued tasks | the context is cancelled first and workers may leave queued tasks behind (`executor_impl.go:235`) | `ShutdownWaitsForQueued` |
| `workerpool.go`: Submit returns an error on a stopped pool | `Stop` between the check of `running` and the send makes it panic; `Start` succeeds on a stopped pool, whose channel is closed, and the next `Stop` panics | `poolPanic` |
| `base_server.go:22`: Halted is terminal | a `Start` whose hook returns after a `Stop` overwrites Halted with Running (`base_server.go:124`) | condition `overlapped` |
| `supervisor.go:30`: a temporary "child is never restarted" | one-for-all and rest-for-one restart it with its siblings | |
| `supervisor.go:28`: a transient child "is restarted only on abnormal termination" | an ordinary undeploy by somebody else counts as a failure (`supervisor.go:357`) | |

## 7. Not modelled, and why

* Wording, logging, metrics, JSON and identifiers: data without control.
* Panics of user functions (handlers, hooks, tasks).
* `Request`, the event-loop route of the bus, its `WithContext` variants: next.
* A cancelled `GoCMD` context under a running supervisor: every deployment is
  then refused and the monitor ends; `Platform` models the cancel itself.
* The verticle's `Stop` that outlives its limits: the platform forgets the
  deployment, as `Platform` models; the supervisor's model takes it for stopped.
* `TryReceive` and the size counters of the mailbox; rejected counters.
* The packages listed as `not_modelled` in `PROJECT.json`, with their reasons.

## 8. Plan

In order: (a) `Request` and the generic server on `EventBus`, with a timeout
that races a late reply; (b) the dispatcher's lock against `Close` and a blocking
`Dispatch`, over `EventQueue` as the specification of a loop; (c) links and
monitors over `Platform`'s exit signals; (d) timers and the compute pool; (e) a
resilience suite in the manner of `MCCore`: circuit breaker, bulkhead, limiter,
hedge, retry, timeout; (f) a runtime suite: drain, state manager, hooks, quota,
registry, signals; (g) the append log and the scheduler. Proofs: `Future`
(`FirstOutcomeWins`), `EventBus` (`ConsumersExact`), then the circuit breaker and
drain. Runs of small components are to be shared as in `MCCore`, and the safety
and liveness runs of a module joined where TLC's time allows.
