----------------------------- MODULE WorkerPool -----------------------------
(***************************************************************************)
(* The worker pool for blocking work, workerpool_impl.go of                *)
(* pkg/core/concurrency.  A send on the closed task channel panics; a      *)
(* panic ends the program (poolPanic).                                     *)
(***************************************************************************)
EXTENDS Integers, Sequences, FiniteSets

CONSTANTS
  PoolTasks,
  PoolWorkers,
  PoolSubmitters,
  PoolQueueSize,
  MaxPoolStarts,    \* bound: calls of Start that start workers
  MaxBatch,         \* bound: the length of a SubmitBatch
  NilTask

ASSUME PoolAssumption ==
  NilTask \notin PoolTasks /\ IsFiniteSet(PoolWorkers) /\ IsFiniteSet(PoolSubmitters)

VARIABLES
  running,        \* wp.running
  poolDone,       \* wp.ctx is cancelled
  taskChan,       \* wp.taskChan
  chanClosed,     \* ... is closed
  workerPC,       \* each worker: <<"off">>, <<"select">>, <<"received", task>>, <<"run", task>>
  submitPC,       \* each submitter: [pc, op, todo, len, submitted]
  poolStop,       \* Stop: "idle", "cancel", "close", "wait"
  poolStarts,     \* how often Start has started workers
  timedOut,       \* history: some Stop returned "stop timeout"
  queuedTasks, rejectedTasks,
  accepted,       \* history: tasks whose send succeeded
  refused,        \* history: tasks answered with an error
  ran,            \* history: how often each task was executed
  poolPanic       \* "none", or the call that panicked

poolVars == <<running, poolDone, taskChan, chanClosed, workerPC, submitPC, poolStop, poolStarts,
              timedOut, queuedTasks, rejectedTasks, accepted, refused, ran, poolPanic>>

NoSubmit == [pc |-> "idle", op |-> "Submit", todo |-> <<>>, len |-> 0, submitted |-> 0]

NewWorkerPool ==
  /\ running = FALSE /\ poolDone = FALSE
  /\ taskChan = <<>> /\ chanClosed = FALSE
  /\ workerPC = [w \in PoolWorkers |-> <<"off">>]
  /\ submitPC = [s \in PoolSubmitters |-> NoSubmit]
  /\ poolStop = "idle" /\ poolStarts = 0 /\ timedOut = FALSE
  /\ queuedTasks = 0 /\ rejectedTasks = 0
  /\ accepted = {} /\ refused = {}
  /\ ran = [t \in PoolTasks |-> 0]
  /\ poolPanic = "none"

WorkersOff == \A w \in PoolWorkers : workerPC[w] = <<"off">>

(* A second Start is modelled once the first one's workers are gone. *)
PoolStart ==
  /\ poolPanic = "none"
  /\ ~running /\ poolStarts < MaxPoolStarts /\ WorkersOff
  /\ running' = TRUE
  /\ poolStarts' = poolStarts + 1
  /\ workerPC' = [w \in PoolWorkers |-> <<"select">>]
  /\ UNCHANGED <<poolDone, taskChan, chanClosed, submitPC, poolStop, timedOut, queuedTasks,
                 rejectedTasks, accepted, refused, ran, poolPanic>>

-----------------------------------------------------------------------------
(* Submit and SubmitBatch.                                                 *)

RealTasks(ts) == {ts[i] : i \in DOMAIN ts} \ {NilTask}

Fresh(ts) ==
  /\ RealTasks(ts) \cap (accepted \cup refused) = {}
  /\ \A s \in PoolSubmitters : RealTasks(submitPC[s].todo) \cap RealTasks(ts) = {}

(* The check of wp.running; what it saw may be stale at the send. *)
BeginSubmit(s, op, ts) ==
  /\ poolPanic = "none"
  /\ submitPC[s].pc = "idle" /\ Fresh(ts)
  /\ IF running
       THEN /\ submitPC' = [submitPC EXCEPT ![s] = [pc |-> "select", op |-> op, todo |-> ts,
                                                    len |-> Len(ts), submitted |-> 0]]
            /\ UNCHANGED refused
       ELSE refused' = refused \cup RealTasks(ts) /\ UNCHANGED submitPC
  /\ UNCHANGED <<running, poolDone, taskChan, chanClosed, workerPC, poolStop, poolStarts, timedOut,
                 queuedTasks, rejectedTasks, accepted, ran, poolPanic>>

Submit(s, t) == BeginSubmit(s, "Submit", <<t>>)

(* A batch is a slice of distinct tasks; nil tasks are skipped. *)
Batches ==
  {ts \in UNION {[1 .. n -> PoolTasks \cup {NilTask}] : n \in 2 .. MaxBatch} :
     \A i, j \in DOMAIN ts : i # j /\ ts[i] = ts[j] => ts[i] = NilTask}

SubmitBatch(s, ts) == BeginSubmit(s, "SubmitBatch", ts)

Sending(s) == poolPanic = "none" /\ submitPC[s].pc = "select" /\ submitPC[s].todo # <<>>

(* The batch is exhausted, or its next task is nil. *)
SubmitSkip(s) ==
  /\ poolPanic = "none" /\ submitPC[s].pc = "select"
  /\ \/ submitPC[s].todo = <<>> /\ submitPC' = [submitPC EXCEPT ![s] = NoSubmit]
     \/ Sending(s) /\ Head(submitPC[s].todo) = NilTask
        /\ submitPC' = [submitPC EXCEPT ![s].todo = Tail(@)]
  /\ UNCHANGED <<running, poolDone, taskChan, chanClosed, workerPC, poolStop, poolStarts, timedOut,
                 queuedTasks, rejectedTasks, accepted, refused, ran, poolPanic>>

HasRoom == Len(taskChan) < PoolQueueSize

(* case taskChan <- task *)
SubmitSend(s) ==
  /\ Sending(s) /\ Head(submitPC[s].todo) # NilTask
  /\ IF chanClosed
       THEN /\ poolPanic' = submitPC[s].op
            /\ UNCHANGED <<taskChan, accepted, submitPC>>
       ELSE /\ HasRoom
            /\ taskChan' = Append(taskChan, Head(submitPC[s].todo))
            /\ accepted' = accepted \cup {Head(submitPC[s].todo)}
            /\ submitPC' = [submitPC EXCEPT ![s].pc = "count", ![s].todo = Tail(@)]
            /\ UNCHANGED poolPanic
  /\ UNCHANGED <<running, poolDone, chanClosed, workerPC, poolStop, poolStarts, timedOut, queuedTasks,
                 rejectedTasks, refused, ran>>

SubmitCount(s) ==
  /\ poolPanic = "none" /\ submitPC[s].pc = "count"
  /\ queuedTasks' = queuedTasks + 1
  /\ submitPC' = [submitPC EXCEPT ![s].pc = "select", ![s].submitted = @ + 1]
  /\ UNCHANGED <<running, poolDone, taskChan, chanClosed, workerPC, poolStop, poolStarts, timedOut,
                 rejectedTasks, accepted, refused, ran, poolPanic>>

(* What a refusal adds to rejectedTasks: Submit counts only a full queue, a *)
(* batch counts its tasks not sent, nil ones included, on either refusal.    *)
Rejected(s) ==
  IF submitPC[s].op = "SubmitBatch" THEN submitPC[s].len - submitPC[s].submitted
  ELSE IF poolDone THEN 0 ELSE 1

(* case <-ctx.Done(), and default. *)
Refuses == poolDone \/ (~chanClosed /\ ~HasRoom)

SubmitRefuse(s) ==
  /\ Sending(s) /\ Head(submitPC[s].todo) # NilTask
  /\ Refuses
  /\ rejectedTasks' = rejectedTasks + Rejected(s)
  /\ refused' = refused \cup RealTasks(submitPC[s].todo)
  /\ submitPC' = [submitPC EXCEPT ![s] = NoSubmit]
  /\ UNCHANGED <<running, poolDone, taskChan, chanClosed, workerPC, poolStop, poolStarts, timedOut,
                 queuedTasks, accepted, ran, poolPanic>>

-----------------------------------------------------------------------------
(* A worker.                                                               *)

WorkerReceive(w) ==
  /\ poolPanic = "none" /\ workerPC[w] = <<"select">>
  /\ taskChan # <<>>
  /\ workerPC' = [workerPC EXCEPT ![w] = <<"received", Head(taskChan)>>]
  /\ taskChan' = Tail(taskChan)
  /\ UNCHANGED <<running, poolDone, chanClosed, submitPC, poolStop, poolStarts, timedOut, queuedTasks,
                 rejectedTasks, accepted, refused, ran, poolPanic>>

WorkerCount(w) ==
  /\ poolPanic = "none" /\ workerPC[w][1] = "received"
  /\ queuedTasks' = queuedTasks - 1
  /\ workerPC' = [workerPC EXCEPT ![w] = <<"run", workerPC[w][2]>>]
  /\ UNCHANGED <<running, poolDone, taskChan, chanClosed, submitPC, poolStop, poolStarts, timedOut,
                 rejectedTasks, accepted, refused, ran, poolPanic>>

(* task.Execute has returned. *)
WorkerRan(w) ==
  /\ poolPanic = "none" /\ workerPC[w][1] = "run"
  /\ ran' = [ran EXCEPT ![workerPC[w][2]] = @ + 1]
  /\ workerPC' = [workerPC EXCEPT ![w] = <<"select">>]
  /\ UNCHANGED <<running, poolDone, taskChan, chanClosed, submitPC, poolStop, poolStarts, timedOut,
                 queuedTasks, rejectedTasks, accepted, refused, poolPanic>>

(* The channel is closed and empty, or the context is cancelled. *)
MayExit == poolDone \/ (chanClosed /\ taskChan = <<>>)

(* Mutant: a worker receives, then looks at the context and returns. *)
WorkerExitDropsTask(w) ==
  /\ poolPanic = "none" /\ workerPC[w] = <<"select">>
  /\ MayExit
  /\ workerPC' = [workerPC EXCEPT ![w] = <<"off">>]
  /\ taskChan' = IF taskChan = <<>> THEN <<>> ELSE Tail(taskChan)
  /\ UNCHANGED <<running, poolDone, chanClosed, submitPC, poolStop, poolStarts, timedOut,
                 queuedTasks, rejectedTasks, accepted, refused, ran, poolPanic>>

WorkerExit(w) ==
  /\ poolPanic = "none" /\ workerPC[w] = <<"select">>
  /\ MayExit
  /\ workerPC' = [workerPC EXCEPT ![w] = <<"off">>]
  /\ UNCHANGED <<running, poolDone, taskChan, chanClosed, submitPC, poolStop, poolStarts, timedOut,
                 queuedTasks, rejectedTasks, accepted, refused, ran, poolPanic>>

-----------------------------------------------------------------------------
(* Stop.                                                                   *)

PoolStop ==
  /\ poolPanic = "none"
  /\ running /\ poolStop = "idle"
  /\ running' = FALSE
  /\ poolStop' = "cancel"
  /\ UNCHANGED <<poolDone, taskChan, chanClosed, workerPC, submitPC, poolStarts, timedOut, queuedTasks,
                 rejectedTasks, accepted, refused, ran, poolPanic>>

PoolStopCancel ==
  /\ poolPanic = "none" /\ poolStop = "cancel"
  /\ poolDone' = TRUE
  /\ poolStop' = "close"
  /\ UNCHANGED <<running, taskChan, chanClosed, workerPC, submitPC, poolStarts, timedOut, queuedTasks,
                 rejectedTasks, accepted, refused, ran, poolPanic>>

(* close(wp.taskChan): after a restart it is closed already, and that panics. *)
PoolStopClose ==
  /\ poolPanic = "none" /\ poolStop = "close"
  /\ IF chanClosed
       THEN poolPanic' = "Stop" /\ UNCHANGED <<chanClosed, poolStop>>
       ELSE chanClosed' = TRUE /\ poolStop' = "wait" /\ UNCHANGED poolPanic
  /\ UNCHANGED <<running, poolDone, taskChan, workerPC, submitPC, poolStarts, timedOut, queuedTasks,
                 rejectedTasks, accepted, refused, ran>>

(* Mutant: Stop does not wait for the workers. *)
PoolStopReturnsAtOnce ==
  /\ poolPanic = "none" /\ poolStop = "wait"
  /\ poolStop' = "idle"
  /\ UNCHANGED <<running, poolDone, taskChan, chanClosed, workerPC, submitPC, poolStarts, timedOut,
                 queuedTasks, rejectedTasks, accepted, refused, ran, poolPanic>>

PoolStopReturns ==
  /\ poolPanic = "none" /\ poolStop = "wait"
  /\ WorkersOff
  /\ poolStop' = "idle"
  /\ UNCHANGED <<running, poolDone, taskChan, chanClosed, workerPC, submitPC, poolStarts, timedOut,
                 queuedTasks, rejectedTasks, accepted, refused, ran, poolPanic>>

PoolStopTimeout ==
  /\ poolPanic = "none" /\ poolStop = "wait"
  /\ poolStop' = "idle"
  /\ timedOut' = TRUE
  /\ UNCHANGED <<running, poolDone, taskChan, chanClosed, workerPC, submitPC, poolStarts, queuedTasks,
                 rejectedTasks, accepted, refused, ran, poolPanic>>

(* The context the pool was created with is cancelled. *)
PoolParentCancel ==
  /\ poolPanic = "none" /\ ~poolDone
  /\ poolDone' = TRUE
  /\ UNCHANGED <<running, taskChan, chanClosed, workerPC, submitPC, poolStop, poolStarts, timedOut,
                 queuedTasks, rejectedTasks, accepted, refused, ran, poolPanic>>

-----------------------------------------------------------------------------
SubmitStep(s) == SubmitSkip(s) \/ SubmitSend(s) \/ SubmitCount(s) \/ SubmitRefuse(s)

WorkerTakes(w) == WorkerReceive(w) \/ WorkerCount(w) \/ WorkerExit(w)

PoolStopStep == PoolStopCancel \/ PoolStopClose \/ PoolStopReturns

PoolNext ==
  \/ PoolStart \/ PoolStop \/ PoolStopStep \/ PoolStopTimeout \/ PoolParentCancel
  \/ \E s \in PoolSubmitters :
       \/ \E t \in PoolTasks : Submit(s, t)
       \/ \E ts \in Batches : SubmitBatch(s, ts)
       \/ SubmitStep(s)
  \/ \E w \in PoolWorkers : WorkerTakes(w) \/ WorkerRan(w)

PoolSpec == NewWorkerPool /\ [][PoolNext]_poolVars

-----------------------------------------------------------------------------
PoolTypeOK ==
  /\ {running, poolDone, chanClosed, timedOut} \subseteq BOOLEAN
  /\ taskChan \in Seq(PoolTasks) /\ Len(taskChan) <= PoolQueueSize
  /\ \A w \in PoolWorkers : workerPC[w][1] \in {"off", "select", "received", "run"}
  /\ \A s \in PoolSubmitters :
       /\ submitPC[s].pc \in {"idle", "select", "count"}
       /\ submitPC[s].submitted + Len(submitPC[s].todo) <= submitPC[s].len
  /\ poolStop \in {"idle", "cancel", "close", "wait"}
  /\ poolStarts \in 0 .. MaxPoolStarts
  /\ queuedTasks \in Int /\ rejectedTasks \in Nat
  /\ poolPanic \in {"none", "Submit", "SubmitBatch", "Stop"}

(* The places of a task, and the goroutines between an operation on the      *)
(* channel and the one on the counter.                                       *)
QueuedAt(t) == {i \in DOMAIN taskChan : taskChan[i] = t}

HeldBy(t) == {w \in PoolWorkers : workerPC[w] \in {<<"received", t>>, <<"run", t>>}}

Copies(t) == Cardinality(QueuedAt(t)) + Cardinality(HeldBy(t)) + ran[t]

SentUncounted == {s \in PoolSubmitters : submitPC[s].pc = "count"}

TakenUncounted == {w \in PoolWorkers : workerPC[w][1] = "received"}

(* Whatever Submit, SubmitBatch, the workers, Stop and a cancelled context   *)
(* do, a task that was sent is in exactly one place (queued, held by one     *)
(* worker, or executed once) and one answered with an error is in none; and  *)
(* queuedTasks is the length of the queue, up to the sends and the receives  *)
(* that are not yet counted.                                                 *)
PoolTasksAccounted ==
  /\ queuedTasks = Len(taskChan) - Cardinality(SentUncounted) + Cardinality(TakenUncounted)
  /\ accepted \cap refused = {}
  /\ \A t \in PoolTasks : Copies(t) = IF t \in accepted THEN 1 ELSE 0

(* When Stop has returned without a timeout no worker is left, whatever was  *)
(* submitted meanwhile.                                                      *)
StoppedIsQuiet ==
  poolStarts > 0 /\ ~running /\ poolStop = "idle" /\ ~timedOut => WorkersOff

(* Every task given to the worker pool is queued, run or refused, once, and  *)
(* a pool that has stopped runs none (workerpool_impl.go).                   *)
PoolExact == PoolTasksAccounted /\ StoppedIsQuiet

-----------------------------------------------------------------------------
(* What makes PoolExact inductive.  The tasks a call has still to send were  *)
(* neither sent nor refused and belong to that call alone; a task is in one  *)
(* place at most, and in one exactly if it was sent.                         *)
WorkerState ==
  {<<"off">>, <<"select">>} \cup {<<"received", t>> : t \in PoolTasks} \cup {<<"run", t>> : t \in PoolTasks}

SubmitState ==
  [pc : {"idle", "select", "count"}, op : {"Submit", "SubmitBatch"},
   todo : Seq(PoolTasks \cup {NilTask}), len : Nat, submitted : Nat]

PoolTypes ==
  /\ taskChan \in Seq(PoolTasks) /\ queuedTasks \in Int
  /\ accepted \subseteq PoolTasks /\ refused \subseteq PoolTasks
  /\ ran \in [PoolTasks -> {0, 1}]
  /\ workerPC \in [PoolWorkers -> WorkerState] /\ submitPC \in [PoolSubmitters -> SubmitState]

RealOnce(ts) == \A i, j \in DOMAIN ts : ts[i] = ts[j] => i = j \/ ts[i] = NilTask

TodoApart ==
  /\ accepted \cap refused = {}
  /\ \A s \in PoolSubmitters : /\ RealOnce(submitPC[s].todo)
                                /\ RealTasks(submitPC[s].todo) \cap (accepted \cup refused) = {}
  /\ \A r, s \in PoolSubmitters :
       r # s => RealTasks(submitPC[r].todo) \cap RealTasks(submitPC[s].todo) = {}

PlacesApart ==
  /\ \A i, j \in DOMAIN taskChan : taskChan[i] = taskChan[j] => i = j
  /\ \A t \in PoolTasks :
       /\ \A v, w \in HeldBy(t) : v = w
       /\ QueuedAt(t) # {} => HeldBy(t) = {} /\ ran[t] = 0
       /\ HeldBy(t) # {} => ran[t] = 0
       /\ t \in accepted <=> QueuedAt(t) # {} \/ HeldBy(t) # {} \/ ran[t] = 1

PoolInv ==
  /\ PoolTypes /\ TodoApart /\ PlacesApart
  /\ queuedTasks = Len(taskChan) - Cardinality(SentUncounted) + Cardinality(TakenUncounted)
  /\ ~running /\ poolStop = "idle" /\ ~timedOut => WorkersOff
=============================================================================
