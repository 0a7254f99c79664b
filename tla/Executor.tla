------------------------------ MODULE Executor ------------------------------
(***************************************************************************)
(* The task executor of pkg/core/concurrency/executor_impl.go: a bounded   *)
(* channel of tasks, worker goroutines that receive from it, callers of    *)
(* Submit, SubmitWithTimeout and SubmitBatch, and callers of Shutdown.     *)
(* An action is one synchronisation operation of one goroutine.            *)
(***************************************************************************)
EXTENDS Integers, Sequences, FiniteSets

CONSTANTS
  Tasks,      \* the tasks, each submitted at most once
  NoTask,     \* what a worker that has received none holds
  Submitters, \* goroutines that submit
  Workers,    \* the worker goroutines
  Closers,    \* goroutines that call Shutdown
  Calls,      \* the operations submitters use, among AllCalls
  QueueSize   \* config.QueueSize, the capacity of taskChan

AllCalls == {"Submit", "SubmitWithTimeout", "SubmitBatch"}

ASSUME NoTaskAssumption == NoTask \notin Tasks
ASSUME CallsAssumption == Calls \subseteq AllCalls
ASSUME QueueSizeAssumption == QueueSize \in Nat \ {0}
ASSUME FiniteAssumption == IsFiniteSet(Submitters) /\ IsFiniteSet(Workers)

VARIABLES
  taskChan,    \* the tasks buffered in the channel
  chanClosed,  \* close(e.taskChan) has happened
  closed,      \* e.closed
  ctxDone,     \* e.ctx is cancelled, by Shutdown or by its parent
  readers,     \* the submitters that hold shutdownMu for reading
  writer,      \* the writer's side of shutdownMu
  pc,          \* where each submitter is
  call,        \* the operation it is in
  todo,        \* the tasks it has still to send
  outcome,     \* what each task's submitter was told
  workerPC,    \* where each worker is
  holding,     \* the task each worker has received
  executed,    \* history: tasks in the order their execution ended
  closerPC,    \* where each Shutdown is
  queuedTasks, \* the counters of Stats
  rejectedTasks,
  panicked     \* the operation whose send met a closed channel, "none" before that

chanVars == <<taskChan, chanClosed>>
lockVars == <<readers, writer>>
submitVars == <<pc, call, todo, outcome>>
workVars == <<workerPC, holding, executed>>
vars == <<chanVars, closed, ctxDone, lockVars, submitVars, workVars, closerPC,
          queuedTasks, rejectedTasks, panicked>>

Errors == {"closed", "full", "timeout", "ctxErr"}

NewExecutor ==
  /\ taskChan = <<>>
  /\ chanClosed = FALSE
  /\ closed = FALSE
  /\ ctxDone = FALSE
  /\ readers = {}
  /\ writer = "none"
  /\ pc = [s \in Submitters |-> "idle"]
  /\ call = [s \in Submitters |-> "none"]
  /\ todo = [s \in Submitters |-> <<>>]
  /\ outcome = [t \in Tasks |-> "none"]
  /\ workerPC = [w \in Workers |-> "select"]
  /\ holding = [w \in Workers |-> NoTask]
  /\ executed = <<>>
  /\ closerPC = [c \in Closers |-> "idle"]
  /\ queuedTasks = 0
  /\ rejectedTasks = 0
  /\ panicked = "none"

-----------------------------------------------------------------------------
(* The three ways to submit.                                               *)

Goto(s, label) == pc' = [pc EXCEPT ![s] = label]

InSeq(t, q) == \E i \in DOMAIN q : q[i] = t

(* Every task left in todo gets the result, and a deferred RUnlock runs. *)
Return(s, result) ==
  /\ Goto(s, "idle")
  /\ outcome' = [t \in Tasks |-> IF InSeq(t, todo[s]) THEN result ELSE outcome[t]]
  /\ todo' = [todo EXCEPT ![s] = <<>>]
  /\ readers' = readers \ {s}
  /\ UNCHANGED <<call, writer>>

(* Mutant: Submit relies on the atomic flag alone, like SubmitBatch. *)
BeginUnlocked(s, op, tasks) ==
  /\ pc[s] = "idle"
  /\ \A i \in DOMAIN tasks : outcome[tasks[i]] = "none"
  /\ call' = [call EXCEPT ![s] = op]
  /\ todo' = [todo EXCEPT ![s] = tasks]
  /\ outcome' = [t \in Tasks |-> IF InSeq(t, tasks) THEN "running" ELSE outcome[t]]
  /\ Goto(s, "check")
  /\ UNCHANGED <<chanVars, closed, ctxDone, lockVars, workVars, closerPC,
                 queuedTasks, rejectedTasks, panicked>>

(* The call, up to its first synchronisation: SubmitBatch takes no lock. *)
Begin(s, op, tasks) ==
  /\ pc[s] = "idle"
  /\ \A i \in DOMAIN tasks : outcome[tasks[i]] = "none"
  /\ call' = [call EXCEPT ![s] = op]
  /\ todo' = [todo EXCEPT ![s] = tasks]
  /\ outcome' = [t \in Tasks |-> IF InSeq(t, tasks) THEN "running" ELSE outcome[t]]
  /\ Goto(s, IF op = "SubmitBatch" THEN "check" ELSE "rlock")
  /\ UNCHANGED <<chanVars, closed, ctxDone, lockVars, workVars, closerPC,
                 queuedTasks, rejectedTasks, panicked>>

(* shutdownMu.RLock: a writer that waits already keeps new readers out. *)
RLock(s) ==
  /\ pc[s] = "rlock"
  /\ writer = "none"
  /\ readers' = readers \cup {s}
  /\ Goto(s, "check")
  /\ UNCHANGED <<chanVars, closed, ctxDone, writer, call, todo, outcome, workVars,
                 closerPC, queuedTasks, rejectedTasks, panicked>>

(* The load of e.closed. *)
CheckClosed(s) ==
  /\ pc[s] = "check"
  /\ IF closed
       THEN Return(s, "closed")
       ELSE Goto(s, "select") /\ UNCHANGED <<call, todo, outcome, lockVars>>
  /\ UNCHANGED <<chanVars, closed, ctxDone, workVars, closerPC, queuedTasks,
                 rejectedTasks, panicked>>

CanSend == chanClosed \/ Len(taskChan) < QueueSize

(* case e.taskChan <- task: a send to a closed channel panics. *)
SelectSend(s) ==
  /\ pc[s] = "select"
  /\ CanSend
  /\ IF chanClosed
       THEN panicked' = call[s] /\ UNCHANGED <<pc, taskChan>>
       ELSE /\ taskChan' = Append(taskChan, Head(todo[s]))
            /\ Goto(s, "count")
            /\ UNCHANGED panicked
  /\ UNCHANGED <<chanClosed, closed, ctxDone, lockVars, call, todo, outcome, workVars,
                 closerPC, queuedTasks, rejectedTasks>>

(* case <-e.ctx.Done() *)
SelectDone(s) ==
  /\ pc[s] = "select"
  /\ ctxDone
  /\ Return(s, "ctxErr")
  /\ rejectedTasks' = rejectedTasks + (IF call[s] = "SubmitBatch" THEN Len(todo[s]) ELSE 0)
  /\ UNCHANGED <<chanVars, closed, ctxDone, workVars, closerPC, queuedTasks, panicked>>

(* default: nothing else is ready, the queue is full. *)
SelectDefault(s) ==
  /\ pc[s] = "select"
  /\ call[s] # "SubmitWithTimeout"
  /\ ~CanSend /\ ~ctxDone
  /\ Return(s, "full")
  /\ rejectedTasks' = rejectedTasks + Len(todo[s])
  /\ UNCHANGED <<chanVars, closed, ctxDone, workVars, closerPC, queuedTasks, panicked>>

(* case <-time.After(timeout) *)
SelectTimeout(s) ==
  /\ pc[s] = "select"
  /\ call[s] = "SubmitWithTimeout"
  /\ Return(s, "timeout")
  /\ rejectedTasks' = rejectedTasks + 1
  /\ UNCHANGED <<chanVars, closed, ctxDone, workVars, closerPC, queuedTasks, panicked>>

(* Mutant: the read lock is not released after a successful send. *)
CountQueuedKeepsLock(s) ==
  /\ pc[s] = "count"
  /\ queuedTasks' = queuedTasks + 1
  /\ outcome' = [outcome EXCEPT ![Head(todo[s])] = "nil"]
  /\ todo' = [todo EXCEPT ![s] = Tail(@)]
  /\ Goto(s, IF Len(todo[s]) > 1 THEN "select" ELSE "idle")
  /\ UNCHANGED <<chanVars, closed, ctxDone, lockVars, call, workVars, closerPC,
                 rejectedTasks, panicked>>

(* The counter is incremented after the send; a batch goes on to its next task. *)
CountQueued(s) ==
  /\ pc[s] = "count"
  /\ queuedTasks' = queuedTasks + 1
  /\ outcome' = [outcome EXCEPT ![Head(todo[s])] = "nil"]
  /\ todo' = [todo EXCEPT ![s] = Tail(@)]
  /\ IF Len(todo[s]) > 1
       THEN Goto(s, "select") /\ UNCHANGED readers
       ELSE Goto(s, "idle") /\ readers' = readers \ {s}
  /\ UNCHANGED <<chanVars, closed, ctxDone, writer, call, workVars, closerPC,
                 rejectedTasks, panicked>>

-----------------------------------------------------------------------------
(* worker: select between a task and the end of the context, at random when *)
(* both are ready.                                                          *)

Receive(w) ==
  /\ workerPC[w] = "select"
  /\ taskChan # <<>>
  /\ holding' = [holding EXCEPT ![w] = Head(taskChan)]
  /\ taskChan' = Tail(taskChan)
  /\ workerPC' = [workerPC EXCEPT ![w] = "received"]
  /\ UNCHANGED <<chanClosed, closed, ctxDone, lockVars, submitVars, executed, closerPC,
                 queuedTasks, rejectedTasks, panicked>>

(* Mutant: the receive does not block and the worker leaves an empty queue. *)
WorkerExitWhenIdle(w) ==
  /\ workerPC[w] = "select"
  /\ taskChan = <<>>
  /\ workerPC' = [workerPC EXCEPT ![w] = "exited"]
  /\ UNCHANGED <<chanVars, closed, ctxDone, lockVars, submitVars, holding, executed,
                 closerPC, queuedTasks, rejectedTasks, panicked>>

(* The channel is closed and drained, or the context is cancelled. *)
WorkerExit(w) ==
  /\ workerPC[w] = "select"
  /\ ctxDone \/ (chanClosed /\ taskChan = <<>>)
  /\ workerPC' = [workerPC EXCEPT ![w] = "exited"]
  /\ UNCHANGED <<chanVars, closed, ctxDone, lockVars, submitVars, holding, executed,
                 closerPC, queuedTasks, rejectedTasks, panicked>>

(* Mutant: the context is looked at once more and the received task dropped. *)
CountReceivedDropsOnCancel(w) ==
  /\ workerPC[w] = "received"
  /\ queuedTasks' = queuedTasks - 1
  /\ workerPC' = [workerPC EXCEPT ![w] = IF ctxDone THEN "exited" ELSE "execute"]
  /\ holding' = [holding EXCEPT ![w] = IF ctxDone THEN NoTask ELSE @]
  /\ UNCHANGED <<chanVars, closed, ctxDone, lockVars, submitVars, executed,
                 closerPC, rejectedTasks, panicked>>

CountReceived(w) ==
  /\ workerPC[w] = "received"
  /\ queuedTasks' = queuedTasks - 1
  /\ workerPC' = [workerPC EXCEPT ![w] = "execute"]
  /\ UNCHANGED <<chanVars, closed, ctxDone, lockVars, submitVars, holding, executed,
                 closerPC, rejectedTasks, panicked>>

(* task.Execute returns and completedTasks is incremented. *)
Execute(w) ==
  /\ workerPC[w] = "execute"
  /\ executed' = Append(executed, holding[w])
  /\ holding' = [holding EXCEPT ![w] = NoTask]
  /\ workerPC' = [workerPC EXCEPT ![w] = "select"]
  /\ UNCHANGED <<chanVars, closed, ctxDone, lockVars, submitVars, closerPC, queuedTasks,
                 rejectedTasks, panicked>>

-----------------------------------------------------------------------------
(* Shutdown.                                                               *)

CloserGoto(c, label) == closerPC' = [closerPC EXCEPT ![c] = label]

(* CompareAndSwap(&e.closed, 0, 1): only the first Shutdown goes on. *)
Shutdown(c) ==
  /\ closerPC[c] = "idle"
  /\ closed' = TRUE
  /\ CloserGoto(c, IF closed THEN "alreadyClosed" ELSE "lock")
  /\ UNCHANGED <<chanVars, ctxDone, lockVars, submitVars, workVars, queuedTasks,
                 rejectedTasks, panicked>>

(* shutdownMu.Lock is called and keeps new readers out ... *)
LockRequest(c) ==
  /\ closerPC[c] = "lock"
  /\ writer' = "pending"
  /\ CloserGoto(c, "pending")
  /\ UNCHANGED <<chanVars, closed, ctxDone, readers, submitVars, workVars, queuedTasks,
                 rejectedTasks, panicked>>

(* ... and returns when the readers inside are gone; then the context is    *)
(* cancelled.                                                               *)
LockAndCancel(c) ==
  /\ closerPC[c] = "pending"
  /\ readers = {}
  /\ writer' = "held"
  /\ ctxDone' = TRUE
  /\ CloserGoto(c, "closeChan")
  /\ UNCHANGED <<chanVars, closed, readers, submitVars, workVars, queuedTasks,
                 rejectedTasks, panicked>>

(* Mutant: Shutdown relies on the context and leaves the channel open. *)
CloseChanForgotten(c) ==
  /\ closerPC[c] = "closeChan"
  /\ writer' = "none"
  /\ CloserGoto(c, "wait")
  /\ UNCHANGED <<chanVars, closed, ctxDone, readers, submitVars, workVars, queuedTasks,
                 rejectedTasks, panicked>>

(* close(e.taskChan) and shutdownMu.Unlock *)
CloseChan(c) ==
  /\ closerPC[c] = "closeChan"
  /\ chanClosed' = TRUE
  /\ writer' = "none"
  /\ CloserGoto(c, "wait")
  /\ UNCHANGED <<taskChan, closed, ctxDone, readers, submitVars, workVars, queuedTasks,
                 rejectedTasks, panicked>>

(* case <-done: wg.Wait() has returned. *)
WorkersDone(c) ==
  /\ closerPC[c] = "wait"
  /\ \A w \in Workers : workerPC[w] = "exited"
  /\ CloserGoto(c, "stopped")
  /\ UNCHANGED <<chanVars, closed, ctxDone, lockVars, submitVars, workVars, queuedTasks,
                 rejectedTasks, panicked>>

(* case <-ctx.Done() of Shutdown's own context *)
ShutdownTimeout(c) ==
  /\ closerPC[c] = "wait"
  /\ CloserGoto(c, "timeout")
  /\ UNCHANGED <<chanVars, closed, ctxDone, lockVars, submitVars, workVars, queuedTasks,
                 rejectedTasks, panicked>>

(* The context given to NewExecutor is cancelled, without any Shutdown. *)
ParentCancel ==
  /\ ~ctxDone
  /\ ctxDone' = TRUE
  /\ UNCHANGED <<chanVars, closed, lockVars, submitVars, workVars, closerPC, queuedTasks,
                 rejectedTasks, panicked>>

-----------------------------------------------------------------------------
(* The argument of a call: one task, or a batch of two. *)
Arguments(op) ==
  IF op = "SubmitBatch" THEN {<<t, u>> : t, u \in Tasks} \ {<<t, t>> : t \in Tasks}
                        ELSE {<<t>> : t \in Tasks}

SubmitStep(s) ==
  \/ RLock(s) \/ CheckClosed(s)
  \/ SelectSend(s) \/ SelectDone(s) \/ SelectDefault(s) \/ SelectTimeout(s)
  \/ CountQueued(s)

WorkerStep(w) == Receive(w) \/ WorkerExit(w) \/ CountReceived(w) \/ Execute(w)

ShutdownStep(c) ==
  \/ LockRequest(c) \/ LockAndCancel(c) \/ CloseChan(c)
  \/ WorkersDone(c) \/ ShutdownTimeout(c)

(* A panic ends the process. *)
Next ==
  /\ panicked = "none"
  /\ \/ \E s \in Submitters :
          \/ \E op \in Calls : \E tasks \in Arguments(op) : Begin(s, op, tasks)
          \/ SubmitStep(s)
     \/ \E w \in Workers : WorkerStep(w)
     \/ \E c \in Closers : Shutdown(c) \/ ShutdownStep(c)
     \/ ParentCancel

Spec == NewExecutor /\ [][Next]_vars

(* Runnable goroutines run, timers fire and tasks come to an end. *)
Fairness ==
  /\ \A s \in Submitters : WF_vars(panicked = "none" /\ SubmitStep(s))
  /\ \A w \in Workers : WF_vars(panicked = "none" /\ WorkerStep(w))
  /\ \A c \in Closers : WF_vars(panicked = "none" /\ ShutdownStep(c))

FairSpec == Spec /\ Fairness
-----------------------------------------------------------------------------
(* Properties.                                                             *)

TypeOK ==
  /\ taskChan \in Seq(Tasks) /\ Len(taskChan) <= QueueSize
  /\ chanClosed \in BOOLEAN
  /\ closed \in BOOLEAN
  /\ ctxDone \in BOOLEAN
  /\ readers \subseteq Submitters
  /\ writer \in {"none", "pending", "held"}
  /\ pc \in [Submitters -> {"idle", "rlock", "check", "select", "count"}]
  /\ call \in [Submitters -> Calls \cup {"none"}]
  /\ todo \in [Submitters -> Seq(Tasks)]
  /\ outcome \in [Tasks -> Errors \cup {"none", "running", "nil"}]
  /\ workerPC \in [Workers -> {"select", "received", "execute", "exited"}]
  /\ holding \in [Workers -> Tasks \cup {NoTask}]
  /\ executed \in Seq(Tasks)
  /\ closerPC \in [Closers -> {"idle", "alreadyClosed", "lock", "pending", "closeChan",
                               "wait", "stopped", "timeout"}]
  /\ queuedTasks \in Int
  /\ rejectedTasks \in Nat
  /\ panicked \in Calls \cup {"none"}

(* Shutdown never closes the channel under a Submit or a SubmitWithTimeout  *)
(* that has passed its check of e.closed: shutdownMu keeps them apart.      *)
LockedSendIsSafe == panicked \notin {"Submit", "SubmitWithTimeout"}

(* No submission at all meets a closed channel. *)
NoSendOnClosedChannel == panicked = "none"

(* A task told nil is in exactly one place: the channel, a worker's hands,  *)
(* or done once.  A task told an error is nowhere and never will be.  And   *)
(* the counter behind Stats is the length of the queue, up to the           *)
(* submitters and workers that are between their channel operation and      *)
(* their atomic add.                                                        *)
EveryTaskAccounted ==
  /\ queuedTasks = Len(taskChan) - Cardinality({s \in Submitters : pc[s] = "count"})
                                 + Cardinality({w \in Workers : workerPC[w] = "received"})
  /\ \A t \in Tasks :
    LET queued == {i \in DOMAIN taskChan : taskChan[i] = t}
        held == {w \in Workers : holding[w] = t}
        ended == {i \in DOMAIN executed : executed[i] = t}
        places == Cardinality(queued) + Cardinality(held) + Cardinality(ended)
    IN  /\ outcome[t] = "nil" => places = 1
        /\ outcome[t] \in Errors \cup {"none"} => places = 0

(* What Stats reports as the current number of queued tasks is a number of  *)
(* tasks.                                                                   *)
QueuedTasksIsACount == queuedTasks >= 0

(* Once Shutdown waits for the workers, nothing more enters the queue. *)
NothingQueuedAfterClose ==
  [][(\E c \in Closers : closerPC[c] \in {"wait", "stopped", "timeout"})
       => Len(taskChan') <= Len(taskChan)]_vars

(* A Submit never meets the channel Shutdown closes, nor fills it again. *)
QueueIsSafe == []LockedSendIsSafe /\ NothingQueuedAfterClose

(* A Shutdown that did not time out waited for the queued tasks. *)
ShutdownWaitsForQueued ==
  (\E c \in Closers : closerPC[c] = "stopped") =>
    \A t \in Tasks : outcome[t] = "nil" => InSeq(t, executed)

(* An accepted task is executed unless the executor's context ends first. *)
AcceptedIsExecuted ==
  \A t \in Tasks : []<>(outcome[t] = "nil" => InSeq(t, executed) \/ ctxDone \/ panicked = "SubmitBatch")

(* No submission waits for ever, not even behind a Shutdown that waits for  *)
(* the submissions that hold the lock (unless a batch's send panics).       *)
SubmitReturns ==
  \A s \in Submitters : []<>(pc[s] = "idle" \/ panicked = "SubmitBatch")

(* Shutdown gets the lock, although SubmitWithTimeout holds it while it     *)
(* waits for room, and comes to an end.                                     *)
ShutdownReturns ==
  \A c \in Closers :
    []<>(closerPC[c] \in {"idle", "alreadyClosed", "stopped", "timeout"} \/ panicked = "SubmitBatch")

(* Submissions and Shutdown wait for each other's lock, and both return.     *)
ExecutorCallsReturn == SubmitReturns /\ ShutdownReturns

(* Accepted tasks, submissions and Shutdown all come to an end. *)
ExecutorProgress == AcceptedIsExecuted /\ ExecutorCallsReturn
-----------------------------------------------------------------------------
(* The inductive invariant behind LockedSendIsSafe. *)

InCall(s) == pc[s] \in {"rlock", "check", "select", "count"}

(* A submitter in a call has tasks left, a worker past its receive has one. *)
HandsInv ==
  /\ \A s \in Submitters : InCall(s) => call[s] \in Calls /\ todo[s] # <<>>
  /\ \A w \in Workers : workerPC[w] \in {"received", "execute"} => holding[w] \in Tasks

(* Who holds shutdownMu for reading. *)
ReadersInv ==
  \A s \in Submitters :
    pc[s] \in {"check", "select", "count"} /\ call[s] # "SubmitBatch" => s \in readers

(* The Shutdown that won the compare-and-swap is the only writer. *)
Active(c) == closerPC[c] \in {"lock", "pending", "closeChan", "wait", "stopped", "timeout"}

WriterInv ==
  /\ \A c, d \in Closers : Active(c) /\ Active(d) => c = d
  /\ \A c \in Closers : Active(c) => closed
  /\ \A c \in Closers : closerPC[c] = "closeChan" => writer = "held"
  /\ writer = "held" => closed /\ readers = {}
  /\ chanClosed => closed
  /\ \A c \in Closers : closerPC[c] \in {"wait", "stopped", "timeout"} => chanClosed

(* A reader past its check of e.closed keeps the channel open. *)
GuardInv ==
  \A s \in readers : pc[s] \in {"select", "count"} => ~chanClosed

ExecutorInv ==
  /\ TypeOK
  /\ HandsInv
  /\ ReadersInv
  /\ WriterInv
  /\ GuardInv
  /\ LockedSendIsSafe
-----------------------------------------------------------------------------
(* The inductive invariant behind EveryTaskAccounted. *)

NoDup(q) == \A i, j \in DOMAIN q : q[i] = q[j] => i = j

(* A task whose submission runs is in one submitter's hands. *)
TodoInv ==
  /\ \A s \in Submitters : NoDup(todo[s]) /\ (pc[s] = "idle" => todo[s] = <<>>)
  /\ \A s, r \in Submitters : s # r => \A t \in Tasks : ~(InSeq(t, todo[s]) /\ InSeq(t, todo[r]))
  /\ \A t \in Tasks : outcome[t] = "running" <=> \E s \in Submitters : InSeq(t, todo[s])

Held(t) == \E w \in Workers : holding[w] = t

(* The send of t is done, its submitter not yet told. *)
Sent(t) == \E s \in Submitters : pc[s] = "count" /\ Head(todo[s]) = t

(* No task is in two places, and in one exactly when it was sent. *)
PlaceInv ==
  /\ NoDup(taskChan) /\ NoDup(executed)
  /\ \A w \in Workers : workerPC[w] \in {"select", "exited"} => holding[w] = NoTask
  /\ \A v, w \in Workers : holding[v] = holding[w] /\ holding[v] # NoTask => v = w
  /\ \A t \in Tasks :
       /\ ~(InSeq(t, taskChan) /\ Held(t))
       /\ ~(InSeq(t, taskChan) /\ InSeq(t, executed))
       /\ ~(Held(t) /\ InSeq(t, executed))
       /\ InSeq(t, taskChan) \/ Held(t) \/ InSeq(t, executed) <=> outcome[t] = "nil" \/ Sent(t)

(* The counter trails the channel operations. *)
CounterInv ==
  queuedTasks = Len(taskChan) - Cardinality({s \in Submitters : pc[s] = "count"})
                              + Cardinality({w \in Workers : workerPC[w] = "received"})

AccountInv == TodoInv /\ PlaceInv /\ CounterInv
=============================================================================
