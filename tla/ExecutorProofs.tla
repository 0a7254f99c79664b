--------------------------- MODULE ExecutorProofs ---------------------------
(***************************************************************************)
(* Proofs about the executor: its type invariant, and that shutdownMu      *)
(* keeps Shutdown's close of the channel away from every send of Submit    *)
(* and SubmitWithTimeout, for any number of goroutines and tasks.          *)
(***************************************************************************)
EXTENDS Executor, SequenceTheorems, FiniteSetTheorems, TLAPS

LEMMA ExecutorInvInit == NewExecutor => ExecutorInv
<1> SUFFICES ASSUME NewExecutor PROVE ExecutorInv
  BY Zenon
<1>1. TypeOK
  <2>1. taskChan \in Seq(Tasks) /\ executed \in Seq(Tasks) /\ Len(taskChan) = 0
    BY Zenon, EmptySeq DEF NewExecutor
  <2>2. todo \in [Submitters -> Seq(Tasks)]
    BY Zenon, EmptySeq DEF NewExecutor
  <2>3. /\ chanClosed \in BOOLEAN /\ closed \in BOOLEAN /\ ctxDone \in BOOLEAN
        /\ readers \subseteq Submitters
    BY Zenon DEF NewExecutor
  <2>4. /\ pc \in [Submitters -> {"idle", "rlock", "check", "select", "count"}]
        /\ call \in [Submitters -> Calls \cup {"none"}]
        /\ outcome \in [Tasks -> Errors \cup {"none", "running", "nil"}]
        /\ workerPC \in [Workers -> {"select", "received", "execute", "exited"}]
        /\ holding \in [Workers -> Tasks \cup {NoTask}]
        /\ closerPC \in [Closers -> {"idle", "alreadyClosed", "lock", "pending", "closeChan",
                                     "wait", "stopped", "timeout"}]
    BY Zenon DEF NewExecutor
  <2>5. /\ writer \in {"none", "pending", "held"} /\ queuedTasks \in Int
        /\ rejectedTasks \in Nat /\ panicked \in Calls \cup {"none"}
    BY DEF NewExecutor
  <2>6. Len(taskChan) <= QueueSize
    BY <2>1, QueueSizeAssumption
  <2> QED BY Zenon, <2>1, <2>2, <2>3, <2>4, <2>5, <2>6 DEF TypeOK
<1>2. HandsInv /\ ReadersInv /\ WriterInv /\ GuardInv /\ LockedSendIsSafe
  BY Zenon DEF NewExecutor, HandsInv, InCall, ReadersInv, WriterInv, Active, GuardInv, LockedSendIsSafe
<1> QED BY Zenon, <1>1, <1>2 DEF ExecutorInv

(* What a submission leaves alone: the writer's side. *)
LEMMA SubmitterFrame ==
  ASSUME ExecutorInv, UNCHANGED <<chanClosed, closed, writer, closerPC>>,
         readers' = {} \/ writer = "none" \/ readers' \subseteq readers
  PROVE  WriterInv'
<1>1. /\ \A c, d \in Closers : Active(c)' /\ Active(d)' => c = d
      /\ \A c \in Closers : Active(c)' => closed'
      /\ \A c \in Closers : closerPC'[c] = "closeChan" => writer' = "held"
      /\ chanClosed' => closed'
      /\ \A c \in Closers : closerPC'[c] \in {"wait", "stopped", "timeout"} => chanClosed'
  BY Zenon DEF ExecutorInv, WriterInv, Active
<1>2. writer' = "held" => closed' /\ readers' = {}
  BY Zenon DEF ExecutorInv, WriterInv
<1> QED BY Zenon, <1>1, <1>2 DEF WriterInv

LEMMA ReturnPreserves ==
  ASSUME ExecutorInv, NEW s \in Submitters, NEW result \in Errors, Return(s, result),
         rejectedTasks' \in Nat,
         UNCHANGED <<chanVars, closed, ctxDone, workVars, closerPC, queuedTasks, panicked>>
  PROVE  ExecutorInv'
<1>1. /\ pc' = [pc EXCEPT ![s] = "idle"] /\ todo' = [todo EXCEPT ![s] = <<>>]
      /\ readers' = readers \ {s} /\ UNCHANGED <<call, writer>>
      /\ outcome' = [t \in Tasks |-> IF InSeq(t, todo[s]) THEN result ELSE outcome[t]]
  BY Zenon DEF Return, Goto
<1>2. TypeOK'
  <2>1. /\ pc' \in [Submitters -> {"idle", "rlock", "check", "select", "count"}]
        /\ outcome' \in [Tasks -> Errors \cup {"none", "running", "nil"}]
        /\ readers' \subseteq Submitters
    BY Zenon, <1>1 DEF ExecutorInv, TypeOK
  <2>2. todo' \in [Submitters -> Seq(Tasks)]
    BY Zenon, <1>1, EmptySeq DEF ExecutorInv, TypeOK
  <2> QED BY Zenon, <1>1, <2>1, <2>2 DEF ExecutorInv, TypeOK, chanVars, workVars
<1>3. HandsInv'
  BY Zenon, <1>1 DEF ExecutorInv, TypeOK, HandsInv, InCall, workVars
<1>4. ReadersInv'
  BY Zenon, <1>1 DEF ExecutorInv, TypeOK, ReadersInv
<1>5. WriterInv'
  BY Zenon, <1>1, SubmitterFrame DEF chanVars
<1>6. GuardInv' /\ LockedSendIsSafe'
  BY Zenon, <1>1 DEF ExecutorInv, TypeOK, GuardInv, LockedSendIsSafe, chanVars
<1> QED BY Zenon, <1>2, <1>3, <1>4, <1>5, <1>6 DEF ExecutorInv

LEMMA BeginPreserves ==
  ASSUME ExecutorInv, NEW s \in Submitters, NEW op \in Calls, NEW tasks \in Arguments(op),
         Begin(s, op, tasks)
  PROVE  ExecutorInv'
<1>0. tasks \in Seq(Tasks) /\ tasks # <<>>
  <2>1. CASE op = "SubmitBatch"
    <3>1. PICK t \in Tasks, u \in Tasks : tasks = <<t, u>>
      BY <2>1 DEF Arguments
    <3> QED BY <3>1
  <2>2. CASE op # "SubmitBatch"
    <3>1. PICK t \in Tasks : tasks = <<t>>
      BY <2>2 DEF Arguments
    <3> QED BY <3>1
  <2> QED BY Zenon, <2>1, <2>2
<1>1. /\ pc[s] = "idle"
      /\ pc' = [pc EXCEPT ![s] = IF op = "SubmitBatch" THEN "check" ELSE "rlock"]
      /\ call' = [call EXCEPT ![s] = op] /\ todo' = [todo EXCEPT ![s] = tasks]
      /\ outcome' = [t \in Tasks |-> IF InSeq(t, tasks) THEN "running" ELSE outcome[t]]
      /\ UNCHANGED <<chanVars, closed, ctxDone, lockVars, workVars, closerPC,
                     queuedTasks, rejectedTasks, panicked>>
  BY Zenon DEF Begin, Goto
<1>2. TypeOK'
  BY Zenon, <1>0, <1>1 DEF ExecutorInv, TypeOK, chanVars, workVars, lockVars
<1>3. HandsInv'
  BY Zenon, <1>0, <1>1 DEF ExecutorInv, TypeOK, HandsInv, InCall, workVars
<1>4. ReadersInv'
  BY Zenon, <1>1 DEF ExecutorInv, TypeOK, ReadersInv, lockVars
<1>5. WriterInv'
  BY Zenon, <1>1, SubmitterFrame DEF chanVars, lockVars
<1>6. GuardInv' /\ LockedSendIsSafe'
  BY Zenon, <1>1 DEF ExecutorInv, TypeOK, GuardInv, LockedSendIsSafe, chanVars, lockVars
<1> QED BY Zenon, <1>2, <1>3, <1>4, <1>5, <1>6 DEF ExecutorInv

LEMMA RLockPreserves ==
  ASSUME ExecutorInv, NEW s \in Submitters, RLock(s)
  PROVE  ExecutorInv'
<1>1. /\ pc[s] = "rlock" /\ writer = "none"
      /\ pc' = [pc EXCEPT ![s] = "check"] /\ readers' = readers \cup {s}
      /\ UNCHANGED <<chanVars, closed, ctxDone, writer, call, todo, outcome, workVars,
                     closerPC, queuedTasks, rejectedTasks, panicked>>
  BY Zenon DEF RLock, Goto
<1>2. TypeOK'
  BY Zenon, <1>1 DEF ExecutorInv, TypeOK, chanVars, workVars
<1>3. HandsInv'
  BY Zenon, <1>1 DEF ExecutorInv, TypeOK, HandsInv, InCall, workVars
<1>4. ReadersInv'
  BY Zenon, <1>1 DEF ExecutorInv, TypeOK, ReadersInv
<1>5. WriterInv'
  BY Zenon, <1>1, SubmitterFrame DEF chanVars
<1>6. GuardInv' /\ LockedSendIsSafe'
  BY Zenon, <1>1 DEF ExecutorInv, TypeOK, GuardInv, LockedSendIsSafe, chanVars
<1> QED BY Zenon, <1>2, <1>3, <1>4, <1>5, <1>6 DEF ExecutorInv

(* A submitter that finds e.closed unset has the channel open in front of it. *)
LEMMA CheckClosedPreserves ==
  ASSUME ExecutorInv, NEW s \in Submitters, CheckClosed(s)
  PROVE  ExecutorInv'
<1>1. CASE closed
  BY Zenon, <1>1, ReturnPreserves DEF CheckClosed, Errors, ExecutorInv, TypeOK
<1>2. CASE ~closed
  <2>1. /\ pc[s] = "check" /\ pc' = [pc EXCEPT ![s] = "select"]
        /\ UNCHANGED <<chanVars, closed, ctxDone, lockVars, call, todo, outcome, workVars,
                       closerPC, queuedTasks, rejectedTasks, panicked>>
    BY Zenon, <1>2 DEF CheckClosed, Goto
  <2>2. TypeOK'
    BY Zenon, <2>1 DEF ExecutorInv, TypeOK, chanVars, workVars, lockVars
  <2>3. HandsInv'
    BY Zenon, <2>1 DEF ExecutorInv, TypeOK, HandsInv, InCall, workVars
  <2>4. ReadersInv'
    BY Zenon, <2>1 DEF ExecutorInv, TypeOK, ReadersInv, lockVars
  <2>5. WriterInv'
    BY Zenon, <2>1, SubmitterFrame DEF chanVars, lockVars
  <2>6. ~chanClosed
    BY Zenon, <1>2 DEF ExecutorInv, WriterInv
  <2>7. GuardInv' /\ LockedSendIsSafe'
    BY Zenon, <2>1, <2>6 DEF ExecutorInv, TypeOK, GuardInv, LockedSendIsSafe, chanVars, lockVars
  <2> QED BY Zenon, <2>2, <2>3, <2>4, <2>5, <2>7 DEF ExecutorInv
<1> QED BY Zenon, <1>1, <1>2

(* Only SubmitBatch, which holds no lock, can find the channel closed. *)
LEMMA SelectSendPreserves ==
  ASSUME ExecutorInv, NEW s \in Submitters, SelectSend(s)
  PROVE  ExecutorInv'
<1>1. /\ pc[s] = "select" /\ call[s] \in Calls /\ todo[s] # <<>> /\ todo[s] \in Seq(Tasks)
      /\ UNCHANGED <<chanClosed, closed, ctxDone, lockVars, call, todo, outcome, workVars,
                     closerPC, queuedTasks, rejectedTasks>>
  BY Zenon DEF SelectSend, ExecutorInv, TypeOK, HandsInv, InCall
<1>2. WriterInv'
  BY Zenon, <1>1, SubmitterFrame DEF lockVars
<1>3. CASE chanClosed
  <2>1. panicked' = call[s] /\ UNCHANGED <<pc, taskChan>>
    BY Zenon, <1>3 DEF SelectSend
  <2>2. call[s] = "SubmitBatch"
    BY Zenon, <1>1, <1>3 DEF ExecutorInv, ReadersInv, GuardInv
  <2>3. TypeOK'
    BY Zenon, <1>1, <2>1 DEF ExecutorInv, TypeOK, workVars, lockVars
  <2>4. HandsInv' /\ ReadersInv'
    BY Zenon, <1>1, <2>1 DEF ExecutorInv, HandsInv, InCall, ReadersInv, workVars, lockVars
  <2>5. GuardInv' /\ LockedSendIsSafe'
    BY Zenon, <1>1, <2>1, <2>2 DEF ExecutorInv, GuardInv, LockedSendIsSafe, lockVars
  <2> QED BY Zenon, <1>2, <2>3, <2>4, <2>5 DEF ExecutorInv
<1>4. CASE ~chanClosed
  <2>1. /\ taskChan' = Append(taskChan, Head(todo[s])) /\ pc' = [pc EXCEPT ![s] = "count"]
        /\ panicked' = panicked /\ Len(taskChan) < QueueSize
    BY Zenon, <1>4 DEF SelectSend, CanSend, Goto
  <2>2. Head(todo[s]) \in Tasks
    BY <1>1
  <2>3. taskChan' \in Seq(Tasks) /\ Len(taskChan') <= QueueSize
    BY <2>1, <2>2, QueueSizeAssumption DEF ExecutorInv, TypeOK
  <2>4. TypeOK'
    BY Zenon, <1>1, <2>1, <2>3 DEF ExecutorInv, TypeOK, workVars, lockVars
  <2>5. HandsInv' /\ ReadersInv'
    BY Zenon, <1>1, <2>1 DEF ExecutorInv, TypeOK, HandsInv, InCall, ReadersInv, workVars, lockVars
  <2>6. GuardInv' /\ LockedSendIsSafe'
    BY Zenon, <1>1, <1>4, <2>1 DEF ExecutorInv, TypeOK, GuardInv, LockedSendIsSafe, lockVars
  <2> QED BY Zenon, <1>2, <2>4, <2>5, <2>6 DEF ExecutorInv
<1> QED BY Zenon, <1>3, <1>4

LEMMA SelectReturnPreserves ==
  ASSUME ExecutorInv, NEW s \in Submitters,
         SelectDone(s) \/ SelectDefault(s) \/ SelectTimeout(s)
  PROVE  ExecutorInv'
<1>1. Len(todo[s]) \in Nat /\ rejectedTasks \in Nat
  BY DEF ExecutorInv, TypeOK
<1>2. rejectedTasks' \in Nat
  BY <1>1 DEF SelectDone, SelectDefault, SelectTimeout
<1>3. {"ctxErr", "full", "timeout"} \subseteq Errors
  BY Zenon DEF Errors
<1>4. \E result \in Errors : Return(s, result)
  BY Zenon, <1>3 DEF SelectDone, SelectDefault, SelectTimeout
<1> QED BY Zenon, <1>2, <1>4, ReturnPreserves DEF SelectDone, SelectDefault, SelectTimeout

LEMMA CountQueuedPreserves ==
  ASSUME ExecutorInv, NEW s \in Submitters, CountQueued(s)
  PROVE  ExecutorInv'
<1>1. /\ pc[s] = "count" /\ todo' = [todo EXCEPT ![s] = Tail(todo[s])]
      /\ outcome' = [outcome EXCEPT ![Head(todo[s])] = "nil"]
      /\ queuedTasks' = queuedTasks + 1
      /\ \/ Len(todo[s]) > 1 /\ pc' = [pc EXCEPT ![s] = "select"] /\ readers' = readers
         \/ pc' = [pc EXCEPT ![s] = "idle"] /\ readers' = readers \ {s}
      /\ UNCHANGED <<chanVars, closed, ctxDone, writer, call, workVars, closerPC,
                     rejectedTasks, panicked>>
  BY Zenon DEF CountQueued, Goto
<1>2. /\ todo[s] # <<>> /\ todo[s] \in Seq(Tasks) /\ Head(todo[s]) \in Tasks
      /\ call[s] \in Calls
  BY <1>1 DEF ExecutorInv, TypeOK, HandsInv, InCall
<1>3. /\ Tail(todo[s]) \in Seq(Tasks) /\ Len(Tail(todo[s])) = Len(todo[s]) - 1
  BY Zenon, <1>2, HeadTailProperties
<1>4. TypeOK'
  <2>1. todo' \in [Submitters -> Seq(Tasks)]
    BY Zenon, <1>1, <1>3 DEF ExecutorInv, TypeOK
  <2>2. outcome' \in [Tasks -> Errors \cup {"none", "running", "nil"}] /\ queuedTasks' \in Int
    BY <1>1, <1>2 DEF ExecutorInv, TypeOK
  <2>3. /\ pc' \in [Submitters -> {"idle", "rlock", "check", "select", "count"}]
        /\ readers' \subseteq Submitters
    BY Zenon, <1>1 DEF ExecutorInv, TypeOK
  <2> QED BY Zenon, <1>1, <2>1, <2>2, <2>3 DEF ExecutorInv, TypeOK, chanVars, workVars
<1>5. HandsInv'
  <2>1. Len(todo[s]) > 1 => Tail(todo[s]) # <<>>
    BY SMTT(60), <1>2, <1>3
  <2>2. \A r \in Submitters : r # s => pc'[r] = pc[r] /\ todo'[r] = todo[r] /\ call'[r] = call[r]
    BY Zenon, <1>1 DEF ExecutorInv, TypeOK
  <2>3. InCall(s)' => call'[s] \in Calls /\ todo'[s] # <<>>
    BY Zenon, <1>1, <1>2, <2>1 DEF ExecutorInv, TypeOK, InCall
  <2>4. \A w \in Workers : workerPC'[w] \in {"received", "execute"} => holding'[w] \in Tasks
    BY Zenon, <1>1 DEF ExecutorInv, HandsInv, workVars
  <2> QED BY Zenon, <2>2, <2>3, <2>4 DEF ExecutorInv, HandsInv, InCall
<1>6. ReadersInv'
  BY ZenonT(60), <1>1 DEF ExecutorInv, TypeOK, ReadersInv
<1>7. WriterInv'
  BY Zenon, <1>1, SubmitterFrame DEF chanVars
<1>8. GuardInv' /\ LockedSendIsSafe'
  BY Zenon, <1>1 DEF ExecutorInv, TypeOK, GuardInv, LockedSendIsSafe, chanVars
<1> QED BY Zenon, <1>4, <1>5, <1>6, <1>7, <1>8 DEF ExecutorInv

(* A worker leaves submitters, the lock and Shutdown alone. *)
LEMMA WorkerStepPreserves ==
  ASSUME ExecutorInv, NEW w \in Workers, WorkerStep(w)
  PROVE  ExecutorInv'
<1>1. UNCHANGED <<chanClosed, closed, ctxDone, readers, writer, pc, call, todo, outcome,
                  closerPC, rejectedTasks, panicked>>
  BY Zenon DEF WorkerStep, Receive, WorkerExit, CountReceived, Execute, chanVars, lockVars, submitVars
<1>2. ReadersInv' /\ WriterInv' /\ GuardInv' /\ LockedSendIsSafe'
  BY Zenon, <1>1 DEF ExecutorInv, ReadersInv, WriterInv, Active, GuardInv, LockedSendIsSafe
<1>3. CASE Receive(w)
  <2>1. /\ taskChan # <<>> /\ taskChan \in Seq(Tasks) /\ taskChan' = Tail(taskChan)
        /\ holding' = [holding EXCEPT ![w] = Head(taskChan)]
        /\ workerPC' = [workerPC EXCEPT ![w] = "received"]
        /\ executed' = executed /\ queuedTasks' = queuedTasks
    BY Zenon, <1>3 DEF Receive, ExecutorInv, TypeOK
  <2>2. /\ Head(taskChan) \in Tasks /\ Tail(taskChan) \in Seq(Tasks)
        /\ Len(Tail(taskChan)) = Len(taskChan) - 1 /\ Len(taskChan) \in Nat
    BY <2>1, HeadTailProperties
  <2>3. taskChan' \in Seq(Tasks) /\ Len(taskChan') <= QueueSize
    BY <2>1, <2>2, QueueSizeAssumption DEF ExecutorInv, TypeOK
  <2>4. TypeOK'
    BY Zenon, <1>1, <2>1, <2>2, <2>3 DEF ExecutorInv, TypeOK
  <2>5. HandsInv'
    BY Zenon, <1>1, <2>1, <2>2 DEF ExecutorInv, TypeOK, HandsInv, InCall
  <2> QED BY Zenon, <1>2, <2>4, <2>5 DEF ExecutorInv
<1>4. CASE WorkerExit(w)
  <2>1. TypeOK'
    BY Zenon, <1>1, <1>4 DEF ExecutorInv, TypeOK, WorkerExit, chanVars
  <2>2. HandsInv'
    BY Zenon, <1>1, <1>4 DEF ExecutorInv, TypeOK, HandsInv, InCall, WorkerExit
  <2> QED BY Zenon, <1>2, <2>1, <2>2 DEF ExecutorInv
<1>5. CASE CountReceived(w)
  <2>1. TypeOK'
    BY <1>1, <1>5 DEF ExecutorInv, TypeOK, CountReceived, chanVars
  <2>2. HandsInv'
    BY Zenon, <1>1, <1>5 DEF ExecutorInv, TypeOK, HandsInv, InCall, CountReceived
  <2> QED BY Zenon, <1>2, <2>1, <2>2 DEF ExecutorInv
<1>6. CASE Execute(w)
  <2>1. holding[w] \in Tasks
    BY Zenon, <1>6 DEF ExecutorInv, HandsInv, Execute
  <2>2. executed' \in Seq(Tasks)
    BY Zenon, <1>6, <2>1, AppendProperties DEF ExecutorInv, TypeOK, Execute
  <2>3. TypeOK'
    BY Zenon, <1>1, <1>6, <2>2 DEF ExecutorInv, TypeOK, Execute, chanVars
  <2>4. HandsInv'
    BY Zenon, <1>1, <1>6 DEF ExecutorInv, TypeOK, HandsInv, InCall, Execute
  <2> QED BY Zenon, <1>2, <2>3, <2>4 DEF ExecutorInv
<1> QED BY Zenon, <1>3, <1>4, <1>5, <1>6 DEF WorkerStep

(* Shutdown: the compare-and-swap elects one writer, which closes the       *)
(* channel only after it has seen the last reader leave.                    *)
LEMMA ShutdownPreserves ==
  ASSUME ExecutorInv, NEW c \in Closers, Shutdown(c) \/ ShutdownStep(c)
  PROVE  ExecutorInv'
<1>1. UNCHANGED <<taskChan, readers, pc, call, todo, outcome, workerPC, holding, executed,
                  queuedTasks, rejectedTasks, panicked>>
  BY Zenon DEF Shutdown, ShutdownStep, LockRequest, LockAndCancel, CloseChan, WorkersDone,
         ShutdownTimeout, chanVars, lockVars, submitVars, workVars
<1>2. HandsInv' /\ ReadersInv' /\ LockedSendIsSafe'
  BY Zenon, <1>1 DEF ExecutorInv, HandsInv, InCall, ReadersInv, LockedSendIsSafe
<1>3. /\ closerPC' \in [Closers -> {"idle", "alreadyClosed", "lock", "pending", "closeChan",
                                    "wait", "stopped", "timeout"}]
      /\ writer' \in {"none", "pending", "held"}
  BY ZenonT(60) DEF ExecutorInv, TypeOK, Shutdown, ShutdownStep, LockRequest, LockAndCancel, CloseChan,
         WorkersDone, ShutdownTimeout, CloserGoto, lockVars
<1>4. chanClosed' \in BOOLEAN /\ closed' \in BOOLEAN /\ ctxDone' \in BOOLEAN
  BY Zenon DEF ExecutorInv, TypeOK, Shutdown, ShutdownStep, LockRequest, LockAndCancel, CloseChan,
         WorkersDone, ShutdownTimeout, chanVars
<1>5. TypeOK'
  BY Zenon, <1>1, <1>3, <1>4 DEF ExecutorInv, TypeOK
<1>6. CASE Shutdown(c)
  <2>1. /\ closerPC[c] = "idle" /\ closed' = TRUE /\ UNCHANGED <<chanClosed, writer>>
        /\ closerPC' = [closerPC EXCEPT ![c] = IF closed THEN "alreadyClosed" ELSE "lock"]
    BY Zenon, <1>6 DEF Shutdown, CloserGoto, chanVars, lockVars
  <2>2. \A d \in Closers : d # c => closerPC'[d] = closerPC[d]
    BY Zenon, <2>1 DEF ExecutorInv, TypeOK
  <2>3. closerPC'[c] = IF closed THEN "alreadyClosed" ELSE "lock"
    BY Zenon, <2>1 DEF ExecutorInv, TypeOK
  <2>4. \A d, e \in Closers : Active(d)' /\ Active(e)' => d = e
    BY Zenon, <2>2, <2>3 DEF ExecutorInv, WriterInv, Active
  <2>5. WriterInv'
    BY <1>1, <2>1, <2>2, <2>3, <2>4 DEF ExecutorInv, WriterInv
  <2>6. GuardInv'
    BY Zenon, <1>1, <2>1 DEF ExecutorInv, GuardInv
  <2> QED BY Zenon, <1>2, <1>5, <2>5, <2>6 DEF ExecutorInv
<1>7. CASE ShutdownStep(c)
  <2>1. Active(c) /\ Active(c)' /\ closed' = closed
    BY Zenon, <1>7 DEF ExecutorInv, TypeOK, ShutdownStep, LockRequest, LockAndCancel, CloseChan,
                WorkersDone, ShutdownTimeout, CloserGoto, Active
  <2>2. \A d \in Closers : d # c => closerPC'[d] = closerPC[d]
    BY Zenon, <1>7 DEF ExecutorInv, TypeOK, ShutdownStep, LockRequest, LockAndCancel, CloseChan,
                WorkersDone, ShutdownTimeout, CloserGoto
  <2>3. closed /\ \A d \in Closers : d # c => closerPC[d] # "closeChan"
    BY Zenon, <2>1 DEF ExecutorInv, WriterInv, Active
  <2>4. \A d, e \in Closers : Active(d)' /\ Active(e)' => d = e
    BY Zenon, <2>1, <2>2 DEF ExecutorInv, WriterInv, Active
  <2>5. CASE LockAndCancel(c)
    <3>1. /\ readers = {} /\ writer' = "held" /\ chanClosed' = chanClosed
          /\ closerPC'[c] = "closeChan"
      BY Zenon, <2>5 DEF LockAndCancel, CloserGoto, chanVars, ExecutorInv, TypeOK
    <3> QED BY Zenon, <1>1, <1>2, <1>5, <2>1, <2>2, <2>3, <2>4, <3>1 DEF ExecutorInv, WriterInv, GuardInv
  <2>6. CASE CloseChan(c)
    <3>1. /\ closerPC[c] = "closeChan" /\ writer' = "none" /\ closerPC'[c] = "wait"
          /\ chanClosed'
      BY Zenon, <2>6 DEF CloseChan, CloserGoto, ExecutorInv, TypeOK
    <3>2. readers = {}
      BY Zenon, <3>1 DEF ExecutorInv, WriterInv
    <3>3. GuardInv'
      BY Zenon, <1>1, <3>2 DEF GuardInv
    <3>4. WriterInv'
      BY Zenon, <2>1, <2>2, <2>3, <2>4, <3>1 DEF WriterInv
    <3> QED BY Zenon, <1>2, <1>5, <3>3, <3>4 DEF ExecutorInv
  <2>7. CASE LockRequest(c) \/ WorkersDone(c) \/ ShutdownTimeout(c)
    <3>1. /\ chanClosed' = chanClosed /\ closerPC[c] # "closeChan" /\ closerPC'[c] # "closeChan"
          /\ writer' = writer \/ writer' = "pending"
          /\ closerPC'[c] \in {"wait", "stopped", "timeout"} => closerPC[c] = "wait"
      BY Zenon, <2>7 DEF LockRequest, WorkersDone, ShutdownTimeout, CloserGoto, chanVars, lockVars,
                  ExecutorInv, TypeOK
    <3>2. GuardInv'
      BY Zenon, <1>1, <3>1 DEF ExecutorInv, GuardInv
    <3>3. WriterInv'
      BY Zenon, <1>1, <2>1, <2>2, <2>3, <2>4, <3>1 DEF ExecutorInv, WriterInv
    <3> QED BY Zenon, <1>2, <1>5, <3>2, <3>3 DEF ExecutorInv
  <2> QED BY Zenon, <1>7, <2>5, <2>6, <2>7 DEF ShutdownStep
<1> QED BY Zenon, <1>6, <1>7

LEMMA ExecutorInvStep == ExecutorInv /\ [Next]_vars => ExecutorInv'
<1> SUFFICES ASSUME ExecutorInv, [Next]_vars PROVE ExecutorInv'
  BY Zenon
<1>1. ASSUME NEW s \in Submitters, SubmitStep(s) PROVE ExecutorInv'
  BY Zenon, <1>1, RLockPreserves, CheckClosedPreserves, SelectSendPreserves, SelectReturnPreserves,
     CountQueuedPreserves DEF SubmitStep
<1>2. CASE ParentCancel \/ UNCHANGED vars
  <2>1. /\ ctxDone' \in BOOLEAN
        /\ UNCHANGED <<taskChan, chanClosed, closed, readers, writer, pc, call, todo, outcome,
                       workerPC, holding, executed, closerPC, queuedTasks, rejectedTasks, panicked>>
    BY <1>2, Zenon DEF ParentCancel, vars, chanVars, lockVars, submitVars, workVars, ExecutorInv, TypeOK
  <2>2. TypeOK'
    BY Zenon, <2>1 DEF ExecutorInv, TypeOK
  <2> QED BY Zenon, <2>1, <2>2 DEF ExecutorInv, HandsInv, InCall, ReadersInv, WriterInv, Active, GuardInv,
                             LockedSendIsSafe
<1> QED BY Zenon, <1>1, <1>2, BeginPreserves, WorkerStepPreserves, ShutdownPreserves DEF Next

(* The invariant of the executor, its type invariant included. *)
THEOREM ExecutorInvariant == Spec => []ExecutorInv
BY ExecutorInvInit, ExecutorInvStep, PTL DEF Spec

(* For any number of submitters, workers, tasks and concurrent Shutdowns,   *)
(* and any queue size, a Submit or SubmitWithTimeout never sends to the     *)
(* channel Shutdown closes.                                                 *)
THEOREM SubmitIsSafe == Spec => []LockedSendIsSafe
<1>1. ExecutorInv => LockedSendIsSafe
  BY Zenon DEF ExecutorInv
<1> QED BY <1>1, ExecutorInvariant, PTL

(* Once a Shutdown waits for the workers, no step of any submitter makes    *)
(* the queue longer.                                                        *)
THEOREM QueueStaysClosed == Spec => NothingQueuedAfterClose
<1>1. ExecutorInv /\ [Next]_vars =>
        ((\E c \in Closers : closerPC[c] \in {"wait", "stopped", "timeout"})
           => Len(taskChan') <= Len(taskChan))
  <2> SUFFICES ASSUME ExecutorInv, [Next]_vars, chanClosed
               PROVE  Len(taskChan') <= Len(taskChan)
    BY Zenon DEF ExecutorInv, WriterInv
  <2>1. Len(taskChan) \in Nat
    BY DEF ExecutorInv, TypeOK
  <2>2. CASE taskChan' = taskChan
    BY <2>1, <2>2
  <2>3. ASSUME NEW w \in Workers, Receive(w) PROVE Len(taskChan') <= Len(taskChan)
    <3>1. taskChan' = Tail(taskChan) /\ taskChan \in Seq(Tasks) /\ taskChan # <<>>
      BY Zenon, <2>3 DEF Receive, ExecutorInv, TypeOK
    <3>2. Len(Tail(taskChan)) = Len(taskChan) - 1
      BY Zenon, <3>1, HeadTailProperties
    <3> QED BY <2>1, <3>1, <3>2
  <2>4. ASSUME NEW s \in Submitters, SubmitStep(s) PROVE taskChan' = taskChan
    BY Zenon, <2>4 DEF SubmitStep, RLock, CheckClosed, SelectSend, SelectDone, SelectDefault,
                SelectTimeout, CountQueued, chanVars
  <2>5. ASSUME NEW w \in Workers, WorkerStep(w) PROVE taskChan' = taskChan \/ Receive(w)
    BY Zenon, <2>5 DEF WorkerStep, WorkerExit, CountReceived, Execute, chanVars
  <2>6. ASSUME NEW c \in Closers, Shutdown(c) \/ ShutdownStep(c) PROVE taskChan' = taskChan
    BY Zenon, <2>6 DEF Shutdown, ShutdownStep, LockRequest, LockAndCancel, CloseChan, WorkersDone,
                ShutdownTimeout, chanVars
  <2>7. ASSUME NEW s \in Submitters, NEW op \in Calls, NEW tasks \in Arguments(op), Begin(s, op, tasks)
        PROVE  taskChan' = taskChan
    BY Zenon, <2>7 DEF Begin, chanVars
  <2>8. CASE ParentCancel \/ UNCHANGED vars
    BY Zenon, <2>2, <2>8 DEF ParentCancel, vars, chanVars
  <2> QED BY Zenon, <2>2, <2>3, <2>4, <2>5, <2>6, <2>7, <2>8 DEF Next
<1> QED BY <1>1, ExecutorInvariant, PTL DEF Spec, NothingQueuedAfterClose

(* Both together, as the runs check them. *)
THEOREM QueueStaysSafe == Spec => QueueIsSafe
BY SubmitIsSafe, QueueStaysClosed, PTL DEF QueueIsSafe

-----------------------------------------------------------------------------
(* Where the tasks are.                                                    *)

LEMMA AppendItems ==
  ASSUME NEW q \in Seq(Tasks), NEW x \in Tasks
  PROVE  /\ Append(q, x) \in Seq(Tasks) /\ Len(Append(q, x)) = Len(q) + 1
         /\ \A t \in Tasks : InSeq(t, Append(q, x)) <=> InSeq(t, q) \/ t = x
         /\ NoDup(q) /\ ~InSeq(x, q) => NoDup(Append(q, x))
<1>1. /\ Append(q, x) \in Seq(Tasks) /\ Len(Append(q, x)) = Len(q) + 1
      /\ \A i \in 1 .. Len(q) : Append(q, x)[i] = q[i]
      /\ Append(q, x)[Len(q) + 1] = x
  BY AppendProperties
<1>2. /\ DOMAIN Append(q, x) = 1 .. (Len(q) + 1) /\ DOMAIN q = 1 .. Len(q) /\ Len(q) \in Nat
  BY Zenon, <1>1, LenProperties
<1>3. \A t \in Tasks : InSeq(t, Append(q, x)) <=> InSeq(t, q) \/ t = x
  <2>1. ASSUME NEW t \in Tasks, InSeq(t, Append(q, x)) PROVE InSeq(t, q) \/ t = x
    <3>1. PICK i \in 1 .. (Len(q) + 1) : Append(q, x)[i] = t
      BY Zenon, <1>2, <2>1 DEF InSeq
    <3>2. CASE i = Len(q) + 1
      BY Zenon, <1>1, <3>1, <3>2
    <3>3. CASE i \in 1 .. Len(q)
      BY Zenon, <1>1, <1>2, <3>1, <3>3 DEF InSeq
    <3> QED BY <1>2, <3>2, <3>3
  <2>2. ASSUME NEW t \in Tasks, InSeq(t, q) \/ t = x PROVE InSeq(t, Append(q, x))
    <3>1. CASE t = x
      BY <1>1, <1>2, <3>1 DEF InSeq
    <3>2. CASE InSeq(t, q)
      <4>1. PICK i \in 1 .. Len(q) : q[i] = t
        BY Zenon, <1>2, <3>2 DEF InSeq
      <4>2. i \in 1 .. (Len(q) + 1) /\ Append(q, x)[i] = t
        BY <1>1, <1>2, <4>1
      <4> QED BY Zenon, <1>2, <4>2 DEF InSeq
    <3> QED BY Zenon, <2>2, <3>1, <3>2
  <2> QED BY Zenon, <2>1, <2>2
<1>4. ASSUME NoDup(q), ~InSeq(x, q) PROVE NoDup(Append(q, x))
  <2> SUFFICES ASSUME NEW i \in 1 .. (Len(q) + 1), NEW j \in 1 .. (Len(q) + 1), Append(q, x)[i] = Append(q, x)[j]
               PROVE  i = j
    BY Zenon, <1>2 DEF NoDup
  <2>1. \A k \in 1 .. Len(q) : Append(q, x)[k] = q[k] /\ q[k] # x
    BY Zenon, <1>1, <1>2, <1>4 DEF InSeq
  <2>2. CASE i \in 1 .. Len(q) /\ j \in 1 .. Len(q)
    BY Zenon, <1>2, <1>4, <2>1, <2>2 DEF NoDup
  <2>3. CASE i = Len(q) + 1 \/ j = Len(q) + 1
    BY <1>1, <1>2, <2>1, <2>3
  <2> QED BY <1>2, <2>2, <2>3
<1> QED BY Zenon, <1>1, <1>3, <1>4

LEMMA TailItems ==
  ASSUME NEW q \in Seq(Tasks), q # <<>>
  PROVE  /\ Head(q) \in Tasks /\ Tail(q) \in Seq(Tasks) /\ Len(Tail(q)) = Len(q) - 1 /\ Len(q) > 0
         /\ InSeq(Head(q), q)
         /\ \A t \in Tasks : InSeq(t, q) <=> t = Head(q) \/ InSeq(t, Tail(q))
         /\ NoDup(q) => NoDup(Tail(q)) /\ ~InSeq(Head(q), Tail(q))
<1>1. /\ Head(q) \in Tasks /\ Tail(q) \in Seq(Tasks) /\ Len(Tail(q)) = Len(q) - 1
      /\ \A i \in 1 .. Len(Tail(q)) : Tail(q)[i] = q[i + 1]
  BY Zenon, HeadTailProperties
<1>2. /\ DOMAIN q = 1 .. Len(q) /\ Len(q) \in Nat /\ Len(q) > 0 /\ Head(q) = q[1]
      /\ DOMAIN Tail(q) = 1 .. (Len(q) - 1)
  BY <1>1, LenProperties, EmptySeq
<1>3. ASSUME NEW t \in Tasks, InSeq(t, q) PROVE t = Head(q) \/ InSeq(t, Tail(q))
  <2>1. PICK i \in 1 .. Len(q) : q[i] = t
    BY Zenon, <1>2, <1>3 DEF InSeq
  <2>2. CASE i = 1
    BY Zenon, <1>2, <2>1, <2>2
  <2>3. CASE i # 1
    <3>1. i - 1 \in 1 .. (Len(q) - 1) /\ Tail(q)[i - 1] = q[i]
      BY <1>1, <1>2, <2>1, <2>3
    <3> QED BY Zenon, <1>2, <2>1, <3>1 DEF InSeq
  <2> QED BY Zenon, <2>2, <2>3
<1>4. ASSUME NEW t \in Tasks, InSeq(t, Tail(q)) PROVE \E i \in 2 .. Len(q) : q[i] = t
  <2>1. PICK i \in 1 .. (Len(q) - 1) : Tail(q)[i] = t
    BY Zenon, <1>2, <1>4 DEF InSeq
  <2>2. i + 1 \in 2 .. Len(q) /\ q[i + 1] = t
    BY <1>1, <1>2, <2>1
  <2> QED BY Zenon, <2>2
<1>5. \A t \in Tasks : t = Head(q) \/ InSeq(t, Tail(q)) => InSeq(t, q)
  <2>1. InSeq(Head(q), q)
    BY <1>2 DEF InSeq
  <2>2. ASSUME NEW t \in Tasks, InSeq(t, Tail(q)) PROVE InSeq(t, q)
    <3>1. PICK i \in 2 .. Len(q) : q[i] = t
      BY Zenon, <1>4, <2>2
    <3>2. i \in 1 .. Len(q)
      BY <1>2, <3>1
    <3> QED BY Zenon, <1>2, <3>1, <3>2 DEF InSeq
  <2> QED BY Zenon, <2>1, <2>2
<1>6. ASSUME NoDup(q) PROVE NoDup(Tail(q)) /\ ~InSeq(Head(q), Tail(q))
  <2>1. ASSUME InSeq(Head(q), Tail(q)) PROVE FALSE
    <3>1. PICK i \in 2 .. Len(q) : q[i] = Head(q)
      BY Zenon, <1>1, <1>4, <2>1
    <3>2. i \in 1 .. Len(q) /\ 1 \in 1 .. Len(q) /\ i # 1
      BY <1>2, <3>1
    <3> QED BY Zenon, <1>2, <1>6, <3>1, <3>2 DEF NoDup
  <2>2. ASSUME NEW i \in 1 .. (Len(q) - 1), NEW j \in 1 .. (Len(q) - 1), Tail(q)[i] = Tail(q)[j] PROVE i = j
    <3>1. q[i + 1] = q[j + 1] /\ i + 1 \in 1 .. Len(q) /\ j + 1 \in 1 .. Len(q)
      BY <1>1, <1>2, <2>2
    <3>2. i + 1 = j + 1
      BY Zenon, <1>2, <1>6, <3>1 DEF NoDup
    <3> QED BY <3>2
  <2>3. NoDup(Tail(q))
    BY Zenon, <1>2, <2>2 DEF NoDup
  <2> QED BY Zenon, <2>1, <2>3
<1> QED BY Zenon, <1>1, <1>2, <1>3, <1>5, <1>6

Counting == {s \in Submitters : pc[s] = "count"}
Received == {w \in Workers : workerPC[w] = "received"}

LEMMA CounterDef == CounterInv <=> queuedTasks = Len(taskChan) - Cardinality(Counting) + Cardinality(Received)
BY Zenon DEF CounterInv, Counting, Received

LEMMA CounterDefPrime ==
  CounterInv' <=> queuedTasks' = Len(taskChan') - Cardinality(Counting') + Cardinality(Received')
BY Zenon DEF CounterInv, Counting, Received

LEMMA CountsFinite ==
  /\ IsFiniteSet(Counting) /\ IsFiniteSet(Received)
  /\ Cardinality(Counting) \in Nat /\ Cardinality(Received) \in Nat
<1>1. Counting \in SUBSET Submitters /\ Received \in SUBSET Workers
  BY Zenon DEF Counting, Received
<1> QED BY Zenon, <1>1, FiniteAssumption, FS_Subset, FS_CardinalityType

(* A step that moves no task and tells nobody anything. *)
LEMMA NeutralAccount ==
  ASSUME AccountInv, UNCHANGED <<taskChan, outcome, todo, holding, executed, queuedTasks>>,
         \A s \in Submitters : pc'[s] = "count" <=> pc[s] = "count",
         \A s \in Submitters : pc'[s] = "idle" => pc[s] = "idle",
         \A w \in Workers : workerPC'[w] = "received" <=> workerPC[w] = "received",
         \A w \in Workers : workerPC'[w] \in {"select", "exited"} => workerPC[w] \in {"select", "exited"}
  PROVE  AccountInv'
<1>1. TodoInv'
  BY Zenon DEF AccountInv, TodoInv
<1>2. \A t \in Tasks : Held(t)' <=> Held(t)
  BY Zenon DEF Held
<1>3. \A t \in Tasks : Sent(t)' <=> Sent(t)
  BY Zenon DEF Sent
<1>4. PlaceInv'
  BY Zenon, <1>2, <1>3 DEF AccountInv, PlaceInv
<1>5. Counting' = Counting /\ Received' = Received
  BY Zenon DEF Counting, Received
<1>6. CounterInv'
  BY Zenon, <1>5, CounterDef, CounterDefPrime DEF AccountInv
<1> QED BY Zenon, <1>1, <1>4, <1>6 DEF AccountInv

(* Facts that every other step starts from. *)
LEMMA AccountFacts ==
  ASSUME ExecutorInv, AccountInv
  PROVE  /\ taskChan \in Seq(Tasks) /\ executed \in Seq(Tasks) /\ queuedTasks \in Int
         /\ todo \in [Submitters -> Seq(Tasks)] /\ holding \in [Workers -> Tasks \cup {NoTask}]
         /\ pc \in [Submitters -> {"idle", "rlock", "check", "select", "count"}]
         /\ workerPC \in [Workers -> {"select", "received", "execute", "exited"}]
         /\ outcome \in [Tasks -> Errors \cup {"none", "running", "nil"}]
         /\ TodoInv /\ PlaceInv /\ CounterInv
         /\ \A s \in Submitters : pc[s] # "idle" => todo[s] # <<>>
BY Zenon DEF ExecutorInv, TypeOK, AccountInv, HandsInv, InCall

LEMMA BeginAccount ==
  ASSUME ExecutorInv, AccountInv, NEW s \in Submitters, NEW op \in Calls, NEW tasks \in Arguments(op),
         Begin(s, op, tasks)
  PROVE  AccountInv'
<1>0. tasks \in Seq(Tasks) /\ NoDup(tasks)
  <2>1. CASE op = "SubmitBatch"
    <3>1. PICK t \in Tasks, u \in Tasks : tasks = <<t, u>> /\ t # u
      BY <2>1 DEF Arguments
    <3> QED BY <3>1 DEF NoDup
  <2>2. CASE op # "SubmitBatch"
    <3>1. PICK t \in Tasks : tasks = <<t>>
      BY <2>2 DEF Arguments
    <3> QED BY <3>1 DEF NoDup
  <2> QED BY Zenon, <2>1, <2>2
<1>1. /\ pc[s] = "idle" /\ todo' = [todo EXCEPT ![s] = tasks]
      /\ pc' = [pc EXCEPT ![s] = IF op = "SubmitBatch" THEN "check" ELSE "rlock"]
      /\ outcome' = [t \in Tasks |-> IF InSeq(t, tasks) THEN "running" ELSE outcome[t]]
      /\ UNCHANGED <<taskChan, workerPC, holding, executed, queuedTasks>>
  BY Zenon DEF Begin, Goto, chanVars, workVars
<1>2. \A t \in Tasks : InSeq(t, tasks) => outcome[t] = "none"
  BY Zenon DEF Begin, InSeq
<1>3. \A r \in Submitters : /\ todo'[r] = IF r = s THEN tasks ELSE todo[r]
                            /\ pc'[r] = "count" <=> pc[r] = "count"
                            /\ pc'[r] = "idle" => pc[r] = "idle" /\ r # s
  BY Zenon, <1>1, AccountFacts
<1>4. \A t \in Tasks : InSeq(t, tasks) => ~ \E r \in Submitters : InSeq(t, todo[r])
  BY Zenon, <1>2, AccountFacts DEF TodoInv
<1>5. TodoInv'
  <2>1. \A r \in Submitters : NoDup(todo'[r]) /\ (pc'[r] = "idle" => todo'[r] = <<>>)
    BY Zenon, <1>0, <1>3, AccountFacts DEF TodoInv
  <2>2. ASSUME NEW r \in Submitters, NEW q \in Submitters, r # q, NEW t \in Tasks
        PROVE  ~(InSeq(t, todo'[r]) /\ InSeq(t, todo'[q]))
    BY <1>3, <1>4, <2>2, AccountFacts DEF TodoInv
  <2>3. ASSUME NEW t \in Tasks
        PROVE  outcome'[t] = "running" <=> \E r \in Submitters : InSeq(t, todo'[r])
    <3>1. CASE InSeq(t, tasks)
      BY Zenon, <1>1, <1>3, <3>1
    <3>2. CASE ~InSeq(t, tasks)
      <4>1. outcome'[t] = outcome[t] /\ todo[s] = <<>> /\ ~InSeq(t, todo[s])
        BY <1>1, <3>2, AccountFacts DEF TodoInv, InSeq
      <4> QED BY Zenon, <1>3, <3>2, <4>1, AccountFacts DEF TodoInv
    <3> QED BY Zenon, <3>1, <3>2
  <2> QED BY Zenon, <2>1, <2>2, <2>3 DEF TodoInv, InSeq, NoDup
<1>6. \A t \in Tasks : Held(t)' <=> Held(t)
  BY Zenon, <1>1 DEF Held
<1>7. \A t \in Tasks : Sent(t)' <=> Sent(t)
  BY Zenon, <1>1, <1>3 DEF Sent
<1>8. \A t \in Tasks : outcome'[t] = "nil" <=> outcome[t] = "nil"
  BY Zenon, <1>1, <1>2
<1>9. PlaceInv'
  BY Zenon, <1>1, <1>6, <1>7, <1>8, AccountFacts DEF PlaceInv, InSeq, NoDup
<1>10. Counting' = Counting /\ Received' = Received
  BY Zenon, <1>1, <1>3 DEF Counting, Received
<1>11. CounterInv'
  BY Zenon, <1>1, <1>10, CounterDef, CounterDefPrime, AccountFacts
<1> QED BY Zenon, <1>5, <1>9, <1>11 DEF AccountInv

(* A submission that ends with an error has sent none of its tasks left. *)
LEMMA ReturnAccount ==
  ASSUME ExecutorInv, AccountInv, NEW s \in Submitters, NEW result \in Errors, Return(s, result),
         pc[s] \in {"check", "select"},
         UNCHANGED <<taskChan, workerPC, holding, executed, queuedTasks>>
  PROVE  AccountInv'
<1>1. /\ pc' = [pc EXCEPT ![s] = "idle"] /\ todo' = [todo EXCEPT ![s] = <<>>]
      /\ outcome' = [t \in Tasks |-> IF InSeq(t, todo[s]) THEN result ELSE outcome[t]]
  BY Zenon DEF Return, Goto
<1>2. \A r \in Submitters : /\ todo'[r] = IF r = s THEN <<>> ELSE todo[r]
                            /\ pc'[r] = "count" <=> pc[r] = "count"
                            /\ pc'[r] = "idle" <=> pc[r] = "idle" \/ r = s
  BY Zenon, <1>1, AccountFacts
<1>3. \A t : ~InSeq(t, <<>>)
  BY DEF InSeq
<1>4. result \notin {"running", "nil", "none"}
  BY Zenon DEF Errors
<1>5. TodoInv'
  <2>1. \A r \in Submitters : NoDup(todo'[r]) /\ (pc'[r] = "idle" => todo'[r] = <<>>)
    BY <1>2, AccountFacts DEF TodoInv, NoDup
  <2>2. ASSUME NEW r \in Submitters, NEW q \in Submitters, r # q, NEW t \in Tasks
        PROVE  ~(InSeq(t, todo'[r]) /\ InSeq(t, todo'[q]))
    BY SMTT(60), <1>2, <1>3, <2>2, AccountFacts DEF TodoInv
  <2>3. ASSUME NEW t \in Tasks
        PROVE  outcome'[t] = "running" <=> \E r \in Submitters : InSeq(t, todo'[r])
    <3>1. CASE InSeq(t, todo[s])
      <4>1. \A r \in Submitters : ~InSeq(t, todo'[r])
        BY <1>2, <1>3, <3>1, AccountFacts DEF TodoInv
      <4> QED BY Zenon, <1>1, <1>4, <3>1, <4>1
    <3>2. CASE ~InSeq(t, todo[s])
      <4>1. outcome'[t] = outcome[t]
        BY Zenon, <1>1, <3>2
      <4>2. \A r \in Submitters : InSeq(t, todo'[r]) <=> InSeq(t, todo[r])
        BY Zenon, <1>2, <1>3, <3>2
      <4> QED BY Zenon, <4>1, <4>2, AccountFacts DEF TodoInv
    <3> QED BY Zenon, <3>1, <3>2
  <2> QED BY Zenon, <2>1, <2>2, <2>3 DEF TodoInv, InSeq, NoDup
<1>6. \A t \in Tasks : Held(t)' <=> Held(t)
  BY Zenon DEF Held
<1>7. \A t \in Tasks : Sent(t)' <=> Sent(t)
  BY Zenon, <1>2 DEF Sent
<1>8. \A t \in Tasks : outcome'[t] = "nil" <=> outcome[t] = "nil"
  BY Zenon, <1>1, <1>4, AccountFacts DEF TodoInv
<1>9. PlaceInv'
  BY Zenon, <1>6, <1>7, <1>8, AccountFacts DEF PlaceInv, InSeq, NoDup
<1>10. Counting' = Counting /\ Received' = Received
  BY Zenon, <1>2 DEF Counting, Received
<1>11. CounterInv'
  BY Zenon, <1>10, CounterDef, CounterDefPrime, AccountFacts
<1> QED BY Zenon, <1>5, <1>9, <1>11 DEF AccountInv

(* The head of a running submission's list is with no one else. *)
LEMMA HeadFacts ==
  ASSUME ExecutorInv, AccountInv, NEW s \in Submitters, pc[s] \in {"select", "count"}
  PROVE  /\ todo[s] \in Seq(Tasks) /\ todo[s] # <<>> /\ Head(todo[s]) \in Tasks
         /\ InSeq(Head(todo[s]), todo[s]) /\ outcome[Head(todo[s])] = "running"
         /\ \A r \in Submitters : r # s => ~InSeq(Head(todo[s]), todo[r])
         /\ \A r \in Submitters : r # s /\ pc[r] = "count" => Head(todo[r]) # Head(todo[s])
<1>1. todo[s] \in Seq(Tasks) /\ todo[s] # <<>>
  BY Zenon, AccountFacts
<1>2. Head(todo[s]) \in Tasks /\ InSeq(Head(todo[s]), todo[s])
  BY Zenon, <1>1, TailItems
<1>3. \A r \in Submitters : r # s => ~InSeq(Head(todo[s]), todo[r])
  BY Zenon, <1>2, AccountFacts DEF TodoInv
<1>4. outcome[Head(todo[s])] = "running"
  BY Zenon, <1>2, AccountFacts DEF TodoInv
<1>5. ASSUME NEW r \in Submitters, r # s, pc[r] = "count"
      PROVE  Head(todo[r]) # Head(todo[s])
  <2>1. todo[r] \in Seq(Tasks) /\ todo[r] # <<>>
    BY Zenon, <1>5, AccountFacts
  <2>2. InSeq(Head(todo[r]), todo[r])
    BY Zenon, <2>1, TailItems
  <2> QED BY Zenon, <2>2, <1>3, <1>5
<1> QED BY Zenon, <1>1, <1>2, <1>3, <1>4, <1>5

LEMMA SendAccount ==
  ASSUME ExecutorInv, AccountInv, NEW s \in Submitters, SelectSend(s)
  PROVE  AccountInv'
<1> DEFINE x == Head(todo[s])
<1>0. pc[s] = "select"
  BY Zenon DEF SelectSend
<1>1. CASE chanClosed
  <2>1. UNCHANGED <<taskChan, outcome, todo, holding, executed, queuedTasks, pc, workerPC>>
    BY Zenon, <1>1 DEF SelectSend, workVars
  <2> QED BY Zenon, <2>1, NeutralAccount
<1>2. CASE ~chanClosed
  <2>1. /\ taskChan' = Append(taskChan, x) /\ pc' = [pc EXCEPT ![s] = "count"]
        /\ UNCHANGED <<todo, outcome, workerPC, holding, executed, queuedTasks>>
    BY Zenon, <1>2 DEF SelectSend, Goto, workVars
  <2>2. \A r \in Submitters : /\ pc'[r] = "count" <=> pc[r] = "count" \/ r = s
                              /\ pc'[r] = "idle" => pc[r] = "idle"
    BY Zenon, <2>1, AccountFacts
  <2>3. TodoInv'
    BY Zenon, <2>1, <2>2, AccountFacts DEF TodoInv
  <2>4. x \in Tasks /\ outcome[x] = "running" /\ ~Sent(x)
    BY Zenon, <1>0, HeadFacts DEF Sent
  <2>5. ~InSeq(x, taskChan) /\ ~Held(x) /\ ~InSeq(x, executed)
    BY Zenon, <2>4, AccountFacts DEF PlaceInv
  <2>6. /\ NoDup(taskChan') /\ Len(taskChan') = Len(taskChan) + 1
        /\ \A t \in Tasks : InSeq(t, taskChan') <=> InSeq(t, taskChan) \/ t = x
    BY <2>1, <2>4, <2>5, AppendItems, AccountFacts DEF PlaceInv
  <2>7. \A t \in Tasks : Held(t)' <=> Held(t)
    BY Zenon, <2>1 DEF Held
  <2>8. \A t \in Tasks : Sent(t)' <=> Sent(t) \/ t = x
    BY Zenon, <2>1, <2>2 DEF Sent
  <2> HIDE DEF x
  <2>9. \A t \in Tasks :
          /\ ~(InSeq(t, taskChan') /\ Held(t)')
          /\ ~(InSeq(t, taskChan') /\ InSeq(t, executed'))
          /\ ~(Held(t)' /\ InSeq(t, executed'))
          /\ InSeq(t, taskChan') \/ Held(t)' \/ InSeq(t, executed') <=> outcome'[t] = "nil" \/ Sent(t)'
    BY Zenon, <2>1, <2>4, <2>5, <2>6, <2>7, <2>8, AccountFacts DEF PlaceInv
  <2>10. PlaceInv'
    BY Zenon, <2>1, <2>6, <2>9, AccountFacts DEF PlaceInv, InSeq, NoDup
  <2>11. Counting' = Counting \cup {s} /\ s \notin Counting /\ Received' = Received
    BY Zenon, <1>0, <2>1, <2>2 DEF Counting, Received
  <2>12. Cardinality(Counting') = Cardinality(Counting) + 1
    BY Zenon, <2>11, CountsFinite, FS_AddElement
  <2>13. CounterInv'
    BY <2>1, <2>6, <2>11, <2>12, CounterDef, CounterDefPrime, CountsFinite, AccountFacts, LenProperties
  <2> QED BY Zenon, <2>3, <2>10, <2>13 DEF AccountInv
<1> QED BY Zenon, <1>1, <1>2

LEMMA CountQueuedAccount ==
  ASSUME ExecutorInv, AccountInv, NEW s \in Submitters, CountQueued(s)
  PROVE  AccountInv'
<1> DEFINE x == Head(todo[s])
<1>0. pc[s] = "count"
  BY Zenon DEF CountQueued
<1>1. /\ outcome' = [outcome EXCEPT ![x] = "nil"] /\ todo' = [todo EXCEPT ![s] = Tail(@)]
      /\ pc' = [pc EXCEPT ![s] = IF Len(todo[s]) > 1 THEN "select" ELSE "idle"]
      /\ queuedTasks' = queuedTasks + 1
      /\ UNCHANGED <<taskChan, workerPC, holding, executed>>
  BY Zenon DEF CountQueued, Goto, chanVars, workVars
<1>2. /\ Tail(todo[s]) \in Seq(Tasks) /\ Len(Tail(todo[s])) = Len(todo[s]) - 1 /\ NoDup(Tail(todo[s]))
      /\ ~InSeq(x, Tail(todo[s])) /\ Len(todo[s]) \in Nat /\ Len(todo[s]) > 0
      /\ \A t \in Tasks : InSeq(t, todo[s]) <=> t = x \/ InSeq(t, Tail(todo[s]))
  BY Zenon, <1>0, HeadFacts, TailItems, AccountFacts, LenProperties DEF TodoInv
<1>3. ~(Len(todo[s]) > 1) => Tail(todo[s]) = <<>>
  BY <1>2, EmptySeq
<1>4. \A r \in Submitters : /\ todo'[r] = IF r = s THEN Tail(todo[s]) ELSE todo[r]
                            /\ pc'[r] = "count" <=> pc[r] = "count" /\ r # s
                            /\ pc'[r] = "idle" => IF r = s THEN ~(Len(todo[s]) > 1) ELSE pc[r] = "idle"
  BY Zenon, <1>1, AccountFacts
<1>5. /\ x \in Tasks /\ outcome[x] = "running" /\ \A r \in Submitters : r # s => ~InSeq(x, todo[r])
      /\ \A r \in Submitters : r # s /\ pc[r] = "count" => Head(todo[r]) # x
  BY Zenon, <1>0, HeadFacts
<1>6. /\ \A t \in Tasks : Sent(t)' <=> Sent(t) /\ t # x
      /\ Sent(x)
  BY Zenon, <1>0, <1>4, <1>5 DEF Sent
<1>7. \A t \in Tasks : outcome'[t] = IF t = x THEN "nil" ELSE outcome[t]
  BY Zenon, <1>1, <1>5, AccountFacts
<1> HIDE DEF x
<1>8. TodoInv'
  <2>1. \A r \in Submitters : NoDup(todo'[r]) /\ (pc'[r] = "idle" => todo'[r] = <<>>)
    BY Zenon, <1>2, <1>3, <1>4, AccountFacts DEF TodoInv
  <2>2. ASSUME NEW r \in Submitters, NEW q \in Submitters, r # q, NEW t \in Tasks
        PROVE  ~(InSeq(t, todo'[r]) /\ InSeq(t, todo'[q]))
    <3>1. \A p \in Submitters : InSeq(t, todo'[p]) => InSeq(t, todo[p])
      BY Zenon, <1>2, <1>4
    <3> QED BY Zenon, <2>2, <3>1, AccountFacts DEF TodoInv
  <2>3. ASSUME NEW t \in Tasks
        PROVE  outcome'[t] = "running" <=> \E r \in Submitters : InSeq(t, todo'[r])
    <3>1. CASE t = x
      <4>1. \A r \in Submitters : ~InSeq(t, todo'[r])
        BY Zenon, <1>2, <1>4, <1>5, <3>1
      <4> QED BY Zenon, <1>7, <3>1, <4>1
    <3>2. CASE t # x
      <4>1. \A r \in Submitters : InSeq(t, todo'[r]) <=> InSeq(t, todo[r])
        BY Zenon, <1>2, <1>4, <3>2
      <4> QED BY Zenon, <1>7, <3>2, <4>1, AccountFacts DEF TodoInv
    <3> QED BY Zenon, <3>1, <3>2
  <2> QED BY Zenon, <2>1, <2>2, <2>3 DEF TodoInv, InSeq, NoDup
<1>9. \A t \in Tasks : Held(t)' <=> Held(t)
  BY Zenon, <1>1 DEF Held
<1>10. \A t \in Tasks : (outcome'[t] = "nil" \/ Sent(t)') <=> (outcome[t] = "nil" \/ Sent(t))
  BY Zenon, <1>6, <1>7
<1>11. PlaceInv'
  BY Zenon, <1>1, <1>9, <1>10, AccountFacts DEF PlaceInv, InSeq, NoDup
<1>12. Counting' = Counting \ {s} /\ s \in Counting /\ Received' = Received
  BY Zenon, <1>0, <1>1, <1>4 DEF Counting, Received
<1>13. Cardinality(Counting') = Cardinality(Counting) - 1
  BY Zenon, <1>12, CountsFinite, FS_RemoveElement
<1>14. CounterInv'
  BY <1>1, <1>12, <1>13, CounterDef, CounterDefPrime, CountsFinite, AccountFacts, LenProperties
<1> QED BY Zenon, <1>8, <1>11, <1>14 DEF AccountInv

LEMMA ReceiveAccount ==
  ASSUME ExecutorInv, AccountInv, NEW w \in Workers, Receive(w)
  PROVE  AccountInv'
<1> DEFINE x == Head(taskChan)
<1>0. workerPC[w] = "select" /\ taskChan # <<>> /\ holding[w] = NoTask
  BY Zenon, AccountFacts DEF Receive, PlaceInv
<1>1. /\ holding' = [holding EXCEPT ![w] = x] /\ taskChan' = Tail(taskChan)
      /\ workerPC' = [workerPC EXCEPT ![w] = "received"]
      /\ UNCHANGED <<pc, todo, outcome, executed, queuedTasks>>
  BY Zenon DEF Receive, submitVars
<1>2. TodoInv'
  BY Zenon, <1>1, AccountFacts DEF TodoInv
<1>3. /\ x \in Tasks /\ InSeq(x, taskChan) /\ ~InSeq(x, Tail(taskChan))
      /\ NoDup(Tail(taskChan)) /\ Len(Tail(taskChan)) = Len(taskChan) - 1
      /\ \A t \in Tasks : InSeq(t, taskChan) <=> t = x \/ InSeq(t, Tail(taskChan))
  BY Zenon, <1>0, TailItems, AccountFacts DEF PlaceInv
<1> HIDE DEF x
<1>4. \A v \in Workers : /\ holding'[v] = IF v = w THEN x ELSE holding[v]
                         /\ workerPC'[v] = IF v = w THEN "received" ELSE workerPC[v]
  BY Zenon, <1>1, AccountFacts
<1>5. ~Held(x) /\ ~InSeq(x, executed) /\ x # NoTask
  BY Zenon, <1>3, AccountFacts, NoTaskAssumption DEF PlaceInv
<1>6. \A t \in Tasks : Held(t)' <=> Held(t) \/ t = x
  BY Zenon, <1>0, <1>4, NoTaskAssumption DEF Held
<1>7. \A t \in Tasks : Sent(t)' <=> Sent(t)
  BY Zenon, <1>1 DEF Sent
<1>8. \A u, v \in Workers : holding'[u] = holding'[v] /\ holding'[u] # NoTask => u = v
  BY SMTT(60), <1>4, <1>5, AccountFacts DEF PlaceInv, Held
<1>9. \A v \in Workers : workerPC'[v] \in {"select", "exited"} => holding'[v] = NoTask
  BY Zenon, <1>4, AccountFacts DEF PlaceInv
<1>10. \A t \in Tasks :
          /\ ~(InSeq(t, taskChan') /\ Held(t)')
          /\ ~(InSeq(t, taskChan') /\ InSeq(t, executed'))
          /\ ~(Held(t)' /\ InSeq(t, executed'))
          /\ InSeq(t, taskChan') \/ Held(t)' \/ InSeq(t, executed') <=> outcome'[t] = "nil" \/ Sent(t)'
  BY Zenon, <1>1, <1>3, <1>5, <1>6, <1>7, AccountFacts DEF PlaceInv
<1>11. PlaceInv'
  BY Zenon, <1>1, <1>3, <1>8, <1>9, <1>10, AccountFacts DEF PlaceInv, InSeq, NoDup
<1>12. Counting' = Counting /\ Received' = Received \cup {w} /\ w \notin Received
  BY Zenon, <1>0, <1>1, <1>4 DEF Counting, Received
<1>13. Cardinality(Received') = Cardinality(Received) + 1
  BY Zenon, <1>12, CountsFinite, FS_AddElement
<1>14. Len(taskChan') = Len(taskChan) - 1 /\ Len(taskChan) \in Nat
  BY Zenon, <1>1, <1>3, AccountFacts, LenProperties
<1>15. queuedTasks' = Len(taskChan) - Cardinality(Counting) + Cardinality(Received)
  BY Zenon, <1>1, CounterDef, AccountFacts
<1>16. Cardinality(Counting') = Cardinality(Counting)
  BY Zenon, <1>12
<1>17. queuedTasks' = Len(taskChan') - Cardinality(Counting') + Cardinality(Received')
  BY <1>13, <1>14, <1>15, <1>16, CountsFinite
<1>18. CounterInv'
  BY Zenon, <1>17, CounterDefPrime
<1> QED BY Zenon, <1>2, <1>11, <1>18 DEF AccountInv

LEMMA CountReceivedAccount ==
  ASSUME ExecutorInv, AccountInv, NEW w \in Workers, CountReceived(w)
  PROVE  AccountInv'
<1>1. /\ workerPC[w] = "received" /\ queuedTasks' = queuedTasks - 1
      /\ workerPC' = [workerPC EXCEPT ![w] = "execute"]
      /\ UNCHANGED <<taskChan, pc, todo, outcome, holding, executed>>
  BY Zenon DEF CountReceived, submitVars, chanVars
<1>2. TodoInv'
  BY Zenon, <1>1, AccountFacts DEF TodoInv
<1>3. \A v \in Workers : workerPC'[v] = IF v = w THEN "execute" ELSE workerPC[v]
  BY Zenon, <1>1, AccountFacts
<1>4. \A t \in Tasks : (Held(t)' <=> Held(t)) /\ (Sent(t)' <=> Sent(t))
  BY Zenon, <1>1 DEF Held, Sent
<1>5. PlaceInv'
  BY Zenon, <1>1, <1>3, <1>4, AccountFacts DEF PlaceInv, InSeq, NoDup
<1>6. Counting' = Counting /\ Received' = Received \ {w} /\ w \in Received
  BY <1>1, <1>3 DEF Counting, Received
<1>7. Cardinality(Received') = Cardinality(Received) - 1
  BY Zenon, <1>6, CountsFinite, FS_RemoveElement
<1>8. CounterInv'
  BY <1>1, <1>6, <1>7, CounterDef, CounterDefPrime, CountsFinite, AccountFacts, LenProperties
<1> QED BY Zenon, <1>2, <1>5, <1>8 DEF AccountInv

LEMMA ExecuteAccount ==
  ASSUME ExecutorInv, AccountInv, NEW w \in Workers, Execute(w)
  PROVE  AccountInv'
<1> DEFINE x == holding[w]
<1>1. /\ workerPC[w] = "execute" /\ executed' = Append(executed, x)
      /\ holding' = [holding EXCEPT ![w] = NoTask]
      /\ workerPC' = [workerPC EXCEPT ![w] = "select"]
      /\ UNCHANGED <<taskChan, pc, todo, outcome, queuedTasks>>
  BY Zenon DEF Execute, submitVars, chanVars
<1>2. TodoInv'
  BY Zenon, <1>1, AccountFacts DEF TodoInv
<1>3. x \in Tasks /\ x # NoTask /\ Held(x)
  BY Zenon, <1>1, NoTaskAssumption DEF ExecutorInv, HandsInv, Held
<1>4. ~InSeq(x, taskChan) /\ ~InSeq(x, executed)
  BY Zenon, <1>3, AccountFacts DEF PlaceInv
<1>5. /\ NoDup(executed')
      /\ \A t \in Tasks : InSeq(t, executed') <=> InSeq(t, executed) \/ t = x
  BY <1>1, <1>3, <1>4, AppendItems, AccountFacts DEF PlaceInv
<1>6. \A v \in Workers : /\ holding'[v] = IF v = w THEN NoTask ELSE holding[v]
                         /\ workerPC'[v] = IF v = w THEN "select" ELSE workerPC[v]
  BY Zenon, <1>1, AccountFacts
<1>7. \A v \in Workers : holding[v] = x => v = w
  BY Zenon, <1>3, AccountFacts DEF PlaceInv
<1>8. \A t \in Tasks : Held(t)' <=> Held(t) /\ t # x
  BY Zenon, <1>6, <1>7, NoTaskAssumption DEF Held
<1> HIDE DEF x
<1>9. \A t \in Tasks : Sent(t)' <=> Sent(t)
  BY Zenon, <1>1 DEF Sent
<1>10. \A u, v \in Workers : holding'[u] = holding'[v] /\ holding'[u] # NoTask => u = v
  BY Zenon, <1>6, AccountFacts DEF PlaceInv
<1>11. \A v \in Workers : workerPC'[v] \in {"select", "exited"} => holding'[v] = NoTask
  BY Zenon, <1>6, AccountFacts DEF PlaceInv
<1>12. \A t \in Tasks :
          /\ ~(InSeq(t, taskChan') /\ Held(t)')
          /\ ~(InSeq(t, taskChan') /\ InSeq(t, executed'))
          /\ ~(Held(t)' /\ InSeq(t, executed'))
          /\ InSeq(t, taskChan') \/ Held(t)' \/ InSeq(t, executed') <=> outcome'[t] = "nil" \/ Sent(t)'
  BY Zenon, <1>1, <1>3, <1>4, <1>5, <1>8, <1>9, AccountFacts DEF PlaceInv
<1>13. PlaceInv'
  BY Zenon, <1>1, <1>5, <1>10, <1>11, <1>12, AccountFacts DEF PlaceInv, InSeq, NoDup
<1>14. Counting' = Counting /\ Received' = Received
  BY <1>1, <1>6 DEF Counting, Received
<1>15. CounterInv'
  BY Zenon, <1>1, <1>14, CounterDef, CounterDefPrime, AccountFacts
<1> QED BY Zenon, <1>2, <1>13, <1>15 DEF AccountInv

LEMMA SubmitAccount ==
  ASSUME ExecutorInv, AccountInv, NEW s \in Submitters, SubmitStep(s)
  PROVE  AccountInv'
<1>1. CASE RLock(s)
  <2>1. /\ UNCHANGED <<taskChan, outcome, todo, holding, executed, queuedTasks, workerPC>>
        /\ pc[s] = "rlock" /\ pc' = [pc EXCEPT ![s] = "check"]
    BY Zenon, <1>1 DEF RLock, Goto, chanVars, workVars
  <2>2. \A r \in Submitters : (pc'[r] = "count" <=> pc[r] = "count") /\ (pc'[r] = "idle" => pc[r] = "idle")
    BY Zenon, <2>1, AccountFacts
  <2> QED BY Zenon, <2>1, <2>2, NeutralAccount
<1>2. CASE CheckClosed(s)
  <2>1. /\ UNCHANGED <<taskChan, holding, executed, queuedTasks, workerPC>>
        /\ pc[s] = "check"
    BY Zenon, <1>2 DEF CheckClosed, chanVars, workVars
  <2>2. CASE closed
    <3>1. Return(s, "closed") /\ "closed" \in Errors
      BY Zenon, <1>2, <2>2 DEF CheckClosed, Errors
    <3> QED BY Zenon, <2>1, <3>1, ReturnAccount
  <2>3. CASE ~closed
    <3>1. pc' = [pc EXCEPT ![s] = "select"] /\ UNCHANGED <<todo, outcome>>
      BY Zenon, <1>2, <2>3 DEF CheckClosed, Goto
    <3>2. \A r \in Submitters : (pc'[r] = "count" <=> pc[r] = "count") /\ (pc'[r] = "idle" => pc[r] = "idle")
      BY Zenon, <2>1, <3>1, AccountFacts
    <3> QED BY Zenon, <2>1, <3>1, <3>2, NeutralAccount
  <2> QED BY Zenon, <2>2, <2>3
<1>3. CASE SelectDone(s) \/ SelectDefault(s) \/ SelectTimeout(s)
  <2>1. PICK result \in Errors : Return(s, result)
    BY Zenon, <1>3 DEF SelectDone, SelectDefault, SelectTimeout, Errors
  <2>2. UNCHANGED <<taskChan, holding, executed, queuedTasks, workerPC>> /\ pc[s] = "select"
    BY Zenon, <1>3 DEF SelectDone, SelectDefault, SelectTimeout, chanVars, workVars
  <2> QED BY Zenon, <2>1, <2>2, ReturnAccount
<1> QED BY Zenon, <1>1, <1>2, <1>3, SendAccount, CountQueuedAccount DEF SubmitStep

LEMMA WorkerAccount ==
  ASSUME ExecutorInv, AccountInv, NEW w \in Workers, WorkerStep(w)
  PROVE  AccountInv'
<1>1. CASE WorkerExit(w)
  <2>1. /\ UNCHANGED <<taskChan, outcome, todo, holding, executed, queuedTasks, pc>>
        /\ workerPC[w] = "select" /\ workerPC' = [workerPC EXCEPT ![w] = "exited"]
    BY Zenon, <1>1 DEF WorkerExit, submitVars, chanVars
  <2>2. \A v \in Workers : /\ workerPC'[v] = "received" <=> workerPC[v] = "received"
                           /\ workerPC'[v] \in {"select", "exited"} => workerPC[v] \in {"select", "exited"}
    BY Zenon, <2>1, AccountFacts
  <2> QED BY Zenon, <2>1, <2>2, NeutralAccount
<1> QED BY Zenon, <1>1, ReceiveAccount, CountReceivedAccount, ExecuteAccount DEF WorkerStep

LEMMA AccountInit == NewExecutor => AccountInv
<1> SUFFICES ASSUME NewExecutor PROVE AccountInv
  BY Zenon
<1>1. /\ taskChan = <<>> /\ executed = <<>> /\ queuedTasks = 0
      /\ pc = [s \in Submitters |-> "idle"] /\ todo = [s \in Submitters |-> <<>>]
      /\ outcome = [t \in Tasks |-> "none"] /\ workerPC = [w \in Workers |-> "select"]
      /\ holding = [w \in Workers |-> NoTask]
  BY Zenon DEF NewExecutor
<1>2. \A t : ~InSeq(t, <<>>)
  BY DEF InSeq
<1>3. NoDup(<<>>)
  BY DEF NoDup
<1>4. TodoInv
  BY Zenon, <1>1, <1>2, <1>3 DEF TodoInv
<1>5. \A t \in Tasks : ~Held(t) /\ ~Sent(t)
  BY Zenon, <1>1, NoTaskAssumption DEF Held, Sent
<1>6. PlaceInv
  BY Zenon, <1>1, <1>2, <1>3, <1>5 DEF PlaceInv
<1>7. Counting = {} /\ Received = {}
  BY Zenon, <1>1 DEF Counting, Received
<1>8. CounterInv
  BY <1>1, <1>7, CounterDef, FS_EmptySet
<1> QED BY Zenon, <1>4, <1>6, <1>8 DEF AccountInv

LEMMA AccountStep == ExecutorInv /\ AccountInv /\ [Next]_vars => AccountInv'
<1> SUFFICES ASSUME ExecutorInv, AccountInv, [Next]_vars PROVE AccountInv'
  BY Zenon
<1>1. ASSUME NEW s \in Submitters, NEW op \in Calls, NEW tasks \in Arguments(op), Begin(s, op, tasks)
      PROVE  AccountInv'
  BY Zenon, <1>1, BeginAccount
<1>2. ASSUME NEW s \in Submitters, SubmitStep(s) PROVE AccountInv'
  BY Zenon, <1>2, SubmitAccount
<1>3. ASSUME NEW w \in Workers, WorkerStep(w) PROVE AccountInv'
  BY Zenon, <1>3, WorkerAccount
<1>4. CASE ParentCancel \/ (\E c \in Closers : Shutdown(c) \/ ShutdownStep(c)) \/ UNCHANGED vars
  <2>1. UNCHANGED <<taskChan, outcome, todo, holding, executed, queuedTasks, pc, workerPC>>
    BY Zenon, <1>4 DEF ParentCancel, Shutdown, ShutdownStep, LockRequest, LockAndCancel, CloseChan, WorkersDone,
                ShutdownTimeout, chanVars, submitVars, workVars, vars
  <2> QED BY Zenon, <2>1, NeutralAccount
<1> QED BY Zenon, <1>1, <1>2, <1>3, <1>4 DEF Next

(* Every step of submitters, workers and Shutdowns keeps a task in at most  *)
(* one place, and the counter behind Stats as far from the length of the    *)
(* queue as there are goroutines between their two operations.              *)
THEOREM AccountInvariant == Spec => []AccountInv
BY AccountInit, AccountStep, ExecutorInvariant, PTL DEF Spec

(* The places of t in a sequence without repetitions. *)
LEMMA PlacesOf ==
  ASSUME NEW q \in Seq(Tasks), NoDup(q), NEW t
  PROVE  Cardinality({i \in DOMAIN q : q[i] = t}) = IF InSeq(t, q) THEN 1 ELSE 0
<1>1. CASE InSeq(t, q)
  <2>1. PICK i \in DOMAIN q : q[i] = t
    BY Zenon, <1>1 DEF InSeq
  <2>2. {j \in DOMAIN q : q[j] = t} = {i}
    BY Zenon, <2>1 DEF NoDup
  <2> QED BY Zenon, <1>1, <2>2, FS_Singleton
<1>2. CASE ~InSeq(t, q)
  <2>1. {j \in DOMAIN q : q[j] = t} = {}
    BY Zenon, <1>2 DEF InSeq
  <2> QED BY Zenon, <1>2, <2>1, FS_EmptySet
<1> QED BY Zenon, <1>1, <1>2

LEMMA HandsOf ==
  ASSUME PlaceInv, NEW t \in Tasks
  PROVE  Cardinality({w \in Workers : holding[w] = t}) = IF Held(t) THEN 1 ELSE 0
<1>1. CASE Held(t)
  <2>1. PICK w \in Workers : holding[w] = t
    BY Zenon, <1>1 DEF Held
  <2>2. {v \in Workers : holding[v] = t} = {w}
    BY Zenon, <2>1, NoTaskAssumption DEF PlaceInv
  <2> QED BY Zenon, <1>1, <2>2, FS_Singleton
<1>2. CASE ~Held(t)
  <2>1. {v \in Workers : holding[v] = t} = {}
    BY Zenon, <1>2 DEF Held
  <2> QED BY Zenon, <1>2, <2>1, FS_EmptySet
<1> QED BY Zenon, <1>1, <1>2

(* A task told nil is queued, held or executed, in one place and once; a    *)
(* task told an error is nowhere.  For any number of submitters, workers,   *)
(* tasks and Shutdowns, and any queue size.                                 *)
THEOREM TasksStayAccounted == Spec => []EveryTaskAccounted
<1>1. ExecutorInv /\ AccountInv => EveryTaskAccounted
  <2> SUFFICES ASSUME ExecutorInv, AccountInv PROVE EveryTaskAccounted
    BY Zenon
  <2>1. queuedTasks = Len(taskChan) - Cardinality({s \in Submitters : pc[s] = "count"})
                                    + Cardinality({w \in Workers : workerPC[w] = "received"})
    BY Zenon DEF AccountInv, CounterInv
  <2>2. ASSUME NEW t \in Tasks
        PROVE  LET queued == {i \in DOMAIN taskChan : taskChan[i] = t}
                   held == {w \in Workers : holding[w] = t}
                   ended == {i \in DOMAIN executed : executed[i] = t}
                   places == Cardinality(queued) + Cardinality(held) + Cardinality(ended)
               IN  /\ outcome[t] = "nil" => places = 1
                   /\ outcome[t] \in Errors \cup {"none"} => places = 0
    <3> DEFINE queued == Cardinality({i \in DOMAIN taskChan : taskChan[i] = t})
               held == Cardinality({w \in Workers : holding[w] = t})
               ended == Cardinality({i \in DOMAIN executed : executed[i] = t})
    <3>1. /\ queued = IF InSeq(t, taskChan) THEN 1 ELSE 0
          /\ held = IF Held(t) THEN 1 ELSE 0
          /\ ended = IF InSeq(t, executed) THEN 1 ELSE 0
      BY PlacesOf, HandsOf, AccountFacts DEF PlaceInv
    <3>2. Sent(t) => outcome[t] = "running"
      BY Zenon, HeadFacts DEF Sent
    <3>3. /\ ~(InSeq(t, taskChan) /\ Held(t)) /\ ~(InSeq(t, taskChan) /\ InSeq(t, executed))
          /\ ~(Held(t) /\ InSeq(t, executed))
          /\ InSeq(t, taskChan) \/ Held(t) \/ InSeq(t, executed) <=> outcome[t] = "nil" \/ Sent(t)
      BY Zenon, AccountFacts DEF PlaceInv
    <3> HIDE DEF queued, held, ended
    <3>4. /\ outcome[t] = "nil" => queued + held + ended = 1
          /\ outcome[t] \in Errors \cup {"none"} => queued + held + ended = 0
      BY <3>1, <3>2, <3>3 DEF Errors
    <3> QED BY Zenon, <3>4 DEF queued, held, ended
  <2> QED BY <2>1, <2>2, Zenon DEF EveryTaskAccounted
<1> QED BY <1>1, ExecutorInvariant, AccountInvariant, PTL
=============================================================================
