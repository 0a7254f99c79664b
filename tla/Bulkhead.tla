------------------------------ MODULE Bulkhead ------------------------------
(***************************************************************************)
(* pkg/core/resilience/bulkhead: at most MaxConcurrency executions at a    *)
(* time.  A call that finds the semaphore full leaves its function in the  *)
(* queue; the queue processor waits for a slot on its behalf and runs the  *)
(* function in a goroutine of its own, which outlives a caller that leaves *)
(* because its context is done.  With MaxQueueSize = 0 there is no queue   *)
(* and no processor.                                                       *)
(***************************************************************************)
EXTENDS Naturals, Sequences, FiniteSets

CONSTANTS Calls,            \* the calls of Execute, each made once
          NoCall,
          MaxConcurrency,
          MaxQueueSize,
          QueueTimeout,     \* TRUE: QueueTimeout > 0, and may pass at any time
          Impatient         \* the calls whose context may end

ASSUME BulkheadAssumption ==
  /\ IsFiniteSet(Calls) /\ NoCall \notin Calls /\ MaxConcurrency \in Nat /\ MaxQueueSize \in Nat

VARIABLES semaphore,   \* how many tokens it holds
          bulkQueue,   \* the queued calls
          processor,   \* "receiving", "holding" or "stopped"
          slotHeld,    \* the call the processor received
          bulkPC,      \* where each call is
          execution,   \* "none", "running" or "done": the function of the call
          bulkResult,  \* resultCh: "empty", "ran" or "refused"
          bulkCtxDone, bulkStopped

bulkVars == <<semaphore, bulkQueue, processor, slotHeld, bulkPC, execution, bulkResult, bulkCtxDone, bulkStopped>>

NewBulkhead ==
  /\ semaphore = 0 /\ bulkQueue = <<>> /\ slotHeld = NoCall /\ bulkStopped = FALSE
  /\ processor = IF MaxQueueSize > 0 THEN "receiving" ELSE "stopped"
  /\ bulkPC = [c \in Calls |-> "new"]
  /\ execution = [c \in Calls |-> "none"]
  /\ bulkResult = [c \in Calls |-> "empty"]
  /\ bulkCtxDone = [c \in Calls |-> FALSE]

BulkGoto(c, pc) == bulkPC' = [bulkPC EXCEPT ![c] = pc]

ContextEnds(c) ==
  /\ c \in Impatient /\ ~bulkCtxDone[c] /\ bulkCtxDone' = [bulkCtxDone EXCEPT ![c] = TRUE]
  /\ UNCHANGED <<semaphore, bulkQueue, processor, slotHeld, bulkPC, execution, bulkResult, bulkStopped>>

\* The select on the semaphore, the context and the default.
ExecuteNow(c) ==
  /\ bulkPC[c] = "new" /\ semaphore < MaxConcurrency
  /\ semaphore' = semaphore + 1
  /\ execution' = [execution EXCEPT ![c] = "running"]
  /\ BulkGoto(c, "executing")
  /\ UNCHANGED <<bulkQueue, processor, slotHeld, bulkResult, bulkCtxDone, bulkStopped>>

ExecuteCancelled(c) ==
  /\ bulkPC[c] = "new" /\ bulkCtxDone[c] /\ BulkGoto(c, "refused")
  /\ UNCHANGED <<semaphore, bulkQueue, processor, slotHeld, execution, bulkResult, bulkCtxDone, bulkStopped>>

FoundFull(c) ==
  /\ bulkPC[c] = "new" /\ semaphore = MaxConcurrency /\ ~bulkCtxDone[c]
  /\ BulkGoto(c, IF MaxQueueSize > 0 THEN "full" ELSE "refused")
  /\ UNCHANGED <<semaphore, bulkQueue, processor, slotHeld, execution, bulkResult, bulkCtxDone, bulkStopped>>

ExecuteWithQueue(c) ==
  /\ bulkPC[c] = "full"
  /\ IF Len(bulkQueue) < MaxQueueSize
     THEN bulkQueue' = Append(bulkQueue, c) /\ BulkGoto(c, "queued")
     ELSE BulkGoto(c, "refused") /\ UNCHANGED bulkQueue
  /\ UNCHANGED <<semaphore, processor, slotHeld, execution, bulkResult, bulkCtxDone, bulkStopped>>

TakeResult(c) ==
  /\ bulkPC[c] = "queued" /\ bulkResult[c] # "empty"
  /\ BulkGoto(c, IF bulkResult[c] = "ran" THEN "returned" ELSE "refused")
  /\ UNCHANGED <<semaphore, bulkQueue, processor, slotHeld, execution, bulkResult, bulkCtxDone, bulkStopped>>

\* Mutant: a caller that leaves is told its function was refused.
LeaveRefused(c) ==
  /\ bulkPC[c] = "queued" /\ bulkCtxDone[c] /\ BulkGoto(c, "refused")
  /\ UNCHANGED <<semaphore, bulkQueue, processor, slotHeld, execution, bulkResult, bulkCtxDone, bulkStopped>>

LeaveQueue(c) ==
  /\ bulkPC[c] = "queued" /\ bulkCtxDone[c] /\ BulkGoto(c, "left")
  /\ UNCHANGED <<semaphore, bulkQueue, processor, slotHeld, execution, bulkResult, bulkCtxDone, bulkStopped>>

\* Mutant: the slot of a queued function is given back by its caller, when there still is one.
FinishForCaller(c) ==
  /\ execution[c] = "running" /\ execution' = [execution EXCEPT ![c] = "done"]
  /\ semaphore' = IF bulkPC[c] = "left" THEN semaphore ELSE semaphore - 1
  /\ IF bulkPC[c] = "executing"
     THEN BulkGoto(c, "returned") /\ UNCHANGED bulkResult
     ELSE bulkResult' = [bulkResult EXCEPT ![c] = "ran"] /\ UNCHANGED bulkPC
  /\ UNCHANGED <<bulkQueue, processor, slotHeld, bulkCtxDone, bulkStopped>>

\* The function returns: the result is sent, and the slot given back.
ExecuteWithSemaphore(c) ==
  /\ execution[c] = "running" /\ execution' = [execution EXCEPT ![c] = "done"]
  /\ semaphore' = semaphore - 1
  /\ IF bulkPC[c] = "executing"
     THEN BulkGoto(c, "returned") /\ UNCHANGED bulkResult
     ELSE bulkResult' = [bulkResult EXCEPT ![c] = "ran"] /\ UNCHANGED bulkPC
  /\ UNCHANGED <<bulkQueue, processor, slotHeld, bulkCtxDone, bulkStopped>>

\* queueProcessor.
ProcessorReceives ==
  /\ processor = "receiving" /\ bulkQueue # <<>>
  /\ processor' = "holding" /\ slotHeld' = Head(bulkQueue) /\ bulkQueue' = Tail(bulkQueue)
  /\ UNCHANGED <<semaphore, bulkPC, execution, bulkResult, bulkCtxDone, bulkStopped>>

ProcessorStops ==
  /\ processor = "receiving" /\ bulkStopped /\ processor' = "stopped"
  /\ UNCHANGED <<semaphore, bulkQueue, slotHeld, bulkPC, execution, bulkResult, bulkCtxDone, bulkStopped>>

ProcessorExecutes ==
  /\ processor = "holding" /\ semaphore < MaxConcurrency
  /\ semaphore' = semaphore + 1
  /\ execution' = [execution EXCEPT ![slotHeld] = "running"]
  /\ processor' = "receiving" /\ slotHeld' = NoCall
  /\ UNCHANGED <<bulkQueue, bulkPC, bulkResult, bulkCtxDone, bulkStopped>>

\* Mutant: a request that waited too long is dropped without an answer.
ProcessorDrops ==
  /\ processor = "holding" /\ slotHeld' = NoCall
  /\ \/ (bulkCtxDone[slotHeld] \/ QueueTimeout) /\ processor' = "receiving"
     \/ bulkStopped /\ processor' = "stopped"
  /\ UNCHANGED <<semaphore, bulkQueue, bulkPC, execution, bulkResult, bulkCtxDone, bulkStopped>>

ProcessorRefuses ==
  /\ processor = "holding"
  /\ \/ (bulkCtxDone[slotHeld] \/ QueueTimeout) /\ processor' = "receiving"
     \/ bulkStopped /\ processor' = "stopped"
  /\ bulkResult' = [bulkResult EXCEPT ![slotHeld] = "refused"] /\ slotHeld' = NoCall
  /\ UNCHANGED <<semaphore, bulkQueue, bulkPC, execution, bulkCtxDone, bulkStopped>>

\* Stop, up to its wait for the processor.
StopBulkhead ==
  /\ ~bulkStopped /\ bulkStopped' = TRUE
  /\ UNCHANGED <<semaphore, bulkQueue, processor, slotHeld, bulkPC, execution, bulkResult, bulkCtxDone>>

CallGoes(c) ==
  \/ ExecuteNow(c) \/ ExecuteCancelled(c) \/ FoundFull(c) \/ ExecuteWithQueue(c)
  \/ TakeResult(c) \/ LeaveQueue(c)
ProcessorStep == ProcessorReceives \/ ProcessorStops \/ ProcessorExecutes \/ ProcessorRefuses

BulkheadNext ==
  \/ \E c \in Calls : CallGoes(c) \/ ContextEnds(c) \/ ExecuteWithSemaphore(c)
  \/ ProcessorStep \/ StopBulkhead

BulkheadSpec ==
  /\ NewBulkhead /\ [][BulkheadNext]_bulkVars /\ WF_bulkVars(ProcessorStep)
  /\ \A c \in Calls : WF_bulkVars(CallGoes(c)) /\ WF_bulkVars(ExecuteWithSemaphore(c))
-----------------------------------------------------------------------------
Running == {c \in Calls : execution[c] = "running"}

(***************************************************************************)
(* The semaphore counts exactly the functions that run, so that at most    *)
(* MaxConcurrency of them run at a time and no slot is lost, also when the *)
(* caller left its function in the queue.                                  *)
(***************************************************************************)
SlotsMatchRunning == semaphore = Cardinality(Running) /\ semaphore <= MaxConcurrency

(***************************************************************************)
(* A call is answered with its own outcome: one that returned ran its      *)
(* function to the end, and one that was refused did not and will not run. *)
(***************************************************************************)
BulkheadTellsTruth ==
  \A c \in Calls : /\ bulkPC[c] = "returned" => execution[c] = "done"
                   /\ bulkPC[c] = "refused" => execution[c] = "none"

(* The inductive invariant behind both: a call that waits in the queue or  *)
(* in the hands of the processor waits there once, and has not run.        *)
BulkTypeOK ==
  /\ semaphore \in Nat /\ bulkQueue \in Seq(Calls)
  /\ processor \in {"receiving", "holding", "stopped"} /\ slotHeld \in Calls \cup {NoCall}
  /\ bulkPC \in [Calls -> {"new", "executing", "full", "queued", "left", "returned", "refused"}]
  /\ execution \in [Calls -> {"none", "running", "done"}]
  /\ bulkResult \in [Calls -> {"empty", "ran", "refused"}]

Pending(c) == bulkPC[c] \in {"queued", "left"} /\ execution[c] = "none" /\ bulkResult[c] = "empty"

QueueInv ==
  /\ \A i \in 1 .. Len(bulkQueue) : Pending(bulkQueue[i]) /\ bulkQueue[i] # slotHeld
  /\ \A i, j \in 1 .. Len(bulkQueue) : bulkQueue[i] = bulkQueue[j] => i = j
  /\ IF processor = "holding" THEN slotHeld \in Calls /\ Pending(slotHeld) ELSE slotHeld = NoCall

CallsInv ==
  \A c \in Calls :
    /\ bulkPC[c] \in {"new", "full"} => execution[c] = "none" /\ bulkResult[c] = "empty"
    /\ bulkPC[c] = "executing" => execution[c] = "running" /\ bulkResult[c] = "empty"
    /\ execution[c] = "running" => bulkPC[c] \in {"executing", "queued", "left"} /\ bulkResult[c] = "empty"
    /\ bulkResult[c] = "ran" => execution[c] = "done"
    /\ bulkResult[c] = "refused" => execution[c] = "none"

BulkInv == BulkTypeOK /\ QueueInv /\ CallsInv /\ SlotsMatchRunning /\ BulkheadTellsTruth

(***************************************************************************)
(* Until the bulkhead is stopped, every call comes to an end when the      *)
(* functions do: a waiting caller never depends on a slot nobody frees.    *)
(***************************************************************************)
CallEnds ==
  \A c \in Calls : []<>(bulkPC[c] # "queued" \/ bulkStopped)
=============================================================================
