------------------------------ MODULE Workflow ------------------------------
(***************************************************************************)
(* One execution of the workflow engine of pkg/workflow/engine.go: every   *)
(* node runs in a goroutine of its own (a task), starts the nodes that     *)
(* follow it, and takes itself off activeNodes; whoever finds activeNodes  *)
(* empty completes the execution.  A step is one critical section.         *)
(***************************************************************************)
EXTENDS Integers, Sequences, FiniteSets

CONSTANTS
  Workflows,    \* the definitions: [nodes, type, next, trueNext, falseNext, onError, cases, retries, mode]
  Cancellable,  \* bound: those for which CancelExecution and CleanupOldExecutions are called
  Messaged,     \* bound: those for which messages to workflow.<id>.node.<id> are sent
  MaxMessages   \* bound: how many

VARIABLES
  wf,         \* the *WorkflowDefinition
  wfStatus,   \* state.Status, "none" before ExecuteWorkflow and "gone" after CleanupOldExecutions
  toStart,    \* start nodes startExecution has still to start
  wfActive,   \* activeNodes[executionID]
  cancelFunc, \* execContexts holds the execution
  ctxDone,    \* the context of the execution is cancelled
  received,   \* mergeStates: inputs received by each merge node, 0 for no entry
  wfErrors,   \* len(execCtx.Errors)
  nodeTasks,      \* the calls of executeNode
  cancelPC,   \* CancelExecution: "idle", "cancel", "returned"
  messages    \* history: how many node messages were handled

wfVars == <<wf, wfStatus, toStart, wfActive, cancelFunc, ctxDone, received, wfErrors, nodeTasks, cancelPC, messages>>

Edges(d, n) == {m \in d.nodes : n \in d.next[m]} \X {"next"} \cup {m \in d.nodes : n \in d.trueNext[m]} \X {"true"}
                 \cup {m \in d.nodes : n \in d.falseNext[m]} \X {"false"}

IsStartNode(d, n) == d.type[n] = "trigger" \/ Edges(d, n) = {}

NewEngine ==
  /\ wf \in Workflows
  /\ wfStatus = "none" /\ toStart = {} /\ wfActive = {} /\ cancelFunc = FALSE /\ ctxDone = FALSE
  /\ received = [n \in wf.nodes |-> 0] /\ wfErrors = 0 /\ nodeTasks = <<>> /\ cancelPC = "idle" /\ messages = 0

(* RegisterWorkflow refuses a definition with no node or an edge to an unknown one. *)
RegisterWorkflow(d) ==
  /\ d.nodes # {}
  /\ \A n \in d.nodes : d.next[n] \cup d.trueNext[n] \cup d.falseNext[n] \subseteq d.nodes

-----------------------------------------------------------------------------
(* A goroutine: own is whether its context is the execution's; after a check *)
(* of completion it goes on at ret.                                          *)
Task(n, own) == [node |-> n, own |-> own, pc |-> "start", tries |-> 0, todo |-> {}, failed |-> FALSE, ret |-> "done"]

StartExecution ==
  /\ wfStatus = "none" /\ RegisterWorkflow(wf)
  /\ wfStatus' = "running" /\ cancelFunc' = TRUE
  /\ toStart' = {n \in wf.nodes : IsStartNode(wf, n)}
  /\ UNCHANGED <<wf, wfActive, ctxDone, received, wfErrors, nodeTasks, cancelPC, messages>>

StartNode(n) ==
  /\ n \in toStart
  /\ toStart' = toStart \ {n}
  /\ wfActive' = wfActive \cup {n}
  /\ nodeTasks' = Append(nodeTasks, Task(n, TRUE))
  /\ UNCHANGED <<wf, wfStatus, cancelFunc, ctxDone, received, wfErrors, cancelPC, messages>>

(* handleNodeExecution: the node runs in the message's context, and is not active. *)
HandleNodeExecution(n) ==
  /\ wfStatus \notin {"none", "gone"} /\ wf \in Messaged /\ messages < MaxMessages
  /\ messages' = messages + 1
  /\ nodeTasks' = Append(nodeTasks, Task(n, FALSE))
  /\ UNCHANGED <<wf, wfStatus, toStart, wfActive, cancelFunc, ctxDone, received, wfErrors, cancelPC>>

-----------------------------------------------------------------------------
(* executeNode.                                                            *)

At(t, pc) == t \in DOMAIN nodeTasks /\ nodeTasks[t].pc = pc

Goto(t, pc) == nodeTasks' = [nodeTasks EXCEPT ![t].pc = pc]

Cancelled(t) == nodeTasks[t].own /\ ctxDone

(* The context is checked before every attempt, the registry before the first. *)
ExecuteNode(t) ==
  /\ At(t, "start")
  /\ IF wf.type[nodeTasks[t].node] = "unknown" /\ ~Cancelled(t)
       THEN wfErrors' = wfErrors + 1 /\ Goto(t, "inactive")
       ELSE Goto(t, IF Cancelled(t) THEN "inactive" ELSE "handling") /\ UNCHANGED wfErrors
  /\ UNCHANGED <<wf, wfStatus, toStart, wfActive, cancelFunc, ctxDone, received, cancelPC, messages>>

HandlerFails(t) ==
  /\ At(t, "handling")
  /\ nodeTasks' = [nodeTasks EXCEPT ![t].tries = @ + 1,
                     ![t].pc = IF nodeTasks[t].tries + 1 < wf.retries[nodeTasks[t].node] THEN "start" ELSE "error"]
  /\ UNCHANGED <<wf, wfStatus, toStart, wfActive, cancelFunc, ctxDone, received, wfErrors, cancelPC, messages>>

(* determineNextNodes: the nodes a switch names, the branch of a condition, or Next. *)
DetermineNextNodes(n) ==
  (wf.cases[n] \ {{}}) \cup (IF wf.type[n] = "condition" THEN {wf.trueNext[n], wf.falseNext[n]} ELSE {wf.next[n]})

HandlerReturns(t) ==
  /\ At(t, "handling")
  /\ \/ \E ns \in DetermineNextNodes(nodeTasks[t].node) :
          nodeTasks' = [nodeTasks EXCEPT ![t].todo = ns, ![t].pc = IF ns = {} THEN "check" ELSE "next", ![t].ret = "inactive"]
     \/ /\ wf.type[nodeTasks[t].node] = "stop"
        /\ nodeTasks' = [nodeTasks EXCEPT ![t].pc = "complete", ![t].ret = "inactive"]
  /\ UNCHANGED <<wf, wfStatus, toStart, wfActive, cancelFunc, ctxDone, received, wfErrors, cancelPC, messages>>

HandleError(t) ==
  /\ At(t, "error")
  /\ wfErrors' = wfErrors + 1
  /\ LET handlers == wf.onError[nodeTasks[t].node] \cap wf.nodes
     IN  nodeTasks' = [nodeTasks EXCEPT ![t].todo = handlers, ![t].ret = "inactive",
                         ![t].pc = CASE wf.onError[nodeTasks[t].node] = {} -> "check"
                                 [] handlers = {} -> "inactive"
                                 [] OTHER -> "onError"]
  /\ UNCHANGED <<wf, wfStatus, toStart, wfActive, cancelFunc, ctxDone, received, cancelPC, messages>>

(* One node of the loop has been handled. *)
Handled(t, n) ==
  LET rest == nodeTasks[t].todo \ {n} IN
  [nodeTasks EXCEPT ![t].todo = rest, ![t].pc = IF rest = {} THEN "inactive" ELSE @]

(* Mutant: the node that follows is not marked active. *)
StartNextUnmarked(t, n) ==
  /\ nodeTasks' = Append(Handled(t, n), Task(n, nodeTasks[t].own))
  /\ UNCHANGED wfActive

(* markNodeActive and go executeNode. *)
StartNext(t, n) ==
  /\ wfActive' = wfActive \cup {n}
  /\ nodeTasks' = Append(Handled(t, n), Task(n, nodeTasks[t].own))

OnError(t, n) ==
  /\ At(t, "onError") /\ n \in nodeTasks[t].todo
  /\ StartNext(t, n)
  /\ UNCHANGED <<wf, wfStatus, toStart, cancelFunc, ctxDone, received, wfErrors, cancelPC, messages>>

(* handleMergeInput: the merge node is started, but not marked active, when *)
(* enough inputs are there; a mode it does not know never starts it.        *)
MergeReady(n) ==
  CASE wf.mode[n] = "waitAll" -> received[n] + 1 >= Cardinality(Edges(wf, n))
    [] wf.mode[n] = "waitAny" -> TRUE
    [] OTHER -> FALSE

HandleMergeInput(t, n) ==
  /\ received' = [received EXCEPT ![n] = IF MergeReady(n) THEN 0 ELSE @ + 1]
  /\ nodeTasks' = Handled(t, n) \o (IF MergeReady(n) THEN <<Task(n, nodeTasks[t].own)>> ELSE <<>>)
  /\ UNCHANGED wfActive

ExecuteNext(t, n) ==
  /\ At(t, "next") /\ n \in nodeTasks[t].todo /\ ~Cancelled(t)
  /\ IF wf.type[n] = "merge" THEN HandleMergeInput(t, n) ELSE StartNext(t, n) /\ UNCHANGED received
  /\ UNCHANGED <<wf, wfStatus, toStart, cancelFunc, ctxDone, wfErrors, cancelPC, messages>>

NextCancelled(t) ==
  /\ At(t, "next") /\ Cancelled(t)
  /\ Goto(t, "inactive")
  /\ UNCHANGED <<wf, wfStatus, toStart, wfActive, cancelFunc, ctxDone, received, wfErrors, cancelPC, messages>>

(* Mutant: the node is marked inactive and nobody looks whether it was the last. *)
MarkNodeInactiveOnly(t) ==
  /\ At(t, "inactive")
  /\ wfActive' = wfActive \ {nodeTasks[t].node}
  /\ Goto(t, "done")
  /\ UNCHANGED <<wf, wfStatus, toStart, cancelFunc, ctxDone, received, wfErrors, cancelPC, messages>>

(* The deferred markNodeInactive, which checks for completion in turn. *)
MarkNodeInactive(t) ==
  /\ At(t, "inactive")
  /\ wfActive' = wfActive \ {nodeTasks[t].node}
  /\ nodeTasks' = [nodeTasks EXCEPT ![t].pc = "check", ![t].ret = "done"]
  /\ UNCHANGED <<wf, wfStatus, toStart, cancelFunc, ctxDone, received, wfErrors, cancelPC, messages>>

-----------------------------------------------------------------------------
(* checkExecutionComplete and completeExecution.                           *)

CheckStatus(t) ==
  /\ At(t, "check")
  /\ Goto(t, IF wfStatus = "running" THEN "checkActive" ELSE nodeTasks[t].ret)
  /\ UNCHANGED <<wf, wfStatus, toStart, wfActive, cancelFunc, ctxDone, received, wfErrors, cancelPC, messages>>

CheckActive(t) ==
  /\ At(t, "checkActive")
  /\ nodeTasks' = [nodeTasks EXCEPT ![t].pc = IF wfActive = {} THEN "complete" ELSE nodeTasks[t].ret, ![t].failed = wfErrors > 0]
  /\ UNCHANGED <<wf, wfStatus, toStart, wfActive, cancelFunc, ctxDone, received, wfErrors, cancelPC, messages>>

CleanUp == cancelFunc' = FALSE /\ wfActive' = {} /\ received' = [n \in wf.nodes |-> 0]

(* The status becomes the outcome whatever it is by now; nobody reads what   *)
(* is cleaned up after it to change the status again.                        *)
CompleteExecution(t) ==
  /\ At(t, "complete")
  /\ wfStatus' = CASE wfStatus = "gone" -> "gone" [] nodeTasks[t].failed -> "failed" [] OTHER -> "completed"
  /\ IF wfStatus = "gone" THEN UNCHANGED <<cancelFunc, wfActive, received>> ELSE CleanUp
  /\ Goto(t, nodeTasks[t].ret)
  /\ UNCHANGED <<wf, toStart, ctxDone, wfErrors, cancelPC, messages>>

-----------------------------------------------------------------------------
CancelExecution ==
  /\ wf \in Cancellable /\ cancelPC = "idle" /\ wfStatus = "running"
  /\ wfStatus' = "cancelled" /\ cancelPC' = "cancel"
  /\ UNCHANGED <<wf, toStart, wfActive, cancelFunc, ctxDone, received, wfErrors, nodeTasks, messages>>

CancelCleanup ==
  /\ cancelPC = "cancel"
  /\ ctxDone' = (ctxDone \/ cancelFunc)
  /\ CleanUp
  /\ cancelPC' = "returned"
  /\ UNCHANGED <<wf, wfStatus, toStart, wfErrors, nodeTasks, messages>>

CleanupOldExecutions ==
  /\ wf \in Cancellable /\ wfStatus \in {"completed", "failed", "cancelled"}
  /\ wfStatus' = "gone"
  /\ CleanUp
  /\ UNCHANGED <<wf, toStart, ctxDone, wfErrors, nodeTasks, cancelPC, messages>>

TaskStep(t) ==
  \/ ExecuteNode(t) \/ HandlerFails(t) \/ HandlerReturns(t) \/ HandleError(t)
  \/ NextCancelled(t) \/ MarkNodeInactive(t)
  \/ CheckStatus(t) \/ CheckActive(t) \/ CompleteExecution(t)
  \/ \E n \in wf.nodes : OnError(t, n) \/ ExecuteNext(t, n)

EngineStep == StartExecution \/ \E n \in wf.nodes : StartNode(n)

WorkflowNext ==
  \/ EngineStep \/ CancelExecution \/ CancelCleanup \/ CleanupOldExecutions
  \/ \E n \in wf.nodes : HandleNodeExecution(n)
  \/ \E t \in DOMAIN nodeTasks : TaskStep(t)

WorkflowSpec == NewEngine /\ [][WorkflowNext]_wfVars

-----------------------------------------------------------------------------
Executing(t) == nodeTasks[t].pc \in {"start", "handling", "error", "onError", "next"}

Predecessors(d, n) == {m \in d.nodes : n \in d.next[m] \cup d.trueNext[m] \cup d.falseNext[m] \cup d.onError[m]}

(* Every node is reached from one node only, except for one start node. *)
IsTree(d) ==
  /\ \E r \in d.nodes : \A n \in d.nodes : (IsStartNode(d, n) <=> n = r) /\ (Predecessors(d, n) = {} <=> n = r)
  /\ \A n \in d.nodes : d.type[n] \notin {"merge", "stop"} /\ Cardinality(Predecessors(d, n)) <= 1

(* The comment in checkExecutionComplete, "Only complete if no active nodes *)
(* remain": once an execution is reported completed or failed, none of its  *)
(* nodes runs or is still to run.                                           *)
NothingRunsAfterCompletion ==
  wfStatus \in {"completed", "failed"} => toStart = {} /\ \A t \in DOMAIN nodeTasks : ~Executing(t)

(* It holds of workflows that are trees and not cancelled, however branches, *)
(* retries and error handlers interleave; and then the status tells whether  *)
(* a node has failed.                                                        *)
TreeCompletesOnce ==
  wfStatus \in {"completed", "failed"} /\ messages = 0 /\ cancelPC = "idle" /\ IsTree(wf) =>
    /\ NothingRunsAfterCompletion
    /\ wfStatus = "completed" => wfErrors = 0
    /\ wfStatus = "failed" => wfErrors > 0

(* Whatever the shape of the workflow, an execution does not stay running:   *)
(* some task finds activeNodes empty after it has left them.                 *)
ExecutionEnds == []<>(wfStatus # "running")
=============================================================================
