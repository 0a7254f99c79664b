-------------------------- MODULE ActorSupervisor ---------------------------
(***************************************************************************)
(* pkg/actor/supervisor.go: one call of Start, which runs the children,    *)
(* restarts those that end with an error and returns when it is stopped,   *)
(* when its context ends, or when there were too many restarts.  Every     *)
(* restart makes a new context and a new goroutine, an instance; instances *)
(* are numbered.  An instance reports how it ended on a channel with room  *)
(* for one result per child, which Start alone receives from; when a       *)
(* child's Start function fails, Start itself sends the result.            *)
(***************************************************************************)
EXTENDS Naturals, Sequences, FiniteSets

CONSTANTS
  Actors,             \* the children, a sequence
  ActorStrategies,    \* a subset of {"OneForOne", "AllForOne"}
  MaxActorRestarts,   \* maxRestarts
  MaxInstances,       \* bound: the instances ever made
  ActorStoppers       \* the calls of Stop

VARIABLES
  actorStrategy,
  instances,          \* a sequence of [child, pc, err]
  overContexts,       \* the instances whose context was cancelled
  childCan,           \* [children -> the instance whose cancel function it holds, or 0]
  childResults,       \* resultCh
  actorPC,            \* of Start: "starting", "select" or "returned"
  childrenToStart,    \* the children that Start has still to start
  recentRestarts,     \* the restarts within the window
  parentDone,         \* the context given to Start is over
  actorStop,          \* stopRequested is closed
  actorStopPC         \* [ActorStoppers -> where the call is]

actorSupVars == <<actorStrategy, instances, overContexts, childCan, childResults, actorPC, childrenToStart,
                  recentRestarts, parentDone, actorStop, actorStopPC>>

ActorChildren == DOMAIN Actors

ASSUME ActorsAssumption == Len(Actors) \in Nat /\ ActorChildren = 1 .. Len(Actors)

InstanceIDs == DOMAIN instances
supOutside == <<actorStrategy, recentRestarts, parentDone, actorStop, actorStopPC>>

NewActorSupervisor ==
  /\ actorStrategy \in ActorStrategies
  /\ instances = <<>> /\ overContexts = {} /\ childCan = [a \in ActorChildren |-> 0]
  /\ childResults = <<>> /\ actorPC = "starting" /\ childrenToStart = [i \in ActorChildren |-> i]
  /\ recentRestarts = 0 /\ parentDone = FALSE /\ actorStop = FALSE
  /\ actorStopPC = [s \in ActorStoppers |-> "idle"]

\* The contexts whose cancel functions are in childCan.
HeldContexts == {childCan[a] : a \in ActorChildren} \ {0}

ContextOver(i) == i \in overContexts \/ parentDone

\* startOne, up to spec.Start ...
StartOne ==
  /\ actorPC = "starting" /\ childrenToStart # <<>>
  /\ \A i \in InstanceIDs : instances[i].pc \notin {"created", "unborn"}
  /\ instances' = Append(instances, [child |-> Head(childrenToStart), pc |-> "created", err |-> "none"])
  /\ childCan' = [childCan EXCEPT ![Head(childrenToStart)] = Len(instances')]
  /\ UNCHANGED <<overContexts, childResults, actorPC, childrenToStart, supOutside>>

InstanceGoto(i, pc) == instances' = [instances EXCEPT ![i].pc = pc]

\* ... which gives a runner, whose goroutine starts ...
StartOneRuns(i) ==
  /\ instances[i].pc = "created" /\ InstanceGoto(i, "running") /\ childrenToStart' = Tail(childrenToStart)
  /\ UNCHANGED <<overContexts, childCan, childResults, actorPC, supOutside>>

RoomForResult == Len(childResults) < Len(Actors)
ReportResult(i, err) == childResults' = Append(childResults, [child |-> instances[i].child, err |-> err])

\* ... or fails, and the result is sent here.
StartOneFails(i) ==
  /\ instances[i].pc = "created" /\ InstanceGoto(i, "unborn")
  /\ UNCHANGED <<overContexts, childCan, childResults, actorPC, childrenToStart, supOutside>>

SendStartFailure(i) ==
  /\ instances[i].pc = "unborn" /\ RoomForResult /\ InstanceGoto(i, "gone") /\ childrenToStart' = Tail(childrenToStart)
  /\ ReportResult(i, "failed")
  /\ UNCHANGED <<overContexts, childCan, actorPC, supOutside>>

AllStarted ==
  /\ actorPC = "starting" /\ childrenToStart = <<>> /\ actorPC' = "select"
  /\ UNCHANGED <<instances, overContexts, childCan, childResults, childrenToStart, supOutside>>

\* Run returns: "over" stands for nil and for context.Canceled.
RunReturns(i, err) ==
  /\ instances[i].pc = "running"
  /\ instances' = [instances EXCEPT ![i].pc = "ended", ![i].err = err]
  /\ UNCHANGED <<overContexts, childCan, childResults, actorPC, childrenToStart, supOutside>>

SendRunResult(i) ==
  /\ instances[i].pc = "ended" /\ RoomForResult /\ InstanceGoto(i, "gone")
  /\ ReportResult(i, instances[i].err)
  /\ UNCHANGED <<overContexts, childCan, actorPC, childrenToStart, supOutside>>

StopChildren == overContexts' = overContexts \cup HeldContexts

\* Mutant: Start returns without cancelling the children.
ReturnsLeaving ==
  /\ actorPC = "select" /\ (parentDone \/ actorStop) /\ actorPC' = "returned"
  /\ UNCHANGED <<instances, overContexts, childCan, childResults, childrenToStart, supOutside>>

\* ctx.Done or stopRequested.
SelectStop ==
  /\ actorPC = "select" /\ (parentDone \/ actorStop)
  /\ StopChildren /\ actorPC' = "returned"
  /\ UNCHANGED <<instances, childCan, childResults, childrenToStart, supOutside>>

\* Mutant: the siblings are restarted without being stopped.
SelectResultKeeps ==
  LET res == Head(childResults)
  IN  /\ actorPC = "select" /\ childResults # <<>> /\ childResults' = Tail(childResults)
      /\ IF res.err # "failed" \/ recentRestarts >= MaxActorRestarts
         THEN UNCHANGED <<overContexts, actorPC, childrenToStart, recentRestarts>>
         ELSE /\ Len(instances) + Len(Actors) <= MaxInstances
              /\ recentRestarts' = recentRestarts + 1 /\ actorPC' = "starting"
              /\ childrenToStart' = [i \in ActorChildren |-> i] /\ UNCHANGED overContexts
      /\ UNCHANGED <<instances, childCan, actorStrategy, parentDone, actorStop, actorStopPC>>

\* The children a failure of child a restarts.
RestartedBy(a) == IF actorStrategy = "OneForOne" THEN <<a>> ELSE [i \in ActorChildren |-> i]

\* A result: ignored, or too many restarts, or a restart.
SelectResult ==
  LET res == Head(childResults)
  IN  /\ actorPC = "select" /\ childResults # <<>> /\ childResults' = Tail(childResults)
      /\ \/ /\ res.err # "failed"
            /\ UNCHANGED <<overContexts, childCan, actorPC, childrenToStart, recentRestarts>>
         \/ /\ res.err = "failed" /\ recentRestarts >= MaxActorRestarts
            /\ StopChildren /\ actorPC' = "returned"
            /\ UNCHANGED <<childCan, childrenToStart, recentRestarts>>
         \/ /\ res.err = "failed" /\ recentRestarts < MaxActorRestarts
            /\ Len(instances) + Len(RestartedBy(res.child)) <= MaxInstances
            /\ recentRestarts' = recentRestarts + 1 /\ actorPC' = "starting"
            /\ childrenToStart' = RestartedBy(res.child)
            /\ IF actorStrategy = "OneForOne"
               THEN /\ overContexts' = overContexts \cup ({childCan[res.child]} \ {0})
                    /\ childCan' = [childCan EXCEPT ![res.child] = 0]
               ELSE StopChildren /\ UNCHANGED childCan
      /\ UNCHANGED <<instances, actorStrategy, parentDone, actorStop, actorStopPC>>

WindowPasses ==
  /\ recentRestarts > 0 /\ recentRestarts' = recentRestarts - 1
  /\ UNCHANGED <<actorStrategy, instances, overContexts, childCan, childResults, actorPC, childrenToStart,
                 parentDone, actorStop, actorStopPC>>

CancelParent ==
  /\ ~parentDone /\ parentDone' = TRUE
  /\ UNCHANGED <<actorStrategy, instances, overContexts, childCan, childResults, actorPC, childrenToStart,
                 recentRestarts, actorStop, actorStopPC>>

StopActors(s) ==
  /\ actorStopPC[s] = "idle"
  /\ IF actorPC = "returned"
     THEN /\ actorStopPC' = [actorStopPC EXCEPT ![s] = "done"] /\ UNCHANGED <<actorStop, overContexts>>
     ELSE /\ actorStopPC' = [actorStopPC EXCEPT ![s] = "waiting"] /\ actorStop' = TRUE /\ StopChildren
  /\ UNCHANGED <<actorStrategy, instances, childCan, childResults, actorPC, childrenToStart, recentRestarts,
                 parentDone>>

StopActorsReturns(s) ==
  /\ actorStopPC[s] = "waiting" /\ actorPC = "returned"
  /\ actorStopPC' = [actorStopPC EXCEPT ![s] = "done"]
  /\ UNCHANGED <<actorStrategy, instances, overContexts, childCan, childResults, actorPC, childrenToStart,
                 recentRestarts, parentDone, actorStop>>

ActorStartStep ==
  \/ StartOne \/ AllStarted \/ SelectStop \/ SelectResult
  \/ \E i \in InstanceIDs : StartOneRuns(i) \/ StartOneFails(i) \/ SendStartFailure(i)
InstanceStep(i) ==
  i \in InstanceIDs /\ (SendRunResult(i) \/ \E err \in {"over", "failed"} : RunReturns(i, err))

ActorSupNext ==
  \/ ActorStartStep \/ WindowPasses \/ CancelParent
  \/ \E i \in InstanceIDs : InstanceStep(i)
  \/ \E s \in ActorStoppers : StopActors(s) \/ StopActorsReturns(s)

ActorSupSpec == NewActorSupervisor /\ [][ActorSupNext]_actorSupVars
-----------------------------------------------------------------------------
ActorSupTypeOK ==
  /\ actorStrategy \in ActorStrategies /\ overContexts \subseteq 1 .. MaxInstances
  /\ childCan \in [ActorChildren -> 0 .. MaxInstances] /\ Len(childResults) <= Len(Actors)
  /\ actorPC \in {"starting", "select", "returned"} /\ recentRestarts \in 0 .. MaxActorRestarts

LiveInstances(a) == {i \in InstanceIDs : /\ instances[i].child = a /\ instances[i].pc \in {"created", "running"}
                                 /\ ~ContextOver(i)}

(* However restarts, failing starts, Stop and the end of the context come  *)
(* together, a child has at most one instance that was not told to end,    *)
(* and none once Start has returned (supervisor.go).                       *)
OneInstance ==
  /\ \A a \in ActorChildren : Cardinality(LiveInstances(a)) <= 1
  /\ actorPC = "returned" => \A a \in ActorChildren : LiveInstances(a) = {}

(* Under OneForOne there is room for every result, so that Start never     *)
(* waits for itself and Stop returns.                                      *)
ActorStopReturns ==
  \A s \in ActorStoppers : []<>(actorStopPC[s] = "waiting" => actorStrategy = "AllForOne")
=============================================================================
