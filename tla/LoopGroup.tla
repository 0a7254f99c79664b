----------------------------- MODULE LoopGroup ------------------------------
(***************************************************************************)
(* pkg/core/eventloop: a group of event loops behind a dispatcher.  Each   *)
(* loop is the bounded queue of EventQueue, which EventLoop implements; an *)
(* event keeps its slot until its handler returns.  Every event is         *)
(* dispatched once, by a goroutine of its own or by the handler of its     *)
(* parent.  DispatchByKey holds the dispatcher's read lock until the loop  *)
(* has taken the event, an event without a key takes the write lock, and a *)
(* writer that waits keeps new readers out (sync.RWMutex).                 *)
(***************************************************************************)
EXTENDS Integers, Sequences, SequencesExt

CONSTANTS
  NumLoops, RingSize,
  GroupEvents, NoGroupEvent,
  KeyOf, NoKey,    \* [GroupEvents -> keys], NoKey where the extractor finds none
  HashOf,          \* [keys -> Nat]: HashKey
  ByKey,           \* the events given to DispatchByKey
  DispatchedBy,    \* [GroupEvents -> the event whose handler dispatches it, or NoGroupEvent]
  BlockOnFull      \* BackpressureBlock

VARIABLES
  rings,           \* [loops -> the accepted events whose handler has not returned]
  inHandler,       \* [loops -> the event whose handler runs, or NoGroupEvent]
  loopStopped,     \* [loops -> run() has returned]
  groupPC,         \* [GroupEvents -> where the call that dispatches it is]
  routedTo,        \* [GroupEvents -> the loop chosen for it]
  keyReaders,      \* the calls that hold the read lock
  roundRobinCounter,
  groupDone,       \* the group's context is cancelled
  groupClose,      \* where Close is
  closedLoops,     \* how many loops Close has closed
  acceptedLog, handledLog  \* history

groupVars == <<rings, inHandler, loopStopped, groupPC, routedTo, keyReaders, roundRobinCounter,
               groupDone, groupClose, closedLoops, acceptedLog, handledLog>>
groupLoopVars == <<rings, inHandler, loopStopped, acceptedLog, handledLog>>
groupCloseVars == <<groupDone, groupClose, closedLoops>>

GroupLoops == 0 .. NumLoops - 1
DispatchAnswers == {"ok", "err"}

NewEventLoopGroup ==
  /\ rings = [l \in GroupLoops |-> <<>>] /\ inHandler = [l \in GroupLoops |-> NoGroupEvent]
  /\ loopStopped = [l \in GroupLoops |-> FALSE]
  /\ groupPC = [e \in GroupEvents |-> "idle"] /\ routedTo = [e \in GroupEvents |-> 0]
  /\ keyReaders = {} /\ roundRobinCounter = 0
  /\ groupDone = FALSE /\ groupClose = "open" /\ closedLoops = 0
  /\ acceptedLog = <<>> /\ handledLog = <<>>

\* The call that dispatches e may begin: its parent's handler runs.
DispatchBegins(e) ==
  /\ groupPC[e] = "idle"
  /\ DispatchedBy[e] = NoGroupEvent \/ \E l \in GroupLoops : inHandler[l] = DispatchedBy[e]

RouteKey(k) == IF k = NoKey THEN 0 ELSE HashOf[k] % NumLoops

Writes == groupClose = "lock" \/ \E e \in GroupEvents : groupPC[e] = "lock"

Routed(e, l) ==
  /\ groupPC' = [groupPC EXCEPT ![e] = "post"] /\ routedTo' = [routedTo EXCEPT ![e] = l]
  /\ UNCHANGED <<groupLoopVars, groupCloseVars>>

\* Mutant: a key whose loop is full goes to the next loop.
SpillOver(e) ==
  /\ DispatchBegins(e) /\ e \notin ByKey /\ KeyOf[e] # NoKey /\ ~Writes
  /\ LET l == RouteKey(KeyOf[e])
     IN  Routed(e, IF Len(rings[l]) < RingSize THEN l ELSE (l + 1) % NumLoops)
  /\ UNCHANGED <<keyReaders, roundRobinCounter>>

\* Dispatch with a key: the read lock is held around the choice of the loop.
DispatchKeyed(e) ==
  /\ DispatchBegins(e) /\ e \notin ByKey /\ KeyOf[e] # NoKey /\ ~Writes
  /\ Routed(e, RouteKey(KeyOf[e]))
  /\ UNCHANGED <<keyReaders, roundRobinCounter>>

\* Dispatch without a key announces itself as a writer ...
DispatchUnkeyed(e) ==
  /\ DispatchBegins(e) /\ e \notin ByKey /\ KeyOf[e] = NoKey /\ ~Writes
  /\ groupPC' = [groupPC EXCEPT ![e] = "lock"]
  /\ UNCHANGED <<groupLoopVars, groupCloseVars, routedTo, keyReaders, roundRobinCounter>>

\* ... and has the lock once the readers have gone.
RoundRobin(e) ==
  /\ groupPC[e] = "lock" /\ keyReaders = {}
  /\ Routed(e, roundRobinCounter % NumLoops) /\ roundRobinCounter' = roundRobinCounter + 1
  /\ UNCHANGED keyReaders

DispatchByKey(e) ==
  /\ DispatchBegins(e) /\ e \in ByKey /\ ~Writes
  /\ Routed(e, RouteKey(KeyOf[e])) /\ keyReaders' = keyReaders \cup {e}
  /\ UNCHANGED roundRobinCounter

PostGoto(e, pc) ==
  /\ groupPC' = [groupPC EXCEPT ![e] = pc]
  /\ keyReaders' = IF pc \in DispatchAnswers THEN keyReaders \ {e} ELSE keyReaders
  /\ UNCHANGED <<inHandler, loopStopped, routedTo, roundRobinCounter, groupCloseVars, handledLog>>

\* loop.Dispatch looks whether the loop is closed (Block: or cancelled) ...
PostChecks(e) ==
  /\ groupPC[e] = "post"
  /\ PostGoto(e, IF routedTo[e] < closedLoops \/ (BlockOnFull /\ groupDone) THEN "err" ELSE "claim")
  /\ UNCHANGED <<rings, acceptedLog>>

\* ... and then claims a slot; a full ring is an error, or looked at again (Block).
PostClaims(e) ==
  /\ groupPC[e] = "claim"
  /\ IF Len(rings[routedTo[e]]) < RingSize
     THEN /\ rings' = [rings EXCEPT ![routedTo[e]] = Append(@, e)]
          /\ acceptedLog' = Append(acceptedLog, e) /\ PostGoto(e, "ok")
     ELSE /\ UNCHANGED <<rings, acceptedLog>> /\ PostGoto(e, IF BlockOnFull THEN "post" ELSE "err")

PostToLoop(e) == PostChecks(e) \/ PostClaims(e)

groupCallVars == <<groupPC, routedTo, keyReaders, roundRobinCounter>>

HandlerBegins(l) ==
  /\ inHandler[l] = NoGroupEvent /\ rings[l] # <<>> /\ ~loopStopped[l]
  /\ inHandler' = [inHandler EXCEPT ![l] = Head(rings[l])]
  /\ handledLog' = Append(handledLog, Head(rings[l]))
  /\ UNCHANGED <<rings, loopStopped, acceptedLog, groupCallVars, groupCloseVars>>

\* The handler has made its calls and returns; Consume frees the slot.
HandlerEnds(l) ==
  /\ inHandler[l] # NoGroupEvent
  /\ \A e \in GroupEvents : DispatchedBy[e] = inHandler[l] => groupPC[e] \in DispatchAnswers
  /\ inHandler' = [inHandler EXCEPT ![l] = NoGroupEvent] /\ rings' = [rings EXCEPT ![l] = Tail(@)]
  /\ UNCHANGED <<loopStopped, acceptedLog, handledLog, groupCallVars, groupCloseVars>>

\* WaitFor notices the cancelled context; what is queued is left.
RunEnds(l) ==
  /\ groupDone /\ inHandler[l] = NoGroupEvent /\ ~loopStopped[l]
  /\ loopStopped' = [loopStopped EXCEPT ![l] = TRUE]
  /\ UNCHANGED <<rings, inHandler, acceptedLog, handledLog, groupCallVars, groupCloseVars>>

\* Mutant: the lock is taken before the context is cancelled.
LocksFirst ==
  /\ groupClose = "open" /\ ~Writes /\ groupClose' = "lock"
  /\ UNCHANGED <<groupLoopVars, groupCallVars, groupDone, closedLoops>>

\* EventLoopGroup.Close: cancel, take the write lock, close each loop.
CancelGroup ==
  /\ groupClose = "open" /\ groupClose' = "cancelled" /\ groupDone' = TRUE
  /\ UNCHANGED <<groupLoopVars, groupCallVars, closedLoops>>

CloseLocks ==
  /\ groupClose = "cancelled" /\ ~Writes /\ groupClose' = "lock"
  /\ UNCHANGED <<groupLoopVars, groupCallVars, groupDone, closedLoops>>

CloseNext ==
  /\ groupClose = "lock" /\ keyReaders = {}
  /\ closedLoops' = closedLoops + 1
  /\ groupClose' = IF closedLoops' = NumLoops THEN "closed" ELSE "lock"
  /\ UNCHANGED <<groupLoopVars, groupCallVars, groupDone>>

GroupCallStep(e) ==
  \/ DispatchKeyed(e) \/ DispatchUnkeyed(e) \/ DispatchByKey(e) \/ RoundRobin(e) \/ PostToLoop(e)
GroupLoopStep(l) == HandlerBegins(l) \/ HandlerEnds(l) \/ RunEnds(l)
GroupCloseStep == CloseLocks \/ CloseNext

GroupNext ==
  \/ \E e \in GroupEvents : GroupCallStep(e)
  \/ \E l \in GroupLoops : GroupLoopStep(l)
  \/ CancelGroup \/ GroupCloseStep

GroupSpec == NewEventLoopGroup /\ [][GroupNext]_groupVars
-----------------------------------------------------------------------------
GroupTypeOK ==
  /\ rings \in [GroupLoops -> Seq(GroupEvents)]
  /\ inHandler \in [GroupLoops -> GroupEvents \cup {NoGroupEvent}]
  /\ loopStopped \in [GroupLoops -> BOOLEAN] /\ keyReaders \subseteq GroupEvents
  /\ groupPC \in [GroupEvents -> {"idle", "lock", "post", "claim"} \cup DispatchAnswers]
  /\ routedTo \in [GroupEvents -> GroupLoops] /\ closedLoops \in 0 .. NumLoops
  /\ groupClose \in {"open", "cancelled", "lock", "closed"}

WithKey(s, k) == SelectSeq(s, LAMBDA e : KeyOf[e] = k)

(* The events of one key are handled one at a time and in the order they   *)
(* were accepted, however they were given to the group: the same key       *)
(* always goes to the same loop (dispatcher.go).                           *)
KeyedInOrder ==
  \A k \in {KeyOf[e] : e \in GroupEvents} \ {NoKey} :
    /\ IsPrefix(WithKey(handledLog, k), WithKey(acceptedLog, k))
    /\ \A l, m \in GroupLoops : l # m /\ inHandler[l] # NoGroupEvent /\ inHandler[m] # NoGroupEvent
         => ~(KeyOf[inHandler[l]] = k /\ KeyOf[inHandler[m]] = k)

\* The call that dispatches e has begun, or could, and has not returned.
DispatchWaits(e) == groupPC[e] \in {"lock", "post", "claim"} \/ DispatchBegins(e)

\* A handler waits for a call of its own.
HandlerWaits ==
  \E e \in GroupEvents, l \in GroupLoops : inHandler[l] # NoGroupEvent /\ DispatchedBy[e] = inHandler[l]
                                           /\ groupPC[e] \notin DispatchAnswers

(* Close returns although calls hold the read lock while they wait for a   *)
(* slot, since it cancels the context first.                               *)
GroupCloses == []<>(groupClose \in {"open", "closed"})
=============================================================================
