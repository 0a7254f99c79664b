--------------------------- MODULE ProcessProofs ----------------------------
(***************************************************************************)
(* Theorems about Discovery, Managers, Bulkhead, ActorSupervisor and the   *)
(* approvals of PostgresDemo.                                              *)
(***************************************************************************)
EXTENDS Discovery, Managers, Bulkhead, ActorSupervisor, PostgresDemo, TLAPS, FiniteSetTheorems
-----------------------------------------------------------------------------
(***************************************************************************)
(* The two maps of the service registry agree, for any number of clients,  *)
(* services and requests.                                                  *)
(***************************************************************************)
DirectoryInv ==
  /\ directory \in [Apps -> Nat] /\ objectsMade \in [Apps -> Nat]
  /\ catalog \in [Catalogued -> SUBSET Apps]
  /\ DirectoryExact

LEMMA RemovalKeeps ==
  ASSUME DirectoryInv, NEW apps \in SUBSET Apps, RemoveInstances(apps)
  PROVE  /\ directory' \in [Apps -> Nat] /\ catalog' \in [Catalogued -> SUBSET Apps]
         /\ DirectoryExact'
  <1>1. directory' \in [Apps -> Nat] /\ catalog' \in [Catalogued -> SUBSET Apps]
    BY Zenon DEF DirectoryInv, RemoveInstances
  <1>2. ASSUME NEW s \in Catalogued
        PROVE  catalog'[s] = {a \in Apps : directory'[a] # 0 /\ AppService[a] = s}
    BY Zenon DEF DirectoryInv, DirectoryExact, RemoveInstances
  <1> QED
    BY Zenon, <1>1, <1>2 DEF DirectoryExact

LEMMA RegistrationKeeps ==
  ASSUME DirectoryInv, NEW a \in Apps, ServeRegister(a)
  PROVE  DirectoryInv'
  <1>1. CASE directory[a] # 0
    BY <1>1 DEF ServeRegister, DirectoryInv, DirectoryExact
  <1>2. CASE directory[a] = 0
    <2>1. NewObject(a) /\ catalog' = [catalog EXCEPT ![AppService[a]] = @ \cup {a}]
      BY Zenon, <1>2 DEF ServeRegister
    <2>2. objectsMade' \in [Apps -> Nat] /\ objectsMade'[a] = objectsMade[a] + 1
      BY <2>1 DEF NewObject, DirectoryInv
    <2>3. directory' = [directory EXCEPT ![a] = objectsMade'[a]] /\ directory'[a] # 0
      BY <2>1, <2>2 DEF NewObject, DirectoryInv
    <2>4. directory' \in [Apps -> Nat] /\ catalog' \in [Catalogued -> SUBSET Apps]
      BY Zenon, <2>1, <2>2, <2>3 DEF DirectoryInv
    <2>5. ASSUME NEW s \in Catalogued
          PROVE  catalog'[s] = {x \in Apps : directory'[x] # 0 /\ AppService[x] = s}
      <3>1. catalog[s] = {x \in Apps : directory[x] # 0 /\ AppService[x] = s}
        BY Zenon DEF DirectoryInv, DirectoryExact
      <3>2. catalog'[s] = IF s = AppService[a] THEN catalog[s] \cup {a} ELSE catalog[s]
        BY Zenon, <2>1 DEF DirectoryInv
      <3>3. \A x \in Apps : x # a => directory'[x] = directory[x]
        BY Zenon, <2>3 DEF DirectoryInv
      <3> QED
        BY Zenon, <3>1, <3>2, <3>3, <2>3
    <2> QED
      BY Zenon, <2>2, <2>4, <2>5 DEF DirectoryInv, DirectoryExact
  <1> QED
    BY Zenon, <1>1, <1>2

LEMMA DirectoryStep == DirectoryInv /\ [DiscoveryNext]_discoveryVars => DirectoryInv'
  <1> SUFFICES ASSUME DirectoryInv, [DiscoveryNext]_discoveryVars
               PROVE  DirectoryInv'
    BY Zenon
  <1>1. CASE UNCHANGED <<directory, catalog, objectsMade>>
    BY Zenon, <1>1 DEF DirectoryInv, DirectoryExact
  <1>2. CASE EvictExpired
    <2>1. ExpiredApps \in SUBSET Apps /\ RemoveInstances(ExpiredApps) /\ UNCHANGED objectsMade
      BY Zenon, <1>2 DEF EvictExpired, ExpiredApps
    <2> QED
      BY Zenon, <2>1, RemovalKeeps DEF DirectoryInv
  <1>3. CASE \E a \in Apps : ServeRegister(a)
    BY Zenon, <1>3, RegistrationKeeps
  <1>4. ASSUME NEW a \in Apps, UnregisterInstance(a)
        PROVE  DirectoryInv'
    <2>1. {a} \in SUBSET Apps /\ RemoveInstances({a}) /\ UNCHANGED objectsMade
      BY Zenon, <1>4 DEF UnregisterInstance
    <2> QED
      BY Zenon, <2>1, RemovalKeeps DEF DirectoryInv
  <1>5. ASSUME NEW a \in Apps, PostInstance(a) \/ PostTimesOut(a) \/ StartBeat(a) \/ StopBeat(a)
        PROVE  UNCHANGED <<directory, catalog, objectsMade>>
    BY Zenon, <1>5 DEF PostInstance, PostTimesOut, StartBeat, StopBeat, registryVars
  <1>6. ASSUME NEW o, LeaseEnds(o)
        PROVE  UNCHANGED <<directory, catalog, objectsMade>>
    BY Zenon, <1>6 DEF LeaseEnds
  <1>7. ASSUME NEW a \in Apps, NEW b \in BeatIDs, BeatTicks(a, b) \/ BeatStep(a, b)
        PROVE  UNCHANGED <<directory, catalog, objectsMade>>
    BY Zenon, <1>7 DEF BeatTicks, BeatStep, RenewFinds, RenewExtends, RenewFails, BeatEnds, registryVars
  <1>8. StopEviction \/ UNCHANGED discoveryVars => UNCHANGED <<directory, catalog, objectsMade>>
    BY Zenon DEF StopEviction, discoveryVars, registryVars
  <1> QED
    BY Zenon, <1>1, <1>2, <1>3, <1>4, <1>5, <1>6, <1>7, <1>8 DEF DiscoveryNext

(* The map of instances and the map of services of the registry agree,     *)
(* however registrations, evictions, renewals and Unregister interleave.   *)
THEOREM DirectoryStaysExact == DiscoverySpec => []DirectoryExact
  <1>1. NewDiscovery => DirectoryInv
    BY DEF NewDiscovery, DirectoryInv, DirectoryExact
  <1>2. DirectoryInv => DirectoryExact
    BY Zenon DEF DirectoryInv
  <1> QED
    BY <1>1, <1>2, DirectoryStep, PTL DEF DiscoverySpec

-----------------------------------------------------------------------------
(***************************************************************************)
(* A stopped signal handler is silent.  run only begins once, because the  *)
(* handler never becomes new again; and unless the handler continues, run  *)
(* does not return to its select after a signal.                           *)
(***************************************************************************)
SigPoints == {"idle", "start", "select", "stop", "inStop", "already", "stopped", "timeout", "error"}

SignalInv ==
  /\ sigCaller \in [SigCallers -> SigPoints] /\ onSignal \in Nat
  /\ handlerState = "new" => runLoop = "none"
  /\ \A c \in SigCallers : sigCaller[c] = "stopped" => runLoop = "done"
  /\ ~continueOnSignal =>
        onSignal <= 1 /\ (runLoop \in {"none", "select"} => onSignal = 0)

LEMMA SignalInit == NewSignalHandler => SignalInv
  BY DEF NewSignalHandler, SignalInv, SigPoints

\* What run does by itself.
LEMMA RunKeeps ==
  ASSUME SignalInv, RunLoopStep
  PROVE  SignalInv'
  <1>1. UNCHANGED <<continueOnSignal, sigCaller>>
    BY Zenon DEF RunLoopStep, RunTakesSignal, CallbackReturns, RunSeesEnd, RunStops, RunStopTimesOut, signalConfig
  <1>2. runLoop \notin {"none", "done"} /\ runLoop' # "none"
    BY Zenon DEF RunLoopStep, RunTakesSignal, CallbackReturns, RunSeesEnd, RunStops, RunStopTimesOut
  <1>3. handlerState # "new" /\ handlerState' # "new"
    BY Zenon, <1>2 DEF SignalInv, RunLoopStep, RunTakesSignal, CallbackReturns, RunSeesEnd, RunStops, RunStopTimesOut,
                StopBegins
  <1>4. onSignal' \in Nat
    BY DEF SignalInv, RunLoopStep, RunTakesSignal, CallbackReturns, RunSeesEnd, RunStops, RunStopTimesOut
  <1>5. ~continueOnSignal => onSignal' <= 1 /\ (runLoop' \in {"none", "select"} => onSignal' = 0)
    BY DEF SignalInv, RunLoopStep, RunTakesSignal, CallbackReturns, RunSeesEnd, RunStops, RunStopTimesOut
  <1> QED
    BY Zenon, <1>1, <1>2, <1>3, <1>4, <1>5 DEF SignalInv

\* What the callers of Stop and of Wait do.
LEMMA SigCallerKeeps ==
  ASSUME SignalInv, NEW c \in SigCallers,
         CallStop(c) \/ CallWait(c) \/ WaitStarts(c) \/ StopReturnsTo(c) \/ WaitSelects(c)
  PROVE  SignalInv'
  <1>1. UNCHANGED <<continueOnSignal, onSignal>>
    BY Zenon DEF CallStop, CallWait, WaitStarts, StopReturnsTo, WaitSelects, signalConfig
  <1>2. \/ UNCHANGED runLoop /\ (handlerState' = "new" => handlerState = "new")
        \/ handlerState = "new" /\ handlerState' = "started" /\ runLoop' = "select"
    BY Zenon DEF CallStop, CallWait, WaitStarts, StopReturnsTo, WaitSelects, StopBegins, StartHandler
  <1>3. \E pc \in SigPoints : SigGoto(c, pc) /\ (pc = "stopped" => runLoop = "done")
    <2>1. CASE CallStop(c)
      BY Zenon, <2>1 DEF CallStop, SigPoints
    <2>2. CASE CallWait(c)
      BY Zenon, <2>2 DEF CallWait, SigPoints
    <2>3. CASE WaitStarts(c)
      BY Zenon, <2>3 DEF WaitStarts, SigPoints
    <2>4. CASE StopReturnsTo(c)
      BY Zenon, <2>4 DEF StopReturnsTo, SigPoints
    <2>5. CASE WaitSelects(c)
      BY Zenon, <2>5 DEF WaitSelects, SigPoints
    <2> QED
      BY Zenon, <2>1, <2>2, <2>3, <2>4, <2>5
  <1>4. /\ sigCaller' \in [SigCallers -> SigPoints]
        /\ \A d \in SigCallers : sigCaller'[d] = "stopped" => runLoop = "done"
    BY Zenon, <1>3 DEF SigGoto, SignalInv
  <1>5. runLoop = "done" => handlerState # "new"
    BY Zenon DEF SignalInv
  <1> QED
    BY Zenon, <1>1, <1>2, <1>4, <1>5 DEF SignalInv

LEMMA SignalStep == SignalInv /\ [SignalNext]_signalVars => SignalInv'
  <1> SUFFICES ASSUME SignalInv, [SignalNext]_signalVars
               PROVE  SignalInv'
    BY Zenon
  <1>1. CASE RaiseSignal \/ EndSignalContext \/ UNCHANGED signalVars
    BY Zenon, <1>1 DEF SignalInv, RaiseSignal, EndSignalContext, signalVars, signalConfig
  <1>2. CASE StartSignals
    BY Zenon, <1>2 DEF SignalInv, StartSignals, StartHandler, signalConfig
  <1> QED
    BY Zenon, <1>1, <1>2, RunKeeps, SigCallerKeeps DEF SignalNext

(* A Stop that does not time out leaves nothing running, and a handler     *)
(* that does not continue calls OnSignal at most once, for any number of   *)
(* callers of Stop and Wait, any queue and any number of signals.          *)
THEOREM StoppedStaysSilent == SignalSpec => []StoppedIsSilent
  <1>1. SignalInv => StoppedIsSilent
    BY Zenon DEF SignalInv, StoppedIsSilent
  <1> QED
    BY <1>1, SignalInit, SignalStep, PTL DEF SignalSpec

-----------------------------------------------------------------------------
(***************************************************************************)
(* Shutdown phases run one after the other.  Until the context ends, the   *)
(* hooks of earlier phases have returned and those of later ones have not  *)
(* been touched.                                                           *)
(***************************************************************************)
Returned == {"ok", "failed"}
HookStates == {"registered", "running"} \cup Returned

PhaseInv ==
  /\ phaseHooks \in [AllHooks -> HookStates] /\ shutdownPhase \in Nat \ {0}
  /\ shutdownCtxDone \in BOOLEAN
  /\ phaseStarted => shutdownPhase \in ShutdownPhases
  /\ managersClosed => shutdownPhase \notin ShutdownPhases
  /\ ~shutdownCtxDone => \A p \in ShutdownPhases : \A h \in PhaseHooks[p] :
        /\ p < shutdownPhase => phaseHooks[h] \in Returned
        /\ p > shutdownPhase \/ (p = shutdownPhase /\ ~phaseStarted) => phaseHooks[h] = "registered"
        /\ p = shutdownPhase /\ phaseStarted => phaseHooks[h] \in Returned \cup {"running"}

LEMMA HooksOfPhases ==
  /\ \A p \in ShutdownPhases : p \in Nat \ {0} /\ PhaseHooks[p] \subseteq AllHooks
  /\ \A p \in ShutdownPhases, q \in Nat \ {0} : q <= p => q \in ShutdownPhases
  /\ \A h \in AllHooks : \E p \in ShutdownPhases : h \in PhaseHooks[p]
  BY PhasesAssumption DEF AllHooks

LEMMA PhaseInit == NewShutdown => PhaseInv
  <1> SUFFICES ASSUME NewShutdown PROVE PhaseInv
    BY Zenon
  <1>1. phaseHooks \in [AllHooks -> HookStates] /\ shutdownPhase \in Nat \ {0}
    BY DEF NewShutdown, HookStates
  <1>2. ~phaseStarted /\ ~managersClosed /\ shutdownCtxDone \in BOOLEAN
    BY Zenon DEF NewShutdown
  <1>3. \A p \in ShutdownPhases : ~(p < shutdownPhase)
    BY HooksOfPhases DEF NewShutdown
  <1>4. \A p \in ShutdownPhases : \A h \in PhaseHooks[p] : phaseHooks[h] = "registered"
    BY Zenon, HooksOfPhases DEF NewShutdown
  <1> QED
    BY Zenon, <1>1, <1>2, <1>3, <1>4 DEF PhaseInv

LEMMA StartPhaseKeeps ==
  ASSUME PhaseInv, StartPhase
  PROVE  PhaseInv'
  <1>1. phaseHooks' \in [AllHooks -> HookStates]
    BY Zenon DEF PhaseInv, StartPhase, HookStates
  <1>2. phaseStarted' /\ ~phaseStarted /\ shutdownPhase \in ShutdownPhases
        /\ UNCHANGED <<shutdownPhase, shutdownCtxDone, managersClosed>>
    BY Zenon DEF StartPhase
  <1>3. ASSUME ~shutdownCtxDone, NEW p \in ShutdownPhases, NEW h \in PhaseHooks[p]
        PROVE  /\ p < shutdownPhase => phaseHooks'[h] \in Returned
               /\ p > shutdownPhase => phaseHooks'[h] = "registered"
               /\ p = shutdownPhase => phaseHooks'[h] = "running"
    <2>1. h \in AllHooks /\ (h \in HooksNow <=> p = shutdownPhase)
      BY Zenon, <1>2, HooksOfPhases, PhasesAssumption DEF HooksNow
    <2>2. phaseHooks'[h] = IF p = shutdownPhase THEN "running" ELSE phaseHooks[h]
      BY Zenon, <2>1 DEF StartPhase
    <2>3. /\ p < shutdownPhase => phaseHooks[h] \in Returned
          /\ p > shutdownPhase => phaseHooks[h] = "registered"
      BY Zenon, <1>3 DEF PhaseInv
    <2>4. p \in Nat /\ shutdownPhase \in Nat
      BY Zenon, <1>2, HooksOfPhases
    <2> QED
      BY <2>2, <2>3, <2>4
  <1> QED
    BY Zenon, <1>1, <1>2, <1>3, HooksOfPhases DEF PhaseInv

LEMMA HookReturnKeeps ==
  ASSUME PhaseInv, NEW x \in AllHooks, NEW result \in {"ok", "failed"}, PhaseHookReturns(x, result)
  PROVE  PhaseInv'
  <1>1. /\ phaseHooks[x] = "running" /\ phaseHooks' = [phaseHooks EXCEPT ![x] = result]
        /\ UNCHANGED <<shutdownPhase, phaseStarted, shutdownCtxDone, managersClosed>>
    BY Zenon DEF PhaseHookReturns
  <1>2. phaseHooks' \in [AllHooks -> HookStates]
    BY Zenon, <1>1 DEF PhaseInv, HookStates, Returned
  <1>3. ASSUME NEW h \in AllHooks
        PROVE  \/ phaseHooks'[h] = phaseHooks[h]
               \/ phaseHooks[h] = "running" /\ phaseHooks'[h] \in Returned
    BY Zenon, <1>1 DEF PhaseInv, Returned
  <1> QED
    BY Zenon, <1>1, <1>2, <1>3, HooksOfPhases DEF PhaseInv, Returned

LEMMA PhaseEndKeeps ==
  ASSUME PhaseInv, PhaseEnds \/ PhaseCancelled
  PROVE  PhaseInv'
  <1>1. /\ phaseStarted /\ shutdownPhase' = shutdownPhase + 1 /\ ~phaseStarted'
        /\ UNCHANGED <<phaseHooks, shutdownCtxDone, managersClosed>>
    BY Zenon DEF PhaseEnds, PhaseCancelled, NextPhase
  <1>2. shutdownPhase \in ShutdownPhases /\ ~managersClosed /\ shutdownPhase' \in Nat \ {0}
    BY <1>1, HooksOfPhases DEF PhaseInv
  <1>3. ~shutdownCtxDone => \A h \in PhaseHooks[shutdownPhase] : phaseHooks[h] \in Returned
    BY Zenon, <1>1, <1>2 DEF PhaseInv, PhaseEnds, PhaseCancelled, UnfinishedHooks, HooksNow
  <1>4. ASSUME ~shutdownCtxDone, NEW p \in ShutdownPhases, NEW h \in PhaseHooks[p]
        PROVE  /\ p < shutdownPhase' => phaseHooks[h] \in Returned
               /\ p >= shutdownPhase' => phaseHooks[h] = "registered"
    <2>1. /\ p < shutdownPhase' => p < shutdownPhase \/ p = shutdownPhase
          /\ p >= shutdownPhase' => p > shutdownPhase
      BY <1>1, <1>2, HooksOfPhases
    <2>2. /\ p < shutdownPhase => phaseHooks[h] \in Returned
          /\ p > shutdownPhase => phaseHooks[h] = "registered"
      BY Zenon, <1>4 DEF PhaseInv
    <2> QED BY Zenon, <1>3, <1>4, <2>1, <2>2
  <1> QED
    BY <1>1, <1>2, <1>4, HooksOfPhases DEF PhaseInv

LEMMA PhaseStepKeeps == PhaseInv /\ [ShutdownNext]_shutdownVars => PhaseInv'
  <1> SUFFICES ASSUME PhaseInv, [ShutdownNext]_shutdownVars
               PROVE  PhaseInv'
    BY Zenon
  <1>1. CASE CloseManagers
    BY Zenon, <1>1 DEF PhaseInv, CloseManagers
  <1>2. CASE EndShutdownContext
    BY Zenon, <1>2 DEF PhaseInv, EndShutdownContext
  <1>3. CASE UNCHANGED shutdownVars
    BY Zenon, <1>3 DEF PhaseInv, shutdownVars
  <1> QED
    BY Zenon, <1>1, <1>2, <1>3, StartPhaseKeeps, HookReturnKeeps, PhaseEndKeeps DEF ShutdownNext, PhaseStep

(* Until its context ends, Shutdown runs a hook only when every hook of    *)
(* the earlier phases has returned, and closes the rest only after all of  *)
(* them, for any number of phases and hooks.                               *)
THEOREM PhasesStayInOrder == ShutdownSpec => []PhasesInOrder
  <1>1. ASSUME PhaseInv PROVE PhasesInOrder
    <2> SUFFICES ASSUME ~shutdownCtxDone PROVE PhasesInOrder
      BY Zenon DEF PhasesInOrder
    <2>1. ASSUME NEW p \in ShutdownPhases, NEW q \in ShutdownPhases, p < q,
                 NEW g \in PhaseHooks[p], NEW h \in PhaseHooks[q], phaseHooks[h] # "registered"
          PROVE  phaseHooks[g] \in Returned
      <3>1. ~(q > shutdownPhase)
        BY Zenon, <1>1, <2>1 DEF PhaseInv
      <3>2. p < shutdownPhase
        BY <1>1, <2>1, <3>1, HooksOfPhases DEF PhaseInv
      <3> QED
        BY Zenon, <1>1, <3>2 DEF PhaseInv
    <2>2. ASSUME managersClosed, NEW h \in AllHooks
          PROVE  phaseHooks[h] \in Returned
      <3>1. PICK p \in ShutdownPhases : h \in PhaseHooks[p]
        BY Zenon, HooksOfPhases
      <3>2. p < shutdownPhase
        BY <1>1, <2>2, HooksOfPhases DEF PhaseInv
      <3> QED
        BY Zenon, <1>1, <3>1, <3>2 DEF PhaseInv
    <2> QED
      BY Zenon, <2>1, <2>2 DEF PhasesInOrder, Returned
  <1> QED
    BY <1>1, PhaseInit, PhaseStepKeeps, PTL DEF ShutdownSpec

-----------------------------------------------------------------------------
(***************************************************************************)
(* The bulkhead counts what runs and answers the truth, for any number of  *)
(* calls, any concurrency and any queue.                                   *)
(***************************************************************************)

LEMMA BulkInit == NewBulkhead => BulkInv
  <1> SUFFICES ASSUME NewBulkhead PROVE BulkInv
    BY Zenon
  <1>1. Running = {} /\ Cardinality({}) = 0
    BY Zenon, FS_EmptySet DEF NewBulkhead, Running
  <1>2. BulkTypeOK
    BY DEF NewBulkhead, BulkTypeOK
  <1>3. QueueInv
    BY DEF NewBulkhead, QueueInv
  <1>4. CallsInv /\ BulkheadTellsTruth
    BY Zenon DEF NewBulkhead, CallsInv, BulkheadTellsTruth
  <1>5. SlotsMatchRunning
    BY <1>1, BulkheadAssumption DEF NewBulkhead, SlotsMatchRunning
  <1> QED
    BY Zenon, <1>2, <1>3, <1>4, <1>5 DEF BulkInv

(* One function more, or one less, runs. *)
LEMMA OneMoreRuns ==
  ASSUME BulkTypeOK, NEW c \in Calls, execution[c] # "running", execution' = [execution EXCEPT ![c] = "running"]
  PROVE  Cardinality(Running') = Cardinality(Running) + 1
  <1>1. Running' = Running \cup {c} /\ c \notin Running /\ Running \subseteq Calls
    BY Zenon DEF Running, BulkTypeOK
  <1>2. IsFiniteSet(Running)
    BY Zenon, <1>1, FS_Subset, BulkheadAssumption
  <1> QED
    BY Zenon, <1>1, <1>2, FS_AddElement

LEMMA OneLessRuns ==
  ASSUME BulkTypeOK, NEW c \in Calls, execution[c] = "running", execution' = [execution EXCEPT ![c] = "done"]
  PROVE  Cardinality(Running') = Cardinality(Running) - 1
  <1>1. Running' = Running \ {c} /\ c \in Running /\ Running \subseteq Calls
    BY Zenon DEF Running, BulkTypeOK
  <1>2. IsFiniteSet(Running)
    BY Zenon, <1>1, FS_Subset, BulkheadAssumption
  <1> QED
    BY Zenon, <1>1, <1>2, FS_RemoveElement

(* A call that neither runs a function nor touches the queue. *)
LEMMA CallMoves ==
  ASSUME BulkInv, NEW c \in Calls,
         ExecuteCancelled(c) \/ FoundFull(c) \/ TakeResult(c) \/ LeaveQueue(c) \/ ContextEnds(c)
  PROVE  BulkInv'
  <1>1. /\ UNCHANGED <<semaphore, bulkQueue, processor, slotHeld, execution, bulkResult>>
        /\ \A d \in Calls : d # c => bulkPC'[d] = bulkPC[d]
        /\ BulkTypeOK'
    BY Zenon DEF ExecuteCancelled, FoundFull, TakeResult, LeaveQueue, ContextEnds, BulkGoto, BulkInv, BulkTypeOK
  <1>2. \A d \in Calls : Pending(d) => Pending(d)'
    BY Zenon DEF ExecuteCancelled, FoundFull, TakeResult, LeaveQueue, ContextEnds, BulkGoto, BulkInv, BulkTypeOK, Pending
  <1>3. QueueInv'
    BY SMTT(60), <1>1, <1>2 DEF BulkInv, QueueInv, BulkTypeOK
  <1>4. CallsInv' /\ BulkheadTellsTruth'
    BY SMTT(60) DEF ExecuteCancelled, FoundFull, TakeResult, LeaveQueue, ContextEnds, BulkGoto, BulkInv, BulkTypeOK,
           CallsInv, BulkheadTellsTruth
  <1>5. SlotsMatchRunning'
    BY Zenon, <1>1 DEF BulkInv, SlotsMatchRunning, Running
  <1> QED
    BY Zenon, <1>1, <1>3, <1>4, <1>5 DEF BulkInv

LEMMA ExecuteNowKeeps ==
  ASSUME BulkInv, NEW c \in Calls, ExecuteNow(c)
  PROVE  BulkInv'
  <1>1. execution[c] = "none" /\ ~Pending(c)
    BY Zenon DEF ExecuteNow, BulkInv, CallsInv, Pending
  <1>2. BulkTypeOK'
    BY DEF ExecuteNow, BulkGoto, BulkInv, BulkTypeOK
  <1>3. \A d \in Calls : Pending(d) => Pending(d)'
    BY Zenon, <1>1 DEF ExecuteNow, BulkGoto, BulkInv, BulkTypeOK, Pending
  <1>4. QueueInv'
    BY <1>3 DEF ExecuteNow, BulkInv, BulkTypeOK, QueueInv
  <1>5. CallsInv' /\ BulkheadTellsTruth'
    BY Zenon DEF ExecuteNow, BulkGoto, BulkInv, BulkTypeOK, CallsInv, BulkheadTellsTruth
  <1>6. Cardinality(Running') = Cardinality(Running) + 1
    BY Zenon, <1>1, OneMoreRuns DEF ExecuteNow, BulkInv
  <1>7. SlotsMatchRunning'
    BY <1>6, BulkheadAssumption DEF ExecuteNow, BulkInv, BulkTypeOK, SlotsMatchRunning
  <1> QED
    BY Zenon, <1>2, <1>4, <1>5, <1>7 DEF BulkInv

LEMMA QueueingKeeps ==
  ASSUME BulkInv, NEW c \in Calls, ExecuteWithQueue(c)
  PROVE  BulkInv'
  <1>1. execution[c] = "none" /\ bulkResult[c] = "empty" /\ ~Pending(c)
    BY Zenon DEF ExecuteWithQueue, BulkInv, CallsInv, Pending
  <1>2. BulkTypeOK'
    BY SMTT(60) DEF ExecuteWithQueue, BulkGoto, BulkInv, BulkTypeOK
  <1>3. \A d \in Calls : Pending(d) => Pending(d)'
    BY Zenon, <1>1 DEF ExecuteWithQueue, BulkGoto, BulkInv, BulkTypeOK, Pending
  <1>4. QueueInv'
    <2>1. CASE bulkQueue' = bulkQueue
      BY <2>1, <1>3 DEF ExecuteWithQueue, BulkInv, BulkTypeOK, QueueInv
    <2>2. CASE bulkQueue' = Append(bulkQueue, c) /\ bulkPC' = [bulkPC EXCEPT ![c] = "queued"]
      <3>1. Pending(c)'
        BY Zenon, <2>2, <1>1 DEF ExecuteWithQueue, BulkInv, BulkTypeOK, Pending
      <3>2. c # slotHeld /\ \A i \in 1 .. Len(bulkQueue) : bulkQueue[i] # c
        BY Zenon, <1>1, BulkheadAssumption DEF BulkInv, QueueInv
      <3>3. /\ Len(bulkQueue') = Len(bulkQueue) + 1 /\ bulkQueue'[Len(bulkQueue) + 1] = c
            /\ \A i \in 1 .. Len(bulkQueue) : bulkQueue'[i] = bulkQueue[i] /\ bulkQueue[i] \in Calls
            /\ Len(bulkQueue) \in Nat
        BY <2>2 DEF BulkInv, BulkTypeOK
      <3>4. UNCHANGED <<processor, slotHeld>>
        BY Zenon DEF ExecuteWithQueue
      <3> QED
        BY <3>1, <3>2, <3>3, <3>4, <1>3 DEF BulkInv, QueueInv
    <2> QED
      BY Zenon, <2>1, <2>2 DEF ExecuteWithQueue, BulkGoto
  <1>5. CallsInv' /\ BulkheadTellsTruth'
    BY SMTT(60), <1>1 DEF ExecuteWithQueue, BulkGoto, BulkInv, BulkTypeOK, CallsInv, BulkheadTellsTruth
  <1>6. SlotsMatchRunning'
    BY Zenon DEF ExecuteWithQueue, BulkInv, SlotsMatchRunning, Running
  <1> QED
    BY Zenon, <1>2, <1>4, <1>5, <1>6 DEF BulkInv

LEMMA FinishKeeps ==
  ASSUME BulkInv, NEW c \in Calls, ExecuteWithSemaphore(c)
  PROVE  BulkInv'
  <1>1. ~Pending(c)
    BY Zenon DEF ExecuteWithSemaphore, Pending
  <1>2. Cardinality(Running') = Cardinality(Running) - 1
    BY Zenon, OneLessRuns DEF ExecuteWithSemaphore, BulkInv
  <1>3. Cardinality(Running) # 0
    <2>1. c \in Running /\ IsFiniteSet(Running)
      BY Zenon, FS_Subset, BulkheadAssumption DEF Running, ExecuteWithSemaphore
    <2> QED
      BY Zenon, <2>1, FS_EmptySet
  <1>4. BulkTypeOK' /\ SlotsMatchRunning'
    BY <1>2, <1>3, BulkheadAssumption DEF ExecuteWithSemaphore, BulkGoto, BulkInv, BulkTypeOK, SlotsMatchRunning
  <1>5. \A d \in Calls : Pending(d) => Pending(d)'
    BY Zenon, <1>1 DEF ExecuteWithSemaphore, BulkGoto, BulkInv, BulkTypeOK, Pending
  <1>6. QueueInv'
    BY <1>5 DEF ExecuteWithSemaphore, BulkInv, BulkTypeOK, QueueInv
  <1>7. CallsInv' /\ BulkheadTellsTruth'
    BY DEF ExecuteWithSemaphore, BulkGoto, BulkInv, BulkTypeOK, CallsInv, BulkheadTellsTruth
  <1> QED
    BY Zenon, <1>4, <1>6, <1>7 DEF BulkInv

LEMMA ReceivesKeeps ==
  ASSUME BulkInv, ProcessorReceives
  PROVE  BulkInv'
  <1>1. /\ Len(bulkQueue) \in Nat \ {0} /\ bulkQueue[1] \in Calls /\ slotHeld' = bulkQueue[1]
        /\ Len(bulkQueue') = Len(bulkQueue) - 1 /\ bulkQueue' \in Seq(Calls)
        /\ \A i \in 1 .. Len(bulkQueue') : bulkQueue'[i] = bulkQueue[i + 1] /\ bulkQueue[i + 1] \in Calls
    BY DEF ProcessorReceives, BulkInv, BulkTypeOK
  <1>2. BulkTypeOK'
    BY Zenon, <1>1 DEF ProcessorReceives, BulkInv, BulkTypeOK
  <1>3. \A d : Pending(d) => Pending(d)'
    BY Zenon DEF ProcessorReceives, Pending
  <1>4. \A i \in 1 .. Len(bulkQueue') : i + 1 \in 1 .. Len(bulkQueue) /\ i + 1 # 1
    BY <1>1
  <1>5. 1 \in 1 .. Len(bulkQueue)
    BY <1>1
  <1>6. QueueInv'
    BY <1>1, <1>3, <1>4, <1>5 DEF ProcessorReceives, BulkInv, QueueInv
  <1> QED
    BY Zenon, <1>2, <1>6 DEF ProcessorReceives, BulkInv, CallsInv, BulkheadTellsTruth, SlotsMatchRunning, Running

LEMMA ExecutesKeeps ==
  ASSUME BulkInv, ProcessorExecutes
  PROVE  BulkInv'
  <1>1. slotHeld \in Calls /\ Pending(slotHeld)
    BY Zenon DEF ProcessorExecutes, BulkInv, QueueInv
  <1>2. BulkTypeOK'
    BY <1>1 DEF ProcessorExecutes, BulkInv, BulkTypeOK
  <1>3. \A d \in Calls : d # slotHeld /\ Pending(d) => Pending(d)'
    BY Zenon, <1>1 DEF ProcessorExecutes, BulkInv, BulkTypeOK, Pending
  <1>4. \A i \in 1 .. Len(bulkQueue) : bulkQueue[i] \in Calls
    BY DEF BulkInv, BulkTypeOK
  <1>5. QueueInv'
    BY Zenon, <1>3, <1>4, BulkheadAssumption DEF ProcessorExecutes, BulkInv, QueueInv
  <1>6. CallsInv' /\ BulkheadTellsTruth'
    BY Zenon, <1>1 DEF ProcessorExecutes, BulkInv, BulkTypeOK, CallsInv, BulkheadTellsTruth, Pending
  <1>7. Cardinality(Running') = Cardinality(Running) + 1
    BY Zenon, <1>1, OneMoreRuns DEF ProcessorExecutes, BulkInv, Pending
  <1>8. SlotsMatchRunning'
    BY <1>7, BulkheadAssumption DEF ProcessorExecutes, BulkInv, BulkTypeOK, SlotsMatchRunning
  <1> QED
    BY Zenon, <1>2, <1>5, <1>6, <1>8 DEF BulkInv

LEMMA RefusesKeeps ==
  ASSUME BulkInv, ProcessorRefuses
  PROVE  BulkInv'
  <1>1. slotHeld \in Calls /\ Pending(slotHeld)
    BY Zenon DEF ProcessorRefuses, BulkInv, QueueInv
  <1>2. BulkTypeOK'
    BY Zenon, <1>1 DEF ProcessorRefuses, BulkInv, BulkTypeOK
  <1>3. \A d \in Calls : d # slotHeld /\ Pending(d) => Pending(d)'
    BY Zenon, <1>1 DEF ProcessorRefuses, BulkInv, BulkTypeOK, Pending
  <1>4. \A i \in 1 .. Len(bulkQueue) : bulkQueue[i] \in Calls
    BY DEF BulkInv, BulkTypeOK
  <1>5. QueueInv'
    BY Zenon, <1>3, <1>4, BulkheadAssumption DEF ProcessorRefuses, BulkInv, QueueInv
  <1>6. CallsInv' /\ BulkheadTellsTruth'
    BY Zenon, <1>1 DEF ProcessorRefuses, BulkInv, BulkTypeOK, CallsInv, BulkheadTellsTruth, Pending
  <1>7. SlotsMatchRunning'
    BY Zenon DEF ProcessorRefuses, BulkInv, SlotsMatchRunning, Running
  <1> QED
    BY Zenon, <1>2, <1>5, <1>6, <1>7 DEF BulkInv

LEMMA BulkStep == BulkInv /\ [BulkheadNext]_bulkVars => BulkInv'
  <1> SUFFICES ASSUME BulkInv, [BulkheadNext]_bulkVars PROVE BulkInv'
    BY Zenon
  <1>1. CASE UNCHANGED bulkVars
    BY SMTT(60), <1>1 DEF bulkVars, BulkInv, BulkTypeOK, QueueInv, Pending, CallsInv, SlotsMatchRunning, Running, BulkheadTellsTruth
  <1>2. CASE ProcessorStops \/ StopBulkhead
    <2>1. UNCHANGED <<semaphore, bulkQueue, slotHeld, bulkPC, execution, bulkResult>> /\ BulkTypeOK'
      BY Zenon, <1>2 DEF ProcessorStops, StopBulkhead, BulkInv, BulkTypeOK
    <2>2. processor' = "holding" <=> processor = "holding"
      BY Zenon, <1>2 DEF ProcessorStops, StopBulkhead
    <2>3. QueueInv'
      BY Zenon, <2>1, <2>2 DEF BulkInv, QueueInv, Pending
    <2> QED
      BY Zenon, <2>1, <2>3 DEF BulkInv, CallsInv, SlotsMatchRunning, Running, BulkheadTellsTruth
  <1>3. CASE BulkheadNext /\ ~ProcessorStops /\ ~StopBulkhead
    BY Zenon, <1>3, CallMoves, ExecuteNowKeeps, QueueingKeeps, FinishKeeps, ReceivesKeeps, ExecutesKeeps, RefusesKeeps
       DEF BulkheadNext, CallGoes, ProcessorStep
  <1> QED
    BY Zenon, <1>1, <1>2, <1>3

(* The semaphore counts the running functions and never admits more than   *)
(* MaxConcurrency, also for functions whose callers have left the queue.   *)
THEOREM BulkheadIsExact == BulkheadSpec => []SlotsMatchRunning
  <1>1. BulkInv => SlotsMatchRunning
    BY Zenon DEF BulkInv
  <1> QED
    BY <1>1, BulkInit, BulkStep, PTL DEF BulkheadSpec

(* No caller is told that its function ran when it did not, or that it was *)
(* refused when it runs.                                                   *)
THEOREM BulkheadAnswersTruly == BulkheadSpec => []BulkheadTellsTruth
  <1>1. BulkInv => BulkheadTellsTruth
    BY Zenon DEF BulkInv
  <1> QED
    BY <1>1, BulkInit, BulkStep, PTL DEF BulkheadSpec

-----------------------------------------------------------------------------
(***************************************************************************)
(* The registry stays within its limit and failed batches are rolled back. *)
(* A component of a batch that nobody disturbs is among the names the      *)
(* batch remembers, because a name that Exists found is still there when   *)
(* the batch registers it.                                                 *)
(***************************************************************************)
ManyPoints == {"idle", "register", "rollback", "done", "failed"}

BatchInv(b) ==
  /\ \A n \in ComponentNames : components[n] = b => n \in manyRegistered[b] \/ manyPC[b] = "done"
  /\ manyPC[b] = "register" /\ manyExisted[b] => components[manyName[b]] # "none"

RegistryInv ==
  /\ components \in [ComponentNames -> ManyIDs \cup SingleCalls \cup {"none"}]
  /\ manyPC \in [ManyIDs -> ManyPoints]
  /\ manyLeft \in [ManyIDs -> SUBSET ComponentNames]
  /\ manyRegistered \in [ManyIDs -> SUBSET ComponentNames]
  /\ manyExisted \in [ManyIDs -> BOOLEAN]
  /\ DOMAIN manyName = ManyIDs
  /\ \A b \in ManyIDs : /\ manyPC[b] = "register" => manyName[b] \in ComponentNames
                        /\ manyPC[b] = "failed" => manyRegistered[b] = {}
  /\ Cardinality(RegisteredNames) <= MaxComponents
  /\ undisturbed \subseteq ManyIDs
  /\ \A b \in undisturbed : BatchInv(b)

LEMMA FewerComponents ==
  ASSUME RegistryInv, RegisteredNames' \subseteq RegisteredNames
  PROVE  Cardinality(RegisteredNames)' <= MaxComponents
  <1>1. IsFiniteSet(RegisteredNames)
    BY Zenon, RegistryAssumption, FS_Subset DEF RegisteredNames
  <1>2. /\ Cardinality(RegisteredNames') <= Cardinality(RegisteredNames)
        /\ Cardinality(RegisteredNames') \in Nat /\ Cardinality(RegisteredNames) \in Nat
    BY Zenon, <1>1, FS_Subset, FS_CardinalityType
  <1> QED
    BY <1>2, RegistryAssumption DEF RegistryInv

LEMMA OneMoreComponent ==
  ASSUME RegistryInv, NEW n \in ComponentNames, CanRegister(n), NEW c \in ManyIDs \cup SingleCalls,
         components' = [components EXCEPT ![n] = c]
  PROVE  Cardinality(RegisteredNames)' <= MaxComponents
  <1>1. IsFiniteSet(RegisteredNames) /\ Cardinality(RegisteredNames) \in Nat
    BY Zenon, RegistryAssumption, FS_Subset, FS_CardinalityType DEF RegisteredNames
  <1>2. RegisteredNames' \subseteq RegisteredNames \cup {n}
    BY Zenon DEF RegistryInv, RegisteredNames
  <1>3. CASE n \in RegisteredNames
    BY Zenon, <1>2, <1>3, FewerComponents
  <1>4. CASE n \notin RegisteredNames
    <2>1. Cardinality(RegisteredNames) < MaxComponents
      BY <1>1, <1>4, RegistryAssumption DEF CanRegister, RegisteredNames
    <2>2. /\ IsFiniteSet(RegisteredNames \cup {n})
          /\ Cardinality(RegisteredNames \cup {n}) = Cardinality(RegisteredNames) + 1
      BY Zenon, <1>1, <1>4, FS_AddElement
    <2>3. /\ Cardinality(RegisteredNames') <= Cardinality(RegisteredNames \cup {n})
          /\ Cardinality(RegisteredNames') \in Nat
      BY Zenon, <1>2, <2>2, FS_Subset, FS_CardinalityType
    <2> QED
      BY <1>1, <2>1, <2>2, <2>3, RegistryAssumption
  <1> QED
    BY Zenon, <1>3, <1>4

LEMMA RegistryInit == NewRegistryManager => RegistryInv
  <1> SUFFICES ASSUME NewRegistryManager PROVE RegistryInv
    BY Zenon
  <1> RegisteredNames = {}
    BY Zenon DEF NewRegistryManager, RegisteredNames
  <1>1. Cardinality(RegisteredNames) <= MaxComponents
    BY RegistryAssumption, FS_EmptySet
  <1>2. /\ components \in [ComponentNames -> ManyIDs \cup SingleCalls \cup {"none"}]
        /\ manyPC \in [ManyIDs -> ManyPoints] /\ manyRegistered \in [ManyIDs -> SUBSET ComponentNames]
        /\ manyLeft \in [ManyIDs -> SUBSET ComponentNames]
        /\ DOMAIN manyName = ManyIDs /\ \A b \in ManyIDs : manyPC[b] = "idle"
    BY Zenon, RegistryAssumption DEF NewRegistryManager, ManyPoints
  <1>4. manyExisted \in [ManyIDs -> BOOLEAN]
    BY Zenon DEF NewRegistryManager
  <1>3. \A b \in undisturbed : BatchInv(b)
    BY Zenon, <1>2, RegistryAssumption DEF NewRegistryManager, BatchInv
  <1> QED
    BY Zenon, <1>1, <1>2, <1>3, <1>4 DEF RegistryInv, NewRegistryManager

LEMMA RegisterKeeps ==
  ASSUME RegistryInv, NEW n \in ComponentNames, NEW c \in SingleCalls, RegisterOne(c, n)
  PROVE  RegistryInv'
  <1>1. CASE ~CanRegister(n)
    <2>1. UNCHANGED <<components, manyVars, undisturbed>>
      BY Zenon, <1>1 DEF RegisterOne
    <2> QED
      BY Zenon, <2>1 DEF RegistryInv, BatchInv, RegisteredNames, manyVars
  <1>2. CASE CanRegister(n)
    <2>1. /\ components' = [components EXCEPT ![n] = c]
          /\ UNCHANGED <<manyPC, manyLeft, manyName, manyExisted, manyRegistered, undisturbed>>
      BY Zenon, <1>2 DEF RegisterOne, manyVars
    <2>2. Cardinality(RegisteredNames)' <= MaxComponents
      BY Zenon, <1>2, <2>1, OneMoreComponent
    <2>3. components' \in [ComponentNames -> ManyIDs \cup SingleCalls \cup {"none"}]
      BY Zenon, <2>1 DEF RegistryInv
    <2>4. c \notin ManyIDs /\ c # "none"
      BY Zenon, RegistryAssumption
    <2>5. ASSUME NEW b \in undisturbed PROVE BatchInv(b)'
      <3>1. b \in ManyIDs /\ b # c /\ BatchInv(b)
        BY Zenon, <2>4 DEF RegistryInv
      <3>2. \A m \in ComponentNames : components'[m] = b => components[m] = b
        BY Zenon, <2>1, <3>1 DEF RegistryInv
      <3>3. \A m \in ComponentNames : components[m] # "none" => components'[m] # "none"
        BY Zenon, <2>1, <2>4 DEF RegistryInv
      <3> QED
        BY Zenon, <2>1, <3>1, <3>2, <3>3 DEF RegistryInv, BatchInv
    <2> QED
      BY Zenon, <2>1, <2>2, <2>3, <2>5 DEF RegistryInv
  <1> QED
    BY Zenon, <1>1, <1>2

\* Unregister, Clear, and the roll-back of another batch.
LEMMA RemovesKeep ==
  ASSUME RegistryInv,
         components' \in [ComponentNames -> ManyIDs \cup SingleCalls \cup {"none"}],
         \A n \in ComponentNames : components'[n] \in {components[n], "none"},
         NEW b \in undisturbed, b \notin ManyUnderway,
         UNCHANGED <<manyName, manyExisted>>, manyPC'[b] = manyPC[b], manyRegistered'[b] = manyRegistered[b]
  PROVE  BatchInv(b)'
  <1>1. b \in ManyIDs /\ BatchInv(b) /\ b # "none"
    BY Zenon, RegistryAssumption DEF RegistryInv
  <1>2. manyPC[b] # "register"
    BY Zenon, <1>1 DEF ManyUnderway
  <1>3. \A n \in ComponentNames : components'[n] = b => components[n] = b
    BY Zenon, <1>1
  <1> QED
    BY Zenon, <1>1, <1>2, <1>3 DEF BatchInv

LEMMA UnregisterKeeps ==
  ASSUME RegistryInv, ClearRegistry \/ \E n \in ComponentNames : UnregisterOne(n)
  PROVE  RegistryInv'
  <1>1. /\ UNCHANGED <<manyPC, manyLeft, manyName, manyExisted, manyRegistered>>
        /\ undisturbed' = undisturbed \ ManyUnderway
    BY Zenon DEF ClearRegistry, UnregisterOne, manyVars
  <1>2. /\ components' \in [ComponentNames -> ManyIDs \cup SingleCalls \cup {"none"}]
        /\ \A n \in ComponentNames : components'[n] \in {components[n], "none"}
    BY Zenon DEF RegistryInv, ClearRegistry, UnregisterOne
  <1>3. Cardinality(RegisteredNames)' <= MaxComponents
    BY Zenon, <1>2, FewerComponents DEF RegisteredNames
  <1>4. \A b \in undisturbed' : BatchInv(b)'
    BY Zenon, <1>1, <1>2, RemovesKeep
  <1> QED
    BY Zenon, <1>1, <1>2, <1>3, <1>4 DEF RegistryInv

LEMMA ManyExistsKeeps ==
  ASSUME RegistryInv, NEW b \in ManyIDs, NEW n \in ManyCalls[b], ManyExists(b, n)
  PROVE  RegistryInv'
  <1>1. n \in ComponentNames
    BY Zenon, RegistryAssumption
  <1>2. /\ manyPC[b] = "idle" /\ manyPC' = [manyPC EXCEPT ![b] = "register"]
        /\ manyName' = [manyName EXCEPT ![b] = n] /\ manyLeft' = [manyLeft EXCEPT ![b] = @ \ {n}]
        /\ manyExisted' = [manyExisted EXCEPT ![b] = components[n] # "none"]
        /\ UNCHANGED <<components, manyRegistered, undisturbed>>
    BY Zenon DEF ManyExists
  <1>3. /\ manyPC' \in [ManyIDs -> ManyPoints] /\ manyLeft' \in [ManyIDs -> SUBSET ComponentNames]
        /\ DOMAIN manyName' = ManyIDs
    BY Zenon, <1>2 DEF RegistryInv, ManyPoints
  <1>4. manyExisted' \in [ManyIDs -> BOOLEAN]
    BY Zenon, <1>2 DEF RegistryInv
  <1>5. \A d \in ManyIDs : /\ manyPC'[d] = "register" => manyName'[d] \in ComponentNames
                           /\ manyPC'[d] = "failed" => manyRegistered'[d] = {}
    BY Zenon, <1>1, <1>2 DEF RegistryInv
  <1>6. ASSUME NEW d \in undisturbed PROVE BatchInv(d)'
    <2>1. d \in ManyIDs /\ BatchInv(d)
      BY Zenon DEF RegistryInv
    <2>2. CASE d = b
      <3>1. manyExisted'[b] <=> components[n] # "none"
        BY Zenon, <1>2 DEF RegistryInv
      <3> QED
        BY Zenon, <1>2, <2>1, <2>2, <3>1 DEF RegistryInv, BatchInv
    <2>3. CASE d # b
      BY Zenon, <1>2, <2>1, <2>3 DEF RegistryInv, BatchInv
    <2> QED
      BY Zenon, <2>2, <2>3
  <1> QED
    BY <1>2, <1>3, <1>4, <1>5, <1>6 DEF RegistryInv, RegisteredNames

LEMMA ManyRegisterKeeps ==
  ASSUME RegistryInv, NEW b \in ManyIDs, ManyRegister(b)
  PROVE  RegistryInv'
  <1> DEFINE n == manyName[b]
  <1>1. manyPC[b] = "register" /\ n \in ComponentNames /\ b # "none"
    BY Zenon, RegistryAssumption DEF ManyRegister, RegistryInv
  <1>2. UNCHANGED <<manyLeft, manyName, manyExisted, undisturbed>>
    BY Zenon DEF ManyRegister
  <1>3. CASE ~CanRegister(n)
    <2>1. manyPC' = [manyPC EXCEPT ![b] = "rollback"] /\ UNCHANGED <<components, manyRegistered>>
      BY Zenon, <1>3 DEF ManyRegister
    <2>2. manyPC' \in [ManyIDs -> ManyPoints]
      BY Zenon, <2>1 DEF RegistryInv, ManyPoints
    <2>3. \A d \in undisturbed : BatchInv(d)'
      BY Zenon, <1>1, <1>2, <2>1 DEF RegistryInv, BatchInv
    <2> QED
      BY Zenon, <1>2, <2>1, <2>2, <2>3 DEF RegistryInv, RegisteredNames
  <1>4. CASE CanRegister(n)
    <2>1. /\ components' = [components EXCEPT ![n] = b]
          /\ manyRegistered' = [manyRegistered EXCEPT ![b] =
                IF ~manyExisted[b] \/ allowOverwrite THEN @ \cup {n} ELSE @]
          /\ manyPC' = [manyPC EXCEPT ![b] = IF manyLeft[b] = {} THEN "done" ELSE "idle"]
      BY Zenon, <1>4 DEF ManyRegister
    <2>2. Cardinality(RegisteredNames)' <= MaxComponents
      BY Zenon, <1>1, <1>4, <2>1, OneMoreComponent
    <2>3. /\ components' \in [ComponentNames -> ManyIDs \cup SingleCalls \cup {"none"}]
          /\ manyPC' \in [ManyIDs -> ManyPoints]
          /\ manyRegistered' \in [ManyIDs -> SUBSET ComponentNames]
      BY Zenon, <1>1, <2>1 DEF RegistryInv, ManyPoints
    <2>4. manyPC'[b] \in {"done", "idle"}
      BY Zenon, <2>1 DEF RegistryInv
    <2>5. b \in undisturbed => n \in manyRegistered'[b]
      <3>1. b \in undisturbed /\ manyExisted[b] => allowOverwrite
        BY Zenon, <1>1, <1>4 DEF RegistryInv, BatchInv, CanRegister
      <3> QED
        BY Zenon, <2>1, <3>1 DEF RegistryInv
    <2>6. ASSUME NEW d \in undisturbed PROVE BatchInv(d)'
      <3>1. d \in ManyIDs /\ BatchInv(d)
        BY Zenon DEF RegistryInv
      <3>2. CASE d = b
        <4>1. \A m \in ComponentNames : m # n => components'[m] = components[m]
          BY Zenon, <2>1 DEF RegistryInv
        <4>2. manyRegistered[b] \subseteq manyRegistered'[b]
          BY Zenon, <2>1 DEF RegistryInv
        <4> QED
          BY Zenon, <1>1, <2>4, <2>5, <3>1, <3>2, <4>1, <4>2 DEF BatchInv
      <3>3. CASE d # b
        <4>1. manyPC'[d] = manyPC[d] /\ manyRegistered'[d] = manyRegistered[d]
          BY Zenon, <2>1, <3>1, <3>3 DEF RegistryInv
        <4>2. \A m \in ComponentNames : components'[m] = IF m = n THEN b ELSE components[m]
          BY Zenon, <2>1 DEF RegistryInv
        <4>3. manyPC[d] = "register" => manyName[d] \in ComponentNames
          BY Zenon, <3>1 DEF RegistryInv
        <4> QED
          BY Zenon, <1>1, <1>2, <3>1, <3>3, <4>1, <4>2, <4>3 DEF BatchInv
      <3> QED
        BY Zenon, <3>2, <3>3
    <2>7. \A d \in ManyIDs : /\ manyPC'[d] = "register" => manyName'[d] \in ComponentNames
                             /\ manyPC'[d] = "failed" => manyRegistered'[d] = {}
      BY Zenon, <1>2, <2>1, <2>4 DEF RegistryInv
    <2> QED
      BY Zenon, <1>2, <2>2, <2>3, <2>6, <2>7 DEF RegistryInv
  <1> QED
    BY Zenon, <1>3, <1>4

LEMMA ManyRollbackKeeps ==
  ASSUME RegistryInv, NEW b \in ManyIDs, ManyRollback(b)
  PROVE  RegistryInv'
  <1>1. manyPC[b] = "rollback" /\ UNCHANGED <<manyLeft, manyName, manyExisted>> /\ b # "none"
    BY Zenon, RegistryAssumption DEF ManyRollback
  <1>2. CASE manyRegistered[b] = {} /\ manyPC' = [manyPC EXCEPT ![b] = "failed"]
             /\ UNCHANGED <<components, manyRegistered, undisturbed>>
    <2>1. manyPC' \in [ManyIDs -> ManyPoints]
      BY Zenon, <1>2 DEF RegistryInv, ManyPoints
    <2>2. \A d \in undisturbed : BatchInv(d)'
      BY Zenon, <1>1, <1>2 DEF RegistryInv, BatchInv
    <2> QED
      BY Zenon, <1>1, <1>2, <2>1, <2>2 DEF RegistryInv, RegisteredNames
  <1>3. ASSUME NEW n \in manyRegistered[b], components' = [components EXCEPT ![n] = "none"],
               manyRegistered' = [manyRegistered EXCEPT ![b] = @ \ {n}],
               undisturbed' = undisturbed \ (ManyUnderway \ {b}), UNCHANGED manyPC
        PROVE  RegistryInv'
    <2>1. n \in ComponentNames
      BY Zenon DEF RegistryInv
    <2>2. /\ components' \in [ComponentNames -> ManyIDs \cup SingleCalls \cup {"none"}]
          /\ \A m \in ComponentNames : components'[m] = IF m = n THEN "none" ELSE components[m]
          /\ manyRegistered' \in [ManyIDs -> SUBSET ComponentNames]
      BY Zenon, <1>3, <2>1 DEF RegistryInv
    <2>3. Cardinality(RegisteredNames)' <= MaxComponents
      BY Zenon, <2>2, FewerComponents DEF RegisteredNames
    <2>4. ASSUME NEW d \in undisturbed' PROVE BatchInv(d)'
      <3>1. d \in undisturbed /\ d \in ManyIDs /\ BatchInv(d)
        BY Zenon, <1>3 DEF RegistryInv
      <3>2. CASE d = b
        <4>1. manyRegistered'[b] = manyRegistered[b] \ {n}
          BY Zenon, <1>3 DEF RegistryInv
        <4> QED
          BY Zenon, <1>1, <1>3, <2>2, <3>1, <3>2, <4>1 DEF BatchInv
      <3>3. CASE d # b
        <4>1. d \notin ManyUnderway /\ manyRegistered'[d] = manyRegistered[d] /\ manyPC'[d] = manyPC[d]
          BY Zenon, <1>3, <3>1, <3>3 DEF RegistryInv
        <4>2. \A m \in ComponentNames : components'[m] \in {components[m], "none"}
          BY Zenon, <2>2
        <4> QED
          BY Zenon, <1>1, <2>2, <3>1, <4>1, <4>2, RemovesKeep
      <3> QED
        BY Zenon, <3>2, <3>3
    <2>5. \A d \in ManyIDs : /\ manyPC'[d] = "register" => manyName'[d] \in ComponentNames
                             /\ manyPC'[d] = "failed" => manyRegistered'[d] = {}
      BY Zenon, <1>1, <1>3 DEF RegistryInv
    <2> QED
      BY Zenon, <1>1, <1>3, <2>2, <2>3, <2>4, <2>5 DEF RegistryInv
  <1> QED
    BY Zenon, <1>2, <1>3 DEF ManyRollback

LEMMA RegistryStep == RegistryInv /\ [RegistryNext]_regVars => RegistryInv'
  <1> SUFFICES ASSUME RegistryInv, [RegistryNext]_regVars
               PROVE  RegistryInv'
    BY Zenon
  <1>1. CASE UNCHANGED regVars
    BY Zenon, <1>1 DEF regVars, RegistryInv, BatchInv, RegisteredNames
  <1> QED
    BY Zenon, <1>1, RegisterKeeps, UnregisterKeeps, ManyExistsKeeps, ManyRegisterKeeps, ManyRollbackKeeps DEF RegistryNext

(* The registry keeps its limit, and a RegisterMany that fails undisturbed *)
(* leaves nothing behind, for any number of batches and calls.             *)
THEOREM BatchesAlwaysRollBack == RegistrySpec => []BatchesRollBack
  <1>1. RegistryInv => BatchesRollBack
    BY Zenon DEF RegistryInv, BatchInv, BatchesRollBack
  <1> QED
    BY <1>1, RegistryInit, RegistryStep, PTL DEF RegistrySpec

-----------------------------------------------------------------------------
(***************************************************************************)
(* The actor supervisor runs no child twice.  An instance that was not     *)
(* told to end is the one whose cancel function childCan holds, and the    *)
(* children that are still to be started have none.                        *)
(***************************************************************************)

Instances == [child : ActorChildren, pc : {"created", "unborn", "running", "ended", "gone"},
              err : {"none", "over", "failed"}]
ResultsOfChildren == [child : ActorChildren, err : {"none", "over", "failed"}]

Live(i) == instances[i].pc \in {"created", "running"} /\ i \notin overContexts
Creating(i) == instances[i].pc \in {"created", "unborn"}

ActorTypeInv ==
  /\ instances \in Seq(Instances) /\ childResults \in Seq(ResultsOfChildren)
  /\ childCan \in [ActorChildren -> Nat] /\ childrenToStart \in Seq(ActorChildren)
  /\ actorPC \in {"starting", "select", "returned"}

\* The children to start are different; the one that is created is the first.
StartingInv ==
  /\ \A k, l \in DOMAIN childrenToStart : k # l => childrenToStart[k] # childrenToStart[l]
  /\ \A i \in InstanceIDs : Creating(i) =>
        /\ actorPC = "starting" /\ childrenToStart # <<>> /\ instances[i].child = childrenToStart[1]
        /\ \A j \in InstanceIDs : Creating(j) => j = i
  /\ actorPC = "starting" =>
        \A k \in DOMAIN childrenToStart, i \in InstanceIDs :
           Live(i) /\ instances[i].child = childrenToStart[k] => k = 1 /\ Creating(i)

LiveInv ==
  /\ \A i \in InstanceIDs : Live(i) => childCan[instances[i].child] = i
  /\ actorPC = "returned" => \A i \in InstanceIDs : ~Live(i)

ActorInv == ActorTypeInv /\ StartingInv /\ LiveInv

LEMMA InstanceType ==
  ASSUME ActorTypeInv, NEW i \in InstanceIDs
  PROVE  /\ i \in 1 .. Len(instances) /\ i \in Nat \ {0}
         /\ instances[i] \in Instances /\ instances[i].child \in ActorChildren
  <1>1. i \in 1 .. Len(instances) /\ i \in Nat \ {0} /\ instances[i] \in Instances
    BY DEF ActorTypeInv, InstanceIDs
  <1> QED
    BY Zenon, <1>1 DEF Instances

LEMMA InstanceMoves ==
  ASSUME ActorTypeInv, NEW i \in InstanceIDs, NEW pc \in {"unborn", "running", "ended", "gone"},
         NEW err \in {"none", "over", "failed"},
         instances' = [instances EXCEPT ![i] = [instances[i] EXCEPT !.pc = pc, !.err = err]]
  PROVE  /\ instances' \in Seq(Instances) /\ InstanceIDs' = InstanceIDs
         /\ \A j \in InstanceIDs : instances'[j].child = instances[j].child
         /\ \A j \in InstanceIDs : instances'[j].pc = IF j = i THEN pc ELSE instances[j].pc
  <1> DEFINE r == [instances[i] EXCEPT !.pc = pc, !.err = err]
  <1>1. r \in Instances /\ r.child = instances[i].child /\ r.pc = pc
    BY Zenon, InstanceType DEF Instances
  <1> HIDE DEF r
  <1>2. instances' = [instances EXCEPT ![i] = r]
    BY Zenon DEF r
  <1>3. instances' \in Seq(Instances) /\ InstanceIDs' = InstanceIDs
    BY <1>1, <1>2 DEF ActorTypeInv, InstanceIDs
  <1>4. \A j \in InstanceIDs : instances'[j] = IF j = i THEN r ELSE instances[j]
    BY Zenon, <1>2 DEF ActorTypeInv, InstanceIDs
  <1> QED
    BY <1>1, <1>3, <1>4

LEMMA GotoMoves ==
  ASSUME ActorTypeInv, NEW i \in InstanceIDs, NEW pc \in {"unborn", "running", "gone"}, InstanceGoto(i, pc)
  PROVE  /\ instances' \in Seq(Instances) /\ InstanceIDs' = InstanceIDs
         /\ \A j \in InstanceIDs : instances'[j].child = instances[j].child
         /\ \A j \in InstanceIDs : instances'[j].pc = IF j = i THEN pc ELSE instances[j].pc
  <1>1. instances[i] \in Instances /\ instances[i].err \in {"none", "over", "failed"}
    BY Zenon, InstanceType DEF Instances
  <1>2. PICK err \in {"none", "over", "failed"} : err = instances[i].err
    BY Zenon, <1>1
  <1>3. [instances[i] EXCEPT !.pc = pc] = [instances[i] EXCEPT !.pc = pc, !.err = err]
    BY Zenon, <1>1, <1>2 DEF Instances
  <1>4. instances' = [instances EXCEPT ![i] = [instances[i] EXCEPT !.pc = pc]]
    BY Zenon DEF InstanceGoto
  <1>5. instances' = [instances EXCEPT ![i] = [instances[i] EXCEPT !.pc = pc, !.err = err]]
    BY Zenon, <1>3, <1>4
  <1>6. pc \in {"unborn", "running", "ended", "gone"}
    BY Zenon
  <1> QED
    BY ZenonT(30), <1>2, <1>5, <1>6, InstanceMoves

LEMMA ActorInit == NewActorSupervisor => ActorInv
  <1> SUFFICES ASSUME NewActorSupervisor PROVE ActorInv
    BY Zenon
  <1>1. childrenToStart = [k \in 1 .. Len(Actors) |-> k] /\ childrenToStart \in Seq(ActorChildren)
    BY ActorsAssumption DEF NewActorSupervisor
  <1>2. InstanceIDs = {} /\ instances \in Seq(Instances) /\ childResults \in Seq(ResultsOfChildren)
    BY DEF NewActorSupervisor, InstanceIDs
  <1>3. childCan \in [ActorChildren -> Nat] /\ actorPC \in {"starting", "select", "returned"}
    BY Zenon DEF NewActorSupervisor
  <1>4. StartingInv
    BY Zenon, <1>1, <1>2, ActorsAssumption DEF StartingInv
  <1>5. LiveInv
    BY Zenon, <1>2 DEF LiveInv
  <1> QED
    BY Zenon, <1>1, <1>2, <1>3, <1>4, <1>5 DEF ActorInv, ActorTypeInv

LEMMA ReportType ==
  ASSUME ActorTypeInv, NEW i \in InstanceIDs, NEW err \in {"none", "over", "failed"}, ReportResult(i, err)
  PROVE  childResults' \in Seq(ResultsOfChildren)
  BY InstanceType DEF ActorTypeInv, ReportResult, ResultsOfChildren

\* A step that makes no instance live and leaves childCan and childrenToStart.
LEMMA QuietKeeps ==
  ASSUME ActorInv, ActorTypeInv', InstanceIDs' = InstanceIDs, UNCHANGED <<childCan, childrenToStart>>,
         \A i \in InstanceIDs : /\ instances'[i].child = instances[i].child
                                /\ Creating(i)' = Creating(i) /\ (Live(i)' => Live(i)),
         \/ UNCHANGED actorPC
         \/ actorPC' = "returned" /\ actorPC # "starting" /\ \A i \in InstanceIDs : ~Live(i)'
  PROVE  ActorInv'
  <1>1. StartingInv'
    BY DEF ActorInv, StartingInv
  <1>2. LiveInv'
    BY Zenon DEF ActorInv, LiveInv
  <1> QED
    BY Zenon, <1>1, <1>2 DEF ActorInv

LEMMA StopChildrenEndsAll ==
  ASSUME ActorInv, StopChildren, UNCHANGED <<instances, childCan>>
  PROVE  \A i \in InstanceIDs : ~Live(i)' /\ Creating(i)' = Creating(i)
  <1> SUFFICES ASSUME NEW i \in InstanceIDs PROVE ~Live(i)' /\ Creating(i)' = Creating(i)
    BY Zenon
  <1>1. i \in Nat \ {0} /\ instances[i].child \in ActorChildren
    BY Zenon, InstanceType DEF ActorInv
  <1>2. Live(i) => i \in HeldContexts
    BY Zenon, <1>1 DEF ActorInv, LiveInv, HeldContexts
  <1> QED
    BY Zenon, <1>2 DEF StopChildren, Live, Creating

LEMMA StartOneKeeps ==
  ASSUME ActorInv, StartOne
  PROVE  ActorInv'
  <1> PICK a, n : a = childrenToStart[1] /\ n = Len(instances) + 1
    BY Zenon
  <1>1. /\ actorPC = "starting" /\ childrenToStart # <<>> /\ Head(childrenToStart) = a /\ a \in ActorChildren
        /\ 1 \in DOMAIN childrenToStart
    BY DEF StartOne, ActorInv, ActorTypeInv
  <1>2. /\ instances' = Append(instances, [child |-> a, pc |-> "created", err |-> "none"])
        /\ UNCHANGED <<overContexts, childResults, actorPC, childrenToStart>>
        /\ \A i \in InstanceIDs : ~Creating(i)
    BY Zenon, <1>1 DEF StartOne, Creating
  <1>3. /\ instances' \in Seq(Instances) /\ InstanceIDs' = InstanceIDs \cup {n} /\ n \notin InstanceIDs
        /\ \A i \in InstanceIDs : instances'[i] = instances[i]
        /\ instances'[n] = [child |-> a, pc |-> "created", err |-> "none"] /\ Len(instances') = n /\ n \in Nat
    BY <1>1, <1>2 DEF ActorInv, ActorTypeInv, Instances, InstanceIDs
  <1>4. childCan' = [childCan EXCEPT ![a] = n]
    BY Zenon, <1>1, <1>3 DEF StartOne
  <1>5. ActorTypeInv'
    BY Zenon, <1>1, <1>2, <1>3, <1>4 DEF ActorInv, ActorTypeInv
  <1>6. \A i \in InstanceIDs : Live(i)' = Live(i) /\ Creating(i)' = Creating(i)
    BY Zenon, <1>2, <1>3 DEF Live, Creating
  <1>7. \A i \in InstanceIDs : Live(i) => instances[i].child # a
    BY Zenon, <1>1, <1>2 DEF ActorInv, StartingInv
  <1>8. Creating(n)'
    BY <1>3 DEF Creating
  <1>9. LiveInv'
    <2>1. ASSUME NEW i \in InstanceIDs, Live(i)' PROVE childCan'[instances'[i].child] = i
      <3>1. instances[i].child \in ActorChildren
        BY Zenon, InstanceType DEF ActorInv
      <3> QED
        BY Zenon, <1>3, <1>4, <1>6, <1>7, <2>1, <3>1 DEF ActorInv, LiveInv, ActorTypeInv
    <2>2. childCan'[instances'[n].child] = n
      BY <1>1, <1>3, <1>4 DEF ActorInv, ActorTypeInv
    <2> QED
      BY Zenon, <1>1, <1>2, <1>3, <2>1, <2>2 DEF LiveInv
  <1>10. StartingInv'
    <2>1. \A k \in DOMAIN childrenToStart : instances'[n].child = childrenToStart[k] => k = 1
      BY <1>1, <1>3 DEF ActorInv, StartingInv
    <2>2. \A k, l \in DOMAIN childrenToStart : k # l => childrenToStart[k] # childrenToStart[l]
      BY Zenon DEF ActorInv, StartingInv
    <2>3. \A i \in InstanceIDs' : Creating(i)' => i = n
      BY ZenonT(60), <1>2, <1>3, <1>6
    <2>4. \A k \in DOMAIN childrenToStart, i \in InstanceIDs' :
             Live(i)' /\ instances'[i].child = childrenToStart[k] => k = 1 /\ Creating(i)'
      <3> SUFFICES ASSUME NEW k \in DOMAIN childrenToStart, NEW i \in InstanceIDs',
                          Live(i)', instances'[i].child = childrenToStart[k]
                   PROVE  k = 1 /\ Creating(i)'
        BY Zenon
      <3>1. CASE i = n
        BY Zenon, <1>8, <2>1, <3>1
      <3>2. CASE i \in InstanceIDs
        BY Zenon, <1>1, <1>2, <1>3, <1>6, <3>2 DEF ActorInv, StartingInv
      <3> QED BY Zenon, <1>3, <3>1, <3>2
    <2>5. instances'[n].child = childrenToStart[1]
      BY <1>3
    <2> QED
      BY ZenonT(60), <1>1, <1>2, <2>2, <2>3, <2>4, <2>5 DEF StartingInv
  <1> QED
    BY Zenon, <1>5, <1>9, <1>10 DEF ActorInv

\* spec.Start has returned: with a runner, or with an error that is sent.
LEMMA CreatedKeeps ==
  ASSUME ActorInv, NEW i \in InstanceIDs, StartOneRuns(i) \/ SendStartFailure(i)
  PROVE  ActorInv'
  <1>1. PICK pc \in {"running", "gone"} :
          InstanceGoto(i, pc) /\ Creating(i) /\ (pc = "running" => instances[i].pc = "created")
    BY Zenon DEF StartOneRuns, SendStartFailure, Creating
  <1>2. childrenToStart' = Tail(childrenToStart) /\ UNCHANGED <<overContexts, childCan, actorPC>>
    BY Zenon DEF StartOneRuns, SendStartFailure
  <1>3. /\ instances' \in Seq(Instances) /\ InstanceIDs' = InstanceIDs
        /\ \A j \in InstanceIDs : instances'[j].child = instances[j].child
        /\ \A j \in InstanceIDs : instances'[j].pc = IF j = i THEN pc ELSE instances[j].pc
    BY Zenon, <1>1, GotoMoves DEF ActorInv
  <1>4. childResults' \in Seq(ResultsOfChildren)
    BY Zenon, ReportType DEF StartOneRuns, SendStartFailure, ActorInv, ActorTypeInv
  <1>5. actorPC = "starting" /\ childrenToStart # <<>>
    BY Zenon, <1>1 DEF ActorInv, StartingInv
  <1>6. /\ childrenToStart' \in Seq(ActorChildren)
        /\ \A k \in DOMAIN childrenToStart' : /\ k + 1 \in DOMAIN childrenToStart /\ k + 1 # 1 /\ k \in Nat
                                              /\ childrenToStart'[k] = childrenToStart[k + 1]
    BY <1>2, <1>5 DEF ActorInv, ActorTypeInv
  <1>7. \A j \in InstanceIDs : ~Creating(j)' /\ (Live(j)' => Live(j))
    BY ZenonT(60), <1>1, <1>2, <1>3 DEF ActorInv, StartingInv, Live, Creating
  <1>8. StartingInv'
    BY SMTT(60), <1>2, <1>3, <1>5, <1>6, <1>7 DEF ActorInv, StartingInv
  <1>9. LiveInv'
    BY Zenon, <1>2, <1>3, <1>5, <1>7 DEF ActorInv, LiveInv
  <1> QED
    BY Zenon, <1>2, <1>3, <1>4, <1>6, <1>8, <1>9 DEF ActorInv, ActorTypeInv

\* What leaves the children to start alone.
LEMMA RunningKeeps ==
  ASSUME ActorInv, NEW i \in InstanceIDs,
         StartOneFails(i) \/ SendRunResult(i) \/ \E err \in {"over", "failed"} : RunReturns(i, err)
  PROVE  ActorInv'
  <1>1. UNCHANGED <<overContexts, childCan, childrenToStart, actorPC>>
    BY Zenon DEF StartOneFails, SendRunResult, RunReturns
  <1>2. CASE StartOneFails(i)
    <2>1. InstanceGoto(i, "unborn") /\ instances[i].pc = "created" /\ UNCHANGED childResults
      BY Zenon, <1>2 DEF StartOneFails
    <2>2. /\ instances' \in Seq(Instances) /\ InstanceIDs' = InstanceIDs
          /\ \A j \in InstanceIDs : /\ instances'[j].child = instances[j].child
                                    /\ instances'[j].pc = IF j = i THEN "unborn" ELSE instances[j].pc
      BY Zenon, <2>1, GotoMoves DEF ActorInv
    <2>3. ActorTypeInv'
      BY ZenonT(60), <1>1, <2>1, <2>2 DEF ActorInv, ActorTypeInv
    <2>4. \A j \in InstanceIDs : Creating(j)' = Creating(j) /\ (Live(j)' => Live(j))
      BY <1>1, <2>1, <2>2 DEF Creating, Live
    <2> QED
      BY Zenon, <1>1, <2>2, <2>3, <2>4, QuietKeeps
  <1>3. CASE SendRunResult(i)
    <2>1. InstanceGoto(i, "gone") /\ instances[i].pc = "ended" /\ ReportResult(i, instances[i].err)
      BY Zenon, <1>3 DEF SendRunResult
    <2>2. instances[i].err \in {"none", "over", "failed"}
      BY Zenon, InstanceType DEF Instances, ActorInv
    <2>3. /\ instances' \in Seq(Instances) /\ InstanceIDs' = InstanceIDs
          /\ \A j \in InstanceIDs : /\ instances'[j].child = instances[j].child
                                    /\ instances'[j].pc = IF j = i THEN "gone" ELSE instances[j].pc
      BY Zenon, <2>1, GotoMoves DEF ActorInv
    <2>4. ActorTypeInv'
      BY ZenonT(60), <1>1, <2>1, <2>2, <2>3, ReportType DEF ActorInv, ActorTypeInv
    <2>5. \A j \in InstanceIDs : Creating(j)' = Creating(j) /\ (Live(j)' => Live(j))
      BY <1>1, <2>1, <2>3 DEF Creating, Live
    <2> QED
      BY Zenon, <1>1, <2>3, <2>4, <2>5, QuietKeeps
  <1>4. ASSUME NEW err \in {"over", "failed"}, RunReturns(i, err)
        PROVE  ActorInv'
    <2>1. /\ instances[i].pc = "running" /\ UNCHANGED childResults
          /\ instances' = [instances EXCEPT ![i].pc = "ended", ![i].err = err]
      BY Zenon, <1>4 DEF RunReturns
    <2>2. instances[i].pc = "running"
      BY Zenon, <2>1
    <2>3. instances' = [instances EXCEPT ![i] = [instances[i] EXCEPT !.pc = "ended", !.err = err]]
      BY Zenon, <2>1, InstanceType DEF ActorInv, ActorTypeInv, InstanceIDs
    <2>4. /\ instances' \in Seq(Instances) /\ InstanceIDs' = InstanceIDs
          /\ \A j \in InstanceIDs : /\ instances'[j].child = instances[j].child
                                    /\ instances'[j].pc = IF j = i THEN "ended" ELSE instances[j].pc
      BY Zenon, <2>3, InstanceMoves DEF ActorInv
    <2>5. ActorTypeInv'
      BY ZenonT(60), <1>1, <2>1, <2>4 DEF ActorInv, ActorTypeInv
    <2>6. \A j \in InstanceIDs : Creating(j)' = Creating(j) /\ (Live(j)' => Live(j))
      BY <1>1, <2>2, <2>4 DEF Creating, Live
    <2> QED
      BY Zenon, <1>1, <2>4, <2>5, <2>6, QuietKeeps
  <1> QED
    BY Zenon, <1>2, <1>3, <1>4

\* Stop and the end of the context.
LEMMA EndingKeeps ==
  ASSUME ActorInv, SelectStop \/ \E s \in ActorStoppers : StopActors(s)
  PROVE  ActorInv'
  <1>1. UNCHANGED <<instances, childCan, childResults, childrenToStart>>
    BY Zenon DEF SelectStop, StopActors
  <1>2. /\ actorPC' \in {"starting", "select", "returned"}
        /\ UNCHANGED actorPC \/ (actorPC' = "returned" /\ actorPC = "select" /\ StopChildren)
        /\ UNCHANGED overContexts \/ StopChildren
    BY Zenon DEF SelectStop, StopActors, ActorInv, ActorTypeInv
  <1>3. ActorTypeInv' /\ InstanceIDs' = InstanceIDs
    BY Zenon, <1>1, <1>2 DEF ActorInv, ActorTypeInv, InstanceIDs
  <1>4. CASE StopChildren
    BY Zenon, <1>1, <1>2, <1>3, <1>4, StopChildrenEndsAll, QuietKeeps
  <1>5. CASE UNCHANGED <<overContexts, actorPC>>
    <2>1. \A i \in InstanceIDs : Creating(i)' = Creating(i) /\ Live(i)' = Live(i)
      BY Zenon, <1>1, <1>5 DEF Creating, Live
    <2> QED
      BY Zenon, <1>1, <1>3, <1>5, <2>1, QuietKeeps
  <1> QED
    BY Zenon, <1>2, <1>4, <1>5

LEMMA SelectResultKeepsInv ==
  ASSUME ActorInv, SelectResult
  PROVE  ActorInv'
  <1> DEFINE a == Head(childResults).child
  <1>1. a \in ActorChildren /\ childResults' \in Seq(ResultsOfChildren) /\ actorPC = "select"
    <2>1. childResults # <<>> /\ childResults' = Tail(childResults) /\ actorPC = "select"
      BY Zenon DEF SelectResult
    <2>2. Head(childResults) \in ResultsOfChildren /\ childResults' \in Seq(ResultsOfChildren)
      BY <2>1 DEF ActorInv, ActorTypeInv
    <2> QED
      BY Zenon, <2>1, <2>2 DEF ResultsOfChildren
  <1>2. UNCHANGED instances /\ InstanceIDs' = InstanceIDs
    BY Zenon DEF SelectResult, InstanceIDs
  <1>3. \A i \in InstanceIDs : ~Creating(i)
    BY Zenon, <1>1 DEF ActorInv, StartingInv
  <1>4. \A i \in InstanceIDs : Creating(i)' = Creating(i)
    BY Zenon, <1>2 DEF Creating
  <1>5. CASE UNCHANGED <<overContexts, childCan, actorPC, childrenToStart>>
    <2>1. \A i \in InstanceIDs : Live(i)' = Live(i)
      BY Zenon, <1>2, <1>5 DEF Live
    <2>2. ActorTypeInv'
      BY Zenon, <1>1, <1>2, <1>5 DEF ActorInv, ActorTypeInv
    <2> QED
      BY Zenon, <1>2, <1>4, <1>5, <2>1, <2>2, QuietKeeps
  <1>6. CASE StopChildren /\ actorPC' = "returned" /\ UNCHANGED <<childCan, childrenToStart>>
    <2>1. ActorTypeInv'
      BY Zenon, <1>1, <1>2, <1>6 DEF ActorInv, ActorTypeInv
    <2> QED
      BY Zenon, <1>1, <1>2, <1>4, <1>6, <2>1, StopChildrenEndsAll, QuietKeeps
  <1>7. CASE /\ actorPC' = "starting" /\ actorStrategy = "OneForOne" /\ childrenToStart' = <<a>>
             /\ overContexts' = overContexts \cup ({childCan[a]} \ {0})
             /\ childCan' = [childCan EXCEPT ![a] = 0]
    <2>1. ActorTypeInv'
      BY <1>1, <1>2, <1>7 DEF ActorInv, ActorTypeInv
    <2>2. ASSUME NEW i \in InstanceIDs, Live(i)'
          PROVE  instances[i].child # a /\ childCan'[instances[i].child] = i
      <3>1. Live(i) /\ i \notin {childCan[a]} \ {0}
        BY Zenon, <1>2, <1>7, <2>2 DEF Live
      <3>2. i # 0 /\ instances[i].child \in ActorChildren
        BY Zenon, InstanceType DEF ActorInv
      <3>3. childCan[instances[i].child] = i
        BY Zenon, <3>1 DEF ActorInv, LiveInv
      <3>4. instances[i].child # a
        BY Zenon, <3>1, <3>2, <3>3
      <3> QED
        BY Zenon, <1>7, <3>2, <3>3, <3>4 DEF ActorInv, ActorTypeInv
    <2>3. DOMAIN childrenToStart' = {1} /\ childrenToStart'[1] = a
      BY <1>7
    <2>4. StartingInv'
      BY Zenon, <1>2, <1>3, <1>4, <1>7, <2>2, <2>3 DEF StartingInv
    <2>5. LiveInv'
      BY Zenon, <1>2, <1>7, <2>2 DEF LiveInv
    <2> QED
      BY Zenon, <2>1, <2>4, <2>5 DEF ActorInv
  <1>8. CASE /\ actorPC' = "starting" /\ childrenToStart' = [i \in ActorChildren |-> i]
             /\ StopChildren /\ UNCHANGED childCan
    <2>1. /\ childrenToStart' \in Seq(ActorChildren) /\ DOMAIN childrenToStart' = ActorChildren
          /\ \A k \in ActorChildren : childrenToStart'[k] = k
      BY <1>8, ActorsAssumption
    <2>2. ActorTypeInv'
      BY Zenon, <1>1, <1>2, <1>8, <2>1 DEF ActorInv, ActorTypeInv
    <2>3. \A i \in InstanceIDs : ~Live(i)'
      BY Zenon, <1>2, <1>8, StopChildrenEndsAll
    <2>4. StartingInv'
      BY Zenon, <1>2, <1>3, <1>4, <2>1, <2>3 DEF StartingInv
    <2>5. LiveInv'
      BY Zenon, <1>2, <2>3 DEF LiveInv
    <2> QED
      BY Zenon, <2>2, <2>4, <2>5 DEF ActorInv
  <1> QED
    BY Zenon, <1>5, <1>6, <1>7, <1>8 DEF SelectResult, RestartedBy

LEMMA ActorStep == ActorInv /\ [ActorSupNext]_actorSupVars => ActorInv'
  <1> SUFFICES ASSUME ActorInv, [ActorSupNext]_actorSupVars
               PROVE  ActorInv'
    BY Zenon
  <1>1. CASE UNCHANGED <<instances, overContexts, childCan, childResults, childrenToStart, actorPC>>
    BY Zenon, <1>1 DEF ActorInv, ActorTypeInv, StartingInv, LiveInv, Live, Creating, InstanceIDs
  <1>2. CASE AllStarted
    <2>1. /\ UNCHANGED <<instances, overContexts, childCan, childResults, childrenToStart>>
          /\ childrenToStart = <<>> /\ actorPC' = "select"
      BY Zenon, <1>2 DEF AllStarted
    <2>2. ActorTypeInv' /\ InstanceIDs' = InstanceIDs
      BY Zenon, <2>1 DEF ActorInv, ActorTypeInv, InstanceIDs
    <2>3. \A i \in InstanceIDs : Creating(i)' = Creating(i) /\ Live(i)' = Live(i)
      BY Zenon, <2>1 DEF Creating, Live
    <2>4. StartingInv' /\ LiveInv'
      BY <2>1, <2>2, <2>3 DEF ActorInv, StartingInv, LiveInv
    <2> QED
      BY Zenon, <2>2, <2>4 DEF ActorInv
  <1>3. ASSUME WindowPasses \/ CancelParent \/ (\E s \in ActorStoppers : StopActorsReturns(s))
               \/ UNCHANGED actorSupVars
        PROVE  UNCHANGED <<instances, overContexts, childCan, childResults, childrenToStart, actorPC>>
    BY Zenon, <1>3 DEF WindowPasses, CancelParent, StopActorsReturns, actorSupVars
  <1> QED
    BY Zenon, <1>1, <1>2, <1>3, StartOneKeeps, CreatedKeeps, RunningKeeps, EndingKeeps, SelectResultKeepsInv
    DEF ActorSupNext, ActorStartStep, InstanceStep

(* For any children, both strategies, any restart limit and any number of  *)
(* calls of Stop, a child has at most one instance that was not told to    *)
(* end, and none once Start has returned.                                  *)
THEOREM ActorsRunOnce == ActorSupSpec => []OneInstance
  <1>1. ASSUME ActorInv PROVE OneInstance
    <2>1. \A i \in InstanceIDs : ~ContextOver(i) => i \notin overContexts
      BY Zenon DEF ContextOver
    <2>2. ASSUME NEW a \in ActorChildren PROVE LiveInstances(a) \subseteq {childCan[a]}
      BY Zenon, <1>1, <2>1 DEF LiveInstances, ActorInv, LiveInv, Live
    <2>3. ASSUME NEW a \in ActorChildren PROVE Cardinality(LiveInstances(a)) <= 1
      <3>1. IsFiniteSet({childCan[a]}) /\ Cardinality({childCan[a]}) = 1
        BY Zenon, FS_Singleton
      <3> QED
        BY <2>2, <3>1, FS_Subset
    <2>4. actorPC = "returned" => \A a \in ActorChildren : LiveInstances(a) = {}
      BY Zenon, <1>1, <2>1 DEF LiveInstances, ActorInv, LiveInv, Live
    <2> QED
      BY Zenon, <2>3, <2>4 DEF OneInstance
  <1> QED
    BY <1>1, ActorInit, ActorStep, PTL DEF ActorSupSpec

-----------------------------------------------------------------------------
(***************************************************************************)
(* The decisions on an approval stand, for any number of calls.            *)
(***************************************************************************)
Columns == {"first", "second", "rejectedBy"}
Decided == {f \in Columns : approval[f] # Nobody}
Confirmed == {c \in DOMAIN Deciders : decision[c] = "ok"}

ApprovalRow(row) ==
  /\ row = [status |-> row.status, first |-> row.first, second |-> row.second, rejectedBy |-> row.rejectedBy]
  /\ row.status = "approved" <=> row.second # Nobody
  /\ row.status = "rejected" <=> row.rejectedBy # Nobody
  /\ Requester \notin {row.first, row.second, row.rejectedBy}

ApprovalInv ==
  /\ decision \in [DOMAIN Deciders -> {"idle", "approve", "reject", "ok", "error"}]
  /\ \A c \in DOMAIN Deciders : decision[c] \in {"approve", "reject"} => Deciders[c] # Requester
  /\ ApprovalRow(approval)
  /\ Cardinality(Confirmed) = Cardinality(Decided)

LEMMA FiniteDecisions == /\ IsFiniteSet(Confirmed) /\ IsFiniteSet(Decided)
                         /\ IsFiniteSet(Confirmed') /\ IsFiniteSet(Decided')
  <1>1. IsFiniteSet(Columns)
    <2>1. Columns = ({"first"} \cup {"second"}) \cup {"rejectedBy"}
      BY Zenon DEF Columns
    <2> QED BY Zenon, <2>1, FS_Singleton, FS_AddElement
  <1>2. Decided \subseteq Columns /\ Decided' \subseteq Columns
    BY Zenon DEF Decided
  <1>3. Confirmed \subseteq DOMAIN Deciders /\ Confirmed' \subseteq DOMAIN Deciders
    BY Zenon DEF Confirmed
  <1> QED BY Zenon, <1>1, <1>2, <1>3, FS_Subset, ApprovalAssumption

(* A call that changes nothing of the row. *)
LEMMA AnswerKeeps ==
  ASSUME ApprovalInv, NEW c \in DOMAIN Deciders, NEW d \in {"approve", "reject", "error"},
         decision[c] # "ok", Answer(c, d), UNCHANGED approval,
         d # "error" => Deciders[c] # Requester
  PROVE  ApprovalInv'
  <1>1. Confirmed' = Confirmed /\ Decided' = Decided
    BY Zenon DEF Confirmed, Decided, ApprovalInv, Answer
  <1> QED BY Zenon, <1>1 DEF ApprovalInv, Answer

(* A call that is told "ok" and fills one column of the row. *)
LEMMA DecisionKeeps ==
  ASSUME ApprovalInv, NEW c \in DOMAIN Deciders, decision[c] # "ok", Answer(c, "ok"),
         NEW f \in Columns, approval[f] = Nobody, approval'[f] # Nobody,
         \A g \in Columns \ {f} : approval'[g] = approval[g],
         ApprovalRow(approval')
  PROVE  ApprovalInv'
  <1>1. Confirmed' = Confirmed \cup {c} /\ c \notin Confirmed
    BY Zenon DEF Confirmed, ApprovalInv, Answer
  <1>2. Decided' = Decided \cup {f} /\ f \notin Decided
    BY Zenon DEF Decided
  <1>3. Cardinality(Confirmed') = Cardinality(Confirmed) + 1
    BY Zenon, <1>1, FiniteDecisions, FS_AddElement
  <1>4. Cardinality(Decided') = Cardinality(Decided) + 1
    BY Zenon, <1>2, FiniteDecisions, FS_AddElement
  <1>5. Cardinality(Confirmed') = Cardinality(Decided')
    BY Zenon, <1>3, <1>4 DEF ApprovalInv
  <1>6. /\ decision' \in [DOMAIN Deciders -> {"idle", "approve", "reject", "ok", "error"}]
        /\ \A e \in DOMAIN Deciders : decision'[e] \in {"approve", "reject"} => Deciders[e] # Requester
    BY Zenon DEF ApprovalInv, Answer
  <1> QED BY Zenon, <1>5, <1>6 DEF ApprovalInv

LEMMA ApprovalKeeps ==
  ASSUME ApprovalInv, [ApprovalNext]_approvalVars
  PROVE  ApprovalInv'
  <1>0. /\ Requester # Nobody /\ \A c \in DOMAIN Deciders : Deciders[c] # Nobody
        /\ ApprovalRow(approval) /\ decision \in [DOMAIN Deciders -> {"idle", "approve", "reject", "ok", "error"}]
    BY Zenon, ApprovalAssumption DEF ApprovalInv
  <1>1. CASE UNCHANGED <<approval, decision>>
    BY Zenon, <1>1 DEF ApprovalInv, Confirmed, Decided
  <1>2. ASSUME NEW c \in DOMAIN Deciders, Approve(c) \/ Reject(c) PROVE ApprovalInv'
    BY Zenon, <1>2, AnswerKeeps DEF Approve, Reject, MayApprove, MayReject
  <1>3. ASSUME NEW c \in DOMAIN Deciders, RecordApproval(c) \/ RecordRejection(c),
               UNCHANGED approval, Answer(c, "error")
        PROVE  ApprovalInv'
    BY Zenon, <1>3, AnswerKeeps DEF RecordApproval, RecordRejection
  <1>4. ASSUME NEW c \in DOMAIN Deciders, RecordApproval(c), approval.status = "pending",
               NEW row, approval' = row, Answer(c, "ok"),
               \/ approval.first = Nobody /\ row = [approval EXCEPT !.first = Deciders[c]]
               \/ /\ approval.second = Nobody
                  /\ row = [approval EXCEPT !.second = Deciders[c], !.status = "approved"]
        PROVE  ApprovalInv'
    <2>1. decision[c] = "approve" /\ Deciders[c] \notin {Nobody, Requester}
      BY Zenon, <1>0, <1>4 DEF RecordApproval, ApprovalInv
    <2>2. ApprovalRow(row) /\ approval.rejectedBy = row.rejectedBy
      BY Zenon, <1>0, <1>4, <2>1 DEF ApprovalRow
    <2>3. CASE approval.first = Nobody /\ row = [approval EXCEPT !.first = Deciders[c]]
      <3>1. row.first = Deciders[c] /\ row.second = approval.second
        BY Zenon, <1>0, <2>3 DEF ApprovalRow
      <3> QED BY Zenon, <1>4, <2>1, <2>2, <2>3, <3>1, DecisionKeeps DEF Columns
    <2>4. CASE approval.second = Nobody /\ row = [approval EXCEPT !.second = Deciders[c], !.status = "approved"]
      <3>1. row.second = Deciders[c] /\ row.first = approval.first
        BY Zenon, <1>0, <2>4 DEF ApprovalRow
      <3> QED BY Zenon, <1>4, <2>1, <2>2, <2>4, <3>1, DecisionKeeps DEF Columns
    <2> QED BY Zenon, <1>4, <2>3, <2>4
  <1>5. ASSUME NEW c \in DOMAIN Deciders, RecordRejection(c), approval.status = "pending", Answer(c, "ok"),
               approval' = [approval EXCEPT !.status = "rejected", !.rejectedBy = Deciders[c]]
        PROVE  ApprovalInv'
    <2>1. decision[c] = "reject" /\ Deciders[c] \notin {Nobody, Requester}
      BY Zenon, <1>0, <1>5 DEF RecordRejection, ApprovalInv
    <2>2. /\ ApprovalRow(approval') /\ approval'.first = approval.first /\ approval'.second = approval.second
          /\ approval'.rejectedBy = Deciders[c] /\ approval.rejectedBy = Nobody
      BY Zenon, <1>0, <1>5, <2>1 DEF ApprovalRow
    <2> QED BY Zenon, <1>5, <2>1, <2>2, DecisionKeeps DEF Columns
  <1>6. CASE ExpirePendingApprovals
    <2>1. /\ ApprovalRow(approval') /\ UNCHANGED decision
          /\ approval'.first = approval.first /\ approval'.second = approval.second
          /\ approval'.rejectedBy = approval.rejectedBy
      BY <1>0, <1>6 DEF ApprovalRow, ExpirePendingApprovals
    <2>2. Decided' = Decided /\ Confirmed' = Confirmed
      BY Zenon, <2>1 DEF Decided, Confirmed, Columns
    <2> QED BY Zenon, <2>1, <2>2 DEF ApprovalInv
  <1>7. ASSUME NEW c \in DOMAIN Deciders, RecordApproval(c) \/ RecordRejection(c) PROVE ApprovalInv'
    BY Zenon, <1>3, <1>4, <1>5, <1>7 DEF RecordApproval, RecordRejection
  <1> QED BY Zenon, <1>1, <1>2, <1>6, <1>7 DEF ApprovalNext, approvalVars, Expire

(* A request that was decided stays as it was decided, nobody decides on   *)
(* their own request, and every call that was told "ok" has its column of  *)
(* the row (approval_service.go).                                          *)
THEOREM ApprovalsStand == ApprovalSpec => []DecisionsStand
  <1>1. CreateApproval => ApprovalInv
    <2> SUFFICES ASSUME CreateApproval PROVE ApprovalInv
      BY Zenon
    <2>1. Confirmed = {} /\ Decided = {}
      BY DEF CreateApproval, Confirmed, Decided, Columns
    <2> QED BY Zenon, <2>1, ApprovalAssumption DEF CreateApproval, ApprovalInv, ApprovalRow
  <1>2. ApprovalInv /\ [ApprovalNext]_approvalVars => ApprovalInv'
    BY Zenon, ApprovalKeeps
  <1>3. ApprovalInv => DecisionsStand
    BY Zenon DEF ApprovalInv, DecisionsStand, ApprovalRow, Confirmed, Decided, Columns
  <1> QED BY <1>1, <1>2, <1>3, PTL DEF ApprovalSpec
=============================================================================
