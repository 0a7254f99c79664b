------------------------------ MODULE Managers ------------------------------
(***************************************************************************)
(* What runs around the components of a process: the signal handler and    *)
(* the component registry of pkg/core/runtime, and the shutdown            *)
(* coordinator of pkg/managers.                                            *)
(***************************************************************************)
EXTENDS Naturals, Sequences, FiniteSets

(***************************************************************************)
(* pkg/core/runtime/signals/signal.go: one handler, its loop run, the      *)
(* callers of Stop and of Wait.  Stop keeps the handler's mutex while it   *)
(* waits for doneChan, which only the return of run closes; run calls Stop *)
(* itself, after a signal and when its context ends.  So without a         *)
(* ShutdownTimeout run waits for its own return, and with one it waits the *)
(* whole timeout.  Signals are counted; statistics are left out.           *)
(***************************************************************************)
CONSTANTS SignalQueue,       \* config.QueueSize
          MaxSignals,        \* bound: the signals raised
          SignalStoppers, SignalWaiters

VARIABLES hasTimeout, continueOnSignal,     \* config
          sigChan,           \* how many signals are queued
          signalsRaised,
          handlerState,      \* "new", "started" or "stopped"
          stopClosed,        \* stopChan is closed
          stopOwner,         \* the caller inside Stop that holds the mutex, or "none"
          runLoop,           \* where run is
          signalCtxDone,
          onSignal,          \* history: the calls of OnSignal
          sigCaller          \* [SignalStoppers \cup SignalWaiters -> where the call is]

signalVars == <<hasTimeout, continueOnSignal, sigChan, signalsRaised, handlerState, stopClosed, stopOwner,
                runLoop, signalCtxDone, onSignal, sigCaller>>
signalConfig == <<hasTimeout, continueOnSignal>>
SigCallers == SignalStoppers \cup SignalWaiters

NewSignalHandler ==
  /\ hasTimeout \in BOOLEAN /\ continueOnSignal \in BOOLEAN
  /\ sigChan = 0 /\ signalsRaised = 0 /\ handlerState = "new" /\ stopClosed = FALSE /\ stopOwner = "none"
  /\ runLoop = "none" /\ signalCtxDone = FALSE /\ onSignal = 0
  /\ sigCaller = [c \in SigCallers |-> "idle"]

RaiseSignal ==
  /\ handlerState = "started" /\ signalsRaised < MaxSignals /\ signalsRaised' = signalsRaised + 1
  /\ sigChan' = IF sigChan < SignalQueue THEN sigChan + 1 ELSE sigChan
  /\ UNCHANGED <<signalConfig, handlerState, stopClosed, stopOwner, runLoop, signalCtxDone, onSignal, sigCaller>>

EndSignalContext ==
  /\ ~signalCtxDone /\ signalCtxDone' = TRUE
  /\ UNCHANGED <<signalConfig, sigChan, signalsRaised, handlerState, stopClosed, stopOwner, runLoop, onSignal,
                 sigCaller>>

\* Start, called by itself or by Wait.
StartHandler ==
  /\ stopOwner = "none" /\ handlerState = "new"
  /\ handlerState' = "started" /\ runLoop' = "select"

StartSignals ==
  /\ StartHandler
  /\ UNCHANGED <<signalConfig, sigChan, signalsRaised, stopClosed, stopOwner, signalCtxDone, onSignal, sigCaller>>

\* The select of run.
RunTakesSignal ==
  /\ runLoop = "select" /\ sigChan > 0 /\ sigChan' = sigChan - 1 /\ onSignal' = onSignal + 1
  /\ runLoop' = "callback"
  /\ UNCHANGED <<signalConfig, signalsRaised, handlerState, stopClosed, stopOwner, signalCtxDone, sigCaller>>

\* Mutant: run goes on listening after Stop.
RunListensOn ==
  /\ runLoop = "callback" /\ runLoop' = "select"
  /\ UNCHANGED <<signalConfig, sigChan, signalsRaised, handlerState, stopClosed, stopOwner, signalCtxDone, onSignal,
                 sigCaller>>

\* OnSignal has returned.
CallbackReturns ==
  /\ runLoop = "callback" /\ runLoop' = IF continueOnSignal THEN "select" ELSE "stop"
  /\ UNCHANGED <<signalConfig, sigChan, signalsRaised, handlerState, stopClosed, stopOwner, signalCtxDone, onSignal,
                 sigCaller>>

RunSeesEnd ==
  /\ runLoop = "select"
  /\ \/ signalCtxDone /\ runLoop' = "stop"
     \/ stopClosed /\ runLoop' = "done"
  /\ UNCHANGED <<signalConfig, sigChan, signalsRaised, handlerState, stopClosed, stopOwner, signalCtxDone, onSignal,
                 sigCaller>>

\* Stop takes the mutex, unless it is stopped already.
StopBegins(who) ==
  /\ stopOwner = "none" /\ handlerState # "stopped"
  /\ handlerState' = "stopped" /\ stopClosed' = TRUE /\ stopOwner' = who
AlreadyStopped == stopOwner = "none" /\ handlerState = "stopped"

\* Stop called by run: doneChan is open, so only the timeout ends it.
RunStops ==
  /\ runLoop = "stop"
  /\ \/ StopBegins("run") /\ runLoop' = "inStop"
     \/ AlreadyStopped /\ runLoop' = "done" /\ UNCHANGED <<handlerState, stopClosed, stopOwner>>
  /\ UNCHANGED <<signalConfig, sigChan, signalsRaised, signalCtxDone, onSignal, sigCaller>>

RunStopTimesOut ==
  /\ runLoop = "inStop" /\ hasTimeout /\ stopOwner' = "none" /\ runLoop' = "done"
  /\ UNCHANGED <<signalConfig, sigChan, signalsRaised, handlerState, stopClosed, signalCtxDone, onSignal, sigCaller>>

SigGoto(c, pc) == sigCaller' = [sigCaller EXCEPT ![c] = pc]

\* Stop, called by a client ("idle") or by Wait ("stop").
CallStop(c) ==
  /\ sigCaller[c] = IF c \in SignalStoppers THEN "idle" ELSE "stop"
  /\ \/ StopBegins(c) /\ SigGoto(c, "inStop")
     \/ AlreadyStopped /\ SigGoto(c, "already") /\ UNCHANGED <<handlerState, stopClosed, stopOwner>>
  /\ UNCHANGED <<signalConfig, sigChan, signalsRaised, runLoop, signalCtxDone, onSignal>>

\* Mutant: Stop returns without waiting for run.
StopDoesNotWait(c) ==
  /\ sigCaller[c] = "inStop" /\ SigGoto(c, "stopped") /\ stopOwner' = "none"
  /\ UNCHANGED <<signalConfig, sigChan, signalsRaised, handlerState, stopClosed, runLoop, signalCtxDone, onSignal>>

StopReturnsTo(c) ==
  /\ sigCaller[c] = "inStop"
  /\ \/ runLoop = "done" /\ SigGoto(c, "stopped")
     \/ hasTimeout /\ SigGoto(c, "timeout")
  /\ stopOwner' = "none"
  /\ UNCHANGED <<signalConfig, sigChan, signalsRaised, handlerState, stopClosed, runLoop, signalCtxDone, onSignal>>

\* Wait reads whether the handler is started ...
CallWait(c) ==
  /\ c \in SignalWaiters /\ sigCaller[c] = "idle" /\ stopOwner = "none"
  /\ SigGoto(c, IF handlerState = "started" THEN "select" ELSE "start")
  /\ UNCHANGED <<signalConfig, sigChan, signalsRaised, handlerState, stopClosed, stopOwner, runLoop, signalCtxDone,
                 onSignal>>

\* ... starts it, which fails when somebody else has started or stopped it ...
WaitStarts(c) ==
  /\ sigCaller[c] = "start" /\ stopOwner = "none"
  /\ \/ StartHandler /\ SigGoto(c, "select")
     \/ handlerState # "new" /\ SigGoto(c, "error") /\ UNCHANGED <<handlerState, runLoop>>
  /\ UNCHANGED <<signalConfig, sigChan, signalsRaised, stopClosed, stopOwner, signalCtxDone, onSignal>>

\* ... and has a select of its own, on the channel that run receives from too.
WaitSelects(c) ==
  /\ sigCaller[c] = "select"
  /\ \/ sigChan > 0 /\ sigChan' = sigChan - 1 /\ SigGoto(c, "stop")
     \/ signalCtxDone /\ SigGoto(c, "stop") /\ UNCHANGED sigChan
     \/ stopClosed /\ SigGoto(c, "error") /\ UNCHANGED sigChan
  /\ UNCHANGED <<signalConfig, signalsRaised, handlerState, stopClosed, stopOwner, runLoop, signalCtxDone, onSignal>>

RunLoopStep == RunTakesSignal \/ CallbackReturns \/ RunSeesEnd \/ RunStops \/ RunStopTimesOut
SigCallStep(c) == StopReturnsTo(c) \/ (c \in SignalWaiters /\ (CallStop(c) \/ WaitStarts(c) \/ WaitSelects(c)))

SignalNext ==
  \/ RaiseSignal \/ EndSignalContext \/ StartSignals \/ RunLoopStep
  \/ \E c \in SigCallers : CallStop(c) \/ CallWait(c) \/ WaitStarts(c) \/ StopReturnsTo(c) \/ WaitSelects(c)

SignalSpec == NewSignalHandler /\ [][SignalNext]_signalVars
-----------------------------------------------------------------------------
SignalTypeOK ==
  /\ sigChan \in 0 .. SignalQueue /\ handlerState \in {"new", "started", "stopped"}
  /\ runLoop \in {"none", "select", "callback", "stop", "inStop", "done"}
  /\ stopOwner \in SigCallers \cup {"run", "none"}

(* A Stop that returns without the timeout error has seen run end, so that *)
(* OnSignal is neither running nor called again; and unless it is          *)
(* configured to continue, OnSignal is called at most once, whoever else   *)
(* stops the handler in the meantime (signal.go).                          *)
StoppedIsSilent ==
  /\ \A c \in SigCallers : sigCaller[c] = "stopped" => runLoop = "done"
  /\ ~continueOnSignal => onSignal <= 1

(* With a ShutdownTimeout every call of Stop and of Wait that can end      *)
(* does: nobody waits for the mutex for ever.                              *)
SignalCallsReturn ==
  \A c \in SigCallers : []<>(hasTimeout => sigCaller[c] \notin {"inStop", "stop", "start"})
-----------------------------------------------------------------------------
(***************************************************************************)
(* pkg/core/runtime/registry/registry.go: RegisterMany is a loop of Exists *)
(* and Register, and on a failure of Unregister, each under the lock by    *)
(* itself; single calls of Register, Unregister and Clear come in between. *)
(* A component is the call that brought it.                                *)
(***************************************************************************)
CONSTANTS ComponentNames, MaxComponents,
          ManyCalls,          \* [the calls of RegisterMany -> their names]
          SingleCalls         \* the calls of Register, one name each

VARIABLES allowOverwrite,
          components,         \* [ComponentNames -> the call whose component it is, or "none"]
          manyPC, manyLeft,   \* [ManyCalls -> ..., the names still to register]
          manyName,           \* the name Exists was asked for
          manyExisted,        \* wasExisting
          manyRegistered,     \* registered: the names to roll back
          singleDone,         \* the calls of Register that returned
          undisturbed         \* history: the batches during which nobody else removed anything

regVars == <<allowOverwrite, components, manyPC, manyLeft, manyName, manyExisted, manyRegistered, singleDone,
             undisturbed>>
manyVars == <<manyPC, manyLeft, manyName, manyExisted, manyRegistered>>

ManyIDs == DOMAIN ManyCalls

ASSUME RegistryAssumption ==
  /\ IsFiniteSet(ComponentNames) /\ MaxComponents \in Nat
  /\ ManyCalls \in [ManyIDs -> SUBSET ComponentNames]
  /\ "none" \notin ManyIDs \cup SingleCalls /\ ManyIDs \cap SingleCalls = {}

NewRegistryManager ==
  /\ allowOverwrite \in BOOLEAN /\ components = [n \in ComponentNames |-> "none"]
  /\ manyPC = [b \in ManyIDs |-> "idle"] /\ manyLeft = ManyCalls /\ manyName = [b \in ManyIDs |-> "none"]
  /\ manyExisted = [b \in ManyIDs |-> FALSE] /\ manyRegistered = [b \in ManyIDs |-> {}]
  /\ singleDone = {} /\ undisturbed = ManyIDs

\* The batches that have begun and not ended.
ManyUnderway ==
  {b \in ManyIDs : /\ manyPC[b] \notin {"done", "failed"}
                   /\ manyPC[b] # "idle" \/ manyLeft[b] # ManyCalls[b]}
RegisteredNames == {n \in ComponentNames : components[n] # "none"}

\* Mutant: the limit is checked with the components there would be without this one.
RegisterOneMore(n) ==
  /\ components[n] # "none" => allowOverwrite
  /\ Cardinality(RegisteredNames) <= MaxComponents

\* Register succeeds.
CanRegister(n) ==
  /\ components[n] # "none" => allowOverwrite
  /\ Cardinality(RegisteredNames) >= MaxComponents => components[n] # "none"

RegisterOne(c, n) ==
  /\ c \notin singleDone /\ singleDone' = singleDone \cup {c}
  /\ components' = IF CanRegister(n) THEN [components EXCEPT ![n] = c] ELSE components
  /\ UNCHANGED <<allowOverwrite, manyVars, undisturbed>>

UnregisterOne(n) ==
  /\ components[n] # "none" /\ components' = [components EXCEPT ![n] = "none"]
  /\ undisturbed' = undisturbed \ ManyUnderway
  /\ UNCHANGED <<allowOverwrite, manyVars, singleDone>>

ClearRegistry ==
  /\ RegisteredNames # {} /\ components' = [n \in ComponentNames |-> "none"]
  /\ undisturbed' = undisturbed \ ManyUnderway
  /\ UNCHANGED <<allowOverwrite, manyVars, singleDone>>

\* One turn of the loop of RegisterMany, the names in any order: Exists ...
ManyExists(b, n) ==
  /\ manyPC[b] = "idle" /\ n \in manyLeft[b]
  /\ manyPC' = [manyPC EXCEPT ![b] = "register"] /\ manyName' = [manyName EXCEPT ![b] = n]
  /\ manyLeft' = [manyLeft EXCEPT ![b] = @ \ {n}]
  /\ manyExisted' = [manyExisted EXCEPT ![b] = components[n] # "none"]
  /\ UNCHANGED <<allowOverwrite, components, manyRegistered, singleDone, undisturbed>>

\* Mutant: remembers the names that existed in place of those that did not.
TracksLess(b) ==
  /\ manyPC[b] = "register"
  /\ IF CanRegister(manyName[b])
     THEN /\ components' = [components EXCEPT ![manyName[b]] = b]
          /\ manyRegistered' = [manyRegistered EXCEPT ![b] =
                IF manyExisted[b] \/ allowOverwrite THEN @ \cup {manyName[b]} ELSE @]
          /\ manyPC' = [manyPC EXCEPT ![b] = IF manyLeft[b] = {} THEN "done" ELSE "idle"]
     ELSE /\ manyPC' = [manyPC EXCEPT ![b] = "rollback"] /\ UNCHANGED <<components, manyRegistered>>
  /\ UNCHANGED <<allowOverwrite, manyLeft, manyName, manyExisted, singleDone, undisturbed>>

\* ... then Register ...
ManyRegister(b) ==
  /\ manyPC[b] = "register"
  /\ IF CanRegister(manyName[b])
     THEN /\ components' = [components EXCEPT ![manyName[b]] = b]
          /\ manyRegistered' = [manyRegistered EXCEPT ![b] =
                IF ~manyExisted[b] \/ allowOverwrite THEN @ \cup {manyName[b]} ELSE @]
          /\ manyPC' = [manyPC EXCEPT ![b] = IF manyLeft[b] = {} THEN "done" ELSE "idle"]
     ELSE /\ manyPC' = [manyPC EXCEPT ![b] = "rollback"] /\ UNCHANGED <<components, manyRegistered>>
  /\ UNCHANGED <<allowOverwrite, manyLeft, manyName, manyExisted, singleDone, undisturbed>>

\* ... and, when it failed, Unregister of every name registered before, whoever holds it now.
ManyRollback(b) ==
  /\ manyPC[b] = "rollback"
  /\ \/ /\ manyRegistered[b] = {} /\ manyPC' = [manyPC EXCEPT ![b] = "failed"]
        /\ UNCHANGED <<components, manyRegistered, undisturbed>>
     \/ \E n \in manyRegistered[b] :
          /\ components' = [components EXCEPT ![n] = "none"]
          /\ manyRegistered' = [manyRegistered EXCEPT ![b] = @ \ {n}]
          /\ undisturbed' = undisturbed \ (ManyUnderway \ {b})
          /\ UNCHANGED manyPC
  /\ UNCHANGED <<allowOverwrite, manyLeft, manyName, manyExisted, singleDone>>

RegistryNext ==
  \/ ClearRegistry
  \/ \E n \in ComponentNames : UnregisterOne(n) \/ \E c \in SingleCalls : RegisterOne(c, n)
  \/ \E b \in ManyIDs :
        ManyRegister(b) \/ ManyRollback(b) \/ \E n \in ManyCalls[b] : ManyExists(b, n)

RegistrySpec == NewRegistryManager /\ [][RegistryNext]_regVars
-----------------------------------------------------------------------------
RegistryTypeOK ==
  /\ components \in [ComponentNames -> ManyIDs \cup SingleCalls \cup {"none"}]
  /\ manyPC \in [ManyIDs -> {"idle", "register", "rollback", "done", "failed"}]

(* The registry never holds more than MaxComponents, and a RegisterMany    *)
(* that fails leaves none of its components behind, however other batches  *)
(* and calls of Register come in between.  It may when somebody else       *)
(* removes a component meanwhile: wasExisting is stale then.               *)
BatchesRollBack ==
  /\ Cardinality(RegisteredNames) <= MaxComponents
  /\ \A b \in undisturbed : manyPC[b] = "failed" => \A n \in ComponentNames : components[n] # b
-----------------------------------------------------------------------------
(***************************************************************************)
(* pkg/managers/shutdown.go: Managers.Shutdown runs the hooks of one phase *)
(* in parallel, waits for them or for the end of its context, goes on with *)
(* the next phase, and closes the rest.  A hook that fails sends its error *)
(* on a channel that executePhase closes when it gives up on the hooks.    *)
(***************************************************************************)
CONSTANTS PhaseHooks             \* <<the hooks of PreStop, of Stop, of PostStop>>

VARIABLES shutdownPhase,         \* the phase that runs; after the last, the rest is closed
          phaseHooks,            \* [the hooks -> "registered", "running", "ok", "failed"]
          phaseStarted,          \* the hooks of the phase run
          shutdownCtxDone,
          hooksLate,             \* the hooks of phases that were given up
          managersClosed,        \* the HTTP server is stopped and the cache cleared
          shutdownPanicked       \* a send on a closed channel

shutdownVars == <<shutdownPhase, phaseHooks, phaseStarted, shutdownCtxDone, hooksLate, managersClosed,
                  shutdownPanicked>>

ShutdownPhases == DOMAIN PhaseHooks
AllHooks == UNION {PhaseHooks[p] : p \in ShutdownPhases}
HooksNow == PhaseHooks[shutdownPhase]

\* A hook is one call of RegisterHook, so no hook is in two phases.
ASSUME PhasesAssumption ==
  /\ Len(PhaseHooks) \in Nat /\ ShutdownPhases = 1 .. Len(PhaseHooks)
  /\ \A p, q \in ShutdownPhases : p # q => PhaseHooks[p] \cap PhaseHooks[q] = {}

NewShutdown ==
  /\ shutdownPhase = 1 /\ phaseHooks = [h \in AllHooks |-> "registered"] /\ phaseStarted = FALSE
  /\ shutdownCtxDone = FALSE /\ hooksLate = {} /\ managersClosed = FALSE /\ shutdownPanicked = FALSE

ProcessUp == ~shutdownPanicked

\* executePhase starts a goroutine for every hook ...
StartPhase ==
  /\ ProcessUp /\ shutdownPhase \in ShutdownPhases /\ ~phaseStarted /\ phaseStarted' = TRUE
  /\ phaseHooks' = [h \in AllHooks |-> IF h \in HooksNow THEN "running" ELSE phaseHooks[h]]
  /\ UNCHANGED <<shutdownPhase, shutdownCtxDone, hooksLate, managersClosed, shutdownPanicked>>

\* ... a hook returns; its error goes to errChan ...
PhaseHookReturns(h, result) ==
  /\ ProcessUp /\ phaseHooks[h] = "running" /\ phaseHooks' = [phaseHooks EXCEPT ![h] = result]
  /\ shutdownPanicked' = (result = "failed" /\ h \in hooksLate)
  /\ UNCHANGED <<shutdownPhase, phaseStarted, shutdownCtxDone, hooksLate, managersClosed>>

UnfinishedHooks == {h \in HooksNow : phaseHooks[h] = "running"}
NextPhase == shutdownPhase' = shutdownPhase + 1 /\ phaseStarted' = FALSE

\* Mutant: one hook is enough.
PhaseEndsEarly ==
  /\ ProcessUp /\ phaseStarted /\ UnfinishedHooks # HooksNow /\ NextPhase
  /\ UNCHANGED <<phaseHooks, shutdownCtxDone, hooksLate, managersClosed, shutdownPanicked>>

\* ... all have returned, errors or not: the next phase ...
PhaseEnds ==
  /\ ProcessUp /\ phaseStarted /\ UnfinishedHooks = {} /\ NextPhase
  /\ UNCHANGED <<phaseHooks, shutdownCtxDone, hooksLate, managersClosed, shutdownPanicked>>

\* ... or the context is over: the next phase too.
PhaseCancelled ==
  /\ ProcessUp /\ phaseStarted /\ shutdownCtxDone /\ NextPhase
  /\ hooksLate' = hooksLate \cup UnfinishedHooks
  /\ UNCHANGED <<phaseHooks, shutdownCtxDone, managersClosed, shutdownPanicked>>

EndShutdownContext ==
  /\ ProcessUp /\ ~shutdownCtxDone /\ shutdownCtxDone' = TRUE
  /\ UNCHANGED <<shutdownPhase, phaseHooks, phaseStarted, hooksLate, managersClosed, shutdownPanicked>>

CloseManagers ==
  /\ ProcessUp /\ shutdownPhase \notin ShutdownPhases /\ ~managersClosed /\ managersClosed' = TRUE
  /\ UNCHANGED <<shutdownPhase, phaseHooks, phaseStarted, shutdownCtxDone, hooksLate, shutdownPanicked>>

PhaseStep == StartPhase \/ PhaseEnds \/ PhaseCancelled \/ CloseManagers

ShutdownNext ==
  \/ PhaseStep \/ EndShutdownContext
  \/ \E h \in AllHooks, result \in {"ok", "failed"} : PhaseHookReturns(h, result)

ShutdownSpec == NewShutdown /\ [][ShutdownNext]_shutdownVars
-----------------------------------------------------------------------------
ShutdownTypeOK ==
  /\ shutdownPhase \in 1 .. Len(PhaseHooks) + 1 /\ hooksLate \subseteq AllHooks
  /\ phaseHooks \in [AllHooks -> {"registered", "running", "ok", "failed"}]

(* A hook runs only when every hook of the phases before it has returned,  *)
(* with or without an error, and the rest is closed only after the last    *)
(* hook, unless the context ended.                                         *)
PhasesInOrder ==
  shutdownCtxDone \/
  /\ \A p, q \in ShutdownPhases : p < q =>
        \A g \in PhaseHooks[p], h \in PhaseHooks[q] :
           phaseHooks[h] # "registered" => phaseHooks[g] \in {"ok", "failed"}
  /\ managersClosed => \A h \in AllHooks : phaseHooks[h] \in {"ok", "failed"}

(* Shutdown goes through all the phases once its context ends, whether the *)
(* hooks return or not, unless the send of a late error ends the process.  *)
ShutdownEnds == []<>(shutdownCtxDone => managersClosed \/ shutdownPanicked)
=============================================================================
