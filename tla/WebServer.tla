----------------------------- MODULE WebServer ------------------------------
(***************************************************************************)
(* The backpressure controller, and the web server that passes every       *)
(* request through it.                                                     *)
(***************************************************************************)
EXTENDS Integers, FiniteSets

(***************************************************************************)
(* The backpressure controller of pkg/core/concurrency/backpressure.go, as *)
(* its servers use it: an acquirer (an accept loop, a request goroutine)   *)
(* takes capacity, and what it took is released later, by any goroutine.   *)
(* An action is one atomic operation.                                      *)
(***************************************************************************)

CONSTANTS
  Acquirers,
  NormalCapacity,
  ResetInterval,
  MaxClock        \* bound: how long the run lasts, in ticks of time.Now().Unix()

ASSUME BackpressureAssumption == IsFiniteSet(Acquirers) /\ NormalCapacity \in Nat \ {0}

VARIABLES
  clock,
  currentLoad, lastReset,
  acquirePC,      \* each TryAcquire: [pc, now, last]
  held,           \* history: acquired and not released
  resets          \* history: completed resets of currentLoad

bpVars == <<clock, currentLoad, lastReset, acquirePC, held, resets>>

NoAcquire == [pc |-> "idle", now |-> 0, last |-> 0]

NewBackpressureController ==
  /\ clock = 0 /\ currentLoad = 0 /\ lastReset = 0 /\ held = 0 /\ resets = 0
  /\ acquirePC = [a \in Acquirers |-> NoAcquire]

Tick ==
  /\ clock < MaxClock
  /\ clock' = clock + 1
  /\ UNCHANGED <<currentLoad, lastReset, acquirePC, held, resets>>

TryAcquire(a) ==
  /\ acquirePC[a].pc = "idle"
  /\ acquirePC' = [acquirePC EXCEPT ![a] = [pc |-> "last", now |-> clock, last |-> 0]]
  /\ UNCHANGED <<clock, currentLoad, lastReset, held, resets>>

LoadLastReset(a) ==
  /\ acquirePC[a].pc = "last"
  /\ acquirePC' = [acquirePC EXCEPT ![a].last = lastReset,
                     ![a].pc = IF acquirePC[a].now - lastReset > ResetInterval THEN "cas" ELSE "load"]
  /\ UNCHANGED <<clock, currentLoad, lastReset, held, resets>>

Wins(a) == lastReset = acquirePC[a].last

CompareAndSwapReset(a) ==
  /\ acquirePC[a].pc = "cas"
  /\ lastReset' = IF Wins(a) THEN acquirePC[a].now ELSE lastReset
  /\ acquirePC' = [acquirePC EXCEPT ![a].pc = IF Wins(a) THEN "reset" ELSE "load"]
  /\ UNCHANGED <<clock, currentLoad, held, resets>>

(* Whatever is held at this moment is forgotten. *)
ResetLoad(a) ==
  /\ acquirePC[a].pc = "reset"
  /\ currentLoad' = 0
  /\ resets' = resets + 1
  /\ acquirePC' = [acquirePC EXCEPT ![a].pc = "load"]
  /\ UNCHANGED <<clock, lastReset, held>>

(* Mutant: the comparison admits one more. *)
HasCapacityOneMore == currentLoad <= NormalCapacity

HasCapacity == currentLoad < NormalCapacity

(* The load is read; what it was may be stale at the addition. *)
LoadCurrent(a) ==
  /\ acquirePC[a].pc = "load"
  /\ acquirePC' = [acquirePC EXCEPT ![a] = IF HasCapacity THEN [@ EXCEPT !.pc = "add"] ELSE NoAcquire]
  /\ UNCHANGED <<clock, currentLoad, lastReset, held, resets>>

AddLoad(a) ==
  /\ acquirePC[a].pc = "add"
  /\ currentLoad' = currentLoad + 1
  /\ held' = held + 1
  /\ acquirePC' = [acquirePC EXCEPT ![a] = NoAcquire]
  /\ UNCHANGED <<clock, lastReset, resets>>

Release ==
  /\ held > 0
  /\ currentLoad' = currentLoad - 1
  /\ held' = held - 1
  /\ UNCHANGED <<clock, lastReset, acquirePC, resets>>

BackpressureNext ==
  \/ Tick \/ Release
  \/ \E a \in Acquirers :
       \/ TryAcquire(a) \/ LoadLastReset(a) \/ CompareAndSwapReset(a) \/ ResetLoad(a)
       \/ LoadCurrent(a) \/ AddLoad(a)

BackpressureSpec == NewBackpressureController /\ [][BackpressureNext]_bpVars

-----------------------------------------------------------------------------
BackpressureTypeOK ==
  /\ clock \in 0 .. MaxClock /\ lastReset \in 0 .. MaxClock
  /\ currentLoad \in Int /\ held \in Nat /\ resets \in Nat
  /\ acquirePC \in [Acquirers -> [pc : {"idle", "last", "cas", "reset", "load", "add"},
                                  now : 0 .. MaxClock, last : 0 .. MaxClock]]

Overshoot == NormalCapacity + Cardinality(Acquirers) - 1

(* The check of the load and its increment are not one step, so the normal   *)
(* capacity can be exceeded by the other acquirers; and a reset forgets what *)
(* is held.  What is held stays below one overshoot capacity per interval,   *)
(* and currentLoad is exactly what is held until the first reset and never   *)
(* more after one, so that no capacity is lost for good.                     *)
HeldBounded ==
  /\ held <= (resets + 1) * Overshoot
  /\ currentLoad <= held
  /\ resets = 0 => currentLoad = held

(* What makes it inductive: who has seen room and is about to add was in     *)
(* time for one overshoot, and a reset forgets no more than that.            *)
Adders == {a \in Acquirers : acquirePC[a].pc = "add"}

BackpressureInv ==
  /\ held \in Nat /\ resets \in Nat /\ currentLoad \in Int /\ currentLoad <= held
  /\ acquirePC \in [Acquirers -> [pc : {"idle", "last", "cas", "reset", "load", "add"}, now : Int, last : Int]]
  /\ clock \in Int /\ lastReset \in Int
  /\ currentLoad + Cardinality(Adders) <= Overshoot
  /\ held - currentLoad <= resets * Overshoot

-----------------------------------------------------------------------------
(***************************************************************************)
(* pkg/web/fast_server.go: the HTTP server over fasthttp, with the         *)
(* backpressure controller every request passes.  fasthttp runs            *)
(* handleRequest in a goroutine of the connection; the request mailbox and *)
(* its workers exist but are fed by nobody.  doStart binds, with retries,  *)
(* and serves until doStop; doStop closes the mailbox, shuts the executor  *)
(* down and only then the listener, and returns early when the executor    *)
(* does not stop within its five seconds.  Answers and counters are left   *)
(* out: a request ends when its goroutine is back in the connection.       *)
(***************************************************************************)

CONSTANTS BindRetryAttempts

VARIABLES webState,      \* "binding", "serving", "failed", "draining" or "closed"
          bindAttempts,
          webStop,       \* where doStop is, and what it returned
          gocmdDone,     \* the GoCMD context is cancelled
          reqPC          \* where the request of each connection (an acquirer) is

webVars == <<webState, bindAttempts, webStop, gocmdDone, reqPC>>
lifeOfServer == <<webState, bindAttempts, webStop, gocmdDone>>

NewFastHTTPServer ==
  /\ NewBackpressureController
  /\ webState = "binding" /\ bindAttempts = 0 /\ webStop = "no" /\ gocmdDone = FALSE
  /\ reqPC = [r \in Acquirers |-> "idle"]

\* ListenAndServe: it serves, or fails at once; an address in use is tried again.
ListenAndServe ==
  /\ webState = "binding"
  /\ \/ webState' = "serving" /\ UNCHANGED bindAttempts
     \/ webState' = "failed" /\ UNCHANGED bindAttempts
     \/ /\ bindAttempts' = bindAttempts + 1
        /\ webState' = IF bindAttempts' < BindRetryAttempts THEN "binding" ELSE "failed"
  /\ UNCHANGED <<bpVars, webStop, gocmdDone, reqPC>>

GocmdCancelled ==
  /\ ~gocmdDone /\ gocmdDone' = TRUE
  /\ UNCHANGED <<bpVars, webState, bindAttempts, webStop, reqPC>>

ReqGoto(r, pc) == reqPC' = [reqPC EXCEPT ![r] = pc]

\* handleRequest up to the backpressure check.
HandleRequest(r) ==
  /\ webState = "serving" /\ reqPC[r] = "idle"
  /\ \/ gocmdDone /\ ReqGoto(r, "idle") /\ UNCHANGED bpVars
     \/ ~gocmdDone /\ ReqGoto(r, "acquiring") /\ TryAcquire(r)
  /\ UNCHANGED lifeOfServer

AcquireSteps(r) ==
  /\ reqPC[r] = "acquiring" /\ (LoadLastReset(r) \/ CompareAndSwapReset(r) \/ ResetLoad(r))
  /\ UNCHANGED webVars

\* The check of the load: a request over it is answered 503.
CheckLoad(r) ==
  /\ reqPC[r] = "acquiring" /\ LoadCurrent(r)
  /\ ReqGoto(r, IF HasCapacity THEN "acquiring" ELSE "idle")
  /\ UNCHANGED lifeOfServer

\* Capacity is taken and processRequest begins.
BeginRequest(r) ==
  /\ reqPC[r] = "acquiring" /\ AddLoad(r) /\ ReqGoto(r, "processing")
  /\ UNCHANGED lifeOfServer

\* Mutant: a handler that panics skips the release.
PanicKeepsLoad(r, panics) ==
  /\ reqPC[r] = "processing"
  /\ ReqGoto(r, IF panics THEN "idle" ELSE "releasing")
  /\ UNCHANGED <<bpVars, lifeOfServer>>

\* The route's handler ends; a panic is answered 500 by the deferred function.
EndRequest(r, panics) ==
  /\ reqPC[r] = "processing" /\ ReqGoto(r, "releasing")
  /\ UNCHANGED <<bpVars, lifeOfServer>>

ReleaseLoad(r) ==
  /\ reqPC[r] = "releasing" /\ ReqGoto(r, "idle") /\ Release
  /\ UNCHANGED lifeOfServer

\* doStop: the mailbox and the executor; an executor that does not stop ends doStop there.
StopExecutor ==
  /\ webStop = "no" /\ webState \in {"serving", "failed"}
  /\ \/ webStop' = "shutdown" /\ webState' = IF webState = "serving" THEN "draining" ELSE "closed"
     \/ webStop' = "error" /\ UNCHANGED webState
  /\ UNCHANGED <<bpVars, bindAttempts, gocmdDone, reqPC>>

\* ShutdownWithContext: the listener is closed, and the connections are waited for within the timeout.
ShutdownServer ==
  /\ webStop = "shutdown"
  /\ \/ /\ \A r \in Acquirers : reqPC[r] = "idle"
        /\ webStop' = "ok" /\ webState' = "closed"
     \/ webStop' = "error" /\ UNCHANGED webState
  /\ UNCHANGED <<bpVars, bindAttempts, gocmdDone, reqPC>>

SecondPasses == Tick /\ UNCHANGED webVars

RequestStep(r) ==
  \/ AcquireSteps(r) \/ CheckLoad(r) \/ BeginRequest(r) \/ ReleaseLoad(r)
  \/ \E panics \in BOOLEAN : EndRequest(r, panics)

WebNext ==
  \/ ListenAndServe \/ GocmdCancelled \/ StopExecutor \/ ShutdownServer \/ SecondPasses
  \/ \E r \in Acquirers : HandleRequest(r) \/ RequestStep(r)

WebSpec == NewFastHTTPServer /\ [][WebNext]_<<bpVars, webVars>>
-----------------------------------------------------------------------------
InProgress == {r \in Acquirers : reqPC[r] \in {"processing", "releasing"}}

(***************************************************************************)
(* Every request gives back exactly the capacity it took, whatever its     *)
(* handler does, also a panic: from when the server is bound, the load     *)
(* held is the number of requests in progress.  When doStop has returned   *)
(* without an error none is left, and no load with them.                   *)
(***************************************************************************)
RequestsReleased ==
  /\ webState # "binding" => held = Cardinality(InProgress)
  /\ webStop = "ok" => InProgress = {} /\ held = 0 /\ (resets = 0 => currentLoad = 0)

(* The capacity the web server counts is the capacity requests hold, and   *)
(* never more than there is (fast_server.go, backpressure.go).             *)
LoadExact == RequestsReleased /\ HeldBounded

(* A server that stopped without an error accepts nothing and has no request. *)
WebInv ==
  /\ reqPC \in [Acquirers -> {"idle", "acquiring", "processing", "releasing"}]
  /\ held = Cardinality(InProgress)
  /\ webStop = "ok" => webState = "closed" /\ \A r \in Acquirers : reqPC[r] = "idle"
=============================================================================
