----------------------------- MODULE BaseServer -----------------------------
(***************************************************************************)
(* The life cycle of pkg/core/base_server.go, shared by the HTTP, TCP, UDP *)
(* and WebSocket servers: Start and Stop hold mu only around their state   *)
(* changes, the hooks run outside.                                         *)
(***************************************************************************)
EXTENDS Integers

CONSTANTS
  Starters,   \* goroutines that call Start, again and again
  Stoppers,   \* goroutines that call Stop, again and again
  MaxStarts,  \* bound: how often the start hook is called
  MaxStops    \* bound: how often the stop hook is called

ASSUME ServerAssumption == MaxStarts \in Nat /\ MaxStops \in Nat

VARIABLES
  server,     \* bs.state
  rootCtx,    \* bs.rootCtx and bs.rootCancel: which start created them, or 0
  cancelled,  \* the root contexts that were cancelled
  starting,   \* the Starts whose hook runs
  startCtx,   \* the root context each Start created
  stopping,   \* the Stops whose hook runs
  stopCtx,    \* the root context each Stop took
  startCalls, \* history: how often the start hook was called
  stopCalls,  \* history: how often the stop hook was called
  overlapped  \* history: some Stop began while a start hook ran

serverVars == <<server, rootCtx, cancelled, starting, startCtx, stopping, stopCtx,
                startCalls, stopCalls, overlapped>>

ServerStates == {"Idle", "Starting", "Running", "Stopping", "Halted"}

NewBaseServer ==
  /\ server = "Idle" /\ rootCtx = 0 /\ cancelled = {}
  /\ starting = {} /\ startCtx = [s \in Starters |-> 0]
  /\ stopping = {} /\ stopCtx = [s \in Stoppers |-> 0]
  /\ startCalls = 0 /\ stopCalls = 0 /\ overlapped = FALSE

-----------------------------------------------------------------------------
(* Mutant: a halted server may be started again. *)
MayStartHalted == server \in {"Idle", "Halted"}

(* Any other state answers ALREADY_STARTED. *)
MayStart == server = "Idle"

ServerStart(s) ==
  /\ s \notin starting
  /\ MayStart
  /\ startCalls < MaxStarts
  /\ server' = "Starting"
  /\ startCalls' = startCalls + 1
  /\ rootCtx' = startCalls'
  /\ startCtx' = [startCtx EXCEPT ![s] = startCalls']
  /\ starting' = starting \cup {s}
  /\ UNCHANGED <<cancelled, stopping, stopCtx, stopCalls, overlapped>>

(* The start hook failed: whatever the state is now, it becomes Idle. *)
ServerStartFails(s) ==
  /\ s \in starting
  /\ cancelled' = cancelled \cup {startCtx[s]}
  /\ rootCtx' = 0
  /\ server' = "Idle"
  /\ starting' = starting \ {s}
  /\ UNCHANGED <<startCtx, stopping, stopCtx, startCalls, stopCalls, overlapped>>

(* The start hook succeeded: whatever the state is now, it becomes Running. *)
ServerStarted(s) ==
  /\ s \in starting
  /\ server' = "Running"
  /\ starting' = starting \ {s}
  /\ UNCHANGED <<rootCtx, cancelled, startCtx, stopping, stopCtx, startCalls, stopCalls, overlapped>>

-----------------------------------------------------------------------------
(* Any other state returns nil at once. *)
MayStop == server \in {"Starting", "Running"}

ServerStop(s) ==
  /\ s \notin stopping
  /\ MayStop
  /\ stopCalls < MaxStops
  /\ server' = "Stopping"
  /\ stopCtx' = [stopCtx EXCEPT ![s] = rootCtx]
  /\ stopCalls' = stopCalls + 1
  /\ stopping' = stopping \cup {s}
  /\ overlapped' = (overlapped \/ starting # {})
  /\ UNCHANGED <<rootCtx, cancelled, starting, startCtx, startCalls>>

(* Mutant: the root context is not cancelled. *)
ServerStoppedUncancelled(s) ==
  /\ s \in stopping
  /\ rootCtx' = 0
  /\ server' = "Halted"
  /\ stopping' = stopping \ {s}
  /\ UNCHANGED <<cancelled, starting, startCtx, stopCtx, startCalls, stopCalls, overlapped>>

(* The stop hook returned: cancel, then reset under the lock. *)
ServerStopped(s) ==
  /\ s \in stopping
  /\ cancelled' = cancelled \cup ({stopCtx[s]} \ {0})
  /\ rootCtx' = 0
  /\ server' = "Halted"
  /\ stopping' = stopping \ {s}
  /\ UNCHANGED <<starting, startCtx, stopCtx, startCalls, stopCalls, overlapped>>

ServerNext ==
  \/ \E s \in Starters : ServerStart(s) \/ ServerStartFails(s) \/ ServerStarted(s)
  \/ \E s \in Stoppers : ServerStop(s) \/ ServerStopped(s)

ServerSpec == NewBaseServer /\ [][ServerNext]_serverVars

-----------------------------------------------------------------------------
ServerTypeOK ==
  /\ server \in ServerStates
  /\ startCalls \in Nat /\ stopCalls \in Nat /\ overlapped \in BOOLEAN
  /\ rootCtx \in 0 .. startCalls
  /\ cancelled \subseteq 1 .. startCalls
  /\ starting \subseteq Starters /\ stopping \subseteq Stoppers
  /\ startCtx \in [Starters -> 0 .. startCalls]
  /\ stopCtx \in [Stoppers -> 0 .. startCalls]
  /\ \A s \in starting : startCtx[s] # 0

(* The start hook never runs twice at the same time, whatever Starts and    *)
(* Stops overlap: the unlocked hook of Start is guarded by the state alone, *)
(* and only the Start that runs the hook makes the state Idle again.        *)
StartHookExclusive ==
  /\ \A s, t \in starting : s = t
  /\ server = "Idle" => starting = {}

(* What the doc of ServerHalted says: "Stop() completed; [...] terminal     *)
(* state".  It holds as long as no Stop overlaps a start hook.              *)
HaltedIsTerminal ==
  [][server = "Halted" /\ ~overlapped => server' = "Halted"]_serverVars

(* As long as no Stop overlaps a start hook: a running server has a live    *)
(* root context and its stop hook has not run, a halted one has cancelled   *)
(* every context it created and has run its stop hook once.                 *)
ContextFollowsState ==
  ~overlapped =>
    /\ server = "Running" => rootCtx = startCalls /\ rootCtx \notin cancelled /\ stopCalls = 0
    /\ server = "Halted" => rootCtx = 0 /\ cancelled = 1 .. startCalls /\ stopCalls = 1

(* The start hook runs alone, and the contexts are those of the state. *)
ServerExact == StartHookExclusive /\ ContextFollowsState

(* What makes ContextFollowsState inductive. *)
OrderInv ==
  /\ \A s \in starting : server = "Starting" /\ startCtx[s] = startCalls /\ rootCtx = startCalls
  /\ \A s \in stopping : server = "Stopping" /\ stopCtx[s] = startCalls /\ rootCtx = startCalls
  /\ \A s, t \in stopping : s = t
  /\ server = "Starting" => starting # {}
  /\ server = "Idle" => rootCtx = 0 /\ stopCalls = 0 /\ cancelled = 1 .. startCalls
  /\ server # "Idle" => startCalls > 0
  /\ server \in {"Starting", "Running"} => stopCalls = 0 /\ rootCtx = startCalls
  /\ server \in {"Starting", "Running", "Stopping"} => cancelled = 1 .. (startCalls - 1)
  /\ server = "Stopping" => stopCalls = 1

ServerInv ==
  /\ ServerTypeOK /\ StartHookExclusive /\ ContextFollowsState
  /\ ~overlapped => OrderInv
=============================================================================
