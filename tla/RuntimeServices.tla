-------------------------- MODULE RuntimeServices ---------------------------
(***************************************************************************)
(* The state of a component (pkg/core/runtime/state), its hooks and drain  *)
(* (pkg/core/runtime), the tick loop of pkg/core/schedule_timer.go, and    *)
(* quotas (pkg/core/runtime/quota).  They share no state.                  *)
(***************************************************************************)
EXTENDS Naturals, FiniteSets, Sequences, Functions

(***************************************************************************)
(* pkg/core/runtime/state: the lifecycle state of a component.  Start and  *)
(* Stop hold mu while the component's own function runs; the function is   *)
(* left running when it takes longer than TransitionTimeout.  Waiters      *)
(* check the state, register a channel and only then receive from it,      *)
(* while a transition sends without blocking: a waiter that is not yet     *)
(* receiving is dropped.                                                   *)
(***************************************************************************)

CONSTANTS Operators,     \* goroutines that call Start, Stop and Transition
          Waiters,       \* goroutines that call Wait
          NoOperator,
          MaxTransitions

ASSUME StateAssumption == NoOperator \notin Operators

States == {"initial", "starting", "running", "stopping", "stopped", "error"}
Terminal == {"stopped", "error"}

VARIABLES state,
          stateMu,       \* the operator that holds mu, or NoOperator
          opPC,          \* where each operator is
          hooksRunning,  \* functions that were left running by a timeout
          waiters,       \* [States -> set of waiters whose channel is registered]
          waitPC,        \* where each waiter is
          reached,       \* the states entered since its call of Wait
          transitions

stateVars == <<state, stateMu, opPC, hooksRunning, waiters, waitPC, reached, transitions>>

ValidNext(s) ==
  CASE s = "initial"  -> {"starting", "error"}
    [] s = "starting" -> {"running", "error", "stopping"}
    [] s = "running"  -> {"stopping", "error"}
    [] s = "stopping" -> {"stopped", "error"}
    [] s = "stopped"  -> {"starting", "error"}
    [] s = "error"    -> {"initial", "starting"}

NewManager ==
  /\ state = "initial" /\ stateMu = NoOperator /\ hooksRunning = 0 /\ transitions = 0
  /\ opPC = [o \in Operators |-> "idle"]
  /\ waiters = [s \in States |-> {}]
  /\ waitPC = [w \in Waiters |-> "idle"] /\ reached = [w \in Waiters |-> {}]

OpGoto(o, pc) == opPC' = [opPC EXCEPT ![o] = pc]

\* Mutant: a transition wakes the waiters of every state.
NotifyAll(to) ==
  /\ waitPC' = [w \in Waiters |-> IF waitPC[w] = "receiving" /\ \E s \in States : w \in waiters[s]
                                  THEN "returned" ELSE waitPC[w]]
  /\ waiters' = [s \in States |-> {}]

NotifyWaiters(to) ==
  /\ waitPC' = [w \in Waiters |-> IF waitPC[w] = "receiving" /\ w \in waiters[to]
                                  THEN "returned" ELSE waitPC[w]]
  /\ waiters' = [waiters EXCEPT ![to] = {}]

TransitionLocked(to) ==
  /\ state' = to
  /\ reached' = [w \in Waiters |-> IF waitPC[w] \in {"checked", "registered", "receiving"}
                                   THEN reached[w] \cup {to} ELSE reached[w]]
  /\ transitions' = transitions + 1
  /\ NotifyWaiters(to)

StateMuFree == stateMu = NoOperator /\ transitions < MaxTransitions

TransitionTo(o, to) ==
  /\ opPC[o] = "idle" /\ StateMuFree /\ to \in ValidNext(state) \cup {state}
  /\ TransitionLocked(to)
  /\ UNCHANGED <<stateMu, opPC, hooksRunning>>

\* Mutant: Start is let through in the middle of a life.
StartAnywhere(o) ==
  /\ opPC[o] = "idle" /\ StateMuFree /\ state # "starting"
  /\ stateMu' = o /\ OpGoto(o, "onStart") /\ TransitionLocked("starting")
  /\ UNCHANGED hooksRunning

StartComponent(o) ==
  /\ opPC[o] = "idle" /\ StateMuFree /\ state \in {"initial", "stopped"}
  /\ stateMu' = o /\ OpGoto(o, "onStart") /\ TransitionLocked("starting")
  /\ UNCHANGED hooksRunning

StopComponent(o) ==
  /\ opPC[o] = "idle" /\ StateMuFree /\ state \in {"running", "starting"}
  /\ stateMu' = o /\ OpGoto(o, "onStop") /\ TransitionLocked("stopping")
  /\ UNCHANGED hooksRunning

\* The function of Start or Stop returns, fails or times out.
HookOutcome(o, outcome) ==
  /\ opPC[o] \in {"onStart", "onStop"}
  /\ LET next == IF opPC[o] = "onStart" THEN "running" ELSE "stopped"
     IN  TransitionLocked(IF outcome = "ok" THEN next ELSE "error")
  /\ hooksRunning' = IF outcome = "timeout" THEN hooksRunning + 1 ELSE hooksRunning
  /\ stateMu' = NoOperator /\ OpGoto(o, "idle")

LateHookEnds ==
  /\ hooksRunning > 0 /\ hooksRunning' = hooksRunning - 1
  /\ UNCHANGED <<state, stateMu, opPC, waiters, waitPC, reached, transitions>>

\* Wait: the check, the registration, the receive.
WaitCheck(w) ==
  /\ waitPC[w] = "idle"
  /\ waitPC' = [waitPC EXCEPT ![w] = IF state \in Terminal THEN "returned" ELSE "checked"]
  /\ reached' = [reached EXCEPT ![w] = {state}]
  /\ UNCHANGED <<state, stateMu, opPC, hooksRunning, waiters, transitions>>

WaitRegister(w) ==
  /\ waitPC[w] = "checked" /\ waitPC' = [waitPC EXCEPT ![w] = "registered"]
  /\ waiters' = [s \in States |-> IF s \in Terminal THEN waiters[s] \cup {w} ELSE waiters[s]]
  /\ UNCHANGED <<state, stateMu, opPC, hooksRunning, reached, transitions>>

WaitReceive(w) ==
  /\ waitPC[w] = "registered" /\ waitPC' = [waitPC EXCEPT ![w] = "receiving"]
  /\ UNCHANGED <<state, stateMu, opPC, hooksRunning, waiters, reached, transitions>>

WaitContextDone(w) ==
  /\ waitPC[w] = "receiving" /\ waitPC' = [waitPC EXCEPT ![w] = "cancelled"]
  /\ waiters' = [s \in States |-> IF s \in Terminal THEN waiters[s] \ {w} ELSE waiters[s]]
  /\ UNCHANGED <<state, stateMu, opPC, hooksRunning, reached, transitions>>

WaiterStep(w) == WaitCheck(w) \/ WaitRegister(w) \/ WaitReceive(w)

StateNext ==
  \/ \E o \in Operators : \/ StartComponent(o) \/ StopComponent(o)
                          \/ \E to \in States : TransitionTo(o, to)
                          \/ \E outcome \in {"ok", "err", "timeout"} : HookOutcome(o, outcome)
  \/ LateHookEnds
  \/ \E w \in Waiters : WaiterStep(w) \/ WaitContextDone(w)

StateSpec == NewManager /\ [][StateNext]_stateVars /\ \A w \in Waiters : WF_stateVars(WaiterStep(w))
-----------------------------------------------------------------------------
(***************************************************************************)
(* Wait says that a terminal state was reached only when one was, since it *)
(* was called, although the channel of a waiter stays registered for the   *)
(* other terminal state and the component may be started again.            *)
(***************************************************************************)
WaitTellsTruth == \A w \in Waiters : waitPC[w] = "returned" => reached[w] \cap Terminal # {}

(***************************************************************************)
(* Start, Stop and Transition, called by anybody at any time, only take    *)
(* the component along the edges of isValidTransition, the outcome of a    *)
(* function that timed out included.                                       *)
(***************************************************************************)
LifecycleIsLegal == [][state' # state => state' \in ValidNext(state)]_stateVars

(* The component under the state manager only moves along the edges of     *)
(* isValidTransition, and Wait reports only a state that was reached.      *)
StateIsLegal == []WaitTellsTruth /\ LifecycleIsLegal

(* What makes both inductive: the operator whose function runs has mu, and *)
(* the state is still the one it entered; only terminal states have        *)
(* waiters, and one that waits has its own account of the states.          *)
StateInv ==
  /\ state \in States /\ stateMu \in Operators \cup {NoOperator}
  /\ opPC \in [Operators -> {"idle", "onStart", "onStop"}]
  /\ \A o \in Operators : opPC[o] # "idle" =>
       /\ stateMu = o
       /\ state = IF opPC[o] = "onStart" THEN "starting" ELSE "stopping"
  /\ waiters \in [States -> SUBSET Waiters] /\ \A s \in States \ Terminal : waiters[s] = {}
  /\ waitPC \in [Waiters -> {"idle", "checked", "registered", "receiving", "returned", "cancelled"}]
  /\ reached \in [Waiters -> SUBSET States]
  /\ WaitTellsTruth

-----------------------------------------------------------------------------
(***************************************************************************)
(* pkg/core/runtime/drain and pkg/core/runtime/hooks: running one function *)
(* per registered entry, at shutdown (DrainAll) or at a lifecycle point    *)
(* (Execute).  Both refuse a second round while one is running, take a     *)
(* snapshot of the entries, and run it one after the other or in parallel. *)
(* Hooks sort the snapshot by priority, may stop at the first error, and   *)
(* do not wait for the ones marked async.  The kind is chosen in Init.     *)
(* Drain(name), ExecuteByName and ExecuteByPriority share nothing but      *)
(* counters with a round and are left out.                                 *)
(***************************************************************************)

CONSTANTS Members,      \* the entries that may be registered: components or hooks
          Priority,     \* [Members -> Nat], of hooks
          AsyncMembers, \* the async hooks
          HookConcurrency, \* of a parallel round of hooks, 0 for no limit
          Rounds,       \* the goroutines that call DrainAll or Execute
          MaxRounds

VARIABLES lifeKind,     \* "drain" or "hooks"
          parallel, stopOnError,
          members,   \* the entries, in the order of their registration
          inRound,      \* isDraining or isExecuting
          roundPC,      \* where each caller is
          snapshot,     \* what its round is to run
          memberState,  \* of the running round: "todo", "running", "ok", "failed"
          background,   \* async hooks whose goroutine was started and runs on
          drained,      \* isDrained
          rounds

lifeVars == <<lifeKind, parallel, stopOnError, members, inRound, roundPC, snapshot, memberState,
              background, drained, rounds>>
lifeConfig == <<lifeKind, parallel, stopOnError>>

NewLifecycle ==
  /\ lifeKind \in {"drain", "hooks"} /\ parallel \in BOOLEAN
  /\ stopOnError \in IF lifeKind = "hooks" THEN BOOLEAN ELSE {FALSE}
  /\ members = <<>> /\ inRound = FALSE /\ drained = FALSE /\ rounds = 0
  /\ roundPC = [r \in Rounds |-> "idle"] /\ snapshot = [r \in Rounds |-> <<>>]
  /\ memberState = [m \in Members |-> "todo"] /\ background = {}

RegisterMember(m) ==
  /\ m \notin Range(members) /\ members' = Append(members, m)
  /\ UNCHANGED <<lifeConfig, inRound, roundPC, snapshot, memberState, background, drained, rounds>>

UnregisterMember(m) ==
  /\ m \in Range(members) /\ members' = SelectSeq(members, LAMBDA x : x # m)
  /\ UNCHANGED <<lifeConfig, inRound, roundPC, snapshot, memberState, background, drained, rounds>>

\* Clear, of hooks; Reset, of the drainer.
ClearOrReset ==
  /\ IF lifeKind = "hooks" THEN members' = <<>> /\ UNCHANGED drained
                            ELSE drained' = FALSE /\ UNCHANGED members
  /\ UNCHANGED <<lifeConfig, inRound, roundPC, snapshot, memberState, background, rounds>>

\* getHooksSorted: by priority, then by registration; components keep their order.
Before(s, i, j) ==
  IF lifeKind = "drain" THEN i < j
  ELSE Priority[s[i]] < Priority[s[j]] \/ (Priority[s[i]] = Priority[s[j]] /\ i < j)

Sorted(s) ==
  CHOOSE t \in [DOMAIN s -> Range(s)] :
    /\ Range(t) = Range(s)
    /\ \A i, j \in DOMAIN s : Before(s, i, j) =>
         \E k, l \in DOMAIN s : k < l /\ t[k] = s[i] /\ t[l] = s[j]

\* Mutant: a round is not refused while another one runs.
BeginRoundAnyway(r) ==
  /\ roundPC[r] = "idle" /\ rounds < MaxRounds /\ rounds' = rounds + 1
  /\ inRound' = TRUE
  /\ snapshot' = [snapshot EXCEPT ![r] = Sorted(members)]
  /\ memberState' = [m \in Members |-> "todo"]
  /\ roundPC' = [roundPC EXCEPT ![r] = "running"]
  /\ UNCHANGED <<lifeConfig, members, background, drained>>

BeginRound(r) ==
  /\ roundPC[r] = "idle" /\ rounds < MaxRounds /\ rounds' = rounds + 1
  /\ IF inRound
     THEN /\ roundPC' = [roundPC EXCEPT ![r] = "refused"]
          /\ UNCHANGED <<inRound, snapshot, memberState>>
     ELSE /\ inRound' = TRUE
          /\ snapshot' = [snapshot EXCEPT ![r] = Sorted(members)]
          /\ memberState' = [m \in Members |-> "todo"]
          /\ roundPC' = [roundPC EXCEPT ![r] = "running"]
  /\ UNCHANGED <<lifeConfig, members, background, drained>>

Finished(m) == memberState[m] \in {"ok", "failed"}
Failed(r) == \E m \in Range(snapshot[r]) : memberState[m] = "failed"
Stopped(r) == stopOnError /\ ~parallel /\ Failed(r)

IsAsync(m) == lifeKind = "hooks" /\ m \in AsyncMembers
RunningMembers == {m \in Members : memberState[m] = "running"}
HookSlotFree == lifeKind = "drain" \/ HookConcurrency = 0 \/ Cardinality(RunningMembers) < HookConcurrency

\* A parallel round may start every function, up to its limit, a sequential one the next.
Ready(r, m) ==
  IF parallel THEN m \in Range(snapshot[r]) /\ HookSlotFree
  ELSE \E k \in DOMAIN snapshot[r] :
         snapshot[r][k] = m /\ ~Stopped(r) /\ \A j \in 1 .. k - 1 : Finished(snapshot[r][j])

\* An async hook is done at once for the round and runs on by itself, unless the deadline is over.
StartMember(r, m) ==
  /\ roundPC[r] = "running" /\ Ready(r, m) /\ memberState[m] = "todo"
  /\ \/ /\ IsAsync(m)
        /\ memberState' = [memberState EXCEPT ![m] = "ok"] /\ background' = background \cup {m}
     \/ /\ IsAsync(m)
        /\ memberState' = [memberState EXCEPT ![m] = "failed"] /\ UNCHANGED background
     \/ /\ ~IsAsync(m)
        /\ memberState' = [memberState EXCEPT ![m] = "running"] /\ UNCHANGED background
  /\ UNCHANGED <<lifeConfig, members, inRound, roundPC, snapshot, drained, rounds>>

MemberReturns(m) ==
  /\ memberState[m] = "running"
  /\ \E o \in {"ok", "failed"} : memberState' = [memberState EXCEPT ![m] = o]
  /\ UNCHANGED <<lifeConfig, members, inRound, roundPC, snapshot, background, drained, rounds>>

AsyncReturns(m) ==
  /\ m \in background /\ background' = background \ {m}
  /\ UNCHANGED <<lifeConfig, members, inRound, roundPC, snapshot, memberState, drained, rounds>>

\* A parallel round does not wait for its async hooks: some may only start after it.
NotAwaited(m) == parallel /\ IsAsync(m)

EndRound(r) ==
  /\ roundPC[r] = "running"
  /\ Stopped(r) \/ \A m \in Range(snapshot[r]) : Finished(m) \/ NotAwaited(m)
  /\ background' = background \cup {m \in Range(snapshot[r]) : NotAwaited(m) /\ ~Finished(m)}
  /\ roundPC' = [roundPC EXCEPT ![r] = IF Failed(r) /\ (lifeKind = "drain" \/ stopOnError)
                                       THEN "failed" ELSE "done"]
  /\ inRound' = FALSE /\ drained' = (drained \/ lifeKind = "drain")
  /\ snapshot' = [snapshot EXCEPT ![r] = <<>>] /\ memberState' = [m \in Members |-> "todo"]
  /\ UNCHANGED <<lifeConfig, members, rounds>>

RoundStep(r) == EndRound(r) \/ \E m \in Members : StartMember(r, m)

LifecycleNext ==
  \/ ClearOrReset
  \/ \E m \in Members : \/ RegisterMember(m) \/ UnregisterMember(m) \/ MemberReturns(m)
                         \/ AsyncReturns(m)
  \/ \E r \in Rounds : BeginRound(r) \/ RoundStep(r)

LifecycleSpec == NewLifecycle /\ [][LifecycleNext]_lifeVars
-----------------------------------------------------------------------------
InRounds == {r \in Rounds : roundPC[r] = "running"}

(***************************************************************************)
(* One round at a time: DrainAll and Execute run a function only for the   *)
(* round that is in progress and whose snapshot has it, whatever is        *)
(* registered or unregistered meanwhile; a sequential round of hooks has   *)
(* then finished every hook of a lower priority, with success when it      *)
(* stops on error.                                                         *)
(***************************************************************************)
RoundsExclusive ==
  /\ Cardinality(InRounds) <= 1 /\ (inRound <=> InRounds # {})
  /\ \A m \in RunningMembers : \E r \in InRounds :
       /\ m \in Range(snapshot[r])
       /\ (lifeKind = "hooks" /\ ~parallel) => \A n \in Range(snapshot[r]) :
            Priority[n] < Priority[m] =>
              memberState[n] \in IF stopOnError THEN {"ok"} ELSE {"ok", "failed"}

-----------------------------------------------------------------------------
(***************************************************************************)
(* pkg/core/schedule_timer.go: a goroutine that runs the registered tasks  *)
(* once per tick.  Stop only cancels the context; the loop itself clears   *)
(* running when it notices, and reads st.ctx afresh on each turn.          *)
(***************************************************************************)

CONSTANTS MaxTimerStarts     \* bound on Start

VARIABLES timerRunning, \* st.running
          timerCtx,     \* st.ctx, numbered by the Start that made it
          cancelledCtx, \* the contexts that are cancelled
          loops         \* the run goroutines, by number, with what they do

timerVars == <<timerRunning, timerCtx, cancelledCtx, loops>>

NewScheduleTimer ==
  timerRunning = FALSE /\ timerCtx = 0 /\ cancelledCtx = {} /\ loops = [n \in {} |-> "select"]

StartTimer ==
  /\ timerCtx < MaxTimerStarts /\ ~timerRunning
  /\ timerRunning' = TRUE /\ timerCtx' = timerCtx + 1
  /\ loops' = [n \in DOMAIN loops \cup {timerCtx'} |-> IF n = timerCtx' THEN "select" ELSE loops[n]]
  /\ UNCHANGED cancelledCtx

\* Mutant: Stop clears the flag itself.
StopTimerClears ==
  /\ timerCtx > 0 /\ cancelledCtx' = cancelledCtx \cup {timerCtx} /\ timerRunning' = FALSE
  /\ UNCHANGED <<timerCtx, loops>>

StopTimer ==
  /\ timerCtx > 0 /\ cancelledCtx' = cancelledCtx \cup {timerCtx}
  /\ UNCHANGED <<timerRunning, timerCtx, loops>>

LoopGoto(n, pc) == loops' = [loops EXCEPT ![n] = pc]

\* A tick, which the select may choose even when the context is over.
TimerTick(n) ==
  /\ loops[n] = "select" /\ LoopGoto(n, "tasks")
  /\ UNCHANGED <<timerRunning, timerCtx, cancelledCtx>>

TasksDone(n) ==
  /\ loops[n] = "tasks" /\ LoopGoto(n, "select")
  /\ UNCHANGED <<timerRunning, timerCtx, cancelledCtx>>

\* The loop sees the context it finds in st.ctx, in two steps: the channel, then the flag.
SeeDone(n) ==
  /\ loops[n] = "select" /\ timerCtx \in cancelledCtx /\ LoopGoto(n, "ending")
  /\ UNCHANGED <<timerRunning, timerCtx, cancelledCtx>>

EndLoop(n) ==
  /\ loops[n] = "ending" /\ timerRunning' = FALSE /\ LoopGoto(n, "ended")
  /\ UNCHANGED <<timerCtx, cancelledCtx>>

LoopStep(n) == TasksDone(n) \/ SeeDone(n) \/ EndLoop(n)

TimerNext == StartTimer \/ StopTimer \/ \E n \in DOMAIN loops : TimerTick(n) \/ LoopStep(n)

TimerSpec == NewScheduleTimer /\ [][TimerNext]_timerVars
-----------------------------------------------------------------------------
(***************************************************************************)
(* One loop at a time: running says that a loop is alive, and since Start  *)
(* is refused until the old loop has seen its context, no loop ever takes  *)
(* the context of a later Start for its own and ticks on beside it.        *)
(***************************************************************************)
OneTickLoop ==
  /\ \A n \in DOMAIN loops : loops[n] # "ended" => n = timerCtx
  /\ timerRunning <=> \E n \in DOMAIN loops : loops[n] # "ended"
-----------------------------------------------------------------------------
(***************************************************************************)
(* pkg/core/runtime/quota: named quotas.  Acquire and Release find the     *)
(* quota object under the manager's lock and then work on it under the     *)
(* object's own lock, so the name may be unregistered and registered anew  *)
(* in between: the call then works on an object nobody else sees.  The     *)
(* model has one name; objects are numbered by their registration.         *)
(***************************************************************************)

CONSTANTS Users,          \* goroutines that acquire one unit and release it
          Limit,
          HasWindow,      \* the quota has a Window, which may pass at any time
          MaxObjects,     \* bound on the registrations
          MaxResets       \* bound on Reset and on the ends of the window

VARIABLES current,        \* the registered object, 0 for none
          objects,        \* how many were made
          usage,          \* [1..MaxObjects -> Nat]
          quotaPC,        \* where each user is
          quotaRef,       \* the object its call found
          holds,          \* the object each user holds a unit of, 0 for none
          quotaResets

quotaVars == <<current, objects, usage, quotaPC, quotaRef, holds, quotaResets>>

NewQuotas ==
  /\ current = 0 /\ objects = 0 /\ usage = [q \in 1 .. MaxObjects |-> 0] /\ quotaResets = 0
  /\ quotaPC = [u \in Users |-> "idle"]
  /\ quotaRef = [u \in Users |-> 0] /\ holds = [u \in Users |-> 0]

QuotaGoto(u, pc) == quotaPC' = [quotaPC EXCEPT ![u] = pc]

RegisterQuota ==
  /\ current = 0 /\ objects < MaxObjects
  /\ objects' = objects + 1 /\ current' = objects'
  /\ UNCHANGED <<usage, quotaPC, quotaRef, holds, quotaResets>>

\* Unregister and Clear.
UnregisterQuota ==
  /\ current # 0 /\ current' = 0
  /\ UNCHANGED <<objects, usage, quotaPC, quotaRef, holds, quotaResets>>

\* The lookup of Acquire and of Release; without a quota the call fails.
FindQuota(u) ==
  /\ quotaPC[u] = "idle" /\ current # 0
  /\ quotaRef' = [quotaRef EXCEPT ![u] = current]
  /\ QuotaGoto(u, IF holds[u] = 0 THEN "acquiring" ELSE "releasing")
  /\ UNCHANGED <<current, objects, usage, holds, quotaResets>>

WindowOver == HasWindow /\ quotaResets < MaxResets

\* Mutant: the limit is compared with the usage before this call.
AcquireLate(u) ==
  /\ quotaPC[u] = "acquiring" /\ QuotaGoto(u, "idle")
  /\ \E windowOver \in {FALSE} \cup (IF WindowOver THEN {TRUE} ELSE {}) :
       LET used == IF windowOver THEN 0 ELSE usage[quotaRef[u]]
           fits == Limit = 0 \/ used <= Limit
       IN  /\ usage' = [usage EXCEPT ![quotaRef[u]] = IF fits THEN used + 1 ELSE used]
           /\ holds' = IF fits THEN [holds EXCEPT ![u] = quotaRef[u]] ELSE holds
           /\ quotaResets' = IF windowOver THEN quotaResets + 1 ELSE quotaResets
  /\ UNCHANGED <<current, objects, quotaRef>>

\* Acquire under the object's lock: the window may be over, which resets the usage first.
Acquire(u) ==
  /\ quotaPC[u] = "acquiring" /\ QuotaGoto(u, "idle")
  /\ \E windowOver \in {FALSE} \cup (IF WindowOver THEN {TRUE} ELSE {}) :
       LET used == IF windowOver THEN 0 ELSE usage[quotaRef[u]]
           fits == Limit = 0 \/ used + 1 <= Limit
       IN  /\ usage' = [usage EXCEPT ![quotaRef[u]] = IF fits THEN used + 1 ELSE used]
           /\ holds' = IF fits THEN [holds EXCEPT ![u] = quotaRef[u]] ELSE holds
           /\ quotaResets' = IF windowOver THEN quotaResets + 1 ELSE quotaResets
  /\ UNCHANGED <<current, objects, quotaRef>>

\* Release gives the unit back to the object it finds, and never goes below zero.
ReleaseQuota(u) ==
  /\ quotaPC[u] = "releasing" /\ QuotaGoto(u, "idle")
  /\ usage' = [usage EXCEPT ![quotaRef[u]] = IF @ = 0 THEN 0 ELSE @ - 1]
  /\ holds' = [holds EXCEPT ![u] = 0]
  /\ UNCHANGED <<current, objects, quotaRef, quotaResets>>

\* Reset, by a caller or by the auto-reset loop, of the object its lookup found.
ResetQuota(q) ==
  /\ q <= objects /\ quotaResets < MaxResets /\ quotaResets' = quotaResets + 1
  /\ usage' = [usage EXCEPT ![q] = 0]
  /\ UNCHANGED <<current, objects, quotaPC, quotaRef, holds>>

QuotaNext ==
  \/ RegisterQuota \/ UnregisterQuota \/ \E q \in 1 .. MaxObjects : ResetQuota(q)
  \/ \E u \in Users : FindQuota(u) \/ Acquire(u) \/ ReleaseQuota(u)

QuotaSpec == NewQuotas /\ [][QuotaNext]_quotaVars
-----------------------------------------------------------------------------
Holders(q) == {u \in Users : holds[u] = q}

(***************************************************************************)
(* As long as no reset and no new registration has cut the account off     *)
(* from the holders, the usage of a quota is the number of units held, and *)
(* so at most Limit are held at once, whatever the interleaving of lookup, *)
(* acquire and release.  (A unit released after a reset is taken from the  *)
(* units of others; see the README.)                                       *)
(***************************************************************************)
UsageIsHeld ==
  (quotaResets = 0 /\ objects = 1) =>
    /\ usage[1] = Cardinality(Holders(1))
    /\ Limit > 0 => Cardinality(Holders(1)) <= Limit
=============================================================================
