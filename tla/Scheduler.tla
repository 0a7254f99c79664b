----------------------------- MODULE Scheduler -----------------------------
(***************************************************************************)
(* pkg/scheduler: a ticker loop that starts a goroutine for every entry    *)
(* whose nextRun has come.  A run moves nextRun only when its task ends,   *)
(* so a task that outlives a tick is started again by the next one.        *)
(* Times are relative: nextRun counts the ticks to go, a run its age.      *)
(***************************************************************************)
EXTENDS Integers, FiniteSets

CONSTANTS Entries,      \* the tasks that may be scheduled
          Period,     \* [Entries -> ticks]: the delay or the interval of its spec
          Recurring,    \* the entries whose spec is recurring
          MaxOverlap    \* bound on the runs of one entry that overlap

VARIABLES tasks,        \* the scheduled entries
          nextRun,      \* ticks until the entry is due, Never for the zero time
          runs,         \* [Entries -> [1..MaxOverlap -> [pc, age]]]
          schedStarted, schedStopped,
          loopRuns,     \* the goroutine of run
          schedCancelled, \* s.ctx
          startCtxDone, \* the context that was given to Start
          schedStopPC,  \* the call of Stop
          everScheduled

schedVars == <<tasks, nextRun, runs, schedStarted, schedStopped, loopRuns, schedCancelled,
               startCtxDone, schedStopPC, everScheduled>>

Never == -1
NoRun == [pc |-> "none", age |-> 0]
Slots == 1 .. MaxOverlap

NewScheduler ==
  /\ tasks = {} /\ everScheduled = {}
  /\ nextRun = [e \in Entries |-> Never]
  /\ runs = [e \in Entries |-> [s \in Slots |-> NoRun]]
  /\ schedStarted = FALSE /\ schedStopped = FALSE /\ loopRuns = FALSE
  /\ schedCancelled = FALSE /\ startCtxDone = FALSE /\ schedStopPC = "idle"

Schedule(e) ==
  /\ e \notin everScheduled /\ ~schedStopped
  /\ tasks' = tasks \cup {e} /\ everScheduled' = everScheduled \cup {e}
  /\ nextRun' = [nextRun EXCEPT ![e] = Period[e]]
  /\ UNCHANGED <<runs, schedStarted, schedStopped, loopRuns, schedCancelled, startCtxDone, schedStopPC>>

Unschedule(e) ==
  /\ e \in tasks /\ tasks' = tasks \ {e}
  /\ UNCHANGED <<nextRun, runs, schedStarted, schedStopped, loopRuns, schedCancelled, startCtxDone,
                 schedStopPC, everScheduled>>

StartScheduler ==
  /\ ~schedStarted /\ ~schedStopped
  /\ schedStarted' = TRUE /\ loopRuns' = TRUE
  /\ UNCHANGED <<tasks, nextRun, runs, schedStopped, schedCancelled, startCtxDone, schedStopPC, everScheduled>>

CancelStartContext ==
  /\ ~startCtxDone /\ startCtxDone' = TRUE
  /\ UNCHANGED <<tasks, nextRun, runs, schedStarted, schedStopped, loopRuns, schedCancelled,
                 schedStopPC, everScheduled>>

LoopEnds ==
  /\ loopRuns /\ (schedCancelled \/ startCtxDone) /\ loopRuns' = FALSE
  /\ UNCHANGED <<tasks, nextRun, runs, schedStarted, schedStopped, schedCancelled, startCtxDone,
                 schedStopPC, everScheduled>>

Later(e) == IF nextRun[e] > 0 THEN nextRun[e] - 1 ELSE nextRun[e]
Due(e) == e \in tasks /\ Later(e) = 0
Free(e) == {s \in Slots : runs[e][s].pc = "none"}
SpawnAt(e) == CHOOSE s \in Free(e) : \A t \in Free(e) : s <= t

\* A tick: the select may take it although the context is done.  executeDueTasks starts a
\* run of every due entry.
ExecuteDueTasks ==
  /\ loopRuns /\ \A e \in Entries : Due(e) => Free(e) # {}
  /\ nextRun' = [e \in Entries |-> Later(e)]
  /\ runs' = [e \in Entries |-> [s \in Slots |->
                 IF Due(e) /\ s = SpawnAt(e) THEN [pc |-> "spawned", age |-> 0]
                 ELSE IF runs[e][s].pc = "none" THEN NoRun
                 ELSE [runs[e][s] EXCEPT !.age = IF @ < Period[e] THEN @ + 1 ELSE @]]]
  /\ UNCHANGED <<tasks, schedStarted, schedStopped, loopRuns, schedCancelled, startCtxDone,
                 schedStopPC, everScheduled>>

\* executeTask: the run begins, and the task with it.
ExecuteTask(e, s) ==
  /\ runs[e][s].pc = "spawned" /\ runs' = [runs EXCEPT ![e][s].pc = "running"]
  /\ UNCHANGED <<tasks, nextRun, schedStarted, schedStopped, loopRuns, schedCancelled, startCtxDone,
                 schedStopPC, everScheduled>>

\* Mutant: the spec is asked for a time after the one it gave.
NextAfterNever(e, age) == Never

\* Next(now) of a recurring spec is counted from the tick that started the run.
NextAfter(e, age) == IF e \in Recurring THEN Period[e] - age ELSE Never

\* The task returns: nextRun moves, and a run of a one-time entry goes on to delete it.
ScheduledReturns(e, s) ==
  /\ runs[e][s].pc = "running"
  /\ nextRun' = [nextRun EXCEPT ![e] = NextAfter(e, runs[e][s].age)]
  /\ runs' = [runs EXCEPT ![e][s] = IF e \in Recurring THEN NoRun ELSE [@ EXCEPT !.pc = "deleting"]]
  /\ UNCHANGED <<tasks, schedStarted, schedStopped, loopRuns, schedCancelled, startCtxDone,
                 schedStopPC, everScheduled>>

DeleteOneTime(e, s) ==
  /\ runs[e][s].pc = "deleting"
  /\ runs' = [runs EXCEPT ![e][s] = NoRun] /\ tasks' = tasks \ {e}
  /\ UNCHANGED <<nextRun, schedStarted, schedStopped, loopRuns, schedCancelled, startCtxDone,
                 schedStopPC, everScheduled>>

StopScheduler ==
  /\ schedStopPC = "idle" /\ schedStopped' = TRUE
  /\ schedCancelled' = TRUE /\ schedStopPC' = "waiting"
  /\ UNCHANGED <<tasks, nextRun, runs, schedStarted, loopRuns, startCtxDone, everScheduled>>

\* Mutant: only the loop is in the wait group.
LoopInWaitGroup == loopRuns

\* wg counts the loop and every run.
InWaitGroup == loopRuns \/ \E e \in Entries, s \in Slots : runs[e][s].pc # "none"

StopSchedulerReturns ==
  /\ schedStopPC = "waiting" /\ ~InWaitGroup /\ schedStopPC' = "returned"
  /\ UNCHANGED <<tasks, nextRun, runs, schedStarted, schedStopped, loopRuns, schedCancelled,
                 startCtxDone, everScheduled>>

RunStep(e, s) == ExecuteTask(e, s) \/ ScheduledReturns(e, s) \/ DeleteOneTime(e, s)

SchedulerNext ==
  \/ \E e \in Entries : Schedule(e) \/ Unschedule(e) \/ \E s \in Slots : RunStep(e, s)
  \/ StartScheduler \/ CancelStartContext \/ LoopEnds \/ ExecuteDueTasks
  \/ StopScheduler \/ StopSchedulerReturns

SchedulerSpec ==
  /\ NewScheduler /\ [][SchedulerNext]_schedVars
  /\ WF_schedVars(LoopEnds) /\ WF_schedVars(ExecuteDueTasks) /\ WF_schedVars(StopSchedulerReturns)
  /\ \A e \in Entries, s \in Slots : WF_schedVars(RunStep(e, s))
-----------------------------------------------------------------------------
(***************************************************************************)
(* When Stop has returned, no task runs and none will: the wait group      *)
(* covers the loop and the runs it started, also a run that was started by *)
(* the tick that was taken after the context was cancelled.                *)
(***************************************************************************)
StopIsFinal ==
  schedStopPC = "returned" => ~loopRuns /\ \A e \in Entries, s \in Slots : runs[e][s].pc = "none"

(***************************************************************************)
(* An entry of a running scheduler is executed again and again, if it is   *)
(* recurring, and at least once otherwise, unless somebody unschedules it  *)
(* or ends the loop: overlapping runs that finish in any order never leave *)
(* nextRun where the loop misses it.                                       *)
(***************************************************************************)
ScheduledIsExecuted ==
  \A e \in Entries :
    []<>(e \in tasks /\ loopRuns => \E s \in Slots : runs[e][s].pc = "running")
=============================================================================
