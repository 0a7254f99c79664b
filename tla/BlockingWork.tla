---------------------------- MODULE BlockingWork ----------------------------
(***************************************************************************)
(* Blocking work of a verticle: SubmitBlockingFunc (pkg/core               *)
(* base_verticle_eventloop.go) hands a task to the verticle's worker pool  *)
(* and returns a future, which the task completes; BaseVerticle.Start and  *)
(* Stop create and stop the pool under bv.mu.  A task is identified with   *)
(* its future; the callers are the pool's submitters and await the future; *)
(* a worker completes it, or its caller when the pool refuses the task.    *)
(***************************************************************************)
EXTENDS Future, WorkerPool

VARIABLES
  bvState,    \* the verticle: "new", "started", "stopping" (Stop holds bv.mu), "stopped"
  bvPool,     \* bv.workerPool # nil
  callerPC,   \* each caller: <<label, future>>
  fnResult    \* each task's fn: "none", "lock" (waits for bv.mu), "running", or its outcome

blockingVars == <<bvState, bvPool, callerPC, fnResult>>

Callers == PoolSubmitters

BlockingInit ==
  /\ NewPromise /\ NewWorkerPool
  /\ bvState = "new" /\ bvPool = FALSE
  /\ callerPC = [c \in Callers |-> <<"idle">>]
  /\ fnResult = [f \in Futures |-> "none"]

CallerGoto(c, pc) == callerPC' = [callerPC EXCEPT ![c] = pc]

-----------------------------------------------------------------------------
(* The verticle.                                                           *)

VerticleStart ==
  /\ bvState = "new"
  /\ PoolStart
  /\ bvState' = "started" /\ bvPool' = TRUE
  /\ UNCHANGED <<futureVars, callerPC, fnResult>>

(* Stop takes bv.mu; a verticle that was never started has no pool to stop. *)
VerticleStop ==
  /\ bvState \in {"new", "started"}
  /\ IF bvPool THEN PoolStop /\ bvState' = "stopping"
               ELSE bvState' = "stopped" /\ poolPanic = "none" /\ UNCHANGED poolVars
  /\ UNCHANGED <<futureVars, bvPool, callerPC, fnResult>>

(* Mutant: the pool is stopped without a deadline. *)
VerticleStoppedWaits ==
  /\ bvState = "stopping"
  /\ PoolStopReturns
  /\ bvState' = "stopped" /\ bvPool' = FALSE
  /\ UNCHANGED <<futureVars, callerPC, fnResult>>

(* The pool has been stopped, within 5 seconds or not; bv.mu is released. *)
VerticleStopped ==
  /\ bvState = "stopping"
  /\ PoolStopReturns \/ PoolStopTimeout
  /\ bvState' = "stopped" /\ bvPool' = FALSE
  /\ UNCHANGED <<futureVars, callerPC, fnResult>>

-----------------------------------------------------------------------------
(* SubmitBlockingFunc.                                                     *)

(* What NewPromise may return: a future nobody has. *)
UnusedFutures ==
  {f \in Futures : /\ winner[f] = "none" /\ fnResult[f] = "none" /\ Fresh(<<f>>)
                   /\ \A d \in Callers : callerPC[d][1] # "idle" => callerPC[d][2] # f}

(* bv.workerPool is read under bv.mu; Stop may come between this and Submit. *)
GetPool(c) ==
  /\ poolPanic = "none"
  /\ callerPC[c][1] = "idle" /\ bvState # "stopping"
  /\ UnusedFutures # {}
  /\ LET f == CHOOSE f \in UnusedFutures : TRUE
     IN  CallerGoto(c, IF bvPool THEN <<"submit", f>> ELSE <<"fail", f>>)
  /\ UNCHANGED <<futureVars, poolVars, bvState, bvPool, fnResult>>

CallSubmit(c) ==
  /\ callerPC[c][1] = "submit"
  /\ Submit(c, callerPC[c][2])
  /\ CallerGoto(c, <<"submitted", callerPC[c][2]>>)
  /\ UNCHANGED <<futureVars, bvState, bvPool, fnResult>>

(* Mutant: the error of Submit is not passed to the promise. *)
AfterSubmitIgnored(f) == "await"

(* Submit has returned: an error fails the promise. *)
AfterSubmit(f) == IF f \in refused THEN "fail" ELSE "await"

SubmitReturned(c) ==
  /\ poolPanic = "none"
  /\ callerPC[c][1] = "submitted" /\ submitPC[c].pc = "idle"
  /\ CallerGoto(c, <<AfterSubmit(callerPC[c][2]), callerPC[c][2]>>)
  /\ UNCHANGED <<futureVars, poolVars, bvState, bvPool, fnResult>>

FailPromise(c) ==
  /\ poolPanic = "none"
  /\ callerPC[c][1] = "fail"
  /\ Complete(c, callerPC[c][2], "err")
  /\ CallerGoto(c, <<"failing", callerPC[c][2]>>)
  /\ UNCHANGED <<poolVars, bvState, bvPool, fnResult>>

FailedPromise(c) ==
  /\ poolPanic = "none"
  /\ callerPC[c][1] = "failing" /\ completerPC[c][1] = "idle"
  /\ CallerGoto(c, <<"await", callerPC[c][2]>>)
  /\ UNCHANGED <<futureVars, poolVars, bvState, bvPool, fnResult>>

(* The future has been returned and its caller awaits it. *)
CallAwait(c) ==
  /\ poolPanic = "none"
  /\ callerPC[c][1] = "await"
  /\ Await(c, callerPC[c][2])
  /\ CallerGoto(c, <<"awaiting", callerPC[c][2]>>)
  /\ UNCHANGED <<poolVars, bvState, bvPool, fnResult>>

AwaitReturned(c) ==
  /\ poolPanic = "none"
  /\ callerPC[c][1] = "awaiting" /\ awaiterPC[c][1] = "idle"
  /\ CallerGoto(c, <<"idle">>)
  /\ UNCHANGED <<futureVars, poolVars, bvState, bvPool, fnResult>>

-----------------------------------------------------------------------------
(* The task in a worker.                                                   *)

(* fn starts; it may use the verticle (RunOnEventLoop, EventLoop), which   *)
(* takes bv.mu.                                                            *)
FnStart(w) ==
  /\ poolPanic = "none"
  /\ workerPC[w][1] = "run" /\ fnResult[workerPC[w][2]] = "none"
  /\ \E l \in {"lock", "running"} : fnResult' = [fnResult EXCEPT ![workerPC[w][2]] = l]
  /\ UNCHANGED <<futureVars, poolVars, bvState, bvPool, callerPC>>

FnLocks(w) ==
  /\ poolPanic = "none"
  /\ workerPC[w][1] = "run" /\ fnResult[workerPC[w][2]] = "lock"
  /\ bvState # "stopping"
  /\ fnResult' = [fnResult EXCEPT ![workerPC[w][2]] = "running"]
  /\ UNCHANGED <<futureVars, poolVars, bvState, bvPool, callerPC>>

(* Mutant: an error of fn completes the promise. *)
FnReturnsMixed(w, o) ==
  /\ poolPanic = "none"
  /\ workerPC[w][1] = "run" /\ fnResult[workerPC[w][2]] = "running"
  /\ fnResult' = [fnResult EXCEPT ![workerPC[w][2]] = o]
  /\ Complete(w, workerPC[w][2], "ok")
  /\ UNCHANGED <<poolVars, bvState, bvPool, callerPC>>

(* fn returns and the task begins to complete or fail the promise. *)
FnReturns(w, o) ==
  /\ poolPanic = "none"
  /\ workerPC[w][1] = "run" /\ fnResult[workerPC[w][2]] = "running"
  /\ fnResult' = [fnResult EXCEPT ![workerPC[w][2]] = o]
  /\ Complete(w, workerPC[w][2], o)
  /\ UNCHANGED <<poolVars, bvState, bvPool, callerPC>>

TaskReturns(w) ==
  /\ workerPC[w][1] = "run" /\ fnResult[workerPC[w][2]] \in Outcomes
  /\ completerPC[w][1] = "idle"
  /\ WorkerRan(w)
  /\ UNCHANGED <<futureVars, blockingVars>>

-----------------------------------------------------------------------------
CallerStep(c) ==
  \/ CallSubmit(c) \/ SubmitReturned(c) \/ FailPromise(c) \/ FailedPromise(c)
  \/ CallAwait(c) \/ AwaitReturned(c)
  \/ SubmitStep(c) /\ UNCHANGED <<futureVars, blockingVars>>
  \/ poolPanic = "none" /\ (CompleteStep(c) \/ AwaitStep(c)) /\ UNCHANGED <<poolVars, blockingVars>>

BlockingWorkerStep(w) ==
  \/ FnStart(w) \/ FnLocks(w) \/ TaskReturns(w)
  \/ \E o \in Outcomes : FnReturns(w, o)
  \/ WorkerTakes(w) /\ UNCHANGED <<futureVars, blockingVars>>
  \/ poolPanic = "none" /\ CompleteStep(w) /\ UNCHANGED <<poolVars, blockingVars>>

VerticleStopStep ==
  \/ (PoolStopCancel \/ PoolStopClose) /\ UNCHANGED <<futureVars, blockingVars>>
  \/ VerticleStopped

BlockingNext ==
  \/ VerticleStart \/ VerticleStop \/ VerticleStopStep
  \/ PoolParentCancel /\ UNCHANGED <<futureVars, blockingVars>>
  \/ \E c \in Callers :
       \/ GetPool(c)
       \/ CallerStep(c)
       \/ poolPanic = "none" /\ AwaitCancelled(c) /\ UNCHANGED <<poolVars, blockingVars>>
  \/ \E w \in PoolWorkers : BlockingWorkerStep(w)

BlockingSpec == BlockingInit /\ [][BlockingNext]_<<futureVars, poolVars, blockingVars>>

-----------------------------------------------------------------------------
BlockingTypeOK ==
  /\ bvState \in {"new", "started", "stopping", "stopped"}
  /\ bvPool \in BOOLEAN
  /\ \A c \in Callers :
       callerPC[c][1] \in {"idle", "submit", "submitted", "fail", "failing", "await", "awaiting"}
  /\ fnResult \in [Futures -> Outcomes \cup {"none", "lock", "running"}]
  /\ (bvPool <=> bvState \in {"started", "stopping"})

(* A future tells the truth about its function: it succeeds only if fn ran   *)
(* and succeeded, and it fails either with fn's own error or, when the pool  *)
(* was absent or refused the task, without fn ever starting.                 *)
FutureTellsTruth ==
  \A f \in Futures : winner[f] # "none" =>
    \/ winner[f] = fnResult[f]
    \/ winner[f] = "err" /\ fnResult[f] = "none" /\ f \notin accepted

Returned(f) == \E c \in Callers : callerPC[c] \in {<<"await", f>>, <<"awaiting", f>>}

(* A returned future is completed, unless the pool's context ends first     *)
(* (Stop, or a closed platform) or the program panics: a task still queued  *)
(* then is dropped and nobody completes its promise.                         *)
BlockingCompletes ==
  \A f \in Futures : []<>(Returned(f) => result[f] # "nil" \/ poolDone \/ poolPanic # "none")

(* Stop of a verticle returns although it holds bv.mu while it waits for    *)
(* workers whose functions may wait for bv.mu: the timer resolves it.        *)
VerticleStopReturns == []<>(bvState # "stopping" \/ poolPanic # "none")
=============================================================================
