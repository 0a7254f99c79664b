---------------------------- MODULE ComputePool ----------------------------
(***************************************************************************)
(* pkg/core/compute: a pool of workers on one job channel, with four       *)
(* policies for a full channel.  CoalesceByKey keeps the newest job of a   *)
(* key: a submitter first takes the older one's place in coalesceMap and   *)
(* cancels it, and only then tries the channel.  All jobs have one key,    *)
(* and each has one reader of its Future.                                  *)
(***************************************************************************)
EXTENDS Naturals, Sequences, SequencesExt

CONSTANTS Jobs, NoJob, JobWorkers, QueueSize,
          JobPolicies,      \* the BackpressurePolicy values to check
          CancellableJobs       \* jobs whose context may end

ASSUME ComputeAssumption == NoJob \notin Jobs /\ QueueSize \in Nat \ {0}

VARIABLES jobPolicy,
          poolRunning, jobChan, jobChanClosed,
          jobPC,           \* where each Submit is
          coalesceMap,      \* the entry of the key
          superseded,       \* the jobs with this flag set
          jobResult,       \* the buffered JobResult of each job
          got,              \* what its Future has cached
          finished,         \* the jobs a worker is done with
          cleaning,         \* the jobs whose cleanup goroutine waits for doneSig
          jobWorkerPC, workerJob,
          jobCtxDone

jobVars == <<jobPolicy, poolRunning, jobChan, jobChanClosed, jobPC, coalesceMap, superseded,
             jobResult, got, finished, cleaning, jobWorkerPC, workerJob, jobCtxDone>>

\* The pool after Start, before any Submit.
NewComputePool ==
  /\ jobPolicy \in JobPolicies
  /\ poolRunning = TRUE /\ jobChan = <<>> /\ jobChanClosed = FALSE
  /\ jobPC = [j \in Jobs |-> "idle"] /\ coalesceMap = NoJob
  /\ superseded = {} /\ finished = {} /\ cleaning = {} /\ jobCtxDone = {}
  /\ jobResult = [j \in Jobs |-> "none"] /\ got = [j \in Jobs |-> "none"]
  /\ jobWorkerPC = [w \in JobWorkers |-> "receiving"] /\ workerJob = [w \in JobWorkers |-> NoJob]

SubmitGoto(j, pc) == jobPC' = [jobPC EXCEPT ![j] = pc]
Full == Len(jobChan) >= QueueSize

\* A non-blocking send: it is dropped when the channel holds a result.
DeliverResult(j, r) == jobResult' = [jobResult EXCEPT ![j] = IF @ = "none" THEN r ELSE @]

JobContextEnds(j) ==
  /\ j \in CancellableJobs \ jobCtxDone /\ jobCtxDone' = jobCtxDone \cup {j}
  /\ UNCHANGED <<jobPolicy, poolRunning, jobChan, jobChanClosed, jobPC, coalesceMap, superseded,
                 jobResult, got, finished, cleaning, jobWorkerPC, workerJob>>

SubmitJob(j) ==
  /\ jobPC[j] = "idle"
  /\ SubmitGoto(j, IF ~poolRunning THEN "refused"
                   ELSE IF jobPolicy = "coalesce" THEN "coalescing" ELSE "sending")
  /\ UNCHANGED <<jobPolicy, poolRunning, jobChan, jobChanClosed, coalesceMap, superseded, jobResult,
                 got, finished, cleaning, jobWorkerPC, workerJob, jobCtxDone>>

\* Mutant: the older job is marked, but its Future is not told.
CoalesceSilently(j) ==
  /\ jobPC[j] = "coalescing" /\ SubmitGoto(j, "sending")
  /\ coalesceMap' = j
  /\ superseded' = IF coalesceMap = NoJob THEN superseded ELSE superseded \cup {coalesceMap}
  /\ UNCHANGED <<jobPolicy, poolRunning, jobChan, jobChanClosed, jobResult, got, finished, cleaning,
                 jobWorkerPC, workerJob, jobCtxDone>>

\* The critical section of CoalesceByKey.
Coalesce(j) ==
  /\ jobPC[j] = "coalescing" /\ SubmitGoto(j, "sending")
  /\ coalesceMap' = j
  /\ IF coalesceMap = NoJob THEN UNCHANGED <<superseded, jobResult>>
     ELSE superseded' = superseded \cup {coalesceMap} /\ DeliverResult(coalesceMap, "cancelled")
  /\ UNCHANGED <<jobPolicy, poolRunning, jobChan, jobChanClosed, got, finished, cleaning, jobWorkerPC,
                 workerJob, jobCtxDone>>

\* The send.  A send on the closed channel panics, in a select too.
SendJob(j) ==
  /\ jobPC[j] = "sending"
  /\ IF jobChanClosed THEN SubmitGoto(j, "panicked") /\ UNCHANGED <<jobChan, cleaning>>
     ELSE IF ~Full
     THEN /\ SubmitGoto(j, "accepted") /\ jobChan' = Append(jobChan, j)
          /\ cleaning' = IF jobPolicy = "coalesce" THEN cleaning \cup {j} ELSE cleaning
     ELSE /\ \/ jobPolicy = "drop_newest" /\ SubmitGoto(j, "refused")
             \/ jobPolicy = "drop_oldest" /\ SubmitGoto(j, "dropping")
             \/ jobPolicy = "coalesce" /\ SubmitGoto(j, "forgetting")
          /\ UNCHANGED <<jobChan, cleaning>>
  /\ UNCHANGED <<jobPolicy, poolRunning, jobChanClosed, coalesceMap, superseded, jobResult, got,
                 finished, jobWorkerPC, workerJob, jobCtxDone>>

\* Block: the context ends while the channel is full, or at the same time as it has room.
SendCancelled(j) ==
  /\ jobPC[j] = "sending" /\ jobPolicy = "block" /\ j \in jobCtxDone /\ SubmitGoto(j, "refused")
  /\ UNCHANGED <<jobPolicy, poolRunning, jobChan, jobChanClosed, coalesceMap, superseded, jobResult,
                 got, finished, cleaning, jobWorkerPC, workerJob, jobCtxDone>>

\* DropOldest takes the oldest job out; nobody answers that job's Future.
TakeOldest(j) ==
  /\ jobPC[j] = "dropping"
  /\ IF jobChan = <<>> /\ ~jobChanClosed
     THEN SubmitGoto(j, "refused") /\ UNCHANGED jobChan
     ELSE SubmitGoto(j, "resending") /\ jobChan' = IF jobChan = <<>> THEN jobChan ELSE Tail(jobChan)
  /\ UNCHANGED <<jobPolicy, poolRunning, jobChanClosed, coalesceMap, superseded, jobResult, got,
                 finished, cleaning, jobWorkerPC, workerJob, jobCtxDone>>

Resend(j) ==
  /\ jobPC[j] = "resending"
  /\ IF jobChanClosed THEN SubmitGoto(j, "panicked") /\ UNCHANGED jobChan
     ELSE IF Full THEN SubmitGoto(j, "refused") /\ UNCHANGED jobChan
     ELSE SubmitGoto(j, "accepted") /\ jobChan' = Append(jobChan, j)
  /\ UNCHANGED <<jobPolicy, poolRunning, jobChanClosed, coalesceMap, superseded, jobResult, got,
                 finished, cleaning, jobWorkerPC, workerJob, jobCtxDone>>

\* CoalesceByKey on a full channel: the entry of the key goes, whosever it is by now.
Forget(j) ==
  /\ jobPC[j] = "forgetting" /\ SubmitGoto(j, "refused") /\ coalesceMap' = NoJob
  /\ UNCHANGED <<jobPolicy, poolRunning, jobChan, jobChanClosed, superseded, jobResult, got, finished,
                 cleaning, jobWorkerPC, workerJob, jobCtxDone>>

\* The goroutine Submit leaves behind: it removes only its own entry.
CleanEntry(j) ==
  /\ j \in cleaning \cap finished /\ cleaning' = cleaning \ {j}
  /\ coalesceMap' = IF coalesceMap = j THEN NoJob ELSE coalesceMap
  /\ UNCHANGED <<jobPolicy, poolRunning, jobChan, jobChanClosed, jobPC, superseded, jobResult, got,
                 finished, jobWorkerPC, workerJob, jobCtxDone>>

WorkerGoto(w, pc, j) ==
  jobWorkerPC' = [jobWorkerPC EXCEPT ![w] = pc] /\ workerJob' = [workerJob EXCEPT ![w] = j]

\* Mutant: a superseded job ends the worker's loop, not only the job.
TakeJobAndReturn(w) ==
  /\ jobWorkerPC[w] = "receiving" /\ jobChan # <<>>
  /\ LET j == Head(jobChan) IN
       /\ jobChan' = Tail(jobChan)
       /\ IF j \in superseded
          THEN /\ DeliverResult(j, "cancelled") /\ finished' = finished \cup {j}
               /\ WorkerGoto(w, "ended", NoJob)
          ELSE WorkerGoto(w, "handling", j) /\ UNCHANGED <<jobResult, finished>>
  /\ UNCHANGED <<jobPolicy, poolRunning, jobChanClosed, jobPC, coalesceMap, superseded, got,
                 cleaning, jobCtxDone>>

\* A worker takes a job; one that was superseded is answered and skipped.
TakeJob(w) ==
  /\ jobWorkerPC[w] = "receiving" /\ jobChan # <<>>
  /\ LET j == Head(jobChan) IN
       /\ jobChan' = Tail(jobChan)
       /\ IF j \in superseded
          THEN /\ DeliverResult(j, "cancelled") /\ finished' = finished \cup {j}
               /\ UNCHANGED <<jobWorkerPC, workerJob>>
          ELSE WorkerGoto(w, "handling", j) /\ UNCHANGED <<jobResult, finished>>
  /\ UNCHANGED <<jobPolicy, poolRunning, jobChanClosed, jobPC, coalesceMap, superseded, got,
                 cleaning, jobCtxDone>>

\* The handler returns.  When the job's context is over too, the select may leave the result unsent.
JobHandled(w) ==
  /\ jobWorkerPC[w] = "handling"
  /\ LET j == workerJob[w] IN
       /\ DeliverResult(j, "value") \/ (j \in jobCtxDone /\ UNCHANGED jobResult)
       /\ finished' = finished \cup {j}
  /\ WorkerGoto(w, "receiving", NoJob)
  /\ UNCHANGED <<jobPolicy, poolRunning, jobChan, jobChanClosed, jobPC, coalesceMap, superseded,
                 got, cleaning, jobCtxDone>>

\* A worker ends with its context, or when the closed channel is empty.
WorkerEnds(w) ==
  /\ jobWorkerPC[w] = "receiving" /\ jobChanClosed /\ WorkerGoto(w, "ended", NoJob)
  /\ UNCHANGED <<jobPolicy, poolRunning, jobChan, jobChanClosed, jobPC, coalesceMap, superseded,
                 jobResult, got, finished, cleaning, jobCtxDone>>

\* Future.Get: the first result is cached, and every later Get answers from the cache.
GetResult(j) ==
  /\ jobPC[j] = "accepted" /\ got[j] = "none" /\ jobResult[j] # "none"
  /\ got' = [got EXCEPT ![j] = jobResult[j]] /\ jobResult' = [jobResult EXCEPT ![j] = "none"]
  /\ UNCHANGED <<jobPolicy, poolRunning, jobChan, jobChanClosed, jobPC, coalesceMap, superseded,
                 finished, cleaning, jobWorkerPC, workerJob, jobCtxDone>>

\* Stop in two steps: the flag, then the channel and the workers' contexts.
StopPool ==
  /\ poolRunning /\ poolRunning' = FALSE
  /\ UNCHANGED <<jobPolicy, jobChan, jobChanClosed, jobPC, coalesceMap, superseded, jobResult, got,
                 finished, cleaning, jobWorkerPC, workerJob, jobCtxDone>>

CloseJobChan ==
  /\ ~poolRunning /\ ~jobChanClosed /\ jobChanClosed' = TRUE
  /\ UNCHANGED <<jobPolicy, poolRunning, jobChan, jobPC, coalesceMap, superseded, jobResult, got,
                 finished, cleaning, jobWorkerPC, workerJob, jobCtxDone>>

SubmitJobStep(j) ==
  \/ SubmitJob(j) \/ Coalesce(j) \/ SendJob(j) \/ SendCancelled(j) \/ TakeOldest(j) \/ Resend(j)
  \/ Forget(j)
JobWorkerStep(w) == TakeJob(w) \/ JobHandled(w) \/ WorkerEnds(w)

ComputeNext ==
  \/ \E j \in Jobs : SubmitJobStep(j) \/ CleanEntry(j) \/ GetResult(j) \/ JobContextEnds(j)
  \/ \E w \in JobWorkers : JobWorkerStep(w)
  \/ StopPool \/ CloseJobChan

ComputeSpec ==
  /\ NewComputePool /\ [][ComputeNext]_jobVars
  /\ \A w \in JobWorkers : WF_jobVars(JobWorkerStep(w))
  /\ \A j \in Jobs : WF_jobVars(GetResult(j))
-----------------------------------------------------------------------------
(***************************************************************************)
(* A Future tells what became of its job: it has a value only after the    *)
(* handler has returned, a cancellation only when a newer job took the     *)
(* key over, and a job that ran to its end without either being superseded *)
(* or losing its context has its value waiting or read.  The worker, the   *)
(* superseding Submit and the reader race for the one-place result channel *)
(* (pool.go:171, pool.go:203, pool.go:505).                                *)
(***************************************************************************)
JobTellsTruth ==
  \A j \in Jobs :
    /\ got[j] = "value" => j \in finished
    /\ got[j] = "cancelled" => j \in superseded
    /\ j \in finished \ (superseded \cup jobCtxDone) => "value" \in {got[j], jobResult[j]}
    /\ j \in superseded => got[j] # "none" \/ jobResult[j] # "none"

(***************************************************************************)
(* While the pool runs, every Future handed out is answered, unless its    *)
(* job's context ended or DropOldest has taken the job out of the channel. *)
(***************************************************************************)
FutureAnswered ==
  \A j \in Jobs : []<>(jobPC[j] = "accepted" /\ jobPolicy # "drop_oldest"
                        => got[j] # "none" \/ ~poolRunning \/ j \in jobCtxDone)
=============================================================================
