----------------------------- MODULE Resilience -----------------------------
(***************************************************************************)
(* pkg/core/resilience, without the bulkhead (Bulkhead): the circuit       *)
(* breaker, the token bucket, the rate window, and the policies timeout,   *)
(* retry, fallback and hedge.  They share no state.                        *)
(***************************************************************************)
EXTENDS Naturals, FiniteSets, Sequences

(***************************************************************************)
(* pkg/core/resilience/breaker: the circuit breaker.  The state word and   *)
(* the counters are separate atomics; a transition is a CAS on the word    *)
(* followed, under stateMu, by the reset of the counters, so other callers *)
(* run between the two.  A counter is only ever compared with its          *)
(* threshold, and is kept up to it.  The configuration is one for all the  *)
(* calls.                                                                  *)
(***************************************************************************)

CONSTANTS BreakerCallers,
          FailureThreshold, SuccessThreshold, HalfOpenMaxRequests

VARIABLES breaker,     \* the state word: "closed", "open" or "halfopen"
          failureCount, successes, halfOpenRequests,
          elapsed,     \* the timeout has passed since the last failure and state change
          callPC,      \* where each caller is
          seen,        \* the counter it loaded
          panicked     \* some protected function panicked

breakerVars == <<breaker, failureCount, successes, halfOpenRequests, elapsed, callPC, seen, panicked>>

NewBreaker ==
  /\ breaker = "closed" /\ failureCount = 0 /\ successes = 0 /\ halfOpenRequests = 0
  /\ elapsed = FALSE /\ panicked = FALSE
  /\ callPC = [c \in BreakerCallers |-> "idle"] /\ seen = [c \in BreakerCallers |-> 0]

UpTo(n, bound) == IF n < bound THEN n ELSE bound
CallGoto(c, pc) == callPC' = [callPC EXCEPT ![c] = pc]
counters == <<failureCount, successes, halfOpenRequests>>

TimeoutElapses ==
  /\ breaker = "open" /\ ~elapsed /\ elapsed' = TRUE
  /\ UNCHANGED <<breaker, counters, callPC, seen, panicked>>

\* allowExecution up to the switch on the state that was read.
AllowExecution(c) ==
  /\ callPC[c] = "idle"
  /\ CallGoto(c, CASE breaker = "closed"   -> "executing"
                   [] breaker = "open"     -> IF elapsed THEN "halfOpening" ELSE "idle"
                   [] breaker = "halfopen" -> "probing")
  /\ UNCHANGED <<breaker, counters, elapsed, seen, panicked>>

\* The CAS from Open to HalfOpen.
HalfOpen(c) ==
  /\ callPC[c] = "halfOpening"
  /\ IF breaker = "open"
     THEN breaker' = "halfopen" /\ CallGoto(c, "resetHalfOpen")
     ELSE UNCHANGED breaker /\ CallGoto(c, IF breaker = "halfopen" THEN "probing" ELSE "idle")
  /\ UNCHANGED <<counters, elapsed, seen, panicked>>

\* Mutant: the count of probes is kept from the last half-open period.
EnterHalfOpenStale(c) ==
  /\ callPC[c] = "resetHalfOpen" /\ CallGoto(c, "probing")
  /\ elapsed' = FALSE /\ failureCount' = 0 /\ successes' = 0
  /\ UNCHANGED <<breaker, halfOpenRequests, seen, panicked>>

EnterHalfOpen(c) ==
  /\ callPC[c] = "resetHalfOpen" /\ CallGoto(c, "probing")
  /\ elapsed' = FALSE /\ failureCount' = 0 /\ successes' = 0 /\ halfOpenRequests' = 0
  /\ UNCHANGED <<breaker, seen, panicked>>

\* The load of halfOpenRequests, and its increment.
CheckProbes(c) ==
  /\ callPC[c] = "probing"
  /\ CallGoto(c, IF halfOpenRequests >= HalfOpenMaxRequests THEN "idle" ELSE "counting")
  /\ UNCHANGED <<breaker, counters, elapsed, seen, panicked>>

CountProbe(c) ==
  /\ callPC[c] = "counting" /\ CallGoto(c, "executing")
  /\ halfOpenRequests' = UpTo(halfOpenRequests + 1, HalfOpenMaxRequests)
  /\ UNCHANGED <<breaker, failureCount, successes, elapsed, seen, panicked>>

\* The function panics: ExecuteWithConfig unwinds and records nothing.
FunctionPanics(c) ==
  /\ callPC[c] = "executing" /\ CallGoto(c, "idle") /\ panicked' = TRUE
  /\ UNCHANGED <<breaker, counters, elapsed, seen>>

\* recordSuccess and recordFailure: the counters, then their load, then the state.
Succeeds(c) ==
  /\ callPC[c] = "executing" /\ CallGoto(c, "succeeded")
  /\ failureCount' = 0 /\ successes' = UpTo(successes + 1, SuccessThreshold)
  /\ UNCHANGED <<breaker, halfOpenRequests, elapsed, seen, panicked>>

Fails(c) ==
  /\ callPC[c] = "executing" /\ CallGoto(c, "failed")
  /\ successes' = 0 /\ failureCount' = UpTo(failureCount + 1, FailureThreshold)
  /\ UNCHANGED <<breaker, halfOpenRequests, elapsed, seen, panicked>>

LoadCounter(c) ==
  /\ \/ /\ callPC[c] = "succeeded" /\ CallGoto(c, "successLoaded")
        /\ seen' = [seen EXCEPT ![c] = successes] /\ UNCHANGED elapsed
     \/ /\ callPC[c] = "failed" /\ CallGoto(c, "failureLoaded")
        /\ seen' = [seen EXCEPT ![c] = failureCount] /\ elapsed' = FALSE
  /\ UNCHANGED <<breaker, counters, panicked>>

RecordSuccess(c) ==
  /\ callPC[c] = "successLoaded"
  /\ failureCount' = IF breaker = "closed" THEN 0 ELSE failureCount
  /\ CallGoto(c, IF breaker = "halfopen" /\ seen[c] >= SuccessThreshold THEN "closing" ELSE "idle")
  /\ UNCHANGED <<breaker, successes, halfOpenRequests, elapsed, seen, panicked>>

RecordFailure(c) ==
  /\ callPC[c] = "failureLoaded"
  /\ CallGoto(c, CASE breaker = "halfopen" -> "reopening"
                   [] breaker = "closed"   -> IF seen[c] >= FailureThreshold THEN "opening" ELSE "idle"
                   [] breaker = "open"     -> "idle")
  /\ UNCHANGED <<breaker, counters, elapsed, seen, panicked>>

\* The CAS of a transition; the caller that loses it is done.
Swap(c, pc, from, to, next) ==
  /\ callPC[c] = pc
  /\ IF breaker \in from THEN breaker' = to /\ CallGoto(c, next)
                         ELSE UNCHANGED breaker /\ CallGoto(c, "idle")
  /\ UNCHANGED <<counters, elapsed, seen, panicked>>

CloseBreaker(c) == Swap(c, "closing", {"halfopen"}, "closed", "resetClosed")
OpenBreaker(c)  == Swap(c, "opening", {"closed"}, "open", "resetOpened")
ReopenBreaker(c) == Swap(c, "reopening", {"halfopen"}, "open", "resetReopened")
ResetBreaker(c) == breaker # "closed" /\ Swap(c, "idle", {"open", "halfopen"}, "closed", "resetClosed")

\* The critical section that follows the CAS.
AfterSwap(c) ==
  /\ callPC[c] \in {"resetClosed", "resetOpened", "resetReopened"} /\ CallGoto(c, "idle")
  /\ elapsed' = FALSE
  /\ failureCount' = IF callPC[c] = "resetClosed" THEN 0 ELSE failureCount
  /\ successes' = IF callPC[c] = "resetOpened" THEN successes ELSE 0
  /\ halfOpenRequests' = IF callPC[c] = "resetOpened" THEN halfOpenRequests ELSE 0
  /\ UNCHANGED <<breaker, seen, panicked>>

CallStep(c) ==
  \/ AllowExecution(c) \/ HalfOpen(c) \/ EnterHalfOpen(c) \/ CheckProbes(c) \/ CountProbe(c)
  \/ Succeeds(c) \/ Fails(c) \/ LoadCounter(c) \/ RecordSuccess(c) \/ RecordFailure(c)
  \/ CloseBreaker(c) \/ OpenBreaker(c) \/ ReopenBreaker(c) \/ AfterSwap(c)

BreakerNext == TimeoutElapses \/ \E c \in BreakerCallers : CallStep(c) \/ FunctionPanics(c) \/ ResetBreaker(c)

BreakerSpec == NewBreaker /\ [][BreakerNext]_breakerVars
               /\ WF_breakerVars(TimeoutElapses) /\ \A c \in BreakerCallers : WF_breakerVars(CallStep(c))
-----------------------------------------------------------------------------
(***************************************************************************)
(* The breaker never stays half open while calls come in and end: the      *)
(* probes it lets through are enough to close it or to open it again,      *)
(* although the resets of earlier transitions arrive late.  A function     *)
(* that panics takes its probe with it, and is the one exception.          *)
(***************************************************************************)
LeavesHalfOpen == []<>(breaker # "halfopen" \/ panicked)

-----------------------------------------------------------------------------
(***************************************************************************)
(* pkg/core/resilience/limiter: the token bucket.  refillTokens loads the  *)
(* tokens, adds those the elapsed time gives and stores the sum, all under *)
(* a mutex that consumeToken does not take: its CAS may come between the   *)
(* load and the store, which then puts the consumed token back.  Time is   *)
(* counted in units of which RefillInterval make one interval.             *)
(***************************************************************************)

CONSTANTS Requesters,
          Rate, RefillInterval, Burst,
          MaxIdle        \* bound on the time counted since the last refill

VARIABLES tokens, sinceRefill,
          limitPC,       \* where each requester is
          loaded,        \* the tokens a refill has loaded
          refillMu,      \* a requester is between the load and the store
          granted        \* tokens consumed since the last store

limitVars == <<tokens, sinceRefill, limitPC, loaded, refillMu, granted>>

NewLimiter ==
  /\ tokens = Burst /\ sinceRefill = 0 /\ refillMu = FALSE /\ granted = 0
  /\ limitPC = [r \in Requesters |-> "idle"] /\ loaded = [r \in Requesters |-> 0]

LimitGoto(r, pc) == limitPC' = [limitPC EXCEPT ![r] = pc]

LimiterTicks ==
  /\ sinceRefill < MaxIdle /\ sinceRefill' = sinceRefill + 1
  /\ UNCHANGED <<tokens, limitPC, loaded, refillMu, granted>>

\* Mutant: the time of the last refill moves although too little has passed for one.
RefillForgets(r) ==
  /\ limitPC[r] \in {"idle", "waiting"} /\ ~refillMu
  /\ IF sinceRefill < RefillInterval
     THEN LimitGoto(r, "consuming") /\ sinceRefill' = 0 /\ UNCHANGED <<loaded, refillMu>>
     ELSE /\ loaded' = [loaded EXCEPT ![r] = tokens] /\ refillMu' = TRUE
          /\ LimitGoto(r, "refilling") /\ UNCHANGED sinceRefill
  /\ UNCHANGED <<tokens, granted>>

\* A call of Execute, Allow or Wait, or the next try of one that waits: refillTokens up to
\* the load.
RefillLoad(r) ==
  /\ limitPC[r] \in {"idle", "waiting"} /\ ~refillMu
  /\ IF sinceRefill < RefillInterval
     THEN LimitGoto(r, "consuming") /\ UNCHANGED <<loaded, refillMu>>
     ELSE /\ loaded' = [loaded EXCEPT ![r] = tokens] /\ refillMu' = TRUE
          /\ LimitGoto(r, "refilling")
  /\ UNCHANGED <<tokens, sinceRefill, granted>>

\* Mutant: an idle limiter saves up more than the burst.
RefillUncapped(r) == loaded[r] + sinceRefill \div (RefillInterval \div Rate)

NewTokens(r) ==
  LET sum == loaded[r] + sinceRefill \div (RefillInterval \div Rate)
  IN  IF sum > Burst THEN Burst ELSE sum

RefillStore(r) ==
  /\ limitPC[r] = "refilling" /\ LimitGoto(r, "consuming")
  /\ tokens' = NewTokens(r) /\ sinceRefill' = 0 /\ refillMu' = FALSE /\ granted' = 0
  /\ UNCHANGED loaded

\* consumeToken: Allow answers at once, Execute and Wait try again after a pause.
ConsumeToken(r) ==
  /\ limitPC[r] = "consuming"
  /\ IF tokens > 0
     THEN tokens' = tokens - 1 /\ granted' = granted + 1 /\ LimitGoto(r, "granted")
     ELSE /\ \E pc \in {"idle", "waiting"} : LimitGoto(r, pc)
          /\ UNCHANGED <<tokens, granted>>
  /\ UNCHANGED <<sinceRefill, loaded, refillMu>>

\* The context of a call that waits is done.
WaitCancelled(r) ==
  /\ limitPC[r] = "waiting" /\ LimitGoto(r, "idle")
  /\ UNCHANGED <<tokens, sinceRefill, loaded, refillMu, granted>>

FunctionReturns(r) ==
  /\ limitPC[r] = "granted" /\ LimitGoto(r, "idle")
  /\ UNCHANGED <<tokens, sinceRefill, loaded, refillMu, granted>>

RequesterStep(r) == RefillLoad(r) \/ RefillStore(r) \/ ConsumeToken(r) \/ FunctionReturns(r)

LimiterNext == LimiterTicks \/ \E r \in Requesters : RequesterStep(r) \/ WaitCancelled(r)

LimiterSpec == NewLimiter /\ [][LimiterNext]_limitVars /\ WF_limitVars(LimiterTicks)
               /\ \A r \in Requesters : WF_limitVars(RequesterStep(r))
-----------------------------------------------------------------------------
(***************************************************************************)
(* Between two refills at most Burst tokens are granted, although a refill *)
(* may put back tokens that were consumed while it ran, and however long   *)
(* the limiter was idle.                                                   *)
(***************************************************************************)
GrantsBounded == granted + tokens <= Burst

(***************************************************************************)
(* The limiter never shuts: as long as somebody asks, tokens are granted   *)
(* again and again, however often it is asked before an interval is over.  *)
(***************************************************************************)
TokensKeepComing == []<>(\E r \in Requesters : limitPC[r] = "granted")

-----------------------------------------------------------------------------
(***************************************************************************)
(* pkg/core/resilience/rate: events per sliding window, in a ring of       *)
(* buckets.  A bucket is the set of the times of its events (at most one   *)
(* event per unit of time).  updateBuckets sets lastUpdate to now and not  *)
(* to a bucket boundary, so the buckets may cover more than the window.    *)
(***************************************************************************)

CONSTANTS Granularity,    \* the number of buckets
          BucketSize,     \* Window / Granularity
          MaxRateTime

VARIABLES rateClock, buckets, currentIdx, lastUpdate, events
rateVars == <<rateClock, buckets, currentIdx, lastUpdate, events>>

Ring == 0 .. Granularity - 1
Window == Granularity * BucketSize

NewRate ==
  /\ rateClock = 0 /\ currentIdx = 0 /\ lastUpdate = 0 /\ events = {}
  /\ buckets = [i \in Ring |-> {}]

BucketsToAdvance == (rateClock - lastUpdate) \div BucketSize

\* Mutant: the bucket that becomes current keeps the events of the last round.
KeptBuckets == IF BucketsToAdvance >= Granularity THEN [i \in Ring |-> {}] ELSE buckets

\* What updateBuckets makes of the buckets and of the index.
UpdatedBuckets ==
  IF BucketsToAdvance >= Granularity
  THEN [i \in Ring |-> {}]
  ELSE [i \in Ring |->
          IF \E k \in 1 .. BucketsToAdvance : i = (currentIdx + k) % Granularity
          THEN {} ELSE buckets[i]]

UpdatedIdx ==
  IF BucketsToAdvance >= Granularity THEN 0 ELSE (currentIdx + BucketsToAdvance) % Granularity

UpdateBuckets ==
  /\ currentIdx' = UpdatedIdx
  /\ lastUpdate' = IF BucketsToAdvance = 0 THEN lastUpdate ELSE rateClock

RecordEvents ==
  /\ rateClock \notin events /\ events' = events \cup {rateClock}
  /\ UpdateBuckets
  /\ buckets' = [UpdatedBuckets EXCEPT ![UpdatedIdx] = @ \cup {rateClock}]
  /\ UNCHANGED rateClock

\* The buckets RateWithWindow adds up for n of them.
BucketsInWindow(n) ==
  IF n >= Granularity THEN Ring
  ELSE {(UpdatedIdx + Granularity + 1 + i - n) % Granularity : i \in 0 .. n - 1}

Counted(n) == UNION {UpdatedBuckets[i] : i \in BucketsInWindow(n)}

RateWithWindow ==
  /\ UpdateBuckets /\ buckets' = UpdatedBuckets
  /\ UNCHANGED <<rateClock, events>>

ClockTicks == rateClock < MaxRateTime /\ rateClock' = rateClock + 1 /\ UNCHANGED <<buckets, currentIdx, lastUpdate, events>>

RateNext == RecordEvents \/ RateWithWindow \/ ClockTicks
RateSpec == NewRate /\ [][RateNext]_rateVars
-----------------------------------------------------------------------------
(***************************************************************************)
(* What Rate counts when it is asked at any time, after any sequence of    *)
(* records and questions: every event of the last n - 1 buckets' time, and *)
(* none that is as old as twice the window of n buckets.  The factor two   *)
(* is the price of lastUpdate; no event is ever counted for longer.        *)
(***************************************************************************)
WindowHolds ==
  \A n \in 1 .. Granularity :
    /\ \A e \in Counted(n) : rateClock - e < 2 * n * BucketSize
    /\ \A e \in events : rateClock - e < (n - 1) * BucketSize + 1 => e \in Counted(n)

-----------------------------------------------------------------------------
(***************************************************************************)
(* pkg/core/resilience: timeout, retry, fallback and hedge, the four ways  *)
(* to call functions that may fail, hang or answer too late.  One call is  *)
(* made, with a policy that Init chooses; its functions are 1 .. N (for    *)
(* retry, the N = MaxRetries + 1 attempts of one function).  "hedge" has   *)
(* CancelRemainingOnSuccess, "hedgeAll" has not.                           *)
(***************************************************************************)

CONSTANTS N,               \* the functions of the call
          Policies,        \* a subset of {"timeout", "retry", "fallback", "hedge", "hedgeAll"}
          HedgeConcurrency \* MaxConcurrency of the hedges

Functions == 1 .. N
Hedging == {"hedge", "hedgeAll"}

VARIABLES policy,
          callAnswer,       \* of the call: "none", "ok", "failed" or "interrupted"
          attempt,      \* the function of retry and fallback that is next or runs
          fn,           \* [Functions -> "none", "running", "ok", "err", "over"]
          backingOff,   \* retry waits before the next attempt
          callCtxDone,  \* the context of the functions
          results,      \* the result channel of timeout and hedge
          successReceived,
          succeeded     \* the functions that returned nil

callsVars == <<policy, callAnswer, attempt, fn, backingOff, callCtxDone, results, successReceived,
               succeeded>>

NewCall ==
  /\ policy \in Policies /\ callAnswer = "none" /\ attempt = 1
  /\ fn = [i \in Functions |-> "none"]
  /\ backingOff = FALSE /\ callCtxDone = FALSE /\ results = <<>> /\ successReceived = FALSE
  /\ succeeded = {}

Sequential == policy \in {"retry", "fallback"}
FnGoto(i, state) == fn' = [fn EXCEPT ![i] = state]
Reply(a) == callAnswer = "none" /\ callAnswer' = a

\* The deadline of the call, or a cancellation by its caller.
ContextDone ==
  /\ ~callCtxDone /\ callCtxDone' = TRUE
  /\ UNCHANGED <<policy, callAnswer, attempt, fn, backingOff, results, successReceived, succeeded>>

FunctionEnds(i) ==
  /\ fn[i] = "running"
  /\ \/ FnGoto(i, "ok") /\ succeeded' = succeeded \cup {i}
     \/ FnGoto(i, "err") /\ UNCHANGED succeeded
  /\ UNCHANGED <<policy, callAnswer, attempt, backingOff, callCtxDone, results, successReceived>>

\* ---- timeout: the function runs in a goroutine, the caller waits for it or for the context
TimeoutStart ==
  /\ policy = "timeout" /\ callAnswer = "none" /\ fn[1] = "none"
  /\ IF callCtxDone THEN Reply("interrupted") /\ UNCHANGED fn
                    ELSE FnGoto(1, "running") /\ UNCHANGED callAnswer
  /\ UNCHANGED <<policy, attempt, backingOff, callCtxDone, results, successReceived, succeeded>>

TimeoutSend ==
  /\ policy = "timeout" /\ fn[1] \in {"ok", "err"} /\ FnGoto(1, "over")
  /\ results' \in {Append(results, fn[1])} \cup (IF callCtxDone THEN {results} ELSE {})
  /\ UNCHANGED <<policy, callAnswer, attempt, backingOff, callCtxDone, successReceived, succeeded>>

\* Mutant: the caller waits for the function only.
TimeoutWaitForResult ==
  /\ policy = "timeout" /\ fn[1] # "none" /\ results # <<>>
  /\ Reply(IF Head(results) = "ok" THEN "ok" ELSE "failed")
  /\ UNCHANGED <<policy, attempt, fn, backingOff, callCtxDone, results, successReceived, succeeded>>

TimeoutWait ==
  /\ policy = "timeout" /\ fn[1] # "none"
  /\ \/ /\ results # <<>>
        /\ Reply(IF Head(results) = "ok" THEN "ok"
                 ELSE IF callCtxDone THEN "interrupted" ELSE "failed")
     \/ callCtxDone /\ Reply("interrupted")
  /\ UNCHANGED <<policy, attempt, fn, backingOff, callCtxDone, results, successReceived, succeeded>>

\* ---- retry and fallback: one function after the other
SequentialStart ==
  /\ Sequential /\ callAnswer = "none" /\ ~backingOff /\ fn[attempt] = "none"
  /\ IF policy = "retry" /\ callCtxDone
     THEN Reply("interrupted") /\ UNCHANGED fn
     ELSE FnGoto(attempt, "running") /\ UNCHANGED callAnswer
  /\ UNCHANGED <<policy, attempt, backingOff, callCtxDone, results, successReceived, succeeded>>

\* The predicate may refuse any error of an attempt, and the error of the primary.
MayGiveUp == policy = "retry" \/ attempt = 1

SequentialNext ==
  /\ Sequential /\ callAnswer = "none" /\ fn[attempt] \in {"ok", "err"} /\ ~backingOff
  /\ \/ /\ fn[attempt] = "ok" /\ Reply("ok") /\ UNCHANGED <<attempt, fn, backingOff>>
     \/ /\ fn[attempt] = "err" /\ (attempt = N \/ MayGiveUp) /\ Reply("failed")
        /\ UNCHANGED <<attempt, fn, backingOff>>
     \/ /\ fn[attempt] = "err" /\ attempt < N /\ attempt' = attempt + 1
        /\ FnGoto(attempt, "over") /\ backingOff' = (policy = "retry") /\ UNCHANGED callAnswer
  /\ UNCHANGED <<policy, callCtxDone, results, successReceived, succeeded>>

BackoffEnds ==
  /\ backingOff /\ backingOff' = FALSE
  /\ IF callCtxDone THEN callAnswer' \in {"none", "interrupted"} ELSE UNCHANGED callAnswer
  /\ UNCHANGED <<policy, attempt, fn, callCtxDone, results, successReceived, succeeded>>

\* ---- hedge: all the functions at once, up to the concurrency
SlotFree == Cardinality({i \in Functions : fn[i] \in {"running", "ok", "err"}}) < HedgeConcurrency

HedgeStart(i) ==
  /\ policy \in Hedging /\ fn[i] = "none" /\ SlotFree
  /\ FnGoto(i, IF policy = "hedge" /\ callCtxDone THEN "over" ELSE "running")
  /\ UNCHANGED <<policy, callAnswer, attempt, backingOff, callCtxDone, results, successReceived, succeeded>>

\* Mutant: a success that finds the context done is dropped, like a failure.
HedgeReportLossy(i) ==
  /\ policy \in Hedging /\ fn[i] \in {"ok", "err"} /\ FnGoto(i, "over")
  /\ \/ ~callCtxDone /\ results' = Append(results, fn[i])
     \/ callCtxDone /\ UNCHANGED results
  /\ callCtxDone' = (callCtxDone \/ (policy = "hedge" /\ fn[i] = "ok"))
  /\ UNCHANGED <<policy, callAnswer, attempt, backingOff, successReceived, succeeded>>

\* A success cancels the others and is always sent; a failure may be dropped once the
\* context is done, and is when the hedges cancel one another.
HedgeReport(i) ==
  /\ policy \in Hedging /\ fn[i] \in {"ok", "err"} /\ FnGoto(i, "over")
  /\ \/ /\ fn[i] = "ok" \/ ~callCtxDone \/ policy = "hedgeAll"
        /\ results' = Append(results, fn[i])
     \/ /\ fn[i] = "err" /\ callCtxDone /\ UNCHANGED results
  /\ callCtxDone' = (callCtxDone \/ (policy = "hedge" /\ fn[i] = "ok"))
  /\ UNCHANGED <<policy, callAnswer, attempt, backingOff, successReceived, succeeded>>

\* The loop that collects results, until a success or until the channel is closed.
HedgeCollect ==
  /\ policy \in Hedging /\ callAnswer = "none" /\ results # <<>>
  /\ results' = Tail(results)
  /\ successReceived' = (successReceived \/ Head(results) = "ok")
  /\ IF Head(results) = "ok" /\ policy = "hedge" THEN Reply("ok") ELSE UNCHANGED callAnswer
  /\ UNCHANGED <<policy, attempt, fn, backingOff, callCtxDone, succeeded>>

HedgeAllDone ==
  /\ policy \in Hedging /\ results = <<>> /\ \A i \in Functions : fn[i] = "over"
  /\ Reply(IF successReceived THEN "ok" ELSE "failed")
  /\ UNCHANGED <<policy, attempt, fn, backingOff, callCtxDone, results, successReceived, succeeded>>

CallStepOf ==
  \/ TimeoutStart \/ TimeoutSend \/ TimeoutWait
  \/ SequentialStart \/ SequentialNext \/ BackoffEnds
  \/ (\E i \in Functions : HedgeStart(i) \/ HedgeReport(i)) \/ HedgeCollect \/ HedgeAllDone

CallsNext == CallStepOf \/ ContextDone \/ \E i \in Functions : FunctionEnds(i)

\* A function may hang under a timeout, whose deadline comes; elsewhere the functions end.
CallsSpec ==
  /\ NewCall /\ [][CallsNext]_callsVars /\ WF_callsVars(CallStepOf)
  /\ WF_callsVars(policy = "timeout" /\ ContextDone)
  /\ \A i \in Functions : WF_callsVars(policy # "timeout" /\ FunctionEnds(i))
-----------------------------------------------------------------------------
(***************************************************************************)
(* The answer of every policy is true to its functions: a success only     *)
(* when one of them succeeded, a failure only when none did, also when the *)
(* context ends or another hedge succeeds while a result is on its way.    *)
(* Retry and fallback never run two functions at once, nor one after the   *)
(* answer.                                                                 *)
(***************************************************************************)
CallTellsTruth ==
  /\ callAnswer = "ok" => succeeded # {}
  /\ callAnswer = "failed" => succeeded = {}
  /\ Sequential => /\ Cardinality({i \in Functions : fn[i] = "running"}) <= 1
                   /\ callAnswer # "none" => \A i \in Functions : fn[i] # "running"

(***************************************************************************)
(* Every call returns: under a timeout although the function hangs, under  *)
(* the other policies once the functions do.                               *)
(***************************************************************************)
CallReturns == []<>(callAnswer # "none")
=============================================================================
