----------------------------- MODULE EventLoop ------------------------------
(***************************************************************************)
(* One event loop of pkg/core/eventloop/loop.go: any number of goroutines  *)
(* call Dispatch, one goroutine runs the loop, another calls Close or      *)
(* cancels the parent context (EventLoopGroup.Close).  Every action is one *)
(* atomic memory access of one goroutine.                                  *)
(***************************************************************************)
EXTENDS RingBuffer, Sequences

CONSTANTS
  Producers,    \* goroutines that call Dispatch
  Modes,        \* the values of config.Backpressure considered, among "Drop" and "Block"
  Self,         \* the producer that is the loop's own goroutine, dispatching from inside
                \* a handler; not a member of Producers when handlers do not dispatch
  Reporters     \* goroutines that call Stats

ASSUME ModesAssumption == Modes \subseteq {"Drop", "Block"}

VARIABLES
  backpressure, \* config.Backpressure, fixed when the loop is made
  pc,        \* where each producer is inside Dispatch
  event,     \* the event each producer is dispatching
  seq,       \* Next's local variable: the cursor it loaded, then the sequence it claimed
  outcome,   \* what Dispatch returned for each event
  closed,    \* l.closed
  closing,   \* Close has set l.closed and not yet called cancel
  ctxDone,   \* l.ctx is cancelled
  loopPC,    \* where run() is
  next,      \* run's local variable: the next sequence to process
  statCur,   \* Stats: the cursor it has loaded, -2 when idle
  claimed,   \* history: events in the order their sequences were claimed
  processed  \* history: events in the order their handlers were invoked

dispatchVars == <<pc, event, seq, outcome>>
closeVars == <<closed, closing, ctxDone, backpressure>>
runVars == <<loopPC, next, processed>>
statVars == <<statCur>>
vars == <<ringVars, dispatchVars, closeVars, runVars, statVars, claimed>>

Outcomes == {"none", "running", "nil", "QUEUE_FULL", "CLOSED", "ctxErr"}

NewEventLoop ==
  /\ NewRingBuffer
  /\ backpressure \in Modes
  /\ pc = [p \in Producers |-> "idle"]
  /\ event = [p \in Producers |-> NoEvent]
  /\ seq = [p \in Producers |-> -1]
  /\ outcome = [e \in Events |-> "none"]
  /\ closed = FALSE
  /\ closing = FALSE
  /\ ctxDone = FALSE
  /\ loopPC = "poll"
  /\ next = 0
  /\ statCur = [r \in Reporters |-> -2]
  /\ claimed = <<>>
  /\ processed = <<>>

-----------------------------------------------------------------------------
(* Dispatch.                                                               *)

Goto(p, label) == pc' = [pc EXCEPT ![p] = label]

(* Dispatch returns: p is idle again and its event has the result it got. *)
Return(p, result) ==
  /\ Goto(p, "idle")
  /\ outcome' = [outcome EXCEPT ![event[p]] = result]

(* The call, up to its first load of l.closed.  A handler can dispatch only *)
(* while it runs.                                                           *)
Dispatch(p, e) ==
  /\ pc[p] = "idle"
  /\ outcome[e] = "none"
  /\ p = Self => loopPC = "handler"
  /\ event' = [event EXCEPT ![p] = e]
  /\ IF closed
       THEN /\ outcome' = [outcome EXCEPT ![e] = "CLOSED"]
            /\ UNCHANGED pc
       ELSE /\ outcome' = [outcome EXCEPT ![e] = "running"]
            /\ Goto(p, IF backpressure = "Drop" THEN "load" ELSE "check")
  /\ UNCHANGED <<ringVars, seq, closeVars, runVars, statVars, claimed>>

(* Mutant: Block looks only at l.closed, which a parent's cancel leaves unset. *)
CheckOpenIgnoresContext(p) ==
  /\ pc[p] = "check"
  /\ Goto(p, IF closed THEN "giveUp" ELSE "load")
  /\ UNCHANGED <<ringVars, event, seq, outcome, closeVars, runVars, statVars, claimed>>

(* Block: the loads of l.closed and l.ctx.Err() at the top of the loop.    *)
CheckOpen(p) ==
  /\ pc[p] = "check"
  /\ Goto(p, IF closed \/ ctxDone THEN "giveUp" ELSE "load")
  /\ UNCHANGED <<ringVars, event, seq, outcome, closeVars, runVars, statVars, claimed>>

(* Block: return l.ctx.Err(), a second load, nil while the context is live. *)
GiveUp(p) ==
  /\ pc[p] = "giveUp"
  /\ Return(p, IF ctxDone THEN "ctxErr" ELSE "nil")
  /\ UNCHANGED <<ringVars, event, seq, closeVars, runVars, statVars, claimed>>

(* Next: load the cursor. *)
LoadCursor(p) ==
  /\ pc[p] = "load"
  /\ seq' = [seq EXCEPT ![p] = cursor]
  /\ Goto(p, "gate")
  /\ UNCHANGED <<ringVars, event, outcome, closeVars, runVars, statVars, claimed>>

(* Next: load the gating sequence; a full ring makes Drop return QUEUE_FULL *)
(* and Block start over.                                                    *)
CheckGating(p) ==
  /\ pc[p] = "gate"
  /\ IF NextIsFull(seq[p])
       THEN IF backpressure = "Drop"
              THEN Return(p, "QUEUE_FULL")
              ELSE Goto(p, "check") /\ UNCHANGED outcome
       ELSE Goto(p, "cas") /\ UNCHANGED outcome
  /\ UNCHANGED <<ringVars, event, seq, closeVars, runVars, statVars, claimed>>

(* Mutant: the cursor is stored without comparing it first. *)
CASCursorBlindStore(p) ==
  /\ pc[p] = "cas"
  /\ ClaimCursor(seq[p])
  /\ seq' = [seq EXCEPT ![p] = @ + 1]
  /\ claimed' = Append(claimed, event[p])
  /\ Goto(p, "store")
  /\ UNCHANGED <<event, outcome, closeVars, runVars, statVars>>

(* Next: the compare-and-swap on the cursor, retried from the load. *)
CASCursor(p) ==
  /\ pc[p] = "cas"
  /\ IF CASSucceeds(seq[p])
       THEN /\ ClaimCursor(seq[p])
            /\ seq' = [seq EXCEPT ![p] = @ + 1]
            /\ claimed' = Append(claimed, event[p])
            /\ Goto(p, "store")
       ELSE /\ Goto(p, "load")
            /\ UNCHANGED <<ringVars, seq, claimed>>
  /\ UNCHANGED <<event, outcome, closeVars, runVars, statVars>>

PublishStore(p) ==
  /\ pc[p] = "store"
  /\ StoreEvent(seq[p], event[p])
  /\ Goto(p, "mark")
  /\ UNCHANGED <<event, seq, outcome, closeVars, runVars, statVars, claimed>>

(* Mutant: the second store of Publish is missing. *)
PublishMarkForgotten(p) ==
  /\ pc[p] = "mark"
  /\ Return(p, "nil")
  /\ UNCHANGED <<ringVars, event, seq, closeVars, runVars, statVars, claimed>>

(* Mutant: the context is checked once more after the event is published. *)
PublishMarkThenContext(p) ==
  /\ pc[p] = "mark"
  /\ MarkAvailable(seq[p])
  /\ Return(p, IF ctxDone THEN "ctxErr" ELSE "nil")
  /\ UNCHANGED <<event, seq, closeVars, runVars, statVars, claimed>>

PublishMark(p) ==
  /\ pc[p] = "mark"
  /\ MarkAvailable(seq[p])
  /\ Return(p, "nil")
  /\ UNCHANGED <<event, seq, closeVars, runVars, statVars, claimed>>

-----------------------------------------------------------------------------
(* run().                                                                  *)

(* WaitFor: the context is checked before every poll of the slot. *)
PollContext ==
  /\ loopPC = "poll"
  /\ loopPC' = IF ctxDone THEN "exit" ELSE "avail"
  /\ UNCHANGED <<ringVars, dispatchVars, closeVars, next, processed, statVars, claimed>>

PollAvailable ==
  /\ loopPC = "avail"
  /\ loopPC' = IF IsAvailable(next) THEN "get" ELSE "poll"
  /\ UNCHANGED <<ringVars, dispatchVars, closeVars, next, processed, statVars, claimed>>

(* Get(seq) and the call of the event's handler. *)
InvokeHandler ==
  /\ loopPC = "get"
  /\ processed' = Append(processed, Get(next))
  /\ loopPC' = "handler"
  /\ UNCHANGED <<ringVars, dispatchVars, closeVars, next, statVars, claimed>>

(* The handler returns and Consume gives the slot back to the producers. *)
ConsumeSlot ==
  /\ loopPC = "handler"
  /\ Self \in Producers => pc[Self] = "idle"
  /\ Consume(next)
  /\ next' = next + 1
  /\ loopPC' = "poll"
  /\ UNCHANGED <<dispatchVars, closeVars, processed, statVars, claimed>>

-----------------------------------------------------------------------------
(* Close and cancellation.                                                 *)

Close ==
  /\ ~closed
  /\ closed' = TRUE
  /\ closing' = TRUE
  /\ UNCHANGED <<ringVars, dispatchVars, ctxDone, backpressure, runVars, statVars, claimed>>

CloseCancel ==
  /\ closing
  /\ ctxDone' = TRUE
  /\ closing' = FALSE
  /\ UNCHANGED <<ringVars, dispatchVars, closed, backpressure, runVars, statVars, claimed>>

(* EventLoopGroup.Close cancels the parent context before it closes loops. *)
ParentCancel ==
  /\ ~ctxDone
  /\ ctxDone' = TRUE
  /\ UNCHANGED <<ringVars, dispatchVars, closed, closing, backpressure, runVars, statVars, claimed>>

-----------------------------------------------------------------------------
(* Stats: AvailableCapacity loads the cursor, then the gating sequence.    *)

StatsLoadCursor(r) ==
  /\ statCur[r] = -2
  /\ statCur' = [statCur EXCEPT ![r] = cursor]
  /\ UNCHANGED <<ringVars, dispatchVars, closeVars, runVars, claimed>>

(* What Stats returns if it loads the gating sequence now. *)
QueueLength(r) == Size - AvailableCapacity(statCur[r], gating)

StatsLoadGating(r) ==
  /\ statCur[r] # -2
  /\ statCur' = [statCur EXCEPT ![r] = -2]
  /\ UNCHANGED <<ringVars, dispatchVars, closeVars, runVars, claimed>>

-----------------------------------------------------------------------------
DispatchStep(p) ==
  \/ CheckOpen(p) \/ GiveUp(p)
  \/ LoadCursor(p) \/ CheckGating(p) \/ CASCursor(p)
  \/ PublishStore(p) \/ PublishMark(p)

Run == PollContext \/ PollAvailable \/ InvokeHandler \/ ConsumeSlot

Next ==
  \/ \E p \in Producers : (\E e \in Events : Dispatch(p, e)) \/ DispatchStep(p)
  \/ Run
  \/ Close \/ CloseCancel \/ ParentCancel
  \/ \E r \in Reporters : StatsLoadCursor(r) \/ StatsLoadGating(r)

Spec == NewEventLoop /\ [][Next]_vars

(* The Go scheduler runs every runnable goroutine again: a Dispatch that    *)
(* has begun, the loop's goroutine and a Close that has begun all go on.    *)
Fairness ==
  /\ \A p \in Producers : WF_vars(DispatchStep(p))
  /\ WF_vars(Run)
  /\ WF_vars(CloseCancel)

FairSpec == Spec /\ Fairness
-----------------------------------------------------------------------------
(* Properties.                                                             *)

InSeq(e, s) == \E i \in DOMAIN s : s[i] = e

Publishing(p) == pc[p] \in {"store", "mark"}

TypeOK ==
  /\ buffer \in [Slots -> Events \cup {NoEvent}]
  /\ available \in [Slots -> Int]
  /\ cursor \in Int
  /\ gating \in Int
  /\ backpressure \in {"Drop", "Block"}
  /\ pc \in [Producers -> {"idle", "check", "giveUp", "load", "gate", "cas", "store", "mark"}]
  /\ event \in [Producers -> Events \cup {NoEvent}]
  /\ seq \in [Producers -> Int]
  /\ outcome \in [Events -> Outcomes]
  /\ closed \in BOOLEAN
  /\ closing \in BOOLEAN
  /\ ctxDone \in BOOLEAN
  /\ loopPC \in {"poll", "avail", "get", "handler", "exit"}
  /\ next \in Nat
  /\ statCur \in [Reporters -> Int]
  /\ claimed \in Seq(Events)
  /\ processed \in Seq(Events)

(* run() invokes handlers on exactly the claimed events, in claim order:   *)
(* no event is skipped, handled twice, torn, or read from a slot that a    *)
(* producer of a later lap has already overwritten.                        *)
HandledInClaimOrder ==
  /\ Len(processed) <= Len(claimed)
  /\ \A i \in 1 .. Len(processed) : processed[i] = claimed[i]

(* Next never hands out more than Size sequences that Consume has not      *)
(* released, although it loads cursor and gating at different times.       *)
NeverOverclaimed == cursor - gating \in 0 .. Size

(* Two producers between Next and the end of Publish never write the same  *)
(* slot, and none of them writes the slot run() is about to read.          *)
ExclusiveSlots ==
  /\ \A p, q \in Producers :
       Publishing(p) /\ Publishing(q) /\ p # q => Slot(seq[p]) # Slot(seq[q])
  /\ loopPC = "get" =>
       \A p \in Producers : Publishing(p) => Slot(seq[p]) # Slot(next)

(* The ring keeps producers and run() apart and its events in order. *)
SlotsInOrder == HandledInClaimOrder /\ ExclusiveSlots

(* What Dispatch returned is true: nil means the event has a slot in the   *)
(* ring, and an error means it never will have one.  The one exception is  *)
(* Block's `return l.ctx.Err()` between the two steps of Close: the loop   *)
(* is closed, the context is not yet cancelled, and the error is nil.      *)
DispatchAnswerIsTrue ==
  \A e \in Events :
    /\ outcome[e] = "nil" => InSeq(e, claimed) \/ (backpressure = "Block" /\ closed)
    /\ outcome[e] \in {"none", "QUEUE_FULL", "CLOSED", "ctxErr"} => ~InSeq(e, claimed)

(* Stats reports a queue length between 0 and the ring's size, although    *)
(* its two loads see the ring at different moments.                        *)
QueueLengthInRange == \A r \in Reporters : statCur[r] # -2 => QueueLength(r) \in 0 .. Size

(* The loop is a bounded FIFO queue: an event is accepted when its         *)
(* sequence is claimed and handled when run() invokes its handler.         *)
Queue == INSTANCE EventQueue WITH
  Capacity <- Size,
  pending <- SubSeq(claimed, Len(processed) + 1, Len(claimed)),
  handled <- processed

IsEventQueue == Queue!QueueSpec

(* A handler that dispatches to its own loop waits for a slot of the full  *)
(* ring which only that handler's return would free.                       *)
SelfStarved ==
  /\ backpressure = "Block"
  /\ Self \in Producers /\ pc[Self] # "idle"
  /\ cursor - gating = Size

(* An event Dispatch accepted is handled unless the loop's context is      *)
(* cancelled first (run() abandons what is queued when it is) or the loop  *)
(* has starved itself.                                                     *)
AcceptedIsHandled ==
  \A e \in Events : []<>(outcome[e] = "nil" => InSeq(e, processed) \/ ctxDone \/ SelfStarved)

(* Every Dispatch returns: Drop never waits, Block waits until a slot is   *)
(* free or the context is cancelled.  The only Dispatch that can wait for  *)
(* ever is behind a handler that has starved its own loop.                 *)
DispatchReturns == \A p \in Producers : []<>(pc[p] = "idle" \/ SelfStarved)

(* Neither an accepted event nor a caller of Dispatch waits for ever. *)
LoopProgress == AcceptedIsHandled /\ DispatchReturns

-----------------------------------------------------------------------------
(* The inductive invariant behind the safety properties.  It says what     *)
(* each goroutine knows between two of its steps, whatever the others do.  *)

(* cursor, gating, next and the histories count the same things. *)
CountersInv ==
  /\ cursor = Len(claimed) - 1
  /\ gating = next - 1
  /\ gating <= cursor
  /\ cursor <= gating + Size
  /\ Len(processed) = (IF loopPC = "handler" THEN next + 1 ELSE next)

(* A slot's published sequence was claimed and belongs to that slot, and   *)
(* until it is consumed the slot holds the event that claimed it.          *)
SlotsInv ==
  \A i \in Slots : available[i] # -1 =>
    /\ 0 <= available[i] /\ available[i] <= cursor
    /\ Slot(available[i]) = i
    /\ available[i] > gating => buffer[i] = claimed[available[i] + 1]

(* Between Next and Publish a producer owns a sequence that is claimed for *)
(* its event, unconsumed, and not yet published.                           *)
PublishingInv ==
  \A p \in Producers : Publishing(p) =>
    /\ gating < seq[p] /\ seq[p] <= cursor
    /\ claimed[seq[p] + 1] = event[p]
    /\ available[Slot(seq[p])] # seq[p]
    /\ pc[p] = "mark" => buffer[Slot(seq[p])] = event[p]

DistinctSequences ==
  \A p, q \in Producers : Publishing(p) /\ Publishing(q) /\ p # q => seq[p] # seq[q]

(* What Next has loaded may be stale, but only in the safe direction. *)
NextInv ==
  \A p \in Producers :
    /\ pc[p] \in {"gate", "cas"} => -1 <= seq[p] /\ seq[p] <= cursor
    /\ pc[p] = "cas" => seq[p] + 1 - Size <= gating

(* run() has seen the slot of next published, and it stays published. *)
LoopInv ==
  loopPC \in {"get", "handler"} => next <= cursor /\ IsAvailable(next)

(* An event is being dispatched by at most one producer, and is in the     *)
(* ring only if that producer has claimed a sequence or has returned nil.  *)
DispatchInv ==
  /\ \A p \in Producers : pc[p] # "idle" =>
       event[p] \in Events /\ outcome[event[p]] = "running"
  /\ \A p, q \in Producers :
       pc[p] # "idle" /\ pc[q] # "idle" /\ p # q => event[p] # event[q]
  /\ \A p \in Producers :
       pc[p] \in {"check", "giveUp", "load", "gate", "cas"} => ~InSeq(event[p], claimed)
  /\ \A i \in 1 .. Len(claimed) : outcome[claimed[i]] \in {"running", "nil"}

(* Stats: the cursor it loaded is at most a lap ahead of the consumer. *)
StatsInv ==
  \A r \in Reporters : statCur[r] <= gating + Size

RingInv ==
  /\ TypeOK
  /\ CountersInv
  /\ SlotsInv
  /\ PublishingInv
  /\ DistinctSequences
  /\ NextInv
  /\ LoopInv
  /\ HandledInClaimOrder
  /\ DispatchInv
  /\ StatsInv
=============================================================================
