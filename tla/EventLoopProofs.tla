-------------------------- MODULE EventLoopProofs ---------------------------
(***************************************************************************)
(* Proofs about EventLoop for every ring size, any set of producers and    *)
(* events, and both backpressure policies.                                 *)
(***************************************************************************)
EXTENDS EventLoop, SequenceTheorems, TLAPS

(* Two unconsumed sequences less than a lap apart never share a slot: the  *)
(* arithmetic that lets sequence & indexMask index the ring.               *)
LEMMA SlotInjective ==
  ASSUME NEW a \in Int, NEW b \in Int, NEW g \in Int,
         g < a, a <= g + Size, g < b, b <= g + Size, Slot(a) = Slot(b)
  PROVE  a = b
<1> DEFINE qa == a \div Size
           qb == b \div Size
<1>1. Size \in Int /\ Size > 0
  BY SizeAssumption
<1>2. qa \in Int /\ qb \in Int
  BY <1>1
<1>3. a = Size * qa + (a % Size) /\ b = Size * qb + (b % Size)
  BY <1>1
<1> HIDE DEF qa, qb
<1>4. a - b = Size * (qa - qb)
  BY <1>1, <1>2, <1>3 DEF Slot
<1>5. CASE qa > qb
  <2>1. Size * (qa - qb) >= Size
    BY <1>1, <1>2, <1>5
  <2> QED BY <2>1, <1>1, <1>4
<1>6. CASE qa < qb
  <2>1. Size * (qa - qb) <= -Size
    BY <1>1, <1>2, <1>6
  <2> QED BY <2>1, <1>1, <1>4
<1>7. CASE qa = qb
  BY <1>7, <1>1, <1>2, <1>4
<1> QED BY <1>2, <1>5, <1>6, <1>7

LEMMA SlotType ==
  ASSUME NEW a \in Int
  PROVE  Slot(a) \in Slots
BY SizeAssumption DEF Slot, Slots

-----------------------------------------------------------------------------
(* The initial state satisfies the invariant. *)
LEMMA RingInvInit == NewEventLoop => RingInv
<1> SUFFICES ASSUME NewEventLoop PROVE RingInv
  BY Zenon
<1> USE SizeAssumption DEF NewEventLoop, NewRingBuffer
<1>1. TypeOK
  <2>1. claimed \in Seq(Events) /\ processed \in Seq(Events)
    BY Zenon, EmptySeq
  <2>2. buffer \in [Slots -> Events \cup {NoEvent}] /\ available \in [Slots -> Int]
    OBVIOUS
  <2>3. /\ pc \in [Producers -> {"idle", "check", "giveUp", "load", "gate", "cas", "store", "mark"}]
        /\ event \in [Producers -> Events \cup {NoEvent}]
        /\ seq \in [Producers -> Int]
        /\ outcome \in [Events -> Outcomes]
    BY DEF Outcomes
  <2>4. statCur \in [Reporters -> Int]
    OBVIOUS
  <2>5. closed \in BOOLEAN /\ closing \in BOOLEAN /\ ctxDone \in BOOLEAN
    BY Zenon
  <2>8. backpressure \in {"Drop", "Block"}
    BY Zenon, ModesAssumption
  <2>6. cursor \in Int /\ gating \in Int /\ next \in Nat
    OBVIOUS
  <2>7. loopPC \in {"poll", "avail", "get", "handler", "exit"}
    BY Zenon
  <2> HIDE DEF NewEventLoop, NewRingBuffer
  <2> QED BY Zenon, <2>1, <2>2, <2>3, <2>4, <2>5, <2>6, <2>7, <2>8 DEF TypeOK
<1>2. CountersInv /\ HandledInClaimOrder
  BY DEF CountersInv, HandledInClaimOrder
<1>3. SlotsInv /\ LoopInv /\ StatsInv
  BY DEF SlotsInv, LoopInv, StatsInv
<1>4. PublishingInv /\ DistinctSequences /\ NextInv
  BY Zenon DEF PublishingInv, DistinctSequences, NextInv, Publishing
<1>5. DispatchInv
  BY DEF DispatchInv
<1> QED BY Zenon, <1>1, <1>2, <1>3, <1>4, <1>5 DEF RingInv

LEMMA ClaimedType ==
  ASSUME TypeOK
  PROVE  /\ Len(claimed) \in Nat
         /\ \A i \in 1 .. Len(claimed) : claimed[i] \in Events
BY ElementOfSeq DEF TypeOK

(* A step of producer p outside Publish leaves the ring, the loop and the  *)
(* other producers alone, so only p's own knowledge has to be re-checked.  *)
LEMMA QuietStep ==
  ASSUME RingInv, NEW p \in Producers,
         UNCHANGED <<ringVars, claimed, runVars, statVars>>,
         ~Publishing(p), ~Publishing(p)',
         \A q \in Producers : q # p => pc'[q] = pc[q] /\ seq'[q] = seq[q] /\ event'[q] = event[q]
  PROVE  /\ CountersInv' /\ SlotsInv' /\ LoopInv' /\ HandledInClaimOrder' /\ StatsInv'
         /\ PublishingInv' /\ DistinctSequences'
<1>1. CountersInv' /\ SlotsInv' /\ LoopInv' /\ HandledInClaimOrder' /\ StatsInv'
  BY Zenon DEF RingInv, ringVars, runVars, statVars, CountersInv, SlotsInv, LoopInv,
         HandledInClaimOrder, StatsInv, IsAvailable, Slot
<1>2. \A q \in Producers : Publishing(q)' => q # p /\ Publishing(q)
  BY Zenon DEF Publishing
<1>3. PublishingInv'
  BY Zenon, <1>2 DEF RingInv, ringVars, PublishingInv, Slot
<1>4. DistinctSequences'
  BY Zenon, <1>2 DEF RingInv, DistinctSequences
<1> QED BY Zenon, <1>1, <1>3, <1>4

-----------------------------------------------------------------------------
(* Dispatch, one lemma per atomic step. *)

LEMMA DispatchPreserves ==
  ASSUME RingInv, NEW p \in Producers, NEW e \in Events, Dispatch(p, e)
  PROVE  RingInv'
<1>1. TypeOK'
  BY Zenon DEF RingInv, TypeOK, Dispatch, Goto, Outcomes, ringVars, closeVars, runVars, statVars
<1>2. /\ pc'[p] \in {"idle", "load", "check"}
      /\ pc'[p] # "idle" => outcome'[e] = "running" /\ event'[p] = e
      /\ event' = [event EXCEPT ![p] = e] /\ seq' = seq
      /\ \A q \in Producers : q # p => pc'[q] = pc[q] /\ seq'[q] = seq[q] /\ event'[q] = event[q]
  BY Zenon DEF RingInv, TypeOK, Dispatch, Goto
<1>3. ~Publishing(p) /\ ~Publishing(p)'
  BY Zenon, <1>2 DEF Publishing, Dispatch
<1>4. UNCHANGED <<ringVars, claimed, runVars, statVars>>
  BY Zenon DEF Dispatch
<1>5. NextInv'
  BY Zenon, <1>2, <1>4 DEF RingInv, NextInv, ringVars
<1>6. \A f \in Events : f # e => outcome'[f] = outcome[f]
  BY Zenon DEF RingInv, TypeOK, Dispatch
<1>7. outcome[e] = "none"
  BY Zenon DEF Dispatch
<1>8. \A i \in 1 .. Len(claimed) : claimed[i] \in Events /\ claimed[i] # e
  BY Zenon, <1>7, ClaimedType DEF RingInv, DispatchInv
<1>9. \A q \in Producers : pc[q] # "idle" => event[q] \in Events /\ event[q] # e
  BY Zenon, <1>7 DEF RingInv, DispatchInv
<1>10. DispatchInv'
  <2>1. \A q \in Producers : pc'[q] # "idle" =>
          event'[q] \in Events /\ outcome'[event'[q]] = "running"
    BY <1>2, <1>6, <1>9 DEF RingInv, DispatchInv
  <2>2. \A q, r \in Producers :
          pc'[q] # "idle" /\ pc'[r] # "idle" /\ q # r => event'[q] # event'[r]
    BY <1>2, <1>9 DEF RingInv, DispatchInv
  <2>3. \A q \in Producers :
          pc'[q] \in {"check", "giveUp", "load", "gate", "cas"} => ~InSeq(event'[q], claimed')
    BY <1>2, <1>4, <1>8 DEF RingInv, TypeOK, DispatchInv, InSeq
  <2>4. \A i \in 1 .. Len(claimed') : outcome'[claimed'[i]] \in {"running", "nil"}
    BY Zenon, <1>4, <1>6, <1>8 DEF RingInv, DispatchInv
  <2> QED BY Zenon, <2>1, <2>2, <2>3, <2>4 DEF DispatchInv, InSeq
<1> QED BY Zenon, <1>1, <1>2, <1>3, <1>4, <1>5, <1>10, QuietStep DEF RingInv

(* The remaining steps of Dispatch before a sequence is claimed move p's   *)
(* program counter; the event stays its own, unclaimed and running.        *)
LEMMA UnclaimedStep ==
  ASSUME RingInv, NEW p \in Producers,
         UNCHANGED <<ringVars, claimed, runVars, statVars, event, outcome>>,
         pc[p] \in {"check", "giveUp", "load", "gate", "cas"},
         pc'[p] \in {"check", "giveUp", "load", "gate", "cas"},
         \A q \in Producers : q # p => pc'[q] = pc[q]
  PROVE  DispatchInv'
<1>1. \A q \in Producers : pc'[q] # "idle" => pc[q] # "idle"
  BY Zenon
<1>2. \A q \in Producers :
        pc'[q] \in {"check", "giveUp", "load", "gate", "cas"} =>
        pc[q] \in {"check", "giveUp", "load", "gate", "cas"}
  BY Zenon
<1> QED BY Zenon, <1>1, <1>2 DEF RingInv, DispatchInv, InSeq

(* Returning before a claim: the event is in no slot, so any answer but    *)
(* a wrong one keeps the invariant.                                        *)
LEMMA ReturnUnclaimed ==
  ASSUME RingInv, NEW p \in Producers, NEW result \in Outcomes,
         UNCHANGED <<claimed, event>>,
         pc[p] \in {"check", "giveUp", "load", "gate", "cas"},
         Return(p, result)
  PROVE  DispatchInv'
<1>1. /\ pc'[p] = "idle"
      /\ \A q \in Producers : q # p => pc'[q] = pc[q]
  BY Zenon DEF RingInv, TypeOK, Return, Goto
<1>2. \A f \in Events : f # event[p] => outcome'[f] = outcome[f]
  BY Zenon DEF RingInv, TypeOK, Return
<1>3. ~InSeq(event[p], claimed)
  BY Zenon DEF RingInv, DispatchInv
<1>4. \A i \in 1 .. Len(claimed) : claimed[i] \in Events /\ claimed[i] # event[p]
  BY <1>3, ClaimedType DEF RingInv, TypeOK, InSeq
<1>5. \A q \in Producers : pc'[q] # "idle" => q # p /\ pc[q] # "idle" /\ event[q] # event[p]
  BY Zenon, <1>1 DEF RingInv, DispatchInv
<1>6. \A q \in Producers : pc'[q] # "idle" =>
        event'[q] \in Events /\ outcome'[event'[q]] = "running"
  BY Zenon, <1>2, <1>5 DEF RingInv, DispatchInv
<1>7. \A i \in 1 .. Len(claimed') : outcome'[claimed'[i]] \in {"running", "nil"}
  BY Zenon, <1>2, <1>4 DEF RingInv, DispatchInv
<1>8. \A q \in Producers :
        pc'[q] \in {"check", "giveUp", "load", "gate", "cas"} => ~InSeq(event'[q], claimed')
  BY Zenon, <1>1 DEF RingInv, DispatchInv, InSeq
<1>9. \A q, r \in Producers :
        pc'[q] # "idle" /\ pc'[r] # "idle" /\ q # r => event'[q] # event'[r]
  BY Zenon, <1>5 DEF RingInv, DispatchInv
<1> QED BY Zenon, <1>6, <1>7, <1>8, <1>9 DEF DispatchInv, InSeq

LEMMA CheckOpenPreserves ==
  ASSUME RingInv, NEW p \in Producers, CheckOpen(p)
  PROVE  RingInv'
<1>1. TypeOK'
  BY Zenon DEF RingInv, TypeOK, CheckOpen, Goto, ringVars, closeVars, runVars, statVars
<1>2. /\ pc[p] = "check" /\ pc'[p] \in {"giveUp", "load"}
      /\ \A q \in Producers : q # p => pc'[q] = pc[q]
      /\ UNCHANGED <<ringVars, claimed, runVars, statVars, event, outcome, seq>>
  BY Zenon DEF RingInv, TypeOK, CheckOpen, Goto
<1>3. ~Publishing(p) /\ ~Publishing(p)'
  BY Zenon, <1>2 DEF Publishing
<1>4. NextInv'
  BY Zenon, <1>2 DEF RingInv, NextInv, ringVars
<1>5. DispatchInv'
  BY Zenon, <1>2, UnclaimedStep
<1> QED BY Zenon, <1>1, <1>2, <1>3, <1>4, <1>5, QuietStep DEF RingInv

LEMMA GiveUpPreserves ==
  ASSUME RingInv, NEW p \in Producers, GiveUp(p)
  PROVE  RingInv'
<1>1. TypeOK'
  BY Zenon DEF RingInv, TypeOK, GiveUp, Return, Goto, Outcomes, ringVars, closeVars, runVars, statVars
<1>2. /\ pc[p] = "giveUp" /\ pc'[p] = "idle"
      /\ \A q \in Producers : q # p => pc'[q] = pc[q]
      /\ UNCHANGED <<ringVars, claimed, runVars, statVars, event, seq>>
  BY Zenon DEF RingInv, TypeOK, GiveUp, Return, Goto
<1>3. ~Publishing(p) /\ ~Publishing(p)'
  BY Zenon, <1>2 DEF Publishing
<1>4. NextInv'
  BY Zenon, <1>2 DEF RingInv, NextInv, ringVars
<1>5. DispatchInv'
  BY Zenon, <1>2, ReturnUnclaimed DEF GiveUp, Outcomes
<1> QED BY Zenon, <1>1, <1>2, <1>3, <1>4, <1>5, QuietStep DEF RingInv

LEMMA LoadCursorPreserves ==
  ASSUME RingInv, NEW p \in Producers, LoadCursor(p)
  PROVE  RingInv'
<1>1. TypeOK'
  BY Zenon DEF RingInv, TypeOK, LoadCursor, Goto, ringVars, closeVars, runVars, statVars
<1>2. /\ pc[p] = "load" /\ pc'[p] = "gate" /\ seq'[p] = cursor
      /\ \A q \in Producers : q # p => pc'[q] = pc[q] /\ seq'[q] = seq[q]
      /\ UNCHANGED <<ringVars, claimed, runVars, statVars, event, outcome>>
  BY Zenon DEF RingInv, TypeOK, LoadCursor, Goto
<1>3. ~Publishing(p) /\ ~Publishing(p)'
  BY Zenon, <1>2 DEF Publishing
<1>4. -1 <= cursor /\ cursor \in Int
  BY ClaimedType DEF RingInv, TypeOK, CountersInv
<1>5. NextInv'
  BY <1>2, <1>4 DEF RingInv, NextInv, ringVars
<1>6. DispatchInv'
  BY Zenon, <1>2, UnclaimedStep
<1> QED BY Zenon, <1>1, <1>2, <1>3, <1>5, <1>6, QuietStep DEF RingInv

LEMMA CheckGatingPreserves ==
  ASSUME RingInv, NEW p \in Producers, CheckGating(p)
  PROVE  RingInv'
<1>1. /\ pc[p] = "gate"
      /\ UNCHANGED <<ringVars, claimed, closeVars, runVars, statVars, event, seq>>
      /\ \/ Return(p, "QUEUE_FULL")
         \/ Goto(p, "check") /\ UNCHANGED outcome
         \/ Goto(p, "cas") /\ UNCHANGED outcome /\ ~NextIsFull(seq[p])
  BY Zenon DEF CheckGating
<1>2. /\ pc'[p] \in {"idle", "check", "cas"}
      /\ pc'[p] = "cas" => ~NextIsFull(seq[p])
      /\ \A q \in Producers : q # p => pc'[q] = pc[q]
  BY Zenon, <1>1 DEF RingInv, TypeOK, Return, Goto
<1>3. pc' \in [Producers -> {"idle", "check", "giveUp", "load", "gate", "cas", "store", "mark"}]
  BY Zenon, <1>1 DEF RingInv, TypeOK, Return, Goto
<1>4. outcome' \in [Events -> Outcomes]
  BY Zenon, <1>1 DEF RingInv, TypeOK, Return, Outcomes
<1>5. TypeOK'
  BY Zenon, <1>1, <1>3, <1>4 DEF RingInv, TypeOK, ringVars, closeVars, runVars, statVars
<1>6. ~Publishing(p) /\ ~Publishing(p)'
  BY Zenon, <1>1, <1>2 DEF Publishing
<1>7. seq[p] \in Int /\ gating \in Int /\ Size \in Int
  BY SizeAssumption DEF RingInv, TypeOK
<1>8. NextInv'
  BY <1>1, <1>2, <1>7 DEF RingInv, NextInv, NextIsFull, ringVars
<1>9. DispatchInv'
  <2>1. CASE Return(p, "QUEUE_FULL")
    BY Zenon, <2>1, <1>1, ReturnUnclaimed DEF Outcomes
  <2>2. CASE UNCHANGED outcome /\ pc'[p] \in {"check", "cas"}
    BY Zenon, <2>2, <1>1, <1>2, UnclaimedStep
  <2> QED BY Zenon, <1>1, <2>1, <2>2 DEF RingInv, TypeOK, Goto
<1> QED BY Zenon, <1>1, <1>2, <1>5, <1>6, <1>8, <1>9, QuietStep DEF RingInv

(* The compare-and-swap: the one step that claims a sequence.  Its guard   *)
(* was checked against a gating value that can only have grown since.      *)
LEMMA CASCursorPreserves ==
  ASSUME RingInv, NEW p \in Producers, CASCursor(p)
  PROVE  RingInv'
<1>1. CASE ~CASSucceeds(seq[p])
  <2>1. /\ pc[p] = "cas" /\ pc'[p] = "load"
        /\ \A q \in Producers : q # p => pc'[q] = pc[q]
        /\ pc' \in [Producers -> {"idle", "check", "giveUp", "load", "gate", "cas", "store", "mark"}]
        /\ UNCHANGED <<ringVars, claimed, closeVars, runVars, statVars, event, outcome, seq>>
    BY Zenon, <1>1 DEF RingInv, TypeOK, CASCursor, Goto
  <2>2. TypeOK'
    BY Zenon, <2>1 DEF RingInv, TypeOK, ringVars, closeVars, runVars, statVars
  <2>3. ~Publishing(p) /\ ~Publishing(p)'
    BY Zenon, <2>1 DEF Publishing
  <2>4. NextInv'
    BY Zenon, <2>1 DEF RingInv, NextInv, ringVars
  <2>5. DispatchInv'
    BY Zenon, <2>1, UnclaimedStep
  <2> QED BY Zenon, <2>1, <2>2, <2>3, <2>4, <2>5, QuietStep DEF RingInv
<1>2. CASE CASSucceeds(seq[p])
  <2>1. /\ pc[p] = "cas" /\ pc'[p] = "store" /\ seq'[p] = cursor + 1 /\ cursor' = cursor + 1
        /\ \A q \in Producers : q # p => pc'[q] = pc[q] /\ seq'[q] = seq[q]
        /\ claimed' = Append(claimed, event[p])
        /\ UNCHANGED <<buffer, available, gating, closeVars, runVars, statVars, event, outcome>>
    BY Zenon, <1>2 DEF RingInv, TypeOK, CASCursor, Goto, CASSucceeds, ClaimCursor
  <2>2. event[p] \in Events /\ outcome[event[p]] = "running" /\ ~InSeq(event[p], claimed)
    BY Zenon, <2>1 DEF RingInv, DispatchInv
  <2>3. /\ cursor \in Int /\ gating \in Int /\ next \in Nat /\ Size \in Int /\ Len(claimed) = cursor + 1
        /\ -1 <= gating /\ gating <= cursor /\ cursor + 1 <= gating + Size
    <3>1. seq[p] = cursor /\ seq[p] + 1 - Size <= gating
      BY Zenon, <1>2, <2>1 DEF RingInv, NextInv, CASSucceeds
    <3> QED BY <3>1, SizeAssumption, ClaimedType DEF RingInv, TypeOK, CountersInv
  <2>4. /\ Len(claimed') = cursor + 2
        /\ claimed'[cursor + 2] = event[p]
        /\ \A i \in 1 .. cursor + 1 : claimed'[i] = claimed[i]
        /\ claimed' \in Seq(Events)
    BY SMTT(60), <2>1, <2>2, <2>3, AppendProperties DEF RingInv, TypeOK
  <2>5. TypeOK'
    <3>1. pc' \in [Producers -> {"idle", "check", "giveUp", "load", "gate", "cas", "store", "mark"}]
      BY Zenon, <1>2 DEF RingInv, TypeOK, CASCursor, Goto
    <3>2. seq' = [seq EXCEPT ![p] = seq[p] + 1] /\ seq[p] \in Int
      BY Zenon, <1>2 DEF RingInv, TypeOK, CASCursor
    <3>3. seq' \in [Producers -> Int]
      BY <3>2 DEF RingInv, TypeOK
    <3> QED BY <3>1, <3>3, <2>1, <2>3, <2>4 DEF RingInv, TypeOK, closeVars, runVars, statVars
  <2>6. CountersInv'
    BY <2>1, <2>3, <2>4 DEF RingInv, CountersInv, runVars
  <2>7. \A i \in Slots : available[i] \in Int
    BY Zenon DEF RingInv, TypeOK
  <2>8. SlotsInv'
    BY SMTT(60), <2>1, <2>3, <2>4, <2>7 DEF RingInv, SlotsInv
  <2>9. \A q \in Producers : Publishing(q) => q # p /\ seq[q] \in Int /\ gating < seq[q] /\ seq[q] <= cursor
    BY Zenon, <2>1 DEF RingInv, TypeOK, PublishingInv, Publishing
  <2>10. \A q \in Producers : q # p => (Publishing(q)' <=> Publishing(q))
    BY Zenon, <2>1 DEF Publishing
  <2>11. available[Slot(cursor + 1)] # cursor + 1
    <3>1. Slot(cursor + 1) \in Slots
      BY <2>3, SlotType
    <3> QED BY <3>1, <2>3 DEF RingInv, SlotsInv
  <2>12. PublishingInv'
    <3> SUFFICES ASSUME NEW q \in Producers, Publishing(q)'
                 PROVE  /\ gating' < seq'[q] /\ seq'[q] <= cursor'
                        /\ claimed'[seq'[q] + 1] = event'[q]
                        /\ available'[Slot(seq'[q])] # seq'[q]
                        /\ pc'[q] = "mark" => buffer'[Slot(seq'[q])] = event'[q]
      BY Zenon DEF PublishingInv, Publishing, Slot
    <3>1. CASE q = p
      BY <3>1, <2>1, <2>3, <2>4, <2>11
    <3>2. CASE q # p
      <4>1. Publishing(q)
        BY Zenon, <3>2, <2>10
      <4>2. seq[q] \in Int /\ gating < seq[q] /\ seq[q] <= cursor
        BY Zenon, <4>1, <2>9
      <4>3. claimed'[seq[q] + 1] = claimed[seq[q] + 1]
        BY <4>2, <2>3, <2>4
      <4>4. /\ seq'[q] = seq[q] /\ event'[q] = event[q] /\ pc'[q] = pc[q]
            /\ gating' = gating /\ cursor' = cursor + 1 /\ available' = available /\ buffer' = buffer
        BY Zenon, <3>2, <2>1
      <4>5. /\ claimed[seq[q] + 1] = event[q]
            /\ available[Slot(seq[q])] # seq[q]
            /\ pc[q] = "mark" => buffer[Slot(seq[q])] = event[q]
        BY Zenon, <4>1 DEF RingInv, PublishingInv
      <4> QED BY <4>2, <4>3, <4>4, <4>5, <2>3
    <3> QED BY Zenon, <3>1, <3>2
  <2>13. DistinctSequences'
    BY <2>1, <2>3, <2>9, <2>10 DEF RingInv, DistinctSequences
  <2>14. NextInv'
    <3>1. \A q \in Producers : seq[q] \in Int
      BY Zenon DEF RingInv, TypeOK
    <3> QED BY <3>1, <2>1, <2>3 DEF RingInv, NextInv
  <2>15. LoopInv'
    BY <2>1, <2>3 DEF RingInv, LoopInv, IsAvailable, runVars
  <2>16. HandledInClaimOrder'
    <3>1. Len(processed) \in Nat /\ Len(processed) <= cursor + 1
      BY <2>3 DEF RingInv, TypeOK, HandledInClaimOrder
    <3> QED BY <3>1, <2>1, <2>3, <2>4 DEF RingInv, HandledInClaimOrder, runVars
  <2>17. DispatchInv'
    <3>1. \A q \in Producers : pc'[q] # "idle" => pc[q] # "idle"
      BY Zenon, <2>1
    <3>2. \A q \in Producers :
            pc'[q] \in {"check", "giveUp", "load", "gate", "cas"} => ~InSeq(event'[q], claimed')
      <4> SUFFICES ASSUME NEW q \in Producers,
                          pc'[q] \in {"check", "giveUp", "load", "gate", "cas"},
                          NEW i \in DOMAIN claimed', claimed'[i] = event[q]
                   PROVE  FALSE
        BY Zenon, <2>1 DEF InSeq
      <4>1. q # p /\ pc[q] \in {"check", "giveUp", "load", "gate", "cas"} /\ event[q] # event[p]
        BY Zenon, <2>1 DEF RingInv, DispatchInv
      <4>2. i \in 1 .. cursor + 2 /\ DOMAIN claimed = 1 .. cursor + 1
        BY <2>3, <2>4 DEF RingInv, TypeOK
      <4>3. i \in 1 .. cursor + 1 /\ claimed[i] = event[q]
        BY <4>1, <4>2, <2>3, <2>4
      <4> QED BY Zenon, <4>1, <4>2, <4>3 DEF RingInv, DispatchInv, InSeq
    <3>3. \A i \in 1 .. Len(claimed') : outcome'[claimed'[i]] \in {"running", "nil"}
      BY <2>1, <2>2, <2>3, <2>4 DEF RingInv, DispatchInv
    <3> QED BY Zenon, <3>1, <3>2, <3>3, <2>1 DEF RingInv, DispatchInv, InSeq
  <2>18. StatsInv'
    BY Zenon, <2>1 DEF RingInv, StatsInv, statVars
  <2> QED BY Zenon, <2>5, <2>6, <2>8, <2>12, <2>13, <2>14, <2>15, <2>16, <2>17, <2>18 DEF RingInv
<1> QED BY Zenon, <1>1, <1>2

(* Facts about the producers inside Publish that both stores need. *)
LEMMA PublishingFacts ==
  ASSUME RingInv, NEW p \in Producers, Publishing(p)
  PROVE  /\ seq[p] \in Int /\ gating \in Int /\ cursor \in Int
         /\ -1 <= gating /\ gating < seq[p] /\ seq[p] <= cursor /\ seq[p] <= gating + Size
         /\ Slot(seq[p]) \in Slots
         /\ available[Slot(seq[p])] # seq[p]
         /\ claimed[seq[p] + 1] = event[p] /\ event[p] \in Events
<1>1. /\ seq[p] \in Int /\ gating \in Int /\ cursor \in Int
      /\ -1 <= gating /\ cursor <= gating + Size
  BY DEF RingInv, TypeOK, CountersInv
<1>2. /\ gating < seq[p] /\ seq[p] <= cursor
      /\ available[Slot(seq[p])] # seq[p]
      /\ claimed[seq[p] + 1] = event[p]
  BY Zenon DEF RingInv, PublishingInv
<1>3. event[p] \in Events
  BY Zenon DEF RingInv, DispatchInv, Publishing
<1> QED BY <1>1, <1>2, <1>3, SlotType, SizeAssumption

(* The first store of Publish can only hit a slot whose published content  *)
(* has already been consumed.                                              *)
LEMMA PublishStorePreserves ==
  ASSUME RingInv, NEW p \in Producers, PublishStore(p)
  PROVE  RingInv'
<1>1. /\ pc[p] = "store" /\ pc'[p] = "mark"
      /\ \A q \in Producers : q # p => pc'[q] = pc[q]
      /\ buffer' = [buffer EXCEPT ![Slot(seq[p])] = event[p]]
      /\ UNCHANGED <<available, cursor, gating, event, seq, outcome, closeVars, runVars, statVars, claimed>>
  BY Zenon DEF RingInv, TypeOK, PublishStore, StoreEvent, Goto
<1>2. Publishing(p) /\ \A q \in Producers : Publishing(q)' <=> Publishing(q)
  BY Zenon, <1>1 DEF Publishing
<1>3. TypeOK'
  <2>1. pc' \in [Producers -> {"idle", "check", "giveUp", "load", "gate", "cas", "store", "mark"}]
    BY Zenon DEF RingInv, TypeOK, PublishStore, Goto
  <2>2. buffer' \in [Slots -> Events \cup {NoEvent}]
    BY Zenon, <1>1, <1>2, PublishingFacts DEF RingInv, TypeOK
  <2> QED BY Zenon, <1>1, <2>1, <2>2 DEF RingInv, TypeOK, closeVars, runVars, statVars
<1>4. CountersInv' /\ NextInv' /\ LoopInv' /\ HandledInClaimOrder' /\ StatsInv'
  <2>1. CountersInv' /\ LoopInv' /\ HandledInClaimOrder' /\ StatsInv'
    BY Zenon, <1>1 DEF RingInv, CountersInv, LoopInv, HandledInClaimOrder, StatsInv,
                IsAvailable, Slot, runVars, statVars
  <2>2. NextInv'
    BY Zenon, <1>1 DEF RingInv, NextInv
  <2> QED BY Zenon, <2>1, <2>2
<1>5. DistinctSequences'
  BY Zenon, <1>1, <1>2 DEF RingInv, DistinctSequences
<1>6. SlotsInv'
  <2> SUFFICES ASSUME NEW i \in Slots, available[i] # -1, available[i] > gating
               PROVE  buffer'[i] = claimed[available[i] + 1]
    BY Zenon, <1>1 DEF RingInv, SlotsInv, Slot
  <2>1. available[i] \in Int /\ available[i] <= cursor /\ Slot(available[i]) = i
    BY Zenon DEF RingInv, TypeOK, SlotsInv
  <2>2. available[i] <= gating + Size
    BY <2>1, SizeAssumption DEF RingInv, TypeOK, CountersInv
  <2>3. i # Slot(seq[p])
    BY Zenon, <2>1, <2>2, <1>2, PublishingFacts, SlotInjective
  <2>4. buffer'[i] = buffer[i]
    BY Zenon, <1>1, <2>3 DEF RingInv, TypeOK
  <2> QED BY Zenon, <2>4 DEF RingInv, SlotsInv
<1>7. PublishingInv'
  <2> SUFFICES ASSUME NEW q \in Producers, Publishing(q), pc'[q] = "mark"
               PROVE  buffer'[Slot(seq[q])] = event[q]
    BY Zenon, <1>1, <1>2 DEF RingInv, PublishingInv, Slot
  <2>1. CASE q = p
    BY Zenon, <2>1, <1>1, <1>2, PublishingFacts DEF RingInv, TypeOK
  <2>2. CASE q # p
    <3>1. buffer[Slot(seq[q])] = event[q]
      BY Zenon, <2>2, <1>1 DEF RingInv, PublishingInv
    <3>2. seq[q] # seq[p]
      BY Zenon, <2>2, <1>2 DEF RingInv, DistinctSequences
    <3>3. Slot(seq[q]) # Slot(seq[p])
      BY Zenon, <3>2, <1>2, PublishingFacts, SlotInjective
    <3> QED BY Zenon, <3>1, <3>3, <1>1, PublishingFacts DEF RingInv, TypeOK
  <2> QED BY Zenon, <2>1, <2>2
<1>8. DispatchInv'
  <2>1. \A q \in Producers : pc'[q] # "idle" => pc[q] # "idle"
    BY Zenon, <1>1
  <2>2. \A q \in Producers :
          pc'[q] \in {"check", "giveUp", "load", "gate", "cas"} =>
          pc[q] \in {"check", "giveUp", "load", "gate", "cas"}
    BY Zenon, <1>1
  <2> QED BY Zenon, <1>1, <2>1, <2>2 DEF RingInv, DispatchInv, InSeq
<1> QED BY Zenon, <1>3, <1>4, <1>5, <1>6, <1>7, <1>8 DEF RingInv

(* The second store of Publish makes p's sequence, and no other, visible. *)
LEMMA PublishMarkPreserves ==
  ASSUME RingInv, NEW p \in Producers, PublishMark(p)
  PROVE  RingInv'
<1>1. /\ pc[p] = "mark" /\ pc'[p] = "idle"
      /\ \A q \in Producers : q # p => pc'[q] = pc[q]
      /\ available' = [available EXCEPT ![Slot(seq[p])] = seq[p]]
      /\ outcome' = [outcome EXCEPT ![event[p]] = "nil"]
      /\ UNCHANGED <<buffer, cursor, gating, event, seq, closeVars, runVars, statVars, claimed>>
  BY Zenon DEF RingInv, TypeOK, PublishMark, MarkAvailable, Return, Goto
<1>2. Publishing(p) /\ \A q \in Producers : Publishing(q)' <=> q # p /\ Publishing(q)
  BY Zenon, <1>1 DEF Publishing
<1> DEFINE s == Slot(seq[p])
<1>3. /\ available'[s] = seq[p]
      /\ \A i \in Slots : i # s => available'[i] = available[i]
      /\ \A i \in Slots : available[i] \in Int
      /\ s \in Slots
  BY Zenon, <1>1, <1>2, PublishingFacts DEF RingInv, TypeOK
<1>4. TypeOK'
  <2>1. pc' \in [Producers -> {"idle", "check", "giveUp", "load", "gate", "cas", "store", "mark"}]
    BY Zenon DEF RingInv, TypeOK, PublishMark, Return, Goto
  <2>2. available' \in [Slots -> Int] /\ outcome' \in [Events -> Outcomes]
    BY Zenon, <1>1, <1>2, PublishingFacts DEF RingInv, TypeOK, Outcomes
  <2> QED BY Zenon, <1>1, <2>1, <2>2 DEF RingInv, TypeOK, closeVars, runVars, statVars
<1>5. CountersInv' /\ HandledInClaimOrder' /\ StatsInv' /\ NextInv'
  <2>1. CountersInv' /\ HandledInClaimOrder' /\ StatsInv'
    BY Zenon, <1>1 DEF RingInv, CountersInv, HandledInClaimOrder, StatsInv, runVars, statVars
  <2>2. NextInv'
    BY Zenon, <1>1 DEF RingInv, NextInv
  <2> QED BY Zenon, <2>1, <2>2
<1>6. DistinctSequences'
  BY Zenon, <1>1, <1>2 DEF RingInv, DistinctSequences
<1>7. SlotsInv'
  <2>1. buffer[s] = event[p]
    BY Zenon, <1>1, <1>2 DEF RingInv, PublishingInv
  <2> HIDE DEF s
  <2>2. /\ 0 <= seq[p] /\ seq[p] <= cursor /\ Slot(seq[p]) = s
        /\ buffer[s] = claimed[seq[p] + 1]
    BY SMTT(60), <2>1, <1>2, PublishingFacts DEF s
  <2> SUFFICES ASSUME NEW i \in Slots, available'[i] # -1
               PROVE  /\ 0 <= available'[i] /\ available'[i] <= cursor
                      /\ Slot(available'[i]) = i
                      /\ available'[i] > gating => buffer[i] = claimed[available'[i] + 1]
    BY Zenon, <1>1 DEF SlotsInv, Slot
  <2>3. CASE i = s
    BY Zenon, <2>3, <2>2, <1>3
  <2>4. CASE i # s
    BY Zenon, <2>4, <1>3 DEF RingInv, SlotsInv
  <2> QED BY Zenon, <2>3, <2>4
<1>8. PublishingInv'
  <2> SUFFICES ASSUME NEW q \in Producers, q # p, Publishing(q)
               PROVE  available'[Slot(seq[q])] # seq[q]
    BY Zenon, <1>1, <1>2 DEF RingInv, PublishingInv, Slot
  <2>1. seq[q] # seq[p]
    BY Zenon, <1>2 DEF RingInv, DistinctSequences
  <2>2. Slot(seq[q]) \in Slots /\ available[Slot(seq[q])] # seq[q]
    BY Zenon, PublishingFacts
  <2> QED BY Zenon, <2>1, <2>2, <1>3
<1>9. LoopInv'
  <2> SUFFICES ASSUME loopPC \in {"get", "handler"}
               PROVE  available'[Slot(next)] = next
    BY Zenon, <1>1 DEF RingInv, LoopInv, IsAvailable, Slot, runVars
  <2>1. next \in Int /\ next <= cursor /\ available[Slot(next)] = next /\ gating = next - 1
    BY DEF RingInv, TypeOK, LoopInv, CountersInv, IsAvailable
  <2>2. seq[p] # next
    BY Zenon, <2>1, <1>2, PublishingFacts
  <2>3. gating < next /\ next <= gating + Size
    BY SMTT(60), <2>1, SizeAssumption
  <2>4. Slot(seq[p]) # Slot(next)
    BY Zenon, <2>1, <2>2, <2>3, <1>2, PublishingFacts, SlotInjective
  <2> QED BY Zenon, <2>1, <2>4, <1>3, SlotType
<1>10. DispatchInv'
  <2>1. event[p] \in Events /\ \A f \in Events : outcome'[f] = IF f = event[p] THEN "nil" ELSE outcome[f]
    BY Zenon, <1>1, <1>2, PublishingFacts DEF RingInv, TypeOK
  <2>2. \A q \in Producers : pc'[q] # "idle" => q # p /\ pc[q] # "idle" /\ event[q] # event[p]
    BY Zenon, <1>1 DEF RingInv, DispatchInv
  <2>3. \A q \in Producers : pc'[q] # "idle" =>
          event'[q] \in Events /\ outcome'[event'[q]] = "running"
    BY <1>1, <2>1, <2>2 DEF RingInv, DispatchInv
  <2>4. \A i \in 1 .. Len(claimed') : outcome'[claimed'[i]] \in {"running", "nil"}
    BY <1>1, <2>1, ClaimedType DEF RingInv, DispatchInv
  <2>5. \A q \in Producers :
          pc'[q] \in {"check", "giveUp", "load", "gate", "cas"} => ~InSeq(event'[q], claimed')
    BY Zenon, <1>1 DEF RingInv, DispatchInv, InSeq
  <2>6. \A q, r \in Producers :
          pc'[q] # "idle" /\ pc'[r] # "idle" /\ q # r => event'[q] # event'[r]
    BY Zenon, <1>1, <2>2 DEF RingInv, DispatchInv
  <2> QED BY Zenon, <2>3, <2>4, <2>5, <2>6 DEF DispatchInv, InSeq
<1> QED BY Zenon, <1>4, <1>5, <1>6, <1>7, <1>8, <1>9, <1>10 DEF RingInv

-----------------------------------------------------------------------------
(* Steps that leave every producer alone. *)

(* Steps that touch neither the ring nor the producers nor the histories. *)
LEMMA IdleStep ==
  ASSUME RingInv, TypeOK',
         UNCHANGED <<ringVars, dispatchVars, next, processed, claimed>>,
         (loopPC' = "handler") <=> (loopPC = "handler")
  PROVE  /\ CountersInv' /\ SlotsInv' /\ PublishingInv' /\ DistinctSequences'
         /\ NextInv' /\ HandledInClaimOrder' /\ DispatchInv'
<1> USE DEF RingInv, ringVars, dispatchVars
<1>1. CountersInv' /\ HandledInClaimOrder' /\ SlotsInv'
  BY Zenon DEF CountersInv, HandledInClaimOrder, SlotsInv, Slot
<1>2. PublishingInv' /\ DistinctSequences' /\ NextInv'
  BY Zenon DEF PublishingInv, DistinctSequences, NextInv, Publishing, Slot
<1>3. DispatchInv'
  BY Zenon DEF DispatchInv, InSeq
<1> QED BY Zenon, <1>1, <1>2, <1>3

LEMMA PollContextPreserves ==
  ASSUME RingInv, PollContext
  PROVE  RingInv'
<1>1. TypeOK'
  BY Zenon DEF RingInv, TypeOK, PollContext, ringVars, dispatchVars, closeVars, statVars
<1>2. LoopInv' /\ StatsInv'
  BY Zenon DEF RingInv, LoopInv, StatsInv, PollContext, ringVars, statVars
<1> QED BY Zenon, <1>1, <1>2, IdleStep DEF RingInv, PollContext

LEMMA PollAvailablePreserves ==
  ASSUME RingInv, PollAvailable
  PROVE  RingInv'
<1>1. TypeOK'
  BY Zenon DEF RingInv, TypeOK, PollAvailable, ringVars, dispatchVars, closeVars, statVars
<1>2. StatsInv'
  BY Zenon DEF RingInv, StatsInv, PollAvailable, ringVars, statVars
<1>3. LoopInv'
  <2> SUFFICES ASSUME available[Slot(next)] = next
               PROVE  next <= cursor
    BY Zenon DEF PollAvailable, LoopInv, IsAvailable, ringVars, Slot
  <2>1. next \in Nat /\ Slot(next) \in Slots
    BY SlotType DEF RingInv, TypeOK
  <2> QED BY <2>1 DEF RingInv, SlotsInv
<1> QED BY Zenon, <1>1, <1>2, <1>3, IdleStep DEF RingInv, PollAvailable

(* The read of the slot returns the event that claimed sequence next. *)
LEMMA InvokeHandlerPreserves ==
  ASSUME RingInv, InvokeHandler
  PROVE  /\ RingInv'
         /\ processed' = Append(processed, claimed[next + 1])
         /\ Len(processed) = next /\ next < Len(claimed)
         /\ Len(processed') = next + 1
<1>1. /\ loopPC = "get" /\ loopPC' = "handler"
      /\ processed' = Append(processed, buffer[Slot(next)])
      /\ UNCHANGED <<ringVars, dispatchVars, closeVars, next, statVars, claimed>>
  BY Zenon DEF InvokeHandler, Get
<1>2. /\ next \in Nat /\ cursor \in Int /\ Slot(next) \in Slots
      /\ available[Slot(next)] = next /\ next <= cursor /\ gating = next - 1
      /\ Len(processed) = next /\ Len(claimed) = cursor + 1
  BY <1>1, SlotType, ClaimedType DEF RingInv, TypeOK, LoopInv, CountersInv, IsAvailable
<1>3. buffer[Slot(next)] = claimed[next + 1]
  BY <1>2 DEF RingInv, SlotsInv
<1>4. claimed[next + 1] \in Events
  BY SMTT(60), <1>2, ClaimedType DEF RingInv
<1>5. /\ processed' \in Seq(Events)
      /\ Len(processed') = next + 1
      /\ processed'[next + 1] = claimed[next + 1]
      /\ \A i \in 1 .. next : processed'[i] = processed[i]
  BY <1>1, <1>2, <1>3, <1>4, AppendProperties DEF RingInv, TypeOK
<1>6. TypeOK'
  BY Zenon, <1>1, <1>5 DEF RingInv, TypeOK, ringVars, dispatchVars, closeVars, statVars
<1>7. CountersInv' /\ HandledInClaimOrder'
  BY <1>1, <1>2, <1>5 DEF RingInv, CountersInv, HandledInClaimOrder, ringVars
<1>8. SlotsInv' /\ LoopInv' /\ StatsInv'
  BY Zenon, <1>1, <1>2 DEF RingInv, SlotsInv, LoopInv, StatsInv, IsAvailable, Slot, ringVars, statVars
<1>9. PublishingInv' /\ DistinctSequences' /\ NextInv'
  BY Zenon, <1>1 DEF RingInv, PublishingInv, DistinctSequences, NextInv, Publishing, Slot, ringVars, dispatchVars
<1>10. DispatchInv'
  BY Zenon, <1>1 DEF RingInv, DispatchInv, InSeq, dispatchVars
<1> QED BY <1>1, <1>2, <1>3, <1>5, <1>6, <1>7, <1>8, <1>9, <1>10 DEF RingInv

(* Consume releases a slot no producer is still writing. *)
LEMMA ConsumeSlotPreserves ==
  ASSUME RingInv, ConsumeSlot
  PROVE  RingInv'
<1>1. /\ loopPC = "handler" /\ loopPC' = "poll"
      /\ gating' = next /\ next' = next + 1
      /\ UNCHANGED <<buffer, available, cursor, dispatchVars, closeVars, processed, statVars, claimed>>
  BY Zenon DEF ConsumeSlot, Consume
<1>2. /\ next \in Nat /\ cursor \in Int /\ Size \in Int /\ Size > 0 /\ gating = next - 1
      /\ available[Slot(next)] = next /\ next <= cursor /\ cursor <= gating + Size
  BY <1>1, SizeAssumption DEF RingInv, TypeOK, LoopInv, CountersInv, IsAvailable
<1>3. TypeOK'
  BY <1>1, <1>2 DEF RingInv, TypeOK, dispatchVars, closeVars, statVars
<1>4. CountersInv'
  BY <1>1, <1>2 DEF RingInv, CountersInv
<1>5. HandledInClaimOrder' /\ LoopInv'
  BY Zenon, <1>1 DEF RingInv, HandledInClaimOrder, LoopInv
<1>6. SlotsInv'
  <2>1. \A i \in Slots : available[i] \in Int
    BY Zenon DEF RingInv, TypeOK
  <2> QED BY <1>1, <1>2, <2>1 DEF RingInv, SlotsInv, Slot
<1>7. PublishingInv'
  <2>1. \A q \in Producers : Publishing(q)' <=> Publishing(q)
    BY Zenon, <1>1 DEF Publishing, dispatchVars
  <2> SUFFICES ASSUME NEW q \in Producers, Publishing(q)
               PROVE  next < seq[q]
    BY Zenon, <1>1, <2>1 DEF RingInv, PublishingInv, Slot, dispatchVars
  <2>2. seq[q] # next
    BY Zenon, <1>2, PublishingFacts
  <2> QED BY <1>2, <2>2, PublishingFacts
<1>8. DistinctSequences'
  BY Zenon, <1>1 DEF RingInv, DistinctSequences, Publishing, dispatchVars
<1>9. NextInv' /\ StatsInv'
  <2>1. (\A p \in Producers : seq[p] \in Int) /\ (\A r \in Reporters : statCur[r] \in Int)
    BY Zenon DEF RingInv, TypeOK
  <2> QED BY <1>1, <1>2, <2>1 DEF RingInv, NextInv, StatsInv, dispatchVars, statVars
<1>10. DispatchInv'
  BY Zenon, <1>1 DEF RingInv, DispatchInv, InSeq, dispatchVars
<1> QED BY Zenon, <1>3, <1>4, <1>5, <1>6, <1>7, <1>8, <1>9, <1>10 DEF RingInv

LEMMA ClosePreserves ==
  ASSUME RingInv, Close \/ CloseCancel \/ ParentCancel
  PROVE  RingInv'
<1>1. /\ closed' \in BOOLEAN /\ closing' \in BOOLEAN /\ ctxDone' \in BOOLEAN
      /\ UNCHANGED <<ringVars, dispatchVars, runVars, statVars, claimed, backpressure>>
  BY Zenon DEF RingInv, TypeOK, Close, CloseCancel, ParentCancel
<1>2. TypeOK'
  BY Zenon, <1>1 DEF RingInv, TypeOK, ringVars, dispatchVars, runVars, statVars
<1>3. LoopInv' /\ StatsInv'
  BY Zenon, <1>1 DEF RingInv, LoopInv, StatsInv, IsAvailable, Slot, ringVars, runVars, statVars
<1> QED BY Zenon, <1>1, <1>2, <1>3, IdleStep DEF RingInv, runVars

LEMMA StatsPreserves ==
  ASSUME RingInv, NEW r \in Reporters, StatsLoadCursor(r) \/ StatsLoadGating(r)
  PROVE  RingInv'
<1>1. UNCHANGED <<ringVars, dispatchVars, closeVars, runVars, claimed>>
  BY Zenon DEF StatsLoadCursor, StatsLoadGating
<1>2. /\ cursor \in Int /\ gating \in Int /\ Size \in Nat /\ -1 <= gating
      /\ cursor <= gating + Size
      /\ \A x \in Reporters : statCur[x] \in Int
  BY SizeAssumption DEF RingInv, TypeOK, CountersInv
<1>3. CASE StatsLoadCursor(r)
  <2>1. statCur' = [statCur EXCEPT ![r] = cursor]
    BY Zenon, <1>3 DEF StatsLoadCursor
  <2>2. TypeOK'
    BY Zenon, <1>1, <1>2, <2>1 DEF RingInv, TypeOK, ringVars, dispatchVars, closeVars, runVars
  <2>3. StatsInv'
    BY Zenon, <1>1, <1>2, <2>1 DEF RingInv, TypeOK, StatsInv, ringVars
  <2>4. LoopInv'
    BY Zenon, <1>1 DEF RingInv, LoopInv, IsAvailable, Slot, ringVars, runVars
  <2> QED BY Zenon, <1>1, <2>2, <2>3, <2>4, IdleStep DEF RingInv, runVars
<1>4. CASE StatsLoadGating(r)
  <2>1. statCur' = [statCur EXCEPT ![r] = -2]
    BY Zenon, <1>4 DEF StatsLoadGating
  <2>3. TypeOK'
    BY <1>1, <1>2, <2>1 DEF RingInv, TypeOK, ringVars, dispatchVars, closeVars, runVars
  <2>4. StatsInv'
    BY <1>1, <1>2, <2>1 DEF RingInv, TypeOK, StatsInv, ringVars
  <2>5. LoopInv'
    BY Zenon, <1>1 DEF RingInv, LoopInv, IsAvailable, Slot, ringVars, runVars
  <2> QED BY Zenon, <1>1, <2>3, <2>4, <2>5, IdleStep DEF RingInv, runVars
<1> QED BY Zenon, <1>3, <1>4

-----------------------------------------------------------------------------
LEMMA RingInvStep == RingInv /\ [Next]_vars => RingInv'
<1> SUFFICES ASSUME RingInv, [Next]_vars PROVE RingInv'
  BY Zenon
<1>1. ASSUME NEW p \in Producers, NEW e \in Events, Dispatch(p, e) PROVE RingInv'
  BY Zenon, <1>1, DispatchPreserves
<1>2. ASSUME NEW p \in Producers, DispatchStep(p) PROVE RingInv'
  BY Zenon, <1>2, CheckOpenPreserves, GiveUpPreserves, LoadCursorPreserves, CheckGatingPreserves,
     CASCursorPreserves, PublishStorePreserves, PublishMarkPreserves DEF DispatchStep
<1>3. ASSUME Run PROVE RingInv'
  BY Zenon, <1>3, PollContextPreserves, PollAvailablePreserves, InvokeHandlerPreserves,
     ConsumeSlotPreserves DEF Run
<1>4. ASSUME NEW r \in Reporters, StatsLoadCursor(r) \/ StatsLoadGating(r) PROVE RingInv'
  BY Zenon, <1>4, StatsPreserves
<1>5. CASE UNCHANGED vars
  <2>1. TypeOK'
    BY Zenon, <1>5 DEF vars, RingInv, TypeOK, ringVars, dispatchVars, closeVars, runVars, statVars
  <2>2. LoopInv' /\ StatsInv'
    BY Zenon, <1>5 DEF vars, RingInv, LoopInv, StatsInv, IsAvailable, Slot, ringVars, runVars, statVars
  <2> QED BY Zenon, <1>5, <2>1, <2>2, IdleStep DEF RingInv, vars, runVars
<1> QED BY Zenon, <1>1, <1>2, <1>3, <1>4, <1>5, ClosePreserves DEF Next

(* RingInv holds in every reachable state of the event loop. *)
THEOREM RingInvariant == Spec => []RingInv
BY RingInvInit, RingInvStep, PTL DEF Spec

(* Every handler run() invokes is that of the next claimed event: the loop *)
(* loses, repeats, reorders and tears nothing, for any ring size and any   *)
(* number of producers.                                                    *)
THEOREM ClaimOrder == Spec => []HandledInClaimOrder
<1>1. RingInv => HandledInClaimOrder
  BY Zenon DEF RingInv
<1> QED BY <1>1, RingInvariant, PTL

(* The ring never has more than Size sequences claimed and unconsumed. *)
THEOREM NoOverclaim == Spec => []NeverOverclaimed
<1>1. RingInv => NeverOverclaimed
  BY SizeAssumption DEF RingInv, TypeOK, CountersInv, NeverOverclaimed
<1> QED BY <1>1, RingInvariant, PTL

(* Publish and Get never meet in a slot, nor do two calls of Publish. *)
THEOREM SlotExclusion == Spec => []ExclusiveSlots
<1>1. RingInv => ExclusiveSlots
  <2> SUFFICES ASSUME RingInv PROVE ExclusiveSlots
    BY Zenon
  <2>1. ASSUME NEW p \in Producers, NEW q \in Producers, Publishing(p), Publishing(q), p # q
        PROVE  Slot(seq[p]) # Slot(seq[q])
    <3>1. seq[p] # seq[q]
      BY Zenon, <2>1 DEF RingInv, DistinctSequences
    <3> QED BY Zenon, <2>1, <3>1, PublishingFacts, SlotInjective
  <2>2. ASSUME loopPC = "get", NEW p \in Producers, Publishing(p)
        PROVE  Slot(seq[p]) # Slot(next)
    <3>1. /\ next \in Int /\ available[Slot(next)] = next
          /\ gating < next /\ next <= gating + Size
      BY <2>2, SizeAssumption DEF RingInv, TypeOK, LoopInv, CountersInv, IsAvailable
    <3>2. seq[p] # next
      BY Zenon, <2>2, <3>1, PublishingFacts
    <3> QED BY Zenon, <2>2, <3>1, <3>2, PublishingFacts, SlotInjective
  <2> QED BY Zenon, <2>1, <2>2 DEF ExclusiveSlots
<1> QED BY <1>1, RingInvariant, PTL

(* Both together, as the runs check them. *)
THEOREM SlotsStayInOrder == Spec => []SlotsInOrder
BY ClaimOrder, SlotExclusion, PTL DEF SlotsInOrder

(* Stats never reports a negative queue length or one above the ring size. *)
THEOREM StatsAreSane == Spec => []QueueLengthInRange
<1>1. RingInv => QueueLengthInRange
  <2> SUFFICES ASSUME RingInv, NEW r \in Reporters PROVE QueueLength(r) \in 0 .. Size
    BY Zenon DEF QueueLengthInRange
  <2>1. statCur[r] \in Int /\ gating \in Int /\ Size \in Nat /\ statCur[r] <= gating + Size
    BY Zenon, SizeAssumption DEF RingInv, StatsInv, TypeOK
  <2> QED BY <2>1 DEF QueueLength, AvailableCapacity
<1> QED BY <1>1, RingInvariant, PTL

-----------------------------------------------------------------------------
(* Drop never reaches the Block loop that may return a nil ctx.Err(), and   *)
(* Block reaches that return only when the loop is closed or cancelled.     *)

AnswerInv ==
  /\ backpressure = "Drop" => \A p \in Producers : pc[p] \notin {"check", "giveUp"}
  /\ \A p \in Producers : pc[p] = "giveUp" => closed \/ ctxDone
  /\ \A e \in Events : outcome[e] = "nil" => InSeq(e, claimed) \/ (backpressure = "Block" /\ closed)

LEMMA InSeqClaimed ==
  ASSUME TypeOK, NEW e
  PROVE  InSeq(e, claimed) <=> \E i \in 1 .. Len(claimed) : claimed[i] = e
BY DEF TypeOK, InSeq

LEMMA AnswerInvStep ==
  ASSUME RingInv, AnswerInv, [Next]_vars
  PROVE  AnswerInv'
<1> USE DEF AnswerInv
<1>0. backpressure' = backpressure /\ backpressure \in {"Drop", "Block"}
  BY Zenon DEF Next, vars, closeVars, DispatchStep, Dispatch, CheckOpen, GiveUp, LoadCursor, CheckGating, CASCursor,
         PublishStore, PublishMark, Run, PollContext, PollAvailable, InvokeHandler, ConsumeSlot, Close, CloseCancel,
         ParentCancel, StatsLoadCursor, StatsLoadGating, RingInv, TypeOK
<1>1. ASSUME NEW p \in Producers, NEW e \in Events, Dispatch(p, e) PROVE AnswerInv'
  <2>1. claimed' = claimed /\ closed' = closed /\ ctxDone' = ctxDone
    BY Zenon, <1>1 DEF Dispatch, closeVars
  <2>2. \A q \in Producers : pc'[q] = pc[q] \/ pc'[q] = (IF backpressure = "Drop" THEN "load" ELSE "check")
    BY Zenon, <1>1 DEF Dispatch, Goto, RingInv, TypeOK
  <2>3. \A f \in Events : outcome'[f] = "nil" => outcome[f] = "nil"
    BY Zenon, <1>1 DEF Dispatch, RingInv, TypeOK
  <2> QED BY Zenon, <1>0, <2>1, <2>2, <2>3, "Drop" # "Block" DEF InSeq
<1>2. ASSUME NEW p \in Producers, DispatchStep(p) PROVE AnswerInv'
  <2>0. closed' = closed /\ ctxDone' = ctxDone
    BY ZenonT(60), <1>2 DEF DispatchStep, CheckOpen, GiveUp, LoadCursor, CheckGating, CASCursor, PublishStore,
                PublishMark, closeVars
  <2>1. CASE CheckOpen(p)
    <3>1. claimed' = claimed /\ outcome' = outcome /\ backpressure # "Drop"
      BY Zenon, <2>1 DEF CheckOpen
    <3>2. \A q \in Producers : pc'[q] = "giveUp" => closed \/ ctxDone
      BY Zenon, <2>1 DEF CheckOpen, Goto, RingInv, TypeOK
    <3> QED BY Zenon, <1>0, <2>0, <3>1, <3>2 DEF InSeq
  <2>2. CASE GiveUp(p)
    <3>1. claimed' = claimed /\ backpressure = "Block" /\ (closed \/ ctxDone) /\ event[p] \in Events
      BY Zenon, <1>0, <2>2 DEF GiveUp, RingInv, DispatchInv
    <3>2. \A q \in Producers : pc'[q] = "giveUp" => pc[q] = "giveUp"
      BY Zenon, <2>2 DEF GiveUp, Return, Goto, RingInv, TypeOK
    <3>3. \A f \in Events : outcome'[f] = "nil" => outcome[f] = "nil" \/ closed
      BY Zenon, <2>2, <3>1 DEF GiveUp, Return, RingInv, TypeOK
    <3> QED BY Zenon, <1>0, <2>0, <3>1, <3>2, <3>3 DEF InSeq
  <2>3. CASE LoadCursor(p) \/ PublishStore(p)
    <3>1. claimed' = claimed /\ outcome' = outcome
      BY Zenon, <2>3 DEF LoadCursor, PublishStore
    <3>2. \A q \in Producers : pc'[q] \in {"check", "giveUp"} => pc'[q] = pc[q]
      BY Zenon, <2>3 DEF LoadCursor, PublishStore, Goto, RingInv, TypeOK
    <3> QED BY Zenon, <1>0, <2>0, <3>1, <3>2 DEF InSeq
  <2>4. CASE CheckGating(p)
    <3>1. claimed' = claimed /\ \A f \in Events : outcome'[f] = "nil" => outcome[f] = "nil"
      BY Zenon, <2>4 DEF CheckGating, Return, RingInv, TypeOK
    <3>2. \A q \in Producers : pc'[q] = "giveUp" => pc[q] = "giveUp"
      BY Zenon, <2>4 DEF CheckGating, Goto, Return, RingInv, TypeOK
    <3>3. \A q \in Producers : pc'[q] = "check" => pc[q] = "check" \/ backpressure # "Drop"
      BY Zenon, <2>4 DEF CheckGating, Goto, Return, RingInv, TypeOK
    <3> QED BY Zenon, <1>0, <2>0, <3>1, <3>2, <3>3 DEF InSeq
  <2>5. CASE CASCursor(p)
    <3>1. outcome' = outcome /\ \A q \in Producers : pc'[q] \in {"check", "giveUp"} => pc'[q] = pc[q]
      BY Zenon, <2>5 DEF CASCursor, Goto, RingInv, TypeOK
    <3>2. CASE claimed' = claimed
      BY Zenon, <1>0, <2>0, <3>1, <3>2 DEF InSeq
    <3>3. CASE claimed' = Append(claimed, event[p])
      <4>1. RingInv'
        BY Zenon, <2>5, CASCursorPreserves
      <4>2. event[p] \in Events
        BY Zenon, <2>5 DEF RingInv, DispatchInv, CASCursor
      <4>3. /\ Len(claimed) \in Nat /\ Len(claimed') = Len(claimed) + 1
            /\ \A i \in 1 .. Len(claimed) : claimed'[i] = claimed[i]
        BY <3>3, <4>2, AppendProperties, ClaimedType DEF RingInv, TypeOK
      <4>4. \A e \in Events : InSeq(e, claimed) => InSeq(e, claimed')
        <5> SUFFICES ASSUME NEW e \in Events, InSeq(e, claimed) PROVE InSeq(e, claimed')
          BY Zenon
        <5>1. PICK i \in 1 .. Len(claimed) : claimed[i] = e
          BY Zenon, InSeqClaimed DEF RingInv
        <5>2. i \in 1 .. Len(claimed') /\ claimed'[i] = e
          BY <4>3, <5>1
        <5>3. DOMAIN claimed' = 1 .. Len(claimed')
          BY <4>1 DEF RingInv, TypeOK
        <5> QED BY Zenon, <5>2, <5>3 DEF InSeq
      <4> QED BY Zenon, <1>0, <2>0, <3>1, <4>4
    <3> QED BY Zenon, <2>5, <3>2, <3>3 DEF CASCursor
  <2>6. CASE PublishMark(p)
    <3>1. /\ claimed' = claimed /\ outcome' = [outcome EXCEPT ![event[p]] = "nil"]
          /\ pc' = [pc EXCEPT ![p] = "idle"] /\ Publishing(p)
      BY Zenon, <2>6 DEF PublishMark, Goto, Return, Publishing
    <3>2. InSeq(event[p], claimed)
      <4>1. seq[p] \in Int /\ 0 <= seq[p] /\ seq[p] <= cursor /\ claimed[seq[p] + 1] = event[p]
        BY <3>1, PublishingFacts
      <4>2. seq[p] + 1 \in 1 .. Len(claimed)
        BY <4>1, ClaimedType DEF RingInv, CountersInv
      <4> QED BY Zenon, <4>1, <4>2, InSeqClaimed DEF RingInv
    <3>3. \A q \in Producers : pc'[q] \in {"check", "giveUp"} => pc'[q] = pc[q]
      BY Zenon, <3>1 DEF RingInv, TypeOK
    <3>4. \A e \in Events : outcome'[e] = "nil" => InSeq(e, claimed) \/ outcome[e] = "nil"
      BY Zenon, <3>1, <3>2 DEF RingInv, TypeOK
    <3> QED BY Zenon, <1>0, <2>0, <3>1, <3>3, <3>4 DEF InSeq
  <2> QED BY Zenon, <1>2, <2>1, <2>2, <2>3, <2>4, <2>5, <2>6 DEF DispatchStep
<1>3. CASE UNCHANGED <<pc, outcome, claimed>> /\ (closed => closed') /\ (ctxDone => ctxDone')
  BY Zenon, <1>0, <1>3 DEF InSeq
<1>4. ASSUME Run PROVE UNCHANGED <<pc, outcome, claimed, closed, ctxDone>>
  BY Zenon, <1>4 DEF Run, PollContext, PollAvailable, InvokeHandler, ConsumeSlot, dispatchVars, closeVars
<1>5. ASSUME Close \/ CloseCancel \/ ParentCancel
      PROVE  UNCHANGED <<pc, outcome, claimed>> /\ (closed => closed') /\ (ctxDone => ctxDone')
  BY <1>5 DEF Close, CloseCancel, ParentCancel, dispatchVars
<1>6. ASSUME NEW r \in Reporters, StatsLoadCursor(r) \/ StatsLoadGating(r)
      PROVE  UNCHANGED <<pc, outcome, claimed, closed, ctxDone>>
  BY Zenon, <1>6 DEF StatsLoadCursor, StatsLoadGating, dispatchVars, closeVars
<1>7. CASE UNCHANGED vars
  BY Zenon, <1>7, <1>3 DEF vars, dispatchVars, closeVars
<1> QED BY Zenon, <1>1, <1>2, <1>3, <1>4, <1>5, <1>6, <1>7 DEF Next

(* What Dispatch returns is true: nil means the event has a slot in the     *)
(* ring, an error means it never will have one; only a Block loop that is   *)
(* closed and not yet cancelled answers nil for an event it dropped.        *)
THEOREM AnswersAreTrue == Spec => []DispatchAnswerIsTrue
<1>1. NewEventLoop => AnswerInv
  BY Zenon DEF NewEventLoop, AnswerInv
<1>2. RingInv /\ AnswerInv /\ [Next]_vars => AnswerInv'
  BY Zenon, AnswerInvStep
<1>3. RingInv /\ AnswerInv => DispatchAnswerIsTrue
  <2> SUFFICES ASSUME RingInv, AnswerInv, NEW e \in Events, InSeq(e, claimed)
               PROVE  outcome[e] \in {"running", "nil"}
    BY Zenon DEF DispatchAnswerIsTrue, AnswerInv
  <2>1. PICK i \in 1 .. Len(claimed) : claimed[i] = e
    BY Zenon, InSeqClaimed DEF RingInv
  <2> QED BY Zenon, <2>1 DEF RingInv, DispatchInv
<1> QED BY <1>1, <1>2, <1>3, RingInvariant, PTL DEF Spec

-----------------------------------------------------------------------------
(* Refinement: the loop implements the bounded FIFO queue of EventQueue.   *)

Pending == SubSeq(claimed, Len(processed) + 1, Len(claimed))

LEMMA PendingProperties ==
  ASSUME RingInv
  PROVE  /\ Pending \in Seq(Events)
         /\ Len(processed) \in Nat /\ Len(claimed) \in Nat /\ Len(processed) <= Len(claimed)
         /\ Len(Pending) = Len(claimed) - Len(processed)
         /\ \A i \in 1 .. Len(Pending) : Pending[i] = claimed[Len(processed) + i]
<1>1. /\ Len(processed) \in Nat /\ Len(claimed) \in Nat /\ Len(processed) <= Len(claimed)
      /\ \A i \in 1 .. Len(claimed) : claimed[i] \in Events
  BY ClaimedType DEF RingInv, TypeOK, HandledInClaimOrder
<1>2. \A i \in Len(processed) + 1 .. Len(claimed) : claimed[i] \in Events
  BY <1>1
<1> DEFINE a == Len(processed) + 1
           b == Len(claimed)
<1>3. a \in Int /\ b \in Int /\ b - a + 1 = Len(claimed) - Len(processed)
  BY <1>1
<1>4. /\ Pending \in Seq(Events)
      /\ Len(Pending) = IF a <= b THEN b - a + 1 ELSE 0
      /\ \A i \in 1 .. b - a + 1 : Pending[i] = claimed[a + i - 1]
  BY <1>2, <1>3, SubSeqProperties DEF Pending
<1>5. Len(Pending) = Len(claimed) - Len(processed)
  <2>1. CASE Len(processed) < Len(claimed)
    <3>1. a <= b
      BY <1>1, <2>1
    <3> QED BY Zenon, <1>3, <1>4, <3>1
  <2>2. CASE Len(processed) = Len(claimed)
    <3>1. ~(a <= b) /\ Len(claimed) - Len(processed) = 0
      BY <1>1, <2>2
    <3> QED BY Zenon, <1>4, <3>1
  <2> QED BY <1>1, <2>1, <2>2
<1>6. \A i \in 1 .. Len(Pending) : a + i - 1 = Len(processed) + i
  BY <1>1, <1>5
<1> QED BY ZenonT(60), <1>1, <1>3, <1>4, <1>5, <1>6

(* Claiming a sequence is accepting the event. *)
LEMMA CASAccepts ==
  ASSUME RingInv, NEW p \in Producers, CASCursor(p)
  PROVE  Queue!Accept(event[p]) \/ UNCHANGED <<Pending, processed>>
<1>1. CASE ~CASSucceeds(seq[p])
  BY Zenon, <1>1 DEF CASCursor, Pending, runVars
<1>2. CASE CASSucceeds(seq[p])
  <2>1. /\ claimed' = Append(claimed, event[p]) /\ processed' = processed
        /\ event[p] \in Events
    BY Zenon, <1>2 DEF RingInv, DispatchInv, CASCursor, runVars
  <2>2. RingInv'
    BY Zenon, CASCursorPreserves
  <2>3. /\ Len(claimed') = Len(claimed) + 1
        /\ claimed'[Len(claimed) + 1] = event[p]
        /\ \A i \in 1 .. Len(claimed) : claimed'[i] = claimed[i]
    BY <2>1, AppendProperties DEF RingInv, TypeOK
  <2>4. /\ Pending' \in Seq(Events)
        /\ Len(Pending') = Len(claimed') - Len(processed')
        /\ \A i \in 1 .. Len(Pending') : Pending'[i] = claimed'[Len(processed') + i]
    <3>1. RingInv' => (/\ Pending \in Seq(Events)
                       /\ Len(Pending) = Len(claimed) - Len(processed)
                       /\ \A i \in 1 .. Len(Pending) : Pending[i] = claimed[Len(processed) + i])'
      BY PendingProperties, PTL
    <3> QED BY Zenon, <2>2, <3>1
  <2> DEFINE new == Append(Pending, event[p])
  <2>5. /\ new \in Seq(Events) /\ Len(new) = Len(Pending) + 1
        /\ \A i \in 1 .. Len(Pending) : new[i] = Pending[i]
        /\ new[Len(Pending) + 1] = event[p]
    BY <2>1, PendingProperties, AppendProperties
  <2> HIDE DEF new
  <2>6. Len(Pending') = Len(new)
    <3>1. Len(Pending') = (Len(claimed) + 1) - Len(processed)
      BY Zenon, <2>1, <2>3, <2>4
    <3>2. Len(new) = (Len(claimed) - Len(processed)) + 1
      BY Zenon, <2>5, PendingProperties
    <3> QED BY <3>1, <3>2, PendingProperties
  <2>7. \A i \in 1 .. Len(Pending') : Pending'[i] = new[i]
    <3> SUFFICES ASSUME NEW i \in 1 .. Len(Pending') PROVE Pending'[i] = new[i]
      BY Zenon
    <3>1. Pending'[i] = claimed'[Len(processed) + i]
      BY Zenon, <2>1, <2>4
    <3>2. /\ i \in Nat /\ i >= 1 /\ i <= Len(Pending) + 1
          /\ Len(Pending) \in Nat /\ Len(Pending) = Len(claimed) - Len(processed)
          /\ Len(processed) \in Nat /\ Len(claimed) \in Nat
      BY <2>5, <2>6, PendingProperties, LenProperties
    <3>3. CASE i <= Len(Pending)
      <4>1. i \in 1 .. Len(Pending) /\ Len(processed) + i \in 1 .. Len(claimed)
        BY <3>2, <3>3
      <4>2. Pending[i] = claimed[Len(processed) + i]
        BY Zenon, <4>1, PendingProperties
      <4> QED BY Zenon, <2>3, <2>5, <3>1, <4>1, <4>2
    <3>4. CASE i = Len(Pending) + 1
      <4>1. Len(processed) + i = Len(claimed) + 1
        BY <3>2, <3>4
      <4> QED BY Zenon, <2>3, <2>5, <3>1, <3>4, <4>1
    <3> QED BY <3>2, <3>3, <3>4
  <2>8. Pending' = new
    BY Zenon, <2>4, <2>5, <2>6, <2>7, SeqEqual
  <2>9. Len(Pending) < Size
    <3>1. cursor' <= gating' + Size /\ cursor' = Len(claimed') - 1 /\ gating' = next' - 1
      BY Zenon, <2>2 DEF RingInv, CountersInv
    <3>2. next' = next /\ next \in Nat
      BY Zenon, <1>2 DEF CASCursor, runVars, RingInv, TypeOK
    <3>3. Len(processed) = next \/ Len(processed) = next + 1
      BY Zenon DEF RingInv, CountersInv
    <3>4. Len(claimed) + 1 <= next + Size
      BY <2>3, <3>1, <3>2, PendingProperties, SizeAssumption
    <3> QED BY <3>2, <3>3, <3>4, PendingProperties, SizeAssumption
  <2> QED BY ZenonT(60), <2>1, <2>8, <2>9 DEF Queue!Accept, Pending, new
<1> QED BY Zenon, <1>1, <1>2

(* Invoking a handler is handling the oldest accepted event. *)
LEMMA InvokeHandles ==
  ASSUME RingInv, InvokeHandler
  PROVE  Queue!Handle
<1>1. /\ RingInv' /\ processed' = Append(processed, claimed[next + 1])
      /\ Len(processed) = next /\ next < Len(claimed) /\ claimed' = claimed
      /\ next \in Nat /\ Len(claimed) \in Nat
  BY Zenon, InvokeHandlerPreserves, ClaimedType DEF InvokeHandler, RingInv, TypeOK
<1>2. Len(processed') = next + 1
  BY Zenon, InvokeHandlerPreserves
<1>3. /\ Pending' \in Seq(Events)
      /\ Len(Pending') = Len(claimed') - Len(processed')
      /\ \A i \in 1 .. Len(Pending') : Pending'[i] = claimed'[Len(processed') + i]
  <2>1. RingInv' => (/\ Pending \in Seq(Events)
                     /\ Len(Pending) = Len(claimed) - Len(processed)
                     /\ \A i \in 1 .. Len(Pending) : Pending[i] = claimed[Len(processed) + i])'
    BY PendingProperties, PTL
  <2> QED BY Zenon, <1>1, <2>1
<1>4. Pending # <<>> /\ Head(Pending) = claimed[next + 1]
  BY <1>1, PendingProperties
<1>5. /\ Tail(Pending) \in Seq(Events) /\ Len(Tail(Pending)) = Len(Pending) - 1
      /\ \A i \in 1 .. Len(Tail(Pending)) : Tail(Pending)[i] = Pending[i + 1]
  BY Zenon, <1>4, PendingProperties, HeadTailProperties
<1>6. Len(Pending') = Len(Tail(Pending))
  <2>1. Len(Pending') = Len(claimed) - (next + 1)
    BY Zenon, <1>1, <1>2, <1>3
  <2>2. Len(Tail(Pending)) = (Len(claimed) - next) - 1
    BY Zenon, <1>1, <1>5, PendingProperties
  <2> QED BY <1>1, <2>1, <2>2
<1>7. \A i \in 1 .. Len(Pending') : Pending'[i] = Tail(Pending)[i]
  <2> SUFFICES ASSUME NEW i \in 1 .. Len(Pending') PROVE Pending'[i] = Tail(Pending)[i]
    BY Zenon
  <2>1. Pending'[i] = claimed[next + 1 + i]
    BY Zenon, <1>1, <1>2, <1>3
  <2>2. Tail(Pending)[i] = Pending[i + 1] /\ i + 1 \in 1 .. Len(Pending) /\ i \in Nat
    BY <1>5, <1>6, PendingProperties
  <2>3. Pending[i + 1] = claimed[next + (i + 1)]
    BY Zenon, <1>1, <2>2, PendingProperties
  <2> QED BY <1>1, <2>1, <2>2, <2>3
<1>8. Pending' = Tail(Pending)
  BY Zenon, <1>3, <1>5, <1>6, <1>7, SeqEqual
<1> QED BY Zenon, <1>1, <1>4, <1>8 DEF Queue!Handle, Pending

(* The event loop refines the bounded FIFO queue: in every behaviour,      *)
(* events are accepted only while fewer than Size are waiting and handled  *)
(* exactly once in the order of acceptance.                                *)
THEOREM LoopIsEventQueue == Spec => IsEventQueue
<1>1. NewEventLoop => Queue!QueueInit
  <2> SUFFICES ASSUME NewEventLoop PROVE Queue!QueueInit
    BY Zenon
  <2>1. claimed = <<>> /\ processed = <<>>
    BY Zenon DEF NewEventLoop
  <2>2. SubSeq(claimed, Len(processed) + 1, Len(claimed)) = <<>>
    BY <2>1, SubSeqEmpty
  <2> QED BY Zenon, <2>1, <2>2 DEF Queue!QueueInit
<1>2. RingInv /\ [Next]_vars => [Queue!QueueNext]_(Queue!queueVars)
  <2> SUFFICES ASSUME RingInv, [Next]_vars
               PROVE  Queue!QueueNext \/ UNCHANGED <<Pending, processed>>
    BY Zenon DEF Queue!queueVars, Pending
  <2>1. ASSUME NEW p \in Producers, CASCursor(p)
        PROVE  Queue!QueueNext \/ UNCHANGED <<Pending, processed>>
    <3>1. event[p] \in Events
      BY Zenon, <2>1 DEF RingInv, DispatchInv, CASCursor
    <3> QED BY Zenon, <2>1, <3>1, CASAccepts DEF Queue!QueueNext
  <2>2. CASE InvokeHandler
    BY Zenon, <2>2, InvokeHandles DEF Queue!QueueNext
  <2>3. CASE UNCHANGED <<claimed, processed>>
    BY Zenon, <2>3 DEF Pending
  <2>4. ASSUME NEW p \in Producers, NEW e \in Events, Dispatch(p, e)
        PROVE  UNCHANGED <<claimed, processed>>
    BY Zenon, <2>4 DEF Dispatch, runVars
  <2>5. ASSUME NEW p \in Producers, DispatchStep(p)
        PROVE  CASCursor(p) \/ UNCHANGED <<claimed, processed>>
    BY Zenon, <2>5 DEF DispatchStep, CheckOpen, GiveUp, LoadCursor, CheckGating, PublishStore,
                PublishMark, runVars
  <2>6. ASSUME Run PROVE InvokeHandler \/ UNCHANGED <<claimed, processed>>
    BY Zenon, <2>6 DEF Run, PollContext, PollAvailable, ConsumeSlot
  <2>7. ASSUME Close \/ CloseCancel \/ ParentCancel
        PROVE  UNCHANGED <<claimed, processed>>
    BY Zenon, <2>7 DEF Close, CloseCancel, ParentCancel, runVars
  <2>8. ASSUME NEW r \in Reporters, StatsLoadCursor(r) \/ StatsLoadGating(r)
        PROVE  UNCHANGED <<claimed, processed>>
    BY Zenon, <2>8 DEF StatsLoadCursor, StatsLoadGating, runVars
  <2>9. CASE UNCHANGED vars
    BY Zenon, <2>9, <2>3 DEF vars, runVars
  <2> QED BY Zenon, <2>1, <2>2, <2>3, <2>4, <2>5, <2>6, <2>7, <2>8, <2>9 DEF Next
<1> QED BY <1>1, <1>2, RingInvariant, PTL DEF Spec, IsEventQueue, Queue!QueueSpec
=============================================================================
