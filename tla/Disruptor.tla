----------------------------- MODULE Disruptor -----------------------------
(***************************************************************************)
(* pkg/hft/protocol/disruptor.go: a ring buffer that many producers claim  *)
(* slots of with a CAS on cursor and one EventProcessor reads in order.    *)
(* An action is one atomic operation.  An event is the pair of its         *)
(* producer and that producer's count.  BatchPublisher.Flush is a sequence *)
(* of claims and publications that stops at the first full answer.         *)
(***************************************************************************)
EXTENDS Integers

CONSTANTS Producers,
          BufferSize,     \* bufferSize, a power of two
          MaxSequence     \* bound on the sequences claimed

ASSUME DisruptorAssumption == BufferSize \in Nat \ {0} /\ MaxSequence \in Nat

VARIABLES slots,          \* buffer: [0 .. BufferSize - 1 -> event]
          available,      \* [0 .. BufferSize - 1 -> Int]
          cursor, gating,
          claimPC,        \* where each producer is
          claim,          \* the sequence it has read or claimed
          readerPC,       \* where run is: "waiting", "reading", "consuming" or "stopped"
          nextSeq,        \* next of run
          fetched,        \* the producer whose event Get returned last
          owner           \* history: the producer of every claimed sequence

ringVars == <<slots, available, cursor, gating, claimPC, claim, readerPC, nextSeq, fetched, owner>>

NoEvent == <<>>
Slot(s) == s % BufferSize
Event(p, s) == <<p, s>>

NewRingBuffer ==
  /\ slots = [i \in 0 .. BufferSize - 1 |-> NoEvent]
  /\ available = [i \in 0 .. BufferSize - 1 |-> -1]
  /\ cursor = -1 /\ gating = -1
  /\ claimPC = [p \in Producers |-> "idle"] /\ claim = [p \in Producers |-> -1]
  /\ readerPC = "waiting" /\ nextSeq = 0 /\ fetched = NoEvent
  /\ owner = [s \in 0 .. MaxSequence |-> NoEvent]

ClaimGoto(p, pc) == claimPC' = [claimPC EXCEPT ![p] = pc]

LoadCursor(p) ==
  /\ claimPC[p] = "idle" /\ cursor < MaxSequence
  /\ claim' = [claim EXCEPT ![p] = cursor + 1] /\ ClaimGoto(p, "loaded")
  /\ UNCHANGED <<slots, available, cursor, gating, readerPC, nextSeq, fetched, owner>>

\* Mutant: the slot still in use counts as free.
CheckGatingOff(p) ==
  /\ claimPC[p] = "loaded"
  /\ ClaimGoto(p, IF claim[p] - BufferSize > gating + 1 THEN "idle" ELSE "checked")
  /\ UNCHANGED <<slots, available, cursor, gating, claim, readerPC, nextSeq, fetched, owner>>

\* The overflow check of Next, which answers -1 when the buffer is full.
CheckGating(p) ==
  /\ claimPC[p] = "loaded"
  /\ ClaimGoto(p, IF claim[p] - BufferSize > gating THEN "idle" ELSE "checked")
  /\ UNCHANGED <<slots, available, cursor, gating, claim, readerPC, nextSeq, fetched, owner>>

\* The CAS: a producer that lost starts over.
ClaimSequence(p) ==
  /\ claimPC[p] = "checked"
  /\ IF cursor = claim[p] - 1
     THEN /\ cursor' = claim[p] /\ ClaimGoto(p, "claimed")
          /\ owner' = [owner EXCEPT ![claim[p]] = Event(p, claim[p])]
     ELSE ClaimGoto(p, "idle") /\ UNCHANGED <<cursor, owner>>
  /\ UNCHANGED <<slots, available, gating, claim, readerPC, nextSeq, fetched>>

\* Publish, in its two stores.
StoreEvent(p) ==
  /\ claimPC[p] = "claimed" /\ ClaimGoto(p, "stored")
  /\ slots' = [slots EXCEPT ![Slot(claim[p])] = Event(p, claim[p])]
  /\ UNCHANGED <<available, cursor, gating, claim, readerPC, nextSeq, fetched, owner>>

MarkAvailable(p) ==
  /\ claimPC[p] = "stored" /\ ClaimGoto(p, "idle")
  /\ available' = [available EXCEPT ![Slot(claim[p])] = claim[p]]
  /\ UNCHANGED <<slots, cursor, gating, claim, readerPC, nextSeq, fetched, owner>>

WaitFor ==
  /\ readerPC = "waiting" /\ available[Slot(nextSeq)] = nextSeq /\ readerPC' = "reading"
  /\ UNCHANGED <<slots, available, cursor, gating, claimPC, claim, nextSeq, fetched, owner>>

\* Get and the handler.
GetEvent ==
  /\ readerPC = "reading" /\ readerPC' = "consuming" /\ fetched' = slots[Slot(nextSeq)]
  /\ UNCHANGED <<slots, available, cursor, gating, claimPC, claim, nextSeq, owner>>

Consume ==
  /\ readerPC = "consuming" /\ readerPC' = "waiting"
  /\ gating' = nextSeq /\ nextSeq' = nextSeq + 1
  /\ UNCHANGED <<slots, available, cursor, claimPC, claim, fetched, owner>>

StopProcessor ==
  /\ readerPC = "waiting" /\ readerPC' = "stopped"
  /\ UNCHANGED <<slots, available, cursor, gating, claimPC, claim, nextSeq, fetched, owner>>

ProducerStep(p) ==
  LoadCursor(p) \/ CheckGating(p) \/ ClaimSequence(p) \/ StoreEvent(p) \/ MarkAvailable(p)
ReaderStep == WaitFor \/ GetEvent \/ Consume

DisruptorNext == ReaderStep \/ StopProcessor \/ \E p \in Producers : ProducerStep(p)

DisruptorSpec == NewRingBuffer /\ [][DisruptorNext]_ringVars
-----------------------------------------------------------------------------
(***************************************************************************)
(* The processor sees what the producers claimed: the event it handles for *)
(* a sequence is the one of the producer that claimed that sequence, never *)
(* a later or an earlier one of the slot, however the claims, the two      *)
(* stores of Publish and the reads interleave.                             *)
(***************************************************************************)
ReadsWhatWasClaimed ==
  /\ readerPC = "consuming" => fetched = owner[nextSeq] /\ fetched # NoEvent
  /\ readerPC = "reading" => slots[Slot(nextSeq)] = owner[nextSeq]

(* The inductive invariant behind it.                                      *)
Indexes == 0 .. BufferSize - 1

DisruptorTypeOK ==
  /\ slots \in [Indexes -> {NoEvent} \cup Producers \X Int] /\ available \in [Indexes -> Int]
  /\ cursor \in -1 .. MaxSequence /\ gating \in Int /\ nextSeq \in Nat
  /\ claimPC \in [Producers -> {"idle", "loaded", "checked", "claimed", "stored"}]
  /\ claim \in [Producers -> Int]
  /\ readerPC \in {"waiting", "reading", "consuming", "stopped"}
  /\ owner \in [0 .. MaxSequence -> {NoEvent} \cup Producers \X Int]

(* Claimed and unconsumed sequences fit into the buffer, and have owners.  *)
RingInv ==
  /\ gating = nextSeq - 1 /\ gating <= cursor /\ cursor - BufferSize <= gating
  /\ \A s \in 0 .. cursor : owner[s] # NoEvent

(* What a producer knows of the sequence it has read, checked or claimed.  *)
Publishing(p) == claimPC[p] \in {"claimed", "stored"}
ClaimsInv ==
  \A p \in Producers :
    /\ claimPC[p] \in {"loaded", "checked"} => claim[p] \in 0 .. MaxSequence
    /\ claimPC[p] = "checked" => claim[p] - BufferSize <= gating
    /\ Publishing(p) => /\ gating < claim[p] /\ claim[p] <= cursor /\ owner[claim[p]] = Event(p, claim[p])
                        /\ available[Slot(claim[p])] # claim[p]
    /\ claimPC[p] = "stored" => slots[Slot(claim[p])] = Event(p, claim[p])

(* A slot marked with an unconsumed sequence holds the event of its owner. *)
PublishedInv ==
  \A i \in Indexes :
    /\ available[i] <= cursor
    /\ available[i] > gating => Slot(available[i]) = i /\ slots[i] = owner[available[i]]

ReaderInv ==
  /\ readerPC \in {"reading", "consuming"} => available[Slot(nextSeq)] = nextSeq
  /\ readerPC = "consuming" => fetched = slots[Slot(nextSeq)]

DisruptorInv == DisruptorTypeOK /\ RingInv /\ ClaimsInv /\ PublishedInv /\ ReaderInv
=============================================================================
