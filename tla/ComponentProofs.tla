-------------------------- MODULE ComponentProofs ---------------------------
(***************************************************************************)
(* Theorems about Disruptor, BaseServer, Links, Scheduler, Brokers,        *)
(* Supervisor and RuntimeServices.                                         *)
(***************************************************************************)
EXTENDS BaseServer, Links, Disruptor, Supervisor, Scheduler, Brokers, RuntimeServices, TLAPS

(* A count that goes up by one in one place stays a count. *)
LEMMA OneMore ==
  ASSUME NEW S, NEW f \in [S -> Nat], NEW c \in S
  PROVE  [f EXCEPT ![c] = @ + 1] \in [S -> Nat]
  OBVIOUS
-----------------------------------------------------------------------------
(***************************************************************************)
(* The event processor reads what was claimed, for any number of producers *)
(* and any size of the buffer.                                             *)
(***************************************************************************)

(* Two sequences of one window of BufferSize never share a slot. *)
LEMMA WindowInjective ==
  ASSUME NEW a \in Int, NEW b \in Int, NEW g \in Int,
         g < a, a <= g + BufferSize, g < b, b <= g + BufferSize, Slot(a) = Slot(b)
  PROVE  a = b
  <1> DEFINE qa == a \div BufferSize
             qb == b \div BufferSize
  <1>1. BufferSize \in Int /\ BufferSize > 0
    BY DisruptorAssumption
  <1>2. qa \in Int /\ qb \in Int /\ a = BufferSize * qa + (a % BufferSize) /\ b = BufferSize * qb + (b % BufferSize)
    BY <1>1
  <1> HIDE DEF qa, qb
  <1>3. a - b = BufferSize * (qa - qb)
    BY <1>1, <1>2 DEF Slot
  <1>4. CASE qa > qb
    <2>1. BufferSize * (qa - qb) >= BufferSize
      BY <1>1, <1>2, <1>4
    <2> QED
      BY <2>1, <1>1, <1>3
  <1>5. CASE qa < qb
    <2>1. BufferSize * (qa - qb) <= -BufferSize
      BY <1>1, <1>2, <1>5
    <2> QED
      BY <2>1, <1>1, <1>3
  <1> QED
    BY <1>1, <1>2, <1>3, <1>4, <1>5

LEMMA SlotIndex ==
  ASSUME NEW s \in Int
  PROVE  Slot(s) \in Indexes
  BY DisruptorAssumption DEF Slot, Indexes

LEMMA DisruptorInit == NewRingBuffer => DisruptorInv
  <1> SUFFICES ASSUME NewRingBuffer PROVE DisruptorInv
    BY Zenon
  <1>1. DisruptorTypeOK
    BY DisruptorAssumption DEF NewRingBuffer, DisruptorTypeOK, Indexes
  <1>2. RingInv
    BY DisruptorAssumption DEF NewRingBuffer, RingInv
  <1>3. ClaimsInv /\ ReaderInv
    BY Zenon DEF NewRingBuffer, ClaimsInv, ReaderInv, Publishing
  <1>4. PublishedInv
    BY DEF NewRingBuffer, PublishedInv, Indexes
  <1> QED
    BY Zenon, <1>1, <1>2, <1>3, <1>4 DEF DisruptorInv

(* The steps of Next before the CAS touch nothing but the producer itself. *)
LEMMA NextKeeps ==
  ASSUME DisruptorInv, NEW p \in Producers, LoadCursor(p) \/ CheckGating(p)
  PROVE  DisruptorInv'
  <1>1. UNCHANGED <<slots, available, cursor, gating, readerPC, nextSeq, fetched, owner>>
    BY Zenon DEF LoadCursor, CheckGating
  <1>2. DisruptorTypeOK'
    <2>1. /\ claimPC' \in [Producers -> {"idle", "loaded", "checked", "claimed", "stored"}]
          /\ claim' \in [Producers -> Int]
      BY DEF LoadCursor, CheckGating, ClaimGoto, DisruptorInv, DisruptorTypeOK
    <2> QED
      BY Zenon, <2>1, <1>1 DEF DisruptorInv, DisruptorTypeOK
  <1>3. \A q \in Producers : q # p => claimPC'[q] = claimPC[q] /\ claim'[q] = claim[q]
    BY Zenon DEF LoadCursor, CheckGating, ClaimGoto, DisruptorInv, DisruptorTypeOK
  <1>4. CASE LoadCursor(p)
    <2>1. claimPC'[p] = "loaded" /\ claim'[p] \in 0 .. MaxSequence
      BY <1>4, DisruptorAssumption DEF LoadCursor, ClaimGoto, DisruptorInv, DisruptorTypeOK
    <2>2. ClaimsInv'
      BY Zenon, <2>1, <1>1, <1>3 DEF DisruptorInv, ClaimsInv, Publishing, Slot, Event
    <2> QED
      BY Zenon, <1>1, <1>2, <2>2 DEF DisruptorInv, RingInv, PublishedInv, ReaderInv, Slot
  <1>5. CASE CheckGating(p)
    <2>1. /\ claimPC[p] = "loaded" /\ claim' = claim
          /\ claimPC'[p] = "idle" \/ (claimPC'[p] = "checked" /\ claim[p] - BufferSize <= gating)
      BY <1>5, DisruptorAssumption DEF CheckGating, ClaimGoto, DisruptorInv, DisruptorTypeOK
    <2>2. ClaimsInv'
      BY Zenon, <2>1, <1>1, <1>3 DEF DisruptorInv, ClaimsInv, Publishing, Slot, Event
    <2> QED
      BY Zenon, <1>1, <1>2, <2>2 DEF DisruptorInv, RingInv, PublishedInv, ReaderInv, Slot
  <1> QED
    BY Zenon, <1>4, <1>5

(* The CAS opens a sequence nobody has marked or claimed. *)
LEMMA ClaimKeeps ==
  ASSUME DisruptorInv, NEW p \in Producers, ClaimSequence(p)
  PROVE  DisruptorInv'
  <1>1. /\ claimPC[p] = "checked" /\ claim[p] \in 0 .. MaxSequence /\ claim[p] - BufferSize <= gating
        /\ UNCHANGED <<slots, available, gating, claim, readerPC, nextSeq, fetched>>
        /\ \A q \in Producers : q # p => claimPC'[q] = claimPC[q]
    BY Zenon DEF ClaimSequence, ClaimGoto, DisruptorInv, DisruptorTypeOK, ClaimsInv
  <1>2. CASE cursor # claim[p] - 1
    <2>1. claimPC'[p] = "idle" /\ UNCHANGED <<cursor, owner>> /\ DisruptorTypeOK'
      BY Zenon, <1>2 DEF ClaimSequence, ClaimGoto, DisruptorInv, DisruptorTypeOK
    <2>2. ClaimsInv'
      BY Zenon, <2>1, <1>1 DEF DisruptorInv, ClaimsInv, Publishing, Slot, Event
    <2> QED
      BY Zenon, <2>1, <2>2, <1>1 DEF DisruptorInv, RingInv, PublishedInv, ReaderInv, Slot
  <1>3. CASE cursor = claim[p] - 1
    <2>1. /\ cursor' = claim[p] /\ cursor' = cursor + 1 /\ claimPC'[p] = "claimed"
          /\ owner' = [owner EXCEPT ![claim[p]] = Event(p, claim[p])]
      BY <1>3, <1>1 DEF ClaimSequence, ClaimGoto, DisruptorInv, DisruptorTypeOK
    <2>2. Event(p, claim[p]) \in Producers \X Int /\ Event(p, claim[p]) # NoEvent
      BY <1>1 DEF Event, NoEvent
    <2>3. /\ owner'[claim[p]] = Event(p, claim[p])
          /\ \A s \in 0 .. cursor : owner'[s] = owner[s]
      BY <2>1, <1>1, <1>3 DEF DisruptorInv, DisruptorTypeOK
    <2>4. DisruptorTypeOK'
      <3>1. /\ claimPC' \in [Producers -> {"idle", "loaded", "checked", "claimed", "stored"}]
            /\ cursor' \in -1 .. MaxSequence
        BY <2>1, <1>1 DEF ClaimSequence, ClaimGoto, DisruptorInv, DisruptorTypeOK
      <3>2. owner' \in [0 .. MaxSequence -> {NoEvent} \cup Producers \X Int]
        BY Zenon, <2>1, <2>2 DEF DisruptorInv, DisruptorTypeOK
      <3> QED
        BY Zenon, <3>1, <3>2, <1>1 DEF DisruptorInv, DisruptorTypeOK
    <2>5. RingInv'
      <3>1. \A s \in 0 .. cursor' : s \in 0 .. cursor \/ s = claim[p]
        BY <2>1, <1>1, <1>3 DEF DisruptorInv, DisruptorTypeOK
      <3>2. \A s \in 0 .. cursor' : owner'[s] # NoEvent
        BY Zenon, <3>1, <2>2, <2>3 DEF DisruptorInv, RingInv
      <3> QED
        BY <3>2, <2>1, <1>1, DisruptorAssumption DEF DisruptorInv, DisruptorTypeOK, RingInv
    <2>6. available[Slot(claim[p])] # claim[p]
      BY <1>1, <1>3, SlotIndex DEF DisruptorInv, DisruptorTypeOK, PublishedInv
    <2>7. gating < claim[p]
      BY <1>1, <1>3 DEF DisruptorInv, DisruptorTypeOK, RingInv
    <2>8. ClaimsInv'
      <3> SUFFICES ASSUME NEW q \in Producers
                   PROVE  ClaimsInv!(q)'
        BY Zenon DEF ClaimsInv
      <3>1. CASE q = p
        BY <3>1, <1>1, <2>1, <2>3, <2>6, <2>7 DEF Publishing, Slot
      <3>2. CASE q # p
        <4>1. claimPC'[q] = claimPC[q] /\ claim'[q] = claim[q] /\ claim[q] \in Int
          BY Zenon, <3>2, <1>1 DEF DisruptorInv, DisruptorTypeOK
        <4>2. Publishing(q) => owner'[claim[q]] = owner[claim[q]] /\ claim[q] <= cursor'
          BY <4>1, <2>1, <2>3 DEF DisruptorInv, DisruptorTypeOK, RingInv, ClaimsInv
        <4> QED
          BY Zenon, <4>1, <4>2, <1>1 DEF DisruptorInv, ClaimsInv, Publishing, Slot, Event
      <3> QED
        BY Zenon, <3>1, <3>2
    <2>9. PublishedInv'
      <3> SUFFICES ASSUME NEW i \in Indexes
                   PROVE  /\ available[i] <= cursor'
                          /\ available[i] > gating => Slot(available[i]) = i /\ slots[i] = owner'[available[i]]
        BY Zenon, <1>1 DEF PublishedInv, Slot
      <3>1. available[i] \in Int /\ available[i] <= cursor
        BY Zenon DEF DisruptorInv, DisruptorTypeOK, PublishedInv
      <3>2. available[i] > gating => owner'[available[i]] = owner[available[i]]
        BY <3>1, <2>3 DEF DisruptorInv, DisruptorTypeOK, RingInv
      <3> QED
        BY <3>1, <3>2, <2>1 DEF DisruptorInv, DisruptorTypeOK, PublishedInv
    <2>10. ReaderInv'
      BY Zenon, <1>1 DEF DisruptorInv, ReaderInv, Slot
    <2> QED
      BY Zenon, <2>4, <2>5, <2>8, <2>9, <2>10 DEF DisruptorInv
  <1> QED
    BY Zenon, <1>2, <1>3

(* A producer between its claim and its mark is alone with its slot. *)
LEMMA SlotIsOwn ==
  ASSUME DisruptorInv, NEW p \in Producers, Publishing(p)
  PROVE  /\ claim[p] \in 0 .. cursor /\ Slot(claim[p]) \in Indexes
         /\ available[Slot(claim[p])] <= gating
         /\ readerPC \in {"reading", "consuming"} => Slot(claim[p]) # Slot(nextSeq)
         /\ \A q \in Producers : q # p /\ Publishing(q) => Slot(claim[q]) # Slot(claim[p])
  <1>1. claim[p] \in Int /\ gating < claim[p] /\ claim[p] <= gating + BufferSize /\ claim[p] <= cursor /\ gating \in Int
    BY DisruptorAssumption DEF DisruptorInv, DisruptorTypeOK, RingInv, ClaimsInv
  <1>2. claim[p] \in 0 .. cursor /\ Slot(claim[p]) \in Indexes
    BY <1>1, SlotIndex DEF DisruptorInv, DisruptorTypeOK, RingInv
  <1>3. available[Slot(claim[p])] <= gating
    <2> SUFFICES ASSUME available[Slot(claim[p])] > gating PROVE FALSE
      BY <1>2 DEF DisruptorInv, DisruptorTypeOK
    <2> DEFINE a == available[Slot(claim[p])]
    <2>1. a \in Int /\ a <= cursor /\ Slot(a) = Slot(claim[p])
      BY Zenon, <1>2 DEF DisruptorInv, DisruptorTypeOK, PublishedInv
    <2>2. a <= gating + BufferSize
      BY <2>1, DisruptorAssumption DEF DisruptorInv, DisruptorTypeOK, RingInv
    <2> HIDE DEF a
    <2>3. gating < a
      BY Zenon DEF a
    <2>4. a = claim[p]
      BY Zenon, <2>1, <2>2, <2>3, <1>1, WindowInjective
    <2> QED
      BY Zenon, <2>4 DEF a, DisruptorInv, ClaimsInv
  <1>4. readerPC \in {"reading", "consuming"} => Slot(claim[p]) # Slot(nextSeq)
    BY <1>3 DEF DisruptorInv, DisruptorTypeOK, ReaderInv, RingInv
  <1>5. ASSUME NEW q \in Producers, q # p, Publishing(q)
        PROVE  Slot(claim[q]) # Slot(claim[p])
    <2>1. claim[q] \in Int /\ gating < claim[q] /\ claim[q] <= gating + BufferSize
      BY <1>5, DisruptorAssumption DEF DisruptorInv, DisruptorTypeOK, RingInv, ClaimsInv
    <2>2. claim[q] # claim[p]
      BY <1>5 DEF DisruptorInv, ClaimsInv, Event
    <2> QED
      BY Zenon, <2>1, <2>2, <1>1, WindowInjective
  <1> QED
    BY Zenon, <1>2, <1>3, <1>4, <1>5

LEMMA StoreKeeps ==
  ASSUME DisruptorInv, NEW p \in Producers, StoreEvent(p)
  PROVE  DisruptorInv'
  <1>1. /\ claimPC[p] = "claimed" /\ claimPC'[p] = "stored" /\ Publishing(p)
        /\ UNCHANGED <<available, cursor, gating, claim, readerPC, nextSeq, fetched, owner>>
        /\ \A q \in Producers : q # p => claimPC'[q] = claimPC[q]
    BY Zenon DEF StoreEvent, ClaimGoto, DisruptorInv, DisruptorTypeOK, Publishing
  <1>2. Event(p, claim[p]) \in Producers \X Int
    BY Zenon DEF Event, DisruptorInv, DisruptorTypeOK
  <1>3. DisruptorTypeOK'
    BY Zenon, <1>1, <1>2 DEF StoreEvent, ClaimGoto, DisruptorInv, DisruptorTypeOK
  <1>4. /\ slots'[Slot(claim[p])] = Event(p, claim[p])
        /\ \A i \in Indexes : i # Slot(claim[p]) => slots'[i] = slots[i]
    BY Zenon, <1>1, SlotIsOwn DEF StoreEvent, DisruptorInv, DisruptorTypeOK
  <1>5. ClaimsInv'
    <2> SUFFICES ASSUME NEW q \in Producers PROVE ClaimsInv!(q)'
      BY Zenon DEF ClaimsInv
    <2>1. CASE q = p
      BY Zenon, <2>1, <1>1, <1>4 DEF DisruptorInv, ClaimsInv, Publishing, Slot, Event
    <2>2. CASE q # p /\ ~Publishing(q)
      BY Zenon, <2>2, <1>1 DEF DisruptorInv, ClaimsInv, Publishing, Slot, Event
    <2>3. CASE q # p /\ Publishing(q)
      <3>1. slots'[Slot(claim[q])] = slots[Slot(claim[q])]
        BY Zenon, <2>3, <1>1, <1>4, SlotIsOwn
      <3> QED
        BY Zenon, <2>3, <3>1, <1>1 DEF DisruptorInv, ClaimsInv, Publishing, Slot, Event
    <2> QED
      BY Zenon, <2>1, <2>2, <2>3
  <1>6. PublishedInv'
    <2>1. available[Slot(claim[p])] <= gating
      BY Zenon, <1>1, SlotIsOwn
    <2>2. \A i \in Indexes : available[i] > gating => i # Slot(claim[p])
      BY <2>1 DEF DisruptorInv, DisruptorTypeOK
    <2> QED
      BY Zenon, <2>2, <1>1, <1>4 DEF DisruptorInv, PublishedInv, Slot
  <1>7. ReaderInv'
    <2>1. nextSeq \in Int
      BY DEF DisruptorInv, DisruptorTypeOK
    <2>2. readerPC = "consuming" => slots'[Slot(nextSeq)] = slots[Slot(nextSeq)]
      BY Zenon, <2>1, <1>1, <1>4, SlotIsOwn, SlotIndex
    <2> QED
      BY Zenon, <2>2, <1>1 DEF DisruptorInv, ReaderInv, Slot
  <1> QED
    BY Zenon, <1>1, <1>3, <1>5, <1>6, <1>7 DEF DisruptorInv, RingInv

LEMMA MarkKeeps ==
  ASSUME DisruptorInv, NEW p \in Producers, MarkAvailable(p)
  PROVE  DisruptorInv'
  <1>1. /\ claimPC[p] = "stored" /\ claimPC'[p] = "idle" /\ Publishing(p)
        /\ UNCHANGED <<slots, cursor, gating, claim, readerPC, nextSeq, fetched, owner>>
        /\ \A q \in Producers : q # p => claimPC'[q] = claimPC[q]
    BY Zenon DEF MarkAvailable, ClaimGoto, DisruptorInv, DisruptorTypeOK, Publishing
  <1>2. DisruptorTypeOK'
    BY Zenon, <1>1 DEF MarkAvailable, ClaimGoto, DisruptorInv, DisruptorTypeOK
  <1>3. /\ available'[Slot(claim[p])] = claim[p]
        /\ \A i \in Indexes : i # Slot(claim[p]) => available'[i] = available[i]
    BY Zenon, <1>1, SlotIsOwn DEF MarkAvailable, DisruptorInv, DisruptorTypeOK
  <1>4. ClaimsInv'
    <2> SUFFICES ASSUME NEW q \in Producers PROVE ClaimsInv!(q)'
      BY Zenon DEF ClaimsInv
    <2>1. CASE q = p
      BY Zenon, <2>1, <1>1 DEF Publishing
    <2>2. CASE q # p /\ ~Publishing(q)
      BY Zenon, <2>2, <1>1 DEF DisruptorInv, ClaimsInv, Publishing, Slot, Event
    <2>3. CASE q # p /\ Publishing(q)
      <3>1. available'[Slot(claim[q])] = available[Slot(claim[q])]
        BY Zenon, <2>3, <1>1, <1>3, SlotIsOwn
      <3> QED
        BY Zenon, <2>3, <3>1, <1>1 DEF DisruptorInv, ClaimsInv, Publishing, Slot, Event
    <2> QED
      BY Zenon, <2>1, <2>2, <2>3
  <1>5. PublishedInv'
    <2> SUFFICES ASSUME NEW i \in Indexes
                 PROVE  /\ available'[i] <= cursor
                        /\ available'[i] > gating => Slot(available'[i]) = i /\ slots[i] = owner[available'[i]]
      BY Zenon, <1>1 DEF PublishedInv, Slot
    <2>1. CASE i = Slot(claim[p])
      BY Zenon, <2>1, <1>1, <1>3, SlotIsOwn DEF DisruptorInv, DisruptorTypeOK, ClaimsInv
    <2>2. CASE i # Slot(claim[p])
      BY Zenon, <2>2, <1>3 DEF DisruptorInv, PublishedInv
    <2> QED
      BY Zenon, <2>1, <2>2
  <1>6. ReaderInv'
    <2>1. nextSeq \in Int
      BY DEF DisruptorInv, DisruptorTypeOK
    <2>2. readerPC \in {"reading", "consuming"} => available'[Slot(nextSeq)] = available[Slot(nextSeq)]
      BY Zenon, <2>1, <1>1, <1>3, SlotIsOwn, SlotIndex
    <2> QED
      BY Zenon, <2>2, <1>1 DEF DisruptorInv, ReaderInv, Slot
  <1> QED
    BY Zenon, <1>1, <1>2, <1>4, <1>5, <1>6 DEF DisruptorInv, RingInv

(* The reader moves on only past a sequence that is marked. *)
LEMMA ReaderKeeps ==
  ASSUME DisruptorInv, ReaderStep \/ StopProcessor
  PROVE  DisruptorInv'
  <1>1. CASE WaitFor \/ GetEvent \/ StopProcessor
    <2>1. UNCHANGED <<slots, available, cursor, gating, claimPC, claim, nextSeq, owner>>
      BY Zenon, <1>1 DEF WaitFor, GetEvent, StopProcessor
    <2>2. DisruptorTypeOK' /\ ReaderInv'
      BY Zenon, <1>1, <2>1 DEF WaitFor, GetEvent, StopProcessor, DisruptorInv, DisruptorTypeOK, ReaderInv, Slot
    <2> QED
      BY Zenon, <2>1, <2>2 DEF DisruptorInv, RingInv, ClaimsInv, PublishedInv, Publishing, Slot, Event
  <1>2. CASE Consume
    <2>1. /\ readerPC = "consuming" /\ readerPC' = "waiting" /\ gating' = nextSeq /\ nextSeq' = nextSeq + 1
          /\ UNCHANGED <<slots, available, cursor, claimPC, claim, fetched, owner>>
      BY Zenon, <1>2 DEF Consume
    <2>2. DisruptorTypeOK' /\ ReaderInv'
      BY <2>1 DEF DisruptorInv, DisruptorTypeOK, ReaderInv
    <2>3. nextSeq <= cursor /\ gating' = gating + 1 /\ nextSeq \in Nat
      BY <2>1, SlotIndex DEF DisruptorInv, DisruptorTypeOK, ReaderInv, PublishedInv, RingInv
    <2>4. RingInv'
      BY <2>1, <2>3, DisruptorAssumption DEF DisruptorInv, DisruptorTypeOK, RingInv
    <2>5. \A p \in Producers : Publishing(p) => claim[p] # nextSeq
      BY Zenon, <2>1 DEF DisruptorInv, ClaimsInv, ReaderInv
    <2>6. ClaimsInv'
      <3> SUFFICES ASSUME NEW p \in Producers PROVE ClaimsInv!(p)'
        BY Zenon DEF ClaimsInv
      <3>1. claim[p] \in Int /\ gating \in Int
        BY Zenon DEF DisruptorInv, DisruptorTypeOK
      <3>2. Publishing(p) => gating' < claim[p]
        BY <3>1, <2>1, <2>3, <2>5 DEF DisruptorInv, ClaimsInv, RingInv
      <3>3. claimPC[p] = "checked" => claim[p] - BufferSize <= gating'
        BY <3>1, <2>3, DisruptorAssumption DEF DisruptorInv, ClaimsInv
      <3> QED
        BY Zenon, <3>2, <3>3, <2>1 DEF DisruptorInv, ClaimsInv, Publishing, Slot, Event
    <2>7. PublishedInv'
      <3> SUFFICES ASSUME NEW i \in Indexes
                   PROVE  /\ available[i] <= cursor
                          /\ available[i] > gating' => Slot(available[i]) = i /\ slots[i] = owner[available[i]]
        BY Zenon, <2>1 DEF PublishedInv, Slot
      <3>1. available[i] \in Int /\ gating \in Int
        BY Zenon DEF DisruptorInv, DisruptorTypeOK
      <3> QED
        BY <3>1, <2>3 DEF DisruptorInv, PublishedInv
    <2> QED
      BY Zenon, <2>2, <2>4, <2>6, <2>7 DEF DisruptorInv
  <1> QED
    BY Zenon, <1>1, <1>2 DEF ReaderStep

LEMMA DisruptorStep == DisruptorInv /\ [DisruptorNext]_ringVars => DisruptorInv'
  <1> SUFFICES ASSUME DisruptorInv, [DisruptorNext]_ringVars PROVE DisruptorInv'
    BY Zenon
  <1>1. CASE UNCHANGED ringVars
    BY Zenon, <1>1 DEF ringVars, DisruptorInv, DisruptorTypeOK, RingInv, ClaimsInv, PublishedInv, ReaderInv, Publishing,
                Slot, Event
  <1>2. CASE DisruptorNext
    BY Zenon, <1>2, NextKeeps, ClaimKeeps, StoreKeeps, MarkKeeps, ReaderKeeps DEF DisruptorNext, ProducerStep
  <1> QED
    BY Zenon, <1>1, <1>2

LEMMA ReadsClaimed == DisruptorInv => ReadsWhatWasClaimed
  <1> SUFFICES ASSUME DisruptorInv, readerPC \in {"reading", "consuming"}
               PROVE  slots[Slot(nextSeq)] = owner[nextSeq] /\ owner[nextSeq] # NoEvent
    BY Zenon DEF DisruptorInv, ReaderInv, ReadsWhatWasClaimed
  <1>1. nextSeq \in Nat /\ Slot(nextSeq) \in Indexes /\ available[Slot(nextSeq)] = nextSeq /\ gating = nextSeq - 1
    BY SlotIndex DEF DisruptorInv, DisruptorTypeOK, ReaderInv, RingInv
  <1>2. nextSeq <= cursor /\ slots[Slot(nextSeq)] = owner[nextSeq]
    BY <1>1 DEF DisruptorInv, PublishedInv
  <1> QED
    BY <1>1, <1>2 DEF DisruptorInv, DisruptorTypeOK, RingInv

(* The event handled for a sequence is the one of the producer that        *)
(* claimed it, for any number of producers and any size of the buffer.     *)
THEOREM ProcessorReadsClaims == DisruptorSpec => []ReadsWhatWasClaimed
  BY ReadsClaimed, DisruptorInit, DisruptorStep, PTL DEF DisruptorSpec
-----------------------------------------------------------------------------
(***************************************************************************)
(* Proofs about BaseServer: the start hook is exclusive under every        *)
(* overlap of Start and Stop; as long as no Stop overlaps a start hook,    *)
(* Halted is terminal and the root contexts follow the state.              *)
(***************************************************************************)

LEMMA TypeInit == NewBaseServer => ServerTypeOK
  <1>1. NewBaseServer => overlapped \in BOOLEAN
    BY Zenon DEF NewBaseServer
  <1> QED
    BY <1>1 DEF NewBaseServer, ServerTypeOK, ServerStates

LEMMA StartType ==
  ASSUME ServerTypeOK, NEW s \in Starters, ServerStart(s)
  PROVE  ServerTypeOK'
  <1>1. startCalls' = startCalls + 1 /\ startCalls' \in 1 .. startCalls' /\ startCalls' \in Nat
    BY DEF ServerStart, ServerTypeOK
  <1>2. 0 .. startCalls \subseteq 0 .. startCalls' /\ 1 .. startCalls \subseteq 1 .. startCalls'
    BY <1>1 DEF ServerTypeOK
  <1>3. startCtx' \in [Starters -> 0 .. startCalls'] /\ stopCtx' \in [Stoppers -> 0 .. startCalls']
    BY <1>1, <1>2 DEF ServerStart, ServerTypeOK
  <1>4. /\ server' \in ServerStates /\ stopCalls' \in Nat /\ rootCtx' \in 0 .. startCalls'
        /\ cancelled' \subseteq 1 .. startCalls' /\ starting' \subseteq Starters /\ stopping' \subseteq Stoppers
    BY <1>1, <1>2 DEF ServerStart, ServerTypeOK, ServerStates
  <1>5. \A t \in starting' : startCtx'[t] # 0
    BY <1>1 DEF ServerStart, ServerTypeOK
  <1>6. overlapped' \in BOOLEAN
    BY Zenon DEF ServerStart, ServerTypeOK
  <1> QED
    BY Zenon, <1>1, <1>3, <1>4, <1>5, <1>6 DEF ServerTypeOK

LEMMA TypeNext == ServerTypeOK /\ [ServerNext]_serverVars => ServerTypeOK'
  <1> SUFFICES ASSUME ServerTypeOK, [ServerNext]_serverVars PROVE ServerTypeOK'
    BY Zenon
  <1>0. 0 \in 0 .. startCalls
    BY DEF ServerTypeOK
  <1>1. ASSUME NEW s \in Starters, ServerStart(s) PROVE ServerTypeOK'
    BY Zenon, <1>1, StartType
  <1>2. ASSUME NEW s \in Starters, ServerStarted(s) PROVE ServerTypeOK'
    BY Zenon, <1>2 DEF ServerStarted, ServerTypeOK, ServerStates
  <1>3. ASSUME NEW s \in Starters, ServerStartFails(s) PROVE ServerTypeOK'
    <2>1. startCtx[s] \in 1 .. startCalls
      BY <1>3 DEF ServerStartFails, ServerTypeOK
    <2>2. cancelled' \subseteq 1 .. startCalls
      BY Zenon, <1>3, <2>1 DEF ServerStartFails, ServerTypeOK
    <2> QED
      BY Zenon, <1>0, <1>3, <2>2 DEF ServerStartFails, ServerTypeOK, ServerStates
  <1>4. ASSUME NEW s \in Stoppers, ServerStop(s) PROVE ServerTypeOK'
    <2>1. overlapped' \in BOOLEAN
      BY Zenon, <1>4 DEF ServerStop
    <2> QED
      BY <1>4, <2>1 DEF ServerStop, ServerTypeOK, ServerStates
  <1>5. ASSUME NEW s \in Stoppers, ServerStopped(s) PROVE ServerTypeOK'
    <2>1. {stopCtx[s]} \ {0} \subseteq 1 .. startCalls
      BY <1>5 DEF ServerTypeOK
    <2>2. cancelled' \subseteq 1 .. startCalls
      BY Zenon, <1>5, <2>1 DEF ServerStopped, ServerTypeOK
    <2> QED
      BY Zenon, <1>0, <1>5, <2>2 DEF ServerStopped, ServerTypeOK, ServerStates
  <1>6. CASE UNCHANGED serverVars
    BY Zenon, <1>6 DEF serverVars, ServerTypeOK
  <1> QED
    BY Zenon, <1>1, <1>2, <1>3, <1>4, <1>5, <1>6 DEF ServerNext

(* The start hook runs at most once at a time, for any number of goroutines *)
(* that call Start and Stop in any overlap.                                 *)
THEOREM StartHooksExclude == ServerSpec => []StartHookExclusive
  <1>1. NewBaseServer => StartHookExclusive
    BY Zenon DEF NewBaseServer, StartHookExclusive
  <1>2. ServerTypeOK /\ StartHookExclusive /\ [ServerNext]_serverVars => StartHookExclusive'
    BY Zenon DEF ServerTypeOK, StartHookExclusive, ServerNext, serverVars, ServerStart, MayStart, ServerStartFails,
           ServerStarted, ServerStop, ServerStopped
  <1> QED
    BY <1>1, <1>2, TypeInit, TypeNext, PTL DEF ServerSpec
-----------------------------------------------------------------------------
(* As long as no Stop has overlapped a start hook: one lemma per action.    *)

Ordered == StartHookExclusive /\ ContextFollowsState /\ (~overlapped => OrderInv)

LEMMA OrderInit == NewBaseServer => ServerInv
  BY TypeInit DEF NewBaseServer, ServerInv, StartHookExclusive, ContextFollowsState, OrderInv

LEMMA StartKeeps ==
  ASSUME ServerInv, ~overlapped, ServerTypeOK', NEW s \in Starters, ServerStart(s)
  PROVE  Ordered'
  <1>1. /\ server = "Idle" /\ server' = "Starting" /\ rootCtx' = startCalls' /\ startCalls' = startCalls + 1
        /\ startCalls \in Nat /\ cancelled = 1 .. startCalls /\ cancelled' = cancelled /\ stopCalls' = 0
        /\ starting' = {s} /\ startCtx'[s] = startCalls'
    BY Zenon DEF ServerStart, MayStart, ServerInv, ServerTypeOK, StartHookExclusive, OrderInv
  <1>2. stopping' = {}
    BY Zenon, <1>1 DEF ServerStart, ServerInv, ServerTypeOK, OrderInv
  <1>3. cancelled' = 1 .. (startCalls' - 1) /\ startCalls' > 0
    BY <1>1
  <1> QED
    BY Zenon, <1>1, <1>2, <1>3 DEF Ordered, StartHookExclusive, ContextFollowsState, OrderInv

LEMMA StartFailsKeeps ==
  ASSUME ServerInv, ~overlapped, NEW s \in Starters, ServerStartFails(s)
  PROVE  Ordered'
  <1>1. /\ server = "Starting" /\ server' = "Idle" /\ rootCtx' = 0 /\ startCalls' = startCalls /\ startCtx[s] = startCalls
        /\ startCalls \in Nat /\ cancelled = 1 .. (startCalls - 1) /\ cancelled' = cancelled \cup {startCalls}
        /\ stopCalls' = 0 /\ startCalls > 0
    BY Zenon DEF ServerStartFails, ServerInv, ServerTypeOK, OrderInv
  <1>2. starting' = {}
    BY Zenon DEF ServerStartFails, ServerInv, ServerTypeOK, StartHookExclusive
  <1>3. stopping' = {}
    BY Zenon, <1>1 DEF ServerStartFails, ServerInv, ServerTypeOK, OrderInv
  <1>4. cancelled' = 1 .. startCalls
    BY <1>1
  <1> QED
    BY Zenon, <1>1, <1>2, <1>3, <1>4 DEF Ordered, StartHookExclusive, ContextFollowsState, OrderInv

LEMMA StartedKeeps ==
  ASSUME ServerInv, ~overlapped, NEW s \in Starters, ServerStarted(s)
  PROVE  Ordered'
  <1>1. /\ server = "Starting" /\ server' = "Running" /\ rootCtx' = startCalls /\ startCalls' = startCalls
        /\ startCalls \in Nat /\ cancelled = 1 .. (startCalls - 1) /\ cancelled' = cancelled
        /\ stopCalls' = 0 /\ startCalls > 0
    BY Zenon DEF ServerStarted, ServerInv, ServerTypeOK, OrderInv
  <1>2. starting' = {}
    BY Zenon DEF ServerStarted, ServerInv, ServerTypeOK, StartHookExclusive
  <1>3. stopping' = {}
    BY Zenon, <1>1 DEF ServerStarted, ServerInv, ServerTypeOK, OrderInv
  <1>4. rootCtx' \notin cancelled'
    BY <1>1
  <1> QED
    BY Zenon, <1>1, <1>2, <1>3, <1>4 DEF Ordered, StartHookExclusive, ContextFollowsState, OrderInv

LEMMA StopKeeps ==
  ASSUME ServerInv, ~overlapped, ~overlapped', NEW s \in Stoppers, ServerStop(s)
  PROVE  Ordered'
  <1>1. starting = {} /\ starting' = {}
    BY Zenon DEF ServerStop
  <1>2. /\ server = "Running" /\ server' = "Stopping" /\ rootCtx' = startCalls /\ startCalls' = startCalls
        /\ rootCtx = startCalls /\ cancelled = 1 .. (startCalls - 1) /\ cancelled' = cancelled
        /\ stopCalls = 0 /\ stopCalls' = stopCalls + 1 /\ startCalls > 0
    BY Zenon, <1>1 DEF ServerStop, MayStop, ServerInv, OrderInv
  <1>3. stopping' = {s} /\ stopCtx'[s] = startCalls
    BY Zenon, <1>2 DEF ServerStop, ServerInv, ServerTypeOK, OrderInv
  <1>4. stopCalls' = 1
    BY <1>2
  <1> QED
    BY Zenon, <1>1, <1>2, <1>3, <1>4 DEF Ordered, StartHookExclusive, ContextFollowsState, OrderInv

LEMMA StoppedKeeps ==
  ASSUME ServerInv, ~overlapped, NEW s \in Stoppers, ServerStopped(s)
  PROVE  Ordered'
  <1>1. /\ server = "Stopping" /\ server' = "Halted" /\ rootCtx' = 0 /\ startCalls' = startCalls
        /\ stopCtx[s] = startCalls /\ cancelled = 1 .. (startCalls - 1) /\ startCalls > 0 /\ startCalls \in Nat
        /\ cancelled' = cancelled \cup ({startCalls} \ {0}) /\ stopCalls = 1 /\ stopCalls' = stopCalls
    BY Zenon DEF ServerStopped, ServerInv, ServerTypeOK, OrderInv
  <1>2. starting' = {}
    BY Zenon, <1>1 DEF ServerStopped, ServerInv, ServerTypeOK, OrderInv
  <1>3. stopping' = {}
    BY Zenon DEF ServerStopped, ServerInv, ServerTypeOK, OrderInv
  <1>4. cancelled' = 1 .. startCalls
    BY <1>1
  <1> QED
    BY Zenon, <1>1, <1>2, <1>3, <1>4 DEF Ordered, StartHookExclusive, ContextFollowsState, OrderInv

LEMMA ServerInvStep == ServerInv /\ [ServerNext]_serverVars => ServerInv'
  <1> SUFFICES ASSUME ServerInv, [ServerNext]_serverVars PROVE ServerInv'
    BY Zenon
  <1>1. ServerTypeOK'
    BY Zenon, TypeNext DEF ServerInv
  <1>2. StartHookExclusive'
    BY Zenon DEF ServerInv, ServerTypeOK, StartHookExclusive, ServerNext, serverVars, ServerStart, MayStart,
           ServerStartFails, ServerStarted, ServerStop, ServerStopped
  <1>3. CASE overlapped'
    BY Zenon, <1>1, <1>2, <1>3 DEF ServerInv, ContextFollowsState
  <1>4. CASE ~overlapped'
    <2>1. ~overlapped
      BY Zenon, <1>4 DEF ServerNext, serverVars, ServerStart, ServerStartFails, ServerStarted, ServerStop, ServerStopped
    <2>2. CASE UNCHANGED serverVars
      BY Zenon, <1>1, <1>2, <2>2 DEF serverVars, ServerInv, ContextFollowsState, OrderInv
    <2>3. CASE ServerNext
      <3>1. Ordered'
        BY Zenon, <1>1, <1>4, <2>1, <2>3, StartKeeps, StartFailsKeeps, StartedKeeps, StopKeeps, StoppedKeeps DEF ServerNext
      <3> QED
        BY Zenon, <1>1, <3>1 DEF ServerInv, Ordered
    <2> QED
      BY Zenon, <2>2, <2>3
  <1> QED
    BY Zenon, <1>3, <1>4

(* As long as no Stop overlaps a start hook, a running server has its own   *)
(* live root context and a halted one has cancelled all it created.         *)
THEOREM ContextsFollow == ServerSpec => []ContextFollowsState
  <1>1. ServerInv => ContextFollowsState
    BY Zenon DEF ServerInv
  <1> QED
    BY <1>1, OrderInit, ServerInvStep, PTL DEF ServerSpec

(* Both together, as the runs check them.                                   *)
THEOREM ServersStayExact == ServerSpec => []ServerExact
  BY StartHooksExclude, ContextsFollow, PTL DEF ServerExact

(* As long as no Stop overlaps a start hook, a halted server stays halted.  *)
THEOREM HaltedStays == ServerSpec => HaltedIsTerminal
  <1>1. ServerInv /\ [ServerNext]_serverVars
          => [server = "Halted" /\ ~overlapped => server' = "Halted"]_serverVars
    BY Zenon DEF ServerInv, OrderInv, ServerNext, ServerStart, MayStart, ServerStartFails, ServerStarted, ServerStop,
           MayStop, ServerStopped
  <1> QED
    BY <1>1, OrderInit, ServerInvStep, PTL DEF ServerSpec, HaltedIsTerminal
-----------------------------------------------------------------------------
(***************************************************************************)
(* LinksMutual holds for any number of deployments, monitors and exits.    *)
(***************************************************************************)

LEMMA LinksInit == NewLinkManager => LinksInv
  <1> SUFFICES ASSUME NewLinkManager PROVE LinksInv
    BY Zenon
  <1>1. LinksTypeOK
    BY DEF NewLinkManager, LinksTypeOK
  <1>2. CopiesInv
    BY Zenon DEF NewLinkManager, CopiesInv
  <1>3. \A m \in MonitorRef : m \in monitorRefs <=> m \in monitorsByTarget[m.target]
    BY Zenon DEF NewLinkManager, MonitorRef
  <1>4. TablesAgree
    BY Zenon, <1>3 DEF NewLinkManager, TablesAgree
  <1> QED
    BY Zenon, <1>1, <1>2, <1>4 DEF LinksInv

(* Link and Unlink write both sides, and nothing that NotifyExit reads     *)
(* outside the lock.                                                       *)
LEMMA LinkKeeps ==
  ASSUME LinksInv, NEW a \in Deployments, NEW b \in Deployments, Link(a, b) \/ Unlink(a, b)
  PROVE  LinksInv'
  <1>1. links' \in [Deployments -> SUBSET Deployments]
    BY DEF Link, Unlink, LinksInv, LinksTypeOK
  <1>2. \A x, y \in Deployments : y \in links'[x] <=> x \in links'[y]
    BY DEF Link, Unlink, LinksInv, LinksTypeOK, TablesAgree
  <1>3. UNCHANGED <<monitorsByTarget, monitorRefs, nextRef, notifyPC, toLinked, toMonitors, told>>
    BY ZenonT(60) DEF Link, Unlink, notifying
  <1> QED
    BY <1>1, <1>2, <1>3 DEF LinksInv, LinksTypeOK, CopiesInv, TablesAgree

(* A new reference is one nobody has. *)
LEMMA MonitorKeeps ==
  ASSUME LinksInv, NEW a \in Deployments, NEW b \in Deployments, Monitor(a, b)
  PROVE  LinksInv'
  <1> DEFINE m == [monitorer |-> a, target |-> b, ref |-> nextRef]
  <1>1. m \in MonitorRef /\ m.target = b /\ m.ref = nextRef
    BY LinksAssumption DEF Monitor, MonitorRef, LinksInv, LinksTypeOK
  <1>2. /\ monitorsByTarget' = [monitorsByTarget EXCEPT ![b] = @ \cup {m}]
        /\ monitorRefs' = monitorRefs \cup {m} /\ nextRef' = nextRef + 1
        /\ UNCHANGED <<links, notifyPC, toLinked, toMonitors, told>>
    BY Zenon DEF Monitor, notifying
  <1>3. \A n \in monitorRefs : n \in MonitorRef /\ n.ref < nextRef
    BY ZenonT(60) DEF LinksInv, LinksTypeOK, TablesAgree, MonitorRef
  <1> HIDE DEF m
  <1>4. LinksTypeOK'
    BY <1>1, <1>2 DEF LinksInv, LinksTypeOK
  <1>5. \A n \in MonitorRef : n \in monitorRefs' <=> n \in monitorsByTarget'[n.target]
    BY <1>1, <1>2 DEF LinksInv, LinksTypeOK, TablesAgree, MonitorRef
  <1>6. \A d \in Deployments : \A n \in monitorsByTarget'[d] : n.target = d /\ n.ref < nextRef'
    <2> SUFFICES ASSUME NEW d \in Deployments, NEW n \in monitorsByTarget'[d]
                 PROVE  n.target = d /\ n.ref < nextRef'
      BY Zenon
    <2>1. CASE n \in monitorsByTarget[d]
      <3>1. n \in MonitorRef /\ n.target = d /\ n.ref < nextRef
        BY Zenon, <2>1 DEF LinksInv, LinksTypeOK, TablesAgree
      <3> QED
        BY <3>1, <1>2 DEF MonitorRef, LinksInv, LinksTypeOK
    <2>2. CASE n = m /\ d = b
      BY <2>2, <1>1, <1>2 DEF LinksInv, LinksTypeOK
    <2> QED
      BY Zenon, <2>1, <2>2, <1>2 DEF LinksInv, LinksTypeOK
  <1>7. \A n, o \in monitorRefs' : n.ref = o.ref => n = o
    BY <1>1, <1>2, <1>3 DEF LinksInv, LinksTypeOK, TablesAgree, MonitorRef
  <1> QED
    BY <1>2, <1>4, <1>5, <1>6, <1>7 DEF LinksInv, CopiesInv, TablesAgree

LEMMA DemonitorKeeps ==
  ASSUME LinksInv, NEW m \in monitorRefs, Demonitor(m)
  PROVE  LinksInv'
  <1>1. m \in MonitorRef /\ m.target \in Deployments
    BY Zenon DEF LinksInv, LinksTypeOK, MonitorRef
  <1>2. LinksTypeOK'
    BY Zenon, <1>1 DEF Demonitor, notifying, LinksInv, LinksTypeOK
  <1>3. \A n \in MonitorRef : n \in monitorRefs' <=> n \in monitorsByTarget'[n.target]
    BY <1>1 DEF Demonitor, LinksInv, LinksTypeOK, TablesAgree, MonitorRef
  <1>4. \A d \in Deployments : \A n \in monitorsByTarget'[d] : n.target = d /\ n.ref < nextRef'
    BY <1>1 DEF Demonitor, LinksInv, LinksTypeOK, TablesAgree
  <1>5. \A n, o \in monitorRefs' : n.ref = o.ref => n = o
    BY Zenon DEF Demonitor, LinksInv, TablesAgree
  <1>6. CopiesInv'
    BY Zenon DEF Demonitor, notifying, LinksInv, CopiesInv
  <1>7. /\ \A a, b \in Deployments : b \in links'[a] <=> a \in links'[b]
        /\ \A d \in Deployments : /\ \A p \in toLinked'[d] : <<d, 0>> \notin told'[p]
                                  /\ \A o \in toMonitors'[d] : <<d, o.ref>> \notin told'[o.monitorer]
        /\ \A p \in Deployments : \A s \in told'[p] : notifyPC'[s[1]] # "running"
    BY Zenon DEF Demonitor, notifying, LinksInv, TablesAgree
  <1> QED
    BY Zenon, <1>2, <1>3, <1>4, <1>5, <1>6, <1>7 DEF LinksInv, TablesAgree

(* Nothing has been told of a deployment that has not exited. *)
LEMMA NotifyExitKeeps ==
  ASSUME LinksInv, NEW d \in Deployments, NotifyExit(d)
  PROVE  LinksInv'
  <1>1. LinksTypeOK'
    BY Zenon DEF NotifyExit, tables, LinksInv, LinksTypeOK
  <1>2. \A p \in Deployments : \A s \in told[p] : s[1] # d
    BY Zenon DEF NotifyExit, LinksInv, TablesAgree
  <1>3. monitorsByTarget[d] \subseteq monitorRefs
    BY Zenon DEF LinksInv, LinksTypeOK, TablesAgree
  <1>4. CopiesInv'
    BY <1>3 DEF NotifyExit, LinksInv, LinksTypeOK, CopiesInv, TablesAgree
  <1>5. \A e \in Deployments : /\ \A p \in toLinked'[e] : <<e, 0>> \notin told'[p]
                               /\ \A m \in toMonitors'[e] : <<e, m.ref>> \notin told'[m.monitorer]
    <2> SUFFICES ASSUME NEW e \in Deployments
                 PROVE  /\ \A p \in toLinked'[e] : <<e, 0>> \notin told'[p]
                        /\ \A m \in toMonitors'[e] : <<e, m.ref>> \notin told'[m.monitorer]
      BY Zenon
    <2>1. CASE e = d
      <3>1. \A p \in Deployments, i \in Nat : <<e, i>> \notin told[p]
        BY Zenon, <2>1, <1>2
      <3> QED
        BY <2>1, <3>1, LinksAssumption DEF NotifyExit, LinksInv, LinksTypeOK, MonitorRef
    <2>2. CASE e # d
      BY <2>2 DEF NotifyExit, LinksInv, LinksTypeOK, TablesAgree
    <2> QED
      BY Zenon, <2>1, <2>2
  <1>6. \A p \in Deployments : \A s \in told'[p] : notifyPC'[s[1]] # "running"
    BY DEF NotifyExit, LinksInv, LinksTypeOK, TablesAgree
  <1> QED
    BY Zenon, <1>1, <1>4, <1>5, <1>6 DEF NotifyExit, tables, LinksInv, TablesAgree

LEMMA TellLinkedKeeps ==
  ASSUME LinksInv, NEW d \in Deployments, NEW p \in toLinked[d], TellLinked(d, p)
  PROVE  LinksInv'
  <1>1. p \in Deployments /\ notifyPC[d] # "running"
    BY Zenon DEF LinksInv, LinksTypeOK, CopiesInv
  <1>2. LinksTypeOK' /\ CopiesInv'
    BY <1>1, LinksAssumption DEF TellLinked, tables, LinksInv, LinksTypeOK, CopiesInv
  <1>3. \A e \in Deployments : \A q \in toLinked'[e] : <<e, 0>> \notin told'[q]
    BY ZenonT(60), <1>1 DEF TellLinked, LinksInv, LinksTypeOK, TablesAgree
  <1>4. \A e \in Deployments : \A m \in toMonitors'[e] : <<e, m.ref>> \notin told'[m.monitorer]
    <2> SUFFICES ASSUME NEW e \in Deployments, NEW m \in toMonitors[e]
                 PROVE  <<e, m.ref>> \notin told'[m.monitorer]
      BY Zenon DEF TellLinked
    <2>1. m \in MonitorRef /\ m.ref # 0 /\ m.monitorer \in Deployments
      BY DEF LinksInv, LinksTypeOK, MonitorRef
    <2>2. <<e, m.ref>> \notin told[m.monitorer]
      BY Zenon DEF LinksInv, TablesAgree
    <2> QED
      BY Zenon, <2>1, <2>2, <1>1 DEF TellLinked, LinksInv, LinksTypeOK
  <1>5. \A q \in Deployments : \A s \in told'[q] : notifyPC'[s[1]] # "running"
    BY <1>1 DEF TellLinked, LinksInv, LinksTypeOK, TablesAgree
  <1> QED
    BY Zenon, <1>2, <1>3, <1>4, <1>5 DEF TellLinked, tables, LinksInv, TablesAgree

LEMMA TellMonitorKeeps ==
  ASSUME LinksInv, NEW d \in Deployments, NEW m \in toMonitors[d], TellMonitor(d, m)
  PROVE  LinksInv'
  <1>1. /\ m \in MonitorRef /\ m.monitorer \in Deployments /\ m.ref \in 1 .. MaxRefs
        /\ notifyPC[d] # "running"
    BY DEF LinksInv, LinksTypeOK, CopiesInv, MonitorRef
  <1>2. LinksTypeOK' /\ CopiesInv'
    BY <1>1, LinksAssumption DEF TellMonitor, tables, LinksInv, LinksTypeOK, CopiesInv
  <1>3. \A e \in Deployments : \A q \in toLinked'[e] : <<e, 0>> \notin told'[q]
    BY Zenon, <1>1 DEF TellMonitor, LinksInv, LinksTypeOK, TablesAgree
  <1>4. \A e \in Deployments : \A n \in toMonitors'[e] : <<e, n.ref>> \notin told'[n.monitorer]
    <2> SUFFICES ASSUME NEW e \in Deployments, NEW n \in toMonitors'[e]
                 PROVE  <<e, n.ref>> \notin told'[n.monitorer]
      BY Zenon
    <2>1. n \in toMonitors[e] /\ (e = d => n # m)
      BY Zenon DEF TellMonitor, LinksInv, LinksTypeOK
    <2>2. n \in MonitorRef /\ n.monitorer \in Deployments
      BY <2>1 DEF LinksInv, LinksTypeOK, MonitorRef
    <2>3. <<e, n.ref>> \notin told[n.monitorer]
      BY Zenon, <2>1 DEF LinksInv, TablesAgree
    <2>4. e = d => n.ref # m.ref
      BY Zenon, <2>1 DEF LinksInv, CopiesInv
    <2> QED
      BY Zenon, <2>2, <2>3, <2>4, <1>1 DEF TellMonitor, LinksInv, LinksTypeOK
  <1>5. \A q \in Deployments : \A s \in told'[q] : notifyPC'[s[1]] # "running"
    BY <1>1 DEF TellMonitor, LinksInv, LinksTypeOK, TablesAgree
  <1> QED
    BY Zenon, <1>2, <1>3, <1>4, <1>5 DEF TellMonitor, tables, LinksInv, TablesAgree

LEMMA NotifyReturnsKeeps ==
  ASSUME LinksInv, NEW d \in Deployments, NotifyReturns(d)
  PROVE  LinksInv'
  <1>1. /\ UNCHANGED <<links, monitorsByTarget, monitorRefs, nextRef, toLinked, toMonitors, told>>
        /\ notifyPC' = [notifyPC EXCEPT ![d] = "notified"]
        /\ notifyPC \in [Deployments -> {"running", "notifying", "notified"}]
    BY Zenon DEF NotifyReturns, tables, LinksInv, LinksTypeOK
  <1>2. /\ notifyPC' \in [Deployments -> {"running", "notifying", "notified"}]
        /\ \A c \in Deployments : notifyPC'[c] = "running" => notifyPC[c] = "running"
    BY <1>1
  <1>a. \A p \in Deployments : \A s \in told[p] : s[1] \in Deployments
    BY DEF LinksInv, LinksTypeOK
  <1>3. LinksTypeOK'
    BY Zenon, <1>1, <1>2 DEF LinksInv, LinksTypeOK
  <1>4. CopiesInv'
    BY Zenon, <1>1, <1>2 DEF LinksInv, CopiesInv
  <1>5. TablesAgree'
    BY Zenon, <1>1, <1>2, <1>a DEF LinksInv, TablesAgree
  <1> QED BY Zenon, <1>3, <1>4, <1>5 DEF LinksInv

LEMMA LinksStep == LinksInv /\ [LinksNext]_linkVars => LinksInv'
  <1> SUFFICES ASSUME LinksInv, [LinksNext]_linkVars PROVE LinksInv'
    BY Zenon
  <1>1. CASE UNCHANGED linkVars
    BY <1>1 DEF linkVars, LinksInv, LinksTypeOK, CopiesInv, TablesAgree
  <1>2. CASE LinksNext
    BY Zenon, <1>2, LinkKeeps, MonitorKeeps, DemonitorKeeps, NotifyExitKeeps, TellLinkedKeeps, TellMonitorKeeps,
       NotifyReturnsKeeps DEF LinksNext, NotifyStep
  <1> QED
    BY Zenon, <1>1, <1>2

(* Links stay mutual, the tables of monitors agree, and no link and no     *)
(* reference is told of an exit twice, for any number of deployments that  *)
(* link, unlink, monitor, demonitor and exit at the same time.             *)
THEOREM LinksStayMutual == LinksSpec => []LinksMutual
  <1>1. LinksInv => LinksMutual
    <2> SUFFICES ASSUME LinksInv PROVE LinksMutual
      BY Zenon
    <2>1. /\ links \in [Deployments -> SUBSET Deployments] /\ monitorRefs \subseteq MonitorRef
          /\ monitorsByTarget \in [Deployments -> SUBSET MonitorRef]
      BY Zenon DEF LinksInv, LinksTypeOK
    <2>2. \A a \in Deployments : \A b \in links[a] : a \in links[b]
      BY Zenon, <2>1 DEF LinksInv, TablesAgree
    <2>3. /\ \A m \in monitorRefs : m \in monitorsByTarget[m.target]
          /\ \A d \in Deployments : \A m \in monitorsByTarget[d] :
               m \in monitorRefs /\ m.target = d /\ m.ref < nextRef
      BY Zenon, <2>1 DEF LinksInv, TablesAgree
    <2> QED BY Zenon, <2>2, <2>3 DEF LinksInv, TablesAgree, LinksMutual
  <1> QED
    BY <1>1, LinksInit, LinksStep, PTL DEF LinksSpec
-----------------------------------------------------------------------------
(***************************************************************************)
(* Stop of the scheduler is final, for any entries and any number of runs  *)
(* that overlap.                                                           *)
(***************************************************************************)
StopInv ==
  /\ schedStopPC # "idle" => schedStopped
  /\ StopIsFinal

LEMMA SchedStopKeeps ==
  ASSUME StopInv, [SchedulerNext]_schedVars
  PROVE  StopInv'
  <1>1. CASE UNCHANGED schedVars
    BY ZenonT(60), <1>1 DEF StopInv, StopIsFinal, schedVars
  <1>2. CASE \E e \in Entries : Schedule(e) \/ Unschedule(e)
    BY <1>2 DEF StopInv, StopIsFinal, Schedule, Unschedule
  <1>3. CASE \E e \in Entries, s \in Slots : RunStep(e, s)
    <2>1. PICK e \in Entries, s \in Slots : RunStep(e, s)
      BY Zenon, <1>3
    <2>2. runs[e][s].pc # "none" /\ UNCHANGED <<schedStopPC, schedStopped>>
      BY Zenon, <2>1 DEF RunStep, ExecuteTask, ScheduledReturns, DeleteOneTime
    <2>3. schedStopPC # "returned"
      BY Zenon, <2>2 DEF StopInv, StopIsFinal
    <2> QED BY Zenon, <2>2, <2>3 DEF StopInv, StopIsFinal
  <1>4. CASE StartScheduler
    <2>1. schedStopPC = "idle" /\ UNCHANGED schedStopPC
      BY Zenon, <1>4 DEF StartScheduler, StopInv
    <2> QED BY Zenon, <2>1 DEF StopInv, StopIsFinal
  <1>5. CASE CancelStartContext \/ LoopEnds
    BY <1>5 DEF StopInv, StopIsFinal, CancelStartContext, LoopEnds
  <1>6. CASE ExecuteDueTasks
    <2>1. schedStopPC # "returned" /\ UNCHANGED <<schedStopPC, schedStopped>>
      BY Zenon, <1>6 DEF ExecuteDueTasks, StopInv, StopIsFinal
    <2> QED BY Zenon, <2>1 DEF StopInv, StopIsFinal
  <1>7. CASE StopScheduler
    BY Zenon, <1>7 DEF StopScheduler, StopInv, StopIsFinal
  <1>8. CASE StopSchedulerReturns
    BY Zenon, <1>8 DEF StopSchedulerReturns, InWaitGroup, StopInv, StopIsFinal
  <1> QED BY Zenon, <1>1, <1>2, <1>3, <1>4, <1>5, <1>6, <1>7, <1>8 DEF SchedulerNext

(* When Stop of the scheduler has returned, neither the loop nor a run of  *)
(* a task is left (scheduler.go, the wait group of Stop).                  *)
THEOREM SchedulerStopIsFinal == SchedulerSpec => []StopIsFinal
  <1>1. NewScheduler => StopInv
    BY Zenon DEF NewScheduler, StopInv, StopIsFinal
  <1>2. StopInv /\ [SchedulerNext]_schedVars => StopInv'
    BY Zenon, SchedStopKeeps
  <1>3. StopInv => StopIsFinal
    BY Zenon DEF StopInv
  <1> QED BY <1>1, <1>2, <1>3, PTL DEF SchedulerSpec
-----------------------------------------------------------------------------
(***************************************************************************)
(* No durable message is lost, for any posts, replicas and services.       *)
(***************************************************************************)
AckInv == DOMAIN acks = Durables /\ acks = [d \in Durables |-> acks[d]] /\ AckedIsHandled

LEMMA AckKeeps ==
  ASSUME AckInv, [ClusterNext]_clusterVars
  PROVE  AckInv'
  <1>1. CASE acks' = acks /\ handled' = handled
    BY Zenon, <1>1 DEF AckInv, AckedIsHandled
  <1>2. CASE \E r \in Replicas, p \in Posts : HandlerSucceeds(r, p)
    <2>1. PICK d, p : Acked(d, p) /\ handled' = handled \cup {<<d, p>>}
      BY Zenon, <1>2 DEF HandlerSucceeds
    <2>2. CASE acks' = acks
      BY Zenon, <2>1, <2>2 DEF AckInv, AckedIsHandled
    <2>3. CASE acks' = [acks EXCEPT ![d] = @ \cup {p}]
      <3>1. /\ DOMAIN acks' = Durables /\ acks' = [e \in Durables |-> acks'[e]]
            /\ \A e \in Durables : acks'[e] = IF e = d THEN acks[e] \cup {p} ELSE acks[e]
        BY Zenon, <2>3 DEF AckInv
      <3> QED BY Zenon, <2>1, <3>1 DEF AckInv, AckedIsHandled
    <2> QED BY Zenon, <2>1, <2>2, <2>3 DEF Acked
  <1> QED
    BY Zenon, <1>1, <1>2 DEF ClusterNext, clusterVars, ReplicaStep, ConsumerHandler, HandleMsg, HandlerErrors,
       ReplicaCrashes, PublishStored, PublishCore, RequestTimesOut, HandOut, AckWaitElapses, OnMsg, broker

(* What the broker may forget for a service is what one of its handlers    *)
(* has returned nil for (jetstream.go).                                    *)
THEOREM DurablesStayHandled == ClusterSpec => []AckedIsHandled
  <1>1. NewClusterEventBus => AckInv
    BY Zenon DEF NewClusterEventBus, AckInv, AckedIsHandled
  <1>2. AckInv /\ [ClusterNext]_clusterVars => AckInv'
    BY Zenon, AckKeeps
  <1>3. AckInv => AckedIsHandled
    BY Zenon DEF AckInv
  <1> QED BY <1>1, <1>2, <1>3, PTL DEF ClusterSpec
-----------------------------------------------------------------------------
(***************************************************************************)
(* No request over RabbitMQ is lost while its call waits, for any number   *)
(* of calls and however often the server dies.                             *)
(***************************************************************************)
RPCTypes ==
  /\ rpcPC \in [RPCs -> {"new", "wait", "cleanup", "done"}]
  /\ answered \in [RPCs -> {"none", "reply", "error"}]
  /\ response \in [RPCs -> {"empty", "full", "closed"}]
  /\ replies \in [RPCs -> Nat]
  /\ serving \in RPCs \cup {NoRPC} /\ replying \in RPCs \cup {NoRPC}

RPCOf(c) ==
  /\ rpcPC[c] \in {"cleanup", "done"} => answered[c] # "none"
  /\ rpcPC[c] \in {"wait", "cleanup"} => c \in pending
  /\ response[c] = "closed" => rpcPC[c] = "done"
  /\ RPCWaits(c) => \/ c \in requests \/ (serving = c /\ ~replied)
                    \/ ReplyOnItsWay(c)

LEMMA RPCParts == RPCInv <=> RPCTypes /\ \A c \in RPCs : RPCOf(c)
  BY Zenon DEF RPCInv, RPCTypes, RPCOf

LEMMA RPCPartsNext == RPCTypes' /\ (\A c \in RPCs : RPCOf(c)') => RPCInv'
  BY Zenon DEF RPCInv, RPCTypes, RPCOf

(* The steps of a call: they change only what belongs to it.               *)
LEMMA RPCCallKeeps ==
  ASSUME RPCInv, NEW c \in RPCs,
         CallRPC(c) \/ ReceiveResponse(c) \/ RPCTimesOut(c) \/ CleanUpRPC(c)
  PROVE  RPCInv'
  <1>0. RPCTypes /\ \A e \in RPCs : RPCOf(e)
    BY Zenon, RPCParts
  <1>1. /\ UNCHANGED <<serving, replied, replies, replying>> /\ RPCTypes'
        /\ \A e \in RPCs \ {c} : /\ rpcPC'[e] = rpcPC[e] /\ answered'[e] = answered[e] /\ response'[e] = response[e]
                                 /\ (e \in pending' <=> e \in pending) /\ (e \in requests' <=> e \in requests)
    BY Zenon, <1>0 DEF RPCTypes, CallRPC, ReceiveResponse, RPCTimesOut, CleanUpRPC, rpcServer
  <1>2. ASSUME NEW e \in RPCs \ {c} PROVE RPCOf(e)'
    BY Zenon, <1>0, <1>1 DEF RPCOf, RPCWaits, ReplyOnItsWay
  <1>3. RPCOf(c)'
    <2>1. CASE CallRPC(c)
      BY Zenon, <1>0, <2>1 DEF RPCTypes, RPCOf, RPCWaits, ReplyOnItsWay, CallRPC
    <2>2. CASE ReceiveResponse(c)
      BY Zenon, <1>0, <2>2 DEF RPCTypes, RPCOf, RPCWaits, ReplyOnItsWay, ReceiveResponse, rpcServer
    <2>3. CASE RPCTimesOut(c)
      BY Zenon, <1>0, <2>3 DEF RPCTypes, RPCOf, RPCWaits, ReplyOnItsWay, RPCTimesOut, rpcServer
    <2>4. CASE CleanUpRPC(c)
      BY Zenon, <1>0, <2>4 DEF RPCTypes, RPCOf, RPCWaits, ReplyOnItsWay, CleanUpRPC, rpcServer
    <2> QED BY Zenon, <2>1, <2>2, <2>3, <2>4
  <1> QED BY Zenon, <1>1, <1>2, <1>3, RPCPartsNext

(* The steps of the server move a request between queue and server, or    *)
(* publish its reply.                                                      *)
LEMMA RPCServerKeeps ==
  ASSUME RPCInv, (\E c \in RPCs : TakeRequest(c)) \/ ServeRequest \/ PublishFails \/ AckRequest \/ ServerDies
  PROVE  RPCInv'
  <1>0. RPCTypes /\ \A e \in RPCs : RPCOf(e)
    BY Zenon, RPCParts
  <1>1. UNCHANGED <<rpcPC, answered, pending, response, replying>>
    BY Zenon DEF TakeRequest, ServeRequest, PublishFails, AckRequest, ServerDies, rpcClient
  <1>2. RPCTypes'
    BY <1>0, <1>1, RPCAssumption DEF RPCTypes, TakeRequest, ServeRequest, PublishFails, AckRequest, ServerDies
  <1>3. ASSUME NEW e \in RPCs,
               e \in requests \/ (serving = e /\ ~replied) \/ ReplyOnItsWay(e)
        PROVE  e \in requests' \/ (serving' = e /\ ~replied') \/ ReplyOnItsWay(e)'
    <2>1. CASE \E c \in RPCs : TakeRequest(c)
      BY Zenon, <1>1, <1>3, <2>1, RPCAssumption DEF TakeRequest, ReplyOnItsWay
    <2>2. CASE ServeRequest
      <3>1. replies'[e] >= replies[e] /\ (e = serving => replies'[e] > 0)
        BY <1>0, <2>2 DEF RPCTypes, ServeRequest
      <3>2. ReplyOnItsWay(e) => ReplyOnItsWay(e)'
        BY <1>0, <1>1, <1>2, <3>1 DEF RPCTypes, ReplyOnItsWay
      <3> QED BY Zenon, <1>3, <2>2, <3>1, <3>2 DEF ServeRequest, ReplyOnItsWay
    <2>3. CASE PublishFails \/ AckRequest \/ ServerDies
      BY Zenon, <1>1, <1>3, <2>3 DEF PublishFails, AckRequest, ServerDies, ReplyOnItsWay
    <2> QED BY Zenon, <2>1, <2>2, <2>3
  <1>4. ASSUME NEW e \in RPCs PROVE RPCOf(e)'
    BY Zenon, <1>0, <1>1, <1>3 DEF RPCOf, RPCWaits
  <1> QED BY Zenon, <1>2, <1>4, RPCPartsNext

(* handleReply: a reply goes from its queue to the channel of its call.    *)
LEMMA RPCReplyKeeps ==
  ASSUME RPCInv, (\E c \in RPCs : FindPending(c)) \/ SendResponse
  PROVE  RPCInv'
  <1>0. RPCTypes /\ \A e \in RPCs : RPCOf(e)
    BY Zenon, RPCParts
  <1>1. UNCHANGED <<rpcPC, answered, pending, requests, serving, replied>>
    BY Zenon DEF FindPending, SendResponse, rpcClient, rpcServer
  <1>2. RPCTypes'
    BY <1>0, <1>1 DEF RPCTypes, FindPending, SendResponse, rpcClient
  <1>3. ASSUME NEW e \in RPCs, RPCWaits(e), ReplyOnItsWay(e)
        PROVE  ReplyOnItsWay(e)'
    <2>1. e \in pending /\ response[e] # "closed"
      BY Zenon, <1>0, <1>3 DEF RPCOf, RPCWaits, RPCTypes
    <2>2. CASE \E c \in RPCs : FindPending(c)
      <3>1. PICK c \in RPCs : FindPending(c)
        BY Zenon, <2>2
      <3>2. CASE e = c
        BY Zenon, <2>1, <3>1, <3>2 DEF FindPending, ReplyOnItsWay
      <3>3. CASE e # c
        BY Zenon, <1>0, <1>3, <3>1, <3>3, RPCAssumption DEF FindPending, ReplyOnItsWay, RPCTypes, rpcClient
      <3> QED BY Zenon, <3>2, <3>3
    <2>3. CASE SendResponse
      BY Zenon, <1>0, <1>3, <2>1, <2>3 DEF SendResponse, ReplyOnItsWay, RPCTypes
    <2> QED BY Zenon, <2>2, <2>3
  <1>4. \A e \in RPCs : response'[e] = "closed" => response[e] = "closed"
    BY Zenon, <1>0 DEF FindPending, SendResponse, RPCTypes, rpcClient
  <1>5. ASSUME NEW e \in RPCs PROVE RPCOf(e)'
    BY Zenon, <1>0, <1>1, <1>3, <1>4 DEF RPCOf, RPCWaits
  <1> QED BY Zenon, <1>2, <1>5, RPCPartsNext

THEOREM RPCInvariant == RPCSpec => []RPCInv
  <1>1. NewRPCClient => RPCInv
    BY DEF NewRPCClient, RPCInv, RPCWaits, ReplyOnItsWay
  <1>2. RPCInv /\ UNCHANGED rpcVars => RPCInv'
    BY DEF RPCInv, rpcVars, RPCWaits, ReplyOnItsWay
  <1>3. RPCInv /\ [RPCNext]_rpcVars => RPCInv'
    BY Zenon, <1>2, RPCCallKeeps, RPCServerKeeps, RPCReplyKeeps DEF RPCNext
  <1> QED BY <1>1, <1>3, PTL DEF RPCSpec

(* A request the client published is queued, with the server, or its reply *)
(* is on its way, as long as its call waits (rpc.go, consumer.go).         *)
THEOREM RequestsStay == RPCSpec => []RequestNotLost
  <1>1. RPCInv => RequestNotLost
    BY Zenon DEF RPCInv, RequestNotLost, RPCWaits, ReplyOnItsWay
  <1> QED BY <1>1, RPCInvariant, PTL
-----------------------------------------------------------------------------
(***************************************************************************)
(* The supervisor leaves no deployment it does not know, for any number of *)
(* children, any strategy and any bounds.                                  *)
(***************************************************************************)

(* Why no deployment is lost: Start deploys each child once, a restart       *)
(* undeploys before it deploys, restarts only happen while the supervisor    *)
(* runs, and what is undeployed at the end covers every child deployed.      *)
SupervisorInv ==
  /\ SupervisorTypeOK
  /\ started \in 0 .. Len(Children)
  /\ \A c \in children : \E i \in 1 .. started : Children[i] = c
  /\ \A c \in ChildIDs \ children : ~ref[c]
  /\ \A c \in ChildIDs : live[c] = (IF ref[c] THEN 1 ELSE 0) + late[c]
  /\ monPC = "redeploy" => ~ref[restarting] /\ restarting \in children
  /\ svPC \in {"undeploying", "failing", "stopped"} => \A c \in ChildIDs \ toStop : ~ref[c]
  /\ svPC = "stopped" => toStop = {}
  /\ monPC # "idle" \/ monitoring => svPC = "running"

LEMMA ChildrenFacts ==
  /\ Len(Children) \in Nat /\ DOMAIN Children = 1 .. Len(Children)
  /\ \A i \in 1 .. Len(Children) : Children[i] \in ChildIDs
  /\ Children[1] \in ChildIDs
<1>1. Len(Children) \in Nat /\ DOMAIN Children = 1 .. Len(Children) /\ Len(Children) # 0
  BY ChildrenAssumption
<1> QED
  BY <1>1 DEF ChildIDs

LEMMA InitInv == NewSupervisor => SupervisorInv
<1> SUFFICES ASSUME NewSupervisor PROVE SupervisorInv
  BY Zenon
<1>1. ref \in [ChildIDs -> BOOLEAN] /\ {live, late} \subseteq [ChildIDs -> Nat]
  BY DEF NewSupervisor
<1>2. SupervisorTypeOK
  BY Zenon, <1>1, ChildrenFacts DEF NewSupervisor, SupervisorTypeOK
<1>3. \A c \in ChildIDs : ~ref[c] /\ live[c] = 0 /\ late[c] = 0
  BY ZenonT(60) DEF NewSupervisor
<1> QED
  BY <1>2, <1>3, ChildrenFacts DEF NewSupervisor, SupervisorInv

LEMMA DeployNextInv == SupervisorInv /\ DeployNext => SupervisorInv'
<1> SUFFICES ASSUME SupervisorInv, DeployNext PROVE SupervisorInv'
  BY Zenon
<1> DEFINE n == Children[started + 1]
<1>0. started + 1 \in 1 .. Len(Children)
  <2>1. started \in 0 .. Len(Children) /\ started # Len(Children)
    BY Zenon DEF SupervisorInv, DeployNext, AllDeployed
  <2>2. Len(Children) \in Nat
    BY ChildrenFacts, Zenon
  <2> QED
    BY <2>1, <2>2
<1>1. started + 1 \in 1 .. Len(Children) /\ n \in ChildIDs
  BY ZenonT(60), <1>0, ChildrenFacts
<1>2. n \notin children
  BY <1>1, ChildrenFacts, ChildrenAssumption DEF SupervisorInv
<1>3. ~ref[n]
  BY Zenon, <1>1, <1>2 DEF SupervisorInv
<1>4. SupervisorTypeOK'
  <2>1. live' \in [ChildIDs -> Nat] /\ ref' \in [ChildIDs -> BOOLEAN]
    BY Zenon, <1>1, OneMore DEF SupervisorInv, SupervisorTypeOK, DeployNext, Deployed
  <2>2. late' \in [ChildIDs -> Nat] /\ children' \subseteq ChildIDs /\ children \subseteq children'
    BY ZenonT(60), <1>1 DEF SupervisorInv, SupervisorTypeOK, DeployNext
  <2> QED
    BY Zenon, <2>1, <2>2 DEF SupervisorInv, SupervisorTypeOK, DeployNext, checkVars, fixedVars
<1>5. \A c \in children' : \E i \in 1 .. started' : Children[i] = c
  BY <1>1 DEF SupervisorInv, DeployNext
<1>6. \A c \in ChildIDs : live'[c] = (IF ref'[c] THEN 1 ELSE 0) + late'[c]
  <2> SUFFICES ASSUME NEW c \in ChildIDs PROVE live'[c] = (IF ref'[c] THEN 1 ELSE 0) + late'[c]
    BY Zenon
  <2>1. CASE c = n
    BY <2>1, <1>3 DEF SupervisorInv, SupervisorTypeOK, DeployNext, Deployed
  <2>2. CASE c # n
    BY Zenon, <2>2 DEF SupervisorInv, SupervisorTypeOK, DeployNext, Deployed
  <2> QED
    BY Zenon, <2>1, <2>2
<1> QED
  BY <1>1, <1>4, <1>5, <1>6 DEF SupervisorInv, SupervisorTypeOK, DeployNext, Deployed

(* DeployFails leaves the balance of every child. *)
LEMMA DeployFailsBalance ==
  ASSUME NEW n \in ChildIDs, SupervisorInv, DeployFails(n)
  PROVE  /\ {live', late'} \subseteq [ChildIDs -> Nat]
         /\ \A c \in ChildIDs : live'[c] = (IF ref[c] THEN 1 ELSE 0) + late'[c]
<1>1. CASE UNCHANGED <<live, late>>
  BY Zenon, <1>1 DEF SupervisorInv, SupervisorTypeOK
<1>2. CASE live' = [live EXCEPT ![n] = @ + 1] /\ late' = [late EXCEPT ![n] = @ + 1]
  <2>1. {live', late'} \subseteq [ChildIDs -> Nat]
    BY <1>2 DEF SupervisorInv, SupervisorTypeOK
  <2>2. ASSUME NEW c \in ChildIDs PROVE live'[c] = (IF ref[c] THEN 1 ELSE 0) + late'[c]
    <3>1. live[c] \in Nat /\ late[c] \in Nat /\ live[c] = (IF ref[c] THEN 1 ELSE 0) + late[c]
      BY Zenon DEF SupervisorInv, SupervisorTypeOK
    <3> QED
      BY <1>2, <3>1 DEF SupervisorInv, SupervisorTypeOK
  <2> QED
    BY Zenon, <2>1, <2>2
<1> QED
  BY Zenon, <1>1, <1>2 DEF DeployFails

LEMMA DeployNextFailsInv == SupervisorInv /\ DeployNextFails => SupervisorInv'
<1> SUFFICES ASSUME SupervisorInv, DeployNextFails PROVE SupervisorInv'
  BY Zenon
<1> DEFINE n == Children[started + 1]
<1>0. started + 1 \in 1 .. Len(Children)
  <2>1. started \in 0 .. Len(Children) /\ started # Len(Children)
    BY Zenon DEF SupervisorInv, DeployNextFails, AllDeployed
  <2>2. Len(Children) \in Nat
    BY ChildrenFacts, Zenon
  <2> QED
    BY <2>1, <2>2
<1>1. n \in ChildIDs
  BY Zenon, <1>0, ChildrenFacts
<1>2. /\ {live', late'} \subseteq [ChildIDs -> Nat] /\ UNCHANGED ref
      /\ \A c \in ChildIDs : live'[c] = (IF ref[c] THEN 1 ELSE 0) + late'[c]
  BY Zenon, <1>1, DeployFailsBalance DEF DeployNextFails, DeployFails
<1>3. SupervisorTypeOK'
  BY Zenon, <1>2 DEF SupervisorInv, SupervisorTypeOK, DeployNextFails, checkVars, fixedVars
<1> QED
  BY Zenon, <1>2, <1>3 DEF SupervisorInv, SupervisorTypeOK, DeployNextFails, checkVars, fixedVars

(* Undeploy leaves the balance of every child. *)
LEMMA UndeployBalance ==
  ASSUME NEW n \in ChildIDs, SupervisorInv, Undeploy(n)
  PROVE  /\ live' \in [ChildIDs -> Nat] /\ ref' \in [ChildIDs -> BOOLEAN]
         /\ ~ref'[n] /\ \A c \in ChildIDs \ {n} : ref'[c] = ref[c]
         /\ \A c \in ChildIDs : live'[c] = (IF ref'[c] THEN 1 ELSE 0) + late[c]
<1>1. /\ live \in [ChildIDs -> Nat] /\ late \in [ChildIDs -> Nat] /\ ref \in [ChildIDs -> BOOLEAN]
      /\ \A c \in ChildIDs : live[c] = (IF ref[c] THEN 1 ELSE 0) + late[c]
  BY Zenon DEF SupervisorInv, SupervisorTypeOK
<1>2. ~ref'[n] /\ \A c \in ChildIDs \ {n} : ref'[c] = ref[c]
  BY <1>1, Zenon DEF Undeploy
<1>3. ref' \in [ChildIDs -> BOOLEAN]
  BY <1>1, Zenon DEF Undeploy
<1>4. live'[n] = late[n] /\ \A c \in ChildIDs \ {n} : live'[c] = live[c]
  BY <1>1 DEF Undeploy
<1>5. live' \in [ChildIDs -> Nat]
  <2>1. live[n] \in Nat /\ (ref[n] => live[n] - 1 \in Nat)
    BY <1>1
  <2> QED
    BY Zenon, <1>1, <2>1 DEF Undeploy
<1> QED
  BY <1>1, <1>2, <1>3, <1>4, <1>5

LEMMA ChildEndsInv == ASSUME NEW c \in ChildIDs, SupervisorInv, ChildEnds(c) PROVE SupervisorInv'
<1>1. Undeploy(c) /\ UNCHANGED <<late, started>>
  BY ZenonT(60) DEF ChildEnds
<1>2. SupervisorTypeOK'
  BY <1>1, UndeployBalance DEF SupervisorInv, SupervisorTypeOK, ChildEnds, checkVars, fixedVars
<1>3. \A d \in ChildIDs : ref'[d] => ref[d]
  BY Zenon, <1>1, UndeployBalance
<1> QED
  BY Zenon, <1>1, <1>2, <1>3, UndeployBalance DEF SupervisorInv, SupervisorTypeOK, ChildEnds, checkVars

LEMMA RestartUndeployInv == ASSUME NEW c \in ChildIDs, SupervisorInv, RestartUndeploy(c) PROVE SupervisorInv'
<1>1. Undeploy(c) /\ UNCHANGED <<late, started>>
  BY Zenon DEF RestartUndeploy
<1>2. SupervisorTypeOK'
  BY ZenonT(60), <1>1, UndeployBalance DEF SupervisorInv, SupervisorTypeOK, RestartUndeploy, checkVars, fixedVars
<1>3. \A d \in ChildIDs : ref'[d] => ref[d]
  BY Zenon, <1>1, UndeployBalance
<1> QED
  BY Zenon, <1>1, <1>2, <1>3, UndeployBalance DEF SupervisorInv, RestartUndeploy, checkVars, fixedVars, SupervisorTypeOK

LEMMA UndeployChildInv == ASSUME NEW c \in ChildIDs, SupervisorInv, UndeployChild(c) PROVE SupervisorInv'
<1>1. Undeploy(c) /\ UNCHANGED <<late, started>>
  BY ZenonT(60) DEF UndeployChild
<1>2. SupervisorTypeOK'
  BY SMTT(60), <1>1, UndeployBalance DEF SupervisorInv, SupervisorTypeOK, UndeployChild, checkVars, fixedVars
<1>3. \A d \in ChildIDs : ref'[d] => ref[d]
  BY Zenon, <1>1, UndeployBalance
<1> QED
  BY Zenon, <1>1, <1>2, <1>3, UndeployBalance DEF SupervisorInv, UndeployChild, checkVars, fixedVars

LEMMA RestartDeployInv == SupervisorInv /\ RestartDeploy => SupervisorInv'
<1> SUFFICES ASSUME SupervisorInv, RestartDeploy PROVE SupervisorInv'
  BY Zenon
<1>1. restarting \in ChildIDs /\ restarting \in children /\ ~ref[restarting] /\ svPC = "running"
  BY Zenon DEF SupervisorInv, SupervisorTypeOK, RestartDeploy
<1>2. CASE Deployed(restarting) /\ UNCHANGED <<late, failures>>
  <2>1. SupervisorTypeOK'
    BY <1>1, <1>2 DEF SupervisorInv, SupervisorTypeOK, RestartDeploy, Deployed, checkVars, fixedVars
  <2>2. ASSUME NEW c \in ChildIDs PROVE live'[c] = (IF ref'[c] THEN 1 ELSE 0) + late'[c]
    <3>1. CASE c = restarting
      BY <3>1, <1>1, <1>2 DEF SupervisorInv, SupervisorTypeOK, Deployed
    <3>2. CASE c # restarting
      BY Zenon, <3>2, <1>1, <1>2 DEF SupervisorInv, SupervisorTypeOK, Deployed
    <3> QED
      BY Zenon, <3>1, <3>2
  <2>3. \A c \in ChildIDs \ children : ~ref'[c]
    BY Zenon, <1>1, <1>2 DEF SupervisorInv, SupervisorTypeOK, Deployed
  <2> QED
    BY Zenon, <1>1, <2>1, <2>2, <2>3 DEF SupervisorInv, RestartDeploy
<1>3. CASE DeployFails(restarting)
  <2>1. /\ {live', late'} \subseteq [ChildIDs -> Nat] /\ UNCHANGED ref
        /\ \A c \in ChildIDs : live'[c] = (IF ref[c] THEN 1 ELSE 0) + late'[c]
    BY Zenon, <1>1, <1>3, DeployFailsBalance DEF DeployFails
  <2>2. SupervisorTypeOK'
    BY Zenon, <2>1 DEF SupervisorInv, SupervisorTypeOK, RestartDeploy, checkVars, fixedVars
  <2> QED
    BY Zenon, <1>1, <2>1, <2>2 DEF SupervisorInv, RestartDeploy
<1> QED
  BY Zenon, <1>2, <1>3 DEF RestartDeploy

LEMMA HandleChildFailureInv ==
  ASSUME NEW c \in ChildIDs, SupervisorInv, HandleChildFailure(c) PROVE SupervisorInv'
<1>1. toRestart' \subseteq children /\ monitoring' \in BOOLEAN /\ svPC = "running" /\ failedIDs' \subseteq children
  <2>1. RestartSet(c) \subseteq children
    <3>1. c \in children /\ strategy \in {"one-for-one", "one-for-all", "rest-for-one"}
      BY Zenon DEF SupervisorInv, SupervisorTypeOK, HandleChildFailure, fixedVars
    <3> QED
      BY Zenon, <3>1 DEF RestartSet
  <2> QED
    BY Zenon, <2>1 DEF SupervisorInv, SupervisorTypeOK, HandleChildFailure, fixedVars
<1>2. SupervisorTypeOK'
  BY Zenon, <1>1 DEF SupervisorInv, SupervisorTypeOK, HandleChildFailure, fixedVars
<1> QED
  BY Zenon, <1>1, <1>2 DEF SupervisorInv, HandleChildFailure

(* The steps that deploy and undeploy nothing. *)
LEMMA OtherStepsInv ==
  ASSUME SupervisorInv,
         \/ SupervisorStart \/ StartMonitor \/ CheckChildren \/ CheckDone \/ MonitorExits
         \/ SupervisorStop \/ UndeployChildren \/ SupervisorStopped \/ TimePasses
  PROVE  SupervisorInv'
<1>1. CASE SupervisorStart
  <2>1. SupervisorTypeOK'
    BY Zenon, <1>1 DEF SupervisorInv, SupervisorTypeOK, SupervisorStart, checkVars, fixedVars
  <2> QED
    BY Zenon, <1>1, <2>1 DEF SupervisorInv, SupervisorTypeOK, SupervisorStart, checkVars, fixedVars
<1>2. CASE StartMonitor
  <2>1. SupervisorTypeOK'
    BY Zenon, <1>2 DEF SupervisorInv, SupervisorTypeOK, StartMonitor, checkVars, fixedVars
  <2> QED
    BY Zenon, <1>2, <2>1 DEF SupervisorInv, SupervisorTypeOK, StartMonitor, checkVars, fixedVars
<1>3. CASE CheckChildren
  <2>1. SupervisorTypeOK'
    BY Zenon, <1>3 DEF SupervisorInv, SupervisorTypeOK, CheckChildren, checkVars, fixedVars
  <2> QED
    BY Zenon, <1>3, <2>1 DEF SupervisorInv, SupervisorTypeOK, CheckChildren, checkVars, fixedVars, Unlocked
<1>4. CASE CheckDone
  <2>1. SupervisorTypeOK'
    BY Zenon, <1>4 DEF SupervisorInv, SupervisorTypeOK, CheckDone, checkVars, fixedVars
  <2> QED
    BY Zenon, <1>4, <2>1 DEF SupervisorInv, SupervisorTypeOK, CheckDone, checkVars, fixedVars
<1>5. CASE MonitorExits
  <2>1. SupervisorTypeOK'
    BY Zenon, <1>5 DEF SupervisorInv, SupervisorTypeOK, MonitorExits, checkVars, fixedVars
  <2> QED
    BY Zenon, <1>5, <2>1 DEF SupervisorInv, SupervisorTypeOK, MonitorExits, checkVars, fixedVars
<1>6. CASE SupervisorStop
  <2>1. SupervisorTypeOK'
    BY Zenon, <1>6 DEF SupervisorInv, SupervisorTypeOK, SupervisorStop, checkVars, fixedVars
  <2> QED
    BY Zenon, <1>6, <2>1 DEF SupervisorInv, SupervisorTypeOK, SupervisorStop, checkVars, fixedVars, Unlocked
<1>7. CASE UndeployChildren
  <2>1. SupervisorTypeOK'
    BY Zenon, <1>7 DEF SupervisorInv, SupervisorTypeOK, UndeployChildren, checkVars, fixedVars
  <2> QED
    BY Zenon, <1>7, <2>1 DEF SupervisorInv, SupervisorTypeOK, UndeployChildren, checkVars, fixedVars, Unlocked
<1>8. CASE SupervisorStopped
  <2>1. SupervisorTypeOK'
    BY Zenon, <1>8 DEF SupervisorInv, SupervisorTypeOK, SupervisorStopped, checkVars, fixedVars
  <2> QED
    BY Zenon, <1>8, <2>1 DEF SupervisorInv, SupervisorTypeOK, SupervisorStopped, checkVars, fixedVars
<1>9. CASE TimePasses
  <2>1. SupervisorTypeOK'
    BY Zenon, <1>9 DEF SupervisorInv, SupervisorTypeOK, TimePasses, checkVars, fixedVars
  <2> QED
    BY Zenon, <1>9, <2>1 DEF SupervisorInv, SupervisorTypeOK, TimePasses, checkVars, fixedVars
<1> QED
  BY Zenon, <1>1, <1>2, <1>3, <1>4, <1>5, <1>6, <1>7, <1>8, <1>9

LEMMA NextInv == SupervisorInv /\ [SupervisorNext]_supervisorVars => SupervisorInv'
<1> SUFFICES ASSUME SupervisorInv, [SupervisorNext]_supervisorVars PROVE SupervisorInv'
  BY Zenon
<1>1. CASE UNCHANGED supervisorVars
  BY Zenon, <1>1 DEF SupervisorInv, SupervisorTypeOK, supervisorVars, checkVars, fixedVars
<1>2. CASE \E c \in ChildIDs : ChildEnds(c) \/ HandleChildFailure(c) \/ RestartUndeploy(c) \/ UndeployChild(c)
  BY Zenon, <1>2, ChildEndsInv, HandleChildFailureInv, RestartUndeployInv, UndeployChildInv
<1>3. CASE DeployNext \/ DeployNextFails \/ RestartDeploy
  BY Zenon, <1>3, DeployNextInv, DeployNextFailsInv, RestartDeployInv
<1>4. CASE \/ SupervisorStart \/ StartMonitor \/ CheckChildren \/ CheckDone \/ MonitorExits
           \/ SupervisorStop \/ UndeployChildren \/ SupervisorStopped \/ TimePasses
  BY Zenon, <1>4, OtherStepsInv
<1> QED
  BY <1>1, <1>2, <1>3, <1>4, Zenon DEF SupervisorNext, SupervisorStep

(* Whatever the restart strategy, the failing deployments and the order of   *)
(* Stop and the monitor's checks (supervisor.go), each child has at most one *)
(* deployment beside those given up at the start timeout, and none when Stop *)
(* has returned or Start has failed.                                         *)
THEOREM SupervisorLeavesNoOrphans == SupervisorSpec => []NoOrphans
<1>1. SupervisorInv => NoOrphans
  BY Zenon DEF SupervisorInv, NoOrphans
<1> QED
  BY <1>1, InitInv, NextInv, PTL DEF SupervisorSpec

-----------------------------------------------------------------------------
(***************************************************************************)
(* The state of a component moves along the edges of isValidTransition,    *)
(* for any number of operators and waiters.                                *)
(***************************************************************************)
LEMMA StateTerminals == Terminal \subseteq States
  BY DEF Terminal, States

(* What a transition does to the waiters. *)
LEMMA TransitionKeepsWaiters ==
  ASSUME StateInv, NEW to \in States, TransitionLocked(to)
  PROVE  /\ state' \in States /\ state' = to
         /\ waiters' \in [States -> SUBSET Waiters] /\ \A s \in States \ Terminal : waiters'[s] = {}
         /\ waitPC' \in [Waiters -> {"idle", "checked", "registered", "receiving", "returned", "cancelled"}]
         /\ reached' \in [Waiters -> SUBSET States]
         /\ WaitTellsTruth'
  <1>0. /\ state' = to
        /\ reached' = [w \in Waiters |-> IF waitPC[w] \in {"checked", "registered", "receiving"}
                                         THEN reached[w] \cup {to} ELSE reached[w]]
        /\ waitPC' = [w \in Waiters |-> IF waitPC[w] = "receiving" /\ w \in waiters[to]
                                        THEN "returned" ELSE waitPC[w]]
        /\ waiters' = [waiters EXCEPT ![to] = {}]
    BY Zenon DEF TransitionLocked, NotifyWaiters
  <1>1. /\ waiters \in [States -> SUBSET Waiters] /\ \A s \in States \ Terminal : waiters[s] = {}
        /\ waitPC \in [Waiters -> {"idle", "checked", "registered", "receiving", "returned", "cancelled"}]
        /\ reached \in [Waiters -> SUBSET States]
        /\ \A w \in Waiters : waitPC[w] = "returned" => reached[w] \cap Terminal # {}
    BY Zenon DEF StateInv, WaitTellsTruth
  <1>2. waiters' \in [States -> SUBSET Waiters] /\ \A s \in States \ Terminal : waiters'[s] = {}
    BY Zenon, <1>0, <1>1
  <1>3. reached' \in [Waiters -> SUBSET States]
    BY <1>0, <1>1
  <1>4. waitPC' \in [Waiters -> {"idle", "checked", "registered", "receiving", "returned", "cancelled"}]
    BY <1>0, <1>1
  <1>5. ASSUME NEW w \in Waiters, waitPC'[w] = "returned" PROVE reached'[w] \cap Terminal # {}
    <2>1. CASE waitPC[w] = "receiving" /\ w \in waiters[to]
      <3>1. to \in Terminal
        BY Zenon, <1>1, <2>1
      <3>2. to \in reached'[w]
        BY Zenon, <1>0, <2>1
      <3> QED BY Zenon, <3>1, <3>2
    <2>2. CASE ~(waitPC[w] = "receiving" /\ w \in waiters[to])
      <3>1. waitPC[w] = "returned"
        BY ZenonT(60), <1>0, <1>5, <2>2
      <3>2. reached'[w] = reached[w]
        BY <1>0, <3>1
      <3> QED BY Zenon, <1>1, <3>1, <3>2
    <2> QED BY Zenon, <2>1, <2>2
  <1> QED BY Zenon, <1>0, <1>2, <1>3, <1>4, <1>5 DEF WaitTellsTruth

(* A transition by the operator that has mu, or by one while nobody has it. *)
LEMMA OperatorsKeep ==
  ASSUME StateInv, NEW to \in States, TransitionLocked(to), NEW o \in Operators, NEW pc,
         pc \in {"idle", "onStart", "onStop"}, opPC' = [opPC EXCEPT ![o] = pc],
         stateMu \in {NoOperator, o}, stateMu' = IF pc = "idle" THEN NoOperator ELSE o,
         pc # "idle" => to = IF pc = "onStart" THEN "starting" ELSE "stopping"
  PROVE  StateInv'
  <1>1. /\ stateMu \in Operators \cup {NoOperator} /\ opPC \in [Operators -> {"idle", "onStart", "onStop"}]
        /\ \A p \in Operators : opPC[p] # "idle" => stateMu = p
    BY Zenon DEF StateInv
  <1>2. \A p \in Operators : p # o => opPC'[p] = "idle"
    BY Zenon, <1>1, StateAssumption
  <1>3. opPC' \in [Operators -> {"idle", "onStart", "onStop"}] /\ opPC'[o] = pc
    BY Zenon, <1>1
  <1>4. stateMu' \in Operators \cup {NoOperator}
    BY Zenon
  <1>5. \A p \in Operators : opPC'[p] # "idle" =>
          stateMu' = p /\ state' = IF opPC'[p] = "onStart" THEN "starting" ELSE "stopping"
    BY Zenon, <1>2, <1>3, TransitionKeepsWaiters
  <1> QED BY Zenon, <1>3, <1>4, <1>5, TransitionKeepsWaiters DEF StateInv

(* Start, Stop and Transition, and the outcome of a function. *)
LEMMA TransitionsKeep ==
  ASSUME StateInv, NEW o \in Operators,
         \/ StartComponent(o) \/ StopComponent(o)
         \/ \E to \in States : TransitionTo(o, to)
         \/ \E outcome \in {"ok", "err", "timeout"} : HookOutcome(o, outcome)
  PROVE  StateInv' /\ (state' # state => state' \in ValidNext(state))
  <1>0. /\ state \in States /\ opPC \in [Operators -> {"idle", "onStart", "onStop"}]
        /\ opPC[o] # "idle" => stateMu = o /\ state = IF opPC[o] = "onStart" THEN "starting" ELSE "stopping"
    BY Zenon DEF StateInv
  <1>1. CASE StartComponent(o)
    <2>1. /\ stateMu = NoOperator /\ state \in {"initial", "stopped"} /\ stateMu' = o
          /\ opPC' = [opPC EXCEPT ![o] = "onStart"] /\ TransitionLocked("starting")
      BY Zenon, <1>1 DEF StartComponent, OpGoto, StateMuFree
    <2>2. "starting" \in States /\ "starting" \in ValidNext(state)
      BY <2>1 DEF States, ValidNext
    <2>3. StateInv'
      BY Zenon, <2>1, <2>2, OperatorsKeep
    <2> QED BY Zenon, <2>1, <2>2, <2>3, TransitionKeepsWaiters
  <1>2. CASE StopComponent(o)
    <2>1. /\ stateMu = NoOperator /\ state \in {"running", "starting"} /\ stateMu' = o
          /\ opPC' = [opPC EXCEPT ![o] = "onStop"] /\ TransitionLocked("stopping")
      BY Zenon, <1>2 DEF StopComponent, OpGoto, StateMuFree
    <2>2. "stopping" \in States /\ "stopping" \in ValidNext(state)
      BY <2>1 DEF States, ValidNext
    <2>3. StateInv'
      BY Zenon, <2>1, <2>2, OperatorsKeep
    <2> QED BY Zenon, <2>1, <2>2, <2>3, TransitionKeepsWaiters
  <1>3. ASSUME NEW to \in States, TransitionTo(o, to)
        PROVE  StateInv' /\ (state' # state => state' \in ValidNext(state))
    <2>1. /\ stateMu = NoOperator /\ opPC[o] = "idle" /\ to \in ValidNext(state) \cup {state}
          /\ TransitionLocked(to) /\ UNCHANGED <<stateMu, opPC>>
      BY Zenon, <1>3 DEF TransitionTo, StateMuFree
    <2>2. opPC' = [opPC EXCEPT ![o] = "idle"]
      BY Zenon, <1>0, <2>1
    <2>3. StateInv'
      BY Zenon, <2>1, <2>2, OperatorsKeep
    <2> QED BY Zenon, <2>1, <2>3, TransitionKeepsWaiters
  <1>4. ASSUME NEW outcome \in {"ok", "err", "timeout"}, HookOutcome(o, outcome)
        PROVE  StateInv' /\ (state' # state => state' \in ValidNext(state))
    <2> DEFINE to == IF outcome = "ok" THEN IF opPC[o] = "onStart" THEN "running" ELSE "stopped" ELSE "error"
    <2>1. /\ opPC[o] \in {"onStart", "onStop"} /\ TransitionLocked(to)
          /\ stateMu' = NoOperator /\ opPC' = [opPC EXCEPT ![o] = "idle"]
      BY Zenon, <1>4 DEF HookOutcome, OpGoto
    <2>2. to \in States /\ to \in ValidNext(state)
      BY <1>0, <2>1 DEF States, ValidNext
    <2> HIDE DEF to
    <2>3. stateMu = o
      BY Zenon, <1>0, <2>1
    <2>4. StateInv'
      BY Zenon, <2>1, <2>2, <2>3, OperatorsKeep
    <2> QED BY Zenon, <2>1, <2>2, <2>4, TransitionKeepsWaiters
  <1> QED BY Zenon, <1>1, <1>2, <1>3, <1>4

(* The steps of Wait, and a function that ends after its timeout. *)
LEMMA WaitsKeep ==
  ASSUME StateInv, \/ LateHookEnds \/ UNCHANGED stateVars
                   \/ \E w \in Waiters : WaiterStep(w) \/ WaitContextDone(w)
  PROVE  StateInv' /\ state' = state
  <1> DEFINE Places == {"idle", "checked", "registered", "receiving", "returned", "cancelled"}
  <1>0. /\ state \in States
        /\ waiters \in [States -> SUBSET Waiters] /\ \A s \in States \ Terminal : waiters[s] = {}
        /\ waitPC \in [Waiters -> Places] /\ reached \in [Waiters -> SUBSET States]
        /\ \A w \in Waiters : waitPC[w] = "returned" => reached[w] \cap Terminal # {}
    BY Zenon DEF StateInv, WaitTellsTruth
  <1>1. UNCHANGED <<state, stateMu, opPC>>
    BY Zenon DEF LateHookEnds, stateVars, WaiterStep, WaitCheck, WaitRegister, WaitReceive, WaitContextDone
  <1>2. ASSUME waiters' \in [States -> SUBSET Waiters], \A s \in States \ Terminal : waiters'[s] = {},
               waitPC' \in [Waiters -> Places], reached' \in [Waiters -> SUBSET States],
               \A w \in Waiters : waitPC'[w] = "returned" => reached'[w] \cap Terminal # {}
        PROVE  StateInv'
    BY Zenon, <1>1, <1>2 DEF StateInv, WaitTellsTruth
  <1>3. CASE LateHookEnds \/ UNCHANGED stateVars
    <2>1. UNCHANGED <<waiters, waitPC, reached>>
      BY Zenon, <1>3 DEF LateHookEnds, stateVars
    <2> QED BY Zenon, <1>0, <1>1, <1>2, <2>1
  <1>4. ASSUME NEW w \in Waiters, WaitCheck(w) PROVE StateInv'
    <2>1. /\ waitPC' = [waitPC EXCEPT ![w] = IF state \in Terminal THEN "returned" ELSE "checked"]
          /\ reached' = [reached EXCEPT ![w] = {state}] /\ waiters' = waiters
      BY Zenon, <1>4 DEF WaitCheck
    <2>2. waitPC' \in [Waiters -> Places] /\ reached' \in [Waiters -> SUBSET States]
      BY <1>0, <2>1
    <2>3. ASSUME NEW v \in Waiters, waitPC'[v] = "returned" PROVE reached'[v] \cap Terminal # {}
      <3>1. CASE v = w
        <4>1. state \in Terminal /\ reached'[v] = {state}
          BY <1>0, <2>1, <2>3, <3>1
        <4> QED BY Zenon, <4>1
      <3>2. CASE v # w
        BY Zenon, <1>0, <2>1, <2>3, <3>2
      <3> QED BY Zenon, <3>1, <3>2
    <2> QED BY Zenon, <1>0, <1>2, <2>1, <2>2, <2>3
  <1>5. ASSUME NEW w \in Waiters, WaitRegister(w) \/ WaitReceive(w) \/ WaitContextDone(w) PROVE StateInv'
    <2>1. /\ UNCHANGED reached
          /\ \E pc \in {"registered", "receiving", "cancelled"} : waitPC' = [waitPC EXCEPT ![w] = pc]
      BY Zenon, <1>5 DEF WaitRegister, WaitReceive, WaitContextDone
    <2>2. waiters' \in [States -> SUBSET Waiters] /\ \A s \in States \ Terminal : waiters'[s] = {}
      <3>1. CASE WaitRegister(w)
        BY <1>0, <3>1 DEF WaitRegister
      <3>2. CASE WaitReceive(w)
        BY Zenon, <1>0, <3>2 DEF WaitReceive
      <3>3. CASE WaitContextDone(w)
        BY <1>0, <3>3 DEF WaitContextDone
      <3> QED BY Zenon, <1>5, <3>1, <3>2, <3>3
    <2>3. waitPC' \in [Waiters -> Places] /\ \A v \in Waiters : waitPC'[v] = "returned" => waitPC[v] = "returned"
      BY <1>0, <2>1
    <2> QED BY Zenon, <1>0, <1>2, <2>1, <2>2, <2>3
  <1> QED BY Zenon, <1>1, <1>3, <1>4, <1>5 DEF WaiterStep

LEMMA StateStep ==
  ASSUME StateInv, [StateNext]_stateVars
  PROVE  StateInv' /\ (state' # state => state' \in ValidNext(state))
  <1>1. CASE StateNext
    BY Zenon, <1>1, TransitionsKeep, WaitsKeep DEF StateNext
  <1>2. CASE UNCHANGED stateVars
    BY Zenon, <1>2, WaitsKeep
  <1> QED BY Zenon, <1>1, <1>2

LEMMA StateStarts == NewManager => StateInv
  <1> SUFFICES ASSUME NewManager PROVE StateInv
    BY Zenon
  <1>1. state \in States
    BY DEF NewManager, States
  <1>2. /\ waiters \in [States -> SUBSET Waiters] /\ \A s \in States : waiters[s] = {}
        /\ waitPC \in [Waiters -> {"idle"}] /\ reached \in [Waiters -> SUBSET States]
        /\ opPC \in [Operators -> {"idle"}]
    BY DEF NewManager
  <1> QED BY <1>1, <1>2 DEF NewManager, StateInv, WaitTellsTruth

(* Start, Stop and Transition take the component only along the edges of     *)
(* isValidTransition, and Wait tells of a terminal state only when one was   *)
(* reached since its call, for any number of operators and waiters.          *)
THEOREM StatesStayLegal == StateSpec => StateIsLegal
  <1>1. StateInv => WaitTellsTruth
    BY Zenon DEF StateInv
  <1>2. StateInv /\ [StateNext]_stateVars => StateInv' /\ [state' # state => state' \in ValidNext(state)]_stateVars
    BY Zenon, StateStep
  <1> QED BY <1>1, <1>2, StateStarts, PTL DEF StateSpec, StateIsLegal, LifecycleIsLegal

(***************************************************************************)
(* One tick loop at a time, however often the timer is started and         *)
(* stopped.                                                                *)
(***************************************************************************)
LEMMA LoopsMove ==
  ASSUME OneTickLoop, NEW n \in DOMAIN loops, NEW pc, loops' = [loops EXCEPT ![n] = pc],
         timerCtx' = timerCtx, loops[n] # "ended",
         timerRunning' = IF pc = "ended" THEN FALSE ELSE timerRunning
  PROVE  OneTickLoop'
  <1>1. DOMAIN loops' = DOMAIN loops /\ loops'[n] = pc /\ \A m \in DOMAIN loops : m # n => loops'[m] = loops[m]
    BY Zenon
  <1>2. timerRunning /\ n = timerCtx /\ \A m \in DOMAIN loops : loops[m] # "ended" => m = n
    BY Zenon DEF OneTickLoop
  <1>3. \A m \in DOMAIN loops' : loops'[m] # "ended" => m = timerCtx' /\ m = n /\ pc # "ended"
    BY Zenon, <1>1, <1>2
  <1>4. timerRunning' <=> \E m \in DOMAIN loops' : loops'[m] # "ended"
    <2>1. CASE pc = "ended"
      BY Zenon, <1>3, <2>1
    <2>2. CASE pc # "ended"
      BY Zenon, <1>1, <1>2, <2>2
    <2> QED BY Zenon, <2>1, <2>2
  <1> QED BY Zenon, <1>3, <1>4 DEF OneTickLoop

(* Start is refused while a loop is alive, and a loop only sees the context   *)
(* of its own Start, for any number of starts and stops of the timer.         *)
THEOREM OneLoopTicks == TimerSpec => []OneTickLoop
  <1>1. NewScheduleTimer => OneTickLoop
    BY DEF NewScheduleTimer, OneTickLoop
  <1>2. OneTickLoop /\ [TimerNext]_timerVars => OneTickLoop'
    <2> SUFFICES ASSUME OneTickLoop, [TimerNext]_timerVars PROVE OneTickLoop'
      BY Zenon
    <2>1. CASE StartTimer
      <3>1. /\ DOMAIN loops' = DOMAIN loops \cup {timerCtx'} /\ loops'[timerCtx'] = "select"
            /\ \A n \in DOMAIN loops : n # timerCtx' => loops'[n] = loops[n]
        BY Zenon, <2>1 DEF StartTimer
      <3>2. timerRunning' /\ \A n \in DOMAIN loops : loops[n] = "ended"
        BY Zenon, <2>1 DEF StartTimer, OneTickLoop
      <3>3. "select" # "ended"
        OBVIOUS
      <3> QED BY Zenon, <3>1, <3>2, <3>3 DEF OneTickLoop
    <2>2. CASE StopTimer \/ UNCHANGED timerVars
      <3>1. UNCHANGED <<timerRunning, timerCtx, loops>>
        BY Zenon, <2>2 DEF StopTimer, timerVars
      <3> QED BY Zenon, <3>1 DEF OneTickLoop
    <2>3. ASSUME NEW n \in DOMAIN loops, TimerTick(n) \/ LoopStep(n) PROVE OneTickLoop'
      <3>1. \E pc : /\ loops' = [loops EXCEPT ![n] = pc] /\ timerCtx' = timerCtx /\ loops[n] # "ended"
                    /\ timerRunning' = IF pc = "ended" THEN FALSE ELSE timerRunning
        BY Zenon, <2>3 DEF TimerTick, LoopStep, TasksDone, SeeDone, EndLoop, LoopGoto
      <3> QED BY Zenon, <3>1, LoopsMove
    <2> QED BY Zenon, <2>1, <2>2, <2>3 DEF TimerNext
  <1> QED BY <1>1, <1>2, PTL DEF TimerSpec
=============================================================================
