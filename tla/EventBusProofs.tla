--------------------------- MODULE EventBusProofs ---------------------------
(* Proofs about the event bus. *)
EXTENDS EventBus, SequenceTheorems, TLAPS

-----------------------------------------------------------------------------
(* Type correctness. *)

LEMMA BusTypeInit == Init => BusTypeOK
<1> SUFFICES ASSUME Init PROVE BusTypeOK
  BY Zenon
<1> USE EventBusAssumption
<1>1. /\ mbClosed \in [Consumers -> BOOLEAN] /\ chClosed \in [Consumers -> BOOLEAN]
      /\ ch \in [Consumers -> Seq(Messages)] /\ handled \in [Consumers -> Seq(Messages)]
  BY DEF Init, NewBoundedMailbox
<1>2. /\ arrays \in Seq(Seq(Consumers \cup {NoConsumer})) /\ slice \in Slices
      /\ mu \in Consumers \cup {NoConsumer} /\ sendCounter \in Nat
      /\ closePC \in {"idle", "shutdown", "waiting", "lock", "closed"}
  BY DEF Init, NoSlice, Slices
<1>3. /\ consPC \in [Consumers -> {"new", "created", "submitted", "refused", "receive", "select", "handling", "stopped"}]
      /\ unregPC \in [Consumers -> Int]
  BY DEF Init
<1>4. /\ pc \in [Callers -> {"idle", "publish", "send", "select", "panic"}]
      /\ kind \in [Callers -> {"none", "publish", "send"}] /\ calls \in [Callers -> 0 .. MaxCalls]
      /\ snap \in [Callers -> Slices] /\ idx \in [Callers -> Nat]
  BY DEF Init, NoSlice, Slices
<1>5. /\ cur \in [Callers -> Consumers \cup {NoConsumer}]
      /\ result \in [Callers -> {"none", "nil", "err", "noHandlers", "timeout"}]
      /\ got \in [Callers -> [Consumers -> Nat]]
      /\ full \in [Callers -> SUBSET Consumers] /\ stable \in [Callers -> SUBSET Consumers]
  BY Zenon DEF Init
<1> QED BY Zenon, <1>1, <1>2, <1>3, <1>4, <1>5 DEF BusTypeOK

(* The part of the type invariant about the bus and the part about calls. *)
BusPart ==
  /\ mbClosed \in [Consumers -> BOOLEAN] /\ chClosed \in [Consumers -> BOOLEAN]
  /\ ch \in [Consumers -> Seq(Messages)] /\ handled \in [Consumers -> Seq(Messages)]
  /\ arrays \in Seq(Seq(Consumers \cup {NoConsumer})) /\ slice \in Slices
  /\ mu \in Consumers \cup {NoConsumer}
  /\ closePC \in {"idle", "shutdown", "waiting", "lock", "closed"}
  /\ consPC \in [Consumers -> {"new", "created", "submitted", "refused", "receive", "select", "handling", "stopped"}]
  /\ unregPC \in [Consumers -> Int]

CallPart ==
  /\ sendCounter \in Nat
  /\ pc \in [Callers -> {"idle", "publish", "send", "select", "panic"}]
  /\ kind \in [Callers -> {"none", "publish", "send"}] /\ calls \in [Callers -> 0 .. MaxCalls]
  /\ snap \in [Callers -> Slices] /\ idx \in [Callers -> Nat]
  /\ cur \in [Callers -> Consumers \cup {NoConsumer}]
  /\ result \in [Callers -> {"none", "nil", "err", "noHandlers", "timeout"}]
  /\ got \in [Callers -> [Consumers -> Nat]]
  /\ full \in [Callers -> SUBSET Consumers] /\ stable \in [Callers -> SUBSET Consumers]

LEMMA TypeParts == BusTypeOK <=> BusPart /\ CallPart
BY Zenon DEF BusTypeOK, BusPart, CallPart

LEMMA TypePartsPrime == BusTypeOK' <=> BusPart' /\ CallPart'
BY Zenon DEF BusTypeOK, BusPart, CallPart

LEMMA CallPartStays ==
  ASSUME CallPart, UNCHANGED <<sendCounter, pc, kind, calls, snap, idx, cur, result, got, full>>,
         stable' \in [Callers -> SUBSET Consumers]
  PROVE  CallPart'
BY Zenon DEF CallPart

(* What a slice shows: consumers. *)
Shows(A, s) ==
  s.len > 0 => /\ s.arr \in DOMAIN A
               /\ s.len <= Len(A[s.arr])
               /\ \A i \in 1 .. s.len : A[s.arr][i] \in Consumers

LEMMA ShowsIs == \A s : WellFormed(s) <=> Shows(arrays, s)
BY Zenon DEF WellFormed, Shows

(* The backing arrays only gain consumers. *)
Grown(A, B) ==
  /\ Len(B) >= Len(A)
  /\ \A a \in 1 .. Len(A) :
       /\ Len(B[a]) = Len(A[a])
       /\ \A i \in 1 .. Len(A[a]) : B[a][i] = A[a][i] \/ B[a][i] \in Consumers

Arrays == Seq(Seq(Consumers \cup {NoConsumer}))

LEMMA GrownShows ==
  ASSUME NEW A \in Arrays, NEW B \in Arrays, Grown(A, B), NEW s \in Slices, Shows(A, s)
  PROVE  Shows(B, s)
<1> SUFFICES ASSUME s.len > 0
             PROVE  s.arr \in DOMAIN B /\ s.len <= Len(B[s.arr]) /\ \A i \in 1 .. s.len : B[s.arr][i] \in Consumers
  BY Zenon DEF Shows
<1>1. s.arr \in 1 .. Len(A) /\ s.len <= Len(A[s.arr]) /\ \A i \in 1 .. s.len : A[s.arr][i] \in Consumers
  BY DEF Shows, Arrays
<1>2. s.arr \in 1 .. Len(B) /\ Len(B[s.arr]) = Len(A[s.arr])
  BY <1>1 DEF Grown, Arrays, Slices
<1>3. ASSUME NEW i \in 1 .. s.len PROVE B[s.arr][i] \in Consumers
  <2>1. i \in 1 .. Len(A[s.arr]) 
    BY <1>1 DEF Arrays, Slices
  <2> QED BY Zenon, <1>1, <2>1 DEF Grown
<1> QED BY <1>1, <1>2, <1>3 DEF Arrays

(* What Consumer does to the arrays. *)
LEMMA AppendMoves ==
  ASSUME BusPart, SliceInv, NEW c \in Consumers, AppendConsumer(c)
  PROVE  /\ arrays' \in Arrays /\ slice' \in Slices /\ Grown(arrays, arrays')
         /\ slice'.len = slice.len + 1 /\ slice'.arr \in 1 .. Len(arrays')
         /\ slice'.len <= Len(arrays'[slice'.arr])
         /\ arrays'[slice'.arr][slice.len + 1] = c
         /\ \A i \in 1 .. slice.len : arrays'[slice'.arr][i] = arrays[slice.arr][i]
         /\ \A a \in 1 .. Len(arrays) : \A i \in 1 .. Len(arrays[a]) :
              (a # slice.arr \/ i <= slice.len) => arrays'[a][i] = arrays[a][i]
         /\ slice'.arr = slice.arr \/ slice'.arr > Len(arrays)
<1> DEFINE cap == IF slice.arr = 0 THEN 0 ELSE Len(arrays[slice.arr])
<1>0. /\ arrays \in Arrays /\ slice \in Slices /\ slice.arr \in Nat /\ slice.len \in Nat
      /\ slice.arr <= Len(arrays) /\ slice.len <= cap /\ Len(arrays) \in Nat
      /\ \A a \in 1 .. Len(arrays) : arrays[a] \in Seq(Consumers \cup {NoConsumer})
  BY LenProperties DEF BusPart, SliceInv, Arrays, Slices
<1>1. CASE /\ slice.len < cap
           /\ arrays' = [arrays EXCEPT ![slice.arr][slice.len + 1] = c]
           /\ slice' = [slice EXCEPT !.len = @ + 1]
  <2>1. slice.arr \in 1 .. Len(arrays) /\ cap = Len(arrays[slice.arr])
    BY <1>0, <1>1
  <2> DEFINE A == arrays[slice.arr]  B == [A EXCEPT ![slice.len + 1] = c]
  <2>2. A \in Seq(Consumers \cup {NoConsumer}) /\ slice.len + 1 \in 1 .. Len(A)
    BY <1>0, <1>1, <2>1
  <2>3. /\ B \in Seq(Consumers \cup {NoConsumer}) /\ Len(B) = Len(A)
        /\ \A i \in 1 .. Len(A) : B[i] = IF i = slice.len + 1 THEN c ELSE A[i]
    BY <2>2, ExceptSeq
  <2>4. arrays' = [arrays EXCEPT ![slice.arr] = B]
    BY Zenon, <1>1
  <2> HIDE DEF B
  <2>5. /\ arrays' \in Arrays /\ Len(arrays') = Len(arrays)
        /\ \A a \in 1 .. Len(arrays) : arrays'[a] = IF a = slice.arr THEN B ELSE arrays[a]
    BY <1>0, <2>1, <2>3, <2>4, ExceptSeq DEF Arrays
  <2>6. slice' \in Slices /\ slice'.len = slice.len + 1 /\ slice'.arr = slice.arr
    BY <1>0, <1>1 DEF Slices
  <2>7. Grown(arrays, arrays')
    BY SMTT(60), <1>0, <2>3, <2>5 DEF Grown
  <2>8. arrays'[slice'.arr] = B /\ slice'.len <= Len(arrays'[slice'.arr]) /\ B[slice.len + 1] = c
    BY <1>0, <2>1, <2>2, <2>3, <2>5, <2>6
  <2>9. \A i \in 1 .. slice.len : i \in 1 .. Len(A) /\ B[i] = A[i]
    BY <1>0, <2>2, <2>3
  <2>10. \A a \in 1 .. Len(arrays) : \A i \in 1 .. Len(arrays[a]) :
           (a # slice.arr \/ i <= slice.len) => arrays'[a][i] = arrays[a][i]
    <3> SUFFICES ASSUME NEW a \in 1 .. Len(arrays), NEW i \in 1 .. Len(arrays[a]), a # slice.arr \/ i <= slice.len
                 PROVE  arrays'[a][i] = arrays[a][i]
      BY Zenon
    <3>1. CASE a # slice.arr
      BY Zenon, <2>5, <3>1
    <3>2. CASE a = slice.arr
      <4>1. i \in 1 .. Len(A) /\ i # slice.len + 1
        BY <1>0, <2>2, <3>2
      <4>2. B[i] = A[i]
        BY Zenon, <2>3, <4>1
      <4> QED BY Zenon, <2>5, <3>2, <4>2
    <3> QED BY Zenon, <3>1, <3>2
  <2> HIDE DEF cap
  <2> QED BY Zenon, <2>1, <2>5, <2>6, <2>7, <2>8, <2>9, <2>10
<1>2. CASE /\ slice.len = cap
           /\ arrays' = Append(arrays,
                [i \in 1 .. (IF cap = 0 THEN 1 ELSE 2 * cap) |->
                   IF i <= cap THEN arrays[slice.arr][i] ELSE IF i = cap + 1 THEN c ELSE NoConsumer])
           /\ slice' = [arr |-> Len(arrays) + 1, len |-> slice.len + 1]
  <2> DEFINE n == IF cap = 0 THEN 1 ELSE 2 * cap
             B == [i \in 1 .. n |-> IF i <= cap THEN arrays[slice.arr][i]
                                                ELSE IF i = cap + 1 THEN c ELSE NoConsumer]
  <2>0. cap \in Nat /\ n \in Nat /\ cap + 1 <= n
    BY <1>0, LenProperties
  <2>1. \A i \in 1 .. cap : arrays[slice.arr][i] \in Consumers \cup {NoConsumer}
    BY <1>0, <1>2, ElementOfSeq
  <2>2. B \in [1 .. n -> Consumers \cup {NoConsumer}]
    BY <2>0, <2>1
  <2>3. B \in Seq(Consumers \cup {NoConsumer}) /\ Len(B) = n
    BY <2>0, <2>2, IsASeq, LenProperties
  <2>4. \A i \in 1 .. n : B[i] = IF i <= cap THEN arrays[slice.arr][i]
                                             ELSE IF i = cap + 1 THEN c ELSE NoConsumer
    BY Zenon
  <2>5. arrays' = Append(arrays, B) /\ slice'.arr = Len(arrays) + 1 /\ slice'.len = slice.len + 1 /\ slice.len = cap
    BY Zenon, <1>2
  <2>6. slice' \in Slices
    BY <1>0, <1>2 DEF Slices
  <2> HIDE DEF B, cap, n
  <2>7. /\ arrays' \in Arrays /\ Len(arrays') = Len(arrays) + 1 /\ arrays'[Len(arrays) + 1] = B
        /\ \A a \in 1 .. Len(arrays) : arrays'[a] = arrays[a]
    BY <1>0, <2>3, <2>5, AppendProperties DEF Arrays
  <2>8. Grown(arrays, arrays')
    BY <1>0, <2>7 DEF Grown
  <2>9. slice'.len <= Len(B) /\ slice'.len \in 1 .. n /\ slice.len + 1 \in 1 .. n /\ ~(slice.len + 1 <= cap)
    BY <2>0, <2>3, <2>5
  <2>10. B[slice.len + 1] = c
    BY Zenon, <2>4, <2>5, <2>9
  <2>11. \A i \in 1 .. slice.len : i \in 1 .. n /\ i <= cap
    BY <2>0, <2>5
  <2>12. \A i \in 1 .. slice.len : B[i] = arrays[slice.arr][i]
    BY Zenon, <2>4, <2>11
  <2>13. slice'.arr \in 1 .. Len(arrays') /\ slice'.arr > Len(arrays) /\ arrays'[slice'.arr] = B
    BY <1>0, <2>5, <2>7
  <2> QED BY Zenon, <2>5, <2>6, <2>7, <2>8, <2>9, <2>10, <2>12, <2>13
<1> QED BY Zenon, <1>1, <1>2 DEF AppendConsumer

LEMMA HeadThenTail ==
  ASSUME NEW S, NEW q \in Seq(S), q # <<>>
  PROVE  <<Head(q)>> \o Tail(q) = q
<1>1. Head(q) \in S /\ Tail(q) \in Seq(S) /\ Len(Tail(q)) = Len(q) - 1 /\ Len(q) \in Nat /\ Len(q) > 0
  BY HeadTailProperties, LenProperties, EmptySeq
<1>2. <<Head(q)>> \in Seq(S) /\ Len(<<Head(q)>>) = 1 /\ <<Head(q)>>[1] = Head(q) /\ Head(q) = q[1]
  BY <1>1
<1>3. \A i \in 1 .. Len(q) - 1 : Tail(q)[i] = q[i + 1]
  BY Zenon, <1>1, HeadTailProperties
<1>4. /\ <<Head(q)>> \o Tail(q) \in Seq(S) /\ Len(<<Head(q)>> \o Tail(q)) = Len(q)
      /\ \A i \in 1 .. Len(q) : (<<Head(q)>> \o Tail(q))[i] = IF i <= 1 THEN <<Head(q)>>[i] ELSE Tail(q)[i - 1]
  BY <1>1, <1>2, ConcatProperties
<1>5. \A i \in 1 .. Len(q) : (<<Head(q)>> \o Tail(q))[i] = q[i]
  BY <1>1, <1>2, <1>3, <1>4
<1> QED BY Zenon, <1>4, <1>5, SeqEqual

LEMMA MoveHead ==
  ASSUME NEW S, NEW h \in Seq(S), NEW q \in Seq(S), q # <<>>
  PROVE  Append(h, Head(q)) \o Tail(q) = h \o q
<1> DEFINE m == <<Head(q)>>
<1>1. Head(q) \in S /\ Tail(q) \in Seq(S)
  BY Zenon, HeadTailProperties
<1>2. m \in Seq(S) /\ Append(h, Head(q)) = h \o m /\ m \o Tail(q) = q
  BY <1>1, AppendIsConcat, HeadThenTail
<1> HIDE DEF m
<1>3. (h \o m) \o Tail(q) = h \o (m \o Tail(q))
  BY SMTT(60), <1>1, <1>2, ConcatAssociative
<1> QED BY Zenon, <1>2, <1>3

LEMMA ConcatAppend ==
  ASSUME NEW S, NEW h \in Seq(S), NEW q \in Seq(S), NEW x \in S
  PROVE  h \o Append(q, x) = Append(h \o q, x)
<1> DEFINE m == <<x>>
<1>1. m \in Seq(S) /\ Append(q, x) = q \o m /\ h \o q \in Seq(S)
  BY AppendIsConcat, ConcatProperties
<1>2. Append(h \o q, x) = (h \o q) \o m
  BY Zenon, <1>1, AppendIsConcat
<1> HIDE DEF m
<1> QED BY <1>1, <1>2, ConcatAssociative

(* What one step of the shift in Unregister does to them. *)
LEMMA ShiftMoves ==
  ASSUME BusPart, SliceInv, WellFormed(slice), NEW c \in Consumers, NEW i \in 1 .. slice.len, i < slice.len,
         arrays' = [arrays EXCEPT ![slice.arr][i] = arrays[slice.arr][i + 1]]
  PROVE  /\ arrays' \in Arrays /\ Grown(arrays, arrays') /\ Len(arrays') = Len(arrays)
         /\ \A a \in 1 .. Len(arrays) : Len(arrays'[a]) = Len(arrays[a])
         /\ \A j \in 1 .. slice.len : arrays'[slice.arr][j] = IF j = i THEN arrays[slice.arr][i + 1] ELSE arrays[slice.arr][j]
<1> DEFINE A == arrays[slice.arr]  x == A[i + 1]  B == [A EXCEPT ![i] = x]
<1>0. /\ arrays \in Arrays /\ slice.arr \in 1 .. Len(arrays) /\ slice.len \in Nat /\ slice.len <= Len(A)
      /\ \A a \in 1 .. Len(arrays) : arrays[a] \in Seq(Consumers \cup {NoConsumer})
      /\ \A j \in 1 .. slice.len : A[j] \in Consumers
  BY SMTT(60) DEF BusPart, SliceInv, Arrays, Slices, WellFormed
<1>1. A \in Seq(Consumers \cup {NoConsumer}) /\ i \in 1 .. Len(A) /\ x \in Consumers
  <2>1. A \in Seq(Consumers \cup {NoConsumer}) /\ i + 1 \in 1 .. slice.len
    BY <1>0
  <2> HIDE DEF A
  <2>2. Len(A) \in Nat
    BY Zenon, <2>1, LenProperties
  <2> QED BY <1>0, <2>1, <2>2
<1>2. /\ B \in Seq(Consumers \cup {NoConsumer}) /\ Len(B) = Len(A)
      /\ \A j \in 1 .. Len(A) : B[j] = IF j = i THEN x ELSE A[j]
  BY <1>1, ExceptSeq
<1>3. arrays' = [arrays EXCEPT ![slice.arr] = B]
  BY Zenon
<1> HIDE DEF B, x
<1>4. /\ arrays' \in Arrays /\ Len(arrays') = Len(arrays)
      /\ \A a \in 1 .. Len(arrays) : arrays'[a] = IF a = slice.arr THEN B ELSE arrays[a]
  BY <1>0, <1>2, <1>3, ExceptSeq DEF Arrays
<1>5. Grown(arrays, arrays')
  BY <1>0, <1>1, <1>2, <1>4 DEF Grown
<1>6. \A j \in 1 .. slice.len : B[j] = IF j = i THEN x ELSE A[j]
  BY <1>0, <1>1, <1>2
<1> QED BY Zenon, <1>0, <1>2, <1>4, <1>5, <1>6 DEF x

-----------------------------------------------------------------------------
(* What each invariant depends on. *)

LEMMA SliceFrame ==
  ASSUME SliceInv, UNCHANGED <<arrays, slice, mu, unregPC>>,
         \A c \in Consumers : consPC'[c] = "new" <=> consPC[c] = "new",
         closePC' # "closed" => closePC # "closed"
  PROVE  SliceInv'
<1>1. Places' = Places /\ Active' = Active
  BY Zenon DEF Places, Active
<1> QED BY Zenon, <1>1 DEF SliceInv

LEMMA SnapFrame ==
  ASSUME SnapInv, BusPart, CallPart, arrays' \in Arrays, Grown(arrays, arrays'), Shows(arrays', slice'),
         UNCHANGED <<pc, kind, calls, snap, idx, cur>>
  PROVE  SnapInv'
<1>1. \A s \in Slices : WellFormed(s) => Shows(arrays', s)
  BY Zenon, ShowsIs, GrownShows DEF BusPart, Arrays
<1>2. \A p \in Callers : Shows(arrays', snap'[p])
  BY Zenon, <1>1 DEF SnapInv, CallPart
<1>3. WellFormed(slice)' /\ \A p \in Callers : WellFormed(snap[p])'
  BY <1>2, Zenon DEF WellFormed, Shows
<1> QED BY Zenon, <1>3 DEF SnapInv

LEMMA SameArrays ==
  ASSUME SnapInv, BusPart, UNCHANGED <<arrays, slice>>
  PROVE  arrays' \in Arrays /\ Grown(arrays, arrays') /\ Shows(arrays', slice')
<1>1. arrays \in Arrays /\ Shows(arrays, slice)
  BY Zenon, ShowsIs DEF BusPart, Arrays, SnapInv
<1>2. Grown(arrays, arrays)
  BY <1>1 DEF Grown, Arrays
<1> QED BY Zenon, <1>1, <1>2

LEMMA PublishFrame ==
  ASSUME PublishInv,
         Quiet' => Quiet /\ UNCHANGED <<arrays, slice, mbClosed, pc, kind, snap, idx, cur, result, got, full, stable>>
  PROVE  PublishInv'
<1> SUFFICES ASSUME Quiet' PROVE PublishInv'
  BY Zenon DEF PublishInv
<1>1. Quiet /\ UNCHANGED <<arrays, slice, mbClosed, pc, kind, snap, idx, cur, result, got, full, stable>>
  BY Zenon
<1>2. \A p \in Callers : MidPublish(p) => MidPublish(p)'
  BY <1>1 DEF MidPublish, Elements, Reached
<1>3. PublishIsExact'
  <2>1. closePC = "idle" /\ \A c \in Consumers : unregPC[c] = 0
    BY Zenon, <1>1 DEF Quiet
  <2> QED BY Zenon, <1>1, <2>1 DEF PublishInv, PublishIsExact, Returned
<1> QED BY Zenon, <1>1, <1>2, <1>3 DEF PublishInv

All(c) == handled[c] \o ch[c]

LEMMA OrderFrame ==
  ASSUME OrderInv, BusPart, BusPart', CallPart, CallPart',
         \A c \in Consumers : All(c)' = All(c),
         \A p \in Callers : calls'[p] >= calls[p]
  PROVE  OrderInv'
<1>0. \A c \in Consumers : All(c) \in Seq(Messages)
  BY Zenon, ConcatProperties DEF All, BusPart
<1>1. ASSUME NEW c \in Consumers, NEW i \in DOMAIN All(c)'
      PROVE  All(c)'[i][2] <= calls'[All(c)'[i][1]]
  <2>1. i \in DOMAIN All(c) /\ All(c)'[i] = All(c)[i]
    BY Zenon, <1>1
  <2>2. All(c)[i] \in Messages
    BY <1>0, <2>1, ElementOfSeq
  <2>3. All(c)[i][2] <= calls[All(c)[i][1]]
    BY Zenon, <2>1 DEF OrderInv, All
  <2> QED BY <2>1, <2>2, <2>3 DEF Messages, CallPart
<1>2. HandledInOrder'
  BY Zenon DEF OrderInv, HandledInOrder, All
<1> QED BY Zenon, <1>1, <1>2 DEF OrderInv, All

-----------------------------------------------------------------------------
(* One lemma per operation. *)

Safe == BusPart /\ CallPart /\ SliceInv /\ SnapInv /\ PublishInv /\ OrderInv

LEMMA ConsumerSafe ==
  ASSUME Safe, NEW c \in Consumers, Consumer(c)
  PROVE  Safe'
<1> USE EventBusAssumption
<1>0. BusPart /\ CallPart /\ SliceInv /\ SnapInv /\ PublishInv /\ OrderInv
  BY Zenon DEF Safe
<1>1. /\ consPC[c] = "new" /\ mu = NoConsumer /\ AppendConsumer(c)
      /\ consPC' = [consPC EXCEPT ![c] = "created"]
      /\ UNCHANGED <<mbClosed, chClosed, ch, mu, sendCounter, closePC, unregPC, handled>>
      /\ UNCHANGED <<pc, kind, calls, snap, idx, cur, result, got, full, stable>>
  BY Zenon DEF Consumer, mailboxVars, callVars
<1>2. /\ arrays' \in Arrays /\ slice' \in Slices /\ Grown(arrays, arrays')
      /\ slice'.len = slice.len + 1 /\ slice'.arr \in 1 .. Len(arrays')
      /\ slice'.len <= Len(arrays'[slice'.arr])
      /\ arrays'[slice'.arr][slice.len + 1] = c
      /\ \A i \in 1 .. slice.len : arrays'[slice'.arr][i] = arrays[slice.arr][i]
      /\ \A a \in 1 .. Len(arrays) : \A i \in 1 .. Len(arrays[a]) :
           (a # slice.arr \/ i <= slice.len) => arrays'[a][i] = arrays[a][i]
      /\ slice'.arr = slice.arr \/ slice'.arr > Len(arrays)
  BY Zenon, <1>0, <1>1, AppendMoves
<1>3. BusPart'
  BY Zenon, <1>0, <1>1, <1>2 DEF BusPart, Arrays
<1>4. CallPart'
  BY Zenon, <1>0, <1>1, CallPartStays DEF CallPart
<1>5. slice.len \in Nat /\ slice.arr \in Nat /\ Len(arrays) \in Nat /\ arrays \in Arrays
  BY <1>0 DEF BusPart, Slices, Arrays
<1>6. \A e \in Consumers : consPC'[e] = IF e = c THEN "created" ELSE consPC[e]
  BY Zenon, <1>0, <1>1 DEF BusPart
<1>7. Places = 1 .. slice.len /\ Places' = 1 .. slice.len + 1
  BY Zenon, <1>1, <1>2, <1>5 DEF Places
<1>8. Active' = Active \cup {c} /\ c \notin Active
  BY <1>0, <1>1, <1>6 DEF Active, SliceInv
<1>9. SliceInv'
  <2>1. \A i \in 1 .. slice.len + 1 : arrays'[slice'.arr][i] = IF i = slice.len + 1 THEN c ELSE arrays[slice.arr][i]
    BY SMTT(60), <1>2, <1>5
  <2>2. \A i \in Places' : arrays'[slice'.arr][i] \in Active'
    BY <1>0, <1>5, <1>7, <1>8, <2>1 DEF SliceInv
  <2>3. \A i, j \in Places' : arrays'[slice'.arr][i] = arrays'[slice'.arr][j] => i = j
    BY SMTT(60), <1>0, <1>5, <1>7, <1>8, <2>1 DEF SliceInv
  <2>4. closePC' # "closed" => \A e \in Active' : \E i \in Places' : arrays'[slice'.arr][i] = e
    <3> SUFFICES ASSUME closePC' # "closed", NEW e \in Active' PROVE \E i \in Places' : arrays'[slice'.arr][i] = e
      BY Zenon
    <3>1. CASE e = c
      BY <1>5, <1>7, <2>1, <3>1
    <3>2. CASE e # c
      <4>1. PICK i \in Places : arrays[slice.arr][i] = e
        BY Zenon, <1>0, <1>1, <1>8, <3>2 DEF SliceInv
      <4> QED BY <1>5, <1>7, <2>1, <4>1
    <3> QED BY Zenon, <3>1, <3>2
  <2>5. /\ slice'.arr \in 0 .. Len(arrays')
        /\ slice'.len <= IF slice'.arr = 0 THEN 0 ELSE Len(arrays'[slice'.arr])
    BY <1>2, <1>5
  <2>6. /\ mu' = NoConsumer
        /\ \A e \in Consumers : unregPC'[e] > 0 => mu' = e
        /\ \A e \in Consumers : consPC'[e] = "new" => unregPC'[e] = 0
    BY Zenon, <1>0, <1>1, <1>6 DEF SliceInv
  <2> QED BY Zenon, <2>2, <2>3, <2>4, <2>5, <2>6 DEF SliceInv
<1>10. SnapInv'
  <2>1. Shows(arrays', slice')
    <3>1. \A i \in 1 .. slice'.len : arrays'[slice'.arr][i] \in Consumers
      BY Zenon, <1>2, <1>7, <1>9 DEF SliceInv, Active
    <3> QED BY <1>2, <3>1 DEF Shows, Arrays
  <2> QED BY Zenon, <1>0, <1>1, <1>2, <2>1, SnapFrame
<1>11. OrderInv'
  <2>1. \A e \in Consumers : All(e)' = All(e)
    BY Zenon, <1>1 DEF All
  <2> QED BY <1>0, <1>1, <1>3, <1>4, <2>1, OrderFrame DEF CallPart
<1>12. PublishInv'
  <2> SUFFICES ASSUME Quiet' PROVE PublishInv'
    BY Zenon DEF PublishInv
  <2>1. Quiet
    BY Zenon, <1>1 DEF Quiet
  <2>2. PublishIsExact'
    BY Zenon, <1>0, <1>1, <2>1 DEF PublishInv, PublishIsExact, Returned, Quiet
  <2>3. ASSUME NEW p \in Callers, kind'[p] = "publish", pc'[p] \in {"publish", "select"}
        PROVE  MidPublish(p)'
    <3>1. MidPublish(p) /\ WellFormed(snap[p]) /\ snap[p] \in Slices /\ idx[p] \in Nat
      BY Zenon, <1>0, <1>1, <2>1, <2>3 DEF PublishInv, SnapInv, CallPart
    <3>2. snap[p].len \in Nat /\ snap[p].arr \in Nat
      BY Zenon, <3>1 DEF Slices
    <3>3. \A i \in 1 .. snap[p].len : arrays'[snap[p].arr][i] = arrays[snap[p].arr][i]
      <4> SUFFICES ASSUME NEW i \in 1 .. snap[p].len PROVE arrays'[snap[p].arr][i] = arrays[snap[p].arr][i]
        BY Zenon
      <4>1. snap[p].arr \in 1 .. Len(arrays) /\ snap[p].len <= Len(arrays[snap[p].arr])
        BY <1>5, <3>1, <3>2 DEF WellFormed, Arrays
      <4>2. i \in 1 .. Len(arrays[snap[p].arr])
        BY SMTT(60), <1>5, <3>2, <4>1 DEF Arrays
      <4>3. snap[p].arr = slice.arr => i <= slice.len
        BY <1>5, <3>1, <3>2 DEF MidPublish
      <4> QED BY Zenon, <1>2, <4>1, <4>2, <4>3
    <3>4. snap[p].arr = slice'.arr => snap[p].len <= slice'.len
      <4>1. CASE snap[p].len = 0
        BY SMTT(60), <1>2, <1>5, <4>1
      <4>2. CASE snap[p].len > 0
        <5>1. snap[p].arr <= Len(arrays)
          BY <1>5, <3>1, <3>2, <4>2 DEF WellFormed, Arrays
        <5> QED BY <1>2, <1>5, <3>1, <3>2, <5>1 DEF MidPublish
      <4> QED BY <3>2, <4>1, <4>2
    <3>5. UNCHANGED <<snap, idx, cur, pc, got, full, stable>>
      BY Zenon, <1>1
    <3>6. \A e : Reached(p, e)' <=> Reached(p, e)
      BY <3>1, <3>2, <3>3, <3>5 DEF Reached, MidPublish
    <3>7. Elements(snap[p])' = Elements(snap[p])
      BY Zenon, <3>3, <3>5 DEF Elements
    <3>8. pc[p] = "select" => idx[p] \in 1 .. snap[p].len /\ cur[p] = arrays[snap[p].arr][idx[p]]
      BY <1>0, <3>1, <3>2 DEF MidPublish, SnapInv
    <3>9. \A i, j \in 1 .. snap'[p].len : arrays'[snap'[p].arr][i] = arrays'[snap'[p].arr][j] => i = j
      BY Zenon, <3>1, <3>3, <3>5 DEF MidPublish
    <3>10. pc'[p] = "select" => idx'[p] <= snap'[p].len /\ cur'[p] = arrays'[snap'[p].arr][idx'[p]]
      BY <3>1, <3>2, <3>3, <3>5, <3>8
    <3> QED BY Zenon, <3>1, <3>4, <3>5, <3>6, <3>7, <3>9, <3>10 DEF MidPublish
  <2> QED BY Zenon, <1>0, <1>1, <2>1, <2>2, <2>3 DEF PublishInv
<1> QED BY Zenon, <1>3, <1>4, <1>9, <1>10, <1>11, <1>12 DEF Safe

(* A step of a consumer's own goroutine, or of Handler, that moves no       *)
(* message.                                                                 *)
LEMMA QuietStepSafe ==
  ASSUME Safe, UNCHANGED <<mbClosed, chClosed, ch, arrays, slice, mu, sendCounter, unregPC, handled>>,
         UNCHANGED <<pc, kind, calls, snap, idx, cur, result, got, full, stable>>,
         consPC' \in [Consumers -> {"new", "created", "submitted", "refused", "receive", "select", "handling", "stopped"}],
         \A c \in Consumers : consPC'[c] = "new" <=> consPC[c] = "new",
         closePC' \in {"idle", "shutdown", "waiting", "lock", "closed"},
         closePC' # "closed" => closePC # "closed",
         closePC' = "idle" => closePC = "idle"
  PROVE  Safe'
<1>0. BusPart /\ CallPart /\ SliceInv /\ SnapInv /\ PublishInv /\ OrderInv
  BY Zenon DEF Safe
<1>1. BusPart' /\ CallPart'
  BY Zenon, <1>0 DEF BusPart, CallPart
<1>2. SliceInv'
  BY Zenon, <1>0, SliceFrame
<1>3. SnapInv'
  BY Zenon, <1>0, SameArrays, SnapFrame
<1>4. Quiet' => Quiet
  BY Zenon DEF Quiet
<1>5. PublishInv'
  BY Zenon, <1>0, <1>4, PublishFrame
<1>6. OrderInv'
  <2>1. \A e \in Consumers : All(e)' = All(e)
    BY Zenon DEF All
  <2> QED BY <1>0, <1>1, <2>1, OrderFrame DEF CallPart
<1> QED BY Zenon, <1>1, <1>2, <1>3, <1>5, <1>6 DEF Safe

LEMMA HandlerSafe ==
  ASSUME Safe, NEW c \in Consumers, Handler(c)
  PROVE  Safe'
<1>1. /\ consPC[c] = "created"
      /\ consPC' = [consPC EXCEPT ![c] = "submitted"] \/ consPC' = [consPC EXCEPT ![c] = "refused"]
      /\ UNCHANGED <<mbClosed, chClosed, ch, arrays, slice, mu, sendCounter, unregPC, handled, closePC>>
      /\ UNCHANGED <<pc, kind, calls, snap, idx, cur, result, got, full, stable>>
  BY Zenon DEF Handler, mailboxVars, callVars
<1>2. /\ consPC' \in [Consumers -> {"new", "created", "submitted", "refused", "receive", "select", "handling", "stopped"}]
      /\ \A e \in Consumers : consPC'[e] = "new" <=> consPC[e] = "new"
      /\ closePC \in {"idle", "shutdown", "waiting", "lock", "closed"}
  BY Zenon, <1>1 DEF Safe, BusPart
<1> QED BY Zenon, <1>1, <1>2, QuietStepSafe

LEMMA ReceiveSafe ==
  ASSUME Safe, NEW c \in Consumers, NEW msg \in Messages, consPC[c] = "select", ReceiveCase(c, msg),
         handled' = [handled EXCEPT ![c] = Append(@, msg)], ConsumerGoto(c, "handling")
  PROVE  Safe'
<1> USE EventBusAssumption
<1>0. BusPart /\ CallPart /\ SliceInv /\ SnapInv /\ PublishInv /\ OrderInv
  BY Zenon DEF Safe
<1>1. /\ ch[c] # <<>> /\ msg = Head(ch[c]) /\ ch' = [ch EXCEPT ![c] = Tail(@)]
      /\ consPC' = [consPC EXCEPT ![c] = "handling"]
      /\ UNCHANGED <<mbClosed, chClosed, arrays, slice, mu, sendCounter, unregPC, closePC>>
      /\ UNCHANGED <<pc, kind, calls, snap, idx, cur, result, got, full, stable>>
  BY Zenon DEF ReceiveCase, ConsumerGoto, callVars
<1>2. handled[c] \in Seq(Messages) /\ ch[c] \in Seq(Messages) /\ Tail(ch[c]) \in Seq(Messages)
  BY Zenon, <1>0, <1>1, HeadTailProperties DEF BusPart
<1>3. BusPart'
  <2>1. handled' \in [Consumers -> Seq(Messages)] /\ ch' \in [Consumers -> Seq(Messages)]
    BY Zenon, <1>0, <1>1, <1>2, AppendProperties DEF BusPart
  <2> QED BY Zenon, <1>0, <1>1, <2>1 DEF BusPart
<1>4. CallPart'
  BY Zenon, <1>0, <1>1 DEF CallPart
<1>5. \A e \in Consumers : consPC'[e] = "new" <=> consPC[e] = "new"
  BY Zenon, <1>0, <1>1 DEF BusPart
<1>6. SliceInv'
  BY Zenon, <1>0, <1>1, <1>5, SliceFrame
<1>7. SnapInv'
  BY Zenon, <1>0, <1>1, SameArrays, SnapFrame
<1>8. Quiet' => Quiet
  BY Zenon, <1>1 DEF Quiet
<1>9. PublishInv'
  BY Zenon, <1>0, <1>1, <1>8, PublishFrame
<1>10. ASSUME NEW e \in Consumers PROVE All(e)' = All(e)
  <2>1. CASE e = c
    <3>1. All(e)' = Append(handled[c], msg) \o Tail(ch[c])
      BY Zenon, <1>0, <1>1, <2>1 DEF All, BusPart
    <3>2. Append(handled[c], msg) \o Tail(ch[c]) = handled[c] \o ch[c]
      BY Zenon, <1>1, <1>2, MoveHead
    <3> QED BY Zenon, <2>1, <3>1, <3>2 DEF All
  <2>2. CASE e # c
    BY <1>0, <1>1, <2>2 DEF All, BusPart
  <2> QED BY Zenon, <2>1, <2>2
<1>11. OrderInv'
  BY <1>0, <1>1, <1>3, <1>4, <1>10, OrderFrame DEF CallPart
<1> QED BY Zenon, <1>3, <1>4, <1>6, <1>7, <1>9, <1>11 DEF Safe

LEMMA ConsumerStepSafe ==
  ASSUME Safe, NEW c \in Consumers, ConsumerStep(c)
  PROVE  Safe'
<1>1. CASE \E msg \in Messages : /\ consPC[c] = "select" /\ ReceiveCase(c, msg)
                                 /\ handled' = [handled EXCEPT ![c] = Append(@, msg)]
                                 /\ ConsumerGoto(c, "handling")
  BY Zenon, <1>1, ReceiveSafe
<1>2. CASE \E label \in {"receive", "select", "stopped"} :
             ConsumerGoto(c, label) /\ consPC[c] # "new" /\ UNCHANGED <<mailboxVars, handled>>
  <2>1. PICK label \in {"receive", "select", "stopped"} :
             ConsumerGoto(c, label) /\ consPC[c] # "new" /\ UNCHANGED <<mailboxVars, handled>>
    BY Zenon, <1>2
  <2>2. /\ consPC' = [consPC EXCEPT ![c] = label]
        /\ UNCHANGED <<mbClosed, chClosed, ch, arrays, slice, mu, sendCounter, unregPC, handled, closePC>>
        /\ UNCHANGED <<pc, kind, calls, snap, idx, cur, result, got, full, stable>>
    BY Zenon, <2>1 DEF ConsumerGoto, mailboxVars, callVars
  <2>3. /\ consPC' \in [Consumers -> {"new", "created", "submitted", "refused", "receive", "select", "handling", "stopped"}]
        /\ \A e \in Consumers : consPC'[e] = "new" <=> consPC[e] = "new"
        /\ closePC \in {"idle", "shutdown", "waiting", "lock", "closed"}
    BY Zenon, <2>1, <2>2 DEF Safe, BusPart
  <2> QED BY Zenon, <2>2, <2>3, QuietStepSafe
<1>3. CASE ReceiveSelect(c)
  BY Zenon, <1>1, <1>2, <1>3 DEF ReceiveSelect, Stop, Messages
<1>4. CASE WorkerTakes(c) \/ ReceiveCheck(c) \/ HandlerReturns(c)
  BY Zenon, <1>2, <1>4 DEF WorkerTakes, ReceiveCheck, HandlerReturns, Stop
<1> QED BY Zenon, <1>3, <1>4 DEF ConsumerStep

LEMMA CloseSafe ==
  ASSUME Safe, CloseCancel \/ CloseShutdown \/ CloseWaited
  PROVE  Safe'
<1>1. /\ UNCHANGED <<mbClosed, chClosed, ch, arrays, slice, mu, sendCounter, unregPC, handled, consPC>>
      /\ UNCHANGED <<pc, kind, calls, snap, idx, cur, result, got, full, stable>>
      /\ closePC' \in {"shutdown", "waiting", "lock"} /\ closePC # "closed"
  BY Zenon DEF CloseCancel, CloseShutdown, CloseWaited, CloseUnchanged, mailboxVars, callVars
<1> QED BY Zenon, <1>1, QuietStepSafe DEF Safe, BusPart

LEMMA CloseMailboxesSafe ==
  ASSUME Safe, CloseMailboxes
  PROVE  Safe'
<1> USE EventBusAssumption
<1>0. BusPart /\ CallPart /\ SliceInv /\ SnapInv /\ PublishInv /\ OrderInv
  BY Zenon DEF Safe
<1>1. /\ closePC' = "closed" /\ mu = NoConsumer /\ slice' = NoSlice
      /\ mbClosed' = [m \in Mailboxes |-> mbClosed[m] \/ m \in registered]
      /\ chClosed' = [m \in Mailboxes |-> chClosed[m] \/ m \in registered]
      /\ UNCHANGED <<ch, arrays, mu, sendCounter, unregPC, handled, consPC>>
      /\ UNCHANGED <<pc, kind, calls, snap, idx, cur, result, got, full, stable>>
  BY Zenon DEF CloseMailboxes, MailboxClose, CloseUnchanged, callVars
<1>2. BusPart' /\ CallPart'
  BY Zenon, <1>0, <1>1 DEF BusPart, CallPart, NoSlice, Slices
<1>3. Places' = {} /\ Active' = Active
  BY <1>1 DEF Places, Active, NoSlice
<1>4. SliceInv'
  BY SMTT(60), <1>0, <1>1, <1>3 DEF SliceInv, NoSlice, BusPart
<1>5. SnapInv'
  <2>1. arrays' \in Arrays /\ Grown(arrays, arrays')
    BY <1>0, <1>1 DEF BusPart, Arrays, Grown
  <2>2. Shows(arrays', slice')
    BY SMTT(60), <1>1 DEF Shows, NoSlice
  <2> QED BY Zenon, <1>0, <1>1, <2>1, <2>2, SnapFrame
<1>6. PublishInv'
  BY Zenon, <1>0, <1>1, PublishFrame DEF Quiet
<1>7. \A e \in Consumers : All(e)' = All(e)
  BY Zenon, <1>1 DEF All
<1>8. OrderInv'
  BY <1>0, <1>1, <1>2, <1>7, OrderFrame DEF CallPart
<1> QED BY Zenon, <1>2, <1>4, <1>5, <1>6, <1>8 DEF Safe

LEMMA UnregisterLockSafe ==
  ASSUME Safe, NEW c \in Consumers, UnregisterLock(c)
  PROVE  Safe'
<1> USE EventBusAssumption
<1>0. BusPart /\ CallPart /\ SliceInv /\ SnapInv /\ PublishInv /\ OrderInv
  BY Zenon DEF Safe
<1>1. /\ consPC[c] # "new" /\ unregPC[c] = 0 /\ mu = NoConsumer
      /\ stable' = [p \in Callers |-> stable[p] \ {c}]
      /\ UNCHANGED <<ch, arrays, slice, sendCounter, closePC, handled, consPC>>
      /\ UNCHANGED <<pc, kind, calls, snap, idx, cur, result, got, full>>
  BY Zenon DEF UnregisterLock, mailboxVars, MailboxClose
<1>2. /\ stable' \in [Callers -> SUBSET Consumers]
      /\ slice.len \in Nat /\ slice.arr \in Nat /\ Len(arrays) \in Nat
  BY SMTT(60), <1>0, <1>1 DEF BusPart, CallPart, Slices, SliceInv
<1>3. CallPart'
  BY ZenonT(60), <1>0, <1>1, <1>2, CallPartStays
<1>4. PICK k \in Int : /\ unregPC' = [unregPC EXCEPT ![c] = k]
                       /\ \/ /\ k \in 1 .. slice.len /\ arrays[slice.arr][k] = c /\ mu' = c
                             /\ UNCHANGED <<mbClosed, chClosed>>
                          \/ /\ k = -1 /\ c \notin registered /\ mu' = NoConsumer
                             /\ mbClosed' = [m \in Mailboxes |-> mbClosed[m] \/ m \in {c}]
                             /\ chClosed' = [m \in Mailboxes |-> chClosed[m] \/ m \in {c}]
  BY <1>1 DEF UnregisterLock, MailboxClose, mailboxVars
<1>5. \A e \in Consumers : unregPC'[e] = IF e = c THEN k ELSE unregPC[e]
  BY ZenonT(60), <1>0, <1>4 DEF BusPart
<1>6. unregPC' \in [Consumers -> Int] /\ k # 0
  BY <1>0, <1>4 DEF BusPart
<1>7. BusPart'
  BY ZenonT(60), <1>0, <1>1, <1>4, <1>6 DEF BusPart
<1>8. Active' = Active \ {c} /\ c \in Active
  BY Zenon, <1>1, <1>5, <1>6 DEF Active
<1>9. SliceInv'
  <2>1. Places = 1 .. slice.len
    BY ZenonT(60), <1>1, <1>2 DEF Places
  <2>2. /\ \A i, j \in 1 .. slice.len : arrays[slice.arr][i] = arrays[slice.arr][j] => i = j
        /\ \A i \in 1 .. slice.len : arrays[slice.arr][i] \in Active
        /\ closePC # "closed" => \A e \in Active : \E i \in 1 .. slice.len : arrays[slice.arr][i] = e
        /\ \A e \in Consumers : unregPC[e] > 0 => mu = e
        /\ \A e \in Consumers : consPC[e] = "new" => unregPC[e] = 0
        /\ slice.arr \in 0 .. Len(arrays)
        /\ slice.len <= IF slice.arr = 0 THEN 0 ELSE Len(arrays[slice.arr])
    BY SMTT(60), <1>0, <2>1 DEF SliceInv
  <2>3. CASE k \in 1 .. slice.len /\ arrays[slice.arr][k] = c /\ mu' = c
    <3>1. Places' = (1 .. slice.len) \ {k}
      BY ZenonT(60), <1>1, <1>5, <2>3 DEF Places
    <3>2. \A i \in Places' : arrays[slice.arr][i] \in Active'
      BY ZenonT(60), <1>8, <2>2, <2>3, <3>1
    <3>3. closePC # "closed" => \A e \in Active' : \E i \in Places' : arrays[slice.arr][i] = e
      BY Zenon, <1>8, <2>2, <2>3, <3>1
    <3>4. /\ mu' # NoConsumer => unregPC'[mu'] \in 1 .. slice.len
          /\ \A e \in Consumers : unregPC'[e] > 0 => mu' = e
          /\ \A e \in Consumers : consPC[e] = "new" => unregPC'[e] = 0
      BY SMTT(60), <1>0, <1>1, <1>5, <2>2, <2>3 DEF BusPart
    <3> QED BY ZenonT(60), <1>1, <2>2, <3>1, <3>2, <3>3, <3>4 DEF SliceInv
  <2>4. CASE k = -1 /\ c \notin registered /\ mu' = NoConsumer
    <3>1. Places' = 1 .. slice.len
      BY Zenon, <1>1, <2>4 DEF Places
    <3>2. \A i \in 1 .. slice.len : arrays[slice.arr][i] # c
      BY Zenon, <2>4 DEF registered, Elements
    <3>3. \A i \in Places' : arrays[slice.arr][i] \in Active'
      BY Zenon, <1>8, <2>2, <3>1, <3>2
    <3>4. closePC # "closed" => \A e \in Active' : \E i \in Places' : arrays[slice.arr][i] = e
      BY Zenon, <1>8, <2>2, <3>1
    <3>5. \A e \in Consumers : unregPC'[e] > 0 => mu' = e
      <4>1. \A e \in Consumers : ~(unregPC[e] > 0)
        BY Zenon, <1>1, <2>2
      <4>2. ~(k > 0)
        BY SMTT(60), <2>4
      <4> QED BY Zenon, <1>5, <4>1, <4>2
    <3>6. \A e \in Consumers : consPC[e] = "new" => unregPC'[e] = 0
      BY Zenon, <1>1, <1>5, <2>2
    <3> QED BY Zenon, <1>1, <2>2, <2>4, <3>1, <3>3, <3>4, <3>5, <3>6 DEF SliceInv
  <2> QED BY Zenon, <1>4, <2>3, <2>4
<1>10. SnapInv'
  BY Zenon, <1>0, <1>1, SameArrays, SnapFrame
<1>11. PublishInv'
  BY Zenon, <1>0, <1>5, <1>6, PublishFrame DEF Quiet
<1>12. \A e \in Consumers : All(e)' = All(e)
  BY Zenon, <1>1 DEF All
<1>13. OrderInv'
  BY <1>0, <1>1, <1>3, <1>7, <1>12, OrderFrame DEF CallPart
<1> QED BY Zenon, <1>3, <1>7, <1>9, <1>10, <1>11, <1>13 DEF Safe

LEMMA UnregisterShiftSafe ==
  ASSUME Safe, NEW c \in Consumers, UnregisterShift(c)
  PROVE  Safe'
<1> USE EventBusAssumption
<1>0. BusPart /\ CallPart /\ SliceInv /\ SnapInv /\ PublishInv /\ OrderInv
  BY Zenon DEF Safe
<1> DEFINE i == unregPC[c]
<1>1. /\ mu = c /\ i \in 1 .. slice.len
      /\ UNCHANGED <<ch, sendCounter, closePC, handled, consPC>>
      /\ UNCHANGED <<pc, kind, calls, snap, idx, cur, result, got, full, stable>>
  BY Zenon, <1>0 DEF UnregisterShift, mailboxVars, MailboxClose, callVars, SliceInv
<1>2. /\ slice.len \in Nat /\ slice.arr \in Nat /\ Len(arrays) \in Nat /\ i \in Int /\ slice \in Slices
      /\ slice.arr \in 1 .. Len(arrays) /\ slice.len <= Len(arrays[slice.arr]) /\ arrays \in Arrays
  BY <1>0, <1>1 DEF BusPart, Slices, SliceInv, Arrays
<1>3. CallPart'
  BY Zenon, <1>0, <1>1, CallPartStays DEF CallPart
<1>4. Places = (1 .. slice.len) \ {i}
  BY Zenon, <1>1 DEF Places
<1>5. /\ \A j, k \in (1 .. slice.len) \ {i} : arrays[slice.arr][j] = arrays[slice.arr][k] => j = k
      /\ \A j \in (1 .. slice.len) \ {i} : arrays[slice.arr][j] \in Active
      /\ closePC # "closed" => \A e \in Active : \E j \in (1 .. slice.len) \ {i} : arrays[slice.arr][j] = e
      /\ \A e \in Consumers : unregPC[e] > 0 => e = c
      /\ \A e \in Consumers : consPC[e] = "new" => unregPC[e] = 0
  BY Zenon, <1>0, <1>1, <1>4 DEF SliceInv
<1>6. CASE /\ i < slice.len
           /\ arrays' = [arrays EXCEPT ![slice.arr][unregPC[c]] = arrays[slice.arr][unregPC[c] + 1]]
           /\ unregPC' = [unregPC EXCEPT ![c] = @ + 1]
           /\ UNCHANGED <<slice, mu, mailboxVars>>
  <2>1. /\ arrays' \in Arrays /\ Grown(arrays, arrays') /\ Len(arrays') = Len(arrays)
        /\ \A a \in 1 .. Len(arrays) : Len(arrays'[a]) = Len(arrays[a])
        /\ \A j \in 1 .. slice.len : arrays'[slice.arr][j] = IF j = i THEN arrays[slice.arr][i + 1] ELSE arrays[slice.arr][j]
    BY ZenonT(60), <1>0, <1>1, <1>6, ShiftMoves DEF SnapInv
  <2>2. \A e \in Consumers : unregPC'[e] = IF e = c THEN i + 1 ELSE unregPC[e]
    BY Zenon, <1>0, <1>6 DEF BusPart
  <2>3. UNCHANGED <<slice, mu, mbClosed, chClosed>> /\ unregPC' \in [Consumers -> Int]
    BY SMTT(60), <1>0, <1>2, <1>6 DEF BusPart, mailboxVars
  <2>4. BusPart'
    BY Zenon, <1>0, <1>1, <2>1, <2>3 DEF BusPart, Arrays
  <2>5. Active' = Active
    BY <1>1, <1>2, <2>2 DEF Active
  <2>6. Places' = (1 .. slice.len) \ {i + 1}
    BY Zenon, <1>1, <2>2, <2>3 DEF Places
  <2> HIDE DEF i
  <2> DEFINE from(j) == IF j = i THEN i + 1 ELSE j
  <2>a. \A j \in Places' : from(j) \in (1 .. slice.len) \ {i} /\ j \in 1 .. slice.len
    BY SMTT(60), <1>1, <1>2, <1>6, <2>6
  <2>b. \A j \in Places' : arrays'[slice.arr][j] = arrays[slice.arr][from(j)]
    BY Zenon, <2>1, <2>a
  <2>c. \A j, k \in Places' : from(j) = from(k) => j = k
    BY Zenon, <1>2, <2>6
  <2> HIDE DEF from
  <2>7. \A j \in Places' : arrays'[slice.arr][j] \in Active'
    BY Zenon, <1>5, <2>5, <2>a, <2>b
  <2>8. \A j, k \in Places' : arrays'[slice.arr][j] = arrays'[slice.arr][k] => j = k
    BY <1>5, <2>a, <2>b, <2>c
  <2>9. closePC # "closed" => \A e \in Active' : \E j \in Places' : arrays'[slice.arr][j] = e
    <3> SUFFICES ASSUME closePC # "closed", NEW e \in Active' PROVE \E j \in Places' : arrays'[slice.arr][j] = e
      BY Zenon
    <3>1. PICK j \in (1 .. slice.len) \ {i} : arrays[slice.arr][j] = e
      BY Zenon, <1>5, <2>5
    <3>2. CASE j = i + 1
      BY Zenon, <1>1, <1>2, <2>1, <2>6, <3>1, <3>2
    <3>3. CASE j # i + 1
      BY Zenon, <2>1, <2>6, <3>1, <3>3
    <3> QED BY Zenon, <3>2, <3>3
  <2>10. /\ unregPC'[mu] \in 1 .. slice.len
         /\ \A e \in Consumers : unregPC'[e] > 0 => mu = e
         /\ \A e \in Consumers : consPC[e] = "new" => unregPC'[e] = 0
    BY SMTT(60), <1>1, <1>2, <1>5, <1>6, <2>2 DEF i
  <2>11. SliceInv'
    BY SMTT(60), <1>1, <1>2, <2>1, <2>3, <2>7, <2>8, <2>9, <2>10 DEF SliceInv
  <2>12. SnapInv'
    <3>1. Shows(arrays', slice')
      BY Zenon, <1>0, <1>2, <2>1, <2>3, ShowsIs, GrownShows DEF SnapInv
    <3> QED BY Zenon, <1>0, <1>1, <2>1, <3>1, SnapFrame
  <2>13. ~Quiet'
    BY <1>1, <1>2, <2>2 DEF Quiet
  <2>14. PublishInv'
    BY <1>0, <2>13, PublishFrame
  <2>15. \A e \in Consumers : All(e)' = All(e)
    BY <1>1 DEF All
  <2>16. OrderInv'
    BY SMTT(60), <1>0, <1>1, <1>3, <2>4, <2>15, OrderFrame DEF CallPart
  <2> QED BY Zenon, <1>3, <2>4, <2>11, <2>12, <2>14, <2>16 DEF Safe
<1>7. CASE /\ i = slice.len
           /\ slice' = [slice EXCEPT !.len = @ - 1]
           /\ MailboxClose({c})
           /\ mu' = NoConsumer
           /\ unregPC' = [unregPC EXCEPT ![c] = -1]
           /\ UNCHANGED arrays
  <2>1. /\ slice'.len = slice.len - 1 /\ slice'.arr = slice.arr /\ slice' \in Slices
        /\ slice.len >= 1 /\ unregPC' \in [Consumers -> Int]
    <3>1. slice.len >= 1 /\ slice.len - 1 \in Nat
      BY <1>1, <1>2
    <3>2. slice'.len = slice.len - 1 /\ slice'.arr = slice.arr
      BY Zenon, <1>2, <1>7 DEF Slices
    <3>3. slice' \in Slices
      BY Zenon, <1>2, <1>7, <3>1 DEF Slices
    <3>4. unregPC' \in [Consumers -> Int]
      BY <1>0, <1>7 DEF BusPart
    <3> QED BY Zenon, <3>1, <3>2, <3>3, <3>4
  <2>2. \A e \in Consumers : unregPC'[e] = IF e = c THEN -1 ELSE unregPC[e]
    BY Zenon, <1>0, <1>7 DEF BusPart
  <2>3. BusPart'
    BY Zenon, <1>0, <1>1, <1>7, <2>1 DEF BusPart, MailboxClose
  <2>4. Active' = Active
    BY <1>1, <1>2, <2>2 DEF Active
  <2>5. Places' = (1 .. slice.len) \ {i}
    BY SMTT(60), <1>1, <1>2, <1>7, <2>1 DEF Places
  <2>6. /\ \A e \in Consumers : unregPC'[e] > 0 => mu' = e
        /\ \A e \in Consumers : consPC[e] = "new" => unregPC'[e] = 0
    BY <1>1, <1>2, <1>5, <2>2 DEF i
  <2> HIDE DEF i
  <2>7. SliceInv'
    BY <1>1, <1>2, <1>5, <1>7, <2>1, <2>4, <2>5, <2>6 DEF SliceInv
  <2>8. SnapInv'
    <3>1. arrays' \in Arrays /\ Grown(arrays, arrays')
      BY <1>2, <1>7 DEF Arrays, Grown
    <3>2. Shows(arrays', slice')
      BY SMTT(60), <1>0, <1>2, <1>7, <2>1, ShowsIs DEF Shows, SnapInv
    <3> QED BY Zenon, <1>0, <1>1, <3>1, <3>2, SnapFrame
  <2>9. ~Quiet'
    BY <2>2 DEF Quiet
  <2>10. PublishInv'
    BY Zenon, <1>0, <2>9, PublishFrame
  <2>11. \A e \in Consumers : All(e)' = All(e)
    BY Zenon, <1>1 DEF All
  <2>12. OrderInv'
    BY <1>0, <1>1, <1>3, <2>3, <2>11, OrderFrame DEF CallPart
  <2> QED BY Zenon, <1>3, <2>3, <2>7, <2>8, <2>10, <2>12 DEF Safe
<1> QED BY Zenon, <1>6, <1>7 DEF UnregisterShift
=============================================================================
