------------------------- MODULE EventBusCallProofs -------------------------
(* Proofs about the event bus: Publish and Send, and what follows. *)
EXTENDS EventBusProofs, FiniteSetTheorems

-----------------------------------------------------------------------------
(* The calls.  A step of one caller leaves the others where they are. *)

Others(p) ==
  \A q \in Callers : q # p =>
    /\ pc'[q] = pc[q] /\ kind'[q] = kind[q] /\ calls'[q] = calls[q] /\ snap'[q] = snap[q] /\ idx'[q] = idx[q]
    /\ cur'[q] = cur[q] /\ result'[q] = result[q] /\ got'[q] = got[q] /\ full'[q] = full[q] /\ stable'[q] = stable[q]

SnapOf(p) ==
  /\ WellFormed(snap[p])
  /\ pc[p] # "idle" => idx[p] >= 1 /\ calls[p] >= 1
  /\ pc[p] = "publish" => kind[p] = "publish"
  /\ pc[p] = "send" => kind[p] = "send"
  /\ pc[p] = "select" => kind[p] # "none" /\ cur[p] \in Consumers

Exact(p) ==
  Returned(p, "publish", "nil") => \A c \in Consumers : got[p][c] = IF c \in stable[p] \ full[p] THEN 1 ELSE 0

PublishOf(p) ==
  /\ kind[p] = "publish" /\ pc[p] \in {"publish", "select"} => MidPublish(p)
  /\ Exact(p)

LEMMA SnapOfAll == SnapInv <=> WellFormed(slice) /\ \A p \in Callers : SnapOf(p)
BY Zenon DEF SnapInv, SnapOf

LEMMA PublishOfAll ==
  PublishInv <=> (Quiet => (\A c \in Consumers : ~mbClosed[c]) /\ \A p \in Callers : PublishOf(p))
<1>1. Quiet => (PublishIsExact <=> \A p \in Callers : Exact(p))
  BY Zenon DEF PublishIsExact, Exact, Quiet
<1> QED BY <1>1, Zenon DEF PublishInv, PublishOf

LEMMA SnapOfAllPrime == SnapInv' <=> WellFormed(slice)' /\ \A p \in Callers : SnapOf(p)'
BY Zenon DEF SnapInv, SnapOf

LEMMA PublishOfAllPrime ==
  PublishInv' <=> (Quiet' => (\A c \in Consumers : ~mbClosed'[c]) /\ \A p \in Callers : PublishOf(p)')
<1>1. Quiet' => (PublishIsExact' <=> \A p \in Callers : Exact(p)')
  BY Zenon DEF PublishIsExact, Exact, Quiet
<1> QED BY <1>1, Zenon DEF PublishInv, PublishOf

LEMMA CallerFrame ==
  ASSUME Safe, NEW p \in Callers, BusPart', CallPart', OrderInv',
         UNCHANGED <<mbClosed, arrays, slice, mu, closePC, consPC, unregPC>>, Others(p),
         SnapOf(p)', Quiet => PublishOf(p)'
  PROVE  Safe'
<1>0. BusPart /\ CallPart /\ SliceInv /\ SnapInv /\ PublishInv /\ OrderInv
  BY Zenon DEF Safe
<1>1. SliceInv'
  BY Zenon, <1>0, SliceFrame
<1>2. ASSUME NEW q \in Callers, q # p PROVE SnapOf(q)'
  <2>1. SnapOf(q)
    BY Zenon, <1>0, SnapOfAll
  <2>2. /\ pc'[q] = pc[q] /\ kind'[q] = kind[q] /\ calls'[q] = calls[q] /\ snap'[q] = snap[q]
        /\ idx'[q] = idx[q] /\ cur'[q] = cur[q]
    BY Zenon, <1>2 DEF Others
  <2> QED BY Zenon, <2>1, <2>2 DEF SnapOf, WellFormed
<1>3. WellFormed(slice)'
  BY Zenon, <1>0 DEF SnapInv, WellFormed
<1>4. SnapInv'
  BY Zenon, <1>2, <1>3, SnapOfAllPrime
<1>5. ASSUME NEW q \in Callers, q # p, Quiet PROVE PublishOf(q)'
  <2>1. PublishOf(q)
    BY Zenon, <1>0, <1>5, PublishOfAll
  <2>2. /\ pc'[q] = pc[q] /\ kind'[q] = kind[q] /\ snap'[q] = snap[q] /\ idx'[q] = idx[q] /\ stable'[q] = stable[q]
        /\ cur'[q] = cur[q] /\ result'[q] = result[q] /\ got'[q] = got[q] /\ full'[q] = full[q]
    BY ZenonT(60), <1>5 DEF Others
  <2>3. MidPublish(q) => MidPublish(q)'
    BY <2>2 DEF MidPublish, Elements, Reached
  <2> QED BY Zenon, <2>1, <2>2, <2>3 DEF PublishOf, Exact, Returned
<1>6. Quiet' => Quiet
  BY Zenon DEF Quiet
<1>7. PublishInv'
  BY Zenon, <1>0, <1>5, <1>6, PublishOfAll, PublishOfAllPrime
<1> QED BY Zenon, <1>1, <1>4, <1>7 DEF Safe

LEMMA CallSafe ==
  ASSUME Safe, NEW p \in Callers, NEW k \in Kinds, Call(p, k)
  PROVE  Safe'
<1> USE EventBusAssumption
<1>0. BusPart /\ CallPart /\ SliceInv /\ SnapInv /\ PublishInv /\ OrderInv
  BY Zenon DEF Safe
<1>1. /\ pc[p] = "idle" /\ calls[p] < MaxCalls /\ mu = NoConsumer
      /\ pc' = [pc EXCEPT ![p] = k] /\ kind' = [kind EXCEPT ![p] = k]
      /\ calls' = [calls EXCEPT ![p] = @ + 1] /\ snap' = [snap EXCEPT ![p] = slice]
      /\ idx' = [idx EXCEPT ![p] = 1] /\ result' = [result EXCEPT ![p] = "none"]
      /\ got' = [got EXCEPT ![p] = [c \in Consumers |-> 0]] /\ full' = [full EXCEPT ![p] = {}]
      /\ stable' = [stable EXCEPT ![p] = registered]
      /\ UNCHANGED <<mbClosed, chClosed, ch, arrays, slice, mu, closePC, consPC, unregPC, handled, sendCounter, cur>>
  BY Zenon DEF Call, CallUnchanged, mailboxVars
<1>2. BusPart'
  BY Zenon, <1>0, <1>1 DEF BusPart
<1>3. registered \in SUBSET Consumers /\ slice \in Slices /\ WellFormed(slice)
  BY <1>0 DEF registered, Elements, SnapInv, WellFormed, BusPart, Slices
<1>4. CallPart'
  <2>1. /\ pc' \in [Callers -> {"idle", "publish", "send", "select", "panic"}]
        /\ kind' \in [Callers -> {"none", "publish", "send"}] /\ calls' \in [Callers -> 0 .. MaxCalls]
    BY <1>0, <1>1 DEF CallPart
  <2>2. snap' \in [Callers -> Slices] /\ idx' \in [Callers -> Nat]
    BY Zenon, <1>0, <1>1, <1>3 DEF CallPart
  <2>3. /\ result' \in [Callers -> {"none", "nil", "err", "noHandlers", "timeout"}]
        /\ got' \in [Callers -> [Consumers -> Nat]]
    BY Zenon, <1>0, <1>1 DEF CallPart
  <2>4. full' \in [Callers -> SUBSET Consumers] /\ stable' \in [Callers -> SUBSET Consumers]
    BY Zenon, <1>0, <1>1, <1>3 DEF CallPart
  <2> QED BY Zenon, <1>0, <1>1, <2>1, <2>2, <2>3, <2>4 DEF CallPart
<1>5. Others(p)
  BY Zenon, <1>0, <1>1 DEF Others, CallPart
<1>6. /\ pc'[p] = k /\ kind'[p] = k /\ calls'[p] = calls[p] + 1 /\ snap'[p] = slice /\ idx'[p] = 1
      /\ result'[p] = "none" /\ got'[p] = [c \in Consumers |-> 0] /\ full'[p] = {} /\ stable'[p] = registered
      /\ k \in {"publish", "send"}
  BY Zenon, <1>0, <1>1 DEF CallPart
<1>7. OrderInv'
  <2>1. \A e \in Consumers : All(e)' = All(e)
    BY Zenon, <1>1 DEF All
  <2>2. \A q \in Callers : calls'[q] >= calls[q]
    BY SMTT(60), <1>0, <1>1 DEF CallPart
  <2> QED BY Zenon, <1>0, <1>2, <1>4, <2>1, <2>2, OrderFrame
<1>8. SnapOf(p)'
  <2>1. calls'[p] >= 1
    BY SMTT(60), <1>0, <1>6 DEF CallPart
  <2> QED BY SMTT(60), <1>1, <1>3, <1>6, <2>1 DEF SnapOf, WellFormed
<1>9. MidPublish(p)'
  <2>1. Places = 1 .. slice.len
    BY Zenon, <1>1 DEF Places
  <2>2. \A i, j \in 1 .. slice.len : arrays[slice.arr][i] = arrays[slice.arr][j] => i = j
    BY Zenon, <1>0, <2>1 DEF SliceInv
  <2>3. \A c : ~Reached(p, c)'
    BY <1>6 DEF Reached
  <2>4. Elements(snap[p])' = registered
    BY <1>1, <1>6 DEF registered, Elements
  <2>5. slice.len \in Nat
    BY Zenon, <1>3 DEF Slices
  <2> QED BY <1>1, <1>6, <2>2, <2>3, <2>4, <2>5 DEF MidPublish
<1>10. PublishOf(p)'
  BY Zenon, <1>6, <1>9 DEF PublishOf, Exact, Returned
<1> QED BY Zenon, <1>1, <1>2, <1>4, <1>5, <1>7, <1>8, <1>10, CallerFrame

Picks(p, c, r, label) ==
  /\ c \in Consumers \cup {NoConsumer} /\ label \in {"idle", "select"}
  /\ r \in {"none", "nil", "err", "noHandlers", "timeout"}
  /\ pc' = [pc EXCEPT ![p] = label] /\ result' = [result EXCEPT ![p] = r] /\ cur' = [cur EXCEPT ![p] = c]
  /\ label = "select" => c \in Consumers
  /\ pc[p] = "publish" => \/ label = "idle" /\ r = "nil" /\ idx[p] > snap[p].len
                          \/ label = "idle" /\ \E e \in Consumers : mbClosed[e]
                          \/ label = "select" /\ idx[p] <= snap[p].len /\ c = arrays[snap[p].arr][idx[p]]

(* A step of the range or of the round robin: the caller returns, or goes   *)
(* on to the select of one of the consumers its snapshot shows.             *)
LEMMA PickSafe ==
  ASSUME Safe, NEW p \in Callers, PublishNext(p) \/ SendPick(p)
  PROVE  Safe'
<1> USE EventBusAssumption
<1>0. BusPart /\ CallPart /\ SliceInv /\ SnapInv /\ PublishInv /\ OrderInv
  BY Zenon DEF Safe
<1>1. /\ UNCHANGED <<mbClosed, chClosed, ch, arrays, slice, mu, closePC, consPC, unregPC, handled>>
      /\ UNCHANGED <<kind, calls, snap, idx, got, full, stable>>
      /\ sendCounter' = sendCounter \/ sendCounter' = sendCounter + 1
  BY Zenon DEF PublishNext, SendPick, CallUnchanged, mailboxVars
<1>2. SnapOf(p) /\ snap[p] \in Slices /\ idx[p] \in Nat /\ sendCounter' \in Nat /\ snap[p].len \in Nat
  BY SMTT(60), <1>0, <1>1, SnapOfAll DEF CallPart, Slices
<1>a. \E c, r, label : Picks(p, c, r, label)
  <2>1. result = [result EXCEPT ![p] = result[p]] /\ cur = [cur EXCEPT ![p] = cur[p]]
    BY Zenon, <1>0 DEF CallPart
  <2>2. result[p] \in {"none", "nil", "err", "noHandlers", "timeout"} /\ cur[p] \in Consumers \cup {NoConsumer}
    BY Zenon, <1>0 DEF CallPart
  <2>3. \A i \in 1 .. snap[p].len : arrays[snap[p].arr][i] \in Consumers
    BY SMTT(60), <1>2 DEF SnapOf, WellFormed
  <2>4. CASE PublishNext(p)
    <3>1. CASE idx[p] > snap[p].len /\ Return(p, "nil") /\ UNCHANGED cur
      <4>a. Picks(p, cur[p], "nil", "idle")
        BY Zenon, <2>1, <2>2, <3>1 DEF Return, Picks
      <4> QED BY <4>a, Zenon
    <3>2. CASE idx[p] <= snap[p].len /\ SendCheck(p, arrays[snap[p].arr][idx[p]])
      <4> DEFINE x == arrays[snap[p].arr][idx[p]]
      <4>1. x \in Consumers
        BY <1>2, <2>3, <2>4, <3>2 DEF SnapOf, PublishNext
      <4>2. CASE mbClosed[x] /\ Return(p, IF ctxDone THEN "err" ELSE "nil")
        <5>a. Picks(p, x, (IF ctxDone THEN "err" ELSE "nil"), "idle")
          BY Zenon, <3>2, <4>1, <4>2 DEF Return, SendCheck, Picks
        <5> QED BY <5>a, Zenon
      <4>3. CASE ~mbClosed[x] /\ pc' = [pc EXCEPT ![p] = "select"] /\ UNCHANGED result
        <5>a. Picks(p, x, result[p], "select")
          BY Zenon, <2>1, <2>2, <3>2, <4>1, <4>3 DEF SendCheck, Picks
        <5> QED BY <5>a, Zenon
      <4> QED BY Zenon, <3>2, <4>2, <4>3 DEF SendCheck
    <3> QED BY Zenon, <2>4, <3>1, <3>2 DEF PublishNext
  <2>5. CASE SendPick(p)
    <3>0. pc[p] # "publish"
      BY Zenon, <2>5 DEF SendPick
    <3>1. CASE snap[p].len = 0 /\ Return(p, "noHandlers") /\ UNCHANGED <<cur, sendCounter>>
      <4>a. Picks(p, cur[p], "noHandlers", "idle")
        BY Zenon, <2>1, <2>2, <3>0, <3>1 DEF Return, Picks
      <4> QED BY <4>a, Zenon
    <3>2. CASE snap[p].len > 0 /\ SendCheck(p, arrays[snap[p].arr][(sendCounter' % snap[p].len) + 1])
      <4> DEFINE j == (sendCounter' % snap[p].len) + 1
                 x == arrays[snap[p].arr][j]
      <4>1. j \in 1 .. snap[p].len
        BY <1>2, <3>2
      <4>2. x \in Consumers
        BY Zenon, <2>3, <4>1
      <4> HIDE DEF j
      <4>3. CASE mbClosed[x] /\ Return(p, IF ctxDone THEN "err" ELSE "nil")
        <5>a. Picks(p, x, (IF ctxDone THEN "err" ELSE "nil"), "idle")
          BY Zenon, <3>0, <3>2, <4>2, <4>3 DEF Return, SendCheck, j, Picks
        <5> QED BY <5>a, Zenon
      <4>4. CASE ~mbClosed[x] /\ pc' = [pc EXCEPT ![p] = "select"] /\ UNCHANGED result
        <5>a. Picks(p, x, result[p], "select")
          BY Zenon, <2>1, <2>2, <3>0, <3>2, <4>2, <4>4 DEF SendCheck, j, Picks
        <5> QED BY <5>a, Zenon
      <4> QED BY Zenon, <3>2, <4>3, <4>4 DEF SendCheck, j
    <3> QED BY Zenon, <2>5, <3>1, <3>2 DEF SendPick
  <2> QED BY Zenon, <2>4, <2>5
<1>b. PICK c, r, label : Picks(p, c, r, label)
  BY <1>a, Zenon
<1>3. /\ c \in Consumers \cup {NoConsumer} /\ label \in {"idle", "select"}
      /\ r \in {"none", "nil", "err", "noHandlers", "timeout"}
      /\ pc' = [pc EXCEPT ![p] = label] /\ result' = [result EXCEPT ![p] = r] /\ cur' = [cur EXCEPT ![p] = c]
      /\ label = "select" => c \in Consumers
      /\ pc[p] = "publish" => \/ label = "idle" /\ idx[p] > snap[p].len
                              \/ label = "idle" /\ \E e \in Consumers : mbClosed[e]
                              \/ label = "select" /\ idx[p] <= snap[p].len /\ c = arrays[snap[p].arr][idx[p]]
  BY <1>b, Zenon DEF Picks
<1>4. BusPart'
  BY Zenon, <1>0, <1>1 DEF BusPart
<1>5. CallPart'
  BY Zenon, <1>0, <1>1, <1>2, <1>3 DEF CallPart
<1>6. Others(p)
  BY <1>0, <1>1, <1>3 DEF Others, CallPart
<1>7. \A e \in Consumers : All(e)' = All(e)
  BY Zenon, <1>1 DEF All
<1>8. OrderInv'
  BY SMTT(60), <1>0, <1>1, <1>4, <1>5, <1>7, OrderFrame DEF CallPart
<1>9. pc'[p] = label /\ result'[p] = r /\ cur'[p] = c /\ pc[p] \in {"publish", "send"}
  BY ZenonT(60), <1>0, <1>3 DEF CallPart, PublishNext, SendPick
<1>10. calls[p] >= 1
  BY ZenonT(60), <1>2, <1>9 DEF SnapOf
<1>11. SnapOf(p)'
  BY Zenon, <1>1, <1>2, <1>3, <1>9, <1>10 DEF SnapOf, WellFormed
<1>12. ASSUME Quiet PROVE PublishOf(p)'
  <2>1. PublishOf(p) /\ \A e \in Consumers : ~mbClosed[e]
    BY Zenon, <1>0, <1>12, PublishOfAll
  <2>2. CASE kind[p] # "publish"
    BY SMTT(60), <1>1, <2>2 DEF PublishOf, Exact, Returned
  <2>3. CASE kind[p] = "publish"
    <3>1. pc[p] = "publish" /\ MidPublish(p)
      BY Zenon, <1>2, <1>9, <2>1, <2>3 DEF SnapOf, PublishOf
    <3>2. \A e : Reached(p, e)' <=> Reached(p, e)
      BY ZenonT(60), <1>1 DEF Reached
    <3>3. Elements(snap[p])' = Elements(snap[p])
      BY Zenon, <1>1 DEF Elements
    <3>4. CASE label = "select" /\ idx[p] <= snap[p].len /\ c = arrays[snap[p].arr][idx[p]]
      <4>1. MidPublish(p)'
        BY ZenonT(60), <1>1, <1>9, <3>1, <3>2, <3>3, <3>4 DEF MidPublish
      <4> QED BY Zenon, <1>9, <3>4, <4>1 DEF PublishOf, Exact, Returned
    <3>5. CASE label = "idle" /\ idx[p] > snap[p].len
      <4>1. idx[p] - 1 = snap[p].len
        BY <1>2, <3>1, <3>5 DEF MidPublish
      <4>2. \A e : Reached(p, e) <=> e \in stable[p]
        BY <3>1, <4>1 DEF Reached, MidPublish, Elements
      <4>3. Exact(p)'
        BY Zenon, <1>1, <3>1, <4>2 DEF Exact, MidPublish
      <4> QED BY Zenon, <1>9, <3>5, <4>3 DEF PublishOf
    <3> QED BY Zenon, <1>3, <2>1, <3>1, <3>4, <3>5
  <2> QED BY Zenon, <2>2, <2>3
<1> QED BY Zenon, <1>1, <1>4, <1>5, <1>6, <1>8, <1>11, <1>12, CallerFrame

LEMMA QueuedAll ==
  ASSUME BusPart, NEW c \in Consumers, NEW x \in Messages, ch' = [ch EXCEPT ![c] = Append(@, x)], UNCHANGED handled
  PROVE  All(c)' = Append(All(c), x)
<1>1. handled[c] \in Seq(Messages) /\ ch[c] \in Seq(Messages)
  BY Zenon DEF BusPart
<1>2. All(c)' = handled[c] \o Append(ch[c], x)
  BY Zenon DEF All, BusPart
<1>3. \A h, q \in Seq(Messages) : h \o Append(q, x) = Append(h \o q, x)
  BY ConcatAppend
<1>4. handled[c] \o Append(ch[c], x) = Append(handled[c] \o ch[c], x)
  BY ZenonT(60), <1>1, <1>3
<1> QED BY Zenon, <1>2, <1>4 DEF All

(* The select queues the message of the current call to one consumer. *)
LEMMA QueuedOrder ==
  ASSUME OrderInv, BusPart, CallPart, NEW p \in Callers, NEW c \in Consumers, calls[p] >= 1,
         ch' = [ch EXCEPT ![c] = Append(@, <<p, calls[p]>>)], UNCHANGED <<handled, calls>>
  PROVE  OrderInv'
<1> DEFINE m == <<p, calls[p]>>
<1>0. m \in Messages /\ m[1] = p /\ m[2] = calls[p] /\ calls[p] \in Nat /\ calls \in [Callers -> Nat]
  BY SMTT(60), EventBusAssumption DEF Messages, CallPart
<1>1. /\ handled[c] \in Seq(Messages) /\ ch[c] \in Seq(Messages) /\ All(c) \in Seq(Messages)
      /\ \A e \in Consumers : All(e) \in Seq(Messages)
  BY Zenon, ConcatProperties DEF All, BusPart
<1>2. ASSUME NEW e \in Consumers, e # c PROVE All(e)' = All(e)
  BY Zenon, <1>2 DEF All, BusPart
<1> HIDE DEF m
<1>4. All(c)' = Append(All(c), m)
  <2>1. m \in Messages /\ ch' = [ch EXCEPT ![c] = Append(@, m)]
    BY Zenon, <1>0 DEF m
  <2> QED BY ZenonT(60), <2>1, QueuedAll
<1> DEFINE A == All(c)  n == Len(A)
<1>5. /\ n \in Nat /\ Len(All(c)') = n + 1 /\ DOMAIN All(c)' = 1 .. n + 1 /\ DOMAIN A = 1 .. n
      /\ \A i \in 1 .. n : All(c)'[i] = A[i]
      /\ All(c)'[n + 1] = m
  BY <1>0, <1>1, <1>4, AppendProperties, LenProperties
<1>6. \A i \in 1 .. n : A[i] \in Messages /\ A[i][2] <= calls[A[i][1]]
  BY Zenon, <1>1, <1>5, ElementOfSeq DEF OrderInv, All
<1>7. \A i, j \in 1 .. n : i < j /\ A[i][1] = A[j][1] => A[i][2] <= A[j][2]
  BY Zenon, <1>5 DEF OrderInv, HandledInOrder, All
<1> HIDE DEF A, n
<1>8. \A i \in 1 .. n + 1 : All(c)'[i][2] <= calls[All(c)'[i][1]]
  BY <1>0, <1>5, <1>6
<1>9. ASSUME NEW i \in 1 .. n + 1, NEW j \in 1 .. n + 1, i < j, All(c)'[i][1] = All(c)'[j][1]
      PROVE  All(c)'[i][2] <= All(c)'[j][2]
  <2>1. i \in 1 .. n
    BY <1>5, <1>9
  <2>2. CASE j = n + 1
    <3>1. All(c)'[j] = m /\ All(c)'[i] = A[i]
      BY Zenon, <1>5, <2>1, <2>2
    <3> QED BY Zenon, <1>0, <1>6, <1>9, <2>1, <3>1
  <2>3. CASE j # n + 1
    BY SMTT(60), <1>5, <1>7, <1>9, <2>1, <2>3
  <2> QED BY Zenon, <2>2, <2>3
<1>10. ASSUME NEW e \in Consumers
       PROVE  /\ \A i \in DOMAIN All(e)' : All(e)'[i][2] <= calls[All(e)'[i][1]]
              /\ \A i, j \in DOMAIN All(e)' : i < j /\ All(e)'[i][1] = All(e)'[j][1] => All(e)'[i][2] <= All(e)'[j][2]
  <2>1. CASE e = c
    BY Zenon, <1>5, <1>8, <1>9, <2>1
  <2>2. CASE e # c
    <3>1. /\ \A i \in DOMAIN All(e) : All(e)[i][2] <= calls[All(e)[i][1]]
          /\ \A i, j \in DOMAIN All(e) : i < j /\ All(e)[i][1] = All(e)[j][1] => All(e)[i][2] <= All(e)[j][2]
      BY Zenon DEF OrderInv, HandledInOrder, All
    <3>2. All(e)' = All(e)
      BY Zenon, <1>2, <2>2
    <3> QED BY Zenon, <3>1, <3>2
  <2> QED BY Zenon, <2>1, <2>2
<1> QED BY ZenonT(60), <1>10 DEF OrderInv, HandledInOrder, All

LEMMA SelectSafe ==
  ASSUME Safe, NEW p \in Callers, SendSelect(p)
  PROVE  Safe'
<1> USE EventBusAssumption
<1>0. BusPart /\ CallPart /\ SliceInv /\ SnapInv /\ PublishInv /\ OrderInv
  BY Zenon DEF Safe
<1>1. /\ pc[p] = "select"
      /\ UNCHANGED <<mbClosed, chClosed, arrays, slice, mu, closePC, consPC, unregPC, handled>>
      /\ UNCHANGED <<sendCounter, kind, calls, snap, cur, stable>>
  BY Zenon DEF SendSelect, CallUnchanged, mailboxVars, Selected, SelectedFull, SelectedClosed, SendCase, SendDefault, SendPanics
<1>2. SnapOf(p) /\ cur[p] \in Consumers /\ calls[p] >= 1 /\ snap[p] \in Slices /\ idx[p] \in Nat /\ snap[p].len \in Nat
  BY Zenon, <1>0, <1>1, SnapOfAll DEF SnapOf, CallPart, Slices
<1> DEFINE c == cur[p]
(* What the three branches of the select have in common. *)
<1>3. /\ pc' \in [Callers -> {"idle", "publish", "send", "select", "panic"}] /\ idx' \in [Callers -> Nat]
      /\ result' \in [Callers -> {"none", "nil", "err", "noHandlers", "timeout"}]
      /\ \A q \in Callers : q # p => pc'[q] = pc[q] /\ idx'[q] = idx[q] /\ result'[q] = result[q]
      /\ pc'[p] = "publish" => kind[p] = "publish" /\ idx'[p] = idx[p] + 1
      /\ pc'[p] # "publish" => pc'[p] \in {"idle", "panic"} /\ idx'[p] = idx[p]
      /\ pc'[p] = "idle" => kind[p] = "send"
  <2>1. CASE kind[p] = "publish" /\ pc' = [pc EXCEPT ![p] = "publish"] /\ idx' = [idx EXCEPT ![p] = @ + 1] /\ UNCHANGED result
    BY <1>0, <1>2, <2>1 DEF CallPart
  <2>2. CASE kind[p] = "send" /\ (Return(p, "nil") \/ Return(p, "timeout")) /\ UNCHANGED idx
    BY Zenon, <1>0, <1>2, <2>2 DEF CallPart, Return
  <2>3. CASE pc' = [pc EXCEPT ![p] = "panic"] /\ UNCHANGED <<idx, result>>
    BY Zenon, <1>0, <1>2, <2>3 DEF CallPart
  <2> QED BY <2>1, <2>2, <2>3 DEF SendSelect, Selected, SelectedFull, SelectedClosed
<1>4. /\ ch' \in [Consumers -> Seq(Messages)] /\ OrderInv'
      /\ got' \in [Callers -> [Consumers -> Nat]] /\ full' \in [Callers -> SUBSET Consumers]
      /\ \A q \in Callers : q # p => got'[q] = got[q] /\ full'[q] = full[q]
      /\ \/ got'[p] = [got[p] EXCEPT ![c] = @ + 1] /\ full'[p] = full[p]
         \/ got'[p] = got[p] /\ full'[p] = full[p] \cup {c}
         \/ pc'[p] = "panic"
  <2>0. <<p, calls[p]>> \in Messages
    BY <1>0, <1>2 DEF Messages, CallPart
  <2>1. CASE Selected(p)
    <3>1. /\ ch' = [ch EXCEPT ![c] = Append(@, <<p, calls[p]>>)]
          /\ got' = [got EXCEPT ![p][c] = @ + 1] /\ full' = full
      BY Zenon, <2>1 DEF Selected, SendCase
    <3>2. OrderInv'
      BY ZenonT(60), <1>0, <1>1, <1>2, <3>1, QueuedOrder
    <3>3. ch' \in [Consumers -> Seq(Messages)]
      BY <1>0, <1>2, <2>0, <3>1, AppendProperties DEF BusPart
    <3>4. /\ got' \in [Callers -> [Consumers -> Nat]] /\ got'[p] = [got[p] EXCEPT ![c] = @ + 1]
          /\ \A q \in Callers : q # p => got'[q] = got[q]
      BY <1>0, <1>2, <3>1 DEF CallPart
    <3> QED BY Zenon, <1>0, <3>1, <3>2, <3>3, <3>4 DEF CallPart
  <2>2. CASE SelectedFull(p)
    <3>1. ch' = ch /\ got' = got /\ full' = [full EXCEPT ![p] = @ \cup {c}]
      BY ZenonT(60), <2>2 DEF SelectedFull, SendDefault, mailboxVars
    <3>2. OrderInv'
      BY ZenonT(60), <1>0, <1>1, <3>1 DEF OrderInv, HandledInOrder
    <3> QED BY Zenon, <1>0, <1>2, <3>1, <3>2 DEF CallPart, BusPart
  <2>3. CASE SelectedClosed(p)
    <3>1. ch' = ch /\ got' = got /\ full' = full /\ pc' = [pc EXCEPT ![p] = "panic"]
      BY ZenonT(60), <2>3 DEF SelectedClosed, SendPanics, mailboxVars
    <3>2. OrderInv'
      BY ZenonT(60), <1>0, <1>1, <3>1 DEF OrderInv, HandledInOrder
    <3> QED BY Zenon, <1>0, <3>1, <3>2 DEF CallPart, BusPart
  <2> QED BY Zenon, <2>1, <2>2, <2>3 DEF SendSelect
<1>5. BusPart'
  BY Zenon, <1>0, <1>1, <1>4 DEF BusPart
<1>6. CallPart'
  BY Zenon, <1>0, <1>1, <1>3, <1>4 DEF CallPart
<1>7. Others(p)
  BY ZenonT(60), <1>1, <1>3, <1>4 DEF Others
<1>8. SnapOf(p)'
  BY <1>1, <1>2, <1>3 DEF SnapOf, WellFormed
<1>9. ASSUME Quiet PROVE PublishOf(p)'
  <2>1. CASE pc'[p] = "publish"
    <3>1. kind[p] = "publish" /\ idx'[p] = idx[p] + 1 /\ MidPublish(p)
      BY Zenon, <1>0, <1>1, <1>3, <1>9, <2>1, PublishOfAll DEF PublishOf
    <3>2. idx[p] \in 1 .. snap[p].len /\ c = arrays[snap[p].arr][idx[p]]
      BY <1>1, <1>2, <3>1 DEF MidPublish, SnapOf
    <3>3. \A e : Reached(p, e)' <=> Reached(p, e) \/ e = c
      <4>1. 1 .. idx'[p] - 1 = (1 .. idx[p] - 1) \cup {idx[p]}
        BY SMTT(60), <3>1, <3>2
      <4> QED BY Zenon, <1>1, <3>2, <4>1 DEF Reached
    <3>4. ~Reached(p, c) /\ c \notin full[p]
      <4>1. \A i \in 1 .. idx[p] - 1 : i \in 1 .. snap[p].len /\ i # idx[p]
        BY SMTT(60), <1>2, <3>2
      <4>2. ~Reached(p, c)
        BY Zenon, <3>1, <3>2, <4>1 DEF Reached, MidPublish
      <4> QED BY Zenon, <3>1, <4>2 DEF MidPublish
    <3>5. \A e \in full'[p] : Reached(p, e)'
      BY <1>4, <2>1, <3>1, <3>3 DEF MidPublish
    <3>6. \A e \in Consumers : got'[p][e] = IF Reached(p, e)' /\ e \notin full'[p] THEN 1 ELSE 0
      <4>1. \A e \in Consumers : got[p][e] = IF Reached(p, e) /\ e \notin full[p] THEN 1 ELSE 0
        BY Zenon, <3>1 DEF MidPublish
      <4>2. got[p] \in [Consumers -> Nat]
        BY Zenon, <1>0 DEF CallPart
      <4>3. CASE got'[p] = [got[p] EXCEPT ![c] = @ + 1] /\ full'[p] = full[p]
        BY SMTT(60), <1>2, <3>3, <3>4, <4>1, <4>2, <4>3
      <4>4. CASE got'[p] = got[p] /\ full'[p] = full[p] \cup {c}
        BY Zenon, <3>3, <3>4, <4>1, <4>4
      <4> QED BY ZenonT(60), <1>4, <2>1, <4>3, <4>4
    <3>7. Elements(snap[p])' = Elements(snap[p])
      BY Zenon, <1>1 DEF Elements
    <3>8. MidPublish(p)'
      BY <1>1, <1>2, <2>1, <3>1, <3>2, <3>5, <3>6, <3>7 DEF MidPublish
    <3> QED BY Zenon, <2>1, <3>8 DEF PublishOf, Exact, Returned
  <2>2. CASE pc'[p] # "publish"
    BY Zenon, <1>1, <1>3, <2>2 DEF PublishOf, Exact, Returned
  <2> QED BY Zenon, <2>1, <2>2
<1> QED BY Zenon, <1>1, <1>4, <1>5, <1>6, <1>7, <1>8, <1>9, CallerFrame

-----------------------------------------------------------------------------
LEMMA BusInvIs == BusInv <=> Safe
BY TypeParts, Zenon DEF BusInv, Safe

LEMMA BusInvIsPrime == BusInv' <=> Safe'
BY TypePartsPrime, Zenon DEF BusInv, Safe

LEMMA BusInit == Init => BusInv
<1> SUFFICES ASSUME Init PROVE BusInv
  BY Zenon
<1> USE EventBusAssumption
<1>1. BusTypeOK
  BY Zenon, BusTypeInit
<1>2. /\ arrays = <<>> /\ slice = NoSlice /\ mu = NoConsumer /\ closePC = "idle"
      /\ unregPC = [c \in Consumers |-> 0] /\ consPC = [c \in Consumers |-> "new"]
      /\ pc = [p \in Callers |-> "idle"] /\ kind = [p \in Callers |-> "none"] /\ snap = [p \in Callers |-> NoSlice]
      /\ handled = [c \in Consumers |-> <<>>] /\ ch = [c \in Consumers |-> <<>>]
      /\ mbClosed = [c \in Consumers |-> FALSE]
  BY Zenon DEF Init, NewBoundedMailbox
<1>3. SliceInv
  BY SMTT(60), <1>2 DEF SliceInv, Places, Active, NoSlice
<1>4. SnapInv
  BY <1>2 DEF SnapInv, WellFormed, NoSlice
<1>5. PublishInv
  BY Zenon, <1>2 DEF PublishInv, PublishIsExact, Returned
<1>6. OrderInv
  <2>1. \A c \in Consumers : handled[c] \o ch[c] = <<>>
    BY <1>2
  <2>2. DOMAIN <<>> = {}
    OBVIOUS
  <2>3. \A c \in Consumers : DOMAIN (handled[c] \o ch[c]) = {}
    BY <2>1, <2>2, Zenon
  <2> QED BY <2>3, Zenon DEF OrderInv, HandledInOrder
<1> QED BY Zenon, <1>1, <1>3, <1>4, <1>5, <1>6 DEF BusInv

LEMMA BusStep == BusInv /\ [Next]_vars => BusInv'
<1> SUFFICES ASSUME Safe, [Next]_vars PROVE Safe'
  BY BusInvIs, BusInvIsPrime
<1>1. ASSUME NEW c \in Consumers,
             Consumer(c) \/ Handler(c) \/ ConsumerStep(c) \/ UnregisterLock(c) \/ UnregisterShift(c)
      PROVE  Safe'
  BY Zenon, <1>1, ConsumerSafe, HandlerSafe, ConsumerStepSafe, UnregisterLockSafe, UnregisterShiftSafe
<1>2. ASSUME NEW p \in Callers, CallStep(p) \/ \E k \in Kinds : Call(p, k)
      PROVE  Safe'
  BY Zenon, <1>2, CallSafe, PickSafe, SelectSafe DEF CallStep
<1>3. ASSUME CloseCancel \/ CloseStep PROVE Safe'
  BY Zenon, <1>3, CloseSafe, CloseMailboxesSafe DEF CloseStep
<1>4. CASE UNCHANGED vars
  <2>1. /\ UNCHANGED <<mbClosed, chClosed, ch, arrays, slice, mu, sendCounter, unregPC, handled, consPC, closePC>>
        /\ UNCHANGED <<pc, kind, calls, snap, idx, cur, result, got, full, stable>>
    BY Zenon, <1>4 DEF vars, mailboxVars, busVars, callVars
  <2> QED BY Zenon, <2>1, QuietStepSafe DEF Safe, BusPart
<1> QED BY Zenon, <1>1, <1>2, <1>3, <1>4 DEF Next

(* The slice of consumers, the snapshots of it that callers range over and  *)
(* the queues of the consumers stay consistent, for any number of consumers *)
(* and callers and however their steps interleave.                          *)
THEOREM BusInvariant == Spec => []BusInv
BY BusInit, BusStep, PTL DEF Spec

(* Whenever nobody is inside Unregister, the slice lists each consumer that *)
(* is registered once, although Consumer appends in place and Unregister    *)
(* shifts element by element.                                               *)
THEOREM ConsumersStayExact == Spec => []ConsumersExact
<1>1. BusInv => ConsumersExact
  <2> SUFFICES ASSUME BusInv, mu = NoConsumer
               PROVE  /\ slice.len = Cardinality(registered)
                      /\ closePC # "closed" => registered = {c \in Consumers : consPC[c] # "new" /\ unregPC[c] = 0}
    BY Zenon DEF ConsumersExact
  <2>1. SliceInv /\ slice.len \in Nat /\ Places = 1 .. slice.len
    BY Zenon DEF BusInv, BusTypeOK, Slices, Places
  <2>2. closePC # "closed" => registered = {c \in Consumers : consPC[c] # "new" /\ unregPC[c] = 0}
    BY <2>1 DEF SliceInv, registered, Elements, Active
  <2> DEFINE f == [i \in 1 .. slice.len |-> arrays[slice.arr][i]]
  <2>3. f \in [1 .. slice.len -> registered]
    BY Zenon DEF registered, Elements
  <2>4. \A i, j \in 1 .. slice.len : f[i] = f[j] => i = j
    BY Zenon, <2>1 DEF SliceInv
  <2>5. \A c \in registered : \E i \in 1 .. slice.len : f[i] = c
    BY Zenon DEF registered, Elements
  <2> HIDE DEF f
  <2>6. f \in Bijection(1 .. slice.len, registered)
    BY Zenon, <2>3, <2>4, <2>5 DEF Bijection, Injection, Surjection, IsInjective
  <2>7. IsFiniteSet(1 .. slice.len) /\ Cardinality(1 .. slice.len) = slice.len
    BY <2>1, FS_Interval
  <2>8. ExistsBijection(1 .. slice.len, registered)
    BY Zenon, <2>6 DEF ExistsBijection
  <2>9. Cardinality(registered) = slice.len
    BY Zenon, <2>7, <2>8, FS_Bijection
  <2> QED BY Zenon, <2>2, <2>9
<1> QED BY <1>1, BusInvariant, PTL

(* A Publish that returned nil reached every consumer of its snapshot once  *)
(* but for the full ones, and nobody else, while consumers register; as     *)
(* long as nobody has unregistered and the bus is open.                     *)
THEOREM PublishStaysExact == Spec => []PublishIsExact
<1>1. BusInv => PublishIsExact
  <2>1. ASSUME BusInv, Quiet PROVE PublishIsExact
    BY Zenon, <2>1 DEF BusInv, PublishInv
  <2>2. ASSUME ~Quiet PROVE PublishIsExact
    BY <2>2, Zenon DEF PublishIsExact, Quiet
  <2> QED BY Zenon, <2>1, <2>2
<1> QED BY <1>1, BusInvariant, PTL

(* A consumer gets the messages of one caller in the order of its calls. *)
THEOREM OrderIsKept == Spec => []HandledInOrder
<1>1. BusInv => HandledInOrder
  BY Zenon DEF BusInv, OrderInv
<1> QED BY <1>1, BusInvariant, PTL
=============================================================================
