--------------------------- MODULE ServiceProofs ----------------------------
(***************************************************************************)
(* Theorems about ConnServer, WorkerPool and WebServer.                    *)
(***************************************************************************)
EXTENDS ConnServer, WorkerPool, WebServer, TLAPS, FiniteSetTheorems
-----------------------------------------------------------------------------
(***************************************************************************)
(* The counters of a connection server, for any number of accept           *)
(* goroutines, workers and connections and any capacity of the mailbox.    *)
(***************************************************************************)
One(b) == IF b THEN 1 ELSE 0

LEMMA CountMoves ==
  ASSUME NEW A, IsFiniteSet(A), NEW S \in SUBSET A, NEW T \in SUBSET A, NEW a \in A,
         \A x \in A \ {a} : x \in S <=> x \in T
  PROVE  /\ Cardinality(S) \in Nat /\ Cardinality(T) \in Nat
         /\ Cardinality(T) = Cardinality(S) + One(a \in T) - One(a \in S)
  <1>1. IsFiniteSet(S) /\ IsFiniteSet(T) /\ Cardinality(S) \in Nat /\ Cardinality(T) \in Nat
    BY Zenon, FS_Subset, FS_CardinalityType
  <1>2. CASE (a \in S) <=> (a \in T)
    <2>1. S = T
      BY <1>2
    <2> QED BY <1>1, <2>1 DEF One
  <1>3. CASE a \in S /\ a \notin T
    <2>1. S = T \cup {a}
      BY Zenon, <1>3
    <2>2. Cardinality(S) = Cardinality(T) + 1
      BY Zenon, <1>1, <1>3, <2>1, FS_AddElement
    <2> QED BY <1>1, <1>3, <2>2 DEF One
  <1>4. CASE a \notin S /\ a \in T
    <2>1. T = S \cup {a}
      BY Zenon, <1>4
    <2>2. Cardinality(T) = Cardinality(S) + 1
      BY Zenon, <1>1, <1>4, <2>1, FS_AddElement
    <2> QED BY <1>1, <1>4, <2>2 DEF One
  <1> QED BY Zenon, <1>2, <1>3, <1>4

LEMMA SumMoves ==
  \A u, v, w, n, m \in Nat, p, q, l \in Int :
    l = p + m - n => /\ u + n + w + l = (u + p) + m + w
                     /\ u + n + w + v + l + q = (u + p) + m + w + (v + q)
  OBVIOUS

AcceptTypes ==
  /\ acceptPC \in [Acceptors -> {"accept", "slot", "upgrade", "admit", "sendflag", "send", "count", "ended"}]
  /\ acceptConn \in [Acceptors -> Conns \cup {NoConn}]
  /\ \A a \in Acceptors : /\ acceptPC[a] = "accept" => acceptConn[a] = NoConn
                          /\ acceptConn[a] = NoConn => acceptPC[a] \in {"accept", "ended"}
WorkTypes ==
  /\ workPC \in [ConnWorkers -> {"flag", "receive", "handle", "read", "release", "ended"}]
  /\ workConn \in [ConnWorkers -> Conns \cup {NoConn}]
  /\ \A w \in ConnWorkers : workConn[w] # NoConn <=> workPC[w] \in {"handle", "read", "release"}
QueueTypes == ch \in [Mailboxes -> Seq(Conns)] /\ activeConns \in Int /\ dialing \subseteq Conns

LEMMA SlotParts == SlotInv => AcceptTypes /\ WorkTypes /\ QueueTypes /\ SlotsExact
  BY Zenon DEF SlotInv, AcceptTypes, WorkTypes, QueueTypes

LEMMA SlotPartsNext == AcceptTypes' /\ WorkTypes' /\ QueueTypes' /\ SlotsExact' => SlotInv'
  BY Zenon DEF SlotInv, AcceptTypes, WorkTypes, QueueTypes

Adds(a, l) ==
  /\ l = One(a \in PastAdmission') - One(a \in PastAdmission) + Len(ch'[Queue]) - Len(ch[Queue])
  /\ load' = load + l
  /\ kind # "udp" => /\ activeConns' = activeConns + l + One(a \in Slotted') - One(a \in Slotted)
                     /\ activeConns' <= MaxConns

(* What a step of the goroutine a adds to the counters is what it adds to  *)
(* the places.                                                             *)
LEMMA AcceptorCounts ==
  ASSUME SlotInv, NEW a \in Acceptors, NEW pc, NEW c,
         acceptPC' = [acceptPC EXCEPT ![a] = pc], acceptConn' = [acceptConn EXCEPT ![a] = c],
         AcceptTypes', QueueTypes', UNCHANGED <<kind, workPC, workConn>>, NEW l \in Int, Adds(a, l)
  PROVE  SlotInv'
  <1>0. AcceptTypes /\ WorkTypes /\ QueueTypes /\ SlotsExact
    BY Zenon, SlotParts
  <1>1. \A b \in Acceptors \ {a} : acceptPC'[b] = acceptPC[b] /\ acceptConn'[b] = acceptConn[b]
    BY Zenon, <1>0 DEF AcceptTypes
  <1>2. /\ PastAdmission \in SUBSET Acceptors /\ PastAdmission' \in SUBSET Acceptors
        /\ Slotted \in SUBSET Acceptors /\ Slotted' \in SUBSET Acceptors
        /\ \A b \in Acceptors \ {a} : /\ b \in PastAdmission <=> b \in PastAdmission'
                                      /\ b \in Slotted <=> b \in Slotted'
    BY Zenon, <1>1 DEF PastAdmission, Slotted
  <1>3. /\ Cardinality(PastAdmission) \in Nat /\ Cardinality(PastAdmission') \in Nat
        /\ Cardinality(PastAdmission') = Cardinality(PastAdmission) + One(a \in PastAdmission') - One(a \in PastAdmission)
    BY ZenonT(60), <1>2, CountMoves, ConnAssumption
  <1>4. /\ Cardinality(Slotted) \in Nat /\ Cardinality(Slotted') \in Nat
        /\ Cardinality(Slotted') = Cardinality(Slotted) + One(a \in Slotted') - One(a \in Slotted)
    BY ZenonT(60), <1>2, CountMoves, ConnAssumption
  <1>5. Working' = Working /\ WorkTypes'
    BY Zenon, <1>0 DEF Working, WorkTypes
  <1>6. Cardinality(Working) \in Nat
    <2>1. Working \subseteq ConnWorkers
      BY Zenon DEF Working
    <2> QED BY Zenon, <2>1, ConnAssumption, FS_Subset, FS_CardinalityType
  <1>7. Len(ch[Queue]) \in Nat /\ Len(ch'[Queue]) \in Nat
    BY <1>0, ConnAssumption DEF QueueTypes
  <1>8. PICK p \in Int, q \in Int, n \in Nat, m \in Nat :
          /\ p = One(a \in PastAdmission') - One(a \in PastAdmission) /\ q = One(a \in Slotted') - One(a \in Slotted)
          /\ n = Len(ch[Queue]) /\ m = Len(ch'[Queue])
    <2>1. /\ One(a \in PastAdmission') - One(a \in PastAdmission) \in Int
          /\ One(a \in Slotted') - One(a \in Slotted) \in Int
      BY DEF One
    <2> QED BY Zenon, <1>7, <2>1
  <1>a. l = p + m - n
    BY Zenon, <1>8 DEF One, Adds
  <1>e. load' = load + l /\ (kind # "udp" => activeConns' = activeConns + l + q)
    BY Zenon, <1>0, <1>8 DEF One, QueueTypes, Adds
  <1>b. Cardinality(PastAdmission') = Cardinality(PastAdmission) + p /\ Cardinality(Slotted') = Cardinality(Slotted) + q
    BY Zenon, <1>3, <1>4, <1>8 DEF One
  <1>c. /\ load = Cardinality(PastAdmission) + n + Cardinality(Working)
        /\ kind # "udp" => activeConns = Cardinality(PastAdmission) + n + Cardinality(Working) + Cardinality(Slotted)
    BY Zenon, <1>0, <1>8 DEF SlotsExact
  <1>d. /\ load' = Cardinality(PastAdmission') + m + Cardinality(Working)
        /\ kind # "udp" => activeConns' = Cardinality(PastAdmission') + m + Cardinality(Working) + Cardinality(Slotted')
    <2>1. PICK u \in Nat, v \in Nat, w \in Nat :
            u = Cardinality(PastAdmission) /\ v = Cardinality(Slotted) /\ w = Cardinality(Working)
      BY Zenon, <1>3, <1>4, <1>6
    <2>a. load = u + n + w /\ (kind # "udp" => activeConns = u + n + w + v)
      BY Zenon, <1>c, <2>1
    <2>b. u + n + w + l = (u + p) + m + w /\ u + n + w + v + l + q = (u + p) + m + w + (v + q)
      BY <1>a
    <2>2. load' = (u + p) + m + w
      BY Zenon, <1>e, <2>a, <2>b
    <2>3. kind # "udp" => activeConns' = (u + p) + m + w + (v + q)
      BY Zenon, <1>e, <2>a, <2>b
    <2> QED BY Zenon, <1>b, <2>1, <2>2, <2>3
  <1>9. SlotsExact'
    BY Zenon, <1>5, <1>8, <1>d DEF SlotsExact, Adds
  <1> QED BY Zenon, <1>5, <1>9, SlotPartsNext

IsPast(pc, c) == pc \in {"sendflag", "send"} \/ (pc = "ended" /\ c # NoConn)
IsSlotted(pc) == pc \in {"upgrade", "admit"}
GoesTo(a, pc, c) == /\ acceptPC' = [acceptPC EXCEPT ![a] = pc] /\ acceptConn' = [acceptConn EXCEPT ![a] = c]
                    /\ pc = "accept" => c = NoConn
                    /\ c = NoConn => pc \in {"accept", "ended"}
AcceptPCs == {"accept", "slot", "upgrade", "admit", "sendflag", "send", "count", "ended"}

LEMMA AcceptorGoes ==
  ASSUME SlotInv, NEW a \in Acceptors, NEW pc \in AcceptPCs, NEW c \in Conns \cup {NoConn}, GoesTo(a, pc, c)
  PROVE  /\ AcceptTypes'
         /\ acceptPC' = [acceptPC EXCEPT ![a] = pc] /\ acceptConn' = [acceptConn EXCEPT ![a] = c]
         /\ a \in PastAdmission' <=> IsPast(pc, c)
         /\ a \in PastAdmission <=> IsPast(acceptPC[a], acceptConn[a])
         /\ a \in Slotted' <=> IsSlotted(pc)
         /\ a \in Slotted <=> IsSlotted(acceptPC[a])
  <1>0. AcceptTypes
    BY Zenon, SlotParts
  <1>1. acceptPC'[a] = pc /\ acceptConn'[a] = c
    BY Zenon, <1>0 DEF AcceptTypes, GoesTo
  <1>2. AcceptTypes'
    BY Zenon, <1>0 DEF AcceptTypes, GoesTo, AcceptPCs
  <1> QED BY Zenon, <1>1, <1>2 DEF PastAdmission, Slotted, IsPast, IsSlotted, GoesTo

(* A step that does not touch the mailbox. *)
LEMMA AcceptorMoves ==
  ASSUME SlotInv, NEW a \in Acceptors, NEW pc \in AcceptPCs, NEW c \in Conns \cup {NoConn}, GoesTo(a, pc, c),
         UNCHANGED <<kind, workPC, workConn, ch>>, activeConns' \in Int, dialing' \subseteq Conns,
         NEW l \in Int, l = One(IsPast(pc, c)) - One(IsPast(acceptPC[a], acceptConn[a])), load' = load + l,
         kind # "udp" => /\ activeConns' = activeConns + l + One(IsSlotted(pc)) - One(IsSlotted(acceptPC[a]))
                         /\ activeConns' <= MaxConns
  PROVE  SlotInv'
  <1>1. /\ AcceptTypes'
        /\ acceptPC' = [acceptPC EXCEPT ![a] = pc] /\ acceptConn' = [acceptConn EXCEPT ![a] = c]
        /\ a \in PastAdmission' <=> IsPast(pc, c)
        /\ a \in PastAdmission <=> IsPast(acceptPC[a], acceptConn[a])
        /\ a \in Slotted' <=> IsSlotted(pc)
        /\ a \in Slotted <=> IsSlotted(acceptPC[a])
    BY Zenon, AcceptorGoes
  <1>2. QueueTypes /\ QueueTypes'
    BY Zenon, SlotParts DEF QueueTypes
  <1>3. Len(ch[Queue]) \in Nat
    BY <1>2, ConnAssumption DEF QueueTypes
  <1>4. /\ One(a \in PastAdmission') = One(IsPast(pc, c)) /\ One(a \in Slotted') = One(IsSlotted(pc))
        /\ One(a \in PastAdmission) = One(IsPast(acceptPC[a], acceptConn[a]))
        /\ One(a \in Slotted) = One(IsSlotted(acceptPC[a]))
    BY Zenon, <1>1 DEF One
  <1>5. l = l + Len(ch[Queue]) - Len(ch[Queue])
    BY <1>3
  <1>6. Adds(a, l)
    <2>1. l = One(a \in PastAdmission') - One(a \in PastAdmission) + Len(ch[Queue]) - Len(ch[Queue])
      BY Zenon, <1>4, <1>5
    <2>2. ch' = ch
      BY Zenon
    <2> QED BY Zenon, <1>4, <2>1, <2>2 DEF Adds
  <1> QED BY Zenon, <1>1, <1>2, <1>6, AcceptorCounts

LEMMA LoadIsInt ==
  SlotInv => load \in Int /\ Len(ch[Queue]) \in Nat /\ (kind # "udp" => activeConns <= MaxConns)
  <1> SUFFICES ASSUME SlotInv PROVE load \in Int /\ Len(ch[Queue]) \in Nat /\ (kind # "udp" => activeConns <= MaxConns)
    BY Zenon
  <1>0. QueueTypes /\ SlotsExact
    BY Zenon, SlotParts
  <1>1. PastAdmission \subseteq Acceptors /\ Working \subseteq ConnWorkers
    BY Zenon DEF PastAdmission, Working
  <1>2. Cardinality(PastAdmission) \in Nat /\ Cardinality(Working) \in Nat
    BY Zenon, <1>1, ConnAssumption, FS_Subset, FS_CardinalityType
  <1>3. Len(ch[Queue]) \in Nat
    BY <1>0, ConnAssumption DEF QueueTypes
  <1> QED BY <1>0, <1>2, <1>3 DEF SlotsExact

LEMMA AcceptorSlots ==
  ASSUME SlotInv, NEW a \in Acceptors,
         Accept(a) \/ AcceptEnds(a) \/ TryAcquireConnSlot(a) \/ Upgrade(a) \/ Admit(a) \/ SendFlag(a) \/ CountQueued(a)
  PROVE  SlotInv'
  <1>0. AcceptTypes /\ QueueTypes /\ SlotsExact /\ MaxConns \in Nat /\ NoConn \notin Conns
    BY Zenon, SlotParts, ConnAssumption
  <1>1. /\ acceptPC[a] = "accept" => acceptConn[a] = NoConn
        /\ acceptPC[a] \notin {"accept", "ended"} => acceptConn[a] \in Conns
        /\ acceptConn = [acceptConn EXCEPT ![a] = acceptConn[a]] /\ activeConns \in Int
    BY Zenon, <1>0 DEF AcceptTypes, QueueTypes
  <1>2. UNCHANGED <<kind, workPC, workConn, ch>>
    BY Zenon DEF Accept, AcceptEnds, TryAcquireConnSlot, Upgrade, Admit, SendFlag, CountQueued, acceptVars, mailboxVars
  <1>3. load \in Int /\ (kind # "udp" => activeConns <= MaxConns)
    BY Zenon, LoadIsInt
  <1>a. dialing' \subseteq Conns
    BY <1>0 DEF Accept, AcceptEnds, TryAcquireConnSlot, Upgrade, Admit, SendFlag, CountQueued, QueueTypes
  <1>4. CASE Accept(a)
    <2>1. PICK c \in Conns : /\ GoesTo(a, IF kind = "udp" THEN "admit" ELSE "slot", c) /\ acceptPC[a] = "accept"
                             /\ UNCHANGED <<load, activeConns>>
      BY Zenon, <1>0, <1>4 DEF Accept, AcceptGoto, GoesTo, QueueTypes
    <2> DEFINE pc == IF kind = "udp" THEN "admit" ELSE "slot"
    <2>2. /\ pc \in AcceptPCs /\ One(IsPast(pc, c)) = 0 /\ One(IsPast(acceptPC[a], acceptConn[a])) = 0
          /\ kind # "udp" => One(IsSlotted(pc)) = 0 /\ One(IsSlotted(acceptPC[a])) = 0
      BY <2>1 DEF One, IsPast, IsSlotted, AcceptPCs
    <2> HIDE DEF pc
    <2>3. 0 = One(IsPast(pc, c)) - One(IsPast(acceptPC[a], acceptConn[a])) /\ 0 \in Int /\ load' = load + 0
      BY <1>3, <2>1, <2>2
    <2>4. kind # "udp" => activeConns' = activeConns + 0 + One(IsSlotted(pc)) - One(IsSlotted(acceptPC[a]))
      BY <1>1, <2>1, <2>2
    <2> QED BY Zenon, <1>1, <1>2, <1>3, <1>a, <2>1, <2>2, <2>3, <2>4, AcceptorMoves DEF pc
  <1>5. CASE AcceptEnds(a)
    <2>1. GoesTo(a, "ended", NoConn) /\ acceptPC[a] = "accept" /\ UNCHANGED <<load, activeConns>>
      BY <1>1, <1>5 DEF AcceptEnds, AcceptGoto, GoesTo
    <2> QED BY <1>1, <1>2, <1>3, <1>a, <2>1, AcceptorMoves DEF One, IsPast, IsSlotted, AcceptPCs
  <1>6. CASE TryAcquireConnSlot(a)
    <2>1. ASSUME GoesTo(a, "accept", NoConn), acceptPC[a] = "slot", UNCHANGED <<load, activeConns>> PROVE SlotInv'
      BY <1>1, <1>2, <1>3, <1>a, <2>1, AcceptorMoves DEF One, IsPast, IsSlotted, AcceptPCs
    <2>2. ASSUME GoesTo(a, "upgrade", acceptConn[a]), acceptPC[a] = "slot", load' = load, activeConns' = activeConns + 1, activeConns < MaxConns PROVE SlotInv'
      BY <1>0, <1>1, <1>2, <1>3, <1>a, <2>2, AcceptorMoves DEF One, IsPast, IsSlotted, AcceptPCs
    <2>3. ASSUME GoesTo(a, "admit", acceptConn[a]), acceptPC[a] = "slot", load' = load, activeConns' = activeConns + 1, activeConns < MaxConns PROVE SlotInv'
      BY <1>0, <1>1, <1>2, <1>3, <1>a, <2>3, AcceptorMoves DEF One, IsPast, IsSlotted, AcceptPCs
    <2> QED BY Zenon, <1>0, <1>1, <1>6, <2>1, <2>2, <2>3 DEF TryAcquireConnSlot, NextAccept, AcceptGoto, GoesTo
  <1>7. CASE Upgrade(a)
    <2>1. ASSUME GoesTo(a, "admit", acceptConn[a]), acceptPC[a] = "upgrade", UNCHANGED <<load, activeConns>> PROVE SlotInv'
      BY <1>0, <1>1, <1>2, <1>3, <1>a, <2>1, AcceptorMoves DEF One, IsPast, IsSlotted, AcceptPCs
    <2>2. ASSUME GoesTo(a, "accept", NoConn), acceptPC[a] = "upgrade", load' = load, activeConns' = activeConns - 1 PROVE SlotInv'
      BY <1>0, <1>1, <1>2, <1>3, <1>a, <2>2, AcceptorMoves DEF One, IsPast, IsSlotted, AcceptPCs
    <2> QED BY Zenon, <1>0, <1>1, <1>7, <2>1, <2>2 DEF Upgrade, NextAccept, AcceptGoto, GoesTo
  <1>8. CASE Admit(a)
    <2>1. ASSUME GoesTo(a, "sendflag", acceptConn[a]), acceptPC[a] = "admit", load' = load + 1, activeConns' = activeConns PROVE SlotInv'
      BY <1>0, <1>1, <1>2, <1>3, <1>a, <2>1, AcceptorMoves DEF One, IsPast, IsSlotted, AcceptPCs
    <2>2. ASSUME GoesTo(a, "accept", NoConn), acceptPC[a] = "admit", load' = load, activeConns' = IF kind = "udp" THEN activeConns ELSE activeConns - 1 PROVE SlotInv'
      BY <1>0, <1>1, <1>2, <1>3, <1>a, <2>2, AcceptorMoves DEF One, IsPast, IsSlotted, AcceptPCs
    <2> QED BY Zenon, <1>0, <1>1, <1>8, <2>1, <2>2 DEF Admit, Refuse, NextAccept, AcceptGoto, GoesTo
  <1>9. CASE SendFlag(a)
    <2>1. ASSUME GoesTo(a, "send", acceptConn[a]), acceptPC[a] = "sendflag", UNCHANGED <<load, activeConns>> PROVE SlotInv'
      BY <1>0, <1>1, <1>2, <1>3, <1>a, <2>1, AcceptorMoves DEF One, IsPast, IsSlotted, AcceptPCs
    <2>2. ASSUME GoesTo(a, "accept", NoConn), acceptPC[a] = "sendflag", load' = load - 1, activeConns' = IF kind = "udp" THEN activeConns ELSE activeConns - 1 PROVE SlotInv'
      BY <1>0, <1>1, <1>2, <1>3, <1>a, <2>2, AcceptorMoves DEF One, IsPast, IsSlotted, AcceptPCs
    <2> QED BY Zenon, <1>0, <1>1, <1>9, <2>1, <2>2 DEF SendFlag, SendFails, Refuse, NextAccept, AcceptGoto, GoesTo
  <1>b. CASE CountQueued(a)
    <2>1. ASSUME GoesTo(a, "accept", NoConn), acceptPC[a] = "count", UNCHANGED <<load, activeConns>> PROVE SlotInv'
      BY <1>0, <1>1, <1>2, <1>3, <1>a, <2>1, AcceptorMoves DEF One, IsPast, IsSlotted, AcceptPCs
    <2> QED BY Zenon, <1>0, <1>1, <1>b, <2>1 DEF CountQueued, NextAccept, AcceptGoto, GoesTo
  <1> QED BY Zenon, <1>4, <1>5, <1>6, <1>7, <1>8, <1>9, <1>b

(* The send: the connection is in the mailbox, refused, or lost to a panic. *)
LEMMA EnqueueSlots ==
  ASSUME SlotInv, NEW a \in Acceptors, EnqueueConn(a)
  PROVE  SlotInv'
  <1>0. AcceptTypes /\ QueueTypes /\ SlotsExact /\ MaxConns \in Nat /\ NoConn \notin Conns /\ Queue \in Mailboxes
    BY Zenon, SlotParts, ConnAssumption
  <1>1. /\ acceptPC[a] = "send" /\ acceptConn[a] \in Conns /\ activeConns \in Int
        /\ acceptConn = [acceptConn EXCEPT ![a] = acceptConn[a]]
        /\ UNCHANGED <<kind, workPC, workConn, dialing>>
    BY Zenon, <1>0 DEF AcceptTypes, QueueTypes, EnqueueConn, acceptVars
  <1>2. load \in Int /\ Len(ch[Queue]) \in Nat /\ (kind # "udp" => activeConns <= MaxConns)
    BY Zenon, LoadIsInt
  <1>3. dialing' \subseteq Conns
    BY Zenon, <1>0, <1>1 DEF QueueTypes
  <1>4. CASE SendCase(Queue, acceptConn[a]) /\ AcceptGoto(a, "count") /\ UNCHANGED <<acceptConn, activeConns, load>>
    <2>1. GoesTo(a, "count", acceptConn[a])
      BY Zenon, <1>0, <1>1, <1>4 DEF GoesTo, AcceptGoto
    <2>2. QueueTypes' /\ Len(ch'[Queue]) = Len(ch[Queue]) + 1
      BY <1>0, <1>1, <1>3, <1>4 DEF QueueTypes, SendCase
    <2>3. /\ AcceptTypes' /\ a \notin PastAdmission' /\ a \in PastAdmission
          /\ a \notin Slotted' /\ a \notin Slotted
      BY Zenon, <1>1, <2>1, AcceptorGoes DEF AcceptPCs, IsPast, IsSlotted
    <2>4. Adds(a, 0)
      BY <1>1, <1>2, <1>4, <2>2, <2>3 DEF Adds, One
    <2>5. 0 \in Int /\ UNCHANGED <<kind, workPC, workConn>>
      BY <1>1
    <2> QED BY Zenon, <2>1, <2>2, <2>3, <2>4, <2>5, AcceptorCounts DEF GoesTo
  <1>5. ASSUME GoesTo(a, "accept", NoConn), UNCHANGED ch, load' = load - 1,
               activeConns' = IF kind = "udp" THEN activeConns ELSE activeConns - 1
        PROVE  SlotInv'
    BY <1>0, <1>1, <1>2, <1>3, <1>5, AcceptorMoves DEF One, IsPast, IsSlotted, AcceptPCs
  <1>6. ASSUME GoesTo(a, "ended", acceptConn[a]), UNCHANGED <<ch, load, activeConns>>
        PROVE  SlotInv'
    BY <1>0, <1>1, <1>2, <1>3, <1>6, AcceptorMoves DEF One, IsPast, IsSlotted, AcceptPCs
  <1>7. CASE SendDefault(Queue) /\ SendFails(a)
    BY Zenon, <1>5, <1>7 DEF SendDefault, mailboxVars, SendFails, Refuse, NextAccept, AcceptGoto, GoesTo
  <1>8. CASE SendPanics(Queue) /\ AcceptGoto(a, "ended") /\ UNCHANGED <<acceptConn, activeConns, load>>
    BY Zenon, <1>0, <1>1, <1>6, <1>8 DEF SendPanics, mailboxVars, AcceptGoto, GoesTo
  <1> QED BY Zenon, <1>4, <1>7, <1>8 DEF EnqueueConn

(* What a worker adds to the counters. *)
WorkAdds(w, l) ==
  /\ l = One(w \in Working') - One(w \in Working) + Len(ch'[Queue]) - Len(ch[Queue])
  /\ load' = load + l
  /\ kind # "udp" => activeConns' = activeConns + l /\ activeConns' <= MaxConns

LEMMA WorkerSums ==
  \A u, v, w, n, m \in Nat, p, l \in Int :
    l = p + m - n => /\ w + n + u + l = w + m + (u + p)
                     /\ w + n + u + v + l = w + m + (u + p) + v
  OBVIOUS

LEMMA WorkerCounts ==
  ASSUME SlotInv, NEW w \in ConnWorkers, NEW c, workConn' = [workConn EXCEPT ![w] = c],
         WorkTypes', QueueTypes', UNCHANGED <<kind, acceptPC, acceptConn>>, NEW l \in Int, WorkAdds(w, l)
  PROVE  SlotInv'
  <1>0. AcceptTypes /\ WorkTypes /\ QueueTypes /\ SlotsExact
    BY Zenon, SlotParts
  <1>1. PastAdmission' = PastAdmission /\ Slotted' = Slotted /\ AcceptTypes'
    BY Zenon, <1>0 DEF PastAdmission, Slotted, AcceptTypes
  <1>2. PastAdmission \subseteq Acceptors /\ Slotted \subseteq Acceptors
    BY Zenon DEF PastAdmission, Slotted
  <1>3. Cardinality(PastAdmission) \in Nat /\ Cardinality(Slotted) \in Nat
    BY Zenon, <1>2, ConnAssumption, FS_Subset, FS_CardinalityType
  <1>4. \A x \in ConnWorkers \ {w} : workConn'[x] = workConn[x]
    BY Zenon, <1>0 DEF WorkTypes
  <1>5. /\ Working \in SUBSET ConnWorkers /\ Working' \in SUBSET ConnWorkers
        /\ \A x \in ConnWorkers \ {w} : x \in Working <=> x \in Working'
    BY Zenon, <1>4 DEF Working
  <1>6. /\ Cardinality(Working) \in Nat /\ Cardinality(Working') \in Nat
        /\ Cardinality(Working') = Cardinality(Working) + One(w \in Working') - One(w \in Working)
    BY Zenon, <1>5, CountMoves, ConnAssumption
  <1>7. Len(ch[Queue]) \in Nat /\ Len(ch'[Queue]) \in Nat
    BY <1>0, ConnAssumption DEF QueueTypes
  <1>8. PICK p \in Int, n \in Nat, m \in Nat :
          /\ p = One(w \in Working') - One(w \in Working)
          /\ n = Len(ch[Queue]) /\ m = Len(ch'[Queue])
    <2>1. One(w \in Working') - One(w \in Working) \in Int
      BY DEF One
    <2> QED BY Zenon, <1>7, <2>1
  <1>9. PICK u \in Nat, v \in Nat, k \in Nat :
          u = Cardinality(Working) /\ v = Cardinality(Slotted) /\ k = Cardinality(PastAdmission)
    BY Zenon, <1>3, <1>6
  <1>a. l = p + m - n
    BY Zenon, <1>8 DEF One, WorkAdds
  <1>b. Cardinality(Working') = u + p
    BY Zenon, <1>6, <1>8, <1>9 DEF One
  <1>c. load = k + n + u /\ (kind # "udp" => activeConns = k + n + u + v)
    BY Zenon, <1>0, <1>8, <1>9 DEF SlotsExact
  <1>d. k + n + u + l = k + m + (u + p) /\ k + n + u + v + l = k + m + (u + p) + v
    BY <1>a
  <1>e. load' = k + m + (u + p) /\ (kind # "udp" => activeConns' = k + m + (u + p) + v /\ activeConns' <= MaxConns)
    BY Zenon, <1>c, <1>d DEF WorkAdds
  <1>f. SlotsExact'
    BY Zenon, <1>1, <1>8, <1>9, <1>b, <1>e DEF SlotsExact
  <1> QED BY Zenon, <1>1, <1>f, SlotPartsNext

LEMMA WorkerSlots ==
  ASSUME SlotInv, NEW w \in ConnWorkers, ConnWorkerStep(w) \/ ReadMessage(w) \/ PeerSends(w)
  PROVE  SlotInv'
  <1>0. WorkTypes /\ QueueTypes /\ MaxConns \in Nat /\ NoConn \notin Conns /\ Queue \in Mailboxes
    BY Zenon, SlotParts, ConnAssumption
  <1>1. /\ load \in Int /\ Len(ch[Queue]) \in Nat /\ activeConns \in Int
        /\ kind # "udp" => activeConns <= MaxConns
        /\ workConn = [workConn EXCEPT ![w] = workConn[w]]
        /\ UNCHANGED <<kind, acceptPC, acceptConn, dialing>>
    <2>1. UNCHANGED <<kind, acceptPC, acceptConn, dialing>>
      BY Zenon DEF ConnWorkerStep, ReadMessage, PeerSends, ReceiveFlag, Receive, ConnHandled, ReleaseConn, workVars
    <2> QED BY Zenon, <1>0, <2>1, LoadIsInt DEF WorkTypes, QueueTypes
  <1>2. ASSUME NEW pc \in {"flag", "receive", "handle", "read", "release", "ended"},
               workPC' = [workPC EXCEPT ![w] = pc], UNCHANGED <<workConn, ch, load, activeConns>>,
               pc \in {"handle", "read", "release"} <=> workPC[w] \in {"handle", "read", "release"}
        PROVE  SlotInv'
    <2>1. WorkTypes' /\ QueueTypes' /\ Working' = Working
      BY Zenon, <1>0, <1>1, <1>2 DEF WorkTypes, QueueTypes, Working
    <2>2. WorkAdds(w, 0)
      BY <1>1, <1>2, <2>1 DEF WorkAdds, One
    <2>3. 0 \in Int /\ UNCHANGED <<kind, acceptPC, acceptConn>> /\ workConn' = [workConn EXCEPT ![w] = workConn[w]]
      BY <1>1, <1>2
    <2> QED BY Zenon, <2>1, <2>2, <2>3, WorkerCounts
  <1>3. CASE ReceiveFlag(w) \/ ConnHandled(w) \/ ReadMessage(w) \/ PeerSends(w)
    BY Zenon, <1>2, <1>3 DEF ReceiveFlag, ConnHandled, ReadMessage, PeerSends, WorkGoto, mailboxVars
  <1>4. CASE Receive(w)
    <2>1. CASE WorkGoto(w, "ended") /\ UNCHANGED <<workConn, mailboxVars>>
      BY Zenon, <1>2, <1>4, <2>1 DEF Receive, WorkGoto, mailboxVars
    <2>2. ASSUME NEW c \in Conns, ReceiveCase(Queue, c), workConn' = [workConn EXCEPT ![w] = c],
                 NEW pc \in {"handle", "release"}, workPC' = [workPC EXCEPT ![w] = pc]
          PROVE  SlotInv'
      <3>1. WorkTypes' /\ w \in Working' /\ w \notin Working
        BY <1>0, <1>4, <2>2 DEF WorkTypes, Working, Receive
      <3>2. ch[Queue] \in Seq(Conns) /\ ch[Queue] # <<>> /\ ch' = [ch EXCEPT ![Queue] = Tail(@)]
        BY Zenon, <1>0, <2>2 DEF QueueTypes, ReceiveCase
      <3>3. Tail(ch[Queue]) \in Seq(Conns) /\ Len(Tail(ch[Queue])) = Len(ch[Queue]) - 1
        BY <3>2
      <3>4. UNCHANGED <<load, activeConns>>
        BY Zenon, <1>4 DEF Receive
      <3>5. QueueTypes' /\ Len(ch'[Queue]) = Len(ch[Queue]) - 1
        BY Zenon, <1>0, <1>1, <3>2, <3>3, <3>4 DEF QueueTypes
      <3>6. WorkAdds(w, 0)
        BY <1>1, <3>1, <3>4, <3>5 DEF WorkAdds, One
      <3>7. 0 \in Int /\ UNCHANGED <<kind, acceptPC, acceptConn>>
        BY <1>1
      <3> QED BY Zenon, <2>2, <3>1, <3>5, <3>6, <3>7, WorkerCounts
    <2> QED BY Zenon, <1>4, <2>1, <2>2 DEF Receive, WorkGoto
  <1>5. CASE ReleaseConn(w)
    <2>1. WorkTypes' /\ w \notin Working' /\ w \in Working
      BY Zenon, <1>0, <1>5 DEF WorkTypes, Working, ReleaseConn, WorkGoto
    <2>2. ch' = ch /\ load' = load - 1 /\ activeConns' = activeConns - 1 /\ QueueTypes'
      BY <1>0, <1>1, <1>5 DEF ReleaseConn, mailboxVars, QueueTypes
    <2>3. WorkAdds(w, -1)
      BY <1>0, <1>1, <2>1, <2>2 DEF WorkAdds, One
    <2>4. -1 \in Int /\ UNCHANGED <<kind, acceptPC, acceptConn>> /\ workConn' = [workConn EXCEPT ![w] = NoConn]
      BY <1>1, <1>5 DEF ReleaseConn
    <2> QED BY Zenon, <2>1, <2>2, <2>3, <2>4, WorkerCounts
  <1> QED BY Zenon, <1>3, <1>4, <1>5 DEF ConnWorkerStep

LEMMA SlotsKeep ==
  ASSUME SlotInv, [ConnNext]_connVars
  PROVE  SlotInv'
  <1>1. CASE UNCHANGED <<kind, acceptPC, acceptConn, workPC, workConn, dialing, ch, load, activeConns>>
    <2>1. AcceptTypes /\ WorkTypes /\ QueueTypes /\ SlotsExact
      BY Zenon, SlotParts
    <2>2. AcceptTypes' /\ WorkTypes' /\ QueueTypes'
      BY Zenon, <1>1, <2>1 DEF AcceptTypes, WorkTypes, QueueTypes
    <2>3. PastAdmission' = PastAdmission /\ Slotted' = Slotted /\ Working' = Working
      BY Zenon, <1>1 DEF PastAdmission, Slotted, Working
    <2>4. SlotsExact'
      BY Zenon, <1>1, <2>1, <2>3 DEF SlotsExact
    <2> QED BY Zenon, <2>2, <2>4, SlotPartsNext
  <1>2. CASE DoStop \/ StopStep \/ UNCHANGED connVars
    <2>1. CASE DoStop \/ StopStep
      BY <1>1, <2>1 DEF DoStop, StopStep, CloseListener, CloseRegistered, CloseMailbox, ShutdownReturns,
         stopVars, mailboxVars, MailboxClose
    <2>2. CASE UNCHANGED connVars
      BY Zenon, <1>1, <2>2 DEF connVars, mailboxVars
    <2> QED BY Zenon, <1>2, <2>1, <2>2
  <1> QED BY Zenon, <1>2, AcceptorSlots, EnqueueSlots, WorkerSlots DEF ConnNext, AcceptorStep

(* The counters of a TCP or WebSocket server are the connections that hold *)
(* a slot or a place, never more than MaxConns, and the load is what was   *)
(* admitted, through refusals, panics and Stop at any moment               *)
(* (tcp_server.go, ws/server.go, udp_server.go).                           *)
THEOREM SlotsStayExact == ConnSpec => []SlotsExact
  <1>1. NewServer => SlotInv
    <2> SUFFICES ASSUME NewServer PROVE SlotInv
      BY Zenon
    <2>1. PastAdmission = {} /\ Slotted = {} /\ Working = {}
      BY Zenon DEF NewServer, PastAdmission, Slotted, Working
    <2>2. Cardinality({}) = 0
      BY Zenon, FS_EmptySet
    <2>3. ch[Queue] = <<>> /\ Len(ch[Queue]) = 0
      BY ConnAssumption DEF NewServer, NewBoundedMailbox
    <2>4. SlotsExact
      BY <2>1, <2>2, <2>3, ConnAssumption DEF NewServer, SlotsExact
    <2> QED BY <2>4, ConnAssumption DEF NewServer, SlotInv, NewBoundedMailbox
  <1>2. SlotInv /\ [ConnNext]_connVars => SlotInv'
    BY Zenon, SlotsKeep
  <1>3. SlotInv => SlotsExact
    BY Zenon DEF SlotInv
  <1> QED BY <1>1, <1>2, <1>3, PTL DEF ConnSpec

-----------------------------------------------------------------------------
(***************************************************************************)
(* The worker pool loses and repeats no task, for any number of tasks,     *)
(* submitters and workers and any size of the queue.                       *)
(***************************************************************************)
At(q, t) == {i \in DOMAIN q : q[i] = t}
Once(q) == \A i, j \in DOMAIN q : q[i] = q[j] => i = j

LEMMA AppendAt ==
  ASSUME NEW S, NEW q \in Seq(S), NEW x \in S
  PROVE  /\ Append(q, x) \in Seq(S) /\ Len(Append(q, x)) = Len(q) + 1 /\ Len(q) \in Nat
         /\ \A t : At(Append(q, x), t) # {} <=> At(q, t) # {} \/ t = x
         /\ Once(q) /\ At(q, x) = {} => Once(Append(q, x))
  <1> DEFINE n == Len(q)
             a == Append(q, x)
  <1>1. /\ n \in Nat /\ DOMAIN q = 1 .. n /\ a \in Seq(S) /\ Len(a) = n + 1 /\ DOMAIN a = 1 .. (n + 1)
        /\ \A i \in 1 .. n : a[i] = q[i]
        /\ a[n + 1] = x
    OBVIOUS
  <1> HIDE DEF n, a
  <1>2. /\ 1 .. n \subseteq 1 .. (n + 1) /\ n + 1 \in 1 .. (n + 1) /\ n + 1 \notin 1 .. n
        /\ \A i \in 1 .. (n + 1) : i \in 1 .. n \/ i = n + 1
    BY <1>1
  <1>3. \A t : At(a, t) # {} <=> At(q, t) # {} \/ t = x
    BY Zenon, <1>1, <1>2 DEF At
  <1>4. Once(q) /\ At(q, x) = {} => Once(a)
    BY Zenon, <1>1, <1>2 DEF At, Once
  <1> QED BY Zenon, <1>1, <1>3, <1>4 DEF n, a

LEMMA TailAt ==
  ASSUME NEW S, NEW q \in Seq(S), q # <<>>
  PROVE  /\ Head(q) \in S /\ Tail(q) \in Seq(S) /\ Len(Tail(q)) = Len(q) - 1 /\ Len(q) \in Nat
         /\ \A t : At(q, t) # {} <=> t = Head(q) \/ At(Tail(q), t) # {}
         /\ Once(q) => Once(Tail(q)) /\ At(Tail(q), Head(q)) = {}
  <1> DEFINE n == Len(q)
             a == Tail(q)
  <1>1. /\ n \in Nat /\ n > 0 /\ DOMAIN q = 1 .. n /\ a \in Seq(S) /\ Len(a) = n - 1 /\ DOMAIN a = 1 .. (n - 1)
        /\ \A i \in 1 .. (n - 1) : a[i] = q[i + 1]
        /\ Head(q) = q[1] /\ Head(q) \in S
    OBVIOUS
  <1> HIDE DEF n, a
  <1>2. /\ \A i \in 1 .. (n - 1) : i + 1 \in 1 .. n /\ i + 1 # 1
        /\ \A i \in 1 .. n : i = 1 \/ (i - 1 \in 1 .. (n - 1) /\ a[i - 1] = q[i])
        /\ \A i, j \in 1 .. (n - 1) : i + 1 = j + 1 => i = j
        /\ 1 \in 1 .. n
    BY <1>1
  <1>3. ASSUME NEW t PROVE At(q, t) # {} <=> t = Head(q) \/ At(a, t) # {}
    <2>1. ASSUME NEW i \in 1 .. n, q[i] = t, t # Head(q) PROVE At(a, t) # {}
      BY <1>1, <1>2, <2>1 DEF At
    <2>2. ASSUME NEW i \in 1 .. (n - 1), a[i] = t PROVE At(q, t) # {}
      BY Zenon, <1>1, <1>2, <2>2 DEF At
    <2> QED BY Zenon, <1>1, <1>2, <2>1, <2>2 DEF At
  <1>4. ASSUME Once(q) PROVE Once(a) /\ At(a, Head(q)) = {}
    <2>1. \A i, j \in 1 .. (n - 1) : q[i + 1] = q[j + 1] => i = j
      BY ZenonT(60), <1>1, <1>2, <1>4 DEF Once
    <2>2. \A i \in 1 .. (n - 1) : q[i + 1] # q[1]
      BY Zenon, <1>1, <1>2, <1>4 DEF Once
    <2>3. Once(a)
      BY Zenon, <1>1, <2>1 DEF Once
    <2>4. At(a, Head(q)) = {}
      BY Zenon, <1>1, <2>2 DEF At
    <2> QED BY Zenon, <2>3, <2>4
  <1> QED BY Zenon, <1>1, <1>3, <1>4 DEF n, a

(* The tasks left when the first of a call's tasks is dealt with. *)
LEMMA TailReal ==
  ASSUME NEW q \in Seq(PoolTasks \cup {NilTask}), q # <<>>, RealOnce(q)
  PROVE  /\ Tail(q) \in Seq(PoolTasks \cup {NilTask}) /\ RealOnce(Tail(q))
         /\ RealTasks(Tail(q)) \subseteq RealTasks(q)
         /\ Head(q) # NilTask => /\ Head(q) \in PoolTasks /\ Head(q) \in RealTasks(q)
                                 /\ Head(q) \notin RealTasks(Tail(q))
  <1> DEFINE n == Len(q)
             a == Tail(q)
  <1>1. /\ n \in Nat /\ n > 0 /\ DOMAIN q = 1 .. n /\ a \in Seq(PoolTasks \cup {NilTask}) /\ DOMAIN a = 1 .. (n - 1)
        /\ \A i \in 1 .. (n - 1) : a[i] = q[i + 1]
        /\ Head(q) = q[1] /\ Head(q) \in PoolTasks \cup {NilTask}
    OBVIOUS
  <1> HIDE DEF n, a
  <1>2. /\ \A i \in 1 .. (n - 1) : i + 1 \in 1 .. n /\ i + 1 # 1
        /\ \A i, j \in 1 .. (n - 1) : i + 1 = j + 1 => i = j
        /\ 1 \in 1 .. n
    BY <1>1
  <1>3. RealOnce(a)
    <2>1. \A i, j \in 1 .. (n - 1) : q[i + 1] = q[j + 1] => i = j \/ q[i + 1] = NilTask
      BY Zenon, <1>1, <1>2 DEF RealOnce
    <2> QED BY Zenon, <1>1, <2>1 DEF RealOnce
  <1>4. RealTasks(a) \subseteq RealTasks(q)
    <2>1. \A i \in 1 .. (n - 1) : \E j \in 1 .. n : q[j] = a[i]
      BY <1>1, <1>2
    <2>2. ASSUME NEW t \in RealTasks(a) PROVE t \in RealTasks(q)
      <3>1. PICK i \in 1 .. (n - 1) : a[i] = t /\ t # NilTask
        BY Zenon, <1>1 DEF RealTasks
      <3> QED BY Zenon, <1>1, <2>1, <3>1 DEF RealTasks
    <2> QED BY Zenon, <2>2
  <1>5. ASSUME Head(q) # NilTask PROVE Head(q) \in RealTasks(q) /\ Head(q) \notin RealTasks(a)
    <2>1. \A i \in 1 .. (n - 1) : a[i] # Head(q)
      BY <1>1, <1>2, <1>5 DEF RealOnce
    <2> QED BY Zenon, <1>1, <1>2, <1>5, <2>1 DEF RealTasks
  <1> QED BY Zenon, <1>1, <1>3, <1>4, <1>5 DEF n, a

LEMMA PlacesNext ==
  /\ \A t : QueuedAt(t) = At(taskChan, t) /\ QueuedAt(t)' = At(taskChan', t)
  /\ PlacesApart => Once(taskChan)
  /\ /\ Once(taskChan')
     /\ \A t \in PoolTasks : /\ \A v, w \in HeldBy(t)' : v = w
                             /\ QueuedAt(t)' # {} => HeldBy(t)' = {} /\ ran'[t] = 0
                             /\ HeldBy(t)' # {} => ran'[t] = 0
                             /\ t \in accepted' <=> QueuedAt(t)' # {} \/ HeldBy(t)' # {} \/ ran'[t] = 1
     => PlacesApart'
  BY Zenon DEF QueuedAt, At, PlacesApart, Once

(* A step that moves no task. *)
LEMMA PlacesKeep ==
  ASSUME PlacesApart, UNCHANGED <<taskChan, ran, accepted>>, \A t \in PoolTasks : HeldBy(t)' = HeldBy(t)
  PROVE  PlacesApart'
  <1>1. \A t : QueuedAt(t)' = QueuedAt(t)
    BY Zenon DEF QueuedAt
  <1> QED BY ZenonT(60), <1>1 DEF PlacesApart

(* What a call has still to send, when tasks of its own meet their fate. *)
LEMMA TodoStep ==
  ASSUME TodoApart, NEW s \in PoolSubmitters, \A r \in PoolSubmitters \ {s} : submitPC'[r] = submitPC[r],
         RealOnce(submitPC'[s].todo), NEW G, G \subseteq RealTasks(submitPC[s].todo),
         RealTasks(submitPC'[s].todo) \subseteq RealTasks(submitPC[s].todo) \ G,
         accepted' \cup refused' = accepted \cup refused \cup G, accepted' \cap refused' = {}
  PROVE  TodoApart'
  <1>1. \A r \in PoolSubmitters : RealOnce(submitPC'[r].todo)
    BY Zenon DEF TodoApart
  <1>2. \A r \in PoolSubmitters : RealTasks(submitPC'[r].todo) \subseteq RealTasks(submitPC[r].todo)
    <2>1. RealTasks(submitPC'[s].todo) \subseteq RealTasks(submitPC[s].todo)
      BY Zenon
    <2>2. \A r \in PoolSubmitters \ {s} : RealTasks(submitPC'[r].todo) = RealTasks(submitPC[r].todo)
      BY Zenon
    <2> QED BY Zenon, <2>1, <2>2
  <1>3. \A r \in PoolSubmitters \ {s} : RealTasks(submitPC'[r].todo) \cap G = {}
    BY Zenon DEF TodoApart
  <1>4. \A r \in PoolSubmitters : RealTasks(submitPC'[r].todo) \cap (accepted \cup refused) = {}
    BY Zenon, <1>2 DEF TodoApart
  <1>5. \A r \in PoolSubmitters : RealTasks(submitPC'[r].todo) \cap (accepted' \cup refused') = {}
    <2> SUFFICES ASSUME NEW r \in PoolSubmitters, NEW t \in RealTasks(submitPC'[r].todo)
                 PROVE  t \notin accepted' \cup refused'
      BY Zenon
    <2>1. t \notin accepted \cup refused
      BY Zenon, <1>4
    <2>2. t \notin G
      BY Zenon, <1>3
    <2> QED BY Zenon, <2>1, <2>2
  <1>6. \A r, q \in PoolSubmitters : r # q => RealTasks(submitPC'[r].todo) \cap RealTasks(submitPC'[q].todo) = {}
    BY Zenon, <1>2 DEF TodoApart
  <1> QED BY Zenon, <1>1, <1>5, <1>6 DEF TodoApart, RealOnce, RealTasks

LEMMA CountsAreFinite ==
  /\ IsFiniteSet(SentUncounted) /\ Cardinality(SentUncounted) \in Nat
  /\ IsFiniteSet(TakenUncounted) /\ Cardinality(TakenUncounted) \in Nat
  <1>1. SentUncounted \subseteq PoolSubmitters /\ TakenUncounted \subseteq PoolWorkers
    BY Zenon DEF SentUncounted, TakenUncounted
  <1> QED BY Zenon, <1>1, PoolAssumption, FS_Subset, FS_CardinalityType

QueueCount == queuedTasks = Len(taskChan) - Cardinality(SentUncounted) + Cardinality(TakenUncounted)

Quiet == ~running /\ poolStop = "idle" /\ ~timedOut => WorkersOff

LEMMA PoolParts ==
  /\ PoolInv <=> PoolTypes /\ TodoApart /\ PlacesApart /\ QueueCount /\ Quiet
  /\ PoolInv' <=> PoolTypes' /\ TodoApart' /\ PlacesApart' /\ QueueCount' /\ Quiet'
  BY Zenon DEF PoolInv, QueueCount, Quiet

(* A step of Submit or SubmitBatch leaves the workers and Stop alone. *)
SubmitterMoves(s) ==
  /\ \A r \in PoolSubmitters \ {s} : submitPC'[r] = submitPC[r]
  /\ submitPC' \in [PoolSubmitters -> SubmitState]
  /\ UNCHANGED <<workerPC, ran, running, poolStop, timedOut>>

LEMMA SubmitterFrame ==
  ASSUME PoolInv, NEW s \in PoolSubmitters, SubmitterMoves(s)
  PROVE  /\ \A t : HeldBy(t)' = HeldBy(t)
         /\ TakenUncounted' = TakenUncounted /\ Quiet'
         /\ UNCHANGED <<taskChan, accepted>> => PlacesApart'
         /\ UNCHANGED taskChan /\ queuedTasks' = queuedTasks /\ (submitPC'[s].pc = "count" <=> submitPC[s].pc = "count")
              => QueueCount'
  <1>1. \A t : HeldBy(t)' = HeldBy(t)
    BY Zenon DEF HeldBy, SubmitterMoves
  <1>2. TakenUncounted' = TakenUncounted
    BY Zenon DEF TakenUncounted, SubmitterMoves
  <1>3. Quiet'
    BY Zenon, PoolParts DEF Quiet, WorkersOff, SubmitterMoves
  <1>4. UNCHANGED <<taskChan, accepted>> => PlacesApart'
    BY Zenon, <1>1, PoolParts, PlacesKeep DEF SubmitterMoves
  <1>5. (submitPC'[s].pc = "count" <=> submitPC[s].pc = "count") => SentUncounted' = SentUncounted
    BY Zenon DEF SentUncounted, SubmitterMoves
  <1> QED BY Zenon, <1>1, <1>2, <1>3, <1>4, <1>5, PoolParts DEF QueueCount

LEMMA SubmitterTypes ==
  ASSUME PoolInv, NEW s \in PoolSubmitters, SubmitterMoves(s), taskChan' \in Seq(PoolTasks), queuedTasks' \in Int,
         accepted' \subseteq PoolTasks, refused' \subseteq PoolTasks
  PROVE  PoolTypes'
  <1>1. /\ workerPC' = workerPC /\ ran' = ran /\ PoolTypes /\ submitPC' \in [PoolSubmitters -> SubmitState]
    BY Zenon, PoolParts DEF SubmitterMoves
  <1> QED BY Zenon, <1>1 DEF PoolTypes

(* The call of a submitter, and the tasks it may be given. *)
GoodTasks(ts) == ts \in Seq(PoolTasks \cup {NilTask}) /\ RealOnce(ts)

LEMMA SubmitterFacts ==
  ASSUME PoolInv, NEW s \in PoolSubmitters
  PROVE  /\ submitPC \in [PoolSubmitters -> SubmitState] /\ submitPC[s] \in SubmitState /\ GoodTasks(submitPC[s].todo)
         /\ taskChan \in Seq(PoolTasks) /\ queuedTasks \in Int /\ accepted \subseteq PoolTasks /\ refused \subseteq PoolTasks
         /\ TodoApart /\ PlacesApart /\ QueueCount
         /\ RealTasks(submitPC[s].todo) \subseteq PoolTasks
  <1>1. submitPC \in [PoolSubmitters -> SubmitState] /\ submitPC[s] \in SubmitState
    BY Zenon, PoolParts DEF PoolTypes
  <1>2. submitPC[s].todo \in Seq(PoolTasks \cup {NilTask})
    BY <1>1 DEF SubmitState
  <1>3. RealOnce(submitPC[s].todo)
    BY Zenon, PoolParts DEF TodoApart
  <1>4. RealTasks(submitPC[s].todo) \subseteq PoolTasks
    BY <1>2 DEF RealTasks
  <1>5. /\ taskChan \in Seq(PoolTasks) /\ queuedTasks \in Int /\ accepted \subseteq PoolTasks
        /\ refused \subseteq PoolTasks
    BY Zenon, PoolParts DEF PoolTypes
  <1> QED BY Zenon, <1>1, <1>2, <1>3, <1>4, <1>5, PoolParts DEF GoodTasks

LEMMA IdleState == NoSubmit \in SubmitState /\ NoSubmit.todo = <<>> /\ NoSubmit.pc = "idle"
                   /\ RealOnce(<<>>) /\ RealTasks(<<>>) = {}
  <1>1. NoSubmit \in SubmitState /\ NoSubmit.todo = <<>> /\ NoSubmit.pc = "idle"
    BY DEF NoSubmit, SubmitState
  <1>2. RealOnce(<<>>) /\ RealTasks(<<>>) = {}
    BY DEF RealOnce, RealTasks
  <1> QED BY Zenon, <1>1, <1>2

LEMMA BeginKeeps ==
  ASSUME PoolInv, NEW s \in PoolSubmitters, NEW op \in {"Submit", "SubmitBatch"}, NEW ts, GoodTasks(ts), BeginSubmit(s, op, ts)
  PROVE  PoolInv'
  <1>0. /\ submitPC[s].pc = "idle" /\ Fresh(ts)
        /\ UNCHANGED <<running, taskChan, workerPC, poolStop, timedOut, queuedTasks, accepted, ran>>
    BY Zenon DEF BeginSubmit
  <1>a. RealTasks(ts) \subseteq PoolTasks /\ RealOnce(ts)
    BY DEF RealTasks, GoodTasks
  <1>1. CASE running
    <2>0. submitPC' = [submitPC EXCEPT ![s] = [pc |-> "select", op |-> op, todo |-> ts, len |-> Len(ts), submitted |-> 0]]
          /\ refused' = refused
      BY Zenon, <1>1 DEF BeginSubmit
    <2>1. [pc |-> "select", op |-> op, todo |-> ts, len |-> Len(ts), submitted |-> 0] \in SubmitState
      BY DEF SubmitState, GoodTasks
    <2>2. SubmitterMoves(s) /\ submitPC'[s].pc = "select" /\ submitPC'[s].todo = ts
      BY Zenon, <1>0, <2>0, <2>1, SubmitterFacts DEF SubmitterMoves
    <2>3. PoolTypes' /\ PlacesApart' /\ Quiet' /\ QueueCount'
      BY Zenon, <1>0, <2>0, <2>2, SubmitterTypes, SubmitterFrame, SubmitterFacts
    <2>4. TodoApart'
      <3>1. \A r \in PoolSubmitters : submitPC'[r].todo = IF r = s THEN ts ELSE submitPC[r].todo
        BY Zenon, <2>2 DEF SubmitterMoves
      <3>2. \A r \in PoolSubmitters : /\ RealOnce(submitPC'[r].todo)
                                      /\ RealTasks(submitPC'[r].todo) \cap (accepted \cup refused) = {}
        BY Zenon, <1>0, <1>a, <3>1, SubmitterFacts DEF TodoApart, Fresh
      <3>3. \A r, q \in PoolSubmitters : r # q => RealTasks(submitPC'[r].todo) \cap RealTasks(submitPC'[q].todo) = {}
        <4> SUFFICES ASSUME NEW r \in PoolSubmitters, NEW q \in PoolSubmitters, r # q, NEW t \in RealTasks(submitPC'[r].todo)
                     PROVE  t \notin RealTasks(submitPC'[q].todo)
          BY Zenon
        <4>1. CASE r = s
          BY Zenon, <1>0, <3>1, <4>1 DEF Fresh
        <4>2. CASE q = s
          BY Zenon, <1>0, <3>1, <4>2 DEF Fresh
        <4>3. CASE r # s /\ q # s
          BY Zenon, <3>1, <4>3, SubmitterFacts DEF TodoApart
        <4> QED BY Zenon, <4>1, <4>2, <4>3
      <3> QED BY Zenon, <1>0, <2>0, <3>2, <3>3, SubmitterFacts DEF TodoApart, RealOnce, RealTasks
    <2> QED BY Zenon, <2>3, <2>4, PoolParts
  <1>2. CASE ~running
    <2>0. submitPC' = submitPC /\ refused' = refused \cup RealTasks(ts)
      BY Zenon, <1>2 DEF BeginSubmit
    <2>1. SubmitterMoves(s) /\ refused' \subseteq PoolTasks
      BY Zenon, <1>0, <1>a, <2>0, SubmitterFacts DEF SubmitterMoves
    <2>2. PoolTypes' /\ PlacesApart' /\ Quiet' /\ QueueCount'
      BY Zenon, <1>0, <2>0, <2>1, SubmitterTypes, SubmitterFrame, SubmitterFacts
    <2>3. accepted \cap refused' = {}
      BY Zenon, <1>0, <2>0, SubmitterFacts DEF TodoApart, Fresh
    <2>4. \A r \in PoolSubmitters : RealTasks(submitPC[r].todo) \cap (accepted \cup refused') = {}
      <3> SUFFICES ASSUME NEW r \in PoolSubmitters, NEW t \in RealTasks(submitPC[r].todo) PROVE t \notin accepted \cup refused'
        BY Zenon
      <3>1. t \notin accepted \cup refused
        BY Zenon, SubmitterFacts DEF TodoApart
      <3>2. t \notin RealTasks(ts)
        BY Zenon, <1>0 DEF Fresh
      <3> QED BY Zenon, <2>0, <3>1, <3>2
    <2>5. TodoApart'
      <3>1. accepted' = accepted /\ submitPC' = submitPC /\ TodoApart
        BY Zenon, <1>0, <2>0, SubmitterFacts
      <3> QED BY Zenon, <2>3, <2>4, <3>1 DEF TodoApart
    <2> QED BY Zenon, <2>2, <2>5, PoolParts
  <1> QED BY Zenon, <1>1, <1>2

LEMMA SkipKeeps ==
  ASSUME PoolInv, NEW s \in PoolSubmitters, SubmitSkip(s)
  PROVE  PoolInv'
  <1>0. /\ submitPC[s].pc = "select"
        /\ UNCHANGED <<running, taskChan, workerPC, poolStop, timedOut, queuedTasks, accepted, refused, ran>>
    BY Zenon DEF SubmitSkip
  <1>1. ASSUME SubmitterMoves(s), submitPC'[s].pc # "count", GoodTasks(submitPC'[s].todo),
               RealTasks(submitPC'[s].todo) \subseteq RealTasks(submitPC[s].todo)
        PROVE  PoolInv'
    <2>1. PoolTypes' /\ PlacesApart' /\ Quiet' /\ QueueCount'
      BY Zenon, <1>0, <1>1, SubmitterTypes, SubmitterFrame, SubmitterFacts
    <2>2. RealTasks(submitPC'[s].todo) \subseteq RealTasks(submitPC[s].todo) \ {}
      BY Zenon, <1>1
    <2>3. accepted' \cup refused' = accepted \cup refused \cup {} /\ accepted' \cap refused' = {}
      BY Zenon, <1>0, SubmitterFacts DEF TodoApart
    <2>4. TodoApart'
      BY Zenon, <1>1, <2>2, <2>3, TodoStep, SubmitterFacts DEF SubmitterMoves, GoodTasks
    <2> QED BY Zenon, <2>1, <2>4, PoolParts
  <1>2. CASE submitPC' = [submitPC EXCEPT ![s] = NoSubmit]
    <2>1. SubmitterMoves(s) /\ submitPC'[s] = NoSubmit
      BY Zenon, <1>0, <1>2, IdleState, SubmitterFacts DEF SubmitterMoves
    <2>2. GoodTasks(submitPC'[s].todo)
      BY <2>1, IdleState DEF GoodTasks
    <2> QED BY Zenon, <1>1, <2>1, <2>2, IdleState
  <1>3. CASE Sending(s) /\ submitPC' = [submitPC EXCEPT ![s].todo = Tail(@)]
    <2> DEFINE q == submitPC[s].todo
    <2>0. q \in Seq(PoolTasks \cup {NilTask}) /\ q # <<>> /\ RealOnce(q)
      BY Zenon, <1>3, SubmitterFacts DEF Sending, GoodTasks
    <2>1. GoodTasks(Tail(q)) /\ RealTasks(Tail(q)) \subseteq RealTasks(q)
      BY Zenon, <2>0, TailReal DEF GoodTasks
    <2>2. SubmitterMoves(s) /\ submitPC'[s].pc = "select" /\ submitPC'[s].todo = Tail(q)
      BY Zenon, <1>0, <1>3, <2>1, SubmitterFacts DEF SubmitterMoves, SubmitState, GoodTasks
    <2> QED BY Zenon, <1>1, <2>1, <2>2
  <1> QED BY Zenon, <1>2, <1>3 DEF SubmitSkip

LEMMA SendKeeps ==
  ASSUME PoolInv, NEW s \in PoolSubmitters, SubmitSend(s)
  PROVE  PoolInv'
  <1> DEFINE q == submitPC[s].todo
             x == Head(q)
  <1>0. /\ submitPC[s].pc = "select" /\ q # <<>> /\ x # NilTask
        /\ UNCHANGED <<running, workerPC, poolStop, timedOut, queuedTasks, refused, ran>>
    BY Zenon DEF SubmitSend, Sending
  <1>1. q \in Seq(PoolTasks \cup {NilTask}) /\ RealOnce(q)
    BY Zenon, SubmitterFacts DEF GoodTasks
  <1>2. /\ GoodTasks(Tail(q)) /\ RealTasks(Tail(q)) \subseteq RealTasks(q)
        /\ x \in PoolTasks /\ x \in RealTasks(q) /\ x \notin RealTasks(Tail(q))
    BY Zenon, <1>0, <1>1, TailReal DEF GoodTasks
  <1>3. CASE chanClosed
    <2>1. UNCHANGED <<taskChan, accepted, submitPC>>
      BY Zenon, <1>3 DEF SubmitSend
    <2>2. SubmitterMoves(s)
      BY Zenon, <1>0, <2>1, SubmitterFacts DEF SubmitterMoves
    <2>3. PoolTypes' /\ PlacesApart' /\ Quiet' /\ QueueCount'
      BY Zenon, <1>0, <2>1, <2>2, SubmitterTypes, SubmitterFrame, SubmitterFacts
    <2>4. TodoApart'
      BY Zenon, <1>0, <2>1, SubmitterFacts DEF TodoApart
    <2> QED BY Zenon, <2>3, <2>4, PoolParts
  <1>4. CASE ~chanClosed
    <2>0. /\ taskChan' = Append(taskChan, x) /\ accepted' = accepted \cup {x}
          /\ submitPC' = [submitPC EXCEPT ![s].pc = "count", ![s].todo = Tail(@)]
      BY Zenon, <1>4 DEF SubmitSend
    <2> HIDE DEF x
    <2>1. SubmitterMoves(s) /\ submitPC'[s].pc = "count" /\ submitPC'[s].todo = Tail(q)
      BY <1>0, <1>2, <2>0, SubmitterFacts DEF SubmitterMoves, SubmitState, GoodTasks
    <2> HIDE DEF q
    <2>2. /\ taskChan' \in Seq(PoolTasks) /\ Len(taskChan') = Len(taskChan) + 1 /\ Len(taskChan) \in Nat
          /\ \A t : At(taskChan', t) # {} <=> At(taskChan, t) # {} \/ t = x
          /\ Once(taskChan) /\ At(taskChan, x) = {} => Once(taskChan')
      <3>1. taskChan \in Seq(PoolTasks) /\ x \in PoolTasks
        BY Zenon, <1>2, SubmitterFacts
      <3> DEFINE a == Append(taskChan, x)
      <3>2. /\ a \in Seq(PoolTasks) /\ Len(a) = Len(taskChan) + 1 /\ Len(taskChan) \in Nat
            /\ \A t : At(a, t) # {} <=> At(taskChan, t) # {} \/ t = x
            /\ Once(taskChan) /\ At(taskChan, x) = {} => Once(a)
        BY Zenon, <3>1, AppendAt
      <3>3. taskChan' = a
        BY Zenon, <2>0
      <3> HIDE DEF a
      <3> QED BY Zenon, <3>2, <3>3
    <2>3. PoolTypes'
      BY Zenon, <1>0, <1>2, <2>0, <2>1, <2>2, SubmitterTypes, SubmitterFacts
    <2>4. x \notin accepted /\ x \notin refused
      BY Zenon, <1>2, SubmitterFacts DEF TodoApart, q
    <2>5. TodoApart'
      <3>1. RealTasks(submitPC'[s].todo) \subseteq RealTasks(submitPC[s].todo) \ {x} /\ {x} \subseteq RealTasks(submitPC[s].todo)
        BY Zenon, <1>2, <2>1 DEF q
      <3>2. accepted' \cup refused' = accepted \cup refused \cup {x}
        BY Zenon, <1>0, <2>0
      <3>3. accepted' \cap refused' = {}
        BY Zenon, <1>0, <2>0, <2>4, SubmitterFacts DEF TodoApart
      <3>4. /\ TodoApart /\ RealOnce(submitPC'[s].todo)
            /\ \A r \in PoolSubmitters \ {s} : submitPC'[r] = submitPC[r]
        BY Zenon, <1>2, <2>1, SubmitterFacts DEF SubmitterMoves, GoodTasks
      <3> QED BY Zenon, <3>1, <3>2, <3>3, <3>4, TodoStep
    <2>6. /\ QueuedAt(x) = {} /\ HeldBy(x) = {} /\ ran[x] # 1 /\ ran[x] \in {0, 1}
          /\ \A t \in PoolTasks : HeldBy(t)' = HeldBy(t)
      BY Zenon, <1>2, <2>1, <2>4, SubmitterFacts, SubmitterFrame, PoolParts DEF PlacesApart, PoolTypes
    <2>7. PlacesApart'
      <3>1. \A t \in PoolTasks : QueuedAt(t)' # {} <=> QueuedAt(t) # {} \/ t = x
        BY Zenon, <2>2, PlacesNext
      <3>2. Once(taskChan')
        BY Zenon, <2>2, <2>6, PlacesNext, SubmitterFacts
      <3>3. ASSUME NEW t \in PoolTasks
            PROVE  /\ \A v, w \in HeldBy(t)' : v = w
                   /\ QueuedAt(t)' # {} => HeldBy(t)' = {} /\ ran'[t] = 0
                   /\ HeldBy(t)' # {} => ran'[t] = 0
                   /\ t \in accepted' <=> QueuedAt(t)' # {} \/ HeldBy(t)' # {} \/ ran'[t] = 1
        <4>1. CASE t = x
          BY Zenon, <1>0, <2>0, <2>6, <3>1, <4>1
        <4>2. CASE t # x
          <5>1. /\ HeldBy(t)' = HeldBy(t) /\ ran'[t] = ran[t] /\ (t \in accepted' <=> t \in accepted)
                /\ QueuedAt(t)' # {} <=> QueuedAt(t) # {}
            BY Zenon, <1>0, <2>0, <2>6, <3>1, <4>2
          <5>2. /\ \A v, w \in HeldBy(t) : v = w
                /\ QueuedAt(t) # {} => HeldBy(t) = {} /\ ran[t] = 0
                /\ HeldBy(t) # {} => ran[t] = 0
                /\ t \in accepted <=> QueuedAt(t) # {} \/ HeldBy(t) # {} \/ ran[t] = 1
            BY Zenon, SubmitterFacts DEF PlacesApart
          <5> QED BY Zenon, <5>1, <5>2
        <4> QED BY Zenon, <4>1, <4>2
      <3> QED BY Zenon, <3>2, <3>3, PlacesNext
    <2>8. QueueCount'
      <3>1. SentUncounted' = SentUncounted \cup {s} /\ s \notin SentUncounted /\ TakenUncounted' = TakenUncounted
        BY Zenon, <1>0, <2>1, SubmitterFrame DEF SentUncounted, SubmitterMoves
      <3>2. Cardinality(SentUncounted') = Cardinality(SentUncounted) + 1
        BY Zenon, <3>1, CountsAreFinite, FS_AddElement
      <3> QED BY <1>0, <2>2, <3>1, <3>2, CountsAreFinite, SubmitterFacts DEF QueueCount
    <2> QED BY Zenon, <2>1, <2>3, <2>5, <2>7, <2>8, SubmitterFrame, PoolParts
  <1> QED BY Zenon, <1>3, <1>4

LEMMA CountedState ==
  ASSUME NEW p \in SubmitState
  PROVE  LET r == [p EXCEPT !.pc = "select", !.submitted = @ + 1]
         IN  r \in SubmitState /\ r.pc = "select" /\ r.todo = p.todo
  <1>1. p.submitted + 1 \in Nat
    BY DEF SubmitState
  <1>2. [p EXCEPT !.pc = "select", !.submitted = @ + 1] = [p EXCEPT !.pc = "select", !.submitted = p.submitted + 1]
    BY DEF SubmitState
  <1> QED BY Zenon, <1>1, <1>2 DEF SubmitState

LEMMA CountKeeps ==
  ASSUME PoolInv, NEW s \in PoolSubmitters, SubmitCount(s)
  PROVE  PoolInv'
  <1>0. /\ submitPC[s].pc = "count" /\ queuedTasks' = queuedTasks + 1
        /\ submitPC' = [submitPC EXCEPT ![s].pc = "select", ![s].submitted = @ + 1]
        /\ UNCHANGED <<running, taskChan, workerPC, poolStop, timedOut, accepted, refused, ran>>
    BY Zenon DEF SubmitCount
  <1>1. SubmitterMoves(s) /\ submitPC'[s].pc = "select" /\ submitPC'[s].todo = submitPC[s].todo
    <2> DEFINE r == [submitPC[s] EXCEPT !.pc = "select", !.submitted = @ + 1]
    <2>1. r \in SubmitState /\ r.pc = "select" /\ r.todo = submitPC[s].todo
      BY Zenon, SubmitterFacts, CountedState
    <2>2. submitPC' = [submitPC EXCEPT ![s] = r]
      BY Zenon, <1>0
    <2> HIDE DEF r
    <2> QED BY Zenon, <1>0, <2>1, <2>2, SubmitterFacts DEF SubmitterMoves
  <1>2. PoolTypes'
    <2>1. queuedTasks' \in Int
      BY <1>0, SubmitterFacts
    <2> QED BY Zenon, <1>0, <1>1, <2>1, SubmitterTypes, SubmitterFacts
  <1>3. PlacesApart' /\ Quiet' /\ TakenUncounted' = TakenUncounted
    BY Zenon, <1>0, <1>1, SubmitterFrame
  <1>4. TodoApart'
    <2>1. \A r \in PoolSubmitters : submitPC'[r].todo = submitPC[r].todo
      BY Zenon, <1>1 DEF SubmitterMoves
    <2>2. \A r \in PoolSubmitters : /\ RealOnce(submitPC'[r].todo) <=> RealOnce(submitPC[r].todo)
                                    /\ RealTasks(submitPC'[r].todo) = RealTasks(submitPC[r].todo)
      BY Zenon, <2>1
    <2> QED BY Zenon, <1>0, <2>2, SubmitterFacts DEF TodoApart
  <1>5. QueueCount'
    <2>1. SentUncounted' = SentUncounted \ {s} /\ s \in SentUncounted
      BY Zenon, <1>0, <1>1 DEF SentUncounted, SubmitterMoves
    <2>2. Cardinality(SentUncounted') = Cardinality(SentUncounted) - 1
      BY Zenon, <2>1, CountsAreFinite, FS_RemoveElement
    <2>3. Len(taskChan) \in Nat
      BY SubmitterFacts
    <2> QED BY <1>0, <1>3, <2>2, <2>3, CountsAreFinite, SubmitterFacts DEF QueueCount
  <1> QED BY Zenon, <1>2, <1>3, <1>4, <1>5, PoolParts

LEMMA RefuseKeeps ==
  ASSUME PoolInv, NEW s \in PoolSubmitters, SubmitRefuse(s)
  PROVE  PoolInv'
  <1>0. /\ submitPC[s].pc = "select" /\ submitPC' = [submitPC EXCEPT ![s] = NoSubmit]
        /\ refused' = refused \cup RealTasks(submitPC[s].todo)
        /\ UNCHANGED <<running, taskChan, workerPC, poolStop, timedOut, queuedTasks, accepted, ran>>
    BY Zenon DEF SubmitRefuse, Sending
  <1>1. SubmitterMoves(s) /\ submitPC'[s] = NoSubmit
    BY Zenon, <1>0, IdleState, SubmitterFacts DEF SubmitterMoves
  <1>2. refused' \subseteq PoolTasks
    BY Zenon, <1>0, SubmitterFacts
  <1>3. PoolTypes' /\ PlacesApart' /\ Quiet' /\ QueueCount'
    BY Zenon, <1>0, <1>1, <1>2, IdleState, SubmitterTypes, SubmitterFrame, SubmitterFacts
  <1>4. TodoApart'
    <2> DEFINE G == RealTasks(submitPC[s].todo)
    <2>1. RealOnce(submitPC'[s].todo) /\ RealTasks(submitPC'[s].todo) \subseteq RealTasks(submitPC[s].todo) \ G
      BY Zenon, <1>1, IdleState
    <2>2. accepted' \cup refused' = accepted \cup refused \cup G
      BY Zenon, <1>0
    <2>3. accepted' \cap refused' = {}
      BY Zenon, <1>0, SubmitterFacts DEF TodoApart
    <2> QED BY ZenonT(60), <1>1, <2>1, <2>2, <2>3, TodoStep, SubmitterFacts DEF SubmitterMoves
  <1> QED BY Zenon, <1>3, <1>4, PoolParts

(* A worker has a task, or none. *)
LEMMA WorkerStates ==
  ASSUME NEW v \in WorkerState
  PROVE  /\ v = <<"off">> \/ v = <<"select">> => v[1] \notin {"received", "run"} /\ \A l, t : v # <<l, t>>
         /\ v[1] \in {"received", "run"} => v[2] \in PoolTasks /\ v = <<v[1], v[2]>>
         /\ \A t : v \in {<<"received", t>>, <<"run", t>>} <=> v[1] \in {"received", "run"} /\ v[2] = t
  <1>1. CASE v = <<"off">> \/ v = <<"select">>
    <2>1. v[1] \in {"off", "select"} /\ Len(v) = 1
      BY <1>1
    <2>2. \A l, t : v # <<l, t>>
      BY <1>1
    <2> QED BY Zenon, <2>1, <2>2
  <1>2. CASE \E l \in {"received", "run"}, t \in PoolTasks : v = <<l, t>>
    <2>1. PICK l \in {"received", "run"}, t \in PoolTasks : v = <<l, t>>
      BY Zenon, <1>2
    <2>2. v[1] = l /\ v[2] = t
      BY Zenon, <2>1
    <2>3. \A u : v \in {<<"received", u>>, <<"run", u>>} <=> u = t
      BY <2>1
    <2>4. v # <<"off">> /\ v # <<"select">>
      BY <2>1
    <2> QED BY Zenon, <2>1, <2>2, <2>3, <2>4
  <1> QED BY Zenon, <1>1, <1>2 DEF WorkerState

WorkerMoves(w, v) ==
  /\ workerPC' = [workerPC EXCEPT ![w] = v] /\ v \in WorkerState
  /\ workerPC[w] # <<"off">>
  /\ UNCHANGED <<submitPC, running, poolStop, timedOut, accepted, refused>>

LEMMA WorkerFacts ==
  ASSUME PoolInv, NEW w \in PoolWorkers
  PROVE  /\ workerPC \in [PoolWorkers -> WorkerState] /\ workerPC[w] \in WorkerState
         /\ taskChan \in Seq(PoolTasks) /\ queuedTasks \in Int /\ ran \in [PoolTasks -> {0, 1}]
         /\ TodoApart /\ PlacesApart /\ QueueCount /\ PoolTypes
  BY Zenon, PoolParts DEF PoolTypes

LEMMA WorkerFrame ==
  ASSUME PoolInv, NEW w \in PoolWorkers, NEW v, WorkerMoves(w, v)
  PROVE  /\ TodoApart' /\ SentUncounted' = SentUncounted /\ Quiet'
         /\ taskChan' \in Seq(PoolTasks) /\ queuedTasks' \in Int /\ ran' \in [PoolTasks -> {0, 1}] => PoolTypes'
         /\ workerPC'[w] = v /\ \A u \in PoolWorkers \ {w} : workerPC'[u] = workerPC[u]
         /\ \A t : \A u \in PoolWorkers \ {w} : u \in HeldBy(t)' <=> u \in HeldBy(t)
         /\ \A t : w \in HeldBy(t)' <=> v[1] \in {"received", "run"} /\ v[2] = t
         /\ \A t : w \in HeldBy(t) <=> workerPC[w][1] \in {"received", "run"} /\ workerPC[w][2] = t
  <1>1. TodoApart'
    BY Zenon, WorkerFacts DEF TodoApart, WorkerMoves
  <1>2. SentUncounted' = SentUncounted
    BY Zenon DEF SentUncounted, WorkerMoves
  <1>3. Quiet'
    BY Zenon, PoolParts DEF Quiet, WorkersOff, WorkerMoves
  <1>4. workerPC'[w] = v /\ \A u \in PoolWorkers \ {w} : workerPC'[u] = workerPC[u]
    BY Zenon, WorkerFacts DEF WorkerMoves
  <1>5. workerPC' \in [PoolWorkers -> WorkerState]
    BY Zenon, WorkerFacts DEF WorkerMoves
  <1>6. taskChan' \in Seq(PoolTasks) /\ queuedTasks' \in Int /\ ran' \in [PoolTasks -> {0, 1}] => PoolTypes'
    BY Zenon, <1>5, WorkerFacts DEF PoolTypes, WorkerMoves
  <1>7. \A t : \A u \in PoolWorkers \ {w} : u \in HeldBy(t)' <=> u \in HeldBy(t)
    BY Zenon, <1>4 DEF HeldBy
  <1>8. \A t : w \in HeldBy(t)' <=> v[1] \in {"received", "run"} /\ v[2] = t
    <2>1. \A t : w \in HeldBy(t)' <=> v \in {<<"received", t>>, <<"run", t>>}
      BY Zenon, <1>4 DEF HeldBy
    <2>2. v \in WorkerState
      BY Zenon DEF WorkerMoves
    <2> QED BY Zenon, <2>1, <2>2, WorkerStates
  <1>9. \A t : w \in HeldBy(t) <=> workerPC[w][1] \in {"received", "run"} /\ workerPC[w][2] = t
    BY Zenon, WorkerFacts, WorkerStates DEF HeldBy
  <1> QED BY Zenon, <1>1, <1>2, <1>3, <1>4, <1>6, <1>7, <1>8, <1>9

LEMMA ReceiveKeeps ==
  ASSUME PoolInv, NEW w \in PoolWorkers, WorkerReceive(w)
  PROVE  PoolInv'
  <1> DEFINE x == Head(taskChan)
             v == <<"received", x>>
  <1>0. /\ workerPC[w] = <<"select">> /\ taskChan # <<>> /\ taskChan' = Tail(taskChan)
        /\ workerPC' = [workerPC EXCEPT ![w] = v]
        /\ UNCHANGED <<submitPC, running, poolStop, timedOut, accepted, refused, queuedTasks, ran>>
    BY Zenon DEF WorkerReceive
  <1>1. /\ x \in PoolTasks /\ taskChan' \in Seq(PoolTasks) /\ Len(taskChan') = Len(taskChan) - 1 /\ Len(taskChan) \in Nat
        /\ \A t : At(taskChan, t) # {} <=> t = x \/ At(taskChan', t) # {}
        /\ Once(taskChan) => Once(taskChan') /\ At(taskChan', x) = {}
    <2>1. taskChan \in Seq(PoolTasks)
      BY Zenon, WorkerFacts
    <2> QED BY Zenon, <1>0, <2>1, TailAt
  <1>2. v \in WorkerState /\ v[1] = "received" /\ v[2] = x
    BY Zenon, <1>1 DEF WorkerState
  <1>3. WorkerMoves(w, v) /\ workerPC[w][1] = "select"
    <2>1. <<"select">> # <<"off">> /\ <<"select">>[1] = "select"
      OBVIOUS
    <2> QED BY Zenon, <1>0, <1>2, <2>1 DEF WorkerMoves
  <1> HIDE DEF x, v
  <1>4. PoolTypes' /\ TodoApart' /\ Quiet' /\ SentUncounted' = SentUncounted
    BY Zenon, <1>0, <1>1, <1>3, WorkerFrame, WorkerFacts
  <1>5. /\ \A t : QueuedAt(t)' # {} <=> QueuedAt(t) # {} /\ t # x
        /\ Once(taskChan') /\ QueuedAt(x) # {}
    BY Zenon, <1>1, PlacesNext, WorkerFacts
  <1>6. \A t : HeldBy(t)' = IF t = x THEN HeldBy(t) \cup {w} ELSE HeldBy(t)
    <2>1. \A t : HeldBy(t) \subseteq PoolWorkers /\ HeldBy(t)' \subseteq PoolWorkers
      BY Zenon DEF HeldBy
    <2>2. \A t : w \notin HeldBy(t) /\ (w \in HeldBy(t)' <=> t = x)
      BY Zenon, <1>2, <1>3, WorkerFrame
    <2>3. \A t : \A u \in PoolWorkers \ {w} : u \in HeldBy(t)' <=> u \in HeldBy(t)
      BY Zenon, <1>3, WorkerFrame
    <2>4. ASSUME NEW t PROVE t = x => HeldBy(t)' = HeldBy(t) \cup {w}
      BY Zenon, <2>1, <2>2, <2>3
    <2>5. ASSUME NEW t PROVE t # x => HeldBy(t)' = HeldBy(t)
      BY <2>1, <2>2, <2>3
    <2> QED BY Zenon, <2>4, <2>5
  <1>7. PlacesApart'
    <2>1. HeldBy(x) = {} /\ ran[x] = 0 /\ x \in accepted
      BY Zenon, <1>1, <1>5, WorkerFacts DEF PlacesApart
    <2>2. ASSUME NEW t \in PoolTasks
          PROVE  /\ \A a, b \in HeldBy(t)' : a = b
                 /\ QueuedAt(t)' # {} => HeldBy(t)' = {} /\ ran'[t] = 0
                 /\ HeldBy(t)' # {} => ran'[t] = 0
                 /\ t \in accepted' <=> QueuedAt(t)' # {} \/ HeldBy(t)' # {} \/ ran'[t] = 1
      <3>1. CASE t = x
        <4>1. HeldBy(t)' = {w} /\ ran'[t] = 0 /\ t \in accepted' /\ QueuedAt(t)' = {}
          BY Zenon, <1>0, <1>5, <1>6, <2>1, <3>1
        <4> QED BY Zenon, <4>1
      <3>2. CASE t # x
        <4>1. /\ HeldBy(t)' = HeldBy(t) /\ ran'[t] = ran[t] /\ (t \in accepted' <=> t \in accepted)
              /\ QueuedAt(t)' # {} <=> QueuedAt(t) # {}
          BY Zenon, <1>0, <1>5, <1>6, <3>2
        <4>2. /\ \A a, b \in HeldBy(t) : a = b
              /\ QueuedAt(t) # {} => HeldBy(t) = {} /\ ran[t] = 0
              /\ HeldBy(t) # {} => ran[t] = 0
              /\ t \in accepted <=> QueuedAt(t) # {} \/ HeldBy(t) # {} \/ ran[t] = 1
          BY Zenon, WorkerFacts DEF PlacesApart
        <4> QED BY Zenon, <4>1, <4>2
      <3> QED BY Zenon, <3>1, <3>2
    <2> QED BY Zenon, <1>5, <2>2, PlacesNext
  <1>8. QueueCount'
    <2>0. /\ workerPC'[w][1] = "received" /\ workerPC[w][1] # "received"
          /\ \A u \in PoolWorkers \ {w} : workerPC'[u] = workerPC[u]
      BY Zenon, <1>2, <1>3, WorkerFrame
    <2>1. TakenUncounted' = TakenUncounted \cup {w} /\ w \notin TakenUncounted
      BY <2>0 DEF TakenUncounted
    <2>2. Cardinality(TakenUncounted') = Cardinality(TakenUncounted) + 1
      BY Zenon, <2>1, CountsAreFinite, FS_AddElement
    <2> QED BY <1>0, <1>1, <1>4, <2>2, CountsAreFinite, WorkerFacts DEF QueueCount
  <1> QED BY Zenon, <1>4, <1>7, <1>8, PoolParts

LEMMA TakenKeeps ==
  ASSUME PoolInv, NEW w \in PoolWorkers, WorkerCount(w)
  PROVE  PoolInv'
  <1> DEFINE x == workerPC[w][2]
             v == <<"run", x>>
  <1>0. /\ workerPC[w][1] = "received" /\ queuedTasks' = queuedTasks - 1
        /\ workerPC' = [workerPC EXCEPT ![w] = v]
        /\ UNCHANGED <<taskChan, submitPC, running, poolStop, timedOut, accepted, refused, ran>>
    BY Zenon DEF WorkerCount
  <1>1. x \in PoolTasks /\ workerPC[w] # <<"off">>
    BY Zenon, <1>0, WorkerFacts, WorkerStates
  <1>2. v \in WorkerState /\ v[1] = "run" /\ v[2] = x
    BY Zenon, <1>1 DEF WorkerState
  <1>3. WorkerMoves(w, v)
    BY Zenon, <1>0, <1>1, <1>2 DEF WorkerMoves
  <1>b. workerPC[w][2] = x
    BY Zenon
  <1> HIDE DEF v, x
  <1>a. queuedTasks' \in Int /\ Len(taskChan) \in Nat
    BY <1>0, WorkerFacts
  <1>4. PoolTypes' /\ TodoApart' /\ Quiet' /\ SentUncounted' = SentUncounted
    BY Zenon, <1>0, <1>3, <1>a, WorkerFrame, WorkerFacts
  <1>5. \A t : HeldBy(t)' = HeldBy(t)
    <2>1. \A t : HeldBy(t) \subseteq PoolWorkers /\ HeldBy(t)' \subseteq PoolWorkers
      BY Zenon DEF HeldBy
    <2>2. ASSUME NEW t PROVE w \in HeldBy(t)' <=> w \in HeldBy(t)
      <3>1. w \in HeldBy(t)' <=> x = t
        <4>1. w \in HeldBy(t)' <=> v[1] \in {"received", "run"} /\ v[2] = t
          BY ZenonT(60), <1>3, WorkerFrame
        <4> QED BY <4>1, <1>2
      <3>2. w \in HeldBy(t) <=> x = t
        BY Zenon, <1>0, <1>b, <1>3, WorkerFrame
      <3> QED BY Zenon, <3>1, <3>2
    <2>3. \A t : \A u \in PoolWorkers \ {w} : u \in HeldBy(t)' <=> u \in HeldBy(t)
      BY Zenon, <1>3, WorkerFrame
    <2> QED BY <2>1, <2>2, <2>3
  <1>6. PlacesApart'
    BY Zenon, <1>0, <1>5, PlacesKeep, WorkerFacts
  <1>7. QueueCount'
    <2>0. /\ workerPC'[w][1] # "received" /\ workerPC[w][1] = "received"
          /\ \A u \in PoolWorkers \ {w} : workerPC'[u] = workerPC[u]
      BY Zenon, <1>0, <1>2, <1>3, WorkerFrame
    <2>1. TakenUncounted' = TakenUncounted \ {w} /\ w \in TakenUncounted
      BY <2>0 DEF TakenUncounted
    <2>2. Cardinality(TakenUncounted') = Cardinality(TakenUncounted) - 1
      BY Zenon, <2>1, CountsAreFinite, FS_RemoveElement
    <2> QED BY <1>0, <1>a, <1>4, <2>2, CountsAreFinite, WorkerFacts DEF QueueCount
  <1> QED BY Zenon, <1>4, <1>6, <1>7, PoolParts

(* The worker is back at its select: it has run its task, or has none. *)
LEMMA RanKeeps ==
  ASSUME PoolInv, NEW w \in PoolWorkers, WorkerRan(w)
  PROVE  PoolInv'
  <1> DEFINE x == workerPC[w][2]
             v == <<"select">>
  <1>0. /\ workerPC[w][1] = "run" /\ ran' = [ran EXCEPT ![x] = @ + 1]
        /\ workerPC' = [workerPC EXCEPT ![w] = v]
        /\ UNCHANGED <<taskChan, submitPC, running, poolStop, timedOut, accepted, refused, queuedTasks>>
    BY Zenon DEF WorkerRan
  <1>1. x \in PoolTasks /\ workerPC[w] # <<"off">>
    BY Zenon, <1>0, WorkerFacts, WorkerStates
  <1>2. v \in WorkerState /\ v[1] = "select"
    BY Zenon DEF WorkerState
  <1>3. WorkerMoves(w, v)
    BY Zenon, <1>0, <1>1, <1>2 DEF WorkerMoves
  <1> HIDE DEF v, x
  <1>4. w \in HeldBy(x) /\ (\A t : w \in HeldBy(t) <=> t = x) /\ \A t : w \notin HeldBy(t)'
    BY Zenon, <1>0, <1>2, <1>3, WorkerFrame DEF x
  <1>5. ran[x] = 0 /\ QueuedAt(x) = {} /\ x \in accepted /\ \A u \in HeldBy(x) : u = w
    BY Zenon, <1>1, <1>4, WorkerFacts DEF PlacesApart
  <1>6. ran' \in [PoolTasks -> {0, 1}] /\ ran'[x] = 1 /\ \A t \in PoolTasks \ {x} : ran'[t] = ran[t]
    BY <1>0, <1>1, <1>5, WorkerFacts
  <1>7. PoolTypes' /\ TodoApart' /\ Quiet' /\ SentUncounted' = SentUncounted
    BY Zenon, <1>0, <1>3, <1>6, WorkerFrame, WorkerFacts
  <1>8. \A t : HeldBy(t)' = IF t = x THEN {} ELSE HeldBy(t)
    <2>1. \A t : HeldBy(t) \subseteq PoolWorkers /\ HeldBy(t)' \subseteq PoolWorkers
      BY Zenon DEF HeldBy
    <2>2. \A t : \A u \in PoolWorkers \ {w} : u \in HeldBy(t)' <=> u \in HeldBy(t)
      BY Zenon, <1>3, WorkerFrame
    <2>3. ASSUME NEW t, t = x PROVE HeldBy(t)' = {}
      BY <1>4, <1>5, <2>1, <2>2, <2>3
    <2>4. ASSUME NEW t, t # x PROVE HeldBy(t)' = HeldBy(t)
      BY <1>4, <2>1, <2>2, <2>4
    <2> QED BY Zenon, <2>3, <2>4
  <1>9. PlacesApart'
    <2>1. \A t : QueuedAt(t)' = QueuedAt(t) /\ Once(taskChan')
      BY Zenon, <1>0, PlacesNext, WorkerFacts
    <2>2. ASSUME NEW t \in PoolTasks
          PROVE  /\ \A a, b \in HeldBy(t)' : a = b
                 /\ QueuedAt(t)' # {} => HeldBy(t)' = {} /\ ran'[t] = 0
                 /\ HeldBy(t)' # {} => ran'[t] = 0
                 /\ t \in accepted' <=> QueuedAt(t)' # {} \/ HeldBy(t)' # {} \/ ran'[t] = 1
      <3>1. CASE t = x
        <4>1. HeldBy(t)' = {} /\ QueuedAt(t)' = {} /\ ran'[t] = 1 /\ t \in accepted'
          BY Zenon, <1>0, <1>5, <1>6, <1>8, <2>1, <3>1
        <4> QED BY Zenon, <4>1
      <3>2. CASE t # x
        <4>1. HeldBy(t)' = HeldBy(t) /\ ran'[t] = ran[t] /\ (t \in accepted' <=> t \in accepted)
          BY Zenon, <1>0, <1>6, <1>8, <3>2
        <4>2. /\ \A a, b \in HeldBy(t) : a = b
              /\ QueuedAt(t) # {} => HeldBy(t) = {} /\ ran[t] = 0
              /\ HeldBy(t) # {} => ran[t] = 0
              /\ t \in accepted <=> QueuedAt(t) # {} \/ HeldBy(t) # {} \/ ran[t] = 1
          BY Zenon, WorkerFacts DEF PlacesApart
        <4> QED BY Zenon, <2>1, <4>1, <4>2
      <3> QED BY Zenon, <3>1, <3>2
    <2> QED BY Zenon, <2>1, <2>2, PlacesNext
  <1>10. QueueCount'
    <2>0. /\ workerPC'[w][1] # "received" /\ workerPC[w][1] # "received"
          /\ \A u \in PoolWorkers \ {w} : workerPC'[u] = workerPC[u]
      BY Zenon, <1>0, <1>2, <1>3, WorkerFrame
    <2>1. TakenUncounted' = TakenUncounted
      BY <2>0 DEF TakenUncounted
    <2> QED BY Zenon, <1>0, <1>7, <2>1, WorkerFacts DEF QueueCount
  <1> QED BY Zenon, <1>7, <1>9, <1>10, PoolParts

(* A step after which no worker has another task than before. *)
LEMMA IdleWorkersKeep ==
  ASSUME PoolInv, UNCHANGED <<taskChan, submitPC, accepted, refused, queuedTasks, ran>>, Quiet',
         workerPC' \in [PoolWorkers -> WorkerState],
         \A u \in PoolWorkers : /\ workerPC'[u] = workerPC[u]
                                   \/ (workerPC[u] \in {<<"off">>, <<"select">>} /\ workerPC'[u] \in {<<"off">>, <<"select">>})
  PROVE  PoolInv'
  <1>0. /\ PoolTypes /\ TodoApart /\ PlacesApart /\ QueueCount
        /\ \A u \in PoolWorkers : workerPC[u] \in WorkerState /\ workerPC'[u] \in WorkerState
    BY Zenon, PoolParts DEF PoolTypes
  <1>1. PoolTypes'
    BY Zenon, <1>0 DEF PoolTypes
  <1>2. TodoApart'
    BY Zenon, <1>0 DEF TodoApart
  <1>3. \A u \in PoolWorkers : \/ workerPC'[u] = workerPC[u]
                               \/ /\ workerPC[u][1] \notin {"received", "run"} /\ \A l, t : workerPC[u] # <<l, t>>
                                  /\ workerPC'[u][1] \notin {"received", "run"} /\ \A l, t : workerPC'[u] # <<l, t>>
    BY ZenonT(60), <1>0, WorkerStates
  <1>4. \A t : HeldBy(t)' = HeldBy(t)
    BY Zenon, <1>3 DEF HeldBy
  <1>5. TakenUncounted' = TakenUncounted
    BY Zenon, <1>3 DEF TakenUncounted
  <1>6. SentUncounted' = SentUncounted
    BY Zenon DEF SentUncounted
  <1>7. PlacesApart' /\ QueueCount'
    BY Zenon, <1>0, <1>4, <1>5, <1>6, PlacesKeep DEF QueueCount
  <1> QED BY Zenon, <1>1, <1>2, <1>7, PoolParts

LEMMA WorkersRest ==
  ASSUME PoolInv, PoolStart \/ (\E w \in PoolWorkers : WorkerExit(w))
  PROVE  PoolInv'
  <1>0. UNCHANGED <<taskChan, submitPC, accepted, refused, queuedTasks, ran>>
    BY Zenon DEF PoolStart, WorkerExit
  <1>1. <<"off">> \in WorkerState /\ <<"select">> \in WorkerState /\ <<"select">> # <<"off">>
    BY DEF WorkerState
  <1>2. CASE PoolStart
    <2>1. /\ \A w \in PoolWorkers : workerPC[w] = <<"off">>
          /\ running' = TRUE /\ workerPC' = [w \in PoolWorkers |-> <<"select">>]
      BY Zenon, <1>2 DEF PoolStart, WorkersOff
    <2>2. Quiet'
      BY Zenon, <2>1 DEF Quiet
    <2> QED BY Zenon, <1>0, <1>1, <2>1, <2>2, IdleWorkersKeep
  <1>3. ASSUME NEW w \in PoolWorkers, WorkerExit(w) PROVE PoolInv'
    <2>1. /\ workerPC[w] = <<"select">> /\ workerPC' = [workerPC EXCEPT ![w] = <<"off">>]
          /\ UNCHANGED <<running, poolStop, timedOut>>
      BY Zenon, <1>3 DEF WorkerExit
    <2>2. Quiet'
      BY Zenon, <1>1, <2>1, PoolParts DEF Quiet, WorkersOff
    <2>3. workerPC \in [PoolWorkers -> WorkerState]
      BY Zenon, WorkerFacts
    <2> QED BY Zenon, <1>0, <1>1, <2>1, <2>2, <2>3, IdleWorkersKeep
  <1> QED BY Zenon, <1>2, <1>3

LEMMA StopKeepsPool ==
  ASSUME PoolInv, PoolStop \/ PoolStopStep \/ PoolStopTimeout \/ PoolParentCancel \/ UNCHANGED poolVars
  PROVE  PoolInv'
  <1>0. UNCHANGED <<taskChan, submitPC, accepted, refused, queuedTasks, ran, workerPC>>
    BY Zenon DEF PoolStop, PoolStopStep, PoolStopCancel, PoolStopClose, PoolStopReturns, PoolStopTimeout, PoolParentCancel, poolVars
  <1>1. Quiet
    BY Zenon, PoolParts
  <1>2. Quiet'
    <2>1. CASE PoolStop
      BY Zenon, <2>1 DEF PoolStop, Quiet
    <2>2. CASE PoolStopCancel
      BY Zenon, <2>2 DEF PoolStopCancel, Quiet
    <2>3. CASE PoolStopClose
      <3>1. poolStop = "close" /\ (poolStop' = poolStop \/ poolStop' = "wait")
        BY Zenon, <2>3 DEF PoolStopClose
      <3> QED BY Zenon, <3>1 DEF Quiet
    <2>4. CASE PoolStopReturns
      BY Zenon, <2>4 DEF PoolStopReturns, Quiet, WorkersOff
    <2>5. CASE PoolStopTimeout
      BY Zenon, <2>5 DEF PoolStopTimeout, Quiet
    <2>6. CASE PoolParentCancel \/ UNCHANGED poolVars
      <3>1. UNCHANGED <<running, poolStop, timedOut, workerPC>>
        BY Zenon, <2>6 DEF PoolParentCancel, poolVars
      <3> QED BY Zenon, <1>1, <3>1 DEF Quiet, WorkersOff
    <2> QED BY Zenon, <2>1, <2>2, <2>3, <2>4, <2>5, <2>6 DEF PoolStopStep
  <1>3. workerPC' \in [PoolWorkers -> WorkerState]
    BY Zenon, <1>0, PoolParts DEF PoolTypes
  <1> QED BY Zenon, <1>0, <1>2, <1>3, IdleWorkersKeep

LEMMA PoolStarts == NewWorkerPool => PoolInv
  <1> SUFFICES ASSUME NewWorkerPool PROVE PoolInv
    BY Zenon
  <1>0. /\ taskChan = <<>> /\ workerPC = [w \in PoolWorkers |-> <<"off">>] /\ queuedTasks = 0
        /\ submitPC = [s \in PoolSubmitters |-> NoSubmit] /\ accepted = {} /\ refused = {}
        /\ ran = [t \in PoolTasks |-> 0]
    BY Zenon DEF NewWorkerPool
  <1>1. PoolTypes
    <2>1. <<"off">> \in WorkerState
      BY Zenon DEF WorkerState
    <2>2. taskChan \in Seq(PoolTasks) /\ queuedTasks \in Int /\ ran \in [PoolTasks -> {0, 1}]
      BY <1>0
    <2> QED BY Zenon, <1>0, <2>1, <2>2, IdleState DEF PoolTypes
  <1>2. TodoApart
    BY Zenon, <1>0, IdleState DEF TodoApart
  <1>3. \A w \in PoolWorkers : workerPC[w] = <<"off">> /\ workerPC[w] \in WorkerState
    BY Zenon, <1>0, <1>1 DEF PoolTypes
  <1>4. \A t : HeldBy(t) = {} /\ TakenUncounted = {}
    BY Zenon, <1>3, WorkerStates DEF HeldBy, TakenUncounted
  <1>5. \A t : QueuedAt(t) = {}
    BY <1>0 DEF QueuedAt
  <1>6. PlacesApart
    <2>1. \A i, j \in DOMAIN taskChan : taskChan[i] = taskChan[j] => i = j
      BY <1>0
    <2>2. \A t \in PoolTasks : ran[t] = 0 /\ ran[t] # 1
      BY <1>0
    <2> QED BY Zenon, <1>0, <1>4, <1>5, <2>1, <2>2 DEF PlacesApart
  <1>7. SentUncounted = {}
    BY Zenon, <1>0, IdleState DEF SentUncounted
  <1>8. QueueCount
    <2>1. Cardinality(SentUncounted) = 0 /\ Cardinality(TakenUncounted) = 0
      BY Zenon, <1>4, <1>7, FS_EmptySet
    <2> QED BY <1>0, <2>1 DEF QueueCount
  <1>9. Quiet
    BY Zenon, <1>3 DEF Quiet, WorkersOff
  <1> QED BY Zenon, <1>1, <1>2, <1>6, <1>8, <1>9, PoolParts

(* What Submit and SubmitBatch may be given. *)
LEMMA ArgumentsAreGood == /\ \A t \in PoolTasks : GoodTasks(<<t>>)
                          /\ \A ts \in Batches : GoodTasks(ts)
  <1>1. ASSUME NEW t \in PoolTasks PROVE GoodTasks(<<t>>)
    BY DEF GoodTasks, RealOnce
  <1>2. ASSUME NEW ts \in Batches PROVE GoodTasks(ts)
    <2>1. PICK n \in 2 .. MaxBatch : ts \in [1 .. n -> PoolTasks \cup {NilTask}]
      BY Zenon DEF Batches
    <2>2. ts \in Seq(PoolTasks \cup {NilTask})
      BY <2>1
    <2>3. \A i, j \in DOMAIN ts : i # j /\ ts[i] = ts[j] => ts[i] = NilTask
      BY Zenon DEF Batches
    <2> QED BY Zenon, <2>2, <2>3 DEF GoodTasks, RealOnce
  <1> QED BY Zenon, <1>1, <1>2

(* Through submissions, batches, workers, Stop and restarts the pool keeps   *)
(* every task in at most one place and its counter right.                    *)
THEOREM PoolInvariant == PoolSpec => []PoolInv
  <1>1. PoolInv /\ [PoolNext]_poolVars => PoolInv'
    <2> SUFFICES ASSUME PoolInv, [PoolNext]_poolVars PROVE PoolInv'
      BY Zenon
    <2>1. ASSUME NEW s \in PoolSubmitters, NEW t \in PoolTasks, Submit(s, t) PROVE PoolInv'
      BY Zenon, <2>1, ArgumentsAreGood, BeginKeeps DEF Submit
    <2>2. ASSUME NEW s \in PoolSubmitters, NEW ts \in Batches, SubmitBatch(s, ts) PROVE PoolInv'
      BY Zenon, <2>2, ArgumentsAreGood, BeginKeeps DEF SubmitBatch
    <2>3. ASSUME NEW s \in PoolSubmitters, SubmitStep(s) PROVE PoolInv'
      BY Zenon, <2>3, SkipKeeps, SendKeeps, CountKeeps, RefuseKeeps DEF SubmitStep
    <2>4. ASSUME NEW w \in PoolWorkers, WorkerTakes(w) \/ WorkerRan(w) PROVE PoolInv'
      BY Zenon, <2>4, ReceiveKeeps, TakenKeeps, RanKeeps, WorkersRest DEF WorkerTakes
    <2>5. CASE PoolStart \/ PoolStop \/ PoolStopStep \/ PoolStopTimeout \/ PoolParentCancel \/ UNCHANGED poolVars
      BY Zenon, <2>5, WorkersRest, StopKeepsPool
    <2> QED BY Zenon, <2>1, <2>2, <2>3, <2>4, <2>5 DEF PoolNext
  <1> QED BY <1>1, PoolStarts, PTL DEF PoolSpec

(* A task is queued, held by one worker or has run, once, if it was sent,   *)
(* and nowhere if it was refused; the counter follows the queue; and a Stop *)
(* that returned in time has left no worker.  For any number of tasks,      *)
(* submitters, workers, batches and restarts and any size of the queue.     *)
THEOREM PoolStaysExact == PoolSpec => []PoolExact
  <1>1. PoolInv => PoolExact
    <2> SUFFICES ASSUME PoolInv PROVE PoolExact
      BY Zenon
    <2>0. PoolTypes /\ TodoApart /\ PlacesApart /\ QueueCount /\ Quiet
      BY Zenon, PoolParts
    <2>1. ASSUME NEW t \in PoolTasks PROVE Copies(t) = IF t \in accepted THEN 1 ELSE 0
      <3>1. /\ \A v, w \in HeldBy(t) : v = w
            /\ QueuedAt(t) # {} => HeldBy(t) = {} /\ ran[t] = 0
            /\ HeldBy(t) # {} => ran[t] = 0
            /\ t \in accepted <=> QueuedAt(t) # {} \/ HeldBy(t) # {} \/ ran[t] = 1
            /\ ran[t] \in {0, 1}
        BY Zenon, <2>0 DEF PlacesApart, PoolTypes
      <3>2. \A i, j \in QueuedAt(t) : i = j
        BY Zenon, <2>0 DEF PlacesApart, QueuedAt
      <3>3. \A S : (\A a, b \in S : a = b) => (S = {} /\ Cardinality(S) = 0) \/ (S # {} /\ Cardinality(S) = 1)
        <4> SUFFICES ASSUME NEW S, \A a, b \in S : a = b PROVE (S = {} /\ Cardinality(S) = 0) \/ (S # {} /\ Cardinality(S) = 1)
          BY Zenon
        <4>1. CASE S = {}
          BY Zenon, <4>1, FS_EmptySet
        <4>2. CASE S # {}
          <5>1. PICK a \in S : S = {a}
            BY Zenon, <4>2
          <5> QED BY Zenon, <5>1, FS_Singleton
        <4> QED BY Zenon, <4>1, <4>2
      <3>4. /\ (QueuedAt(t) = {} /\ Cardinality(QueuedAt(t)) = 0) \/ (QueuedAt(t) # {} /\ Cardinality(QueuedAt(t)) = 1)
            /\ (HeldBy(t) = {} /\ Cardinality(HeldBy(t)) = 0) \/ (HeldBy(t) # {} /\ Cardinality(HeldBy(t)) = 1)
        BY Zenon, <3>1, <3>2, <3>3
      <3> QED BY <3>1, <3>4 DEF Copies
    <2>2. PoolTasksAccounted
      BY Zenon, <2>0, <2>1 DEF PoolTasksAccounted, TodoApart, QueueCount
    <2> QED BY Zenon, <2>0, <2>2 DEF PoolExact, StoppedIsQuiet, Quiet
  <1> QED BY <1>1, PoolInvariant, PTL

-----------------------------------------------------------------------------
(***************************************************************************)
(* The backpressure controller, and the web server that uses it as it is   *)
(* meant to be used, for any capacity and any number of connections.       *)
(***************************************************************************)
AcquireState == [pc : {"idle", "last", "cas", "reset", "load", "add"}, now : Int, last : Int]

LEMMA AddersAreFew ==
  /\ Cardinality(Acquirers) \in Nat /\ Overshoot \in Int
  /\ Overshoot = NormalCapacity + Cardinality(Acquirers) - 1
  /\ \A S \in SUBSET Acquirers :
       /\ IsFiniteSet(S) /\ Cardinality(S) \in Nat /\ Cardinality(S) <= Cardinality(Acquirers)
       /\ S # Acquirers => Cardinality(S) < Cardinality(Acquirers)
  <1>1. Cardinality(Acquirers) \in Nat
    BY Zenon, BackpressureAssumption, FS_CardinalityType
  <1>2. ASSUME NEW S \in SUBSET Acquirers
        PROVE  /\ IsFiniteSet(S) /\ Cardinality(S) \in Nat /\ Cardinality(S) <= Cardinality(Acquirers)
               /\ S # Acquirers => Cardinality(S) < Cardinality(Acquirers)
    <2>1. IsFiniteSet(S) /\ Cardinality(S) <= Cardinality(Acquirers)
      BY Zenon, BackpressureAssumption, FS_Subset
    <2>2. Cardinality(S) \in Nat
      BY Zenon, <2>1, FS_CardinalityType
    <2>3. S # Acquirers => Cardinality(S) # Cardinality(Acquirers)
      BY Zenon, BackpressureAssumption, FS_Subset
    <2> QED BY <1>1, <2>1, <2>2, <2>3
  <1> QED BY <1>1, <1>2, BackpressureAssumption DEF Overshoot

LEMMA BackpressureStarts == NewBackpressureController => BackpressureInv
  <1> SUFFICES ASSUME NewBackpressureController PROVE BackpressureInv
    BY Zenon
  <1>1. acquirePC = [a \in Acquirers |-> NoAcquire] /\ NoAcquire \in AcquireState /\ NoAcquire.pc # "add"
    BY DEF NewBackpressureController, NoAcquire, AcquireState
  <1>2. Adders = {}
    BY Zenon, <1>1 DEF Adders
  <1>3. Cardinality(Adders) = 0
    BY Zenon, <1>2, FS_EmptySet
  <1>4. acquirePC \in [Acquirers -> AcquireState]
    BY Zenon, <1>1
  <1> QED BY <1>3, <1>4, AddersAreFew, BackpressureAssumption
          DEF NewBackpressureController, BackpressureInv, AcquireState

(* Acquirer a goes to v, and Adders follows. *)
LEMMA AcquirerMoves ==
  ASSUME BackpressureInv, NEW a \in Acquirers, NEW v \in AcquireState, acquirePC' = [acquirePC EXCEPT ![a] = v]
  PROVE  /\ acquirePC' \in [Acquirers -> AcquireState]
         /\ Cardinality(Adders) \in Nat /\ Cardinality(Adders)' \in Nat
         /\ Cardinality(Adders)' <= Cardinality(Acquirers)
         /\ v.pc # "add" => Cardinality(Adders)' < Cardinality(Acquirers)
         /\ v.pc # "add" => Cardinality(Adders)' <= Cardinality(Adders)
         /\ v.pc # "add" /\ acquirePC[a].pc = "add" => Cardinality(Adders)' = Cardinality(Adders) - 1
  <1>1. acquirePC \in [Acquirers -> AcquireState]
    BY Zenon DEF BackpressureInv, AcquireState
  <1>2. acquirePC' \in [Acquirers -> AcquireState] /\ acquirePC'[a] = v
        /\ \A b \in Acquirers : b # a => acquirePC'[b] = acquirePC[b]
    BY Zenon, <1>1
  <1>3. Adders \subseteq Acquirers /\ Adders' \subseteq Acquirers
    BY Zenon DEF Adders
  <1>4. IsFiniteSet(Adders) /\ IsFiniteSet(Adders')
    BY Zenon, <1>3, AddersAreFew
  <1>5. v.pc # "add" => a \notin Adders' /\ Adders' # Acquirers /\ Adders' \subseteq Adders
    BY Zenon, <1>2 DEF Adders
  <1>6. v.pc # "add" => Cardinality(Adders)' <= Cardinality(Adders)
    BY Zenon, <1>4, <1>5, FS_Subset
  <1>7. ASSUME v.pc # "add", acquirePC[a].pc = "add" PROVE Cardinality(Adders)' = Cardinality(Adders) - 1
    <2>1. a \in Adders
      BY Zenon, <1>7 DEF Adders
    <2>2. \A b : b \in Adders' <=> b \in Adders \ {a}
      BY Zenon, <1>2, <1>7 DEF Adders
    <2>3. Adders' = Adders \ {a}
      BY Zenon, <2>2
    <2> QED BY Zenon, <1>4, <2>1, <2>3, FS_RemoveElement
  <1> QED BY Zenon, <1>2, <1>3, <1>5, <1>6, <1>7, AddersAreFew

LEMMA OneMoreReset ==
  ASSUME NEW r \in Nat, NEW o \in Int
  PROVE  (r + 1) * o = r * o + o /\ r * o \in Int
  OBVIOUS

LEMMA BackpressureKeeps ==
  ASSUME BackpressureInv, [BackpressureNext]_bpVars
  PROVE  BackpressureInv'
  <1>0. /\ held \in Nat /\ resets \in Nat /\ currentLoad \in Int /\ currentLoad <= held
        /\ acquirePC \in [Acquirers -> AcquireState] /\ clock \in Int /\ lastReset \in Int
        /\ currentLoad + Cardinality(Adders) <= Overshoot
        /\ held - currentLoad <= resets * Overshoot
        /\ resets * Overshoot \in Int /\ (resets + 1) * Overshoot = resets * Overshoot + Overshoot
        /\ Overshoot \in Int
    BY Zenon, AddersAreFew, OneMoreReset DEF BackpressureInv, AcquireState
  <1>1. ASSUME held' \in Nat, resets' \in Nat, currentLoad' \in Int, currentLoad' <= held',
               acquirePC' \in [Acquirers -> AcquireState], clock' \in Int, lastReset' \in Int,
               currentLoad' + Cardinality(Adders)' <= Overshoot, held' - currentLoad' <= resets' * Overshoot
        PROVE  BackpressureInv'
    BY Zenon, <1>1 DEF BackpressureInv, AcquireState, Overshoot
  <1>2. CASE Tick \/ Release \/ UNCHANGED bpVars
    <2>1. acquirePC' = acquirePC /\ resets' = resets /\ lastReset' = lastReset
      BY Zenon, <1>2 DEF Tick, Release, bpVars
    <2>2. Cardinality(Adders)' = Cardinality(Adders) /\ Cardinality(Adders) \in Nat
      BY Zenon, <2>1, AddersAreFew DEF Adders
    <2>3. clock' \in Int /\ held' \in Nat /\ currentLoad' \in Int /\ held' - currentLoad' = held - currentLoad /\ currentLoad' <= currentLoad
      BY <1>0, <1>2 DEF Tick, Release, bpVars
    <2>4. currentLoad' <= held'
      <3>1. held \in Nat /\ currentLoad \in Int /\ currentLoad <= held
        BY Zenon, <1>0
      <3>2. \/ held' = held - 1 /\ currentLoad' = currentLoad - 1
            \/ held' = held /\ currentLoad' = currentLoad
        BY Zenon, <1>2 DEF Tick, Release, bpVars
      <3> QED BY <3>1, <3>2
    <2>5. currentLoad' + Cardinality(Adders)' <= Overshoot
      BY <1>0, <2>2, <2>3
    <2>6. held' - currentLoad' <= resets' * Overshoot
      BY Zenon, <1>0, <2>1, <2>3
    <2> QED BY Zenon, <1>0, <1>1, <2>1, <2>3, <2>4, <2>5, <2>6
  <1>3. ASSUME NEW a \in Acquirers, NEW v \in AcquireState, acquirePC' = [acquirePC EXCEPT ![a] = v], v.pc # "add",
               UNCHANGED <<held, resets, currentLoad>>, clock' \in Int, lastReset' \in Int
        PROVE  BackpressureInv'
    <2>1. acquirePC' \in [Acquirers -> AcquireState] /\ Cardinality(Adders)' <= Cardinality(Adders)
          /\ Cardinality(Adders) \in Nat /\ Cardinality(Adders)' \in Nat
      BY Zenon, <1>3, AcquirerMoves
    <2> QED BY <1>0, <1>1, <1>3, <2>1
  <1>4. ASSUME NEW a \in Acquirers, TryAcquire(a) \/ LoadLastReset(a) \/ CompareAndSwapReset(a) PROVE BackpressureInv'
    <2>0. acquirePC[a] \in AcquireState
      BY Zenon, <1>0
    <2>1. \E v \in AcquireState : acquirePC' = [acquirePC EXCEPT ![a] = v] /\ v.pc # "add"
      BY <1>0, <1>4, <2>0 DEF TryAcquire, LoadLastReset, CompareAndSwapReset, AcquireState
    <2>2. UNCHANGED <<held, resets, currentLoad>> /\ clock' \in Int /\ lastReset' \in Int
      BY <1>0, <1>4, <2>0 DEF TryAcquire, LoadLastReset, CompareAndSwapReset, AcquireState
    <2> QED BY Zenon, <1>3, <2>1, <2>2
  <1>5. ASSUME NEW a \in Acquirers, ResetLoad(a) PROVE BackpressureInv'
    <2>0. acquirePC[a] \in AcquireState
      BY Zenon, <1>0
    <2>1. \E v \in AcquireState : acquirePC' = [acquirePC EXCEPT ![a] = v] /\ v.pc # "add"
      <3> DEFINE v == [acquirePC[a] EXCEPT !.pc = "load"]
      <3>1. v \in AcquireState /\ v.pc # "add"
        BY <2>0 DEF AcquireState
      <3>2. acquirePC' = [acquirePC EXCEPT ![a] = v]
        BY Zenon, <1>5 DEF ResetLoad
      <3> QED BY Zenon, <3>1, <3>2
    <2>2. acquirePC' \in [Acquirers -> AcquireState] /\ Cardinality(Adders)' < Cardinality(Acquirers)
          /\ Cardinality(Adders) \in Nat /\ Cardinality(Adders)' \in Nat
      BY Zenon, <2>1, AcquirerMoves
    <2>3. currentLoad' = 0 /\ resets' = resets + 1 /\ UNCHANGED <<clock, lastReset, held>>
      BY Zenon, <1>5 DEF ResetLoad
    <2>4. held' - currentLoad' <= resets' * Overshoot
      <3>1. held <= resets * Overshoot + Overshoot
        BY <1>0, <2>2
      <3> QED BY <1>0, <2>3, <3>1
    <2>5. currentLoad' + Cardinality(Adders)' <= Overshoot
      BY <2>2, <2>3, AddersAreFew, BackpressureAssumption
    <2> QED BY <1>0, <1>1, <2>2, <2>3, <2>4, <2>5
  <1>6. ASSUME NEW a \in Acquirers, LoadCurrent(a) PROVE BackpressureInv'
    <2>0. acquirePC[a] \in AcquireState /\ UNCHANGED <<clock, currentLoad, lastReset, held, resets>>
      BY Zenon, <1>0, <1>6 DEF LoadCurrent
    <2>1. CASE HasCapacity
      <3>1. \E v \in AcquireState : acquirePC' = [acquirePC EXCEPT ![a] = v]
        BY Zenon, <1>6, <2>0, <2>1 DEF LoadCurrent, AcquireState
      <3>2. acquirePC' \in [Acquirers -> AcquireState] /\ Cardinality(Adders)' <= Cardinality(Acquirers)
            /\ Cardinality(Adders)' \in Nat
        BY Zenon, <3>1, AcquirerMoves
      <3>3. currentLoad' + Cardinality(Adders)' <= Overshoot
        BY <1>0, <2>0, <2>1, <3>2, AddersAreFew, BackpressureAssumption DEF HasCapacity
      <3> QED BY Zenon, <1>0, <1>1, <2>0, <3>2, <3>3
    <2>2. CASE ~HasCapacity
      <3>1. NoAcquire \in AcquireState /\ NoAcquire.pc # "add"
        BY DEF NoAcquire, AcquireState
      <3>2. acquirePC' = [acquirePC EXCEPT ![a] = NoAcquire]
        BY Zenon, <1>6, <2>2 DEF LoadCurrent
      <3> QED BY Zenon, <1>0, <1>3, <2>0, <3>1, <3>2
    <2> QED BY Zenon, <2>1, <2>2
  <1>7. ASSUME NEW a \in Acquirers, AddLoad(a) PROVE BackpressureInv'
    <2>0. /\ acquirePC[a].pc = "add" /\ currentLoad' = currentLoad + 1 /\ held' = held + 1
          /\ acquirePC' = [acquirePC EXCEPT ![a] = NoAcquire] /\ UNCHANGED <<clock, lastReset, resets>>
      BY Zenon, <1>7 DEF AddLoad
    <2>1. NoAcquire \in AcquireState /\ NoAcquire.pc # "add"
      BY DEF NoAcquire, AcquireState
    <2>2. /\ acquirePC' \in [Acquirers -> AcquireState] /\ Cardinality(Adders)' = Cardinality(Adders) - 1
          /\ Cardinality(Adders) \in Nat
      BY Zenon, <2>0, <2>1, AcquirerMoves
    <2> QED BY <1>0, <1>1, <2>0, <2>2
  <1> QED BY Zenon, <1>2, <1>4, <1>5, <1>6, <1>7 DEF BackpressureNext

(* What callers of TryAcquire hold never exceeds one overshoot capacity per  *)
(* reset, and currentLoad is never more than what is held, whatever the      *)
(* interleaving of the atomic operations, the clock and the releases.        *)
THEOREM HeldStaysBounded == BackpressureSpec => []HeldBounded
  <1>1. BackpressureInv => HeldBounded
    <2> SUFFICES ASSUME BackpressureInv PROVE HeldBounded
      BY Zenon
    <2>1. /\ held \in Nat /\ resets \in Nat /\ currentLoad \in Int /\ currentLoad <= held
          /\ currentLoad + Cardinality(Adders) <= Overshoot
          /\ held - currentLoad <= resets * Overshoot
          /\ resets * Overshoot \in Int /\ (resets + 1) * Overshoot = resets * Overshoot + Overshoot
          /\ Overshoot \in Int
      BY Zenon, AddersAreFew, OneMoreReset DEF BackpressureInv
    <2>2. Cardinality(Adders) \in Nat
      BY Zenon, AddersAreFew DEF Adders
    <2>3. resets = 0 => resets * Overshoot = 0
      BY <2>1
    <2> QED BY <2>1, <2>2, <2>3 DEF HeldBounded
  <1> QED BY <1>1, BackpressureStarts, BackpressureKeeps, PTL DEF BackpressureSpec

(* Every step of the web server is a step of the controller or none of it. *)
LEMMA WebUsesController ==
  ASSUME [WebNext]_<<bpVars, webVars>>
  PROVE  [BackpressureNext]_bpVars
  <1>1. CASE ListenAndServe \/ GocmdCancelled \/ StopExecutor \/ ShutdownServer \/ UNCHANGED <<bpVars, webVars>>
    BY Zenon, <1>1 DEF ListenAndServe, GocmdCancelled, StopExecutor, ShutdownServer
  <1>2. CASE SecondPasses
    BY Zenon, <1>2 DEF SecondPasses, BackpressureNext
  <1>3. ASSUME NEW r \in Acquirers, HandleRequest(r) \/ RequestStep(r) PROVE [BackpressureNext]_bpVars
    BY Zenon, <1>3 DEF HandleRequest, RequestStep, AcquireSteps, CheckLoad, BeginRequest, ReleaseLoad, EndRequest,
                       BackpressureNext
  <1> QED BY Zenon, <1>1, <1>2, <1>3 DEF WebNext

(* The web server uses the backpressure controller as it is meant to be      *)
(* used: handleRequest acquires before it processes, and what it does to the *)
(* controller is a behaviour of BackpressureSpec.                            *)
THEOREM WebImplementsBackpressure == WebSpec => BackpressureSpec
  <1>1. NewFastHTTPServer => NewBackpressureController
    BY Zenon DEF NewFastHTTPServer
  <1>2. [WebNext]_<<bpVars, webVars>> => [BackpressureNext]_bpVars
    BY Zenon, WebUsesController
  <1> QED BY <1>1, <1>2, PTL DEF WebSpec, BackpressureSpec

(* The request of connection r goes to pc. *)
LEMMA RequestMoves ==
  ASSUME WebInv, NEW r \in Acquirers, NEW pc \in {"idle", "acquiring", "processing", "releasing"},
         reqPC' = [reqPC EXCEPT ![r] = pc]
  PROVE  /\ reqPC' \in [Acquirers -> {"idle", "acquiring", "processing", "releasing"}]
         /\ Cardinality(InProgress) \in Nat
         /\ (reqPC[r] \in {"processing", "releasing"} <=> pc \in {"processing", "releasing"}) => InProgress' = InProgress
         /\ reqPC[r] \notin {"processing", "releasing"} /\ pc \in {"processing", "releasing"}
              => Cardinality(InProgress)' = Cardinality(InProgress) + 1
         /\ reqPC[r] \in {"processing", "releasing"} /\ pc \notin {"processing", "releasing"}
              => Cardinality(InProgress)' = Cardinality(InProgress) - 1
  <1> DEFINE B == {"processing", "releasing"}
  <1>1. reqPC \in [Acquirers -> {"idle", "acquiring", "processing", "releasing"}]
    BY Zenon DEF WebInv
  <1>2. /\ reqPC' \in [Acquirers -> {"idle", "acquiring", "processing", "releasing"}]
        /\ reqPC'[r] = pc /\ \A q \in Acquirers : q # r => reqPC'[q] = reqPC[q]
    BY Zenon, <1>1
  <1>3. InProgress \subseteq Acquirers /\ IsFiniteSet(InProgress) /\ Cardinality(InProgress) \in Nat
    <2>1. InProgress \subseteq Acquirers
      BY Zenon DEF InProgress
    <2> QED BY Zenon, <2>1, AddersAreFew
  <1>4. \A q \in Acquirers : (q \in InProgress <=> reqPC[q] \in B) /\ (q \in InProgress' <=> reqPC'[q] \in B)
    BY Zenon DEF InProgress
  <1>5. InProgress' \subseteq Acquirers
    BY Zenon DEF InProgress
  <1> HIDE DEF B
  <1>6. ASSUME reqPC[r] \in B <=> pc \in B PROVE InProgress' = InProgress
    <2>1. \A q \in Acquirers : q \in InProgress' <=> q \in InProgress
      BY Zenon, <1>2, <1>4, <1>6
    <2> QED BY Zenon, <1>3, <1>5, <2>1
  <1>7. ASSUME reqPC[r] \notin B, pc \in B PROVE Cardinality(InProgress)' = Cardinality(InProgress) + 1
    <2>1. \A q \in Acquirers : q \in InProgress' <=> q \in InProgress \cup {r}
      BY Zenon, <1>2, <1>4, <1>7
    <2>2. InProgress' = InProgress \cup {r} /\ r \notin InProgress
      BY Zenon, <1>3, <1>4, <1>5, <1>7, <2>1
    <2> QED BY Zenon, <1>3, <2>2, FS_AddElement
  <1>8. ASSUME reqPC[r] \in B, pc \notin B PROVE Cardinality(InProgress)' = Cardinality(InProgress) - 1
    <2>1. \A q \in Acquirers : q \in InProgress' <=> q \in InProgress \ {r}
      BY Zenon, <1>2, <1>4, <1>8
    <2>2. InProgress' = InProgress \ {r} /\ r \in InProgress
      BY Zenon, <1>3, <1>4, <1>5, <1>8, <2>1
    <2> QED BY Zenon, <1>3, <2>2, FS_RemoveElement
  <1> QED BY Zenon, <1>2, <1>3, <1>6, <1>7, <1>8 DEF B

LEMMA RequestsKeep ==
  ASSUME WebInv, held \in Nat, NEW r \in Acquirers, HandleRequest(r) \/ RequestStep(r)
  PROVE  WebInv'
  <1> DEFINE B == {"processing", "releasing"}
  <1>0. UNCHANGED <<webStop, webState>>
    BY Zenon DEF HandleRequest, RequestStep, AcquireSteps, CheckLoad, BeginRequest, ReleaseLoad, EndRequest,
                 lifeOfServer, webVars
  <1>1. webStop # "ok"
    BY DEF WebInv, HandleRequest, RequestStep, AcquireSteps, CheckLoad, BeginRequest, ReleaseLoad, EndRequest
  <1>2. held = Cardinality(InProgress) /\ reqPC \in [Acquirers -> {"idle", "acquiring", "processing", "releasing"}]
    BY Zenon DEF WebInv
  <1>3. CASE AcquireSteps(r)
    <2>1. reqPC' = reqPC /\ held' = held
      BY Zenon, <1>3 DEF AcquireSteps, webVars, LoadLastReset, CompareAndSwapReset, ResetLoad
    <2> QED BY Zenon, <1>0, <1>1, <1>2, <2>1 DEF WebInv, InProgress
  <1>4. CASE HandleRequest(r) \/ CheckLoad(r) \/ \E panics \in BOOLEAN : EndRequest(r, panics)
    <2>1. \E pc \in {"idle", "acquiring", "processing", "releasing"} :
            reqPC' = [reqPC EXCEPT ![r] = pc] /\ (reqPC[r] \in B <=> pc \in B)
      BY <1>4 DEF HandleRequest, CheckLoad, EndRequest, ReqGoto
    <2>2. held' = held
      BY Zenon, <1>4 DEF HandleRequest, CheckLoad, EndRequest, bpVars, TryAcquire, LoadCurrent
    <2>3. InProgress' = InProgress /\ reqPC' \in [Acquirers -> {"idle", "acquiring", "processing", "releasing"}]
      BY Zenon, <2>1, RequestMoves
    <2> QED BY Zenon, <1>0, <1>1, <1>2, <2>2, <2>3 DEF WebInv
  <1>5. CASE BeginRequest(r)
    <2>1. reqPC' = [reqPC EXCEPT ![r] = "processing"] /\ reqPC[r] \notin B /\ "processing" \in B /\ held' = held + 1
      BY <1>5 DEF BeginRequest, ReqGoto, AddLoad
    <2>2. /\ Cardinality(InProgress)' = Cardinality(InProgress) + 1
          /\ reqPC' \in [Acquirers -> {"idle", "acquiring", "processing", "releasing"}]
      BY Zenon, <2>1, RequestMoves
    <2> QED BY Zenon, <1>0, <1>1, <1>2, <2>1, <2>2 DEF WebInv
  <1>6. CASE ReleaseLoad(r)
    <2>1. reqPC' = [reqPC EXCEPT ![r] = "idle"] /\ reqPC[r] \in B /\ "idle" \notin B /\ held' = held - 1
      BY <1>6 DEF ReleaseLoad, ReqGoto, Release
    <2>2. /\ Cardinality(InProgress)' = Cardinality(InProgress) - 1
          /\ reqPC' \in [Acquirers -> {"idle", "acquiring", "processing", "releasing"}]
      BY Zenon, <2>1, RequestMoves
    <2> QED BY Zenon, <1>0, <1>1, <1>2, <2>1, <2>2 DEF WebInv
  <1> QED BY Zenon, <1>3, <1>4, <1>5, <1>6 DEF RequestStep

LEMMA WebKeeps ==
  ASSUME WebInv, held \in Nat, [WebNext]_<<bpVars, webVars>>
  PROVE  WebInv'
  <1>1. CASE ListenAndServe \/ GocmdCancelled \/ StopExecutor \/ ShutdownServer \/ SecondPasses \/ UNCHANGED <<bpVars, webVars>>
    <2>1. UNCHANGED <<held, reqPC>>
      BY Zenon, <1>1 DEF ListenAndServe, GocmdCancelled, StopExecutor, ShutdownServer, SecondPasses, Tick, bpVars, webVars
    <2>2. webStop' = "ok" => webState' = "closed" /\ \A r \in Acquirers : reqPC'[r] = "idle"
      BY <1>1, <2>1 DEF WebInv, ListenAndServe, GocmdCancelled, StopExecutor, ShutdownServer, SecondPasses, webVars
    <2> QED BY Zenon, <2>1, <2>2 DEF WebInv, InProgress
  <1>2. ASSUME NEW r \in Acquirers, HandleRequest(r) \/ RequestStep(r) PROVE WebInv'
    BY Zenon, <1>2, RequestsKeep
  <1> QED BY Zenon, <1>1, <1>2 DEF WebNext

(* The load held is the number of requests in progress, whatever the         *)
(* handlers do, none is left when doStop has returned without an error, and  *)
(* the load stays within its bound.                                          *)
THEOREM LoadStaysExact == WebSpec => []LoadExact
  <1>1. NewFastHTTPServer => WebInv /\ BackpressureInv
    <2> SUFFICES ASSUME NewFastHTTPServer PROVE WebInv /\ BackpressureInv
      BY Zenon
    <2>1. /\ reqPC = [r \in Acquirers |-> "idle"] /\ held = 0 /\ webStop # "ok" /\ BackpressureInv
      BY BackpressureStarts DEF NewFastHTTPServer, NewBackpressureController
    <2>2. \A r \in Acquirers : reqPC[r] = "idle"
      BY Zenon, <2>1
    <2>3. InProgress = {}
      BY <2>2 DEF InProgress
    <2>4. Cardinality(InProgress) = 0
      BY Zenon, <2>3, FS_EmptySet
    <2> QED BY Zenon, <2>1, <2>4 DEF WebInv
  <1>2. WebInv /\ BackpressureInv /\ [WebNext]_<<bpVars, webVars>> => WebInv' /\ BackpressureInv'
    BY Zenon, WebKeeps, WebUsesController, BackpressureKeeps DEF BackpressureInv
  <1>3. WebInv /\ BackpressureInv /\ HeldBounded => LoadExact
    <2> SUFFICES ASSUME WebInv, BackpressureInv, HeldBounded PROVE LoadExact
      BY Zenon
    <2>1. held = Cardinality(InProgress) /\ (webStop = "ok" => \A r \in Acquirers : reqPC[r] = "idle")
      BY Zenon DEF WebInv
    <2>2. ASSUME webStop = "ok" PROVE InProgress = {}
      BY <2>1, <2>2 DEF InProgress
    <2>3. webStop = "ok" => held = 0
      BY Zenon, <2>1, <2>2, FS_EmptySet
    <2> QED BY Zenon, <2>1, <2>2, <2>3 DEF LoadExact, RequestsReleased, HeldBounded
  <1> QED BY <1>1, <1>2, <1>3, WebImplementsBackpressure, HeldStaysBounded, PTL DEF WebSpec
=============================================================================
