------------------------------ MODULE EventBus ------------------------------
(***************************************************************************)
(* The in-process event bus of pkg/core/eventbus_impl.go, without the      *)
(* event-loop group: the consumers of one address, the callers of Publish  *)
(* and Send, Unregister and Close.  The consumers of the address are a Go  *)
(* slice: callers copy its header under the read lock and read the array   *)
(* afterwards, while Consumer and Unregister write to it.                  *)
(***************************************************************************)
EXTENDS Mailbox, FiniteSets

CONSTANTS
  Consumers,     \* the consumers of the address
  NoConsumer,    \* an unused array element
  Unregistering, \* the consumers that may call Unregister
  Callers,       \* goroutines that call Publish and Send
  Kinds,         \* which of "publish" and "send" they call
  MaxCalls,      \* bound: calls of each caller
  Workers,       \* workers of the bus's executor
  MayClose       \* whether Close may be called

ASSUME EventBusAssumption ==
  /\ Mailboxes = Consumers
  /\ NoConsumer \notin Consumers
  /\ Unregistering \subseteq Consumers
  /\ Kinds \subseteq {"publish", "send"}
  /\ MaxCalls \in Nat /\ Workers \in Nat
  /\ MayClose \in BOOLEAN

VARIABLES
  arrays,        \* the backing arrays of the slice, oldest first
  slice,         \* eb.consumers[address]: array and length
  mu,            \* the consumer whose Unregister holds eb.mu, or NoConsumer
  sendCounter,   \* eb.sendCounter
  ctxDone,       \* eb.ctx is cancelled
  execClosed,    \* the executor takes no more tasks
  closePC,       \* where Close is
  consPC,        \* where each consumer is
  done,          \* how often each consumer's done channel was closed
  unregPC,       \* where each consumer's Unregister is: the next index to shift
  pc, kind, calls, snap, idx, cur, result, \* the callers' calls
  got,           \* history: how often the current call queued its message to each consumer
  full,          \* history: the consumers it skipped because they were full
  stable,        \* history: the consumers registered ever since its snapshot
  late,          \* history: the callers whose call began after Close returned
  handled,       \* history: the messages each consumer received, in order
  panicked       \* history: a send on a closed channel panicked

busVars == <<arrays, slice, mu, sendCounter, ctxDone, execClosed, closePC, consPC, done, unregPC>>
callVars == <<pc, kind, calls, snap, idx, cur, result, got, full, stable, late>>
vars == <<mailboxVars, busVars, callVars, handled, panicked>>

NoSlice == [arr |-> 0, len |-> 0]

Init ==
  /\ NewBoundedMailbox
  /\ arrays = <<>> /\ slice = NoSlice /\ mu = NoConsumer /\ sendCounter = 0
  /\ ctxDone = FALSE /\ execClosed = FALSE /\ closePC = "idle"
  /\ consPC = [c \in Consumers |-> "new"]
  /\ done = [c \in Consumers |-> 0]
  /\ unregPC = [c \in Consumers |-> 0]
  /\ pc = [p \in Callers |-> "idle"]
  /\ kind = [p \in Callers |-> "none"]
  /\ calls = [p \in Callers |-> 0]
  /\ snap = [p \in Callers |-> NoSlice]
  /\ idx = [p \in Callers |-> 0]
  /\ cur = [p \in Callers |-> NoConsumer]
  /\ result = [p \in Callers |-> "none"]
  /\ got = [p \in Callers |-> [c \in Consumers |-> 0]]
  /\ full = [p \in Callers |-> {}]
  /\ stable = [p \in Callers |-> {}]
  /\ late = {}
  /\ handled = [c \in Consumers |-> <<>>]
  /\ panicked = FALSE

Elements(s) == {arrays[s.arr][i] : i \in 1 .. s.len}

registered == Elements(slice)

-----------------------------------------------------------------------------
(* Consumer: append in place while the array has room, else to a copy of    *)
(* twice the size.                                                          *)
AppendConsumer(c) ==
  LET cap == IF slice.arr = 0 THEN 0 ELSE Len(arrays[slice.arr]) IN
  \/ /\ slice.len < cap
     /\ arrays' = [arrays EXCEPT ![slice.arr][slice.len + 1] = c]
     /\ slice' = [slice EXCEPT !.len = @ + 1]
  \/ /\ slice.len = cap
     /\ arrays' = Append(arrays,
          [i \in 1 .. (IF cap = 0 THEN 1 ELSE 2 * cap) |->
             IF i <= cap THEN arrays[slice.arr][i] ELSE IF i = cap + 1 THEN c ELSE NoConsumer])
     /\ slice' = [arr |-> Len(arrays) + 1, len |-> slice.len + 1]

Consumer(c) ==
  /\ consPC[c] = "new"
  /\ mu = NoConsumer
  /\ AppendConsumer(c)
  /\ consPC' = [consPC EXCEPT ![c] = "created"]
  /\ UNCHANGED <<mailboxVars, mu, sendCounter, ctxDone, execClosed, closePC, done, unregPC, callVars, handled, panicked>>

(* Handler submits processMessages; a refused task only closes done. *)
Handler(c) ==
  /\ consPC[c] = "created"
  /\ \/ /\ ~execClosed
        /\ consPC' = [consPC EXCEPT ![c] = "submitted"]
        /\ UNCHANGED done
     \/ /\ execClosed
        /\ consPC' = [consPC EXCEPT ![c] = "refused"]
        /\ done' = [done EXCEPT ![c] = @ + 1]
  /\ UNCHANGED <<mailboxVars, arrays, slice, mu, sendCounter, ctxDone, execClosed, closePC, unregPC, callVars, handled, panicked>>

-----------------------------------------------------------------------------
(* processMessages, on a worker of the executor for as long as it runs.     *)

OnWorker(c) == consPC[c] \in {"receive", "select", "handling"}

ConsumerGoto(c, label) ==
  /\ consPC' = [consPC EXCEPT ![c] = label]
  /\ UNCHANGED <<arrays, slice, mu, sendCounter, ctxDone, execClosed, closePC, unregPC, callVars, panicked>>

WorkerTakes(c) ==
  /\ consPC[c] = "submitted"
  /\ Cardinality({e \in Consumers : OnWorker(e)}) < Workers
  /\ ConsumerGoto(c, "receive")
  /\ UNCHANGED <<mailboxVars, done, handled>>

(* The deferred function of processMessages. *)
Stop(c) ==
  /\ ConsumerGoto(c, "stopped")
  /\ done' = [done EXCEPT ![c] = @ + 1]
  /\ UNCHANGED <<mailboxVars, handled>>

(* Mutant: an empty mailbox ends the loop. *)
ReceiveCheckNonblocking(c) ==
  /\ consPC[c] = "receive"
  /\ \/ (mbClosed[c] \/ ch[c] = <<>>) /\ Stop(c)
     \/ ~mbClosed[c] /\ ch[c] # <<>> /\ ConsumerGoto(c, "select") /\ UNCHANGED <<mailboxVars, done, handled>>

(* Receive reads the flag ... *)
ReceiveCheck(c) ==
  /\ consPC[c] = "receive"
  /\ \/ mbClosed[c] /\ Stop(c)
     \/ ~mbClosed[c] /\ ConsumerGoto(c, "select") /\ UNCHANGED <<mailboxVars, done, handled>>

(* ... and waits for a message, for the channel to be closed or for the     *)
(* context.  The handler's errors and panics are contained.                 *)
ReceiveSelect(c) ==
  /\ consPC[c] = "select"
  /\ \/ \E msg \in Callers \X (1 .. MaxCalls) :
          /\ ReceiveCase(c, msg)
          /\ handled' = [handled EXCEPT ![c] = Append(@, msg)]
          /\ ConsumerGoto(c, "handling")
          /\ UNCHANGED done
     \/ (ReceiveClosed(c) \/ ctxDone) /\ Stop(c)

HandlerReturns(c) ==
  /\ consPC[c] = "handling"
  /\ ConsumerGoto(c, "receive")
  /\ UNCHANGED <<mailboxVars, done, handled>>

ConsumerStep(c) == WorkerTakes(c) \/ ReceiveCheck(c) \/ ReceiveSelect(c) \/ HandlerReturns(c)

-----------------------------------------------------------------------------
(* Unregister holds eb.mu throughout: append(consumers[:i], consumers[i+1:]...) *)
(* moves the later elements down one by one in the shared array, then the   *)
(* shorter slice is stored and the mailbox closed.                          *)

UnregisterLock(c) ==
  /\ c \in Unregistering
  /\ consPC[c] # "new" /\ unregPC[c] = 0 /\ mu = NoConsumer
  /\ stable' = [p \in Callers |-> stable[p] \ {c}]
  /\ \/ \E i \in 1 .. slice.len :
          /\ arrays[slice.arr][i] = c
          /\ mu' = c
          /\ unregPC' = [unregPC EXCEPT ![c] = i]
          /\ UNCHANGED mailboxVars
     \/ /\ c \notin registered
        /\ MailboxClose({c})
        /\ unregPC' = [unregPC EXCEPT ![c] = -1]
        /\ UNCHANGED mu
  /\ UNCHANGED <<arrays, slice, sendCounter, ctxDone, execClosed, closePC, consPC, done>>
  /\ UNCHANGED <<pc, kind, calls, snap, idx, cur, result, got, full, late, handled, panicked>>

(* Mutant: the last element goes instead of c. *)
UnregisterShiftDropsLast(c) ==
  /\ mu = c
  /\ slice' = [slice EXCEPT !.len = @ - 1]
  /\ MailboxClose({c})
  /\ mu' = NoConsumer
  /\ unregPC' = [unregPC EXCEPT ![c] = -1]
  /\ UNCHANGED <<arrays, sendCounter, ctxDone, execClosed, closePC, consPC, done, callVars, handled, panicked>>

UnregisterShift(c) ==
  /\ mu = c
  /\ \/ /\ unregPC[c] < slice.len
        /\ arrays' = [arrays EXCEPT ![slice.arr][unregPC[c]] = arrays[slice.arr][unregPC[c] + 1]]
        /\ unregPC' = [unregPC EXCEPT ![c] = @ + 1]
        /\ UNCHANGED <<slice, mu, mailboxVars>>
     \/ /\ unregPC[c] = slice.len
        /\ slice' = [slice EXCEPT !.len = @ - 1]
        /\ MailboxClose({c})
        /\ mu' = NoConsumer
        /\ unregPC' = [unregPC EXCEPT ![c] = -1]
        /\ UNCHANGED arrays
  /\ UNCHANGED <<sendCounter, ctxDone, execClosed, closePC, consPC, done, callVars, handled, panicked>>

-----------------------------------------------------------------------------
(* Publish and Send.                                                        *)

CallUnchanged == UNCHANGED <<arrays, slice, mu, ctxDone, execClosed, closePC, consPC, done, unregPC, handled>>

Return(p, r) ==
  /\ pc' = [pc EXCEPT ![p] = "idle"]
  /\ result' = [result EXCEPT ![p] = r]

(* Copy the slice header under the read lock. *)
Call(p, k) ==
  /\ pc[p] = "idle" /\ calls[p] < MaxCalls /\ k \in Kinds
  /\ mu = NoConsumer
  /\ pc' = [pc EXCEPT ![p] = k]
  /\ kind' = [kind EXCEPT ![p] = k]
  /\ calls' = [calls EXCEPT ![p] = @ + 1]
  /\ snap' = [snap EXCEPT ![p] = slice]
  /\ idx' = [idx EXCEPT ![p] = 1]
  /\ result' = [result EXCEPT ![p] = "none"]
  /\ got' = [got EXCEPT ![p] = [c \in Consumers |-> 0]]
  /\ full' = [full EXCEPT ![p] = {}]
  /\ stable' = [stable EXCEPT ![p] = registered]
  /\ late' = IF closePC = "closed" THEN late \cup {p} ELSE late
  /\ CallUnchanged
  /\ UNCHANGED <<mailboxVars, sendCounter, cur, panicked>>

(* Mailbox.Send to c: read the flag; a closed mailbox makes the call return *)
(* the context's error, which is nil while the context lives.               *)
SendCheck(p, c) ==
  /\ \/ mbClosed[c] /\ Return(p, IF ctxDone THEN "err" ELSE "nil")
     \/ ~mbClosed[c] /\ pc' = [pc EXCEPT ![p] = "select"] /\ UNCHANGED result
  /\ cur' = [cur EXCEPT ![p] = c]

(* The next element of the range over the copied header. *)
PublishNext(p) ==
  /\ pc[p] = "publish"
  /\ \/ idx[p] > snap[p].len /\ Return(p, "nil") /\ UNCHANGED cur
     \/ idx[p] <= snap[p].len /\ SendCheck(p, arrays[snap[p].arr][idx[p]])
  /\ CallUnchanged
  /\ UNCHANGED <<mailboxVars, sendCounter, kind, calls, snap, idx, got, full, stable, late, panicked>>

(* The round robin over the copied header. *)
SendPick(p) ==
  /\ pc[p] = "send"
  /\ \/ snap[p].len = 0 /\ Return(p, "noHandlers") /\ UNCHANGED <<cur, sendCounter>>
     \/ /\ snap[p].len > 0
        /\ sendCounter' = sendCounter + 1
        /\ SendCheck(p, arrays[snap[p].arr][(sendCounter' % snap[p].len) + 1])
  /\ CallUnchanged
  /\ UNCHANGED <<mailboxVars, kind, calls, snap, idx, got, full, stable, late, panicked>>

Selected(p) ==
  /\ SendCase(cur[p], <<p, calls[p]>>)
  /\ got' = [got EXCEPT ![p][cur[p]] = @ + 1]
  /\ \/ kind[p] = "publish" /\ pc' = [pc EXCEPT ![p] = "publish"] /\ idx' = [idx EXCEPT ![p] = @ + 1] /\ UNCHANGED result
     \/ kind[p] = "send" /\ Return(p, "nil") /\ UNCHANGED idx
  /\ UNCHANGED <<full, panicked>>

(* Mutant: a full mailbox ends the range. *)
SelectedFullBreaks(p) ==
  /\ SendDefault(cur[p])
  /\ full' = [full EXCEPT ![p] = @ \cup {cur[p]}]
  /\ Return(p, IF kind[p] = "publish" THEN "nil" ELSE "timeout")
  /\ UNCHANGED <<got, idx, panicked>>

(* A full mailbox: Publish skips the consumer, Send fails. *)
SelectedFull(p) ==
  /\ SendDefault(cur[p])
  /\ full' = [full EXCEPT ![p] = @ \cup {cur[p]}]
  /\ \/ kind[p] = "publish" /\ pc' = [pc EXCEPT ![p] = "publish"] /\ idx' = [idx EXCEPT ![p] = @ + 1] /\ UNCHANGED result
     \/ kind[p] = "send" /\ Return(p, "timeout") /\ UNCHANGED idx
  /\ UNCHANGED <<got, panicked>>

SelectedClosed(p) ==
  /\ SendPanics(cur[p])
  /\ pc' = [pc EXCEPT ![p] = "panic"]
  /\ panicked' = TRUE
  /\ UNCHANGED <<got, full, idx, result>>

SendSelect(p) ==
  /\ pc[p] = "select"
  /\ Selected(p) \/ SelectedFull(p) \/ SelectedClosed(p)
  /\ CallUnchanged
  /\ UNCHANGED <<sendCounter, kind, calls, snap, cur, stable, late>>

CallStep(p) == PublishNext(p) \/ SendPick(p) \/ SendSelect(p)

-----------------------------------------------------------------------------
(* Close.                                                                   *)

CloseUnchanged == UNCHANGED <<arrays, sendCounter, consPC, done, unregPC, callVars, handled, panicked, mu>>

CloseCancel ==
  /\ MayClose /\ closePC = "idle"
  /\ closePC' = "shutdown"
  /\ ctxDone' = TRUE
  /\ CloseUnchanged /\ UNCHANGED <<mailboxVars, slice, execClosed>>

(* executor.Shutdown: no more tasks, wait for the running ones or 5 s. *)
CloseShutdown ==
  /\ closePC = "shutdown"
  /\ closePC' = "waiting"
  /\ execClosed' = TRUE
  /\ CloseUnchanged /\ UNCHANGED <<mailboxVars, slice, ctxDone>>

CloseWaited ==
  /\ closePC = "waiting"
  /\ closePC' = "lock"
  /\ CloseUnchanged /\ UNCHANGED <<mailboxVars, slice, ctxDone, execClosed>>

(* Under the lock: close every registered mailbox, drop the consumers. *)
CloseMailboxes ==
  /\ closePC = "lock" /\ mu = NoConsumer
  /\ closePC' = "closed"
  /\ MailboxClose(registered)
  /\ slice' = NoSlice
  /\ CloseUnchanged /\ UNCHANGED <<ctxDone, execClosed>>

CloseStep == CloseShutdown \/ CloseWaited \/ CloseMailboxes

-----------------------------------------------------------------------------
Next ==
  /\ ~panicked
  /\ \/ \E c \in Consumers :
          Consumer(c) \/ Handler(c) \/ ConsumerStep(c) \/ UnregisterLock(c) \/ UnregisterShift(c)
     \/ \E p \in Callers : CallStep(p) \/ \E k \in Kinds : Call(p, k)
     \/ CloseCancel \/ CloseStep

Spec == Init /\ [][Next]_vars

(* Goroutines that can run do, message handlers return. *)
Fairness ==
  /\ \A c \in Consumers :
       /\ WF_vars(~panicked /\ ConsumerStep(c))
       /\ WF_vars(~panicked /\ UnregisterShift(c))
  /\ \A p \in Callers : WF_vars(~panicked /\ CallStep(p))
  /\ WF_vars(~panicked /\ CloseStep)

FairSpec == Spec /\ Fairness

-----------------------------------------------------------------------------
Messages == Callers \X (1 .. MaxCalls)

Returned(p, k, r) == pc[p] = "idle" /\ kind[p] = k /\ result[p] = r

(* A Publish that returned nil has queued its message exactly once to every *)
(* consumer of its snapshot except the full ones, and to nobody else, while *)
(* other consumers register concurrently and the callers' slices share      *)
(* their arrays with the bus; as long as nobody unregisters and the bus is  *)
(* open.                                                                    *)
PublishIsExact ==
  \A p \in Callers :
    Returned(p, "publish", "nil") /\ closePC = "idle" /\ (\A c \in Consumers : unregPC[c] = 0) =>
      \A c \in Consumers : got[p][c] = IF c \in stable[p] \ full[p] THEN 1 ELSE 0

(* A consumer receives the messages of one caller in the order in which     *)
(* that caller published and sent them.                                     *)
HandledInOrder ==
  \A c \in Consumers :
    LET all == handled[c] \o ch[c] IN
    \A i, j \in DOMAIN all : i < j /\ all[i][1] = all[j][1] => all[i][2] <= all[j][2]

(* No consumer is lost or listed twice: whenever nobody is in the middle of *)
(* Unregister, the slice holds each consumer that was created and neither   *)
(* unregistered nor dropped by Close, once.                                 *)
ConsumersExact ==
  mu = NoConsumer =>
    /\ slice.len = Cardinality(registered)
    /\ closePC # "closed" => registered = {c \in Consumers : consPC[c] # "new" /\ unregPC[c] = 0}

(* The interface: "Publish publishes a message to all handlers registered   *)
(* for the address."  A consumer registered from before the Publish until   *)
(* its return with nil has got the message once, unless it was full.        *)
PublishReachesEach ==
  \A p \in Callers :
    Returned(p, "publish", "nil") => \A c \in stable[p] \ full[p] : got[p][c] = 1

(* The interface: "Send sends a point-to-point message to one handler."     *)
SendReachesOne ==
  \A p \in Callers : Returned(p, "send", "nil") => \E c \in Consumers : got[p][c] = 1

(* The interface of Mailbox.Send: "Returns ErrMailboxClosed if mailbox is   *)
(* closed".                                                                 *)
ClosedMailboxIsAnError == ~panicked

(* The interface: "After Close, all other methods will fail."               *)
CallsFailAfterClose ==
  \A p \in late : pc[p] = "idle" => result[p] # "nil"

(* What is queued to a consumer whose handler is set is received, as long   *)
(* as the consumer stays registered and the bus open, when the executor has *)
(* a worker for every consumer.                                             *)
QueuedIsHandled ==
  \A c \in Consumers :
    []<>(ch[c] # <<>> /\ consPC[c] \notin {"created", "refused"}
           => mbClosed[c] \/ ctxDone \/ panicked)

(* Completion: the done channel of a consumer whose handler runs is closed  *)
(* after it unregistered.                                                   *)
UnregisterCompletes ==
  \A c \in Consumers :
    []<>(unregPC[c] # 0 /\ consPC[c] \notin {"created", "refused"}
           => done[c] = 1 \/ ctxDone \/ panicked)

(* The consumers of the bus keep going. *)
BusProgress == QueuedIsHandled /\ UnregisterCompletes

-----------------------------------------------------------------------------
(* The inductive invariants behind ConsumersExact, PublishIsExact and        *)
(* HandledInOrder.                                                          *)

Slices == [arr : Nat, len : Nat]

BusTypeOK ==
  /\ mbClosed \in [Consumers -> BOOLEAN] /\ chClosed \in [Consumers -> BOOLEAN]
  /\ ch \in [Consumers -> Seq(Messages)] /\ handled \in [Consumers -> Seq(Messages)]
  /\ arrays \in Seq(Seq(Consumers \cup {NoConsumer})) /\ slice \in Slices
  /\ mu \in Consumers \cup {NoConsumer} /\ sendCounter \in Nat
  /\ closePC \in {"idle", "shutdown", "waiting", "lock", "closed"}
  /\ consPC \in [Consumers -> {"new", "created", "submitted", "refused", "receive", "select", "handling", "stopped"}]
  /\ unregPC \in [Consumers -> Int]
  /\ pc \in [Callers -> {"idle", "publish", "send", "select", "panic"}]
  /\ kind \in [Callers -> {"none", "publish", "send"}] /\ calls \in [Callers -> 0 .. MaxCalls]
  /\ snap \in [Callers -> Slices] /\ idx \in [Callers -> Nat]
  /\ cur \in [Callers -> Consumers \cup {NoConsumer}]
  /\ result \in [Callers -> {"none", "nil", "err", "noHandlers", "timeout"}]
  /\ got \in [Callers -> [Consumers -> Nat]]
  /\ full \in [Callers -> SUBSET Consumers] /\ stable \in [Callers -> SUBSET Consumers]

(* The elements a slice shows are consumers, whoever shifts them. *)
WellFormed(s) ==
  s.len > 0 => /\ s.arr \in DOMAIN arrays
               /\ s.len <= Len(arrays[s.arr])
               /\ \A i \in 1 .. s.len : arrays[s.arr][i] \in Consumers

Active == {c \in Consumers : consPC[c] # "new" /\ unregPC[c] = 0}

(* The places of the slice that hold consumers: all, but for the one that   *)
(* the Unregister in progress is about to fill.                             *)
Places == {i \in 1 .. slice.len : mu = NoConsumer \/ unregPC[mu] # i}

SliceInv ==
  /\ slice.arr \in 0 .. Len(arrays)
  /\ slice.len <= IF slice.arr = 0 THEN 0 ELSE Len(arrays[slice.arr])
  /\ mu # NoConsumer => unregPC[mu] \in 1 .. slice.len
  /\ \A c \in Consumers : unregPC[c] > 0 => mu = c
  /\ \A c \in Consumers : consPC[c] = "new" => unregPC[c] = 0
  /\ \A i, j \in Places : arrays[slice.arr][i] = arrays[slice.arr][j] => i = j
  /\ \A i \in Places : arrays[slice.arr][i] \in Active
  /\ closePC # "closed" => \A c \in Active : \E i \in Places : arrays[slice.arr][i] = c

SnapInv ==
  /\ WellFormed(slice)
  /\ \A p \in Callers :
       /\ WellFormed(snap[p])
       /\ pc[p] # "idle" => idx[p] >= 1 /\ calls[p] >= 1
       /\ pc[p] = "publish" => kind[p] = "publish"
       /\ pc[p] = "send" => kind[p] = "send"
       /\ pc[p] = "select" => kind[p] # "none" /\ cur[p] \in Consumers

Quiet == closePC = "idle" /\ \A c \in Consumers : unregPC[c] = 0

(* A Publish half way through its snapshot. *)
Reached(p, c) == \E i \in 1 .. idx[p] - 1 : arrays[snap[p].arr][i] = c

MidPublish(p) ==
  /\ snap[p].arr = slice.arr => snap[p].len <= slice.len
  /\ \A i, j \in 1 .. snap[p].len : arrays[snap[p].arr][i] = arrays[snap[p].arr][j] => i = j
  /\ stable[p] = Elements(snap[p])
  /\ idx[p] <= snap[p].len + 1
  /\ pc[p] = "select" => idx[p] <= snap[p].len /\ cur[p] = arrays[snap[p].arr][idx[p]]
  /\ \A c \in full[p] : Reached(p, c)
  /\ \A c \in Consumers : got[p][c] = IF Reached(p, c) /\ c \notin full[p] THEN 1 ELSE 0

PublishInv ==
  Quiet => /\ \A c \in Consumers : ~mbClosed[c]
           /\ \A p \in Callers : kind[p] = "publish" /\ pc[p] \in {"publish", "select"} => MidPublish(p)
           /\ PublishIsExact

(* No message is newer than its caller's last call. *)
OrderInv ==
  /\ \A c \in Consumers :
       \A i \in DOMAIN (handled[c] \o ch[c]) :
         (handled[c] \o ch[c])[i][2] <= calls[(handled[c] \o ch[c])[i][1]]
  /\ HandledInOrder

BusInv == BusTypeOK /\ SliceInv /\ SnapInv /\ PublishInv /\ OrderInv
=============================================================================
