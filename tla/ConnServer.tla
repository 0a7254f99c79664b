----------------------------- MODULE ConnServer -----------------------------
(***************************************************************************)
(* The path of a connection (a packet) through the servers of              *)
(* pkg/tcp/tcp_server.go, pkg/ws/server.go and pkg/udp/udp_server.go:      *)
(* accepted, given a slot, admitted by the backpressure controller, queued *)
(* in a mailbox, handled by a worker, closed; with Stop at any moment.     *)
(* Whether TryAcquire admits is left open (Backpressure models it).        *)
(***************************************************************************)
EXTENDS Mailbox, FiniteSets

CONSTANTS
  ServerKinds,  \* "tcp", "ws", "udp"
  Conns,        \* bound: the connections or packets that arrive
  NoConn,
  Acceptors,    \* accept goroutines, read goroutines, or the goroutines of net/http
  ConnWorkers,  \* the tasks that run processConnFromMailbox
  MaxConns,     \* Config.MaxConns
  Queue         \* the mailbox connMailbox

ASSUME ConnAssumption ==
  /\ NoConn \notin Conns /\ MaxConns \in Nat /\ Queue \in Mailboxes
  /\ IsFiniteSet(Acceptors) /\ IsFiniteSet(ConnWorkers)

VARIABLES
  kind,
  draining, listening, \* the flag, and whether the listener is open
  stopPC,              \* doStop: "idle", "listener", "registered", "mailbox", "shutdown", "stopped", "failed"
  execCtxDone,         \* Executor.Shutdown has cancelled the context of the workers
  dialing,            \* connections the peers have still to open
  closed,              \* connections conn.Close() was called on
  acceptPC, acceptConn,
  workPC, workConn,
  tracked,          \* ws.connections
  activeConns, queuedConns, load,
  crashed              \* a goroutine panicked and took the program with it

connVars == <<kind, draining, listening, stopPC, execCtxDone, dialing, closed, acceptPC, acceptConn,
              workPC, workConn, tracked, activeConns, queuedConns, load, crashed, mailboxVars>>

acceptVars == <<kind, draining, listening, stopPC, execCtxDone, workPC, workConn, tracked>>

NewServer ==
  /\ kind \in ServerKinds
  /\ draining = FALSE /\ listening = TRUE /\ stopPC = "idle" /\ execCtxDone = FALSE
  /\ dialing = Conns /\ closed = {} /\ tracked = {}
  /\ acceptPC = [a \in Acceptors |-> "accept"] /\ acceptConn = [a \in Acceptors |-> NoConn]
  /\ workPC = [w \in ConnWorkers |-> "flag"] /\ workConn = [w \in ConnWorkers |-> NoConn]
  /\ activeConns = 0 /\ queuedConns = 0 /\ load = 0 /\ crashed = FALSE
  /\ NewBoundedMailbox

-----------------------------------------------------------------------------
(* The accept loop, readPacketsLoop or HandleWebSocket.                    *)

AcceptGoto(a, pc) == acceptPC' = [acceptPC EXCEPT ![a] = pc]

(* The requests of net/http come until its Shutdown, the last step of doStop. *)
Accept(a) ==
  /\ acceptPC[a] = "accept" /\ dialing # {}
  /\ IF kind = "ws" THEN stopPC # "stopped" ELSE listening
  /\ \E c \in dialing :
       /\ dialing' = dialing \ {c}
       /\ acceptConn' = [acceptConn EXCEPT ![a] = c]
  /\ AcceptGoto(a, IF kind = "udp" THEN "admit" ELSE "slot")
  /\ UNCHANGED <<acceptVars, closed, activeConns, queuedConns, load, crashed, mailboxVars>>

(* The read loop of UDP and the poll loop of TCP look at the flag first; Accept fails once the *)
(* listener is closed.                                                                         *)
AcceptEnds(a) ==
  /\ acceptPC[a] = "accept" /\ kind # "ws" /\ (~listening \/ draining)
  /\ AcceptGoto(a, "ended")
  /\ UNCHANGED <<acceptVars, dialing, closed, acceptConn, activeConns, queuedConns, load, crashed, mailboxVars>>

NextAccept(a) == AcceptGoto(a, "accept") /\ acceptConn' = [acceptConn EXCEPT ![a] = NoConn]

CloseConn(c) == closed' = closed \cup {c}

(* Mutant: the limit is compared with the connections there were before. *)
SlotLate(a) ==
  /\ acceptPC[a] = "slot"
  /\ IF activeConns > MaxConns
       THEN NextAccept(a) /\ CloseConn(acceptConn[a]) /\ UNCHANGED activeConns
       ELSE activeConns' = activeConns + 1 /\ AcceptGoto(a, "admit") /\ UNCHANGED <<acceptConn, closed>>
  /\ UNCHANGED <<acceptVars, dialing, queuedConns, load, crashed, mailboxVars>>

(* tryAcquireConnSlot: the compare-and-swap succeeds on the value that was compared; TCP also *)
(* refuses after losing it eleven times.                                                     *)
TryAcquireConnSlot(a) ==
  /\ acceptPC[a] = "slot"
  /\ \/ /\ activeConns >= MaxConns \/ kind = "tcp"
        /\ NextAccept(a) /\ CloseConn(acceptConn[a]) /\ UNCHANGED activeConns
     \/ /\ activeConns < MaxConns /\ activeConns' = activeConns + 1
        /\ AcceptGoto(a, IF kind = "ws" THEN "upgrade" ELSE "admit") /\ UNCHANGED <<acceptConn, closed>>
  /\ UNCHANGED <<acceptVars, dialing, queuedConns, load, crashed, mailboxVars>>

(* upgrader.Upgrade, which may fail. *)
Upgrade(a) ==
  /\ acceptPC[a] = "upgrade"
  /\ \/ AcceptGoto(a, "admit") /\ UNCHANGED <<acceptConn, closed, activeConns>>
     \/ NextAccept(a) /\ CloseConn(acceptConn[a]) /\ activeConns' = activeConns - 1
  /\ UNCHANGED <<acceptVars, dialing, queuedConns, load, crashed, mailboxVars>>

(* enqueueConn: backpressure.TryAcquire. *)
Refuse(a) == NextAccept(a) /\ CloseConn(acceptConn[a]) /\ activeConns' = IF kind = "udp" THEN activeConns ELSE activeConns - 1

Admit(a) ==
  /\ acceptPC[a] = "admit"
  /\ \/ load' = load + 1 /\ AcceptGoto(a, "sendflag") /\ UNCHANGED <<acceptConn, closed, activeConns>>
     \/ Refuse(a) /\ UNCHANGED load
  /\ UNCHANGED <<acceptVars, dialing, queuedConns, crashed, mailboxVars>>

(* Mutant: a connection that finds the queue full keeps its slot. *)
SendFailsKeeping(a) == NextAccept(a) /\ CloseConn(acceptConn[a]) /\ load' = load - 1 /\ UNCHANGED activeConns

SendFails(a) == Refuse(a) /\ load' = load - 1

SendFlag(a) ==
  /\ acceptPC[a] = "sendflag"
  /\ IF mbClosed[Queue] THEN SendFails(a) ELSE AcceptGoto(a, "send") /\ UNCHANGED <<acceptConn, closed, activeConns, load>>
  /\ UNCHANGED <<acceptVars, dialing, queuedConns, crashed, mailboxVars>>

EnqueueConn(a) ==
  /\ acceptPC[a] = "send"
  /\ \/ SendCase(Queue, acceptConn[a]) /\ AcceptGoto(a, "count") /\ UNCHANGED <<acceptConn, closed, activeConns, load, crashed>>
     \/ SendDefault(Queue) /\ SendFails(a) /\ UNCHANGED crashed
     \/ (* The send panics: net/http recovers it, in the other servers nobody does. *)
        /\ SendPanics(Queue) /\ AcceptGoto(a, "ended") /\ crashed' = (kind # "ws")
        /\ UNCHANGED <<acceptConn, closed, activeConns, load>>
  /\ UNCHANGED <<acceptVars, dialing, queuedConns>>

CountQueued(a) ==
  /\ acceptPC[a] = "count"
  /\ queuedConns' = queuedConns + 1 /\ NextAccept(a)
  /\ UNCHANGED <<acceptVars, dialing, closed, activeConns, load, crashed, mailboxVars>>

-----------------------------------------------------------------------------
(* processConnFromMailbox.                                                 *)

workVars == <<kind, draining, listening, stopPC, execCtxDone, dialing, acceptPC, acceptConn, crashed>>

WorkGoto(w, pc) == workPC' = [workPC EXCEPT ![w] = pc]

ReceiveFlag(w) ==
  /\ workPC[w] = "flag"
  /\ WorkGoto(w, IF mbClosed[Queue] THEN "ended" ELSE "receive")
  /\ UNCHANGED <<workVars, workConn, tracked, closed, activeConns, queuedConns, load, mailboxVars>>

(* A worker of UDP that finds the socket gone skips the handler; one of the WebSocket server *)
(* registers the connection under ws.mu, which doStop holds while it closes the others.      *)
Receive(w) ==
  /\ workPC[w] = "receive"
  /\ \/ \E c \in Conns :
          /\ ReceiveCase(Queue, c) /\ stopPC # "registered"
          /\ workConn' = [workConn EXCEPT ![w] = c]
          /\ queuedConns' = queuedConns - 1
          /\ tracked' = IF kind = "ws" THEN tracked \cup {c} ELSE tracked
          /\ WorkGoto(w, IF kind = "udp" /\ ~listening THEN "release" ELSE "handle")
     \/ /\ ReceiveClosed(Queue) \/ execCtxDone
        /\ WorkGoto(w, "ended") /\ UNCHANGED <<workConn, queuedConns, tracked, mailboxVars>>
  /\ UNCHANGED <<workVars, closed, activeConns, load>>

(* A handler calls ReadMessage of its WebSocket connection, which holds the connection's read *)
(* lock until the peer sends or goes away.                                                    *)
ReadMessage(w) ==
  /\ workPC[w] = "handle" /\ kind = "ws" /\ workConn[w] \notin closed
  /\ WorkGoto(w, "read")
  /\ UNCHANGED <<workVars, workConn, tracked, closed, activeConns, queuedConns, load, mailboxVars>>

PeerSends(w) ==
  /\ workPC[w] = "read"
  /\ WorkGoto(w, "handle")
  /\ UNCHANGED <<workVars, workConn, tracked, closed, activeConns, queuedConns, load, mailboxVars>>

(* Mutant: a handler is trusted to close its connection. *)
ConnHandledOpen(w) ==
  /\ workPC[w] = "handle"
  /\ tracked' = IF stopPC = "registered" THEN tracked ELSE tracked \ {workConn[w]}
  /\ WorkGoto(w, "release")
  /\ UNCHANGED <<workVars, workConn, closed, activeConns, queuedConns, load, mailboxVars>>

(* The handler returns, with an error or a panic or without, and the connection is closed; *)
(* the goroutine of onClose, which takes it off the registered ones, needs ws.mu.          *)
ConnHandled(w) ==
  /\ workPC[w] = "handle"
  /\ CloseConn(workConn[w])
  /\ tracked' = IF stopPC = "registered" THEN tracked ELSE tracked \ {workConn[w]}
  /\ WorkGoto(w, "release")
  /\ UNCHANGED <<workVars, workConn, activeConns, queuedConns, load, mailboxVars>>

ReleaseConn(w) ==
  /\ workPC[w] = "release"
  /\ load' = load - 1 /\ activeConns' = activeConns - 1
  /\ WorkGoto(w, "flag") /\ workConn' = [workConn EXCEPT ![w] = NoConn]
  /\ UNCHANGED <<workVars, tracked, closed, queuedConns, mailboxVars>>

-----------------------------------------------------------------------------
(* doStop.                                                                 *)

stopVars == <<kind, dialing, acceptPC, acceptConn, workPC, workConn, activeConns, queuedConns, load, crashed>>

DoStop ==
  /\ stopPC = "idle" /\ stopPC' = IF kind = "ws" THEN "registered" ELSE "listener"
  /\ draining' = TRUE
  /\ UNCHANGED <<stopVars, listening, execCtxDone, closed, tracked, mailboxVars>>

CloseListener ==
  /\ stopPC = "listener" /\ stopPC' = "mailbox"
  /\ listening' = FALSE
  /\ UNCHANGED <<stopVars, draining, execCtxDone, closed, tracked, mailboxVars>>

(* The lock of a connection is free when no handler reads from it. *)
LockFree(c) == \A w \in ConnWorkers : workConn[w] = c => workPC[w] # "read"

(* Connection.Close of every registered connection, with ws.mu held. *)
CloseRegistered ==
  /\ stopPC = "registered"
  /\ \/ \E c \in tracked \ closed :
          LockFree(c) /\ CloseConn(c) /\ UNCHANGED <<stopPC, tracked>>
     \/ tracked \subseteq closed /\ tracked' = {} /\ stopPC' = "mailbox" /\ UNCHANGED closed
  /\ UNCHANGED <<stopVars, draining, listening, execCtxDone, mailboxVars>>

CloseMailbox ==
  /\ stopPC = "mailbox" /\ stopPC' = "shutdown"
  /\ MailboxClose({Queue}) /\ execCtxDone' = TRUE
  /\ UNCHANGED <<stopVars, draining, listening, closed, tracked>>

(* The workers are waited for, or StopTimeout passes: then the WebSocket server returns the *)
(* error and does not shut net/http down.                                                   *)
ShutdownReturns ==
  /\ stopPC = "shutdown" /\ stopPC' \in {"stopped"} \cup (IF kind = "ws" THEN {"failed"} ELSE {})
  /\ UNCHANGED <<stopVars, draining, listening, execCtxDone, closed, tracked, mailboxVars>>

AcceptorStep(a) ==
  AcceptEnds(a) \/ TryAcquireConnSlot(a) \/ Upgrade(a) \/ Admit(a) \/ SendFlag(a) \/ EnqueueConn(a) \/ CountQueued(a)

ConnWorkerStep(w) == ReceiveFlag(w) \/ Receive(w) \/ ConnHandled(w) \/ ReleaseConn(w)

StopStep == CloseListener \/ CloseRegistered \/ CloseMailbox \/ ShutdownReturns

ConnNext ==
  /\ ~crashed
  /\ \/ \E a \in Acceptors : Accept(a) \/ AcceptorStep(a)
     \/ \E w \in ConnWorkers : ConnWorkerStep(w) \/ ReadMessage(w) \/ PeerSends(w)
     \/ DoStop \/ StopStep

ConnSpec ==
  /\ NewServer /\ [][ConnNext]_connVars
  /\ \A a \in Acceptors : WF_connVars(~crashed /\ AcceptorStep(a))
  /\ \A w \in ConnWorkers : WF_connVars(~crashed /\ ConnWorkerStep(w))
  /\ WF_connVars(~crashed /\ StopStep)

-----------------------------------------------------------------------------
PastAdmission ==
  {a \in Acceptors : acceptPC[a] \in {"sendflag", "send"} \/ (acceptPC[a] = "ended" /\ acceptConn[a] # NoConn)}
Slotted == {a \in Acceptors : acceptPC[a] \in {"upgrade", "admit"}}
Working == {w \in ConnWorkers : workConn[w] # NoConn}

(* The counters of a TCP or WebSocket server tell where its connections    *)
(* are: every slot belongs to one connection that is being accepted, is    *)
(* queued or is handled, every admission to one that is past TryAcquire,   *)
(* and the slots are never more than MaxConns.  (A WebSocket request whose *)
(* send panics keeps both for ever, and so do the connections that Stop    *)
(* leaves in the mailbox.)                                                 *)
SlotsExact ==
  LET held == Cardinality(PastAdmission) + Len(ch[Queue]) + Cardinality(Working)
  IN  load = held /\ (kind # "udp" => activeConns = held + Cardinality(Slotted) /\ activeConns <= MaxConns)

(* A goroutine that waits for the next connection has none, one on its way *)
(* through enqueueConn and a worker with a handler have one.               *)
SlotInv ==
  /\ acceptPC \in [Acceptors -> {"accept", "slot", "upgrade", "admit", "sendflag", "send", "count", "ended"}]
  /\ acceptConn \in [Acceptors -> Conns \cup {NoConn}]
  /\ \A a \in Acceptors : /\ acceptPC[a] = "accept" => acceptConn[a] = NoConn
                          /\ acceptConn[a] = NoConn => acceptPC[a] \in {"accept", "ended"}
  /\ workPC \in [ConnWorkers -> {"flag", "receive", "handle", "read", "release", "ended"}]
  /\ workConn \in [ConnWorkers -> Conns \cup {NoConn}]
  /\ \A w \in ConnWorkers : workConn[w] # NoConn <=> workPC[w] \in {"handle", "read", "release"}
  /\ ch \in [Mailboxes -> Seq(Conns)] /\ activeConns \in Int /\ dialing \subseteq Conns
  /\ SlotsExact

(* A connection the TCP server accepted is closed in the end, by whoever   *)
(* has it at that time, unless the server is stopped meanwhile.            *)
AcceptedIsClosed ==
  \A c \in Conns : []<>(kind = "tcp" => c \in dialing \cup closed \/ draining)

(* A Stop gets past the connections it closes ("Close all connections",    *)
(* ws/server.go:221), whatever the peers do, and returns.                  *)
StopReturns == stopPC # "idle" ~> stopPC \in {"stopped", "failed"} \/ crashed
=============================================================================
