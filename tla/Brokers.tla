------------------------------ MODULE Brokers -------------------------------
(***************************************************************************)
(* What talks through a message broker: the clustered event bus over NATS  *)
(* or JetStream, and request and reply over RabbitMQ.                      *)
(***************************************************************************)
EXTENDS Naturals, FiniteSets, Sequences

(***************************************************************************)
(* The clustered event bus of src/pkg/core/cluster/eventbus, for one       *)
(* address: jetstream.go (durable streams, manual acknowledgement) and     *)
(* nats.go (core NATS, no acknowledgement).  A process of the cluster is a *)
(* replica of a service; each registers one consumer.  The broker is       *)
(* external: a durable consumer of a stream keeps the messages that are    *)
(* not yet acknowledged and hands one out again when AckWait elapses.      *)
(* EventLoopGroup is the optional detour of onJSMsg to the same executor.  *)
(***************************************************************************)

CONSTANTS Posts,          \* messages, each published once
          PostKind,       \* "publish", "send" or "request", per message
          Replicas,       \* processes
          ServiceOf,      \* cfg.Service of each replica
          MaxAckPending,  \* cfg.MaxAckPending
          ExecQueue,      \* cfg.ExecutorConfig.QueueSize
          MaxCrashes      \* bound: crashes of replicas in a behaviour

VARIABLES bus,         \* "jetstream" or "nats"
          subscribed,  \* replicas whose Handler has subscribed
          stored,      \* posts published; on JetStream the streams hold them
          durables,    \* durable consumers the broker knows
          acks,       \* per durable: acknowledged posts
          unacked,     \* per durable: posts handed out, AckWait running
          delivering,    \* deliveries on their way to a replica's callback
          execTasks,       \* per replica: executor queue of deliveries
          handling,    \* per replica: the delivery in its handler, or <<>>
          handled,     \* <<durable, post>> pairs a handler returned nil for
          waiting,     \* requests whose RequestMsg has not returned
          crashes

clusterVars == <<bus, subscribed, stored, durables, acks, unacked, delivering,
                 execTasks, handling, handled, waiting, crashes>>
broker == <<stored, durables, acks, unacked>>

Services == {ServiceOf[r] : r \in Replicas}

\* Durable names: pub_<service>_<address> and send_<address>.
Durables == Services \cup {"send"}

\* The queue group a durable balances over, and the durable of a post.
Group(d) == {r \in Replicas : d \in {"send", ServiceOf[r]}}
DurablesOf(p) == CASE PostKind[p] = "publish" -> Services
                   [] PostKind[p] = "send"    -> {"send"}
                   [] OTHER                   -> {}

Delivery(r, d, p) == [replica |-> r, durable |-> d, post |-> p]

NewClusterEventBus ==
    /\ bus \in {"jetstream", "nats"}
    /\ subscribed = {}
    /\ stored = {}
    /\ durables = {}
    /\ acks = [d \in Durables |-> {}]
    /\ unacked = [d \in Durables |-> {}]
    /\ delivering = {}
    /\ execTasks = [r \in Replicas |-> <<>>]
    /\ handling = [r \in Replicas |-> <<>>]
    /\ handled = {}
    /\ waiting = {}
    /\ crashes = 0

(* Handler: subscribe to the three subjects; the first of a group creates  *)
(* its durable, which starts at the oldest message of the stream.          *)
ConsumerHandler(r) ==
    /\ r \notin subscribed
    /\ subscribed' = subscribed \cup {r}
    /\ durables' = IF bus = "jetstream" THEN durables \cup {"send", ServiceOf[r]}
                   ELSE durables
    /\ UNCHANGED <<bus, stored, acks, unacked, delivering, execTasks, handling,
                   handled, waiting, crashes>>

(* Publish and Send on JetStream: the stream stores the message.           *)
PublishStored(p) ==
    /\ bus = "jetstream"
    /\ PostKind[p] # "request"
    /\ p \notin stored
    /\ stored' = stored \cup {p}
    /\ UNCHANGED <<bus, subscribed, durables, acks, unacked, delivering, execTasks,
                   handling, handled, waiting, crashes>>

(* Publish, Send and Request on core NATS (JetStream uses it for Request): *)
(* every subscriber, or one of the queue group, or nobody.                 *)
PublishCore(p) ==
    /\ bus = "nats" \/ PostKind[p] = "request"
    /\ p \notin stored
    /\ stored' = stored \cup {p}
    /\ \E to \in SUBSET subscribed :
          /\ IF PostKind[p] = "publish" THEN to = subscribed
             ELSE Cardinality(to) = IF subscribed = {} THEN 0 ELSE 1
          /\ delivering' = delivering \cup {Delivery(r, "core", p) : r \in to}
    /\ waiting' = IF PostKind[p] = "request" THEN waiting \cup {p} ELSE waiting
    /\ UNCHANGED <<bus, subscribed, durables, acks, unacked, execTasks, handling,
                   handled, crashes>>

(* Request: RequestMsg gives up after its timeout.                         *)
RequestTimesOut(p) ==
    /\ p \in waiting
    /\ waiting' = waiting \ {p}
    /\ UNCHANGED <<bus, subscribed, broker, delivering, execTasks, handling, handled,
                   crashes>>

(* The broker hands an unacknowledged message to a replica of the group.   *)
HandOut(d, p) ==
    /\ d \in durables
    /\ p \in stored
    /\ d \in DurablesOf(p)
    /\ p \notin acks[d] \cup unacked[d]
    /\ Cardinality(unacked[d]) < MaxAckPending
    /\ \E r \in Group(d) \cap subscribed :
          delivering' = delivering \cup {Delivery(r, d, p)}
    /\ unacked' = [unacked EXCEPT ![d] = @ \cup {p}]
    /\ UNCHANGED <<bus, subscribed, stored, durables, acks, execTasks, handling,
                   handled, waiting, crashes>>

(* AckWait elapses, whatever became of the delivery.                       *)
AckWaitElapses(d, p) ==
    /\ p \in unacked[d]
    /\ unacked' = [unacked EXCEPT ![d] = @ \ {p}]
    /\ UNCHANGED <<bus, subscribed, stored, durables, acks, delivering, execTasks,
                   handling, handled, waiting, crashes>>

Acked(d, p) ==
    IF d = "core" THEN UNCHANGED <<acks, unacked>>
    ELSE /\ acks' = [acks EXCEPT ![d] = @ \cup {p}]
         /\ unacked' = [unacked EXCEPT ![d] = @ \ {p}]

\* Mutant: the message is acknowledged when its task is accepted.
OnMsgAcks(x) ==
    /\ x \in delivering
    /\ delivering' = delivering \ {x}
    /\ IF Len(execTasks[x.replica]) < ExecQueue
       THEN /\ execTasks' = [execTasks EXCEPT ![x.replica] = Append(@, x)]
            /\ Acked(x.durable, x.post)
       ELSE UNCHANGED <<execTasks, acks, unacked>>
    /\ UNCHANGED <<bus, subscribed, stored, durables, handling, handled, waiting,
                   crashes>>

(* onJSMsg, onCoreMsg and onMsg: submit to the executor; when its queue is *)
(* full the delivery is dropped, and a durable one stays unacknowledged.   *)
OnMsg(x) ==
    /\ x \in delivering
    /\ delivering' = delivering \ {x}
    /\ execTasks' = IF Len(execTasks[x.replica]) < ExecQueue
                    THEN [execTasks EXCEPT ![x.replica] = Append(@, x)] ELSE execTasks
    /\ UNCHANGED <<bus, subscribed, broker, handling, handled, waiting, crashes>>

HandleMsg(r) ==
    /\ handling[r] = <<>>
    /\ execTasks[r] # <<>>
    /\ handling' = [handling EXCEPT ![r] = <<Head(execTasks[r])>>]
    /\ execTasks' = [execTasks EXCEPT ![r] = Tail(@)]
    /\ UNCHANGED <<bus, subscribed, broker, delivering, handled, waiting, crashes>>

(* The handler returns nil: Ack; a request was answered with Reply.        *)
HandlerSucceeds(r, p) ==
    /\ handling[r] # <<>>
    /\ LET x == Head(handling[r]) IN
          /\ x.post = p
          /\ Acked(x.durable, p)
          /\ handled' = handled \cup {<<x.durable, p>>}
    /\ waiting' = waiting \ {p}
    /\ handling' = [handling EXCEPT ![r] = <<>>]
    /\ UNCHANGED <<bus, subscribed, stored, durables, delivering, execTasks, crashes>>

\* Mutant: a message is acknowledged whatever the handler returns.
HandlerErrorsAcks(r) ==
    /\ handling[r] # <<>>
    /\ LET x == Head(handling[r]) IN Acked(x.durable, x.post)
    /\ handling' = [handling EXCEPT ![r] = <<>>]
    /\ UNCHANGED <<bus, subscribed, stored, durables, delivering, execTasks, handled,
                   waiting, crashes>>

(* The handler returns an error: Nak, to be handed out again at once.      *)
HandlerErrors(r) ==
    /\ handling[r] # <<>>
    /\ LET x == Head(handling[r]) IN
          unacked' = [d \in Durables |->
                        unacked[d] \ IF d = x.durable THEN {x.post} ELSE {}]
    /\ handling' = [handling EXCEPT ![r] = <<>>]
    /\ UNCHANGED <<bus, subscribed, stored, durables, acks, delivering, execTasks,
                   handled, waiting, crashes>>

(* A replica dies (a handler that panics ends its process): its queue and  *)
(* its deliveries are gone.                                                *)
ReplicaCrashes(r) ==
    /\ crashes < MaxCrashes
    /\ crashes' = crashes + 1
    /\ subscribed' = subscribed \ {r}
    /\ delivering' = {x \in delivering : x.replica # r}
    /\ execTasks' = [execTasks EXCEPT ![r] = <<>>]
    /\ handling' = [handling EXCEPT ![r] = <<>>]
    /\ UNCHANGED <<bus, broker, handled, waiting>>

ReplicaStep(r) == ConsumerHandler(r) \/ HandleMsg(r) \/ HandlerErrors(r)

ClusterNext ==
    \/ \E r \in Replicas : ReplicaStep(r) \/ ReplicaCrashes(r)
    \/ \E r \in Replicas, p \in Posts : HandlerSucceeds(r, p)
    \/ \E p \in Posts : PublishStored(p) \/ PublishCore(p) \/ RequestTimesOut(p)
    \/ \E d \in Durables, p \in Posts : HandOut(d, p) \/ AckWaitElapses(d, p)
    \/ \E x \in delivering : OnMsg(x)

ClusterSpec == NewClusterEventBus /\ [][ClusterNext]_clusterVars

-----------------------------------------------------------------------------
(* A durable message is never lost by the code: what the broker may forget *)
(* for a service is what a handler of that service has returned nil for,   *)
(* through executor overload, failing handlers, crashes and redelivery.    *)
AckedIsHandled ==
    \A d \in Durables : \A p \in acks[d] : <<d, p>> \in handled

(* A message stored in a stream is eventually handled by every service     *)
(* that has subscribed, if handlers do not fail on it for ever.            *)
PostReachesServices ==
    \A d \in Durables, p \in Posts :
       []<>(d \in durables /\ p \in stored /\ d \in DurablesOf(p) => <<d, p>> \in handled)
-----------------------------------------------------------------------------
(***************************************************************************)
(* Request/reply over RabbitMQ: src/pkg/queue/rpc.go on top of publisher.go*)
(* and consumer.go.  One RPCClient with several concurrent Calls, one      *)
(* RPCServer at a time on the request queue.  The broker is external: it   *)
(* keeps a delivered message until it is acknowledged and queues it again  *)
(* (Redelivered) on Nack or when the consumer's channel dies.  The cache   *)
(* only decides whether a reply is a success, so replies carry the         *)
(* correlation id alone; SetReplyHandler's optional hook is left out.      *)
(***************************************************************************)
CONSTANTS RPCs,             \* concurrent calls; a call is its correlation id
          NoRPC,            \* no message
          MaxRedeliveries   \* bound: how often a server dies

ASSUME RPCAssumption == NoRPC \notin RPCs

VARIABLES rpcPC,        \* "new", "wait", "cleanup", "done" per call
          answered,     \* what a call returns: "none", "reply" or "error"
          pending,      \* RPCClient.pending: calls with a response channel
          response,     \* response channels: "empty", "full" or "closed"
          requests,     \* messages of the request queue
          serving,      \* the request in handleRequest, not acknowledged
          replied,       \* its reply has been published
          replies,      \* messages of the reply queue, a count per call
          replying,     \* the call handleReply found pending
          consuming,    \* the client's consumer goroutine runs
          redeliveries

rpcVars == <<rpcPC, answered, pending, response, requests, serving, replied,
             replies, replying, consuming, redeliveries>>
rpcClient == <<rpcPC, answered, pending, response>>
rpcServer == <<requests, serving, replied, redeliveries>>

NewRPCClient ==
    /\ rpcPC = [c \in RPCs |-> "new"]
    /\ answered = [c \in RPCs |-> "none"]
    /\ pending = {}
    /\ response = [c \in RPCs |-> "empty"]
    /\ requests = {}
    /\ serving = NoRPC
    /\ replied = FALSE
    /\ replies = [c \in RPCs |-> 0]
    /\ replying = NoRPC
    /\ consuming = TRUE
    /\ redeliveries = 0

(* Call: register the response channel, publish the request.               *)
CallRPC(c) ==
    /\ rpcPC[c] = "new"
    /\ pending' = pending \cup {c}
    /\ \/ /\ requests' = requests \cup {c}
          /\ rpcPC' = [rpcPC EXCEPT ![c] = "wait"]
          /\ UNCHANGED answered
       \/ /\ rpcPC' = [rpcPC EXCEPT ![c] = "cleanup"]
          /\ answered' = [answered EXCEPT ![c] = "error"]
          /\ UNCHANGED requests
    /\ UNCHANGED <<response, serving, replied, replies, replying, consuming,
                   redeliveries>>

(* Call: the select takes the response, the context or the timeout.        *)
ReceiveResponse(c) ==
    /\ rpcPC[c] = "wait"
    /\ response[c] = "full"
    /\ response' = [response EXCEPT ![c] = "empty"]
    /\ rpcPC' = [rpcPC EXCEPT ![c] = "cleanup"]
    /\ answered' = [answered EXCEPT ![c] = "reply"]
    /\ UNCHANGED <<pending, rpcServer, replies, replying, consuming>>

RPCTimesOut(c) ==
    /\ rpcPC[c] = "wait"
    /\ rpcPC' = [rpcPC EXCEPT ![c] = "cleanup"]
    /\ answered' = [answered EXCEPT ![c] = "error"]
    /\ UNCHANGED <<pending, response, rpcServer, replies, replying, consuming>>

(* Call's deferred clean-up, under pendingMu.                              *)
CleanUpRPC(c) ==
    /\ rpcPC[c] = "cleanup"
    /\ pending' = pending \ {c}
    /\ response' = [response EXCEPT ![c] = "closed"]
    /\ rpcPC' = [rpcPC EXCEPT ![c] = "done"]
    /\ UNCHANGED <<answered, rpcServer, replies, replying, consuming>>

(* The server's consumer receives a request.                               *)
TakeRequest(c) ==
    /\ serving = NoRPC
    /\ c \in requests
    /\ serving' = c
    /\ replied' = FALSE
    /\ requests' = requests \ {c}
    /\ UNCHANGED <<rpcClient, replies, replying, consuming, redeliveries>>

\* Mutant: Nack without requeue.
PublishFailsDropping ==
    /\ serving # NoRPC
    /\ ~replied
    /\ serving' = NoRPC
    /\ UNCHANGED <<rpcClient, requests, replied, redeliveries, replies, replying,
                   consuming>>

(* handleRequest publishes a success or error response, or fails to        *)
(* publish and the consumer Nacks the request back into its queue.         *)
ServeRequest ==
    /\ serving # NoRPC
    /\ ~replied
    /\ replied' = TRUE
    /\ replies' = [replies EXCEPT ![serving] = @ + 1]
    /\ UNCHANGED <<rpcClient, requests, serving, redeliveries, replying, consuming>>

PublishFails ==
    /\ serving # NoRPC
    /\ ~replied
    /\ requests' = requests \cup {serving}
    /\ serving' = NoRPC
    /\ UNCHANGED <<rpcClient, replied, redeliveries, replies, replying, consuming>>

AckRequest ==
    /\ serving # NoRPC
    /\ replied
    /\ serving' = NoRPC
    /\ UNCHANGED <<rpcClient, requests, replied, redeliveries, replies, replying,
                   consuming>>

(* The server dies before the acknowledgement; another takes its place.    *)
ServerDies ==
    /\ serving # NoRPC
    /\ redeliveries < MaxRedeliveries
    /\ redeliveries' = redeliveries + 1
    /\ requests' = requests \cup {serving}
    /\ serving' = NoRPC
    /\ UNCHANGED <<rpcClient, replied, replies, replying, consuming>>

(* handleReply, first part: look the channel up under pendingMu.  A reply  *)
(* nobody waits for is acknowledged and forgotten.                         *)
FindPending(c) ==
    /\ consuming
    /\ replying = NoRPC
    /\ replies[c] > 0
    /\ replies' = [replies EXCEPT ![c] = @ - 1]
    /\ replying' = IF c \in pending THEN c ELSE NoRPC
    /\ UNCHANGED <<rpcClient, rpcServer, consuming>>

(* handleReply, second part: send without blocking.  A send on a closed    *)
(* channel panics; consumeInternal recovers and its goroutine ends, the    *)
(* reply unacknowledged.                                                   *)
SendResponse ==
    /\ replying # NoRPC
    /\ replying' = NoRPC
    /\ IF response[replying] = "closed"
       THEN consuming' = FALSE /\ UNCHANGED response
       ELSE /\ response' = [response EXCEPT ![replying] = "full"]
            /\ UNCHANGED consuming
    /\ UNCHANGED <<rpcPC, answered, pending, rpcServer, replies>>

RPCNext ==
    \/ \E c \in RPCs : CallRPC(c) \/ ReceiveResponse(c) \/ RPCTimesOut(c)
                          \/ CleanUpRPC(c) \/ TakeRequest(c) \/ FindPending(c)
    \/ ServeRequest \/ PublishFails \/ AckRequest \/ ServerDies \/ SendResponse

RPCSpec == NewRPCClient /\ [][RPCNext]_rpcVars

-----------------------------------------------------------------------------
(* Why no request is lost: the reply of a request that is about to be      *)
(* acknowledged is on its way, and a call that waits has its entry in      *)
(* pending and an open channel until it has its answer.                    *)
RPCWaits(c) == rpcPC[c] # "new" /\ answered[c] = "none"
ReplyOnItsWay(c) == replying = c \/ replies[c] > 0 \/ response[c] = "full"

RPCInv ==
    /\ rpcPC \in [RPCs -> {"new", "wait", "cleanup", "done"}]
    /\ answered \in [RPCs -> {"none", "reply", "error"}]
    /\ response \in [RPCs -> {"empty", "full", "closed"}]
    /\ replies \in [RPCs -> Nat]
    /\ serving \in RPCs \cup {NoRPC} /\ replying \in RPCs \cup {NoRPC}
    /\ \A c \in RPCs :
          /\ rpcPC[c] \in {"cleanup", "done"} => answered[c] # "none"
          /\ rpcPC[c] \in {"wait", "cleanup"} => c \in pending
          /\ response[c] = "closed" => rpcPC[c] = "done"
          /\ RPCWaits(c) => \/ c \in requests \/ (serving = c /\ ~replied)
                            \/ ReplyOnItsWay(c)

(* A request the client published is never lost while its call waits: it  *)
(* is queued, with the server, or its reply is on its way to the call,     *)
(* however often publishing a reply fails or the server dies.              *)
RequestNotLost ==
    \A c \in RPCs : (rpcPC[c] # "new" /\ answered[c] = "none") =>
       \/ c \in requests \cup {serving, replying}
       \/ replies[c] > 0
       \/ response[c] = "full"

(* "Channel already closed or full" is the comment on the default branch   *)
(* of handleReply's send: a reply that arrives late is to be dropped and   *)
(* the client goes on consuming replies.                                   *)
LateReplyIsDropped == consuming
=============================================================================
