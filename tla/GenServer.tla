----------------------------- MODULE GenServer -----------------------------
(***************************************************************************)
(* pkg/core/genserver.go: a verticle whose state is changed by calls and   *)
(* casts that run as tasks on its event loop, an Executor with one worker. *)
(* A task reads the state, runs the handler without the lock and stores    *)
(* what the handler returned; only the single worker keeps two tasks       *)
(* apart.  The state is modelled as the sequence of messages applied, and  *)
(* the reply of a call as the state its handler left.                      *)
(***************************************************************************)
EXTENDS Naturals, Sequences, SequencesExt

CONSTANTS Messages,      \* each sent once, by a goroutine of its own
          Casts,         \* those sent by Cast
          Queries,       \* those whose handler returns a nil state
          NoMessage,
          LoopQueueSize

VARIABLES gsLoop,        \* bv.eventLoop: "up", "closing" or "nil"
          gsQueue,
          gsState,
          loopPC, loopMsg, loopRead,   \* per worker: what it does, its task, the state it read
          msgPC,         \* where each Call or Cast is
          replyCh, reply

gsVars == <<gsLoop, gsQueue, gsState, loopPC, loopMsg, loopRead, msgPC, replyCh, reply>>

\* Mutant: an event loop with two workers.
TwoWorkers == {1, 2}

\* Workers: 1 in BaseVerticle.Start.
LoopWorkers == {1}

NewGenServer ==
  /\ gsLoop = "up" /\ gsQueue = <<>> /\ gsState = <<>>
  /\ loopPC = [w \in LoopWorkers |-> "idle"] /\ loopMsg = [w \in LoopWorkers |-> NoMessage]
  /\ loopRead = [w \in LoopWorkers |-> <<>>]
  /\ msgPC = [c \in Messages |-> "idle"]
  /\ replyCh = [c \in Messages |-> <<>>] /\ reply = [c \in Messages |-> <<>>]

MsgGoto(c, pc) == msgPC' = [msgPC EXCEPT ![c] = pc]

\* The nil check of Call and Cast, which takes no lock.
CheckLoop(c) ==
  /\ msgPC[c] = "idle" /\ MsgGoto(c, IF gsLoop = "nil" THEN "refused" ELSE "submitting")
  /\ UNCHANGED <<gsLoop, gsQueue, gsState, loopPC, loopMsg, loopRead, replyCh, reply>>

\* The field is read again for Submit: when Stop has cleared it meanwhile, the call panics.
SubmitMessage(c) ==
  /\ msgPC[c] = "submitting"
  /\ \/ gsLoop = "nil" /\ MsgGoto(c, "panicked") /\ UNCHANGED gsQueue
     \/ /\ gsLoop = "closing" \/ (gsLoop = "up" /\ Len(gsQueue) >= LoopQueueSize)
        /\ MsgGoto(c, "refused") /\ UNCHANGED gsQueue
     \/ /\ gsLoop = "up" /\ Len(gsQueue) < LoopQueueSize
        /\ gsQueue' = Append(gsQueue, c) /\ MsgGoto(c, IF c \in Casts THEN "sent" ELSE "waiting")
  /\ UNCHANGED <<gsLoop, gsState, loopPC, loopMsg, loopRead, replyCh, reply>>

\* Execute up to the handler.
BeginMessage(w) ==
  /\ loopPC[w] = "idle" /\ gsQueue # <<>> /\ gsQueue' = Tail(gsQueue)
  /\ loopPC' = [loopPC EXCEPT ![w] = "handling"]
  /\ loopMsg' = [loopMsg EXCEPT ![w] = Head(gsQueue)]
  /\ loopRead' = [loopRead EXCEPT ![w] = gsState]
  /\ UNCHANGED <<gsLoop, gsState, msgPC, replyCh, reply>>

\* The handler returns; the state is stored and a call's reply sent.
EndMessage(w) ==
  /\ loopPC[w] = "handling" /\ loopPC' = [loopPC EXCEPT ![w] = "idle"]
  /\ loopMsg' = [loopMsg EXCEPT ![w] = NoMessage] /\ loopRead' = [loopRead EXCEPT ![w] = <<>>]
  /\ LET c == loopMsg[w]
         left == IF c \in Queries THEN loopRead[w] ELSE Append(loopRead[w], c)
     IN  /\ gsState' = IF c \in Queries THEN gsState ELSE left
         /\ replyCh' = IF c \in Casts THEN replyCh ELSE [replyCh EXCEPT ![c] = <<left>>]
  /\ UNCHANGED <<gsLoop, gsQueue, msgPC, reply>>

CallReplied(c) ==
  /\ msgPC[c] = "waiting" /\ replyCh[c] # <<>> /\ MsgGoto(c, "replied")
  /\ reply' = [reply EXCEPT ![c] = replyCh[c]] /\ replyCh' = [replyCh EXCEPT ![c] = <<>>]
  /\ UNCHANGED <<gsLoop, gsQueue, gsState, loopPC, loopMsg, loopRead>>

\* The timer or the context; the task stays where it is.
CallTimesOut(c) ==
  /\ msgPC[c] = "waiting" /\ MsgGoto(c, "timed out")
  /\ UNCHANGED <<gsLoop, gsQueue, gsState, loopPC, loopMsg, loopRead, replyCh, reply>>

\* BaseVerticle.Stop shuts the loop down, waits for it or for five seconds, and clears the field.
StopLoop ==
  /\ gsLoop # "nil" /\ gsLoop' = IF gsLoop = "up" THEN "closing" ELSE "nil"
  /\ UNCHANGED <<gsQueue, gsState, loopPC, loopMsg, loopRead, msgPC, replyCh, reply>>

GenServerNext ==
  \/ \E c \in Messages : CheckLoop(c) \/ SubmitMessage(c) \/ CallReplied(c) \/ CallTimesOut(c)
  \/ \E w \in LoopWorkers : BeginMessage(w) \/ EndMessage(w)
  \/ StopLoop

GenServerSpec == NewGenServer /\ [][GenServerNext]_gsVars
-----------------------------------------------------------------------------
(***************************************************************************)
(* Messages are applied one after the other and none is lost: the state a  *)
(* caller was told is a prefix of every later one, each message is applied *)
(* at most once, and a call that timed out may still be applied.           *)
(***************************************************************************)
RepliesHold ==
  /\ \A c \in Messages : reply[c] # <<>> => IsPrefix(reply[c][1], gsState)
  /\ \A i, j \in DOMAIN gsState : gsState[i] = gsState[j] => i = j
=============================================================================
