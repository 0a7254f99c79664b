------------------------------- MODULE Future -------------------------------
(***************************************************************************)
(* Futures and promises of pkg/core/concurrency/future.go.  An action is   *)
(* one atomic operation or one critical section of one goroutine.          *)
(***************************************************************************)
EXTENDS Integers, Sequences, FiniteSets

CONSTANTS
  Futures,
  Completers, \* goroutines that call Complete ("ok") or Fail ("err")
  Awaiters,   \* goroutines that call Await
  Handlers    \* handlers, each passed once to OnSuccess or OnFailure

Outcomes == {"ok", "err"}

VARIABLES
  completed,   \* f.completed
  result,      \* f.result, "nil" before it is set
  resultChan,  \* f.resultChan, of capacity 1
  registered,  \* f.successHandlers and f.failureHandlers: sequences of <<kind, handler>>
  completerPC, \* where each Complete or Fail is: <<label, future, outcome>>
  toCall,      \* the handlers it has copied and not yet called
  awaiterPC,   \* where each Await is: <<label, future>>, or <<"store", future, received>>
  answer,      \* what each Await returned last: <<future, answer>>, or <<>>
  handlerPC,   \* where each OnSuccess or OnFailure is: <<label, future, kind>>
  called,      \* history: how often each handler was called, per outcome passed
  winner,      \* history: the outcome whose Complete or Fail came first
  taken        \* history: an Await has received from resultChan

futureVars == <<completed, result, resultChan, registered, completerPC, toCall, awaiterPC, answer,
                handlerPC, called, winner, taken>>

NewPromise ==
  /\ completed = [f \in Futures |-> FALSE]
  /\ result = [f \in Futures |-> "nil"]
  /\ resultChan = [f \in Futures |-> <<>>]
  /\ registered = [f \in Futures |-> <<>>]
  /\ completerPC = [g \in Completers |-> <<"idle">>]
  /\ toCall = [g \in Completers |-> <<>>]
  /\ awaiterPC = [a \in Awaiters |-> <<"idle">>]
  /\ answer = [a \in Awaiters |-> <<>>]
  /\ handlerPC = [h \in Handlers |-> <<"idle">>]
  /\ called = [h \in Handlers |-> [o \in Outcomes |-> 0]]
  /\ winner = [f \in Futures |-> "none"]
  /\ taken = [f \in Futures |-> FALSE]

-----------------------------------------------------------------------------
(* Complete (o = "ok") and Fail (o = "err").                               *)

CompleterGoto(g, pc) == completerPC' = [completerPC EXCEPT ![g] = pc]

(* Mutant: the flag is read and written without a compare-and-swap. *)
CompleteBlindly(g, f, o) ==
  /\ completerPC[g][1] = "idle"
  /\ completed' = [completed EXCEPT ![f] = TRUE]
  /\ winner' = [winner EXCEPT ![f] = IF @ = "none" THEN o ELSE @]
  /\ CompleterGoto(g, <<"set", f, o>>)
  /\ UNCHANGED <<result, resultChan, registered, toCall, awaiterPC, answer, handlerPC, called, taken>>

(* CompareAndSwap(&f.completed, 0, 1): the loser returns at once. *)
Complete(g, f, o) ==
  /\ completerPC[g][1] = "idle"
  /\ ~completed[f]
  /\ completed' = [completed EXCEPT ![f] = TRUE]
  /\ winner' = [winner EXCEPT ![f] = o]
  /\ CompleterGoto(g, <<"set", f, o>>)
  /\ UNCHANGED <<result, resultChan, registered, toCall, awaiterPC, answer, handlerPC, called, taken>>

SetResult(g) ==
  /\ completerPC[g][1] = "set"
  /\ LET f == completerPC[g][2] o == completerPC[g][3] IN
       /\ result' = [result EXCEPT ![f] = o]
       /\ CompleterGoto(g, <<"send", f, o>>)
  /\ UNCHANGED <<completed, resultChan, registered, toCall, awaiterPC, answer, handlerPC, called, winner, taken>>

(* Mutant: the result is not sent. *)
SendResultForgotten(g) ==
  /\ completerPC[g][1] = "send"
  /\ CompleterGoto(g, <<"copy", completerPC[g][2], completerPC[g][3]>>)
  /\ UNCHANGED <<completed, result, resultChan, registered, toCall, awaiterPC, answer, handlerPC, called,
                 winner, taken>>

(* The send does not block; the channel has room for one result. *)
SendResult(g) ==
  /\ completerPC[g][1] = "send"
  /\ LET f == completerPC[g][2] o == completerPC[g][3] IN
       /\ resultChan' = [resultChan EXCEPT ![f] = IF @ = <<>> THEN <<o>> ELSE @]
       /\ CompleterGoto(g, <<"copy", f, o>>)
  /\ UNCHANGED <<completed, result, registered, toCall, awaiterPC, answer, handlerPC, called, winner, taken>>

OfKind(handlers, o) == SelectSeq(handlers, LAMBDA r : r[1] = o)

CopyHandlers(g) ==
  /\ completerPC[g][1] = "copy"
  /\ LET f == completerPC[g][2] o == completerPC[g][3] IN
       /\ toCall' = [toCall EXCEPT ![g] = OfKind(registered[f], o)]
       /\ CompleterGoto(g, <<"call", f, o>>)
  /\ UNCHANGED <<completed, result, resultChan, registered, awaiterPC, answer, handlerPC, called, winner, taken>>

(* The copied handlers are called one by one, then Complete returns. *)
CallHandler(g) ==
  /\ completerPC[g][1] = "call"
  /\ IF toCall[g] = <<>>
       THEN CompleterGoto(g, <<"idle">>) /\ UNCHANGED <<toCall, called>>
       ELSE /\ called' = [called EXCEPT ![Head(toCall[g])[2]][completerPC[g][3]] = @ + 1]
            /\ toCall' = [toCall EXCEPT ![g] = Tail(@)]
            /\ UNCHANGED completerPC
  /\ UNCHANGED <<completed, result, resultChan, registered, awaiterPC, answer, handlerPC, winner, taken>>

-----------------------------------------------------------------------------
(* OnSuccess (o = "ok") and OnFailure (o = "err").                         *)

Register(h, f, o) ==
  /\ handlerPC[h][1] = "idle"
  /\ registered' = [registered EXCEPT ![f] = Append(@, <<o, h>>)]
  /\ handlerPC' = [handlerPC EXCEPT ![h] = <<"check", f, o>>]
  /\ UNCHANGED <<completed, result, resultChan, completerPC, toCall, awaiterPC, answer, called, winner, taken>>

(* What a caller sees that finds the flag set and then reads the result. *)
IsResult(f, o) == completed[f] /\ result[f] = o

(* Mutant: a completed future does not call the handler, Complete has to. *)
RegisterCheckSkipped(h) ==
  /\ handlerPC[h][1] = "check"
  /\ handlerPC' = [handlerPC EXCEPT ![h] = <<"done", handlerPC[h][2], handlerPC[h][3]>>]
  /\ UNCHANGED <<completed, result, resultChan, registered, completerPC, toCall, awaiterPC, answer, called,
                 winner, taken>>

(* If the future is completed already, the handler is called immediately. *)
RegisterCheck(h) ==
  /\ handlerPC[h][1] = "check"
  /\ LET f == handlerPC[h][2] o == handlerPC[h][3] IN
       /\ called' = IF IsResult(f, o) THEN [called EXCEPT ![h][result[f]] = @ + 1] ELSE called
       /\ handlerPC' = [handlerPC EXCEPT ![h] = <<"done", f, o>>]
  /\ UNCHANGED <<completed, result, resultChan, registered, completerPC, toCall, awaiterPC, answer, winner, taken>>

-----------------------------------------------------------------------------
(* Await.                                                                  *)

AwaiterGoto(a, pc) == awaiterPC' = [awaiterPC EXCEPT ![a] = pc]

(* The fast path, or the select. *)
Await(a, f) ==
  /\ awaiterPC[a][1] = "idle"
  /\ IF \E o \in Outcomes : IsResult(f, o)
       THEN answer' = [answer EXCEPT ![a] = <<f, result[f]>>] /\ UNCHANGED awaiterPC
       ELSE AwaiterGoto(a, <<"select", f>>) /\ UNCHANGED answer
  /\ UNCHANGED <<completed, result, resultChan, registered, completerPC, toCall, handlerPC, called, winner, taken>>

AwaitReceive(a) ==
  /\ awaiterPC[a][1] = "select"
  /\ LET f == awaiterPC[a][2] IN
       /\ resultChan[f] # <<>>
       /\ AwaiterGoto(a, <<"store", f, Head(resultChan[f])>>)
       /\ resultChan' = [resultChan EXCEPT ![f] = Tail(@)]
       /\ taken' = [taken EXCEPT ![f] = TRUE]
  /\ UNCHANGED <<completed, result, registered, completerPC, toCall, answer, handlerPC, called, winner>>

(* The received result is stored again, "for future reads". *)
AwaitStore(a) ==
  /\ awaiterPC[a][1] = "store"
  /\ LET f == awaiterPC[a][2] o == awaiterPC[a][3] IN
       /\ result' = [result EXCEPT ![f] = o]
       /\ completed' = [completed EXCEPT ![f] = TRUE]
       /\ answer' = [answer EXCEPT ![a] = <<f, o>>]
  /\ AwaiterGoto(a, <<"idle">>)
  /\ UNCHANGED <<resultChan, registered, completerPC, toCall, handlerPC, called, winner, taken>>

AwaitCancelled(a) ==
  /\ awaiterPC[a][1] = "select"
  /\ answer' = [answer EXCEPT ![a] = <<awaiterPC[a][2], "ctxErr">>]
  /\ AwaiterGoto(a, <<"idle">>)
  /\ UNCHANGED <<completed, result, resultChan, registered, completerPC, toCall, handlerPC, called, winner, taken>>

-----------------------------------------------------------------------------
CompleteStep(g) == SetResult(g) \/ SendResult(g) \/ CopyHandlers(g) \/ CallHandler(g)

AwaitStep(a) == AwaitReceive(a) \/ AwaitStore(a)

(* The steps of goroutines G, A and of all handlers on the futures F. *)
FutureSteps(F, G, A) ==
  \/ \E g \in G :
       \/ \E f \in F, o \in Outcomes : Complete(g, f, o)
       \/ CompleteStep(g)
  \/ \E h \in Handlers :
       \/ \E f \in F, o \in Outcomes : Register(h, f, o)
       \/ RegisterCheck(h)
  \/ \E a \in A :
       \/ \E f \in F : Await(a, f)
       \/ AwaitStep(a) \/ AwaitCancelled(a)

FutureNext == FutureSteps(Futures, Completers, Awaiters)

FutureSpec == NewPromise /\ [][FutureNext]_futureVars

-----------------------------------------------------------------------------
FutureTypeOK ==
  /\ completed \in [Futures -> BOOLEAN]
  /\ result \in [Futures -> Outcomes \cup {"nil"}]
  /\ \A f \in Futures : Len(resultChan[f]) <= 1
  /\ \A g \in Completers : completerPC[g][1] \in {"idle", "set", "send", "copy", "call"}
  /\ \A a \in Awaiters : awaiterPC[a][1] \in {"idle", "select", "store"}
  /\ \A h \in Handlers : handlerPC[h][1] \in {"idle", "check", "done"}
  /\ winner \in [Futures -> Outcomes \cup {"none"}]
  /\ taken \in [Futures -> BOOLEAN]

(* However many Complete and Fail calls race, the first decides: the stored  *)
(* result, the value in the channel, every answer of Await and every outcome *)
(* a handler is given are its outcome, and a handler is only given its kind. *)
FirstOutcomeWins ==
  /\ \A f \in Futures :
       /\ result[f] \in {"nil", winner[f]}
       /\ \A i \in DOMAIN resultChan[f] : resultChan[f][i] = winner[f]
  /\ \A a \in Awaiters :
       answer[a] # <<>> => answer[a][2] \in {"ctxErr", winner[answer[a][1]]}
  /\ \A h \in Handlers, o \in Outcomes :
       called[h][o] > 0 => o = winner[handlerPC[h][2]] /\ o = handlerPC[h][3]

Completing(f) == \E g \in Completers : completerPC[g][1] # "idle" /\ completerPC[g][2] = f

(* Registration and completion race, yet once both have returned a handler  *)
(* of the future's outcome has been called: never missed, but possibly twice *)
(* (by Complete and by OnSuccess), and never more often.                     *)
NoHandlerMissed ==
  \A h \in Handlers : \A f \in Futures, o \in Outcomes :
    handlerPC[h] = <<"done", f, o>> /\ winner[f] = o /\ ~Completing(f) => called[h][o] \in 1 .. 2

Selecting(a, f) == awaiterPC[a] = <<"select", f>>

(* When a future completes, a waiting Await returns, or another Await has    *)
(* taken the only value of resultChan.                                       *)
OneAwaitReturns ==
  \A a \in Awaiters, f \in Futures :
    []<>(Selecting(a, f) /\ completed[f] => taken[f])

(* "Blocks until the future completes or context is cancelled"               *)
(* (future.go:13): refuted, a second waiting Await is not woken.             *)
AwaitReturns ==
  \A a \in Awaiters, f \in Futures : Selecting(a, f) /\ completed[f] ~> ~Selecting(a, f)
=============================================================================
