----------------------------- MODULE RingBuffer -----------------------------
(***************************************************************************)
(* The lock-free ring of pkg/core/eventloop/ringbuffer.go: its state and   *)
(* the atomic memory operations that Next, Publish, WaitFor, Get and       *)
(* Consume are made of.  A thread's walk through these operations, one     *)
(* atomic load, store or compare-and-swap at a time, is in EventLoop.      *)
(***************************************************************************)
EXTENDS Integers

CONSTANTS
  Size,      \* number of slots (a power of two in the code: seq & indexMask = seq % Size)
  Events,    \* the *Event pointers that producers dispatch
  NoEvent    \* the nil pointer an unwritten slot holds

ASSUME SizeAssumption == Size \in Nat \ {0}
ASSUME NoEventAssumption == NoEvent \notin Events

VARIABLES
  buffer,    \* slot -> event pointer
  available, \* slot -> sequence last published there, -1 if none
  cursor,    \* highest claimed sequence
  gating     \* highest consumed sequence

ringVars == <<buffer, available, cursor, gating>>

Slots == 0 .. Size - 1

(* sequence & rb.indexMask *)
Slot(seq) == seq % Size

NewRingBuffer ==
  /\ buffer = [s \in Slots |-> NoEvent]
  /\ available = [s \in Slots |-> -1]
  /\ cursor = -1
  /\ gating = -1

(* Mutant: the wrap point compared with one sequence of slack. *)
NextIsFullOffByOne(current) == current + 1 - Size > gating + 1

(* Next: the claim after current would overtake the consumer by a whole lap. *)
NextIsFull(current) == current + 1 - Size > gating

(* Next: CompareAndSwapInt64(&rb.cursor, current, current+1). *)
CASSucceeds(current) == cursor = current

ClaimCursor(current) ==
  /\ cursor' = current + 1
  /\ UNCHANGED <<buffer, available, gating>>

(* Publish, first store: the event pointer. *)
StoreEvent(seq, event) ==
  /\ buffer' = [buffer EXCEPT ![Slot(seq)] = event]
  /\ UNCHANGED <<available, cursor, gating>>

(* Publish, second store: the slot becomes visible to WaitFor. *)
MarkAvailable(seq) ==
  /\ available' = [available EXCEPT ![Slot(seq)] = seq]
  /\ UNCHANGED <<buffer, cursor, gating>>

(* Mutant: a published flag that is never reset, instead of the sequence. *)
IsAvailableFlag(seq) == available[Slot(seq)] # -1

(* WaitFor: the poll of the awaited slot. *)
IsAvailable(seq) == available[Slot(seq)] = seq

Get(seq) == buffer[Slot(seq)]

Consume(seq) ==
  /\ gating' = seq
  /\ UNCHANGED <<buffer, available, cursor>>

(* AvailableCapacity, from the values of its two loads. *)
AvailableCapacity(cur, gate) ==
  LET used == cur - gate
  IN  Size - (IF used < 0 THEN 0 ELSE used)
=============================================================================
