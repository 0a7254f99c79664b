----------------------------- MODULE EventQueue -----------------------------
(***************************************************************************)
(* What an event loop promises (pkg/core/eventloop): a bounded queue whose *)
(* accepted events are handled one at a time, each exactly once, in the    *)
(* order they were accepted.                                               *)
(***************************************************************************)
EXTENDS Naturals, Sequences

CONSTANTS
  Capacity,  \* the most events accepted and not yet handled
  Events

VARIABLES
  pending,   \* accepted and not yet handled
  handled    \* in the order they were handled

queueVars == <<pending, handled>>

QueueInit == pending = <<>> /\ handled = <<>>

Accept(e) ==
  /\ Len(pending) < Capacity
  /\ pending' = Append(pending, e)
  /\ UNCHANGED handled

Handle ==
  /\ pending # <<>>
  /\ handled' = Append(handled, Head(pending))
  /\ pending' = Tail(pending)

QueueNext == (\E e \in Events : Accept(e)) \/ Handle

QueueSpec == QueueInit /\ [][QueueNext]_queueVars
=============================================================================
