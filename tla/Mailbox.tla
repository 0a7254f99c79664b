------------------------------ MODULE Mailbox -------------------------------
(***************************************************************************)
(* The bounded mailbox of pkg/core/concurrency/mailbox_impl.go: a buffered *)
(* channel and a closed flag that Send and Receive read before they touch  *)
(* the channel.  Each operator is one atomic step of an operation; the     *)
(* modules that use mailboxes put the steps together.                      *)
(***************************************************************************)
EXTENDS Integers, Sequences

CONSTANTS
  Mailboxes,   \* the mailboxes
  Capacity     \* the capacity of each channel

ASSUME MailboxAssumption == Capacity \in Nat \ {0}

VARIABLES
  mbClosed,    \* the atomic flag mb.closed
  chClosed,    \* close(mb.ch) has happened
  ch           \* the messages buffered in mb.ch

mailboxVars == <<mbClosed, chClosed, ch>>

NewBoundedMailbox ==
  /\ mbClosed = [m \in Mailboxes |-> FALSE]
  /\ chClosed = [m \in Mailboxes |-> FALSE]
  /\ ch = [m \in Mailboxes |-> <<>>]

(* Send: the select, once the flag has been read as open.  A send on a      *)
(* closed channel panics; a full channel takes the default branch.          *)
ChanHasRoom(m) == Len(ch[m]) < Capacity

SendCase(m, msg) ==
  /\ ~chClosed[m]
  /\ ChanHasRoom(m)
  /\ ch' = [ch EXCEPT ![m] = Append(@, msg)]
  /\ UNCHANGED <<mbClosed, chClosed>>

SendDefault(m) ==
  /\ ~chClosed[m]
  /\ ~ChanHasRoom(m)
  /\ UNCHANGED mailboxVars

SendPanics(m) == chClosed[m] /\ UNCHANGED mailboxVars

(* Mutant: the newest message first. *)
ReceiveCaseNewest(m, msg) ==
  /\ ch[m] # <<>>
  /\ msg = ch[m][Len(ch[m])]
  /\ ch' = [ch EXCEPT ![m] = SubSeq(@, 1, Len(@) - 1)]
  /\ UNCHANGED <<mbClosed, chClosed>>

(* Receive: a message is buffered, even if the channel is closed by now.    *)
ReceiveCase(m, msg) ==
  /\ ch[m] # <<>>
  /\ msg = Head(ch[m])
  /\ ch' = [ch EXCEPT ![m] = Tail(@)]
  /\ UNCHANGED <<mbClosed, chClosed>>

(* Receive: the channel is closed and empty. *)
ReceiveClosed(m) == chClosed[m] /\ ch[m] = <<>>

(* Mutant: the flag is set but the channel stays open. *)
MailboxCloseFlagOnly(ms) ==
  /\ mbClosed' = [m \in Mailboxes |-> mbClosed[m] \/ m \in ms]
  /\ UNCHANGED <<chClosed, ch>>

(* Close of the mailboxes ms: the first call sets the flag and closes the   *)
(* channel; in between no step of anyone else can tell the difference.      *)
MailboxClose(ms) ==
  /\ mbClosed' = [m \in Mailboxes |-> mbClosed[m] \/ m \in ms]
  /\ chClosed' = [m \in Mailboxes |-> chClosed[m] \/ m \in ms]
  /\ UNCHANGED ch
=============================================================================
