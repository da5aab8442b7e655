-------------------------------- MODULE Fifo --------------------------------
(***************************************************************************)
(* What a queue view pair (struct equeue, struct dqueue) promises to the   *)
(* two components that share it: a bounded FIFO of messages.  The consumer *)
(* first looks at the oldest message and later releases it; the message    *)
(* stays in the queue, and keeps its slot, until it is released.           *)
(***************************************************************************)
EXTENDS Naturals, Sequences

CONSTANTS
  Msg,        \* the messages a queue entry can carry
  NoMsg,      \* "the consumer is not looking at a message"
  Capacity    \* nelems of the queue

VARIABLES
  q,          \* messages published and not yet released, oldest first
  seen        \* the message the consumer is handling, or NoMsg

vars == <<q, seen>>

Init ==
  /\ q = <<>>
  /\ seen = NoMsg

Enqueue ==
  /\ Len(q) < Capacity
  /\ \E m \in Msg : q' = Append(q, m)
  /\ UNCHANGED seen

Peek ==
  /\ q # <<>>
  /\ seen = NoMsg
  /\ seen' = Head(q)
  /\ UNCHANGED q

Dequeue ==
  /\ q # <<>>
  /\ seen = Head(q)
  /\ q' = Tail(q)
  /\ seen' = NoMsg

\* The consumer could not handle the message: it stays where it is.
PutBack ==
  /\ seen # NoMsg
  /\ seen' = NoMsg
  /\ UNCHANGED q

Next == Enqueue \/ Peek \/ Dequeue \/ PutBack

Spec == Init /\ [][Next]_vars
=============================================================================
