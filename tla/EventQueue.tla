----------------------------- MODULE EventQueue -----------------------------
(***************************************************************************)
(* What the event bus promises its publishers and its dispatcher: a        *)
(* bounded first-in first-out queue.  An event is either accepted, at the  *)
(* end, or refused because the queue is full; events leave from the front, *)
(* one at a time, and the front event always leaves sooner or later.       *)
(* EventBus implements it with a ring buffer.                              *)
(***************************************************************************)
EXTENDS Naturals, Sequences

CONSTANTS Event,     \* the events that can be queued
          Capacity   \* how many fit

VARIABLE q

Init == q = << >>

Enqueue(e) ==
  /\ Len(q) < Capacity
  /\ q' = Append(q, e)

Dequeue ==
  /\ q # << >>
  /\ q' = Tail(q)

Next == Dequeue \/ \E e \in Event : Enqueue(e)

Safety == Init /\ [][Next]_q

Spec == Safety /\ WF_q(Dequeue)

=============================================================================
