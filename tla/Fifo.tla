-------------------------------- MODULE Fifo --------------------------------
(***************************************************************************)
(* What a task queue promises its two users: a bounded queue whose items   *)
(* come out in the order they went in, each of them once.                  *)
(***************************************************************************)
EXTENDS Naturals, Sequences

CONSTANTS
  Items,      \* what can be put into the queue
  Room,       \* how many items fit
  NoItem      \* the result of a try_dequeue() that found nothing

VARIABLES
  queue,      \* the items in the queue
  result      \* what the last try_dequeue() returned

Init == queue = << >> /\ result = NoItem

Enqueue ==
  /\ Len(queue) < Room
  /\ \E i \in Items : queue' = Append(queue, i)
  /\ UNCHANGED result

Dequeue ==
  /\ queue # << >>
  /\ result' = Head(queue)
  /\ queue' = Tail(queue)

\* try_dequeue() returns false.
FindNothing == result' = NoItem /\ UNCHANGED queue

Next == Enqueue \/ Dequeue \/ FindNothing

Spec == Init /\ [][Next]_<<queue, result>>
=============================================================================
