----------------------------- MODULE BoundedQueue -----------------------------
(***************************************************************************)
(* What SPSCRingBuffer and ThreadSafeQueue promise: a first-in first-out   *)
(* queue of at most Capacity items.  A failed try_push or try_pop is a     *)
(* stuttering step.                                                        *)
(***************************************************************************)
EXTENDS Naturals, Sequences

CONSTANTS
  Items,      \* the values of the template parameter T
  Capacity,   \* the number of items it holds
  None        \* no value returned yet

VARIABLES
  queue,      \* the items pushed and not yet popped, oldest first
  popped      \* the item the last successful try_pop returned

Init ==
  /\ queue = <<>>
  /\ popped = None

Push ==
  /\ Len(queue) < Capacity
  /\ \E x \in Items : queue' = Append(queue, x)
  /\ UNCHANGED popped

Pop ==
  /\ queue # <<>>
  /\ popped' = Head(queue)
  /\ queue' = Tail(queue)

Next == Push \/ Pop

Spec == Init /\ [][Next]_<<queue, popped>>
=============================================================================
