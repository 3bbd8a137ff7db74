--------------------------- MODULE ThreadSafeQueue ---------------------------
(***************************************************************************)
(* The queue with a mutex (include/thread_safe_queue.hpp) that joined the  *)
(* two threads before the ring did: any number of threads push, one pops.  *)
(* queue_ is touched under the mutex only; size_ is also read without it,  *)
(* and try_pop does not look again once it has the mutex.                  *)
(*                                                                         *)
(* Only the consumer decreases size_, so a load of it may return any value *)
(* from the last one the consumer knows up to the newest.                  *)
(***************************************************************************)
EXTENDS Integers, Sequences

CONSTANTS
  Items,       \* the values of the template parameter T
  None,        \* no value returned yet, and no thread
  Producers,   \* the threads that push
  Consumer,    \* the thread that pops
  MaxItems     \* bound: the items the queue holds

ASSUME QueueAssumption ==
  /\ None \notin Items /\ None \notin Producers
  /\ Consumer \notin Producers /\ Consumer # None
  /\ MaxItems \in Nat \ {0}

VARIABLES
  queue,       \* queue_
  mutex,       \* mutex_: the thread that holds it, or None
  size,        \* size_
  cpc,         \* where the consumer is in try_pop
  sizeSeen,    \* the newest value of size_ the consumer knows
  popped       \* the item the last successful try_pop took

vars == <<queue, mutex, size, cpc, sizeSeen, popped>>

Init ==
  /\ queue = <<>> /\ mutex = None /\ size = 0
  /\ cpc = "idle" /\ sizeSeen = 0
  /\ popped = None

(* push, from lock to unlock.                                              *)
PushItem(p, x) ==
  /\ mutex = None
  /\ Len(queue) < MaxItems
  /\ mutex' = p
  /\ queue' = Append(queue, x)
  /\ UNCHANGED <<size, cpc, sizeSeen, popped>>

PushSize(p) ==
  /\ mutex = p
  /\ size' = size + 1
  /\ mutex' = None
  /\ UNCHANGED <<queue, cpc, sizeSeen, popped>>

(* try_pop: the load without the mutex, and nullopt when it gives 0.       *)
PopUnchecked ==
  /\ cpc = "idle"
  /\ cpc' = "lock"
  /\ UNCHANGED <<queue, mutex, size, sizeSeen, popped>>
PopCheck ==
  /\ cpc = "idle"
  /\ \E v \in sizeSeen..size :
       /\ sizeSeen' = v
       /\ cpc' = IF v = 0 THEN "idle" ELSE "lock"
  /\ UNCHANGED <<queue, mutex, size, popped>>

PopUnlocked ==
  /\ cpc = "lock"
  /\ popped' = Head(queue)
  /\ queue' = Tail(queue)
  /\ mutex' = Consumer
  /\ cpc' = "size"
  /\ UNCHANGED <<size, sizeSeen>>
PopNewest ==
  /\ cpc = "lock"
  /\ mutex = None
  /\ mutex' = Consumer
  /\ popped' = queue[Len(queue)]
  /\ queue' = SubSeq(queue, 1, Len(queue) - 1)
  /\ cpc' = "size"
  /\ UNCHANGED <<size, sizeSeen>>
PopItem ==
  /\ cpc = "lock"
  /\ mutex = None
  /\ mutex' = Consumer
  /\ popped' = Head(queue)
  /\ queue' = Tail(queue)
  /\ cpc' = "size"
  /\ UNCHANGED <<size, sizeSeen>>

PopSize ==
  /\ cpc = "size"
  /\ size' = size - 1
  /\ sizeSeen' = size - 1
  /\ mutex' = None
  /\ cpc' = "idle"
  /\ UNCHANGED <<queue, popped>>

push(p) == (\E x \in Items : PushItem(p, x)) \/ PushSize(p)
try_pop == PopCheck \/ PopItem \/ PopSize

Next == (\E p \in Producers : push(p)) \/ try_pop

Spec == Init /\ [][Next]_vars

-----------------------------------------------------------------------------
(* size_ counts the items, but for the one a thread that holds the mutex   *)
(* has just pushed or popped; it never wraps below zero; and what the      *)
(* consumer knows of it is no more than it is.                             *)
SizeInv ==
  /\ queue \in Seq(Items)
  /\ mutex \in Producers \cup {Consumer, None}
  /\ size \in Nat
  /\ cpc \in {"idle", "lock", "size"}
  /\ cpc = "size" <=> mutex = Consumer
  /\ sizeSeen \in 0..size
  /\ cpc # "idle" => sizeSeen > 0
  /\ size = Len(queue) - (IF mutex \in Producers THEN 1 ELSE 0)
                       + (IF mutex = Consumer THEN 1 ELSE 0)

(* "if size is > 0, we are gauranteed to see the item in the queue as      *)
(* well": front() is never called on an empty queue, although the size was *)
(* tested before the mutex was taken.                                      *)
FrontExists == cpc = "lock" => queue # <<>>

Queue == INSTANCE BoundedQueue WITH Capacity <- MaxItems

(* The queue hands out the items once each, in the order they went in.     *)
ImplementsQueue == Queue!Spec
=============================================================================
