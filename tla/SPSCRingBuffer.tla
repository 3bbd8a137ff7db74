---------------------------- MODULE SPSCRingBuffer ----------------------------
(***************************************************************************)
(* The lock-free ring between the I/O thread and the processing thread     *)
(* (include/spsc_ring_buffer.hpp), one step per access to shared memory.   *)
(*                                                                         *)
(* head_ and tail_ are size_t: they wrap at Modulus and are subtracted     *)
(* modulo Modulus.  An acquire load may return any value of the other      *)
(* thread's index from the last one this thread saw up to the newest, and  *)
(* by the release/acquire pair everything the other thread did before      *)
(* storing that value then happens before what this thread does next.      *)
(* tailSeen and headSeen are these happens-before frontiers.               *)
(***************************************************************************)
EXTENDS Integers, Sequences

CONSTANTS
  Items,      \* the values of the template parameter T
  None,       \* a slot never written, or moved from
  Capacity,   \* the template parameter Capacity
  Modulus     \* 2^w for a w-bit size_t

(* "size should be declared as a power of 2": then Capacity divides the    *)
(* modulus of size_t, and is less than it.                                 *)
ASSUME RingAssumption ==
  /\ Capacity \in Nat \ {0}
  /\ Modulus \in Nat
  /\ \E k \in 2..Modulus : Modulus = k * Capacity
  /\ None \notin Items

VARIABLES
  buffer,     \* buffer_
  head,       \* head_, stored by the producer only
  tail,       \* tail_, stored by the consumer only
  ppc,        \* where the producer is in try_push
  item,       \* try_push's argument
  tailSeen,   \* the newest value of tail_ the producer has acquired
  cpc,        \* where the consumer is in try_pop
  moved,      \* try_pop's local item
  headSeen,   \* the newest value of head_ the consumer has acquired
  popped      \* the item the last successful try_pop returned

producerVars == <<head, ppc, item, tailSeen>>
consumerVars == <<tail, cpc, moved, headSeen, popped>>
vars == <<buffer, producerVars, consumerVars>>

Index == 0..Modulus - 1
Slots == 0..Capacity - 1

-----------------------------------------------------------------------------
(* size_t arithmetic.                                                      *)

AddNoWrap(i, n) == i + n
Add(i, n) == (i + n) % Modulus

Diff(i, j) == (i - j) % Modulus

(* i & (Capacity - 1), which is i % Capacity for a power of two.           *)
Slot(i) == i % Capacity

(* The values an atomic load of an index may return: from the last one     *)
(* seen up to the newest one stored.                                       *)
Loadable(seen, newest) ==
  {v \in Index : Diff(newest, v) <= Diff(newest, seen)}

-----------------------------------------------------------------------------

Init ==
  /\ buffer = [s \in Slots |-> None]
  /\ head = 0 /\ tail = 0
  /\ ppc = "idle" /\ item = None /\ tailSeen = 0
  /\ cpc = "idle" /\ moved = None /\ headSeen = 0
  /\ popped = None

(* try_push: load both indices; return false when the ring is full.        *)
FullAtNoWrap(h, t) == h - t = Capacity
FullAt(h, t) == Diff(h, t) = Capacity

PushFull(t) ==
  /\ ppc = "idle"
  /\ FullAt(head, t)
  /\ tailSeen' = t
  /\ UNCHANGED <<buffer, head, ppc, item, consumerVars>>

PushCheckRelaxed(x, t) ==
  /\ ppc = "idle"
  /\ ~FullAt(head, t)
  /\ item' = x
  /\ ppc' = "write"
  /\ UNCHANGED <<buffer, head, tailSeen, consumerVars>>
PushCheck(x, t) ==
  /\ ppc = "idle"
  /\ ~FullAt(head, t)
  /\ tailSeen' = t
  /\ item' = x
  /\ ppc' = "write"
  /\ UNCHANGED <<buffer, head, consumerVars>>

(* buffer_[head & (Capacity - 1)] = std::move(item)                        *)
PushWrite ==
  /\ ppc = "write"
  /\ buffer' = [buffer EXCEPT ![Slot(head)] = item]
  /\ ppc' = "publish"
  /\ UNCHANGED <<head, item, tailSeen, consumerVars>>

(* head_.store(head + 1, release); return true.                            *)
PushPublish ==
  /\ ppc = "publish"
  /\ head' = Add(head, 1)
  /\ ppc' = "idle"
  /\ item' = None
  /\ UNCHANGED <<buffer, tailSeen, consumerVars>>

(* try_pop: load both indices; return nullopt when the ring is empty.      *)
PopEmpty(h) ==
  /\ cpc = "idle"
  /\ tail = h
  /\ headSeen' = h
  /\ UNCHANGED <<buffer, tail, cpc, moved, popped, producerVars>>

PopCheckNoWrap(h) ==
  /\ cpc = "idle"
  /\ tail < h
  /\ headSeen' = h
  /\ cpc' = "move"
  /\ UNCHANGED <<buffer, tail, moved, popped, producerVars>>
PopCheck(h) ==
  /\ cpc = "idle"
  /\ tail # h
  /\ headSeen' = h
  /\ cpc' = "move"
  /\ UNCHANGED <<buffer, tail, moved, popped, producerVars>>

(* T item = std::move(buffer_[tail & (Capacity - 1)])                      *)
PopMoveIncremented ==
  /\ cpc = "move"
  /\ moved' = buffer[Slot(Add(tail, 1))]
  /\ buffer' = [buffer EXCEPT ![Slot(Add(tail, 1))] = None]
  /\ cpc' = "release"
  /\ UNCHANGED <<tail, headSeen, popped, producerVars>>
PopMove ==
  /\ cpc = "move"
  /\ moved' = buffer[Slot(tail)]
  /\ buffer' = [buffer EXCEPT ![Slot(tail)] = None]
  /\ cpc' = "release"
  /\ UNCHANGED <<tail, headSeen, popped, producerVars>>

(* tail_.store(tail + 1, release); return item.                            *)
PopRelease ==
  /\ cpc = "release"
  /\ tail' = Add(tail, 1)
  /\ popped' = moved
  /\ moved' = None
  /\ cpc' = "idle"
  /\ UNCHANGED <<buffer, headSeen, producerVars>>

TryPush ==
  \/ \E t \in Loadable(tailSeen, tail) : PushFull(t) \/ \E x \in Items : PushCheck(x, t)
  \/ PushWrite
  \/ PushPublish

TryPop ==
  \/ \E h \in Loadable(headSeen, head) : PopEmpty(h) \/ PopCheck(h)
  \/ PopMove
  \/ PopRelease

Next == TryPush \/ TryPop

Spec == Init /\ [][Next]_vars

(* Both threads call the ring from a loop that never blocks: the           *)
(* processing thread spins on try_pop and on a full outbound ring, the I/O *)
(* thread's event loop never waits.                                        *)
FairSpec == Spec /\ WF_vars(TryPush) /\ WF_vars(TryPop)

-----------------------------------------------------------------------------
(* Every variable has its type; the indices stay within size_t.            *)
TypeOK ==
  /\ buffer \in [Slots -> Items \cup {None}]
  /\ head \in Index /\ tail \in Index
  /\ tailSeen \in Index /\ headSeen \in Index
  /\ ppc \in {"idle", "write", "publish"}
  /\ cpc \in {"idle", "move", "release"}
  /\ item \in Items \cup {None}
  /\ moved \in Items \cup {None}
  /\ popped \in Items \cup {None}

(* The slots in use form a window of at most Capacity indices from tail_   *)
(* up to head_, and what each thread has seen of the other lies in it.     *)
Window ==
  /\ Diff(head, tail) <= Diff(head, tailSeen)
  /\ Diff(head, tailSeen) <= Capacity
  /\ Diff(headSeen, tail) <= Diff(head, tail)

(* buffer_ is not atomic, so an access to a slot must be ordered by the    *)
(* indices alone.  The producer writes a slot only after acquiring the     *)
(* tail_ that frees it, the consumer reads one only after acquiring the    *)
(* head_ that publishes it, and the two are never in the same slot at once.*)
NoDataRace ==
  /\ ppc \in {"write", "publish"} => Diff(head, tailSeen) < Capacity
  /\ cpc \in {"move", "release"} => Diff(headSeen, tail) > 0
  /\ ppc = "write" /\ cpc = "move" => Slot(head) # Slot(tail)

(* Every slot between tail_ and head_ holds a pushed item that has not     *)
(* been moved from yet, except the one a try_pop in progress has emptied.  *)
Contents ==
  /\ ppc \in {"write", "publish"} => item \in Items
  /\ ppc = "publish" => buffer[Slot(head)] = item
  /\ cpc = "release" => moved \in Items
  /\ \A k \in 0..Capacity - 1 :
       k < Diff(head, tail) /\ ~(k = 0 /\ cpc = "release")
         => buffer[Slot(Add(tail, k))] \in Items

(* The conjunction is inductive.                                           *)
RingInv == TypeOK /\ Window /\ NoDataRace /\ Contents

(* The queue a ring stands for: the slots from tail_ up to head_, oldest   *)
(* first, with the item a try_pop in progress holds still at the front.    *)
QueueOf ==
  [k \in 1..Diff(head, tail) |->
     IF k = 1 /\ cpc = "release" THEN moved ELSE buffer[Slot(Add(tail, k - 1))]]

Queue == INSTANCE BoundedQueue WITH queue <- QueueOf

(* The ring is a bounded first-in first-out queue: items come out once     *)
(* each, in the order they went in, and never more than Capacity are held. *)
ImplementsQueue == Queue!Spec

(* Neither index stays put for ever while both threads keep calling: a     *)
(* full ring is emptied and the producer's retry succeeds, an empty one is *)
(* filled and the consumer sees it, also across the wrap of the indices.   *)
Progress ==
  \A i \in Index : /\ head = i ~> head # i
                   /\ tail = i ~> tail # i
=============================================================================
