------------------------ MODULE ThreadSafeQueueProofs ------------------------
(***************************************************************************)
(* ThreadSafeQueue with one consumer is correct for every number of        *)
(* producers.                                                              *)
(***************************************************************************)
EXTENDS ThreadSafeQueue, TLAPS

(* The initial state and every step of push and try_pop keep SizeInv, from *)
(* which a consumer past its test of size_ finds an item.                  *)
LEMMA SizeInvInit == Init => SizeInv
  BY QueueAssumption DEF Init, SizeInv

LEMMA SizeInvFront == SizeInv => FrontExists
  BY QueueAssumption DEF SizeInv, FrontExists

LEMMA SizeInvNext == SizeInv /\ [Next]_vars => SizeInv'
  <1> SUFFICES ASSUME SizeInv, [Next]_vars PROVE SizeInv'
    OBVIOUS
  <1>0. FrontExists
    BY SizeInvFront
  <1>1. ASSUME NEW p \in Producers, NEW x \in Items, PushItem(p, x) PROVE SizeInv'
    BY <1>1, QueueAssumption DEF PushItem, SizeInv
  <1>2. ASSUME NEW p \in Producers, PushSize(p) PROVE SizeInv'
    BY <1>2, QueueAssumption DEF PushSize, SizeInv
  <1>3. CASE PopCheck
    BY <1>3, QueueAssumption DEF PopCheck, SizeInv
  <1>4. CASE PopItem
    <2>1. queue # <<>> /\ queue \in Seq(Items)
      BY <1>0, <1>4 DEF FrontExists, PopItem, SizeInv
    <2>2. Tail(queue) \in Seq(Items) /\ Len(Tail(queue)) = Len(queue) - 1
      BY <2>1
    <2>3. size = Len(queue) /\ size \in Nat /\ sizeSeen \in 0..size /\ sizeSeen > 0
      BY <1>4, QueueAssumption DEF PopItem, SizeInv
    <2>4. mutex' = Consumer /\ cpc' = "size" /\ size' = size /\ sizeSeen' = sizeSeen
      BY <1>4 DEF PopItem
    <2>5. queue' \in Seq(Items) /\ Len(queue') = Len(queue) - 1
      BY <1>4, <2>2 DEF PopItem
    <2>6. size' = Len(queue') - (IF mutex' \in Producers THEN 1 ELSE 0)
                              + (IF mutex' = Consumer THEN 1 ELSE 0)
      BY <2>3, <2>4, <2>5, QueueAssumption
    <2>7. QED
      BY <2>3, <2>4, <2>5, <2>6 DEF SizeInv
  <1>5. CASE PopSize
    BY <1>5, QueueAssumption DEF PopSize, SizeInv
  <1>6. CASE UNCHANGED vars
    BY <1>6 DEF vars, SizeInv
  <1>7. QED
    BY <1>1, <1>2, <1>3, <1>4, <1>5, <1>6 DEF Next, push, try_pop

(* size_ counts the items of queue_ in every reachable state.              *)
THEOREM SizeCorrect == Spec => []SizeInv
  BY SizeInvInit, SizeInvNext, PTL DEF Spec

(* try_pop never calls front() on an empty queue.                          *)
THEOREM FrontAlwaysExists == Spec => []FrontExists
  BY SizeCorrect, SizeInvFront, PTL

(* push and try_pop implement the first-in first-out queue: the item goes  *)
(* in or comes out with the step that has the mutex.                       *)
THEOREM QueueIsFifo == Spec => ImplementsQueue
  <1>1. Init => Queue!Init
    BY DEF Init, Queue!Init
  <1>2. SizeInv /\ [Next]_vars => [Queue!Next]_<<queue, popped>>
    <2> SUFFICES ASSUME SizeInv, [Next]_vars PROVE [Queue!Next]_<<queue, popped>>
      OBVIOUS
    <2>1. ASSUME NEW p \in Producers, NEW x \in Items, PushItem(p, x) PROVE Queue!Push
      BY <2>1 DEF PushItem, Queue!Push
    <2>2. ASSUME NEW p \in Producers, PushSize(p) PROVE UNCHANGED <<queue, popped>>
      BY <2>2 DEF PushSize
    <2>3. CASE PopCheck
      BY <2>3 DEF PopCheck
    <2>4. CASE PopItem
      <3>1. queue # <<>>
        BY <2>4, SizeInvFront DEF FrontExists, PopItem
      <3>2. Queue!Pop
        BY <2>4, <3>1 DEF PopItem, Queue!Pop
      <3>3. QED
        BY <3>2 DEF Queue!Next
    <2>5. CASE PopSize
      BY <2>5 DEF PopSize
    <2>6. CASE UNCHANGED vars
      BY <2>6 DEF vars
    <2>7. QED
      BY <2>1, <2>2, <2>3, <2>4, <2>5, <2>6 DEF Next, push, try_pop, Queue!Next
  <1>3. QED
    BY <1>1, <1>2, SizeCorrect, PTL DEF Spec, ImplementsQueue, Queue!Spec
=============================================================================
