------------------------- MODULE ExchangeClientProofs -------------------------
(***************************************************************************)
(* The client threads never use each other's order ids, for every number   *)
(* of threads, every batch size and every run of at most IdStride orders.  *)
(***************************************************************************)
EXTENDS ExchangeClient, TLAPS

(* The number of orders a thread sends: whole batches only.                *)
Total == (NumOrders \div BatchSize) * BatchSize

(* A thread's counter stays in the thread's range.                         *)
ClientInv ==
  /\ thread \in [Threads -> [pc : {"connect", "run", "finished"}, id_counter : Nat]]
  /\ \A t \in Threads : thread[t].id_counter \in starting_id(t)..(starting_id(t) + Total)

LEMMA TotalBound == Total \in Nat /\ Total <= IdStride
  <1>1. ASSUME NEW n \in Nat, NEW b \in Nat \ {0}
        PROVE  (n \div b) * b \in Nat /\ (n \div b) * b <= n
    <2>1. n \div b \in Nat
      BY <1>1
    <2>2. n = b * (n \div b) + (n % b) /\ n % b \in Nat
      BY <1>1
    <2> QED
      BY <2>1, <2>2
  <1>2. NumOrders \in Nat /\ BatchSize \in Nat \ {0} /\ NumOrders <= IdStride /\ IdStride \in Nat
    BY ClientAssumption
  <1> QED
    BY <1>1, <1>2 DEF Total

LEMMA StartingIds ==
  ASSUME NEW t \in Threads, NEW u \in Threads
  PROVE  /\ starting_id(t) \in Nat
         /\ t < u => starting_id(t) + IdStride <= starting_id(u)
  <1>1. t \in Nat /\ u \in Nat /\ IdStride \in Nat
    BY ClientAssumption DEF Threads
  <1>2. starting_id(t) \in Nat
    BY <1>1 DEF starting_id
  <1>3. ASSUME t < u PROVE starting_id(t) + IdStride <= starting_id(u)
    <2>1. (t + 1) * IdStride + IdStride = (t + 2) * IdStride
      BY <1>1
    <2>2. PICK d \in Nat : u + 1 = (t + 2) + d
      <3>1. u - t - 1 \in Nat /\ u + 1 = (t + 2) + (u - t - 1)
        BY <1>1, <1>3
      <3> QED
        BY <3>1
    <2>3. (u + 1) * IdStride = (t + 2) * IdStride + d * IdStride /\ d * IdStride \in Nat
      BY <1>1, <2>2
    <2> QED
      BY <1>1, <2>1, <2>3 DEF starting_id
  <1> QED
    BY <1>2, <1>3

LEMMA ClientAlways == ClientSpec => []ClientInv
  <1>1. ClientInit => ClientInv
    BY StartingIds, TotalBound DEF ClientInit, ClientInv
  <1>2. ClientInv /\ [ClientNext]_thread => ClientInv'
    <2> SUFFICES ASSUME ClientInv, [ClientNext]_thread PROVE ClientInv'
      OBVIOUS
    <2>1. ASSUME NEW t \in Threads, Connect(t) \/ Close(t) PROVE ClientInv'
      BY <2>1 DEF ClientInv, Connect, Close
    <2>2. ASSUME NEW t \in Threads, NEW o \in generate_order(thread[t].id_counter), SendOrder(t, o)
          PROVE  ClientInv'
      <3>1. thread' = [thread EXCEPT ![t].id_counter = @ + 1]
            /\ thread[t].id_counter # starting_id(t) + Total
        BY <2>2 DEF SendOrder, AllSent, Total
      <3>2. thread[t].id_counter + 1 \in starting_id(t)..(starting_id(t) + Total)
        BY <3>1, StartingIds, TotalBound DEF ClientInv
      <3> QED
        BY <3>1, <3>2 DEF ClientInv
    <2>3. CASE UNCHANGED thread
      BY <2>3 DEF ClientInv
    <2> QED
      BY <2>1, <2>2, <2>3 DEF ClientNext
  <1> QED
    BY <1>1, <1>2, PTL DEF ClientSpec

(* The ids of the client threads are disjoint: with the orders of the load *)
(* generator, no order is ever sent under the id of another thread's.      *)
THEOREM ClientsNeverClash == ClientSpec => []IdsDisjoint
  <1>1. ClientInv => IdsDisjoint
    <2> SUFFICES ASSUME ClientInv, NEW t \in Threads, NEW u \in Threads, t # u, ~AllSent(t)
                 PROVE  thread[t].id_counter \notin starting_id(u)..(thread[u].id_counter - 1)
      BY DEF IdsDisjoint
    <2>1. /\ thread[t].id_counter \in starting_id(t)..(starting_id(t) + Total)
          /\ thread[u].id_counter \in starting_id(u)..(starting_id(u) + Total)
          /\ thread[t].id_counter # starting_id(t) + Total
      BY DEF ClientInv, AllSent, Total
    <2>2. t \in Int /\ u \in Int
      BY DEF Threads
    <2>3. CASE t < u
      BY <2>1, <2>3, StartingIds, TotalBound, ClientAssumption
    <2>4. CASE u < t
      BY <2>1, <2>4, StartingIds, TotalBound, ClientAssumption
    <2> QED
      BY <2>2, <2>3, <2>4
  <1> QED
    BY <1>1, ClientAlways, PTL
=============================================================================
