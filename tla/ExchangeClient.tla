---------------------------- MODULE ExchangeClient ----------------------------
(***************************************************************************)
(* The load generator: client threads (src/client_main.cpp), each with an  *)
(* ExchangeClient (src/exchange_client.cpp) that connects, sends the       *)
(* orders of its OrderSimulator (src/order_simulator.cpp) without reading  *)
(* a reply, and closes.                                                    *)
(***************************************************************************)
EXTENDS Integers

CONSTANTS
  NumThreads,    \* num_threads
  IdStride,      \* 100000000: the distance between the threads' first ids
  NumOrders,     \* NUM_ORDERS
  BatchSize,     \* BATCH_SIZE
  Draws          \* what the distributions yield: side, type, price and quantity

ASSUME ClientAssumption ==
  /\ {NumThreads, IdStride, BatchSize} \subseteq Nat \ {0}
  /\ NumOrders \in 0..IdStride
  /\ \A d \in Draws : /\ d.side \in {"BID", "ASK"} /\ d.orderType \in {"LIMIT", "MARKET"}
                      /\ d.sampled \in Int /\ d.quantity \in Nat \ {0}

VARIABLE
  thread         \* thread -> where it is, and id_counter_ of its simulator

Threads == 0..NumThreads - 1

starting_id_shared(t) == IdStride
starting_id(t) == (t + 1) * IdStride

(* The thread an id belongs to.                                            *)
ThreadOf(id) == id \div IdStride - 1

(* The orders generate_order may return: a market order has no price, a    *)
(* limit price is at least 1.                                              *)
generate_order(id) ==
  {[id |-> id, side |-> d.side, orderType |-> d.orderType, quantity |-> d.quantity,
    price |-> CASE d.orderType = "MARKET" -> 0 [] d.sampled < 1 -> 1 [] OTHER -> d.sampled] :
     d \in Draws}

ClientInit == thread = [t \in Threads |-> [pc |-> "connect", id_counter |-> starting_id(t)]]

Connect(t) ==
  /\ thread[t].pc = "connect"
  /\ thread' = [thread EXCEPT ![t].pc = "run"]

(* The loops over batches and over the orders of a batch.                  *)
AllSent(t) ==
  thread[t].id_counter = starting_id(t) + (NumOrders \div BatchSize) * BatchSize

SendOrder(t, o) ==
  /\ thread[t].pc = "run" /\ ~AllSent(t)
  /\ o \in generate_order(thread[t].id_counter)
  /\ thread' = [thread EXCEPT ![t].id_counter = @ + 1]

Close(t) ==
  /\ thread[t].pc = "run" /\ AllSent(t)
  /\ thread' = [thread EXCEPT ![t].pc = "finished"]

(* The threads on their own; Exchange sends the orders to the server.      *)
ClientNext ==
  \E t \in Threads :
    \/ Connect(t) \/ Close(t)
    \/ \E o \in generate_order(thread[t].id_counter) : SendOrder(t, o)

ClientSpec == ClientInit /\ [][ClientNext]_thread

-----------------------------------------------------------------------------
(* The id a thread gives its next order has not been used by any other     *)
(* thread: the ranges run_client_thread hands out do not meet.             *)
IdsDisjoint ==
  \A t, u \in Threads :
    t # u /\ ~AllSent(t) => thread[t].id_counter \notin starting_id(u)..(thread[u].id_counter - 1)
=============================================================================
