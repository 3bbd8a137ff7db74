------------------------------- MODULE Exchange -------------------------------
(***************************************************************************)
(* The whole program, at the level of messages: the client threads, the    *)
(* I/O thread by what Transport says of it, the two queues, and the        *)
(* processing thread with engine and book.  Each client keeps its own      *)
(* descriptor, and the I/O thread disconnects only clients that left.      *)
(*                                                                         *)
(* Ids are not assumed to be unique here: that they are follows from the   *)
(* ids the client threads start from.                                      *)
(***************************************************************************)
EXTENDS OrderProcessor, ExchangeClient, SequencesExt

CONSTANTS
  MaxCancels,    \* bound: the cancels sent
  MaxSent        \* bound: a client's requests on their way

VARIABLES
  connection, sent, owed,   \* as in Transport; no client reads, so owed[fd]
                            \* is all that fd has been sent
  orders,                   \* history: type and quantity of the orders sent, by id
  cancelled                 \* history: the ids clients asked to cancel

Io == INSTANCE Transport

processingVars == <<vars, proc, i_message, buffer, reported, routes, historyVars>>
clientVars == <<thread, orders, cancelled>>
exchangeVars == <<allVars, connection, sent, owed, clientVars>>

(* The descriptors below are stdio's, server_fd_ and epoll_fd_.            *)
Fd(t) == t + 5

ExchangeInit ==
  /\ ProcessorInit /\ Io!Init /\ ClientInit
  /\ orders = <<>> /\ cancelled = {}

-----------------------------------------------------------------------------
(* The clients.  Orders leave room for each other among the Nodes.         *)

Start(t) ==
  Connect(t) /\ Io!Accept(Fd(t)) /\ UNCHANGED <<processingVars, orders, cancelled>>

OnTheWay ==
  {x \in UNION {{fd} \X DOMAIN sent[fd] : fd \in Fds} : sent[x[1]][x[2]].type = "NEW_ORDER"}

SendNew(t, o) ==
  /\ SendOrder(t, o)
  /\ Cardinality(OnTheWay) + Len(Coming) < Cardinality(FreeNodes)
  /\ Len(sent[Fd(t)]) < MaxSent
  /\ sent' = [sent EXCEPT ![Fd(t)] = Append(@, [type |-> "NEW_ORDER", payload |-> o])]
  /\ Io!Send(Fd(t))
  /\ orders' = Put(orders, o.id, [orderType |-> o.orderType, quantity |-> o.quantity])
  /\ UNCHANGED <<processingVars, cancelled>>

(* A client of this protocol may also cancel a limit order it sent.        *)
SendCancel(t, id) ==
  /\ thread[t].pc = "run"
  /\ ThreadOf(id) = t /\ orders[id].orderType = "LIMIT" /\ id \notin cancelled
  /\ Cardinality(cancelled) < MaxCancels
  /\ Len(sent[Fd(t)]) < MaxSent
  /\ sent' = [sent EXCEPT ![Fd(t)] = Append(@, [type |-> "CANCEL_ORDER", payload |-> id])]
  /\ Io!Send(Fd(t))
  /\ cancelled' = cancelled \cup {id}
  /\ UNCHANGED <<processingVars, thread, orders>>

Finished(t) ==
  Close(t) /\ Io!Leave(Fd(t)) /\ UNCHANGED <<processingVars, orders, cancelled>>

(* The I/O thread.                                                         *)
HandOn(fd) == Io!HandOn(fd) /\ UNCHANGED <<processingVars, clientVars>>
DeliverNext == Io!Deliver /\ UNCHANGED <<processingVars, clientVars>>
Disconnect(fd) ==
  /\ connection[fd] = "left"
  /\ Io!Disconnect(fd)
  /\ UNCHANGED <<processingVars, clientVars>>

(* The processing thread.                                                  *)
Process == process /\ UNCHANGED <<connection, sent, owed, clientVars>>

ExchangeNext ==
  \/ \E t \in Threads : \/ Start(t) \/ Finished(t)
                         \/ \E o \in generate_order(thread[t].id_counter) : SendNew(t, o)
                         \/ \E id \in DOMAIN orders : SendCancel(t, id)
  \/ \E fd \in Fds : HandOn(fd) \/ Disconnect(fd)
  \/ DeliverNext
  \/ Process

ExchangeSpec == ExchangeInit /\ [][ExchangeNext]_exchangeVars

(* Neither thread of the exchange stops: the processing thread runs, and   *)
(* the I/O thread empties its queue at every turn of its loop.             *)
ExchangeFairSpec ==
  ExchangeSpec /\ WF_exchangeVars(Process) /\ WF_exchangeVars(DeliverNext)

-----------------------------------------------------------------------------
Has(log, m) == \E k \in DOMAIN log : log[k] = m

(* A client hears of an order in this order: the trades it made on         *)
(* arrival, its ORDER_ACK, the trades it made while resting; and only of   *)
(* trades in its own orders.                                               *)
RepliesInOrder ==
  \A t \in Threads : LET log == owed[Fd(t)] IN
    \A k \in DOMAIN log : log[k].type = "TRADE" =>
      LET earlier == SubSeq(log, 1, k - 1)
      IN  /\ t \in {ThreadOf(log[k].taker), ThreadOf(log[k].maker)}
          /\ ThreadOf(log[k].maker) = t => Has(earlier, Reply("ORDER_ACK", log[k].maker))
          /\ ThreadOf(log[k].taker) = t => ~Has(earlier, Reply("ORDER_ACK", log[k].taker))

(* A cancel that is confirmed, by a CANCEL_ACK with no REJECT behind it,   *)
(* is final: no later trade fills the order.                               *)
CancelIsFinal ==
  \A t \in Threads : LET log == owed[Fd(t)] IN
    \A j, k \in DOMAIN log :
      ~(/\ j < k /\ log[j].type = "CANCEL_ACK" /\ log[j + 1].type # "REJECT"
        /\ log[k].type = "TRADE" /\ log[k].maker = log[j].id)

(* The quantity of an order in the book, and twice what its client was     *)
(* told of fills: a client that traded with itself was told twice.         *)
RestingQuantity(id) ==
  MapThenSumSet(LAMBDA x : levels[x[1]][x[2]][x[3]].quantity,
    {x \in Sides \X Prices \X (1..Cardinality(Nodes)) :
       /\ x[2] \in DOMAIN levels[x[1]] /\ x[3] \in DOMAIN levels[x[1]][x[2]]
       /\ levels[x[1]][x[2]][x[3]].id = id})
ToldTwice(log, id) ==
  MapThenSumSet(
    LAMBDA k : log[k].quantity * IF ThreadOf(log[k].maker) = ThreadOf(log[k].taker) THEN 1 ELSE 2,
    {k \in DOMAIN log : log[k].type = "TRADE" /\ id \in {log[k].maker, log[k].taker}})

Quiet == inbound = <<>> /\ outbound = <<>> /\ proc = "pop"

(* When the exchange has nothing in hand, every request that reached it is *)
(* answered and every client knows what became of its orders: what it was  *)
(* told of fills is what is missing from the book, unless the order was a  *)
(* market order or was cancelled.                                          *)
Settled ==
  Quiet =>
    \A id \in DOMAIN orders :
      LET fd == Fd(ThreadOf(id))
          gone == 2 * (orders[id].quantity - RestingQuantity(id))
          told == ToldTwice(owed[fd], id)
          cancel == Has(owed[fd], Reply("CANCEL_ACK", id))
      IN  connection[fd] = "open" /\ sent[fd] = <<>> =>
            /\ Has(owed[fd], Reply("ORDER_ACK", id))
            /\ id \in cancelled => cancel
            /\ IF orders[id].orderType = "LIMIT" /\ ~cancel THEN told = gone ELSE told <= gone

(* Once the clients have no more to send, the exchange comes to rest: the  *)
(* spinning thread gets every reply and report into the queue.             *)
ComesToRest == <>[]Quiet
=============================================================================
