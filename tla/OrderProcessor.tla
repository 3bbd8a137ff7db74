---------------------------- MODULE OrderProcessor ----------------------------
(***************************************************************************)
(* The processing thread (src/order_processor.cpp): it takes requests off  *)
(* the inbound queue, runs them on the matching engine and the book, and   *)
(* pushes replies and the counterparties' trade reports to the outbound    *)
(* queue, spinning while that is full.                                     *)
(*                                                                         *)
(* The queues are the FIFO queues SPSCRingBuffer implements, and the I/O   *)
(* thread at their other ends is Submit and Deliver.  A message's payload  *)
(* is the order or id it encodes; a reply's payload is the list of the     *)
(* messages serialized into its buffer.                                    *)
(***************************************************************************)
EXTENDS MatchingEngine, FiniteSets

CONSTANTS
  Fds,          \* the clients' file descriptors
  Requests,     \* the messages clients send
  InboundSize,  \* the capacity of the inbound queue
  OutboundSize  \* the capacity of the outbound queue

VARIABLES
  inbound, outbound,
  proc,         \* where the thread is: "pop", "match", "report", "reply", "terminated"
  i_message,    \* the request being processed
  buffer,       \* the reply being put together
  reported,     \* the number of trades the loop over trades has handled
  routes,       \* order_to_client_fd_
  owner,        \* history: the fd that sent the order in each list node
  makers        \* history: the owners of the orders filled, trade by trade

queueVars == <<inbound, outbound>>
historyVars == <<owner, makers>>
processorVars == <<queueVars, proc, i_message, buffer, reported, routes, historyVars>>
allVars == <<vars, processorVars>>

(* What the bytes of a NEW_ORDER may say, and what Order's constructor     *)
(* lets through when deserialize_order calls it.                           *)
RawOrder == [id : OrderIds, side : Sides, orderType : {"LIMIT", "MARKET"},
             price : 0..MaxPrice, quantity : 0..MaxQuantity]
ValidAnyQuantity(o) ==
  /\ o.orderType = "LIMIT" => o.price > 0
  /\ o.orderType = "MARKET" => o.price = 0
Valid(o) ==
  /\ o.orderType = "LIMIT" => o.price > 0
  /\ o.orderType = "MARKET" => o.price = 0
  /\ o.quantity # 0

InboundMessage ==
  [fd : Fds, type : {"NEW_ORDER"}, payload : RawOrder]
    \cup
  [fd : Fds, type : {"CANCEL_ORDER"}, payload : OrderIds]
    \cup
  [fd : Fds, type : {"OTHER"}, payload : {None}]

ASSUME ProcessorAssumption ==
  /\ 0 \notin Fds
  /\ None \notin InboundMessage
  /\ Requests \subseteq InboundMessage
  /\ InboundSize \in Nat \ {0} /\ OutboundSize \in Nat \ {0}

Reply(type, id) == [type |-> type, id |-> id]
TradeReport(trade) == [type |-> "TRADE", taker |-> i_message.payload.id, maker |-> trade.maker,
                       quantity |-> trade.quantity]

ProcessorInit ==
  /\ Init
  /\ inbound = <<>> /\ outbound = <<>>
  /\ proc = "pop" /\ i_message = None /\ buffer = <<>> /\ reported = 0
  /\ routes = <<>>
  /\ owner = <<>> /\ makers = <<>>

-----------------------------------------------------------------------------
(* The I/O thread's ends of the queues.                                    *)

RestingIds ==
  UNION {UNION {{levels[s][p][k].id : k \in DOMAIN levels[s][p]} : p \in DOMAIN levels[s]} : s \in Sides}

(* The requests whose orders may still come to rest.                       *)
Coming ==
  LET running == IF proc = "match" THEN <<i_message>> ELSE <<>>
  IN  SelectSeq(inbound \o running, LAMBDA m : m.type = "NEW_ORDER")

(* Clients leave room for their orders among the Nodes, and unless         *)
(* ReuseIds, do not use an id again before the order that had it is gone.  *)
Submit(m) ==
  /\ proc # "terminated"
  /\ Len(inbound) < InboundSize
  /\ m.type = "NEW_ORDER" =>
       /\ Len(Coming) < Cardinality(FreeNodes)
       /\ ReuseIds \/ /\ m.payload.id \notin RestingIds
                       /\ \A k \in DOMAIN Coming : Coming[k].payload.id # m.payload.id
  /\ inbound' = Append(inbound, m)
  /\ UNCHANGED <<vars, outbound, proc, i_message, buffer, reported, routes, historyVars>>

Deliver ==
  /\ proc # "terminated"
  /\ outbound # <<>>
  /\ outbound' = Tail(outbound)
  /\ UNCHANGED <<vars, inbound, proc, i_message, buffer, reported, routes, historyVars>>

-----------------------------------------------------------------------------
(* try_pop and the branches of process.                                    *)

(* The owners of the orders that rest after a step.                        *)
Occupied(l) ==
  UNION {UNION {{l[s][p][k].node : k \in DOMAIN l[s][p]} : p \in DOMAIN l[s]} : s \in Sides}
TrackOwners ==
  owner' = [n \in Occupied(levels') |-> IF n \in DOMAIN owner THEN owner[n] ELSE i_message.fd]

Take(type) ==
  /\ proc = "pop"
  /\ inbound # <<>>
  /\ Head(inbound).type = type
  /\ i_message' = Head(inbound)
  /\ inbound' = Tail(inbound)
  /\ reported' = 0

TakeOrder ==
  /\ Take("NEW_ORDER")
  /\ Valid(Head(inbound).payload)
  /\ Match(Head(inbound).payload)
  /\ proc' = "match"
  /\ buffer' = <<>>
  /\ UNCHANGED <<outbound, routes, historyVars>>

(* deserialize_order throws: the reply is a REJECT.                        *)
TakeInvalid ==
  /\ Take("NEW_ORDER")
  /\ ~Valid(Head(inbound).payload)
  /\ proc' = "reply"
  /\ buffer' = <<Reply("REJECT", Head(inbound).payload.id)>>
  /\ UNCHANGED <<vars, outbound, routes, historyVars>>

TakeCancelKeeping ==
  /\ Take("CANCEL_ORDER")
  /\ Head(inbound).payload \in DOMAIN order_map
  /\ proc' = "reply"
  /\ buffer' = <<Reply("CANCEL_ACK", Head(inbound).payload)>>
  /\ UNCHANGED <<vars, outbound, routes, historyVars>>
TakeCancel ==
  /\ Take("CANCEL_ORDER")
  /\ Cancel(Head(inbound).payload)
  /\ routes' = Erase(routes, Head(inbound).payload)
  /\ proc' = "reply"
  /\ buffer' = <<Reply("CANCEL_ACK", Head(inbound).payload)>>
  /\ TrackOwners
  /\ UNCHANGED <<outbound, makers>>

(* cancel_order throws when the CANCEL_ACK is in the buffer already.       *)
TakeCancelErasing ==
  /\ Take("CANCEL_ORDER")
  /\ CancelUnknown(Head(inbound).payload)
  /\ routes' = Erase(routes, Head(inbound).payload)
  /\ proc' = "reply"
  /\ buffer' = <<Reply("CANCEL_ACK", Head(inbound).payload), Reply("REJECT", Head(inbound).payload)>>
  /\ UNCHANGED <<outbound, historyVars>>
TakeCancelUnknown ==
  /\ Take("CANCEL_ORDER")
  /\ CancelUnknown(Head(inbound).payload)
  /\ proc' = "reply"
  /\ buffer' = <<Reply("CANCEL_ACK", Head(inbound).payload), Reply("REJECT", Head(inbound).payload)>>
  /\ UNCHANGED <<outbound, routes, historyVars>>

(* Any other type: process throws, nothing catches, and the program ends.  *)
TakeUnknown ==
  /\ Take("OTHER")
  /\ proc' = "terminated"
  /\ UNCHANGED <<vars, outbound, buffer, routes, historyVars>>

-----------------------------------------------------------------------------
(* A new order: match, the loop over its trades, the acknowledgement.      *)

MatchFill ==
  /\ proc = "match"
  /\ Fill
  /\ LET s == Opposite(taker.side)
     IN  makers' = Append(makers, owner[Head(levels[s][BestPrice(s)]).node])
  /\ TrackOwners
  /\ UNCHANGED <<queueVars, proc, i_message, buffer, reported, routes>>

(* order_to_client_fd_[id] = fd: an entry the id has already is replaced.  *)
RegisterFirst(id, fd) == IF id \in DOMAIN routes THEN routes ELSE Put(routes, id, fd)
Register(id, fd) == Put(routes, id, fd)

MatchFinish ==
  /\ proc = "match"
  /\ Finish
  /\ routes' = Register(i_message.payload.id, i_message.fd)
  /\ proc' = "report"
  /\ TrackOwners
  /\ UNCHANGED <<queueVars, i_message, buffer, reported, makers>>

(* order_to_client_fd_[...] in the loop over trades: operator[] gives fd 0 *)
(* to an id it does not know.                                              *)
CounterpartyTaker(trade) == i_message.fd
Counterparty(trade) == IF trade.maker \in DOMAIN routes THEN routes[trade.maker] ELSE 0

(* One trade: into the taker's buffer, and to the counterparty at once, as *)
(* soon as the queue has room.                                             *)
Report ==
  /\ proc = "report"
  /\ reported < Len(result.trades)
  /\ Len(outbound) < OutboundSize
  /\ LET trade == result.trades[reported + 1]
     IN  /\ routes' = Put(routes, trade.maker, Counterparty(trade))
         /\ buffer' = Append(buffer, TradeReport(trade))
         /\ outbound' = Append(outbound, [fd |-> Counterparty(trade), payload |-> <<TradeReport(trade)>>])
  /\ reported' = reported + 1
  /\ UNCHANGED <<vars, inbound, proc, i_message, historyVars>>

(* The loop is done, and the acknowledgement goes behind the trades.       *)
LoopDoneOnTrades == reported = Len(result.trades) /\ reported > 0
LoopDone == reported = Len(result.trades)
AcknowledgedFirst == <<Reply("ORDER_ACK", i_message.payload.id)>> \o buffer
Acknowledged == Append(buffer, Reply("ORDER_ACK", i_message.payload.id))

Acknowledge ==
  /\ proc = "report"
  /\ LoopDone
  /\ buffer' = Acknowledged
  /\ proc' = "reply"
  /\ makers' = <<>>
  /\ UNCHANGED <<vars, queueVars, i_message, reported, routes, owner>>

(* The push at the end of process.                                         *)
PushReply ==
  /\ proc = "reply"
  /\ Len(outbound) < OutboundSize
  /\ outbound' = Append(outbound, [fd |-> i_message.fd, payload |-> buffer])
  /\ proc' = "pop" /\ i_message' = None /\ buffer' = <<>> /\ reported' = 0
  /\ UNCHANGED <<vars, inbound, routes, historyVars>>

process ==
  \/ TakeOrder \/ TakeInvalid \/ TakeCancel \/ TakeCancelUnknown \/ TakeUnknown
  \/ MatchFill \/ MatchFinish \/ Report \/ Acknowledge \/ PushReply

ProcessorNext ==
  \/ \E m \in Requests : Submit(m)
  \/ Deliver
  \/ process

ProcessorSpec == ProcessorInit /\ [][ProcessorNext]_allVars

-----------------------------------------------------------------------------
(* The processor's state is well typed, the queues stay within their       *)
(* capacities, and the order in match is the one of the request in hand.   *)
ProcessorTypeOK ==
  /\ Len(inbound) <= InboundSize /\ Len(outbound) <= OutboundSize
  /\ \A k \in DOMAIN inbound : inbound[k] \in InboundMessage
  /\ \A k \in DOMAIN outbound : outbound[k].fd \in Fds \cup {0} /\ outbound[k].payload # <<>>
  /\ proc = "match" <=> taker # None
  /\ taker # None => taker = i_message.payload /\ taker \in Order
  /\ proc = "pop" <=> i_message = None
  /\ reported <= Len(result.trades)
  /\ DOMAIN routes \subseteq OrderIds

(* Every resting order can be routed: order_to_client_fd_ has the fd of    *)
(* the client that sent it, also after the order that had the id before it *)
(* was filled and left its entry behind.                                   *)
RestingRouted ==
  \A s \in Sides : \A p \in DOMAIN levels[s] : \A k \in DOMAIN levels[s][p] :
    LET r == levels[s][p][k]
    IN  r.id \in DOMAIN routes /\ routes[r.id] = owner[r.node]

(* "both parties of a matched trade": the fd looked up for a trade's       *)
(* counterparty is the one that sent the order that was filled.            *)
FillsRouted ==
  proc = "report" =>
    \A k \in reported + 1 .. Len(result.trades) :
      LET maker == result.trades[k].maker
      IN  maker \in DOMAIN routes /\ routes[maker] = makers[k]

(* A reply ends with a REJECT exactly if the request changed neither the   *)
(* book nor the routing: a cancel that throws half way has done nothing.   *)
RejectChangesNothing ==
  [][proc = "pop" /\ proc' = "reply" =>
       (buffer'[Len(buffer')].type = "REJECT" <=> UNCHANGED <<levels, order_map, routes>>)]_allVars
=============================================================================
