------------------------- MODULE OrderProcessorProofs -------------------------
(***************************************************************************)
(* The processing thread, for every set of clients, ids and requests and   *)
(* every capacity of the queues: it drives the book as the matching engine *)
(* expects, a request it rejects has no effect, and it reports trades to   *)
(* the clients whose orders they fill.                                     *)
(***************************************************************************)
EXTENDS OrderProcessor, MatchingEngineProofs

Reported == [type : {"REJECT", "CANCEL_ACK", "ORDER_ACK"}, id : OrderIds]
             \cup
           [type : {"TRADE"}, taker : OrderIds, maker : OrderIds, quantity : Quantities]
OutboundMessage == [fd : Fds \cup {0}, payload : Seq(Reported) \ {<<>>}]

(* What the steps of process rely on.                                      *)
QueuesInv ==
  /\ inbound \in Seq(InboundMessage) /\ Len(inbound) <= InboundSize
  /\ outbound \in Seq(OutboundMessage) /\ Len(outbound) <= OutboundSize
RequestInv ==
  /\ proc \in {"pop", "match", "report", "reply", "terminated"}
  /\ i_message \in InboundMessage \cup {None}
  /\ proc = "pop" <=> i_message = None
  /\ proc = "match" <=> taker # None
  /\ proc \in {"match", "report"} => i_message.type = "NEW_ORDER"
  /\ taker # None => taker = i_message.payload
ReplyInv ==
  /\ buffer \in Seq(Reported)
  /\ proc = "reply" => buffer # <<>>
  /\ result.trades \in Seq(Trade)
  /\ reported \in 0..Len(result.trades)
  /\ proc = "match" => reported = 0
RoutesInv ==
  /\ DOMAIN routes \subseteq OrderIds
  /\ \A id \in DOMAIN routes : routes[id] \in Fds \cup {0}
ProcessorInv == EngineInv /\ QueuesInv /\ RequestInv /\ ReplyInv /\ RoutesInv

(* The payload of a request is what its type says.                         *)
LEMMA Payloads ==
  ASSUME NEW m \in InboundMessage
  PROVE  /\ m.type \in {"NEW_ORDER", "CANCEL_ORDER", "OTHER"}
         /\ m.fd \in Fds
         /\ m.type = "NEW_ORDER" => m.payload \in RawOrder
         /\ m.type = "CANCEL_ORDER" => m.payload \in OrderIds
  BY DEF InboundMessage

(* An order that passes the checks of Order's constructor is an Order.     *)
LEMMA ValidIsOrder ==
  ASSUME NEW o \in RawOrder, Valid(o) PROVE o \in Order
  BY BookAssumption DEF RawOrder, Valid, Order, Prices, Quantities

LEMMA OrderParts ==
  ASSUME NEW o \in RawOrder
  PROVE  o.id \in OrderIds
  BY DEF RawOrder

LEMMA InitProcessor == ProcessorInit => ProcessorInv
  <1> SUFFICES ASSUME ProcessorInit PROVE ProcessorInv
    OBVIOUS
  <1>1. EngineInv
    BY InitEngine DEF ProcessorInit
  <1>2. QueuesInv
    BY ProcessorAssumption DEF ProcessorInit, QueuesInv
  <1>3. RequestInv
    BY DEF ProcessorInit, RequestInv, Init
  <1>4. ReplyInv
    BY DEF ProcessorInit, ReplyInv, Init, Matched
  <1>5. RoutesInv
    BY DEF ProcessorInit, RoutesInv
  <1> QED
    BY <1>1, <1>2, <1>3, <1>4, <1>5 DEF ProcessorInv

-----------------------------------------------------------------------------
(* Each step of the processor is one of the engine, or leaves it alone.    *)

LEMMA TakenRequest ==
  ASSUME QueuesInv, NEW type, Take(type)
  PROVE  /\ i_message' \in InboundMessage /\ i_message' = Head(inbound)
         /\ i_message'.type = type
         /\ inbound' \in Seq(InboundMessage) /\ Len(inbound') <= InboundSize
  BY ProcessorAssumption DEF QueuesInv, Take

LEMMA StepDrives ==
  ASSUME QueuesInv, [ProcessorNext]_allVars
  PROVE  [Next]_vars
  <1>1. ASSUME TakeOrder PROVE Next
    <2>1. Head(inbound).payload \in Order
      BY <1>1, TakenRequest, Payloads, ValidIsOrder DEF TakeOrder
    <2> QED
      BY <1>1, <2>1 DEF TakeOrder, Next
  <1>2. ASSUME TakeCancel PROVE Next
    <2>1. Head(inbound).payload \in OrderIds
      BY <1>2, TakenRequest, Payloads DEF TakeCancel
    <2> QED
      BY <1>2, <2>1 DEF TakeCancel, Next
  <1>3. ASSUME TakeCancelUnknown PROVE Next
    <2>1. Head(inbound).payload \in OrderIds
      BY <1>3, TakenRequest, Payloads DEF TakeCancelUnknown
    <2> QED
      BY <1>3, <2>1 DEF TakeCancelUnknown, Next
  <1>4. ASSUME MatchFill \/ MatchFinish PROVE Next
    BY <1>4 DEF MatchFill, MatchFinish, Next
  <1>5. ASSUME TakeInvalid \/ TakeUnknown \/ Report \/ Acknowledge \/ PushReply
        PROVE  UNCHANGED vars
    BY <1>5 DEF TakeInvalid, TakeUnknown, Report, Acknowledge, PushReply
  <1>6. ASSUME Deliver \/ (\E m \in Requests : Submit(m)) \/ UNCHANGED allVars
        PROVE  UNCHANGED vars
    BY <1>6 DEF Deliver, Submit, allVars
  <1> QED
    BY <1>1, <1>2, <1>3, <1>4, <1>5, <1>6 DEF ProcessorNext, process

LEMMA RepliesTyped ==
  ASSUME NEW id \in OrderIds, NEW type \in {"REJECT", "CANCEL_ACK", "ORDER_ACK"}
  PROVE  Reply(type, id) \in Reported
  BY DEF Reply, Reported

LEMMA TradesTyped ==
  ASSUME RequestInv, i_message.type = "NEW_ORDER", i_message # None, NEW trade \in Trade
  PROVE  TradeReport(trade) \in Reported
  <1>1. i_message.payload.id \in OrderIds
    BY Payloads, OrderParts DEF RequestInv
  <1> QED
    BY <1>1 DEF TradeReport, Reported, Trade

(* Taking a request.                                                       *)
LEMMA TakeKeeps ==
  ASSUME ProcessorInv,
         TakeOrder \/ TakeInvalid \/ TakeCancel \/ TakeCancelUnknown \/ TakeUnknown
  PROVE  QueuesInv' /\ RequestInv' /\ ReplyInv' /\ RoutesInv'
  <1> USE DEF ProcessorInv
  <1>1. PICK type \in {"NEW_ORDER", "CANCEL_ORDER", "OTHER"} : Take(type)
    BY DEF TakeOrder, TakeInvalid, TakeCancel, TakeCancelUnknown, TakeUnknown
  <1>2. outbound' = outbound /\ reported' = 0 /\ i_message' # None /\ proc = "pop"
    BY <1>1, TakenRequest, ProcessorAssumption
    DEF Take, TakeOrder, TakeInvalid, TakeCancel, TakeCancelUnknown, TakeUnknown
  <1>3. QueuesInv'
    BY <1>1, <1>2, TakenRequest DEF QueuesInv
  <1>4. taker = None
    BY <1>2 DEF RequestInv
  <1>5. ASSUME TakeOrder PROVE RequestInv' /\ ReplyInv' /\ RoutesInv'
    <2>1. /\ i_message' \in InboundMessage /\ i_message'.type = "NEW_ORDER"
          /\ i_message'.payload \in Order /\ taker' = i_message'.payload
      BY <1>5, TakenRequest, Payloads, ValidIsOrder DEF TakeOrder, Match
    <2>2. proc' = "match" /\ buffer' = <<>> /\ result' = result /\ routes' = routes
      BY <1>5 DEF TakeOrder, Match
    <2> QED
      BY <1>2, <2>1, <2>2, EngineAssumption DEF RequestInv, ReplyInv, RoutesInv
  <1>6. ASSUME TakeInvalid \/ TakeUnknown PROVE RequestInv' /\ ReplyInv' /\ RoutesInv'
    <2>1. UNCHANGED vars /\ routes' = routes
      BY <1>6 DEF TakeInvalid, TakeUnknown
    <2>2. taker' = None /\ result' = result
      BY <1>4, <2>1 DEF vars, engineVars
    <2>3. i_message' \in InboundMessage
      BY <1>1, TakenRequest
    <2>4. proc' \in {"reply", "terminated"} /\ buffer' \in Seq(Reported)
          /\ (proc' = "reply" => buffer' # <<>>)
      <3>1. CASE TakeUnknown
        BY <3>1 DEF TakeUnknown, ReplyInv
      <3>2. CASE TakeInvalid
        <4>1. Head(inbound).payload.id \in OrderIds
          BY <3>2, TakenRequest, Payloads, OrderParts DEF TakeInvalid
        <4> QED
          BY <3>2, <4>1, RepliesTyped DEF TakeInvalid
      <3> QED
        BY <1>6, <3>1, <3>2
    <2> QED
      BY <1>2, <2>1, <2>2, <2>3, <2>4 DEF RequestInv, ReplyInv, RoutesInv
  <1>7. ASSUME TakeCancel \/ TakeCancelUnknown PROVE RequestInv' /\ ReplyInv' /\ RoutesInv'
    <2>1. Head(inbound).payload \in OrderIds /\ i_message' \in InboundMessage
      BY <1>7, TakenRequest, Payloads DEF TakeCancel, TakeCancelUnknown
    <2>2. proc' = "reply" /\ taker' = None /\ result'.trades = <<>>
      BY <1>4, <1>7 DEF TakeCancel, TakeCancelUnknown, Cancel, CancelUnknown, Cancelled
    <2>3. buffer' \in Seq(Reported) /\ buffer' # <<>>
      <3> DEFINE ack == Reply("CANCEL_ACK", Head(inbound).payload)
                 reject == Reply("REJECT", Head(inbound).payload)
      <3>1. ack \in Reported /\ reject \in Reported
        BY <2>1, RepliesTyped
      <3>2. buffer' = <<ack>> \/ buffer' = <<ack, reject>>
        BY <1>7 DEF TakeCancel, TakeCancelUnknown
      <3> HIDE DEF ack, reject
      <3>3. <<ack>> \in Seq(Reported) /\ <<ack>> # <<>>
        BY <3>1
      <3>4. <<ack, reject>> \in Seq(Reported) /\ <<ack, reject>> # <<>>
        BY <3>1
      <3> QED
        BY <3>2, <3>3, <3>4, Zenon
    <2>4. RoutesInv'
      BY <1>7 DEF TakeCancel, TakeCancelUnknown, RoutesInv, Erase
    <2> QED
      BY <1>2, <2>1, <2>2, <2>3, <2>4 DEF RequestInv, ReplyInv
  <1> QED
    BY <1>3, <1>5, <1>6, <1>7

(* The steps of a match, of the loop over its trades, and of the reply.    *)
LEMMA MatchKeeps ==
  ASSUME ProcessorInv, MatchFill \/ MatchFinish
  PROVE  QueuesInv' /\ RequestInv' /\ ReplyInv' /\ RoutesInv'
  <1> USE DEF ProcessorInv
  <1>1. /\ UNCHANGED <<inbound, outbound, i_message, buffer, reported>>
        /\ proc = "match" /\ reported = 0
        /\ i_message \in InboundMessage /\ i_message.type = "NEW_ORDER"
    BY DEF MatchFill, MatchFinish, queueVars, RequestInv, ReplyInv
  <1>2. QueuesInv'
    BY <1>1 DEF QueuesInv
  <1>3. ASSUME MatchFill PROVE RequestInv' /\ ReplyInv' /\ RoutesInv'
    <2>1. UNCHANGED <<proc, routes, taker, result>>
      BY <1>3 DEF MatchFill, Fill, FillFront
    <2> QED
      BY <1>1, <2>1 DEF RequestInv, ReplyInv, RoutesInv
  <1>4. ASSUME MatchFinish PROVE RequestInv' /\ ReplyInv' /\ RoutesInv'
    <2>1. proc' = "report" /\ taker' = None /\ result'.trades = trades
      BY <1>4 DEF MatchFinish, Finish, Matched
    <2>2. trades \in Seq(Trade)
      BY DEF EngineInv, TypeOK
    <2>3. i_message.payload.id \in OrderIds /\ i_message.fd \in Fds
      BY <1>1, Payloads, OrderParts
    <2>4. RoutesInv'
      BY <1>4, <2>3 DEF MatchFinish, Register, Put, RoutesInv
    <2> QED
      BY <1>1, <2>1, <2>2, <2>4 DEF RequestInv, ReplyInv
  <1> QED
    BY <1>2, <1>3, <1>4

LEMMA ReportKeeps ==
  ASSUME ProcessorInv, Report
  PROVE  QueuesInv' /\ RequestInv' /\ ReplyInv' /\ RoutesInv'
  <1> USE DEF ProcessorInv
  <1> DEFINE trade == result.trades[reported + 1]
  <1>1. trade \in Trade /\ reported + 1 \in 0..Len(result.trades)
    BY DEF Report, ReplyInv
  <1>2. trade.maker \in OrderIds /\ Counterparty(trade) \in Fds \cup {0}
    BY <1>1 DEF Trade, Counterparty, RoutesInv
  <1>3. TradeReport(trade) \in Reported
    BY <1>1, TradesTyped DEF Report, RequestInv
  <1>4. [fd |-> Counterparty(trade), payload |-> <<TradeReport(trade)>>] \in OutboundMessage
    BY <1>2, <1>3 DEF OutboundMessage
  <1>5. /\ routes' = Put(routes, trade.maker, Counterparty(trade))
        /\ buffer' = Append(buffer, TradeReport(trade))
        /\ outbound' = Append(outbound, [fd |-> Counterparty(trade),
                                         payload |-> <<TradeReport(trade)>>])
        /\ reported' = reported + 1
        /\ Len(outbound) < OutboundSize
        /\ UNCHANGED <<inbound, proc, i_message, taker, result>>
        /\ proc = "report"
    BY DEF Report, vars, engineVars
  <1>6. QueuesInv'
    BY <1>4, <1>5, ProcessorAssumption DEF QueuesInv
  <1>7. ReplyInv'
    BY <1>1, <1>3, <1>5 DEF ReplyInv
  <1>8. RoutesInv'
    BY <1>2, <1>5 DEF RoutesInv, Put
  <1> QED
    BY <1>5, <1>6, <1>7, <1>8 DEF RequestInv

LEMMA ReplyKeeps ==
  ASSUME ProcessorInv, Acknowledge \/ PushReply
  PROVE  QueuesInv' /\ RequestInv' /\ ReplyInv' /\ RoutesInv'
  <1> USE DEF ProcessorInv
  <1>1. UNCHANGED <<inbound, routes, taker, result>>
    BY DEF Acknowledge, PushReply, queueVars, vars, engineVars
  <1>2. ASSUME Acknowledge PROVE QueuesInv' /\ RequestInv' /\ ReplyInv'
    <2>1. Reply("ORDER_ACK", i_message.payload.id) \in Reported
      BY <1>2, Payloads, OrderParts, RepliesTyped DEF Acknowledge, RequestInv
    <2>2. buffer' \in Seq(Reported) /\ buffer' # <<>>
      BY <1>2, <2>1 DEF Acknowledge, Acknowledged, ReplyInv
    <2>3. UNCHANGED <<outbound, i_message, reported>> /\ proc = "report" /\ proc' = "reply"
      BY <1>2 DEF Acknowledge, queueVars
    <2> QED
      BY <1>1, <2>2, <2>3 DEF QueuesInv, RequestInv, ReplyInv
  <1>3. ASSUME PushReply PROVE QueuesInv' /\ RequestInv' /\ ReplyInv'
    <2>1. [fd |-> i_message.fd, payload |-> buffer] \in OutboundMessage
      BY <1>3, Payloads DEF PushReply, OutboundMessage, RequestInv, ReplyInv
    <2>2. QueuesInv'
      BY <1>1, <1>3, <2>1, ProcessorAssumption DEF PushReply, QueuesInv
    <2> QED
      BY <1>1, <1>3, <2>2 DEF PushReply, RequestInv, ReplyInv
  <1> QED
    BY <1>1, <1>2, <1>3 DEF RoutesInv

(* The I/O thread's ends of the queues.                                    *)
LEMMA QueueEndsKeep ==
  ASSUME ProcessorInv, Deliver \/ (\E m \in Requests : Submit(m)) \/ UNCHANGED allVars
  PROVE  QueuesInv' /\ RequestInv' /\ ReplyInv' /\ RoutesInv'
  <1> USE DEF ProcessorInv
  <1>1. UNCHANGED <<proc, i_message, buffer, reported, routes, taker, result>>
    BY DEF Deliver, Submit, allVars, processorVars, vars, engineVars
  <1>2. QueuesInv'
    <2>1. CASE Deliver
      BY <2>1, ProcessorAssumption DEF Deliver, QueuesInv
    <2>2. ASSUME NEW m \in Requests, Submit(m) PROVE QueuesInv'
      BY <2>2, ProcessorAssumption DEF Submit, QueuesInv
    <2>3. CASE UNCHANGED allVars
      BY <2>3 DEF allVars, processorVars, queueVars, QueuesInv
    <2> QED
      BY <2>1, <2>2, <2>3
  <1> QED
    BY <1>1, <1>2 DEF RequestInv, ReplyInv, RoutesInv

LEMMA StepProcessor == ProcessorInv /\ [ProcessorNext]_allVars => ProcessorInv'
  <1> SUFFICES ASSUME ProcessorInv, [ProcessorNext]_allVars PROVE ProcessorInv'
    OBVIOUS
  <1>1. EngineInv'
    BY StepDrives, StepEngine DEF ProcessorInv
  <1>2. QueuesInv' /\ RequestInv' /\ ReplyInv' /\ RoutesInv'
    BY TakeKeeps, MatchKeeps, ReportKeeps, ReplyKeeps, QueueEndsKeep DEF ProcessorNext, process
  <1> QED
    BY <1>1, <1>2 DEF ProcessorInv

LEMMA ProcessorAlways == ProcessorSpec => []ProcessorInv
  BY InitProcessor, StepProcessor, PTL DEF ProcessorSpec

-----------------------------------------------------------------------------
(* The queues stay within their capacities, every reply holds a message,   *)
(* and the order in match is the valid order of the request in hand.       *)
THEOREM ProcessorTypes == ProcessorSpec => []ProcessorTypeOK
  <1>1. ProcessorInv => ProcessorTypeOK
    <2> SUFFICES ASSUME ProcessorInv PROVE ProcessorTypeOK
      OBVIOUS
    <2>1. \A k \in DOMAIN inbound : inbound[k] \in InboundMessage
      BY DEF ProcessorInv, QueuesInv
    <2>2. \A k \in DOMAIN outbound : outbound[k] \in OutboundMessage
      BY DEF ProcessorInv, QueuesInv
    <2>3. \A k \in DOMAIN outbound : outbound[k].fd \in Fds \cup {0} /\ outbound[k].payload # <<>>
      BY <2>2 DEF OutboundMessage
    <2>4. taker # None => taker \in Order
      BY DEF ProcessorInv, EngineInv, TypeOK
    <2> QED
      BY <2>1, <2>3, <2>4
      DEF ProcessorInv, QueuesInv, RequestInv, ReplyInv, RoutesInv, ProcessorTypeOK
  <1> QED
    BY <1>1, ProcessorAlways, PTL

(* process drives the engine as its specification says: match is called    *)
(* with valid orders only and a cancel never runs inside a match.          *)
THEOREM ProcessorDrivesEngine == ProcessorSpec => Spec
  <1>1. ProcessorInit => Init
    BY DEF ProcessorInit
  <1>2. ProcessorInv /\ [ProcessorNext]_allVars => [Next]_vars
    BY StepDrives DEF ProcessorInv
  <1> QED
    BY <1>1, <1>2, ProcessorAlways, PTL DEF ProcessorSpec, Spec

(* So the book the processing thread works on stays consistent whatever    *)
(* the clients send.                                                       *)
THEOREM ProcessorBook == ProcessorSpec => []BookInv
  BY ProcessorDrivesEngine, BookCorrect, PTL

(* A reply ends with a REJECT exactly if the request changed neither the   *)
(* book nor the routing: the exception of cancel_order, thrown with the    *)
(* CANCEL_ACK already in the buffer, leaves nothing half done.             *)
THEOREM RejectsHaveNoEffect == ProcessorSpec => RejectChangesNothing
  <1> DEFINE Truthful ==
        proc = "pop" /\ proc' = "reply" =>
          (buffer'[Len(buffer')].type = "REJECT" <=> UNCHANGED <<levels, order_map, routes>>)
  <1>1. [ProcessorNext]_allVars => Truthful
    <2> SUFFICES ASSUME [ProcessorNext]_allVars, proc = "pop", proc' = "reply"
                 PROVE  buffer'[Len(buffer')].type = "REJECT" <=>
                          UNCHANGED <<levels, order_map, routes>>
      OBVIOUS
    <2>1. TakeInvalid \/ TakeCancel \/ TakeCancelUnknown
      BY DEF ProcessorNext, process, Submit, Deliver, TakeOrder, TakeUnknown, MatchFill,
             MatchFinish, Report, Acknowledge, PushReply, allVars, processorVars
    <2>2. CASE TakeInvalid
      BY <2>2 DEF TakeInvalid, Reply, vars, bookVars
    <2>3. CASE TakeCancel
      BY <2>3 DEF TakeCancel, Reply, Cancel, cancel_order, Erase
    <2>4. CASE TakeCancelUnknown
      BY <2>4 DEF TakeCancelUnknown, Reply, CancelUnknown, bookVars
    <2> QED
      BY <2>1, <2>2, <2>3, <2>4
  <1> QED
    BY <1>1, PTL DEF ProcessorSpec, RejectChangesNothing
=============================================================================
