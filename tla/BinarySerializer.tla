--------------------------- MODULE BinarySerializer ---------------------------
(***************************************************************************)
(* The wire format (src/binary_serializer.cpp): a header of five bytes,    *)
(* the type and the payload's length in network byte order, and a payload  *)
(* of fields copied out of memory in the host's byte order.  Each          *)
(* serialize_ appends a message to a buffer.                               *)
(*                                                                         *)
(* Every width and offset, counted in bytes, is the code's.  A byte has    *)
(* Radix values: with 8 in place of 256 the largest 64-bit number is one   *)
(* TLC can handle.                                                         *)
(***************************************************************************)
EXTENDS Integers, SequencesExt

CONSTANTS
  Radix,       \* the number of values of a byte
  BigEndian    \* the host's byte order

ASSUME SerializerAssumption == Radix \in Nat \ 0..6 /\ BigEndian \in BOOLEAN

MessageType == [NEW_ORDER |-> 1, CANCEL_ORDER |-> 2, ORDER_ACK |-> 3, REJECT |-> 4, TRADE |-> 5,
                CANCEL_ACK |-> 6]

-----------------------------------------------------------------------------
(* Numbers in memory.                                                      *)

(* The n bytes of v, the least significant or the most significant first.  *)
Little(v, n) == [i \in 1..n |-> (v \div Radix^(i - 1)) % Radix]
Big(v, n) == Reverse(Little(v, n))
Value(little) == MapThenSumSet(LAMBDA i : little[i] * Radix^(i - 1), DOMAIN little)

(* memcpy from a variable of n bytes, and to one from n bytes at offset.   *)
Bytes(v, n) == IF BigEndian THEN Big(v, n) ELSE Little(v, n)
Field(payload, offset, n) ==
  LET bytes == SubSeq(payload, offset + 1, offset + n)
  IN  Value(IF BigEndian THEN Reverse(bytes) ELSE bytes)

(* htonl and ntohl, as the bytes memcpy moves.                             *)
htonl(v) == Big(v, 4)
ntohl(bytes) == Value(Reverse(bytes))

Header(type, size) == <<type>> \o htonl(size)

-----------------------------------------------------------------------------
(* Each serialize_ with the PAYLOAD_SIZE it states, and each deserialize_  *)
(* with the offsets it reads at.                                           *)

serialize_order(order, buffer) ==
  buffer \o Header(MessageType.NEW_ORDER, 8 + 8 + 4 + 1 + 1)
         \o Bytes(order.id, 8) \o Bytes(order.price, 8) \o Bytes(order.quantity, 4)
         \o <<order.side, order.orderType>>
deserialize_order(payload) ==
  [type |-> MessageType.NEW_ORDER, id |-> Field(payload, 0, 8), price |-> Field(payload, 8, 8),
   quantity |-> Field(payload, 16, 4), side |-> payload[21], orderType |-> payload[22]]

serialize_id(type, id, buffer) == buffer \o Header(type, 8) \o Bytes(id, 8)
deserialize_id(type, payload) == [type |-> type, id |-> Field(payload, 0, 8)]
serialize_cancel(id, buffer) == serialize_id(MessageType.CANCEL_ORDER, id, buffer)
deserialize_cancel(payload) == deserialize_id(MessageType.CANCEL_ORDER, payload)
serialize_acknowledgement(ack, buffer) == serialize_id(MessageType.ORDER_ACK, ack.id, buffer)
deserialize_acknowledgement(payload) == deserialize_id(MessageType.ORDER_ACK, payload)
serialize_cancel_ack(ack, buffer) == serialize_id(MessageType.CANCEL_ACK, ack.id, buffer)
deserialize_cancel_ack(payload) == deserialize_id(MessageType.CANCEL_ACK, payload)

(* The length of the reason is a size_t, of which four bytes are copied.   *)
serialize_rejection(rejection, buffer) ==
  buffer \o Header(MessageType.REJECT, 8 + 4 + Len(rejection.reason))
         \o Bytes(rejection.id, 8) \o SubSeq(Bytes(Len(rejection.reason), 8), 1, 4)
         \o rejection.reason
deserialize_rejection(payload) ==
  [type |-> MessageType.REJECT, id |-> Field(payload, 0, 8),
   reason |-> SubSeq(payload, 13, 12 + Field(payload, 8, 4))]

TradeOverstated(trade, buffer) ==
  buffer \o Header(MessageType.TRADE, 8 + 8 + 8 + 8 + 8)
         \o Bytes(trade.price, 8) \o Bytes(trade.buyer_order_id, 8)
         \o Bytes(trade.seller_order_id, 8) \o Bytes(trade.quantity, 4)
         \o Bytes(trade.timestamp, 8)
serialize_trade(trade, buffer) ==
  buffer \o Header(MessageType.TRADE, 8 + 8 + 8 + 4 + 8)
         \o Bytes(trade.price, 8) \o Bytes(trade.buyer_order_id, 8)
         \o Bytes(trade.seller_order_id, 8) \o Bytes(trade.quantity, 4)
         \o Bytes(trade.timestamp, 8)
TradeSwapped(payload) ==
  [type |-> MessageType.TRADE, price |-> Field(payload, 0, 8),
   buyer_order_id |-> Field(payload, 16, 8), seller_order_id |-> Field(payload, 8, 8),
   quantity |-> Field(payload, 24, 4), timestamp |-> Field(payload, 28, 8)]
deserialize_trade(payload) ==
  [type |-> MessageType.TRADE, price |-> Field(payload, 0, 8),
   buyer_order_id |-> Field(payload, 8, 8), seller_order_id |-> Field(payload, 16, 8),
   quantity |-> Field(payload, 24, 4), timestamp |-> Field(payload, 28, 8)]

-----------------------------------------------------------------------------
(* The call that goes with a message's type.                               *)

serialize(m, buffer) ==
  CASE m.type = MessageType.NEW_ORDER    -> serialize_order(m, buffer)
    [] m.type = MessageType.CANCEL_ORDER -> serialize_cancel(m.id, buffer)
    [] m.type = MessageType.ORDER_ACK    -> serialize_acknowledgement(m, buffer)
    [] m.type = MessageType.REJECT       -> serialize_rejection(m, buffer)
    [] m.type = MessageType.TRADE        -> serialize_trade(m, buffer)
    [] m.type = MessageType.CANCEL_ACK   -> serialize_cancel_ack(m, buffer)

deserialize(message) ==
  CASE message.type = MessageType.NEW_ORDER    -> deserialize_order(message.payload)
    [] message.type = MessageType.CANCEL_ORDER -> deserialize_cancel(message.payload)
    [] message.type = MessageType.ORDER_ACK    -> deserialize_acknowledgement(message.payload)
    [] message.type = MessageType.REJECT       -> deserialize_rejection(message.payload)
    [] message.type = MessageType.TRADE        -> deserialize_trade(message.payload)
    [] message.type = MessageType.CANCEL_ACK   -> deserialize_cancel_ack(message.payload)
=============================================================================
