----------------------------- MODULE NetworkUtils -----------------------------
(***************************************************************************)
(* read_message and read_exact (src/network_utils.cpp) on a connection to  *)
(* which the other side writes messages with the serializer, until the     *)
(* connection ends or read_message returns false.  One step is one call of *)
(* recv, which blocks while nothing is there and returns any number of the *)
(* bytes that are.                                                         *)
(***************************************************************************)
EXTENDS BinarySerializer

CONSTANTS
  Messages,      \* what the other side writes
  MaxMessages    \* bound: the messages written to a connection

VARIABLES
  stream,        \* the bytes that are on the connection, not yet received
  ended,         \* whether no more will come
  phase,         \* which of the two read_exact runs: "HEADER" or "PAYLOAD"
  got,           \* the bytes it has read
  failed,        \* whether read_message has returned false
  message,       \* read_message's argument
  written,       \* history: the messages written
  decoded        \* history: the messages read, deserialized

vars == <<stream, ended, phase, got, failed, message, written, decoded>>

Init ==
  /\ stream = <<>> /\ ended = FALSE
  /\ phase = "HEADER" /\ got = <<>> /\ failed = FALSE
  /\ message = [type |-> 0, payload_length |-> 0]
  /\ written = <<>> /\ decoded = <<>>

(* The other side.                                                         *)
Write(m) ==
  /\ ~ended
  /\ Len(written) < MaxMessages
  /\ stream' = serialize(m, stream)
  /\ written' = Append(written, m)
  /\ UNCHANGED <<ended, phase, got, failed, message, decoded>>

(* The connection ends, orderly or with the loss of what was on the way.   *)
End ==
  /\ ~ended
  /\ ended' = TRUE
  /\ \E n \in 0..Len(stream) : stream' = SubSeq(stream, 1, n)
  /\ UNCHANGED <<phase, got, failed, message, written, decoded>>

-----------------------------------------------------------------------------

Wanted == (IF phase = "HEADER" THEN 5 ELSE message.payload_length) - Len(got)

Recv ==
  /\ ~failed /\ Wanted > 0
  /\ \E n \in 1..Min({Wanted, Len(stream)}) :
       /\ got' = got \o SubSeq(stream, 1, n)
       /\ stream' = SubSeq(stream, n + 1, Len(stream))
  /\ UNCHANGED <<ended, phase, failed, message, written, decoded>>

(* recv returns 0 or -1: so does read_message, in the middle of a message  *)
(* or between two.                                                         *)
RecvFails ==
  /\ ~failed /\ Wanted > 0
  /\ ended /\ stream = <<>>
  /\ failed' = TRUE
  /\ UNCHANGED <<stream, ended, phase, got, message, written, decoded>>

HeaderRead ==
  /\ phase = "HEADER" /\ Wanted = 0
  /\ message' = [type |-> got[1], payload_length |-> ntohl(SubSeq(got, 2, 5))]
  /\ phase' = "PAYLOAD" /\ got' = <<>>
  /\ UNCHANGED <<stream, ended, failed, written, decoded>>

(* read_message returns true; the caller deserializes and calls it again.  *)
PayloadRead ==
  /\ phase = "PAYLOAD" /\ Wanted = 0
  /\ decoded' = Append(decoded, deserialize([type |-> message.type, payload |-> got]))
  /\ phase' = "HEADER" /\ got' = <<>>
  /\ UNCHANGED <<stream, ended, failed, message, written>>

read_message == Recv \/ RecvFails \/ HeaderRead \/ PayloadRead

Next == (\E m \in Messages : Write(m)) \/ End \/ read_message

Spec == Init /\ [][Next]_vars

-----------------------------------------------------------------------------
(* However recv cuts the stream, the messages read are those written, in   *)
(* order and with every field intact: sizes, offsets and byte orders of    *)
(* serialize_ and deserialize_ agree, message after message.               *)
RoundTrip == IsPrefix(decoded, written)

(* read_message returns false only when what is left of the connection is  *)
(* less than a message: none that came whole is lost.                      *)
NothingMissed ==
  failed /\ Len(decoded) < Len(written) =>
    (IF phase = "HEADER" THEN 0 ELSE 5) + Len(got) <
      Len(serialize(written[Len(decoded) + 1], <<>>))
=============================================================================
