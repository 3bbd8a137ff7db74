------------------------------- MODULE Transport -------------------------------
(***************************************************************************)
(* What the I/O thread promises the clients and the processing thread: it  *)
(* carries whole messages.  A client's requests reach the inbound queue    *)
(* one by one in the order they were sent, a message of the outbound queue *)
(* reaches the client of its descriptor as one uninterrupted piece, and    *)
(* only what belongs to a client that left is ever dropped.                *)
(***************************************************************************)
EXTENDS Naturals, Sequences

CONSTANTS
  Fds,           \* the descriptors of connections
  InboundSize,   \* the capacity of the inbound queue
  OutboundSize   \* the capacity of the outbound queue

VARIABLES
  connection,    \* fd -> "none", "open", or "left": closed by the client only
  sent,          \* fd -> the requests sent and not yet in the inbound queue
  inbound, outbound,
  owed           \* fd -> what an open connection has still to give its client

transportVars == <<connection, sent, inbound, outbound, owed>>

Init ==
  /\ connection = [fd \in Fds |-> "none"]
  /\ sent = [fd \in Fds |-> <<>>] /\ owed = [fd \in Fds |-> <<>>]
  /\ inbound = <<>> /\ outbound = <<>>

-----------------------------------------------------------------------------
(* The I/O thread.                                                         *)

Accept(fd) ==
  /\ connection[fd] = "none"
  /\ connection' = [connection EXCEPT ![fd] = "open"]
  /\ UNCHANGED <<sent, inbound, outbound, owed>>

HandOn(fd) ==
  /\ sent[fd] # <<>>
  /\ Len(inbound) < InboundSize
  /\ inbound' = Append(inbound, [fd |-> fd, type |-> Head(sent[fd]).type,
                                 payload |-> Head(sent[fd]).payload])
  /\ sent' = [sent EXCEPT ![fd] = Tail(@)]
  /\ UNCHANGED <<connection, outbound, owed>>

Deliver ==
  /\ outbound # <<>>
  /\ LET m == Head(outbound)
     IN  owed' = IF m.fd \in Fds /\ connection[m.fd] = "open"
                 THEN [owed EXCEPT ![m.fd] = @ \o m.payload]
                 ELSE owed
  /\ outbound' = Tail(outbound)
  /\ UNCHANGED <<connection, sent, inbound>>

Disconnect(fd) ==
  /\ connection[fd] # "none"
  /\ connection' = [connection EXCEPT ![fd] = "none"]
  /\ sent' = [sent EXCEPT ![fd] = <<>>]
  /\ owed' = [owed EXCEPT ![fd] = <<>>]
  /\ UNCHANGED <<inbound, outbound>>

-----------------------------------------------------------------------------
(* A client sends, reads a piece of what it is owed, or leaves.            *)

Send(fd) ==
  /\ connection[fd] = "open"
  /\ sent'[fd] # <<>>
  /\ sent' = [sent EXCEPT ![fd] = Append(@, sent'[fd][Len(sent'[fd])])]
  /\ UNCHANGED <<connection, inbound, outbound, owed>>

Read(fd) ==
  /\ owed[fd] # <<>>
  /\ owed' = [owed EXCEPT ![fd] = Tail(@)]
  /\ UNCHANGED <<connection, sent, inbound, outbound>>

Leave(fd) ==
  /\ connection[fd] = "open"
  /\ connection' = [connection EXCEPT ![fd] = "left"]
  /\ owed' = [owed EXCEPT ![fd] = <<>>]
  /\ UNCHANGED <<sent, inbound, outbound>>

(* The processing thread at the other ends of the queues.                  *)
Take ==
  /\ inbound # <<>>
  /\ inbound' = Tail(inbound)
  /\ UNCHANGED <<connection, sent, outbound, owed>>

Put ==
  /\ Len(outbound) < OutboundSize
  /\ Len(outbound') = Len(outbound) + 1 /\ SubSeq(outbound', 1, Len(outbound)) = outbound
  /\ UNCHANGED <<connection, sent, inbound, owed>>

(* Most steps of the I/O thread change nothing here.                       *)
Next ==
  \/ UNCHANGED transportVars
  \/ Deliver \/ Take \/ Put
  \/ \E fd \in Fds : \/ Accept(fd) \/ HandOn(fd) \/ Disconnect(fd)
                      \/ Send(fd) \/ Read(fd) \/ Leave(fd)

Spec == Init /\ [][Next]_transportVars
=============================================================================
