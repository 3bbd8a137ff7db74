---------------------------- MODULE ExchangeServer ----------------------------
(***************************************************************************)
(* The I/O thread (src/exchange_server.cpp): the epoll loop that accepts   *)
(* clients, cuts their byte streams into messages for the inbound queue,   *)
(* and writes what comes out of the outbound queue to their sockets.  One  *)
(* step is one system call or one operation on a queue; between the steps  *)
(* the clients, the kernel and the processing thread run.                  *)
(*                                                                         *)
(* A socket carries units in place of bytes: a header is two of them, the  *)
(* type and the payload's length, so that reads and writes of part of a    *)
(* header, a payload or a buffer all happen.                               *)
(***************************************************************************)
EXTENDS Integers, Sequences, FiniteSets

CONSTANTS
  Fds,             \* the file descriptors accept can return
  None,
  Requests,        \* the messages clients send
  InboundSize,     \* the capacity of the inbound queue
  OutboundSize,    \* the capacity of the outbound queue
  SendSpace,       \* the capacity of a socket's send buffer
  RecvSpace,       \* the capacity of its receive buffer
  MaxConnections,  \* bound: the connections made in a run
  MaxOwed,         \* bound: a client owed this much sends no request
  MayClose,        \* whether clients close their connections
  Trading          \* whether requests have trades to report

ASSUME ServerAssumption ==
  /\ None \notin Fds /\ IsFiniteSet(Fds)
  /\ {InboundSize, OutboundSize, SendSpace, RecvSpace, MaxConnections, MaxOwed}
       \subseteq Nat \ {0}
  /\ MayClose \in BOOLEAN /\ Trading \in BOOLEAN

VARIABLES
  sock,            \* the kernel's sockets
  backlog,         \* connections that wait for accept
  conns,           \* the connections made so far
  clients,         \* clients_
  pending_writes,  \* pending_writes_
  io,              \* where the thread is
  events,          \* what epoll_wait returned and is still to be handled
  event,           \* the event being handled
  inbound, outbound,
  held,            \* what the processing thread has still to push
  makers,          \* the connections it may have trades to report to
  expected,        \* history: messages sent to an fd and not yet pushed
  conn             \* history: the connection each fd and each message belongs to

kernelVars == <<sock, backlog, conns>>
loopVars == <<io, events, event>>
processorVars == <<held, makers>>
historyVars == <<expected, conn>>
vars == <<kernelVars, clients, pending_writes, loopVars, inbound, outbound, processorVars, historyVars>>

Min(a, b) == IF a < b THEN a ELSE b
Prefix(s, n) == SubSeq(s, 1, n)
Drop(s, n) == SubSeq(s, n + 1, Len(s))

HeaderSize == 2
Encode(m) == <<m.type, Len(m.payload)>> \o m.payload

(* ClientState{}, and a descriptor no connection uses.                     *)
NewClient == [active |-> FALSE, read_phase |-> "HEADER", read |-> <<>>, message_type |-> 0,
              payload_length |-> 0, write_buffer |-> <<>>, bytes_sent |-> 0]
NoSocket == [peer |-> "none", wire |-> <<>>, rcv |-> <<>>, snd |-> <<>>, out |-> FALSE]

Init ==
  /\ sock = [fd \in Fds |-> NoSocket] /\ backlog = 0 /\ conns = 0
  /\ clients = [fd \in Fds |-> NewClient]
  /\ pending_writes = <<>>
  /\ io = "drain" /\ events = {} /\ event = None
  /\ inbound = <<>> /\ outbound = <<>> /\ held = <<>> /\ makers = {}
  /\ expected = [fd \in Fds |-> <<>>]
  /\ conn = [fd |-> [fd \in Fds |-> 0], inbound |-> <<>>, held |-> <<>>, outbound |-> <<>>]

-----------------------------------------------------------------------------
(* The clients and the network.                                            *)

(* The rest of a client's write buffer, and all it has still to read.      *)
Unsent(fd) == Drop(clients[fd].write_buffer, clients[fd].bytes_sent)
Owed(fd) == sock[fd].snd \o Unsent(fd)

Free == {fd \in Fds : sock[fd].peer = "none"}

Connect ==
  /\ conns < MaxConnections
  /\ backlog' = backlog + 1
  /\ conns' = conns + 1
  /\ UNCHANGED <<sock, clients, pending_writes, loopVars, inbound, outbound, processorVars, historyVars>>

ClientSend(fd, m) ==
  /\ sock[fd].peer = "open" /\ sock[fd].wire = <<>>
  /\ Len(sock[fd].rcv \o Encode(m)) <= RecvSpace
  /\ Len(Owed(fd)) < MaxOwed
  /\ sock' = [sock EXCEPT ![fd].wire = Encode(m)]
  /\ expected' = [expected EXCEPT ![fd] = IF m.payload = <<>> THEN @ ELSE Append(@, m)]
  /\ UNCHANGED <<backlog, conns, clients, pending_writes, loopVars, inbound, outbound, processorVars, conn>>

(* Some of the units on the wire arrive.                                   *)
Arrive(fd) ==
  /\ \E n \in 1..Len(sock[fd].wire) :
       sock' = [sock EXCEPT ![fd].rcv = @ \o Prefix(sock[fd].wire, n), ![fd].wire = Drop(@, n)]
  /\ UNCHANGED <<backlog, conns, clients, pending_writes, loopVars, inbound, outbound, processorVars, historyVars>>

ClientRead(fd) ==
  /\ sock[fd].peer = "open" /\ sock[fd].snd # <<>>
  /\ sock' = [sock EXCEPT ![fd].snd = Tail(@)]
  /\ UNCHANGED <<backlog, conns, clients, pending_writes, loopVars, inbound, outbound, processorVars, historyVars>>

(* A client closes.  With data unread its kernel resets the connection at  *)
(* once and drops what has not arrived; otherwise what it sent arrives,    *)
(* and it answers what is sent afterwards with a reset.                    *)
ClientClose(fd) ==
  /\ MayClose
  /\ sock[fd].peer = "open"
  /\ IF sock[fd].snd = <<>>
     THEN sock[fd].wire = <<>> /\ sock' = [sock EXCEPT ![fd].peer = "closed"]
     ELSE sock' = [sock EXCEPT ![fd].peer = "aborted", ![fd].wire = <<>>]
  /\ UNCHANGED <<backlog, conns, clients, pending_writes, loopVars, inbound, outbound, processorVars, historyVars>>

Reset(fd) ==
  /\ sock[fd].peer = "closed" /\ sock[fd].snd # <<>>
  /\ sock' = [sock EXCEPT ![fd].peer = "reset", ![fd].snd = <<>>]
  /\ UNCHANGED <<backlog, conns, clients, pending_writes, loopVars, inbound, outbound, processorVars, historyVars>>

-----------------------------------------------------------------------------
(* The processing thread, as this one sees it: a request is answered with  *)
(* a message to its fd, after a trade report to the fd of a connection it  *)
(* had a request from, or none.                                            *)

ProcessorPop ==
  /\ held = <<>> /\ inbound # <<>>
  /\ LET m == Head(inbound)
         from == [fd |-> m.fd, conn |-> Head(conn.inbound)]
         reply == [fd |-> m.fd, payload |-> <<m.type + 2, m.payload[1]>>]
         report(o) == [fd |-> o.fd, payload |-> <<5, m.payload[1]>>]
         rest == [conn EXCEPT !.inbound = Tail(@)]
     IN  /\ \/ held' = <<reply>> /\ conn' = [rest EXCEPT !.held = <<from.conn>>]
            \/ \E o \in makers :
                 /\ Trading /\ Len(Owed(o.fd)) < MaxOwed
                 /\ held' = <<report(o), reply>>
                 /\ conn' = [rest EXCEPT !.held = <<o.conn, from.conn>>]
         /\ makers' = makers \cup {from}
  /\ inbound' = Tail(inbound)
  /\ UNCHANGED <<kernelVars, clients, pending_writes, loopVars, outbound, expected>>

ProcessorPush ==
  /\ held # <<>> /\ Len(outbound) < OutboundSize
  /\ outbound' = Append(outbound, Head(held))
  /\ held' = Tail(held)
  /\ conn' = [conn EXCEPT !.held = Tail(@), !.outbound = Append(@, Head(conn.held))]
  /\ UNCHANGED <<kernelVars, clients, pending_writes, loopVars, inbound, makers, expected>>

Processor == io # "terminated" /\ (ProcessorPop \/ ProcessorPush)

-----------------------------------------------------------------------------
(* drain_outbound_queue and flush_pending_writes.                          *)

Drain ==
  /\ io = "drain"
  /\ outbound # <<>>
  /\ outbound' = Tail(outbound)
  /\ conn' = [conn EXCEPT !.outbound = Tail(@)]
  /\ LET m == Head(outbound)
     IN  IF clients[m.fd].active
         THEN /\ clients' = [clients EXCEPT ![m.fd].write_buffer = @ \o m.payload]
              /\ pending_writes' = Append(pending_writes, m.fd)
         ELSE UNCHANGED <<clients, pending_writes>>
  /\ UNCHANGED <<kernelVars, loopVars, inbound, processorVars, expected>>

Drained ==
  /\ io = "drain"
  /\ outbound = <<>>
  /\ io' = "flush"
  /\ UNCHANGED <<kernelVars, clients, pending_writes, events, event, inbound, outbound, processorVars, historyVars>>

DisconnectKeepingState(fd) ==
  /\ sock' = [sock EXCEPT ![fd] = NoSocket]
  /\ expected' = [expected EXCEPT ![fd] = <<>>]
  /\ UNCHANGED <<clients, conn>>
disconnect_client(fd) ==
  /\ clients' = [clients EXCEPT ![fd] = NewClient]
  /\ sock' = [sock EXCEPT ![fd] = NoSocket]
  /\ expected' = [expected EXCEPT ![fd] = <<>>]
  /\ UNCHANGED conn

(* send with MSG_DONTWAIT takes what the socket has room for.              *)
Taken(fd) == Min(Len(Unsent(fd)), SendSpace - Len(sock[fd].snd))
AfterSendFromStart(fd) ==
  IF Taken(fd) = Len(Unsent(fd))
  THEN [clients[fd] EXCEPT !.write_buffer = <<>>, !.bytes_sent = 0]
  ELSE clients[fd]
AfterSend(fd) ==
  IF Taken(fd) = Len(Unsent(fd))
  THEN [clients[fd] EXCEPT !.write_buffer = <<>>, !.bytes_sent = 0]
  ELSE [clients[fd] EXCEPT !.bytes_sent = @ + Taken(fd)]

(* A send that took something: EPOLLOUT is out afterwards.                 *)
sendUnregistered(fd, out) ==
  /\ Taken(fd) > 0
  /\ clients' = [clients EXCEPT ![fd] = AfterSend(fd)]
  /\ sock' = [sock EXCEPT ![fd].snd = @ \o Prefix(Unsent(fd), Taken(fd))]
  /\ UNCHANGED historyVars
send(fd, out) ==
  /\ Taken(fd) > 0
  /\ clients' = [clients EXCEPT ![fd] = AfterSend(fd)]
  /\ sock' = [sock EXCEPT ![fd].snd = @ \o Prefix(Unsent(fd), Taken(fd)), ![fd].out = out]
  /\ UNCHANGED historyVars

(* A send to an aborted connection fails with ECONNRESET.  One to a        *)
(* connection closed first and reset later fails with EPIPE and raises     *)
(* SIGPIPE, which nothing ignores: the process ends.                       *)
sendFails(fd, next) ==
  \/ sock[fd].peer = "aborted" /\ disconnect_client(fd) /\ io' = next
  \/ sock[fd].peer = "reset" /\ io' = "terminated" /\ UNCHANGED <<clients, sock, historyVars>>

try_send(fd) ==
  IF clients[fd].write_buffer # <<>> /\ sock[fd].peer \in {"aborted", "reset"}
  THEN sendFails(fd, io)
  ELSE /\ io' = io
       /\ IF clients[fd].write_buffer = <<>> \/ Taken(fd) = 0
          THEN UNCHANGED <<clients, sock, historyVars>>
          ELSE send(fd, sock[fd].out \/ Taken(fd) < Len(Unsent(fd)))

Flush ==
  /\ io = "flush"
  /\ pending_writes # <<>>
  /\ try_send(Head(pending_writes))
  /\ pending_writes' = Tail(pending_writes)
  /\ UNCHANGED <<backlog, conns, events, event, inbound, outbound, processorVars>>

-----------------------------------------------------------------------------
(* epoll_wait and the loop over the events.                                *)

Readable(fd) == sock[fd].rcv # <<>> \/ sock[fd].peer # "open"
Writable(fd) ==
  sock[fd].out /\ (Len(sock[fd].snd) < SendSpace \/ sock[fd].peer \in {"aborted", "reset"})
Ready ==
  {[fd |-> fd, in |-> Readable(fd), out |-> Writable(fd)] :
     fd \in {g \in Fds \ Free : Readable(g) \/ Writable(g)}}
    \cup
  {[fd |-> None, in |-> TRUE, out |-> FALSE] : x \in {y \in {0} : backlog > 0}}

epoll_wait ==
  /\ io = "flush"
  /\ pending_writes = <<>>
  /\ events' = Ready
  /\ io' = "events"
  /\ UNCHANGED <<kernelVars, clients, pending_writes, event, inbound, outbound, processorVars, historyVars>>

NextEvent ==
  /\ io = "events"
  /\ \E e \in events :
       /\ event' = e
       /\ events' = events \ {e}
       /\ io' = CASE e.fd = None -> "accept" [] e.in -> "read" [] OTHER -> "write"
  /\ UNCHANGED <<kernelVars, clients, pending_writes, inbound, outbound, processorVars, historyVars>>

LastEvent ==
  /\ io = "events"
  /\ events = {}
  /\ io' = "drain"
  /\ event' = None
  /\ UNCHANGED <<kernelVars, clients, pending_writes, events, inbound, outbound, processorVars, historyVars>>

(* accept_client takes every connection that waits.                        *)
Accept ==
  /\ io = "accept"
  /\ backlog > 0
  /\ \E fd \in Free :
       /\ sock' = [sock EXCEPT ![fd] = [NoSocket EXCEPT !.peer = "open"]]
       /\ conn' = [conn EXCEPT !.fd[fd] = conns - backlog + 1]
       /\ clients' = [clients EXCEPT ![fd] = [NewClient EXCEPT !.active = TRUE]]
  /\ backlog' = backlog - 1
  /\ UNCHANGED <<conns, pending_writes, loopVars, inbound, outbound, processorVars, expected>>

(* accept fails when no descriptor is left; the exception ends the process. *)
AcceptFails ==
  /\ io = "accept"
  /\ backlog > 0
  /\ Free = {}
  /\ io' = "terminated"
  /\ UNCHANGED <<kernelVars, clients, pending_writes, events, event, inbound, outbound, processorVars, historyVars>>

Accepted ==
  /\ io = "accept"
  /\ backlog = 0
  /\ io' = "events"
  /\ UNCHANGED <<kernelVars, clients, pending_writes, events, event, inbound, outbound, processorVars, historyVars>>

-----------------------------------------------------------------------------
(* handle_read: the loop ends with a return, after which a writable event  *)
(* is handled.                                                             *)

Return == io' = IF event.out THEN "write" ELSE "events"

Wanted(c) == (IF c.read_phase = "HEADER" THEN HeaderSize ELSE c.payload_length) - Len(c.read)

(* recv has nothing: the connection was closed, or EAGAIN.                 *)
ReadNothing(fd) ==
  /\ Wanted(clients[fd]) > 0
  /\ sock[fd].rcv = <<>>
  /\ IF sock[fd].peer = "open"
     THEN UNCHANGED <<clients, sock, historyVars>>
     ELSE disconnect_client(fd)
  /\ Return
  /\ UNCHANGED inbound

(* A header that is complete says what to read next; one with no payload   *)
(* is a keep-alive and is dropped.                                         *)
AfterHeaderKept(c, got) ==
  [c EXCEPT !.message_type = got[1], !.payload_length = got[2], !.read = <<>>,
            !.read_phase = "PAYLOAD"]
AfterHeader(c, got) ==
  [c EXCEPT !.message_type = got[1], !.payload_length = got[2], !.read = <<>>,
            !.read_phase = IF got[2] # 0 THEN "PAYLOAD" ELSE "HEADER"]

ReadSome(fd) ==
  /\ Wanted(clients[fd]) > 0
  /\ sock[fd].rcv # <<>>
  /\ LET c == clients[fd]
         n == Min(Wanted(c), Len(sock[fd].rcv))
         got == c.read \o Prefix(sock[fd].rcv, n)
     IN  /\ sock' = [sock EXCEPT ![fd].rcv = Drop(@, n)]
         /\ IF n < Wanted(c)
            THEN clients' = [clients EXCEPT ![fd].read = got] /\ Return
            ELSE /\ clients' = [clients EXCEPT ![fd] = IF c.read_phase = "HEADER"
                                                       THEN AfterHeader(c, got)
                                                       ELSE [c EXCEPT !.read = got]]
                 /\ io' = io
  /\ UNCHANGED <<inbound, historyVars>>

(* The payload is complete: into the queue, or return and keep it.         *)
Assembled(fd) ==
  [fd |-> fd, type |-> clients[fd].message_type, payload |-> clients[fd].read]

PushOrSpin(fd) ==
  /\ Wanted(clients[fd]) = 0
  /\ IF Len(inbound) = InboundSize
     THEN UNCHANGED <<clients, inbound, io, historyVars>>
     ELSE /\ inbound' = Append(inbound, Assembled(fd))
          /\ clients' = [clients EXCEPT ![fd].read_phase = "HEADER", ![fd].read = <<>>]
          /\ expected' = [expected EXCEPT ![fd] = Tail(@)]
          /\ conn' = [conn EXCEPT !.inbound = Append(@, conn.fd[fd])]
          /\ io' = io
  /\ UNCHANGED sock
PushInbound(fd) ==
  /\ Wanted(clients[fd]) = 0
  /\ IF Len(inbound) = InboundSize
     THEN Return /\ UNCHANGED <<clients, inbound, historyVars>>
     ELSE /\ inbound' = Append(inbound, Assembled(fd))
          /\ clients' = [clients EXCEPT ![fd].read_phase = "HEADER", ![fd].read = <<>>]
          /\ expected' = [expected EXCEPT ![fd] = Tail(@)]
          /\ conn' = [conn EXCEPT !.inbound = Append(@, conn.fd[fd])]
          /\ io' = io
  /\ UNCHANGED sock

handle_read ==
  /\ io = "read"
  /\ ReadNothing(event.fd) \/ ReadSome(event.fd) \/ PushInbound(event.fd)
  /\ UNCHANGED <<backlog, conns, pending_writes, events, event, outbound, processorVars>>

(* handle_write; a send of nothing returns 0, and that disconnects.        *)
handle_write ==
  /\ io = "write"
  /\ LET fd == event.fd
     IN  IF clients[fd].active /\ sock[fd].peer \in {"aborted", "reset"}
         THEN sendFails(fd, "events")
         ELSE /\ io' = "events"
              /\ IF ~clients[fd].active \/ (Taken(fd) = 0 /\ Unsent(fd) # <<>>)
                 THEN UNCHANGED <<clients, sock, historyVars>>
                 ELSE IF Unsent(fd) = <<>>
                 THEN disconnect_client(fd)
                 ELSE send(fd, Taken(fd) < Len(Unsent(fd)))
  /\ UNCHANGED <<backlog, conns, pending_writes, events, event, inbound, outbound, processorVars>>

run ==
  \/ Drain \/ Drained \/ Flush
  \/ epoll_wait \/ NextEvent \/ LastEvent
  \/ Accept \/ AcceptFails \/ Accepted \/ handle_read \/ handle_write

Environment ==
  \/ Connect
  \/ \E fd \in Fds : \/ \E m \in Requests : ClientSend(fd, m)
                      \/ Arrive(fd) \/ ClientRead(fd) \/ ClientClose(fd) \/ Reset(fd)

Next == run \/ Processor \/ Environment

Spec == Init /\ [][Next]_vars

(* Both threads keep running and what was sent arrives; nothing is assumed *)
(* of the clients.                                                         *)
FairSpec ==
  Spec /\ WF_vars(run) /\ WF_vars(Processor) /\ \A fd \in Fds : WF_vars(Arrive(fd))

-----------------------------------------------------------------------------
(* A descriptor has a ClientState that is active exactly while it has a    *)
(* socket, a slot without a client holds nothing of the last one, and a    *)
(* write buffer that is not empty has something left to send.              *)
ServerTypeOK ==
  /\ Len(inbound) <= InboundSize /\ Len(outbound) <= OutboundSize
  /\ \A fd \in Fds :
       LET c == clients[fd]
       IN  /\ c.active <=> sock[fd].peer # "none"
           /\ ~c.active => c = NewClient
           /\ Wanted(c) >= 0
           /\ IF c.write_buffer = <<>> THEN c.bytes_sent = 0 ELSE c.bytes_sent < Len(c.write_buffer)
           /\ Len(sock[fd].snd) <= SendSpace

(* However its bytes arrive, and however often the queue is full, a client *)
(* is read as the messages it sent, in order, without its keep-alives.     *)
Framing ==
  \A fd \in Fds : clients[fd].active /\ Wanted(clients[fd]) = 0 =>
    /\ expected[fd] # <<>>
    /\ Head(expected[fd]) = [type |-> Assembled(fd).type, payload |-> Assembled(fd).payload]

Connection(fd) ==
  CASE sock[fd].peer = "none" -> "none" [] sock[fd].peer = "open" -> "open" [] OTHER -> "left"

Messages ==
  INSTANCE Transport WITH
    connection <- [fd \in Fds |-> Connection(fd)],
    sent <- expected,
    owed <- [fd \in Fds |-> IF Connection(fd) = "open" THEN Owed(fd) ELSE <<>>]

(* Over any sequence of partial reads, full queues, partial sends from     *)
(* try_send and handle_write, resets and disconnects, clients and          *)
(* processing thread see the whole messages of Transport: nothing is lost, *)
(* repeated, reordered, or left over for a descriptor's next client.       *)
ImplementsTransport == Messages!Spec

(* The loop of run always comes round: handle_read gives up when the       *)
(* inbound queue is full, which it is sooner or later because nobody       *)
(* drains the outbound queue meanwhile.                                    *)
LoopTurns == []<>(io = "drain")

(* The two threads never wait for each other: a message the processor      *)
(* spins on finds room in the outbound queue.                              *)
NoMutualWait == held # <<>> ~> held = <<>>

(* What a partial send leaves is sent in the end, by handle_write or along *)
(* with what comes next, as long as the client keeps emptying its socket.  *)
PartialSent ==
  \A fd \in Fds : []<>(sock[fd].snd = <<>>) =>
                    (clients[fd].bytes_sent > 0 ~> clients[fd].bytes_sent = 0)

-----------------------------------------------------------------------------
(* What the repository says of this thread and its code does not do.       *)

(* "If the push fails, the client state stays intact so the message can be *)
(* retried on the next event loop cycle": a message handle_read could not  *)
(* push is pushed later.                                                   *)
PushRetried ==
  \A fd \in Fds : clients[fd].active /\ Wanted(clients[fd]) = 0 ~> Wanted(clients[fd]) # 0

(* "if a client is having other errors, we cant stop our server, simply    *)
(* disconnect them": handle_write and the rest of the loop disconnect only *)
(* clients whose connection ended or failed.                               *)
OnlyFailedDisconnected ==
  [][\A fd \in Fds : clients[fd].active /\ ~clients'[fd].active => sock[fd].peer # "open"]_vars

(* The same comment: a client's errors do not stop the server.             *)
KeepsRunning == io # "terminated"

(* "routes fills to clients": what drain_outbound_queue puts in a client's *)
(* buffer was meant for that client, not for one that had the descriptor   *)
(* before it.                                                              *)
RoutedToConnection ==
  io = "drain" /\ outbound # <<>> /\ clients[Head(outbound).fd].active =>
    Head(conn.outbound) = conn.fd[Head(outbound).fd]
=============================================================================
