-------------------------- MODULE MultiProtoServer --------------------------
(***************************************************************************)
(* sockets/hw2/multiproto: one thread waits with select() for a TCP        *)
(* connection or a UDP datagram and serves both kinds of client in turn.   *)
(* A TCP connection gets one read() and one send() and is closed only when *)
(* that read() finds nothing; a datagram is sent back to its sender.       *)
(***************************************************************************)
EXTENDS EchoClients, FiniteSets

CONSTANTS
  UdpClients,  \* the processes of client_udp.c
  UDP_QUEUE,   \* datagrams the server socket's receive buffer holds
  None

ASSUME UdpAssumption ==
  UDP_QUEUE \in Nat \ {0} /\ None \notin Clients \cup UdpClients

VARIABLES
  mpc,             \* where main() is
  readfds,         \* what select() left in readfds
  new_tcp_socket,  \* the connection in handle_tcp_client
  bytes_read,      \* what its read() returned
  alive,           \* the process has not ended
  udpIn,           \* senders of the datagrams in the server's receive buffer
  client_addr,     \* the sender of the datagram in handle_udp_client
  upc,             \* where each client_udp.c is
  udpBack,         \* its reply is in its receive buffer
  lost             \* history: whose datagram was lost, on the way in or back

serverVars == <<mpc, readfds, new_tcp_socket, bytes_read, alive>>
udpVars == <<udpIn, client_addr, upc, udpBack, lost>>
vars == <<clientVars, serverVars, udpVars>>

TypeOK ==
  /\ ClientTypeOK
  /\ mpc \in {"boot", "select", "accept", "readTcp", "sendTcp", "recvUdp",
              "sendUdp"}
  /\ readfds \in SUBSET {"tcp", "udp"}
  /\ new_tcp_socket \in Clients \cup {None}
  /\ bytes_read \in 0..UNITS
  /\ alive \in BOOLEAN
  /\ udpIn \in Seq(UdpClients)
  /\ client_addr \in UdpClients \cup {None}
  /\ upc \in [UdpClients -> {"start", "recv", "done"}]
  /\ udpBack \in [UdpClients -> BOOLEAN]
  /\ lost \in SUBSET UdpClients

Init ==
  /\ ClientInit
  /\ mpc = "boot"
  /\ readfds = {}
  /\ new_tcp_socket = None
  /\ bytes_read = 0
  /\ alive = TRUE
  /\ udpIn = <<>>
  /\ client_addr = None
  /\ upc = [u \in UdpClients |-> "start"]
  /\ udpBack = [u \in UdpClients |-> FALSE]
  /\ lost = {}

-----------------------------------------------------------------------------
(* main() of client_udp.c.  Its socket is not connected: nothing tells it  *)
(* that a datagram was lost, dropped by a full buffer or that no server is *)
(* there.                                                                  *)

UdpSend(u) ==
  /\ upc[u] = "start"
  /\ \/ /\ listening /\ Len(udpIn) < UDP_QUEUE
        /\ udpIn' = Append(udpIn, u)
        /\ UNCHANGED lost
     \/ /\ lost' = lost \cup {u}
        /\ UNCHANGED udpIn
  /\ upc' = [upc EXCEPT ![u] = "recv"]
  /\ UNCHANGED <<client_addr, udpBack>>

UdpReceive(u) ==
  /\ upc[u] = "recv"
  /\ udpBack[u]
  /\ udpBack' = [udpBack EXCEPT ![u] = FALSE]
  /\ upc' = [upc EXCEPT ![u] = "done"]
  /\ UNCHANGED <<udpIn, client_addr, lost>>

UdpKilled(u) ==
  /\ upc[u] = "recv"
  /\ upc' = [upc EXCEPT ![u] = "done"]
  /\ udpBack' = [udpBack EXCEPT ![u] = FALSE]
  /\ UNCHANGED <<udpIn, client_addr, lost>>

-----------------------------------------------------------------------------
(* main() of server.c.                                                     *)

(* Both sockets are bound and the TCP one listens.                         *)
Boot ==
  /\ mpc = "boot"
  /\ SrvListen
  /\ mpc' = "select"
  /\ UNCHANGED <<readfds, new_tcp_socket, bytes_read, alive, udpVars>>

(* A failed call of the start-up, or a failed accept(), ends the process.  *)
Fails ==
  /\ mpc \in {"boot", "accept"}
  /\ SrvExit
  /\ alive' = FALSE
  /\ udpIn' = <<>>
  /\ lost' = lost \cup {udpIn[i] : i \in 1..Len(udpIn)}
  /\ UNCHANGED <<mpc, readfds, new_tcp_socket, bytes_read, client_addr, upc,
                 udpBack>>

Ready == {fd \in {"tcp", "udp"} : IF fd = "tcp" THEN backlog # <<>>
                                                ELSE udpIn # <<>>}

(* The part of the loop that follows select(): the TCP socket first.       *)
AfterSelect(ready) == IF "tcp" \in ready THEN "accept" ELSE "recvUdp"
(* With a fault: FD_ISSET of the UDP socket is not tested.                 *)
AfterTcpUnchecked == "recvUdp"
(* With a fault: connections are accepted as long as accept() returns one. *)
AfterTcpAcceptsOn == "accept"
AfterTcp == IF "udp" \in readfds THEN "recvUdp" ELSE "select"

(* select() returns when something can be read and says what; a failed     *)
(* select() is repeated.                                                   *)
Select ==
  /\ mpc = "select"
  /\ Ready # {}
  /\ readfds' = Ready
  /\ mpc' = AfterSelect(Ready)
  /\ UNCHANGED <<clientVars, new_tcp_socket, bytes_read, alive, udpVars>>

Accept ==
  /\ mpc = "accept"
  /\ \E c \in Clients : SrvAccept(c) /\ new_tcp_socket' = c
  /\ mpc' = "readTcp"
  /\ UNCHANGED <<readfds, bytes_read, alive, udpVars>>

(* handle_tcp_client: the one read(), which blocks the whole server until  *)
(* the client has sent something or is gone.                               *)
ReadTcp ==
  /\ mpc = "readTcp"
  /\ \E k \in 1..UNITS : SrvRead(new_tcp_socket, k) /\ bytes_read' = k
  /\ mpc' = "sendTcp"
  /\ UNCHANGED <<readfds, new_tcp_socket, alive, udpVars>>

(* It returns 0 or -1 and the connection is closed.                        *)
ReadTcpEnds ==
  /\ mpc = "readTcp"
  /\ ReadEnds(new_tcp_socket)
  /\ SrvClose(new_tcp_socket)
  /\ new_tcp_socket' = None
  /\ mpc' = AfterTcp
  /\ UNCHANGED <<readfds, bytes_read, alive, udpVars>>

(* With a fault: one piece more than was read is sent.                     *)
SendTcpOneMore ==
  /\ mpc = "sendTcp"
  /\ SrvSend(new_tcp_socket, bytes_read + 1)
  /\ bytes_read' = 0
  /\ new_tcp_socket' = None
  /\ mpc' = AfterTcp
  /\ UNCHANGED <<readfds, alive, udpVars>>

(* The echo.  The connection stays open, and handle_tcp_client was the     *)
(* only one to know its descriptor.                                        *)
SendTcp ==
  /\ mpc = "sendTcp"
  /\ SrvSend(new_tcp_socket, bytes_read)
  /\ bytes_read' = 0
  /\ new_tcp_socket' = None
  /\ mpc' = AfterTcp
  /\ UNCHANGED <<readfds, alive, udpVars>>

(* With a fault: the datagram stays in the receive buffer.                 *)
RecvUdpPeek ==
  /\ mpc = "recvUdp"
  /\ udpIn # <<>>
  /\ client_addr' = Head(udpIn)
  /\ mpc' = "sendUdp"
  /\ UNCHANGED <<clientVars, readfds, new_tcp_socket, bytes_read, alive, udpIn,
                 upc, udpBack, lost>>

(* handle_udp_client: recvfrom() takes the oldest datagram.                *)
RecvUdp ==
  /\ mpc = "recvUdp"
  /\ udpIn # <<>>
  /\ client_addr' = Head(udpIn)
  /\ udpIn' = Tail(udpIn)
  /\ mpc' = "sendUdp"
  /\ UNCHANGED <<clientVars, readfds, new_tcp_socket, bytes_read, alive, upc,
                 udpBack, lost>>

(* The datagram goes back to where it came from.  A client that has ended  *)
(* has no socket for it, any other may miss it: nobody looks at the result *)
(* of sendto(), and the network promises nothing.                          *)
SendUdp ==
  /\ mpc = "sendUdp"
  /\ \/ /\ upc[client_addr] = "recv"
        /\ udpBack' = [udpBack EXCEPT ![client_addr] = TRUE]
        /\ UNCHANGED lost
     \/ /\ lost' = lost \cup {client_addr}
        /\ UNCHANGED udpBack
  /\ client_addr' = None
  /\ mpc' = "select"
  /\ UNCHANGED <<clientVars, readfds, new_tcp_socket, bytes_read, alive, udpIn,
                 upc>>

-----------------------------------------------------------------------------
ServerLoop ==
  \/ Boot \/ Select
  \/ Accept \/ ReadTcp \/ ReadTcpEnds \/ SendTcp
  \/ RecvUdp \/ SendUdp

TcpClientStep(c) == ClientStep(c) /\ UNCHANGED <<serverVars, udpVars>>

UdpClientStep(u) ==
  /\ UdpSend(u) \/ UdpReceive(u) \/ UdpKilled(u)
  /\ UNCHANGED <<clientVars, serverVars>>

Next ==
  \/ alive /\ (ServerLoop \/ Fails)
  \/ \E c \in Clients : TcpClientStep(c)
  \/ \E u \in UdpClients : UdpClientStep(u)

Spec == Init /\ [][Next]_vars

(* The server runs on, and connected TCP clients go through their main().  *)
Fairness ==
  /\ WF_vars(alive /\ ServerLoop)
  /\ \A c \in Clients :
       WF_vars(ClientProgress(c) /\ UNCHANGED <<serverVars, udpVars>>)

FairSpec == Spec /\ Fairness

-----------------------------------------------------------------------------
(* What select() reported still holds when it is used, although the server *)
(* may have been blocked in a TCP client's read() in between: neither      *)
(* accept() nor recvfrom() ever blocks the other kind of client.           *)
ReadinessNotStale == alive =>
  /\ mpc = "accept" => backlog # <<>>
  /\ mpc = "recvUdp" => udpIn # <<>>
  /\ mpc \in {"accept", "readTcp", "sendTcp"} /\ "udp" \in readfds
       => udpIn # <<>>

(* The server turns away from a connection only when it owes it nothing:   *)
(* a client that is still in its read() has its echo under way, and the    *)
(* connection was closed only when not one piece of it was ever read.      *)
(* Together with conservation: what one read() missed is never echoed.     *)
(* And with one send() for each connection no client can have reset it     *)
(* before: unlike the threaded servers this one is never ended by SIGPIPE. *)
LeftOnlyAfterEcho ==
  /\ mpc = "sendTcp" => new_tcp_socket \notin reset
  /\ \A c \in Clients :
       /\ srv[c] = "open" /\ c # new_tcp_socket /\ cpc[c] = "read"
            => toClient[c] > 0
       /\ srv[c] = "closed" => got[c] = 0 /\ toClient[c] = 0
       /\ cpc[c] \in {"read", "close"} =>
            toServer[c] + toClient[c] + got[c]
              + (IF c = new_tcp_socket THEN bytes_read ELSE 0) = UNITS

(* Wherever datagrams are lost, on the way in or back, none is doubled: a  *)
(* client's request, or the reply to it, is in one place at most, or lost. *)
(* A client that still waits has it somewhere or has lost it: no other one *)
(* is ever answered in its stead.                                          *)
Places(u) ==
  Cardinality({i \in 1..Len(udpIn) : udpIn[i] = u})
    + (IF client_addr = u THEN 1 ELSE 0)
    + (IF udpBack[u] THEN 1 ELSE 0)
    + (IF u \in lost THEN 1 ELSE 0)

OneReplyEach ==
  \A u \in UdpClients :
    /\ Places(u) <= 1
    /\ upc[u] = "recv" => Places(u) = 1

(* A datagram in the receive buffer is not left there: no call the server  *)
(* blocks in, be it accept(), read() or select(), keeps it from recvfrom() *)
(* for ever, although TCP clients come first and read() waits for them.    *)
(* It holds as long as connected TCP clients go through their main(): one  *)
(* that stays silent stops the server.                                     *)
UdpNotStarved ==
  \A u \in UdpClients :
    (\E i \in 1..Len(udpIn) : udpIn[i] = u) ~> client_addr = u \/ ~alive

(* To its TCP clients the server is EchoService too, although it never     *)
(* comes back to a connection it has answered: it holds the pieces of the  *)
(* one in handle_tcp_client.                                               *)
PiecesHeld ==
  [c \in Clients |-> IF c = new_tcp_socket THEN bytes_read ELSE 0]

Service == INSTANCE EchoService WITH
  ACCEPT_IS_FATAL <- TRUE, CAN_REFUSE <- FALSE, held <- PiecesHeld

ServiceSpec == Service!Spec
=============================================================================
