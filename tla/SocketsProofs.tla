--------------------------- MODULE SocketsProofs ---------------------------
(***************************************************************************)
(* Theorems about MultiProtoServer, for any number of TCP and UDP clients, *)
(* any backlog and receive buffer and any number of pieces, and about      *)
(* SocketPairs, for any number of clients and servers and any backlog.     *)
(*                                                                         *)
(* MultiProtoServer has three invariants, one for each theorem: what       *)
(* select() reported is still there (Fresh), a datagram is in one place    *)
(* (Placed), and where a connection stands with the server says where its  *)
(* pieces are (Ledger).  SocketPairs has two: who owns the server's name   *)
(* (Reach), and whose turn it is on a shared path (Answers).               *)
(***************************************************************************)
EXTENDS MCSockets, FiniteSetTheorems, TLAPS

(* The values of the variables; what counts pieces is left to Ledger.      *)
Kinds ==
  /\ listening \in BOOLEAN
  /\ backlog \in Seq(Clients)
  /\ cpc \in [Clients -> ClientStates]
  /\ srv \in [Clients -> {"none", "open", "closed", "gone"}]
  /\ mpc \in {"boot", "select", "accept", "readTcp", "sendTcp", "recvUdp",
              "sendUdp"}
  /\ new_tcp_socket \in Clients \cup {None}
  /\ udpIn \in Seq(UdpClients)
  /\ client_addr \in UdpClients \cup {None}
  /\ mpc = "sendUdp" <=> client_addr # None
  /\ upc \in [UdpClients -> {"start", "recv", "done"}]
  /\ udpBack \in [UdpClients -> BOOLEAN]
  /\ lost \in SUBSET UdpClients

(* What select() reported is still there.                                  *)
Fresh == alive =>
  /\ mpc = "accept" => backlog # <<>>
  /\ mpc = "recvUdp" => udpIn # <<>>
  /\ mpc \in {"accept", "readTcp", "sendTcp"} /\ "udp" \in readfds
       => udpIn # <<>>

InBuffer(u) == \E i \in 1..Len(udpIn) : udpIn[i] = u

(* Where the one datagram of a client, or its answer, can be.              *)
PlacedOne(u) ==
  /\ upc[u] = "start" => /\ ~InBuffer(u) /\ client_addr # u
                         /\ ~udpBack[u] /\ u \notin lost
  /\ InBuffer(u) => client_addr # u /\ ~udpBack[u] /\ u \notin lost
  /\ client_addr = u => ~udpBack[u] /\ u \notin lost
  /\ udpBack[u] => u \notin lost
  /\ upc[u] = "recv" =>
       InBuffer(u) \/ client_addr = u \/ udpBack[u] \/ u \in lost

Placed ==
  /\ \A i, j \in 1..Len(udpIn) : udpIn[i] = udpIn[j] => i = j
  /\ \A u \in UdpClients : PlacedOne(u)

(* A connection in the backlog has not been accepted and is there once.    *)
Backlogged ==
  /\ \A c \in Clients : cpc[c] = "start" => srv[c] = "none"
  /\ \A i \in 1..Len(backlog) : /\ cpc[backlog[i]] # "start"
                                /\ srv[backlog[i]] = "none"
  /\ \A i, j \in 1..Len(backlog) : backlog[i] = backlog[j] => i = j

Unsent == {"start", "send", "failed"}

(* Where the pieces of a connection's message are: nothing moves before    *)
(* the client sends; the server holds a connection from accept() until the *)
(* end of its one send(), and has echoed nothing of it before that.        *)
LedgerOf(c) ==
  /\ cpc[c] \in Unsent => toServer[c] = 0 /\ toClient[c] = 0 /\ got[c] = 0
  /\ cpc[c] = "read" => got[c] = 0
  /\ c \in reset => cpc[c] = "done"
  /\ srv[c] = "none" => toClient[c] = 0 /\ got[c] = 0 /\ c \notin reset
  /\ cpc[c] \in {"read", "close"} /\ c # new_tcp_socket =>
       toServer[c] + toClient[c] + got[c] = UNITS
  /\ c = new_tcp_socket =>
       /\ srv[c] = "open" /\ toClient[c] = 0 /\ got[c] = 0 /\ c \notin reset
       /\ cpc[c] \in {"read", "close"} => toServer[c] + bytes_read = UNITS
       /\ cpc[c] \in Unsent => bytes_read = 0
  /\ srv[c] = "open" /\ c # new_tcp_socket =>
       cpc[c] # "send" /\ (cpc[c] = "read" => toClient[c] > 0)
  /\ srv[c] = "closed" => cpc[c] = "done" /\ toClient[c] = 0 /\ got[c] = 0

Ledger ==
  /\ got \in [Clients -> 0..UNITS]
  /\ toServer \in [Clients -> 0..UNITS]
  /\ toClient \in [Clients -> 0..UNITS]
  /\ bytes_read \in 0..UNITS
  /\ mpc = "sendTcp" <=> bytes_read > 0
  /\ mpc \in {"readTcp", "sendTcp"} <=> new_tcp_socket # None
  /\ \A c \in Clients : LedgerOf(c)

-----------------------------------------------------------------------------
LEMMA NoSeq == ASSUME NEW S PROVE <<>> \in Seq(S)
OBVIOUS

LEMMA KindsInit == Init => Kinds
<1> SUFFICES ASSUME Init PROVE Kinds
  OBVIOUS
<1>1. backlog = <<>> /\ udpIn = <<>>
  BY DEF Init, ClientInit
<1>2. backlog \in Seq(Clients) /\ udpIn \in Seq(UdpClients)
  BY <1>1, NoSeq
<1>3. cpc \in [Clients -> ClientStates]
  BY DEF Init, ClientInit, ClientStates
<1>4. srv \in [Clients -> {"none", "open", "closed", "gone"}]
  BY DEF Init, ClientInit
<1>5. upc \in [UdpClients -> {"start", "recv", "done"}]
  BY DEF Init
<1> QED BY <1>2, <1>3, <1>4, <1>5 DEF Init, ClientInit, Kinds

LEMMA KindsTcpClient ==
  ASSUME Kinds, NEW c \in Clients, TcpClientStep(c)
  PROVE  Kinds'
<1> USE DEF Kinds, ClientStates
<1>0. UNCHANGED <<mpc, new_tcp_socket, udpIn, client_addr, upc, udpBack, lost>>
  BY DEF TcpClientStep, serverVars, udpVars
<1>1. CASE Connect(c)
  BY <1>0, <1>1 DEF Connect
<1>2. CASE CannotConnect(c)
  BY <1>0, <1>2 DEF CannotConnect
<1>3. CASE SendMessage(c)
  BY <1>0, <1>3 DEF SendMessage
<1>4. CASE ReadReply(c)
  BY <1>0, <1>4 DEF ReadReply
<1>5. CASE ReadEof(c)
  BY <1>0, <1>5 DEF ReadEof
<1>6. CASE CloseClient(c) \/ ClientKilled(c)
  BY <1>0, <1>6 DEF CloseClient, ClientKilled, Disconnect
<1> QED BY <1>1, <1>2, <1>3, <1>4, <1>5, <1>6
        DEF TcpClientStep, ClientStep, ClientProgress

LEMMA KindsUdpClient ==
  ASSUME Kinds, NEW u \in UdpClients, UdpClientStep(u)
  PROVE  Kinds'
<1>0. UNCHANGED <<listening, backlog, cpc, srv, mpc, new_tcp_socket>>
  BY DEF UdpClientStep, clientVars, serverVars
<1>1. CASE UdpSend(u)
  <2>1. udpIn' \in Seq(UdpClients)
    <3>1. udpIn' = udpIn \/ udpIn' = Append(udpIn, u)
      BY <1>1 DEF UdpSend
    <3>2. udpIn \in Seq(UdpClients)
      BY DEF Kinds
    <3>3. Append(udpIn, u) \in Seq(UdpClients)
      BY <3>2
    <3> QED BY <3>1, <3>2, <3>3
  <2>2. lost' \in SUBSET UdpClients
    BY <1>1 DEF Kinds, UdpSend
  <2> QED BY <1>0, <1>1, <2>1, <2>2 DEF Kinds, UdpSend
<1>2. CASE UdpReceive(u) \/ UdpKilled(u)
  BY <1>0, <1>2 DEF Kinds, UdpReceive, UdpKilled
<1> QED BY <1>1, <1>2 DEF UdpClientStep

LEMMA KindsLoop ==
  ASSUME Kinds, ServerLoop
  PROVE  Kinds'
<1> USE DEF Kinds
<1>1. CASE Boot
  BY <1>1 DEF Boot, SrvListen, udpVars
<1>2. CASE Select
  BY <1>2 DEF Select, AfterSelect, clientVars, udpVars
<1>3. CASE Accept
  BY <1>3 DEF Accept, SrvAccept, udpVars
<1>4. CASE ReadTcp
  BY <1>4 DEF ReadTcp, SrvRead, udpVars
<1>5. CASE ReadTcpEnds
  BY <1>5 DEF ReadTcpEnds, SrvClose, AfterTcp, udpVars
<1>6. CASE SendTcp
  BY <1>6 DEF SendTcp, SrvSend, AfterTcp, udpVars
<1>7. CASE RecvUdp
  BY <1>7, UdpAssumption DEF RecvUdp, clientVars
<1>8. CASE SendUdp
  <2>1. client_addr' = None /\ mpc' = "select"
    BY <1>8 DEF SendUdp
  <2>2. UNCHANGED <<clientVars, new_tcp_socket, udpIn, upc>>
    BY <1>8 DEF SendUdp
  <2>3. udpBack' \in [UdpClients -> BOOLEAN]
    BY <1>8 DEF SendUdp
  <2>4. lost' \in SUBSET UdpClients
    <3>1. client_addr \in UdpClients
      BY <1>8 DEF SendUdp
    <3> QED BY <1>8, <3>1 DEF SendUdp
  <2> QED BY <2>1, <2>2, <2>3, <2>4 DEF clientVars
<1> QED BY <1>1, <1>2, <1>3, <1>4, <1>5, <1>6, <1>7, <1>8 DEF ServerLoop

LEMMA KindsFails ==
  ASSUME Kinds, Fails
  PROVE  Kinds'
<1>1. backlog' = <<>> /\ udpIn' = <<>> /\ listening' = FALSE
  BY DEF Fails, SrvExit
<1>2. backlog' \in Seq(Clients) /\ udpIn' \in Seq(UdpClients)
  BY <1>1, NoSeq
<1>3. lost' \in SUBSET UdpClients
  BY DEF Kinds, Fails
<1>4. srv' \in [Clients -> {"none", "open", "closed", "gone"}]
  BY DEF Kinds, Fails, SrvExit
<1> QED BY <1>1, <1>2, <1>3, <1>4 DEF Kinds, Fails, SrvExit

LEMMA KindsStep == Kinds /\ [Next]_vars => Kinds'
<1>1. Kinds /\ UNCHANGED vars => Kinds'
  BY DEF Kinds, vars, clientVars, serverVars, udpVars
<1> QED BY <1>1, KindsTcpClient, KindsUdpClient, KindsLoop, KindsFails DEF Next

-----------------------------------------------------------------------------
(* Only the server takes out of the backlog and of the receive buffer.     *)
LEMMA ClientsOnlyAdd ==
  ASSUME Kinds,
         \/ \E c \in Clients : TcpClientStep(c)
         \/ \E u \in UdpClients : UdpClientStep(u)
         \/ UNCHANGED vars
  PROVE  /\ backlog # <<>> => backlog' # <<>>
         /\ udpIn # <<>> => udpIn' # <<>>
         /\ UNCHANGED serverVars
<1>1. ASSUME NEW c \in Clients, TcpClientStep(c)
      PROVE  (backlog # <<>> => backlog' # <<>>) /\ udpIn' = udpIn
  <2>1. backlog' = backlog \/ backlog' = Append(backlog, c)
    BY <1>1 DEF TcpClientStep, ClientStep, ClientProgress, Connect,
       CannotConnect, SendMessage, ReadReply, ReadEof, CloseClient,
       ClientKilled, Disconnect
  <2> QED BY <1>1, <2>1 DEF Kinds, TcpClientStep, udpVars
<1>2. ASSUME NEW u \in UdpClients, UdpClientStep(u)
      PROVE  backlog' = backlog /\ (udpIn # <<>> => udpIn' # <<>>)
  <2>1. udpIn' = udpIn \/ udpIn' = Append(udpIn, u)
    BY <1>2 DEF UdpClientStep, UdpSend, UdpReceive, UdpKilled
  <2> QED BY <1>2, <2>1 DEF Kinds, UdpClientStep, clientVars
<1>3. \/ \E c \in Clients : TcpClientStep(c)
      \/ \E u \in UdpClients : UdpClientStep(u)
      \/ UNCHANGED vars
      => UNCHANGED serverVars
  BY DEF TcpClientStep, UdpClientStep, vars
<1> QED BY <1>1, <1>2, <1>3 DEF vars, clientVars, udpVars

LEMMA FreshStep ==
  ASSUME Kinds, Fresh, [Next]_vars
  PROVE  Fresh'
<1>1. CASE \/ \E c \in Clients : TcpClientStep(c)
           \/ \E u \in UdpClients : UdpClientStep(u)
           \/ UNCHANGED vars
  BY <1>1, ClientsOnlyAdd DEF Fresh, serverVars
<1>2. CASE Fails
  BY <1>2 DEF Fails, Fresh
<1>3. CASE alive /\ ServerLoop
  <2> USE <1>3 DEF Fresh
  <2>1. CASE Boot
    BY <2>1 DEF Boot
  <2>2. CASE Select
    BY <2>2 DEF Select, AfterSelect, Ready, clientVars, udpVars
  <2>3. CASE Accept
    BY <2>3 DEF Accept, udpVars
  <2>4. CASE ReadTcp
    BY <2>4 DEF ReadTcp, udpVars
  <2>5. CASE ReadTcpEnds
    BY <2>5 DEF ReadTcpEnds, AfterTcp, udpVars
  <2>6. CASE SendTcp
    BY <2>6 DEF SendTcp, AfterTcp, udpVars
  <2>7. CASE RecvUdp
    BY <2>7 DEF RecvUdp
  <2>8. CASE SendUdp
    BY <2>8 DEF SendUdp
  <2> QED BY <2>1, <2>2, <2>3, <2>4, <2>5, <2>6, <2>7, <2>8 DEF ServerLoop
<1> QED BY <1>1, <1>2, <1>3 DEF Next

(* Although the server blocks in a TCP client's read() between select()    *)
(* and its use of the answer, neither accept() nor recvfrom() ever blocks. *)
THEOREM ReadinessCorrect == Spec => []ReadinessNotStale
<1>1. Init => Fresh
  BY DEF Init, Fresh
<1>2. Fresh => ReadinessNotStale
  BY DEF Fresh, ReadinessNotStale
<1> QED BY <1>1, <1>2, KindsInit, KindsStep, FreshStep, PTL DEF Spec

-----------------------------------------------------------------------------
(* The step of a UDP client.                                               *)
LEMMA PlacedUdpClient ==
  ASSUME Kinds, Placed, NEW u \in UdpClients, UdpClientStep(u)
  PROVE  Placed'
<1>1. mpc' = mpc /\ client_addr' = client_addr
  BY DEF UdpClientStep, UdpSend, UdpReceive, UdpKilled, serverVars
<1>2. CASE UdpSend(u) /\ udpIn' = Append(udpIn, u) /\ lost' = lost
  <2>1. /\ upc[u] = "start" /\ upc' = [upc EXCEPT ![u] = "recv"]
        /\ udpBack' = udpBack
    BY <1>2 DEF UdpSend
  <2>2. /\ Len(udpIn') = Len(udpIn) + 1 /\ Len(udpIn) \in Nat
        /\ \A i \in 1..Len(udpIn) : udpIn'[i] = udpIn[i]
        /\ udpIn'[Len(udpIn) + 1] = u
    BY <1>2 DEF Kinds
  <2>3. \A v : InBuffer(v)' <=> InBuffer(v) \/ v = u
    BY <2>2 DEF InBuffer
  <2>4. /\ ~InBuffer(u) /\ client_addr # u /\ ~udpBack[u] /\ u \notin lost
    BY <2>1 DEF Placed, PlacedOne
  <2>5. \A i, j \in 1..Len(udpIn') : udpIn'[i] = udpIn'[j] => i = j
    <3>1. \A i \in 1..Len(udpIn) : udpIn'[i] # u
      BY <2>2, <2>4 DEF InBuffer
    <3>2. \A i \in 1..Len(udpIn') :
            i \in 1..Len(udpIn) \/ i = Len(udpIn) + 1
      BY <2>2
    <3>3. \A i, j \in 1..Len(udpIn) : udpIn'[i] = udpIn'[j] => i = j
      BY <2>2 DEF Placed
    <3> QED BY <2>2, <3>1, <3>2, <3>3
  <2>6. \A v \in UdpClients : PlacedOne(v)'
    BY <1>1, <1>2, <2>1, <2>3, <2>4 DEF Kinds, Placed, PlacedOne
  <2> QED BY <1>1, <2>5, <2>6 DEF Placed
<1>3. CASE udpIn' = udpIn
  <2>1. \A v : InBuffer(v)' <=> InBuffer(v)
    BY <1>3 DEF InBuffer
  <2>2. \A v \in UdpClients : PlacedOne(v)'
    <3>1. CASE UdpSend(u)
      <4>1. lost' = lost \cup {u}
        BY <1>3, <3>1 DEF UdpSend, Kinds
      <4> QED BY <1>1, <2>1, <3>1, <4>1 DEF UdpSend, Kinds, Placed, PlacedOne
    <3>2. CASE UdpReceive(u) \/ UdpKilled(u)
      BY <1>1, <2>1, <3>2
         DEF UdpReceive, UdpKilled, Kinds, Placed, PlacedOne
    <3> QED BY <3>1, <3>2 DEF UdpClientStep
  <2> QED BY <1>1, <1>3, <2>2 DEF Placed
<1> QED BY <1>2, <1>3
        DEF UdpClientStep, UdpSend, UdpReceive, UdpKilled

(* recvfrom() moves the oldest datagram into handle_udp_client.            *)
LEMMA PlacedReceive ==
  ASSUME Kinds, Placed, RecvUdp
  PROVE  Placed'
<1>1. /\ mpc = "recvUdp" /\ mpc' = "sendUdp" /\ udpIn # <<>>
      /\ client_addr' = Head(udpIn) /\ udpIn' = Tail(udpIn)
      /\ upc' = upc /\ udpBack' = udpBack /\ lost' = lost
  BY DEF RecvUdp
<1>2. /\ Len(udpIn) \in Nat /\ Len(udpIn) > 0
      /\ Len(udpIn') = Len(udpIn) - 1
      /\ \A i \in 1..Len(udpIn') : udpIn'[i] = udpIn[i + 1]
      /\ client_addr' = udpIn[1] /\ udpIn[1] \in UdpClients
  BY <1>1 DEF Kinds
<1>3. \A i \in 1..Len(udpIn') : i + 1 \in 1..Len(udpIn) /\ i + 1 # 1
  BY <1>2
<1>4. \A v : InBuffer(v) <=> InBuffer(v)' \/ v = client_addr'
  <2> TAKE v
  <2>1. ASSUME NEW i \in 1..Len(udpIn), i # 1, udpIn[i] = v
        PROVE  InBuffer(v)'
    <3>1. i - 1 \in 1..Len(udpIn') /\ (i - 1) + 1 = i
      BY <1>2, <2>1
    <3>2. udpIn'[i - 1] = v
      BY <1>2, <2>1, <3>1
    <3> QED BY <3>1, <3>2 DEF InBuffer
  <2>2. InBuffer(v)' => InBuffer(v)
    BY <1>2, <1>3 DEF InBuffer
  <2>3. v = client_addr' => InBuffer(v)
    <3>1. 1 \in 1..Len(udpIn)
      BY <1>2
    <3> QED BY <1>2, <3>1 DEF InBuffer
  <2> QED BY <1>2, <2>1, <2>2, <2>3 DEF InBuffer
<1>5. ~InBuffer(client_addr)'
  <2> SUFFICES ASSUME NEW i \in 1..Len(udpIn'), udpIn'[i] = client_addr'
               PROVE  FALSE
    BY <1>2 DEF InBuffer
  <2>1. 1 \in 1..Len(udpIn) /\ udpIn[i + 1] = udpIn[1]
    BY <1>2
  <2> QED BY <1>3, <2>1 DEF Placed
<1>6. \A i, j \in 1..Len(udpIn') : udpIn'[i] = udpIn'[j] => i = j
  <2> SUFFICES ASSUME NEW i \in 1..Len(udpIn'), NEW j \in 1..Len(udpIn'),
                      udpIn'[i] = udpIn'[j]
               PROVE  i = j
    OBVIOUS
  <2>1. i + 1 = j + 1
    BY <1>2, <1>3 DEF Placed
  <2> QED BY <2>1
<1>7. client_addr = None
  BY <1>1 DEF Kinds
<1>8. \A v \in UdpClients : PlacedOne(v)'
  <2> TAKE v \in UdpClients
  <2>1. PlacedOne(v) /\ v # None
    BY UdpAssumption DEF Placed
  <2>2. InBuffer(v)' => InBuffer(v) /\ client_addr' # v
    BY <1>4, <1>5
  <2> QED BY <1>1, <1>4, <1>7, <2>1, <2>2 DEF PlacedOne
<1> QED BY <1>6, <1>8 DEF Placed

LEMMA PlacedStep ==
  ASSUME Kinds, Placed, [Next]_vars
  PROVE  Placed'
<1>1. CASE \E u \in UdpClients : UdpClientStep(u)
  BY <1>1, PlacedUdpClient
<1>2. CASE RecvUdp
  BY <1>2, PlacedReceive
<1>3. CASE SendUdp
  <2>1. /\ client_addr \in UdpClients /\ client_addr' = None /\ udpIn' = udpIn
        /\ mpc' = "select" /\ upc' = upc
    BY <1>3 DEF SendUdp, Placed, Kinds
  <2>2. \A v : InBuffer(v)' <=> InBuffer(v)
    BY <2>1 DEF InBuffer
  <2>3. \A v \in UdpClients : PlacedOne(v)'
    <3> TAKE v \in UdpClients
    <3>1. CASE v = client_addr
      <4>1. PlacedOne(v) /\ ~InBuffer(v) /\ v \notin lost /\ ~udpBack[v]
        BY <3>1 DEF Placed, PlacedOne
      <4>2. /\ upc[v] # "start"
            /\ \/ udpBack'[v] /\ v \notin lost' /\ upc[v] = "recv"
               \/ ~udpBack'[v] /\ v \in lost'
        BY <1>3, <3>1, <4>1 DEF SendUdp, Kinds, PlacedOne
      <4> QED BY <2>1, <2>2, <3>1, <4>1, <4>2, UdpAssumption DEF PlacedOne
    <3>2. CASE v # client_addr
      <4>1. udpBack'[v] = udpBack[v] /\ (v \in lost' <=> v \in lost)
        BY <1>3, <3>2 DEF SendUdp, Kinds
      <4>2. PlacedOne(v)
        BY DEF Placed
      <4> QED BY <2>1, <2>2, <3>2, <4>1, <4>2, UdpAssumption DEF PlacedOne
    <3> QED BY <3>1, <3>2
  <2> QED BY <2>1, <2>3 DEF Placed
<1>4. CASE Fails
  <2>1. /\ udpIn' = <<>> /\ mpc' = mpc /\ client_addr' = client_addr
        /\ upc' = upc /\ udpBack' = udpBack
        /\ \A v : v \in lost' <=> v \in lost \/ InBuffer(v)
    BY <1>4 DEF Fails, InBuffer
  <2>2. \A v : ~InBuffer(v)'
    BY <2>1 DEF InBuffer
  <2>3. \A v \in UdpClients : PlacedOne(v)'
    BY <2>1, <2>2 DEF Placed, PlacedOne
  <2> QED BY <2>1, <2>3 DEF Placed
<1>5. CASE \/ Boot \/ Select \/ Accept \/ ReadTcp \/ ReadTcpEnds \/ SendTcp
           \/ \E c \in Clients : TcpClientStep(c)
           \/ UNCHANGED vars
  <2>1. UNCHANGED udpVars
    BY <1>5 DEF Boot, Select, Accept, ReadTcp, ReadTcpEnds, SendTcp,
       TcpClientStep, vars
  <2>2. \A v \in UdpClients : PlacedOne(v)'
    BY <2>1 DEF Placed, PlacedOne, InBuffer, udpVars
  <2> QED BY <2>1, <2>2 DEF Placed, udpVars
<1> QED BY <1>1, <1>2, <1>3, <1>4, <1>5 DEF Next, ServerLoop

(* Wherever datagrams are lost, none is doubled, and a client that waits   *)
(* has its request or the reply to it somewhere, or has lost one of them.  *)
THEOREM OneReplyCorrect == Spec => []OneReplyEach
<1>1. Init => Placed
  BY UdpAssumption DEF Init, Placed, PlacedOne, InBuffer
<1>2. ASSUME Kinds, Placed PROVE OneReplyEach
  <2> SUFFICES ASSUME NEW u \in UdpClients
               PROVE  Places(u) <= 1 /\ (upc[u] = "recv" => Places(u) = 1)
    BY DEF OneReplyEach
  <2> DEFINE at == {i \in 1..Len(udpIn) : udpIn[i] = u}
  <2>1. Cardinality(at) = IF InBuffer(u) THEN 1 ELSE 0
    <3>1. CASE InBuffer(u)
      <4>1. PICK i \in 1..Len(udpIn) : udpIn[i] = u
        BY <3>1 DEF InBuffer
      <4>2. at = {i}
        BY <1>2, <4>1 DEF Placed
      <4> QED BY <3>1, <4>2, FS_Singleton
    <3>2. CASE ~InBuffer(u)
      <4>1. at = {}
        BY <3>2 DEF InBuffer
      <4> QED BY <3>2, <4>1, FS_EmptySet
    <3> QED BY <3>1, <3>2
  <2>2. PlacedOne(u)
    BY <1>2 DEF Placed
  <2>3. Places(u) = Cardinality(at)
                      + (IF client_addr = u THEN 1 ELSE 0)
                      + (IF udpBack[u] THEN 1 ELSE 0)
                      + (IF u \in lost THEN 1 ELSE 0)
    BY DEF Places
  <2> HIDE DEF at
  <2> QED BY <2>1, <2>2, <2>3 DEF PlacedOne
<1> QED BY <1>1, <1>2, KindsInit, KindsStep, PlacedStep, PTL DEF Spec

-----------------------------------------------------------------------------
LEMMA BackloggedClient ==
  ASSUME Kinds, Backlogged, NEW c \in Clients, ClientStep(c)
  PROVE  Backlogged'
<1> USE DEF Kinds, Backlogged, ClientStates
<1>1. CASE Connect(c)
  <2>1. /\ Len(backlog') = Len(backlog) + 1
        /\ \A i \in 1..Len(backlog) : backlog'[i] = backlog[i]
        /\ backlog'[Len(backlog) + 1] = c
    BY <1>1 DEF Connect
  <2>2. \A i \in 1..Len(backlog) : backlog[i] \in Clients /\ backlog[i] # c
    BY <1>1 DEF Connect
  <2>3. /\ cpc' = [cpc EXCEPT ![c] = "send"] /\ srv' = srv
        /\ srv[c] = "none"
    BY <1>1 DEF Connect
  <2>4. ASSUME NEW i \in 1..Len(backlog')
        PROVE  cpc'[backlog'[i]] # "start" /\ srv'[backlog'[i]] = "none"
    <3>1. CASE i \in 1..Len(backlog)
      <4>1. backlog'[i] = backlog[i]
        BY <2>1, <3>1
      <4>2. backlog[i] \in Clients /\ backlog[i] # c
        BY <2>2, <3>1
      <4>3. cpc[backlog[i]] # "start" /\ srv[backlog[i]] = "none"
        BY <3>1
      <4> HIDE DEF Kinds, Backlogged, ClientStates
      <4> QED BY <2>3, <4>1, <4>2, <4>3
    <3>2. CASE i = Len(backlog) + 1
      BY <2>1, <2>3, <3>2
    <3> QED BY <2>1, <3>1, <3>2
  <2>5. \A i, j \in 1..Len(backlog') : backlog'[i] = backlog'[j] => i = j
    <3> HIDE DEF Kinds, ClientStates
    <3>1. Len(backlog) \in Nat
      BY DEF Kinds
    <3>2. \A i \in 1..Len(backlog) : backlog'[i] # c
      BY <2>1, <2>2
    <3>3. \A i, j \in 1..Len(backlog) : backlog'[i] = backlog'[j] => i = j
      BY <2>1
    <3>4. \A i \in 1..Len(backlog') :
            i \in 1..Len(backlog) \/ i = Len(backlog) + 1
      BY <2>1, <3>1
    <3> HIDE DEF Backlogged
    <3> QED BY <2>1, <3>2, <3>3, <3>4
  <2> QED BY <2>3, <2>4, <2>5
<1>2. CASE CannotConnect(c)
  BY <1>2 DEF CannotConnect
<1>3. CASE SendMessage(c)
  BY <1>3 DEF SendMessage
<1>4. CASE ReadReply(c)
  BY <1>4 DEF ReadReply
<1>5. CASE ReadEof(c)
  BY <1>5 DEF ReadEof
<1>6. CASE CloseClient(c) \/ ClientKilled(c)
  BY <1>6 DEF CloseClient, ClientKilled, Disconnect
<1> QED BY <1>1, <1>2, <1>3, <1>4, <1>5, <1>6 DEF ClientStep, ClientProgress

(* accept() takes a connection nobody has had before.                      *)
LEMMA BackloggedAccept ==
  ASSUME Kinds, Backlogged,
         NEW c \in Clients, SrvAccept(c)
  PROVE  srv[c] = "none" /\ Backlogged'
<1> USE DEF Kinds
<1>1. /\ c = backlog[1] /\ Len(backlog) > 0
      /\ Len(backlog') = Len(backlog) - 1
      /\ \A i \in 1..Len(backlog') : backlog'[i] = backlog[i + 1]
  BY DEF SrvAccept
<1>2. /\ cpc[c] # "start" /\ srv[c] = "none"
      /\ \A i \in 1..Len(backlog') : backlog'[i] # c
  <2>1. Len(backlog) \in Nat
    OBVIOUS
  <2>2. 1 \in 1..Len(backlog)
    BY <1>1, <2>1
  <2>3. \A i \in 1..Len(backlog') : i + 1 \in 1..Len(backlog) /\ i + 1 # 1
    BY <1>1, <2>1
  <2> HIDE DEF Kinds
  <2> QED BY <1>1, <2>2, <2>3 DEF Backlogged
<1>3. srv' = [srv EXCEPT ![c] = "open"] /\ cpc' = cpc
  BY DEF SrvAccept
<1>4. \A i \in 1..Len(backlog') :
        i + 1 \in 1..Len(backlog) /\ backlog'[i] \in Clients
  <2>1. Len(backlog) \in Nat /\ \A i \in 1..Len(backlog) :
                                  backlog[i] \in Clients
    OBVIOUS
  <2>2. \A i \in 1..Len(backlog') : i + 1 \in 1..Len(backlog)
    BY <1>1, <2>1
  <2> HIDE DEF Kinds
  <2> QED BY <1>1, <2>1, <2>2
<1>5. \A d \in Clients : cpc'[d] = "start" => srv'[d] = "none"
  BY <1>2, <1>3 DEF Backlogged
<1>6. \A i \in 1..Len(backlog') : /\ cpc'[backlog'[i]] # "start"
                                  /\ srv'[backlog'[i]] = "none"
  <2> TAKE i \in 1..Len(backlog')
  <2> DEFINE e == backlog'[i]
  <2>1. e \in Clients /\ e # c
    BY <1>2, <1>4
  <2>2. cpc[e] # "start" /\ srv[e] = "none"
    <3> HIDE DEF Kinds
    <3>1. e = backlog[i + 1] /\ i + 1 \in 1..Len(backlog)
      BY <1>1, <1>4
    <3> QED BY <3>1 DEF Backlogged
  <2> QED BY <1>3, <2>1, <2>2
<1>7. \A i, j \in 1..Len(backlog') : backlog'[i] = backlog'[j] => i = j
  <2> SUFFICES ASSUME NEW i \in 1..Len(backlog'), NEW j \in 1..Len(backlog'),
                      backlog'[i] = backlog'[j]
               PROVE  i = j
    OBVIOUS
  <2>1. backlog[i + 1] = backlog[j + 1]
    BY <1>1
  <2>2. i + 1 = j + 1
    BY <1>4, <2>1 DEF Backlogged
  <2> QED BY <2>2
<1> QED BY <1>2, <1>5, <1>6, <1>7 DEF Backlogged

LEMMA BackloggedStep ==
  ASSUME Kinds, Backlogged, Ledger, [Next]_vars
  PROVE  Backlogged'
<1>1. ASSUME NEW c \in Clients, TcpClientStep(c) PROVE Backlogged'
  BY <1>1, BackloggedClient DEF TcpClientStep
<1>2. CASE Fails
  <2>1. /\ backlog' = <<>> /\ cpc' = cpc
        /\ \A c \in Clients : srv[c] = "none" /\ cpc[c] = "start"
             => srv'[c] = "none"
    BY <1>2 DEF Fails, Backlogged, SrvExit
  <2> QED BY <2>1 DEF Backlogged
<1>3. CASE Accept
  BY <1>3, BackloggedAccept DEF Accept
<1>4. CASE ReadTcpEnds
  <2>1. /\ new_tcp_socket \in Clients /\ srv[new_tcp_socket] # "none"
    BY <1>4 DEF ReadTcpEnds, Kinds, Ledger, LedgerOf
  <2>2. /\ srv' = [srv EXCEPT ![new_tcp_socket] = "closed"]
        /\ cpc' = cpc /\ backlog' = backlog
    BY <1>4 DEF ReadTcpEnds, SrvClose
  <2>3. \A i \in 1..Len(backlog) :
          backlog[i] \in Clients /\ backlog[i] # new_tcp_socket
    BY <2>1 DEF Kinds, Backlogged
  <2> QED BY <2>1, <2>2, <2>3 DEF Kinds, Backlogged
<1>5. CASE \/ Boot \/ Select \/ ReadTcp \/ SendTcp \/ RecvUdp \/ SendUdp
           \/ \E u \in UdpClients : UdpClientStep(u)
           \/ UNCHANGED vars
  <2>1. cpc' = cpc /\ srv' = srv /\ backlog' = backlog
    BY <1>5 DEF Boot, SrvListen, Select, ReadTcp, SrvRead, SendTcp, SrvSend,
       RecvUdp, SendUdp, UdpClientStep, vars, clientVars
  <2> QED BY <2>1 DEF Backlogged
<1> QED BY <1>1, <1>2, <1>3, <1>4, <1>5 DEF Next, ServerLoop

-----------------------------------------------------------------------------
(* The step of a TCP client.                                               *)
LEMMA LedgerTcpClient ==
  ASSUME Kinds, Backlogged, Ledger, NEW c \in Clients, TcpClientStep(c)
  PROVE  Ledger'
<1> USE UnitsAssumption DEF Unsent
<1>0. /\ UNCHANGED <<mpc, new_tcp_socket, bytes_read>>
      /\ cpc \in [Clients -> ClientStates] /\ LedgerOf(c)
      /\ got[c] \in 0..UNITS /\ toServer[c] \in 0..UNITS
      /\ toClient[c] \in 0..UNITS /\ bytes_read \in 0..UNITS
  BY DEF TcpClientStep, serverVars, Kinds, Ledger
<1>1. SUFFICES /\ got' \in [Clients -> 0..UNITS]
               /\ toServer' \in [Clients -> 0..UNITS]
               /\ toClient' \in [Clients -> 0..UNITS]
               /\ LedgerOf(c)'
               /\ srv' = srv
               /\ \A d \in Clients \ {c} :
                    /\ cpc'[d] = cpc[d] /\ got'[d] = got[d]
                    /\ toServer'[d] = toServer[d]
                    /\ toClient'[d] = toClient[d]
                    /\ d \in reset' <=> d \in reset
  <2>1. \A d \in Clients \ {c} : LedgerOf(d) => LedgerOf(d)'
    BY <1>0 DEF LedgerOf
  <2> QED BY <1>0, <2>1 DEF Ledger
<1>2. CASE Connect(c)
  <2>1. srv[c] = "none" /\ cpc' = [cpc EXCEPT ![c] = "send"]
    BY <1>2 DEF Connect, Backlogged
  <2>2. LedgerOf(c)'
    BY <1>0, <1>2, <2>1 DEF Connect, LedgerOf
  <2> QED BY <1>0, <1>2, <2>1, <2>2 DEF Connect, Ledger
<1>3. CASE CannotConnect(c)
  <2>1. srv[c] = "none" /\ cpc' = [cpc EXCEPT ![c] = "failed"]
    BY <1>3 DEF CannotConnect, Backlogged
  <2>2. LedgerOf(c)'
    BY <1>0, <1>3, <2>1 DEF CannotConnect, LedgerOf
  <2> QED BY <1>0, <1>3, <2>1, <2>2 DEF CannotConnect, Ledger
<1>4. CASE SendMessage(c)
  <2>1. toServer'[c] = UNITS /\ cpc'[c] = "read" /\ cpc[c] = "send"
    BY <1>0, <1>4 DEF SendMessage, Ledger
  <2>2. LedgerOf(c)'
    BY <1>0, <1>4, <2>1 DEF SendMessage, LedgerOf
  <2> QED BY <1>0, <1>4, <2>2 DEF SendMessage, Ledger
<1>5. CASE ReadReply(c)
  <2>1. PICK k \in 1..toClient[c] :
          /\ got' = [got EXCEPT ![c] = k]
          /\ toClient' = [toClient EXCEPT ![c] = @ - k]
    BY <1>5 DEF ReadReply
  <2>2. /\ got'[c] = k /\ toClient'[c] = toClient[c] - k
        /\ k \in 0..UNITS /\ toClient[c] - k \in 0..UNITS
        /\ cpc'[c] = "close" /\ cpc[c] = "read"
    BY <1>0, <1>5, <2>1 DEF ReadReply, Ledger
  <2>3. LedgerOf(c)'
    BY <1>0, <1>5, <2>2 DEF ReadReply, LedgerOf
  <2> QED BY <1>0, <1>5, <2>1, <2>2, <2>3 DEF ReadReply, Ledger
<1>6. CASE ReadEof(c)
  <2>1. LedgerOf(c)'
    BY <1>0, <1>6 DEF ReadEof, LedgerOf
  <2> QED BY <1>0, <1>6, <2>1 DEF ReadEof, Ledger
<1>7. CASE CloseClient(c) \/ ClientKilled(c)
  <2>1. /\ cpc'[c] = "done" /\ toClient'[c] = 0
        /\ c \in reset' <=> c \in reset \/ toClient[c] > 0
        /\ cpc[c] \in {"send", "read", "close"}
    BY <1>0, <1>7 DEF CloseClient, ClientKilled, Disconnect, Ledger
  <2>2. LedgerOf(c)'
    BY <1>0, <1>7, <2>1 DEF CloseClient, ClientKilled, Disconnect, LedgerOf
  <2> QED BY <1>0, <1>7, <2>2
          DEF CloseClient, ClientKilled, Disconnect, Ledger
<1> QED BY <1>2, <1>3, <1>4, <1>5, <1>6, <1>7
        DEF TcpClientStep, ClientStep, ClientProgress

(* The steps of main() that handle a TCP connection.                       *)
LEMMA LedgerAccept ==
  ASSUME Kinds, Backlogged, Ledger, Accept
  PROVE  Ledger'
<1>1. PICK c \in Clients : SrvAccept(c) /\ new_tcp_socket' = c
  BY DEF Accept
<1>2. srv[c] = "none" /\ c # None
  BY <1>1, BackloggedAccept, UdpAssumption
<1>3. /\ mpc = "accept" /\ mpc' = "readTcp" /\ bytes_read' = bytes_read
      /\ bytes_read = 0 /\ new_tcp_socket = None
  BY DEF Accept, Ledger
<1>4. /\ srv' = [srv EXCEPT ![c] = "open"] /\ cpc' = cpc /\ got' = got
      /\ toServer' = toServer /\ toClient' = toClient /\ reset' = reset
  BY <1>1 DEF SrvAccept
<1>5. \A d \in Clients : LedgerOf(d)'
  <2> TAKE d \in Clients
  <2>1. /\ LedgerOf(d) /\ d # None
        /\ toServer[d] \in 0..UNITS
        /\ toClient[d] \in 0..UNITS /\ got[d] \in 0..UNITS
    BY UdpAssumption DEF Ledger
  <2>2. srv'[d] = IF d = c THEN "open" ELSE srv[d]
    BY <1>4 DEF Kinds
  <2> QED BY <1>1, <1>2, <1>3, <1>4, <2>1, <2>2 DEF LedgerOf
<1> QED BY <1>1, <1>2, <1>3, <1>4, <1>5 DEF Ledger

LEMMA LedgerRead ==
  ASSUME Kinds, Ledger, ReadTcp
  PROVE  Ledger'
<1> DEFINE c == new_tcp_socket
<1>1. PICK k \in 1..UNITS : SrvRead(c, k) /\ bytes_read' = k
  BY DEF ReadTcp
<1>2. /\ mpc = "readTcp" /\ mpc' = "sendTcp" /\ new_tcp_socket' = c
      /\ c # None /\ c \in Clients /\ bytes_read = 0
  BY DEF ReadTcp, Ledger, Kinds
<1>3. /\ k \in 1..toServer[c] /\ toServer' = [toServer EXCEPT ![c] = @ - k]
      /\ cpc' = cpc /\ got' = got /\ srv' = srv /\ toClient' = toClient
      /\ reset' = reset
  BY <1>1 DEF SrvRead
<1>4. toServer[c] \in 0..UNITS /\ toServer[c] - k \in 0..UNITS /\ k \in Nat
  BY UnitsAssumption, <1>2, <1>3 DEF Ledger
<1>5. toServer' \in [Clients -> 0..UNITS]
  BY <1>3, <1>4 DEF Ledger
<1>6. \A d \in Clients : LedgerOf(d)'
  <2> TAKE d \in Clients
  <2>1. LedgerOf(d) /\ toServer[d] \in 0..UNITS
    BY DEF Ledger
  <2>2. toServer'[d] = IF d = c THEN toServer[c] - k ELSE toServer[d]
    BY <1>3 DEF Ledger
  <2>3. CASE d = c
    <3>1. cpc[c] \notin Unsent
      BY <1>3, <1>4, <2>1, <2>3 DEF LedgerOf
    <3>2. toServer'[c] + bytes_read' = toServer[c] + bytes_read
      <4>1. toServer'[c] = toServer[c] - k /\ bytes_read' = k
        BY <1>1, <2>2, <2>3
      <4>2. bytes_read = 0 /\ toServer[c] \in Nat /\ k \in Nat
        BY <1>2, <1>4
      <4> QED BY <4>1, <4>2
    <3> QED BY <1>2, <1>3, <2>1, <2>3, <3>1, <3>2 DEF LedgerOf
  <2>4. CASE d # c
    BY <1>2, <1>3, <2>1, <2>2, <2>4 DEF LedgerOf
  <2> QED BY <2>3, <2>4
<1> HIDE DEF c
<1>7. bytes_read' \in 0..UNITS /\ bytes_read' > 0
  BY <1>1, UnitsAssumption
<1> QED BY <1>2, <1>3, <1>5, <1>6, <1>7 DEF Ledger, c

LEMMA LedgerReadEnds ==
  ASSUME Kinds, Ledger, ReadTcpEnds
  PROVE  Ledger'
<1> DEFINE c == new_tcp_socket
<1>1. /\ mpc = "readTcp" /\ mpc' \notin {"readTcp", "sendTcp"}
      /\ new_tcp_socket' = None /\ bytes_read' = bytes_read
      /\ c # None /\ c \in Clients /\ bytes_read = 0 /\ cpc[c] = "done"
  BY DEF ReadTcpEnds, ReadEnds, AfterTcp, Ledger, Kinds
<1>2. /\ srv' = [srv EXCEPT ![c] = "closed"] /\ cpc' = cpc /\ got' = got
      /\ toServer' = toServer /\ toClient' = toClient /\ reset' = reset
  BY DEF ReadTcpEnds, SrvClose
<1>3. \A d \in Clients : LedgerOf(d)'
  <2> TAKE d \in Clients
  <2>1. LedgerOf(d) /\ d # None
    BY UdpAssumption DEF Ledger
  <2>2. srv'[d] = IF d = c THEN "closed" ELSE srv[d]
    BY <1>2 DEF Kinds
  <2> QED BY <1>1, <1>2, <2>1, <2>2 DEF LedgerOf, Unsent
<1> QED BY <1>1, <1>2, <1>3 DEF Ledger

LEMMA LedgerSend ==
  ASSUME Kinds, Ledger, SendTcp
  PROVE  Ledger'
<1> DEFINE c == new_tcp_socket
<1>1. /\ mpc = "sendTcp" /\ mpc' \notin {"readTcp", "sendTcp"}
      /\ new_tcp_socket' = None /\ bytes_read' = 0
      /\ c # None /\ c \in Clients /\ bytes_read > 0 /\ bytes_read \in 0..UNITS
  BY DEF SendTcp, AfterTcp, Ledger, Kinds
<1>2. /\ toClient' = [toClient EXCEPT ![c] =
                        IF cpc[c] = "done" THEN 0 ELSE @ + bytes_read]
      /\ reset' = IF cpc[c] = "done" THEN reset \cup {c} ELSE reset
      /\ srv' = srv /\ cpc' = cpc /\ got' = got /\ toServer' = toServer
  BY DEF SendTcp, SrvSend
<1>3. /\ LedgerOf(c) /\ toClient[c] = 0 /\ got[c] = 0 /\ srv[c] = "open"
      /\ toServer[c] \in 0..UNITS
  BY <1>1 DEF Ledger, LedgerOf
<1>4. toClient'[c] = IF cpc[c] = "done" THEN 0 ELSE bytes_read
  BY <1>1, <1>2, <1>3 DEF Ledger
<1>5. toClient' \in [Clients -> 0..UNITS]
  <2>1. (IF cpc[c] = "done" THEN 0 ELSE toClient[c] + bytes_read) \in 0..UNITS
    BY <1>1, <1>3, UnitsAssumption
  <2> QED BY <1>2, <2>1 DEF Ledger
<1>6. \A d \in Clients : LedgerOf(d)'
  <2> TAKE d \in Clients
  <2>1. LedgerOf(d) /\ d # None
    BY UdpAssumption DEF Ledger
  <2>2. CASE d = c
    <3>1. cpc[c] \notin Unsent
      BY <1>1, <1>3 DEF LedgerOf
    <3>2. cpc[c] \in {"read", "close"} =>
            toServer[c] + toClient'[c] + got[c] = UNITS
      BY <1>1, <1>3, <1>4 DEF LedgerOf
    <3> QED BY <1>1, <1>2, <1>3, <1>4, <2>1, <2>2, <3>1, <3>2
            DEF LedgerOf, Unsent
  <2>3. CASE d # c
    <3>1. toClient'[d] = toClient[d] /\ (d \in reset' <=> d \in reset)
      BY <1>2, <2>3 DEF Ledger
    <3> QED BY <1>1, <1>2, <2>1, <2>3, <3>1 DEF LedgerOf
  <2> QED BY <2>2, <2>3
<1> HIDE DEF c
<1>7. bytes_read' \in 0..UNITS /\ ~(bytes_read' > 0)
  BY <1>1, UnitsAssumption
<1> QED BY <1>1, <1>2, <1>5, <1>6, <1>7 DEF Ledger

LEMMA LedgerStep ==
  ASSUME Kinds, Backlogged, Ledger, [Next]_vars
  PROVE  Ledger'
<1>1. CASE \E c \in Clients : TcpClientStep(c)
  BY <1>1, LedgerTcpClient
<1>2. CASE Accept \/ ReadTcp \/ ReadTcpEnds \/ SendTcp
  BY <1>2, LedgerAccept, LedgerRead, LedgerReadEnds, LedgerSend
<1>3. CASE Fails
  <2>1. /\ mpc' = mpc /\ bytes_read' = bytes_read
        /\ new_tcp_socket' = new_tcp_socket
        /\ cpc' = cpc /\ got' = got /\ toServer' = toServer
        /\ toClient' = toClient /\ reset' = reset
        /\ mpc \in {"boot", "accept"}
    BY <1>3 DEF Fails, SrvExit
  <2>2. new_tcp_socket = None
    BY <2>1 DEF Ledger
  <2>3. \A d \in Clients : srv'[d] = "gone" \/ srv'[d] = srv[d]
    BY <1>3 DEF Fails, SrvExit
  <2>4. \A d \in Clients : LedgerOf(d)'
    <3> TAKE d \in Clients
    <3>1. LedgerOf(d) /\ d # None
      BY UdpAssumption DEF Ledger
    <3> QED BY <2>1, <2>2, <2>3, <3>1 DEF LedgerOf
  <2> QED BY <2>1, <2>4 DEF Ledger
<1>4. CASE \/ Boot \/ Select \/ RecvUdp \/ SendUdp
           \/ \E u \in UdpClients : UdpClientStep(u)
           \/ UNCHANGED vars
  <2>1. /\ UNCHANGED <<cpc, got, toServer, toClient, srv, reset, bytes_read,
                       new_tcp_socket>>
        /\ \A label \in {"readTcp", "sendTcp"} : mpc = label <=> mpc' = label
    BY <1>4 DEF Boot, SrvListen, Select, AfterSelect, RecvUdp, SendUdp,
       UdpClientStep, serverVars, clientVars, vars
  <2>2. \A d \in Clients : LedgerOf(d)'
    BY <2>1 DEF Ledger, LedgerOf
  <2> QED BY <2>1, <2>2 DEF Ledger
<1> QED BY <1>1, <1>2, <1>3, <1>4 DEF Next, ServerLoop

LEMMA LedgerCorrect == Spec => [](Kinds /\ Ledger)
<1>1. Init => Backlogged /\ Ledger
  <2> SUFFICES ASSUME Init PROVE Backlogged /\ Ledger
    OBVIOUS
  <2>1. \A c \in Clients : LedgerOf(c)
    BY UdpAssumption DEF Init, ClientInit, LedgerOf, Unsent
  <2> QED BY <2>1, UnitsAssumption DEF Init, ClientInit, Backlogged, Ledger
<1> QED BY <1>1, KindsInit, KindsStep, BackloggedStep, LedgerStep, PTL
        DEF Spec

(* The one read() and the one send() leave no client without an echo that  *)
(* asked for one in time, and never write to a connection already reset.   *)
THEOREM LeftAfterEchoCorrect == Spec => []LeftOnlyAfterEcho
<1>1. ASSUME Kinds, Ledger PROVE LeftOnlyAfterEcho
  <2>1. mpc = "sendTcp" => new_tcp_socket \notin reset
    BY <1>1 DEF Kinds, Ledger, LedgerOf
  <2>2. ASSUME NEW c \in Clients
        PROVE  /\ srv[c] = "open" /\ c # new_tcp_socket /\ cpc[c] = "read"
                    => toClient[c] > 0
               /\ srv[c] = "closed" => got[c] = 0 /\ toClient[c] = 0
               /\ cpc[c] \in {"read", "close"} =>
                    toServer[c] + toClient[c] + got[c]
                      + (IF c = new_tcp_socket THEN bytes_read ELSE 0) = UNITS
    <3>1. /\ LedgerOf(c) /\ toServer[c] \in 0..UNITS
          /\ toClient[c] \in 0..UNITS /\ got[c] \in 0..UNITS
          /\ bytes_read \in 0..UNITS
      BY <1>1 DEF Ledger
    <3> QED BY <3>1, UnitsAssumption DEF LedgerOf
  <2> QED BY <2>1, <2>2 DEF LeftOnlyAfterEcho
<1> QED BY <1>1, LedgerCorrect, PTL

(* What no count of pieces rests on: the resets are of clients' connections*)
(* and select() reports nothing but its two sockets.                       *)
Reported ==
  /\ reset \in SUBSET Clients
  /\ readfds \in SUBSET {"tcp", "udp"}
  /\ alive \in BOOLEAN

LEMMA ReportedStep ==
  ASSUME Kinds, Ledger, Reported, [Next]_vars
  PROVE  Reported'
<1> USE DEF Reported
<1>1. CASE UNCHANGED vars
  BY <1>1 DEF vars, clientVars, serverVars
<1>2. ASSUME NEW c \in Clients, TcpClientStep(c) PROVE Reported'
  BY <1>2 DEF TcpClientStep, serverVars, ClientStep, ClientProgress, Connect,
     CannotConnect, SendMessage, ReadReply, ReadEof, CloseClient,
     ClientKilled, Disconnect
<1>3. CASE \E u \in UdpClients : UdpClientStep(u)
  BY <1>3 DEF UdpClientStep, clientVars, serverVars
<1>4. CASE Select
  BY <1>4 DEF Select, Ready, clientVars
<1>5. CASE SendTcp
  <2>1. new_tcp_socket \in Clients
    BY <1>5 DEF SendTcp, Kinds, Ledger
  <2>2. reset' \in {reset, reset \cup {new_tcp_socket}}
    BY <1>5 DEF SendTcp, SrvSend
  <2> QED BY <1>5, <2>1, <2>2 DEF SendTcp
<1>6. CASE \/ Boot \/ Fails \/ Accept \/ ReadTcp \/ ReadTcpEnds \/ RecvUdp
           \/ SendUdp
  BY <1>6 DEF Boot, Fails, Accept, ReadTcp, ReadTcpEnds, RecvUdp, SendUdp,
     SrvListen, SrvExit, SrvAccept, SrvRead, SrvClose, clientVars
<1> QED BY <1>1, <1>2, <1>3, <1>4, <1>5, <1>6 DEF Next, ServerLoop

(* Type correctness of the whole state, the counts of pieces included.     *)
THEOREM MultiProtoTypeCorrect == Spec => []TypeOK
<1>1. Init => Reported
  BY DEF Init, ClientInit, Reported
<1>2. Kinds /\ Ledger /\ Reported => TypeOK
  BY DEF Kinds, Ledger, Reported, TypeOK, ClientTypeOK
<1> QED BY <1>1, <1>2, ReportedStep, LedgerCorrect, PTL DEF Spec

-----------------------------------------------------------------------------
(* To its TCP clients MultiProtoServer is EchoService: what handle_tcp_-   *)
(* client has read of its connection is all that is in anybody's hands.    *)

LEMMA HandsStay ==
  ASSUME UNCHANGED <<clientVars, new_tcp_socket, bytes_read, alive>>
  PROVE  UNCHANGED Service!serviceVars
<1>1. PiecesHeld' = PiecesHeld
  BY DEF PiecesHeld
<1> QED BY <1>1 DEF clientVars, Service!serviceVars, Service!clientVars

LEMMA ServiceInit == Init => Service!Init
<1> SUFFICES ASSUME Init PROVE Service!Init
  OBVIOUS
<1>1. PiecesHeld = [c \in Clients |-> 0]
  BY DEF Init, PiecesHeld
<1> QED BY <1>1 DEF Init, ClientInit, Service!Init, Service!ClientInit

LEMMA ServiceClient ==
  ASSUME NEW c \in Clients, TcpClientStep(c)
  PROVE  Service!Next
<1>1. PiecesHeld' = PiecesHeld /\ alive' = alive
  BY DEF TcpClientStep, serverVars, PiecesHeld
<1>2. Service!ClientStep(c)
  BY DEF TcpClientStep, ClientStep, ClientProgress, Connect, CannotConnect,
         ReadEof, SendMessage, ReadReply, CloseClient, ClientKilled,
         Disconnect, Service!ClientStep, Service!ClientProgress,
         Service!Connect, Service!CannotConnect, Service!ReadEof,
         Service!SendMessage, Service!ReadReply, Service!CloseClient,
         Service!ClientKilled, Service!Disconnect
<1> QED BY <1>1, <1>2 DEF Service!Next

LEMMA ServiceStarts ==
  ASSUME Kinds, Ledger, alive, Boot \/ Fails \/ Accept
  PROVE  Service!Next
<1>1. CASE Boot
  <2>1. PiecesHeld' = PiecesHeld /\ Service!Listen
    BY <1>1 DEF Boot, SrvListen, PiecesHeld, Service!Listen,
                Service!SrvListen
  <2> QED BY <2>1 DEF Service!Next, Service!Serve
<1>2. CASE Fails
  <2>1. new_tcp_socket = None
    BY <1>2 DEF Fails, Ledger
  <2>2. \A c \in Clients : PiecesHeld[c] = 0
    BY <2>1, UdpAssumption DEF PiecesHeld
  <2>3. PiecesHeld' = PiecesHeld
    BY <1>2 DEF Fails, PiecesHeld
  <2>4. Service!Exit
    BY <1>2, <2>2, <2>3 DEF Fails, SrvExit, Service!Exit, Service!SrvExit
  <2> QED BY <2>4 DEF Service!Next, Service!Serve
<1>3. CASE Accept
  <2>1. PICK c \in Clients : SrvAccept(c) /\ new_tcp_socket' = c
    BY <1>3 DEF Accept
  <2>2. new_tcp_socket = None /\ bytes_read' = bytes_read
    BY <1>3 DEF Accept, Ledger
  <2>3. bytes_read = 0
    BY <1>3, UnitsAssumption DEF Accept, Ledger
  <2>4. PiecesHeld' = PiecesHeld
    BY <2>2, <2>3 DEF PiecesHeld
  <2>5. Service!Accept(c)
    BY <1>3, <2>1, <2>4
       DEF Accept, SrvAccept, Service!Accept, Service!SrvAccept
  <2> QED BY <2>5 DEF Service!Next, Service!Serve
<1> QED BY <1>1, <1>2, <1>3

LEMMA ServiceEchoes ==
  ASSUME Kinds, Ledger, alive, ReadTcp \/ ReadTcpEnds \/ SendTcp
  PROVE  Service!Next
<1> DEFINE c == new_tcp_socket
<1>1. c \in Clients /\ srv[c] = "open" /\ c # None
  BY DEF ReadTcp, ReadTcpEnds, SendTcp, Kinds, Ledger, LedgerOf
<1>2. PiecesHeld[c] = bytes_read
  BY <1>1 DEF PiecesHeld
<1>3. CASE ReadTcp
  <2>1. PICK k \in 1..UNITS : SrvRead(c, k) /\ bytes_read' = k
    BY <1>3 DEF ReadTcp
  <2>2. PiecesHeld[c] = 0
    BY <1>2, <1>3, UnitsAssumption DEF ReadTcp, Ledger
  <2>3. PiecesHeld' = [PiecesHeld EXCEPT ![c] = k]
    BY <1>1, <1>3, <2>1 DEF ReadTcp, PiecesHeld
  <2> HIDE DEF c
  <2>4. Service!Read(c)
    BY <1>1, <1>3, <2>1, <2>2, <2>3
       DEF ReadTcp, SrvRead, Service!Read, Service!SrvRead
  <2> QED BY <1>1, <2>4 DEF Service!Next, Service!Serve
<1>4. CASE ReadTcpEnds
  <2>1. PiecesHeld[c] = 0 /\ bytes_read' = bytes_read
    BY <1>2, <1>4, UnitsAssumption DEF ReadTcpEnds, Ledger
  <2>2. PiecesHeld' = PiecesHeld
    BY <1>2, <1>4, <2>1, UdpAssumption DEF ReadTcpEnds, PiecesHeld
  <2>3. ReadEnds(c) /\ SrvClose(c) /\ alive' = alive
    BY <1>4 DEF ReadTcpEnds
  <2> HIDE DEF c
  <2>4. Service!Close(c)
    BY <1>1, <2>1, <2>2, <2>3
       DEF ReadEnds, SrvClose, Service!Close, Service!ReadEnds,
           Service!SrvClose
  <2> QED BY <1>1, <2>4 DEF Service!Next, Service!Serve
<1>5. CASE SendTcp
  <2>1. PiecesHeld[c] > 0
    BY <1>2, <1>5 DEF SendTcp, Ledger
  <2>2. /\ SrvSend(c, bytes_read) /\ new_tcp_socket' = None
        /\ bytes_read' = 0 /\ alive' = alive
    BY <1>5 DEF SendTcp
  <2>3. PiecesHeld' = [PiecesHeld EXCEPT ![c] = 0]
    BY <2>2 DEF PiecesHeld
  <2> HIDE DEF c
  <2>4. Service!Echo(c)
    BY <1>1, <1>2, <2>1, <2>2, <2>3 DEF SrvSend, Service!Echo, Service!SrvSend
  <2> QED BY <1>1, <2>4 DEF Service!Next, Service!Serve
<1> QED BY <1>3, <1>4, <1>5

LEMMA ServiceStep ==
  ASSUME Kinds, Ledger, [Next]_vars
  PROVE  [Service!Next]_(Service!serviceVars)
<1>1. CASE \/ Select \/ RecvUdp \/ SendUdp \/ UNCHANGED vars
           \/ \E u \in UdpClients : UdpClientStep(u)
  BY <1>1, HandsStay
     DEF Select, RecvUdp, SendUdp, UdpClientStep, vars, serverVars
<1> QED BY <1>1, ServiceClient, ServiceStarts, ServiceEchoes
        DEF Next, ServerLoop

(* Its UDP clients, the ones it never comes back to and the connections    *)
(* nobody closes notwithstanding: to a TCP client the server is one that   *)
(* echoes each connection by itself.                                       *)
THEOREM MultiProtoServiceCorrect == Spec => ServiceSpec
<1>1. Spec => Service!Init /\ [][Service!Next]_(Service!serviceVars)
  BY ServiceInit, ServiceStep, LedgerCorrect, PTL DEF Spec
<1> QED BY <1>1 DEF ServiceSpec, Service!Spec

-----------------------------------------------------------------------------
(* The single-shot pairs.                                                  *)
PairStates == Pairs!Ended \cup
  {"start", "bind", "accept", "send", "read", "write", "close", "unlink"}

PairKinds ==
  /\ kind \in Pairs!Kinds
  /\ path \in Servers \cup {None}
  /\ pc \in [Pairs!Procs -> PairStates]
  /\ timewait => kind = <<"inet", "stream">>

InRun(p) == pc[p] \notin Pairs!Ended \cup {"start"}

Bound == {"accept", "read", "write", "close"}

(* A server that has met no other one: the name is free when it is about   *)
(* to bind() and its own from then on.                                     *)
HasName(s) ==
  /\ \A q \in Servers : InRun(s) /\ InRun(q) => q = s
  /\ pc[s] = "bind" => path = None
  /\ pc[s] \in Bound => path = s
  /\ pc[s] = "failed" => kind = <<"inet", "stream">>

Named ==
  /\ \A s \in Servers : pc[s] \in {"bind", "unlink"} => Pairs!Local
  /\ \A s \in Servers \ overlapped : HasName(s)
  /\ ~Pairs!Local /\ path # None => pc[path] \in Bound

Reach == PairKinds /\ Named

USE DEF Pairs!Procs, Pairs!Goes, Pairs!names, Pairs!data

LEMMA ReachInit == Pairs!Init => Reach
BY PairAssumption DEF Pairs!Init, Reach, PairKinds, Named, HasName, InRun,
  PairStates, Pairs!Ended, Bound

(* The clients and the servers' names are none of each other's business.   *)
ClientMoves ==
  \E c \in Clients, to \in PairStates :
    /\ pc' = [pc EXCEPT ![c] = to]
    /\ overlapped' \cap Servers = overlapped \cap Servers
    /\ UNCHANGED <<kind, path, timewait>>

LEMMA ClientsMove ==
  ASSUME PairKinds, NEW c \in Clients,
         \/ Pairs!Connect(c) \/ Pairs!ClientUnlink(c) \/ Pairs!ClientSend(c)
         \/ Pairs!ClientStep(c) \/ Pairs!ClientDies(c)
  PROVE  ClientMoves
<1> DEFINE Moves == /\ \E to \in PairStates : pc' = [pc EXCEPT ![c] = to]
                    /\ UNCHANGED <<kind, path, timewait>>
<1>1. ASSUME Pairs!Begins(c, Clients)
      PROVE  overlapped' \cap Servers = overlapped \cap Servers
  BY <1>1, PairAssumption DEF Pairs!Begins
<1>2. CASE Pairs!Connect(c)
  BY <1>1, <1>2 DEF Pairs!Connect, ClientMoves, PairStates, Pairs!Ended
<1>3. CASE Pairs!ClientUnlink(c)
  BY <1>1, <1>3 DEF Pairs!ClientUnlink, ClientMoves, PairStates, Pairs!Ended
<1>4. CASE Pairs!ClientSend(c)
  BY <1>1, <1>4 DEF Pairs!ClientSend, ClientMoves, PairStates, Pairs!Ended
<1>5. CASE Pairs!ClientBind(c)
  BY <1>5 DEF Pairs!ClientBind, ClientMoves, PairStates, Pairs!Ended
<1>6. CASE Pairs!ClientWrite(c)
  BY <1>6 DEF Pairs!ClientWrite, ClientMoves, PairStates, Pairs!Ended
<1>7. CASE Pairs!ClientRead(c)
  BY <1>7 DEF Pairs!ClientRead, ClientMoves, PairStates, Pairs!Ended
<1>8. CASE Pairs!ClientClose(c)
  BY <1>8 DEF Pairs!ClientClose, ClientMoves, PairStates, Pairs!Ended
<1>9. CASE Pairs!ClientUnlinkEnd(c)
  BY <1>9 DEF Pairs!ClientUnlinkEnd, ClientMoves, PairStates, Pairs!Ended
<1>10. CASE Pairs!ClientDies(c)
  BY <1>10 DEF Pairs!ClientDies, ClientMoves, PairStates, Pairs!Ended
<1> QED
  BY <1>2, <1>3, <1>4, <1>5, <1>6, <1>7, <1>8, <1>9, <1>10
  DEF Pairs!ClientStep

LEMMA ClientsLeaveNames ==
  ASSUME Reach, ClientMoves
  PROVE  Reach'
<1>1. PICK c \in Clients, to \in PairStates :
        /\ pc' = [pc EXCEPT ![c] = to]
        /\ overlapped' \cap Servers = overlapped \cap Servers
        /\ UNCHANGED <<kind, path, timewait>>
  BY DEF ClientMoves
<1>2. PairKinds'
  BY <1>1 DEF Reach, PairKinds
<1>3. \A s \in Servers : pc'[s] = pc[s]
                        /\ (s \in overlapped' <=> s \in overlapped)
  BY <1>1, PairAssumption DEF Reach, PairKinds
<1>4. Named'
  BY <1>1, <1>3 DEF Reach, PairKinds, Named, HasName, InRun, Pairs!Local
<1> QED BY <1>2, <1>4 DEF Reach

(* Servers between bind() and the end: one goes on, in its place.          *)
GoesOn(s) ==
  /\ pc[s] \in Bound
  /\ \E to \in Bound \cup {"killed"} : pc' = [pc EXCEPT ![s] = to]
  /\ pc'[s] = "killed" => Pairs!Local
  /\ UNCHANGED <<kind, path, timewait, overlapped>>

LEMMA ServersGoOn ==
  ASSUME Reach, NEW s \in Servers,
         \/ Pairs!Accept(s) \/ Pairs!ReadRequest(s)
         \/ Pairs!ReceiveRequest(s) \/ Pairs!Reply(s)
  PROVE  GoesOn(s)
<1>1. CASE Pairs!Accept(s)
  BY <1>1 DEF Reach, PairKinds, GoesOn, Pairs!Accept, Bound
<1>2. CASE Pairs!ReadRequest(s)
  BY <1>2 DEF Reach, PairKinds, GoesOn, Pairs!ReadRequest, Bound
<1>3. CASE Pairs!ReceiveRequest(s)
  BY <1>3 DEF Reach, PairKinds, GoesOn, Pairs!ReceiveRequest, Bound
<1>4. CASE Pairs!Reply(s)
  BY <1>4 DEF Reach, PairKinds, GoesOn, Pairs!Reply, Bound
<1> QED BY <1>1, <1>2, <1>3, <1>4

LEMMA GoingOnKeepsNames ==
  ASSUME Reach, NEW s \in Servers, GoesOn(s)
  PROVE  Reach'
<1>1. PairKinds'
  BY DEF Reach, PairKinds, GoesOn, Bound, PairStates, Pairs!Ended
<1>2. Named'
  BY DEF Reach, PairKinds, GoesOn, Named, HasName, InRun, Bound,
    Pairs!Local, Pairs!Ended
<1> QED BY <1>1, <1>2 DEF Reach

LEMMA UnlinkReach ==
  ASSUME Reach, NEW s \in Servers, Pairs!ServerUnlink(s)
  PROVE  Reach'
<1>1. PairKinds'
  BY DEF Reach, PairKinds, Pairs!ServerUnlink, PairStates
<1>2. Named'
  BY DEF Reach, PairKinds, Pairs!ServerUnlink, Pairs!Begins, Named, HasName,
    InRun, Bound, Pairs!Local, Pairs!Ended
<1> QED BY <1>1, <1>2 DEF Reach

LEMMA BindReach ==
  ASSUME Reach, NEW s \in Servers, Pairs!ServerBind(s)
  PROVE  Reach'
<1>1. PairKinds'
  BY DEF Reach, PairKinds, Pairs!ServerBind, PairStates, Pairs!Ended
<1>2. ASSUME Pairs!Local PROVE Named'
  <2>1. /\ pc[s] = "bind" /\ ~timewait
        /\ UNCHANGED <<overlapped, kind, timewait>>
    BY <1>2 DEF Reach, PairKinds, Pairs!ServerBind, Pairs!Local
  <2>2. \/ path' = s /\ \E to \in {"accept", "read"} :
             pc' = [pc EXCEPT ![s] = to]
        \/ /\ path # None /\ UNCHANGED path
           /\ pc' = [pc EXCEPT ![s] = "failed"]
    BY <2>1 DEF Pairs!ServerBind
  <2>3. /\ s \in overlapped \/ path = None
        /\ \A q \in Servers \ (overlapped \cup {s}) : ~InRun(q)
    BY <2>1 DEF Reach, Named, HasName, InRun, Pairs!Ended
  <2>4. \A q \in Servers \ {s} : pc'[q] = pc[q]
    BY <2>2 DEF Reach, PairKinds
  <2>5. ASSUME NEW q \in Servers \ overlapped PROVE HasName(q)'
    <3>1. CASE q = s
      BY <2>1, <2>2, <2>3, <2>4, <2>5, <3>1, PairAssumption
      DEF Reach, PairKinds, Named, HasName, InRun, Bound, Pairs!Ended
    <3>2. CASE q # s
      BY <2>1, <2>3, <2>4, <2>5, <3>2
      DEF Reach, Named, HasName, InRun, Bound, Pairs!Ended
    <3> QED BY <3>1, <3>2
  <2> QED
    BY <1>2, <2>1, <2>4, <2>5 DEF Reach, Named, Pairs!Local
<1>3. ASSUME ~Pairs!Local PROVE Named'
  BY <1>1, <1>3, PairAssumption
  DEF Reach, PairKinds, Pairs!ServerBind, Pairs!Begins, Named, HasName,
    InRun, Bound, Pairs!Local, Pairs!Ended
<1> QED BY <1>1, <1>2, <1>3 DEF Reach

LEMMA CloseReach ==
  ASSUME Reach, NEW s \in Servers, Pairs!ServerClose(s)
  PROVE  Reach'
<1>1. PairKinds'
  BY DEF Reach, PairKinds, Pairs!ServerClose, Pairs!PortFreed, PairStates,
    Pairs!Ended
<1>2. Named'
  BY DEF Reach, PairKinds, Pairs!ServerClose, Pairs!PortFreed, Named,
    HasName, InRun, Bound, Pairs!Local, Pairs!Ended
<1> QED BY <1>1, <1>2 DEF Reach

LEMMA UnlinkEndReach ==
  ASSUME Reach, NEW s \in Servers, Pairs!ServerUnlinkEnd(s)
  PROVE  Reach'
<1>1. PairKinds'
  BY DEF Reach, PairKinds, Pairs!ServerUnlinkEnd, PairStates, Pairs!Ended
<1>2. Named'
  BY DEF Reach, PairKinds, Pairs!ServerUnlinkEnd, Named,
    HasName, InRun, Bound, Pairs!Local, Pairs!Ended
<1> QED BY <1>1, <1>2 DEF Reach

LEMMA DiesReach ==
  ASSUME Reach, NEW s \in Servers, Pairs!ServerDies(s)
  PROVE  Reach'
<1>1. PairKinds'
  BY DEF Reach, PairKinds, Pairs!ServerDies, Pairs!PortFreed, PairStates,
    Pairs!Ended
<1>2. Named'
  BY DEF Reach, PairKinds, Pairs!ServerDies, Pairs!PortFreed, Named,
    HasName, InRun, Bound, Pairs!Local, Pairs!Ended
<1> QED BY <1>1, <1>2 DEF Reach

LEMMA ReachNext ==
  ASSUME Reach, Pairs!Next \/ UNCHANGED Pairs!vars
  PROVE  Reach'
<1>1. CASE Pairs!TimeWaitOver
  BY <1>1 DEF Pairs!TimeWaitOver, Reach, PairKinds, Named, HasName, InRun,
    Bound, Pairs!Local
<1>2. CASE UNCHANGED Pairs!vars
  BY <1>2 DEF Pairs!vars, Reach, PairKinds, Named, HasName, InRun,
    Bound, Pairs!Local
<1>3. ASSUME NEW s \in Servers,
             \/ Pairs!ServerUnlink(s) \/ Pairs!ServerBind(s)
             \/ Pairs!ServerStep(s) \/ Pairs!ServerDies(s)
      PROVE  Reach'
  BY <1>3, UnlinkReach, BindReach, ServersGoOn, GoingOnKeepsNames, CloseReach,
    UnlinkEndReach, DiesReach DEF Pairs!ServerStep
<1>4. ASSUME NEW c \in Clients,
         \/ Pairs!Connect(c) \/ Pairs!ClientUnlink(c) \/ Pairs!ClientSend(c)
         \/ Pairs!ClientStep(c) \/ Pairs!ClientDies(c)
      PROVE  Reach'
  BY <1>4, ClientsMove, ClientsLeaveNames DEF Reach
<1> QED BY <1>1, <1>2, <1>3, <1>4 DEF Pairs!Next

(* Some run has had a connection to close: nothing else occupies the port  *)
(* of a network server, and no other run can fail to come up.              *)
Occupied ==
  \E t \in Servers : pc[t] \in {"done", "dead"} /\ peer[t] # None

Earlier ==
  /\ DOMAIN peer = Pairs!Procs
  /\ timewait => Occupied
  /\ \A s \in Servers \ overlapped : pc[s] = "failed" => Occupied

LEMMA EarlierInit == Pairs!Init => Earlier
BY DEF Pairs!Init, Earlier

(* A run that has ended stays as it is.                                    *)
Stays(t) == pc'[t] = pc[t] /\ peer'[t] = peer[t]

LEMMA EndedStays ==
  ASSUME Reach, Earlier, Pairs!Next \/ UNCHANGED Pairs!vars
  PROVE  /\ DOMAIN peer' = Pairs!Procs
         /\ \A t \in Servers : pc[t] \in {"done", "dead"} => Stays(t)
<1> USE DEF Reach, PairKinds, Earlier, Stays
<1>1. ASSUME NEW s \in Servers,
             \/ Pairs!ServerUnlink(s) \/ Pairs!ServerBind(s)
             \/ Pairs!ServerClose(s) \/ Pairs!ServerUnlinkEnd(s)
             \/ Pairs!ServerDies(s)
      PROVE  peer' = peer /\ \E to \in PairStates :
               pc' = [pc EXCEPT ![s] = to] /\ pc[s] \notin {"done", "dead"}
  BY <1>1 DEF Pairs!ServerUnlink, Pairs!ServerBind, Pairs!ServerClose,
    Pairs!ServerUnlinkEnd, Pairs!ServerDies, PairStates, Pairs!Ended
<1>2. ASSUME NEW s \in Servers,
             \/ Pairs!Accept(s) \/ Pairs!ReadRequest(s)
             \/ Pairs!ReceiveRequest(s) \/ Pairs!Reply(s)
      PROVE  /\ GoesOn(s)
             /\ DOMAIN peer' = Pairs!Procs
             /\ \A t \in Servers \ {s} : peer'[t] = peer[t]
  BY <1>2, ServersGoOn
  DEF Pairs!Accept, Pairs!ReadRequest, Pairs!ReceiveRequest, Pairs!Reply
<1>3. ASSUME NEW c \in Clients,
         \/ Pairs!Connect(c) \/ Pairs!ClientUnlink(c) \/ Pairs!ClientSend(c)
         \/ Pairs!ClientStep(c) \/ Pairs!ClientDies(c)
      PROVE  /\ ClientMoves
             /\ DOMAIN peer' = Pairs!Procs
             /\ \A t \in Servers : peer'[t] = peer[t]
  <2>1. peer' = peer \/ peer' = [peer EXCEPT ![c] = path]
    BY <1>3 DEF Pairs!Connect, Pairs!ClientUnlink, Pairs!ClientSend,
      Pairs!ClientStep, Pairs!ClientBind, Pairs!ClientWrite,
      Pairs!ClientRead, Pairs!ClientClose, Pairs!ClientUnlinkEnd,
      Pairs!ClientDies
  <2> QED BY <1>3, <2>1, ClientsMove, PairAssumption
<1>4. CASE Pairs!TimeWaitOver \/ UNCHANGED Pairs!vars
  BY <1>4 DEF Pairs!TimeWaitOver, Pairs!vars
<1> QED
  BY <1>1, <1>2, <1>3, <1>4, PairAssumption
  DEF Pairs!Next, Pairs!ServerStep, GoesOn, Bound, ClientMoves

LEMMA EarlierNext ==
  ASSUME Reach, Earlier, Pairs!Next \/ UNCHANGED Pairs!vars
  PROVE  Earlier'
<1>1. Occupied => Occupied'
  BY EndedStays DEF Occupied, Stays
<1>2. ASSUME NEW s \in Servers, Pairs!ServerClose(s) \/ Pairs!ServerDies(s)
      PROVE  timewait' => timewait \/ Occupied'
  <2>1. SUFFICES ASSUME timewait', ~timewait PROVE Occupied'
    OBVIOUS
  <2>2. kind = <<"inet", "stream">> /\ peer[s] # None /\ peer' = peer
    BY <1>2, <2>1 DEF Pairs!ServerClose, Pairs!ServerDies, Pairs!PortFreed,
      Pairs!SocketOpen
  <2>3. pc'[s] \in {"done", "dead"}
    BY <1>2, <2>2 DEF Pairs!ServerClose, Pairs!ServerDies, Pairs!Local,
      Reach, PairKinds
  <2> QED BY <2>2, <2>3 DEF Occupied
<1>3. ASSUME NEW s \in Servers, Pairs!ServerBind(s), pc'[s] = "failed",
             s \notin overlapped'
      PROVE  timewait
  <2>1. path # None \/ timewait
    BY <1>3 DEF Pairs!ServerBind, Pairs!Stream, Reach, PairKinds
  <2>2. CASE Pairs!Local
    BY <1>3, <2>1, <2>2 DEF Pairs!ServerBind, Reach, Named, HasName
  <2>3. CASE ~Pairs!Local
    BY <1>3, <2>1, <2>3 DEF Pairs!ServerBind, Pairs!Begins, Reach,
      PairKinds, Named, Bound, Pairs!Ended
  <2> QED BY <2>2, <2>3
<1> DEFINE Kept == /\ timewait' = timewait
                   /\ overlapped \cap Servers \subseteq overlapped'
                   /\ \A q \in Servers : pc'[q] = "failed" => pc[q] = "failed"
<1>4. ASSUME NEW s \in Servers,
             \/ Pairs!ServerUnlink(s) \/ Pairs!ServerUnlinkEnd(s)
      PROVE  Kept
  BY <1>4 DEF Pairs!ServerUnlink, Pairs!ServerUnlinkEnd, Pairs!Begins,
    Reach, PairKinds
<1>5. ASSUME NEW s \in Servers, GoesOn(s)
      PROVE  Kept
  BY <1>5 DEF GoesOn, Bound, Reach, PairKinds
<1>6. CASE ClientMoves
  <2>1. \A q \in Servers : pc'[q] = pc[q]
    BY <1>6, PairAssumption DEF ClientMoves, Reach, PairKinds
  <2> QED BY <1>1, <1>6, <2>1, EndedStays DEF ClientMoves, Earlier
<1>7. CASE Pairs!TimeWaitOver \/ UNCHANGED Pairs!vars
  BY <1>1, <1>7, EndedStays DEF Pairs!TimeWaitOver, Pairs!vars, Earlier
<1>8. ASSUME NEW s \in Servers, Pairs!ServerClose(s) \/ Pairs!ServerDies(s)
      PROVE  Earlier'
  <2>1. overlapped' = overlapped
    BY <1>8 DEF Pairs!ServerClose, Pairs!ServerDies
  <2>2. \A q \in Servers : pc'[q] = "failed" => pc[q] = "failed"
    BY <1>8 DEF Pairs!ServerClose, Pairs!ServerDies, Reach, PairKinds
  <2> QED BY <1>1, <1>2, <1>8, <2>1, <2>2, EndedStays DEF Earlier
<1>9. ASSUME NEW s \in Servers, Pairs!ServerBind(s)
      PROVE  Earlier'
  <2>1. timewait' = timewait /\ overlapped \subseteq overlapped'
    BY <1>9 DEF Pairs!ServerBind, Pairs!Begins
  <2>2. \A q \in Servers \ {s} : pc'[q] = pc[q]
    BY <1>9 DEF Pairs!ServerBind, Reach, PairKinds
  <2> QED BY <1>1, <1>3, <1>9, <2>1, <2>2, EndedStays DEF Earlier
<1>10. Kept => Earlier'
  BY <1>1, EndedStays DEF Earlier
<1>11. ASSUME NEW s \in Servers, Pairs!ServerStep(s)
       PROVE  Earlier'
  BY <1>4, <1>5, <1>8, <1>9, <1>10, <1>11, ServersGoOn
  DEF Pairs!ServerStep
<1>12. ASSUME NEW c \in Clients,
         \/ Pairs!Connect(c) \/ Pairs!ClientUnlink(c) \/ Pairs!ClientSend(c)
         \/ Pairs!ClientStep(c) \/ Pairs!ClientDies(c)
       PROVE  Earlier'
  BY <1>6, <1>12, ClientsMove DEF Reach
<1> QED
  BY <1>4, <1>7, <1>8, <1>9, <1>10, <1>11, <1>12 DEF Pairs!Next

(* A server run while no other one runs comes up and keeps its name; only  *)
(* the port of a network server may still be taken, and then by a          *)
(* connection an earlier run has closed.                                   *)
THEOREM ReachableCorrect == Pairs!Spec => []ServerReachable
<1>1. Reach /\ Earlier => ServerReachable
  BY DEF Reach, Named, HasName, Earlier, Occupied, ServerReachable,
    Pairs!ServerReachable, Bound
<1>2. Reach /\ Earlier /\ [Pairs!Next]_(Pairs!vars) => Reach' /\ Earlier'
  BY ReachNext, EarlierNext
<1> QED BY <1>1, <1>2, ReachInit, EarlierInit, PTL DEF Pairs!Spec

(* Whose reply a client reads.                                             *)
AnswerKinds ==
  /\ kind \in Pairs!Kinds
  /\ pc \in [Pairs!Procs -> PairStates]
  /\ clientPath \in Clients \cup {None}
  /\ queue \in [Servers -> Seq(Clients)]
  /\ peer \in [Pairs!Procs -> Pairs!Procs \cup {None}]
  /\ inbox \in [Clients -> Seq(Clients)]
  /\ reply \in [Clients -> Clients \cup {None}]
  /\ \A s \in Servers : /\ peer[s] \in Clients \cup {None}
                        /\ pc[s] = "accept" => Pairs!Stream
                        /\ \/ pc[s] = "write"
                           \/ pc[s] = "read" /\ Pairs!Stream
                           => peer[s] \in Clients
  /\ \A c \in Clients : pc[c] = "write" => Pairs!Stream

(* A connection, or an address of one's own, leads a reply home.           *)
SharedPath == kind = <<"local", "datagram">>

OwnElsewhere ==
  ~SharedPath => \A c \in Clients : /\ inbox[c] \in Seq({c})
                                    /\ reply[c] \in {c, None}

(* With one path for all of them, clients that run one after the other     *)
(* have one request, or one reply, under way at any time.                  *)
Quiet == \A c \in Clients : c \notin overlapped /\ pc[c] # "dead"

Waits(s) == queue[s] # <<>>
Holds(s) == pc[s] = "write"

OneTurn ==
  /\ \A c, d \in Clients : InRun(c) /\ InRun(d) => c = d
  /\ \A c \in Clients :
       /\ pc[c] \in {"send", "read", "close", "unlink"} => clientPath = c
       /\ pc[c] = "bind" => clientPath = None
  /\ \A s \in Servers : /\ Waits(s) => \E c \in Clients : /\ queue[s] = <<c>>
                                                          /\ pc[c] = "read"
                        /\ Holds(s) => \E c \in Clients : /\ peer[s] = c
                                                          /\ pc[c] = "read"
  /\ \A s, t \in Servers : /\ Waits(s) => ~Holds(t)
                           /\ Waits(s) /\ Waits(t) => s = t
                           /\ Holds(s) /\ Holds(t) => s = t
  /\ \A c \in Clients : inbox[c] # <<>> =>
       /\ pc[c] = "read" /\ inbox[c] = <<c>>
       /\ \A s \in Servers : ~Waits(s) /\ ~Holds(s)
  /\ \A c \in Clients : reply[c] \in {c, None}

Answers == /\ AnswerKinds /\ OwnElsewhere
           /\ SharedPath /\ Quiet => OneTurn

LEMMA AnswersInit == Pairs!Init => Answers
<1> SUFFICES ASSUME Pairs!Init PROVE Answers
  OBVIOUS
<1>1. AnswerKinds
  BY DEF Pairs!Init, AnswerKinds, PairStates
<1>2. OwnElsewhere
  <2>1. ASSUME NEW c \in Clients
        PROVE  inbox[c] = <<>> /\ reply[c] = None
    BY DEF Pairs!Init
  <2>2. \A c \in Clients : <<>> \in Seq({c})
    OBVIOUS
  <2> QED BY <2>1, <2>2 DEF OwnElsewhere
<1>3. OneTurn
  BY DEF Pairs!Init, OneTurn, InRun, Waits, Holds, Pairs!Ended
<1> QED BY <1>1, <1>2, <1>3 DEF Answers

LEMMA AnswersStay ==
  ASSUME Answers,
         UNCHANGED <<kind, clientPath, pc, queue, peer, inbox, reply,
                     overlapped>>
  PROVE  Answers'
<1>1. AnswerKinds' /\ OwnElsewhere'
  BY DEF Answers, AnswerKinds, OwnElsewhere, SharedPath, Pairs!Stream
<1>2. (SharedPath /\ Quiet => OneTurn)'
  BY DEF Answers, SharedPath, Quiet, OneTurn, InRun, Waits, Holds
<1> QED BY <1>1, <1>2 DEF Answers

(* A server that neither takes a request nor sends a reply.                *)
ServerAside(s) ==
  /\ \E to \in {"bind", "accept", "read", "unlink"} \cup Pairs!Ended :
       /\ pc' = [pc EXCEPT ![s] = to]
       /\ to = "accept" => Pairs!Stream
       /\ to = "read" => ~Pairs!Stream
  /\ overlapped' \cap Clients = overlapped \cap Clients
  /\ UNCHANGED <<kind, clientPath, queue, peer, inbox, reply>>

LEMMA ServersAside ==
  ASSUME NEW s \in Servers,
         \/ Pairs!ServerUnlink(s) \/ Pairs!ServerBind(s)
         \/ Pairs!ServerClose(s) \/ Pairs!ServerUnlinkEnd(s)
         \/ Pairs!ServerDies(s)
  PROVE  ServerAside(s)
<1>1. ASSUME Pairs!Begins(s, Servers)
      PROVE  overlapped' \cap Clients = overlapped \cap Clients
  BY <1>1, PairAssumption DEF Pairs!Begins
<1>2. CASE Pairs!ServerUnlink(s)
  BY <1>1, <1>2 DEF Pairs!ServerUnlink, ServerAside, Pairs!Ended
<1>3. CASE Pairs!ServerBind(s)
  BY <1>1, <1>3 DEF Pairs!ServerBind, ServerAside, Pairs!Ended
<1>4. CASE Pairs!ServerClose(s)
  <2>1. \/ pc' = [pc EXCEPT ![s] = "unlink"]
        \/ pc' = [pc EXCEPT ![s] = "done"]
    BY <1>4 DEF Pairs!ServerClose
  <2>2. /\ overlapped' \cap Clients = overlapped \cap Clients
        /\ UNCHANGED <<kind, clientPath, queue, peer, inbox, reply>>
    BY <1>4 DEF Pairs!ServerClose
  <2> QED BY <2>1, <2>2 DEF ServerAside, Pairs!Ended
<1>5. CASE Pairs!ServerUnlinkEnd(s)
  BY <1>5 DEF Pairs!ServerUnlinkEnd, ServerAside, Pairs!Ended
<1>6. CASE Pairs!ServerDies(s)
  BY <1>6 DEF Pairs!ServerDies, ServerAside, Pairs!Ended
<1> QED BY <1>2, <1>3, <1>4, <1>5, <1>6

LEMMA AsideAnswers ==
  ASSUME Answers, NEW s \in Servers, ServerAside(s)
  PROVE  Answers'
<1>1. \A c \in Clients : pc'[c] = pc[c]
  BY PairAssumption DEF Answers, AnswerKinds, ServerAside, Pairs!Ended
<1>2. AnswerKinds'
  BY <1>1 DEF Answers, AnswerKinds, ServerAside, Pairs!Stream,
    PairStates, Pairs!Ended
<1>3. OwnElsewhere'
  BY DEF Answers, OwnElsewhere, SharedPath, ServerAside
<1>4. ASSUME SharedPath', Quiet' PROVE OneTurn'
  <2>1. SharedPath /\ Quiet
    BY <1>1, <1>4 DEF SharedPath, Quiet, ServerAside
  <2>2. \A t \in Servers : pc'[t] = "write" => pc[t] = "write"
    BY DEF Answers, AnswerKinds, ServerAside, Pairs!Ended
  <2> QED
    BY <1>1, <2>1, <2>2 DEF Answers, OneTurn, InRun, Waits, Holds, ServerAside
<1> QED BY <1>2, <1>3, <1>4 DEF Answers

LEMMA AcceptAnswers ==
  ASSUME Answers, NEW s \in Servers, Pairs!Accept(s) \/ Pairs!ReadRequest(s)
  PROVE  Answers'
<1>1. Pairs!Stream /\ ~SharedPath
  BY DEF Answers, AnswerKinds, SharedPath, Pairs!Stream, Pairs!Accept,
    Pairs!ReadRequest
<1>2. AnswerKinds'
  <2>1. CASE Pairs!Accept(s)
    BY <1>1, <2>1, PairAssumption
    DEF Answers, AnswerKinds, Pairs!Accept, Pairs!Stream, PairStates
  <2>2. CASE Pairs!ReadRequest(s)
    BY <1>1, <2>2, PairAssumption
    DEF Answers, AnswerKinds, Pairs!ReadRequest, Pairs!Stream, PairStates
  <2> QED BY <2>1, <2>2
<1>3. OwnElsewhere'
  BY DEF Answers, OwnElsewhere, SharedPath, Pairs!Accept, Pairs!ReadRequest
<1> QED
  BY <1>1, <1>2, <1>3
  DEF Answers, SharedPath, Pairs!Accept, Pairs!ReadRequest

LEMMA ReceiveAnswers ==
  ASSUME Answers, NEW s \in Servers, Pairs!ReceiveRequest(s)
  PROVE  Answers'
<1>1. \A c \in Clients : pc'[c] = pc[c]
  BY PairAssumption DEF Answers, AnswerKinds, Pairs!ReceiveRequest
<1>2. AnswerKinds'
  BY <1>1, PairAssumption
  DEF Answers, AnswerKinds, Pairs!ReceiveRequest, Pairs!Stream, PairStates
<1>3. OwnElsewhere'
  BY DEF Answers, OwnElsewhere, SharedPath, Pairs!ReceiveRequest
<1>4. ASSUME SharedPath', Quiet' PROVE OneTurn'
  <2>1. OneTurn
    BY <1>1, <1>4 DEF Answers, SharedPath, Quiet, Pairs!ReceiveRequest
  <2>2. PICK c \in Clients : queue[s] = <<c>> /\ pc[c] = "read"
    BY <2>1 DEF OneTurn, Waits, Pairs!ReceiveRequest
  <2>3. /\ peer' = [peer EXCEPT ![s] = c]
        /\ queue' = [queue EXCEPT ![s] = <<>>]
        /\ pc' = [pc EXCEPT ![s] = "write"]
        /\ UNCHANGED <<clientPath, inbox, reply>>
    BY <2>2 DEF Pairs!ReceiveRequest
  <2>4. \A t \in Servers : queue'[t] = <<>>
    BY <2>1, <2>2, <2>3 DEF Answers, AnswerKinds, OneTurn, Waits
  <2>5. \A t \in Servers : pc'[t] = "write" <=> t = s
    <3>1. queue[s] # <<>>
      BY <2>2
    <3>2. \A t \in Servers : pc[t] # "write"
      BY <2>1, <3>1 DEF OneTurn, Waits, Holds
    <3> QED BY <2>3, <3>2 DEF Answers, AnswerKinds
  <2>6. peer'[s] = c
    BY <2>3 DEF Answers, AnswerKinds
  <2> QED
    BY <1>1, <2>1, <2>2, <2>3, <2>4, <2>5, <2>6 DEF OneTurn, InRun, Waits, Holds
<1> QED BY <1>2, <1>3, <1>4 DEF Answers

(* What a reply does: it is in its client's hands, or nobody's.            *)
LEMMA ReplyAnswers ==
  ASSUME Answers, NEW s \in Servers, Pairs!Reply(s)
  PROVE  Answers'
<1> DEFINE to == IF Pairs!Local /\ ~Pairs!Stream THEN clientPath ELSE peer[s]
<1>1. /\ UNCHANGED <<kind, clientPath, queue, peer, reply, overlapped>>
      /\ pc[s] = "write"
      /\ \E x \in {"close", "killed"} : pc' = [pc EXCEPT ![s] = x]
  BY DEF Pairs!Reply
<1>2. \/ /\ Pairs!SocketOpen(to)
         /\ inbox' = [inbox EXCEPT ![to] = Append(@, peer[s])]
      \/ /\ ~Pairs!SocketOpen(to) \/ kind = <<"inet", "datagram">>
         /\ UNCHANGED inbox
  BY DEF Pairs!Reply
<1>3. \A c \in Clients : pc'[c] = pc[c]
  BY <1>1, PairAssumption DEF Answers, AnswerKinds
<1>4. Pairs!SocketOpen(to) => to \in Clients
  BY DEF Pairs!SocketOpen, Answers, AnswerKinds
<1> HIDE DEF to
<1>5. inbox' \in [Clients -> Seq(Clients)]
  <2>1. peer[s] \in Clients /\ inbox \in [Clients -> Seq(Clients)]
    BY <1>1 DEF Answers, AnswerKinds
  <2>2. ASSUME to \in Clients
        PROVE  Append(inbox[to], peer[s]) \in Seq(Clients)
    BY <2>1, <2>2
  <2> QED BY <1>2, <1>4, <2>1, <2>2
<1>6. AnswerKinds'
  <2>1. /\ pc' \in [Pairs!Procs -> PairStates]
        /\ pc'[s] \in {"close", "killed"}
        /\ \A t \in Servers \ {s} : pc'[t] = pc[t]
    BY <1>1 DEF Answers, AnswerKinds, PairStates, Pairs!Ended
  <2>2. \A t \in Servers :
          /\ peer[t] \in Clients \cup {None}
          /\ pc'[t] = "accept" => Pairs!Stream
          /\ pc'[t] = "write" \/ (pc'[t] = "read" /\ Pairs!Stream)
               => peer[t] \in Clients
    BY <2>1 DEF Answers, AnswerKinds
  <2> QED
    BY <1>1, <1>3, <1>5, <2>1, <2>2
    DEF Answers, AnswerKinds, Pairs!Stream
<1>7. CASE SharedPath
  <2>1. to = clientPath
    BY <1>7 DEF to, SharedPath, Pairs!Local, Pairs!Stream
  <2>2. PICK x \in Clients : peer[s] = x
    BY <1>1 DEF Answers, AnswerKinds
  <2>3. ASSUME Quiet'
        PROVE  /\ OneTurn /\ pc[x] = "read" /\ inbox[x] = <<>>
               /\ to = x /\ inbox' = [inbox EXCEPT ![x] = <<x>>]
    <3>1. OneTurn
      BY <1>1, <1>3, <1>7, <2>3 DEF Answers, Quiet
    <3>2. pc[x] = "read" /\ inbox[x] = <<>>
      BY <1>1, <2>2, <3>1 DEF OneTurn, Holds
    <3>3. to = x /\ Pairs!SocketOpen(to)
      BY <2>1, <3>1, <3>2, PairAssumption, UdpAssumption
      DEF OneTurn, Pairs!SocketOpen, Pairs!Ended
    <3>4. inbox' = [inbox EXCEPT ![x] = Append(@, x)]
      BY <1>2, <1>7, <2>2, <3>3 DEF SharedPath
    <3> QED BY <3>1, <3>2, <3>3, <3>4 DEF Answers, AnswerKinds
  <2>4. OwnElsewhere'
    BY <1>1, <1>7 DEF OwnElsewhere, SharedPath
  <2>5. ASSUME Quiet' PROVE OneTurn'
    <3>1. \A t \in Servers : ~Waits(t)' /\ ~Holds(t)'
      BY <1>1, <2>3, <2>5 DEF OneTurn, Waits, Holds, Answers, AnswerKinds
    <3>2. \A c \in Clients : inbox'[c] # <<>> => c = x /\ inbox'[c] = <<c>>
      BY <1>1, <2>2, <2>3, <2>5 DEF OneTurn, Holds, Answers, AnswerKinds
    <3> QED
      BY <1>1, <1>3, <2>3, <2>5, <3>1, <3>2 DEF OneTurn, InRun
  <2> QED BY <1>6, <2>4, <2>5 DEF Answers
<1>8. CASE ~SharedPath
  <2>1. to = peer[s]
    BY <1>8 DEF to, SharedPath, Pairs!Local, Pairs!Stream, Answers,
      AnswerKinds, Pairs!Kinds
  <2>2. ASSUME NEW c \in Clients
        PROVE  inbox'[c] \in Seq({c})
    <3>1. inbox[c] \in Seq({c})
      BY <1>8 DEF Answers, OwnElsewhere
    <3>2. inbox'[c] = inbox[c] \/ inbox'[c] = Append(inbox[c], c)
      BY <1>2, <1>4, <2>1 DEF Answers, AnswerKinds
    <3> QED BY <3>1, <3>2
  <2>3. OwnElsewhere'
    BY <1>1, <1>8, <2>2 DEF Answers, OwnElsewhere, SharedPath
  <2> QED BY <1>1, <1>8, <1>6, <2>3 DEF Answers, SharedPath
<1> QED BY <1>7, <1>8

(* The clients, first what their steps leave well formed.                  *)
ClientAction(c) ==
  \/ Pairs!Connect(c) \/ Pairs!ClientUnlink(c) \/ Pairs!ClientSend(c)
  \/ Pairs!ClientStep(c) \/ Pairs!ClientDies(c)

LEMMA ClientsStayThemselves ==
  ASSUME AnswerKinds, NEW c \in Clients, ClientAction(c)
  PROVE  /\ pc' \in [Pairs!Procs -> PairStates]
         /\ \A p \in Pairs!Procs \ {c} : pc'[p] = pc[p]
         /\ \A s \in Servers : pc'[s] = pc[s] /\ peer'[s] = peer[s]
         /\ pc'[c] = "write" => Pairs!Stream
         /\ UNCHANGED kind
<1>1. CASE Pairs!Connect(c)
  <2>1. /\ Pairs!Stream /\ UNCHANGED kind
        /\ \/ UNCHANGED peer
           \/ peer' = [peer EXCEPT ![c] = path]
        /\ \/ pc' = [pc EXCEPT ![c] = "write"]
           \/ pc' = [pc EXCEPT ![c] = "failed"]
    BY <1>1 DEF Pairs!Connect
  <2>2. pc' \in [Pairs!Procs -> PairStates]
    BY <2>1 DEF AnswerKinds, PairStates, Pairs!Ended
  <2> QED BY <2>1, <2>2, PairAssumption DEF AnswerKinds, Pairs!Stream
<1>2. CASE Pairs!ClientUnlink(c)
  BY <1>2, PairAssumption DEF AnswerKinds, Pairs!ClientUnlink, PairStates
<1>3. CASE Pairs!ClientSend(c)
  BY <1>3, PairAssumption DEF AnswerKinds, Pairs!ClientSend, PairStates
<1>4. CASE Pairs!ClientBind(c)
  BY <1>4, PairAssumption
  DEF AnswerKinds, Pairs!ClientBind, PairStates, Pairs!Ended
<1>5. CASE Pairs!ClientWrite(c)
  <2>1. /\ \E to \in {"read", "killed"} : pc' = [pc EXCEPT ![c] = to]
        /\ UNCHANGED <<peer, kind>>
    BY <1>5 DEF Pairs!ClientWrite
  <2> QED
    BY <2>1, PairAssumption DEF AnswerKinds, PairStates, Pairs!Ended
<1>6. CASE Pairs!ClientRead(c)
  BY <1>6, PairAssumption DEF AnswerKinds, Pairs!ClientRead, PairStates
<1>7. CASE Pairs!ClientClose(c)
  <2>1. \/ pc' = [pc EXCEPT ![c] = "unlink"]
        \/ pc' = [pc EXCEPT ![c] = "done"]
    BY <1>7 DEF Pairs!ClientClose
  <2> QED
    BY <1>7, <2>1, PairAssumption
    DEF AnswerKinds, Pairs!ClientClose, PairStates, Pairs!Ended
<1>8. CASE Pairs!ClientUnlinkEnd(c)
  BY <1>8, PairAssumption
  DEF AnswerKinds, Pairs!ClientUnlinkEnd, PairStates, Pairs!Ended
<1>9. CASE Pairs!ClientDies(c)
  BY <1>9, PairAssumption
  DEF AnswerKinds, Pairs!ClientDies, PairStates, Pairs!Ended
<1> QED
  BY <1>1, <1>2, <1>3, <1>4, <1>5, <1>6, <1>7, <1>8, <1>9
  DEF ClientAction, Pairs!ClientStep

LEMMA ClientsKeepValues ==
  ASSUME AnswerKinds, path \in Servers \cup {None},
         NEW c \in Clients, ClientAction(c)
  PROVE  /\ clientPath' \in Clients \cup {None}
         /\ queue' \in [Servers -> Seq(Clients)]
         /\ peer' \in [Pairs!Procs -> Pairs!Procs \cup {None}]
         /\ inbox' \in [Clients -> Seq(Clients)]
         /\ reply' \in [Clients -> Clients \cup {None}]
<1>1. Pairs!SocketOpen(path) => path \in Servers
  BY DEF Pairs!SocketOpen
<1>2. ASSUME path \in Servers
      PROVE  Append(queue[path], c) \in Seq(Clients)
  BY <1>2 DEF AnswerKinds
<1>3. CASE Pairs!Connect(c)
  <2>1. \/ /\ path \in Servers
           /\ queue' = [queue EXCEPT ![path] = Append(@, c)]
           /\ peer' = [peer EXCEPT ![c] = path]
        \/ UNCHANGED <<queue, peer>>
    BY <1>1, <1>3 DEF Pairs!Connect
  <2>2. queue' \in [Servers -> Seq(Clients)]
    BY <1>2, <2>1 DEF AnswerKinds
  <2>3. peer' \in [Pairs!Procs -> Pairs!Procs \cup {None}]
    BY <2>1 DEF AnswerKinds
  <2>4. UNCHANGED <<clientPath, inbox, reply>>
    BY <1>3 DEF Pairs!Connect
  <2> QED BY <2>2, <2>3, <2>4 DEF AnswerKinds
<1>4. CASE Pairs!ClientUnlink(c)
  BY <1>4 DEF AnswerKinds, Pairs!ClientUnlink
<1>5. CASE Pairs!ClientSend(c)
  <2>1. \/ /\ path \in Servers
           /\ queue' = [queue EXCEPT ![path] = Append(@, c)]
        \/ UNCHANGED queue
    BY <1>1, <1>5 DEF Pairs!ClientSend
  <2>2. queue' \in [Servers -> Seq(Clients)]
    BY <1>2, <2>1 DEF AnswerKinds
  <2>3. UNCHANGED <<clientPath, peer, inbox, reply>>
    BY <1>5 DEF Pairs!ClientSend
  <2> QED BY <2>2, <2>3 DEF AnswerKinds
<1>6. CASE Pairs!ClientBind(c)
  BY <1>6 DEF AnswerKinds, Pairs!ClientBind
<1>7. CASE Pairs!ClientWrite(c)
  BY <1>7 DEF AnswerKinds, Pairs!ClientWrite
<1>8. CASE Pairs!ClientRead(c)
  <2>1. \/ /\ inbox[c] # <<>>
           /\ reply' = [reply EXCEPT ![c] = Head(inbox[c])]
           /\ inbox' = [inbox EXCEPT ![c] = Tail(@)]
        \/ UNCHANGED <<inbox, reply>>
    BY <1>8 DEF Pairs!ClientRead
  <2>2. inbox[c] # <<>> => /\ Head(inbox[c]) \in Clients
                           /\ Tail(inbox[c]) \in Seq(Clients)
    BY DEF AnswerKinds
  <2>4. inbox' \in [Clients -> Seq(Clients)]
    BY <2>1, <2>2 DEF AnswerKinds
  <2>5. reply' \in [Clients -> Clients \cup {None}]
    BY <2>1, <2>2 DEF AnswerKinds
  <2>3. UNCHANGED <<clientPath, queue, peer>>
    BY <1>8 DEF Pairs!ClientRead
  <2> QED BY <2>3, <2>4, <2>5 DEF AnswerKinds
<1>9. CASE Pairs!ClientClose(c)
  BY <1>9 DEF AnswerKinds, Pairs!ClientClose
<1>10. CASE Pairs!ClientUnlinkEnd(c)
  BY <1>10 DEF AnswerKinds, Pairs!ClientUnlinkEnd
<1>11. CASE Pairs!ClientDies(c)
  BY <1>11 DEF AnswerKinds, Pairs!ClientDies
<1> QED
  BY <1>3, <1>4, <1>5, <1>6, <1>7, <1>8, <1>9, <1>10, <1>11
  DEF ClientAction, Pairs!ClientStep

LEMMA ClientsKeepKinds ==
  ASSUME AnswerKinds, path \in Servers \cup {None},
         NEW c \in Clients, ClientAction(c)
  PROVE  AnswerKinds'
<1>1. \A d \in Clients : pc'[d] = "write" => Pairs!Stream
  BY ClientsStayThemselves DEF AnswerKinds
<1>2. \A s \in Servers :
        /\ peer'[s] \in Clients \cup {None}
        /\ pc'[s] = "accept" => Pairs!Stream
        /\ pc'[s] = "write" \/ (pc'[s] = "read" /\ Pairs!Stream)
             => peer'[s] \in Clients
  BY ClientsStayThemselves DEF AnswerKinds
<1> QED
  BY <1>1, <1>2, ClientsStayThemselves, ClientsKeepValues
  DEF AnswerKinds, Pairs!Stream

LEMMA ClientsKeepOwn ==
  ASSUME AnswerKinds, OwnElsewhere, NEW c \in Clients, ClientAction(c)
  PROVE  OwnElsewhere'
<1>1. CASE Pairs!ClientRead(c)
  <2>1. ASSUME ~SharedPath, NEW d \in Clients
        PROVE  inbox'[d] \in Seq({d}) /\ reply'[d] \in {d, None}
    <3>1. inbox[d] \in Seq({d}) /\ reply[d] \in {d, None}
      BY <2>1 DEF OwnElsewhere
    <3>2. CASE d = c /\ inbox[c] # <<>>
      <4>1. CASE inbox' = [inbox EXCEPT ![c] = Tail(@)]
        <5>1. inbox'[d] = Tail(inbox[d])
          BY <3>2, <4>1 DEF AnswerKinds
        <5>2. reply'[d] = Head(inbox[d])
          BY <1>1, <3>2 DEF AnswerKinds, Pairs!ClientRead
        <5> QED BY <3>1, <3>2, <5>1, <5>2
      <4> QED BY <1>1, <3>2, <4>1 DEF Pairs!ClientRead
    <3>3. CASE ~(d = c /\ inbox[c] # <<>>)
      BY <1>1, <3>1, <3>3 DEF AnswerKinds, Pairs!ClientRead
    <3> QED BY <3>2, <3>3
  <2> QED BY <1>1, <2>1 DEF OwnElsewhere, SharedPath, Pairs!ClientRead
<1>2. CASE ~Pairs!ClientRead(c)
  <2>1. UNCHANGED <<inbox, reply, kind>>
    BY <1>2 DEF ClientAction, Pairs!ClientStep, Pairs!Connect,
      Pairs!ClientUnlink, Pairs!ClientSend, Pairs!ClientBind,
      Pairs!ClientWrite, Pairs!ClientClose, Pairs!ClientUnlinkEnd,
      Pairs!ClientDies
  <2> QED BY <2>1 DEF OwnElsewhere, SharedPath
<1> QED BY <1>1, <1>2

(* And whose turn it is.  Unless a client is waiting nothing is under way. *)
Idle == /\ \A s \in Servers : ~Waits(s) /\ ~Holds(s)
        /\ \A c \in Clients : inbox[c] = <<>>

LEMMA IdleUnlessRead ==
  ASSUME OneTurn, \A c \in Clients : pc[c] # "read"
  PROVE  Idle
BY DEF OneTurn, Idle

LEMMA IdleIsTurn ==
  ASSUME AnswerKinds, OneTurn, Idle, NEW c \in Clients, ClientAction(c),
         \A d \in Clients \ {c} : ~InRun(d),
         UNCHANGED <<queue, inbox, reply>>,
         pc'[c] \in {"send", "read", "close", "unlink"} => clientPath' = c,
         pc'[c] = "bind" => clientPath' = None
  PROVE  OneTurn'
<1>1. \A d \in Clients \ {c} : pc'[d] = pc[d] /\ ~InRun(d)'
  BY ClientsStayThemselves DEF InRun
<1>2. \A s \in Servers : ~Waits(s)' /\ ~Holds(s)'
  BY ClientsStayThemselves DEF Idle, Waits, Holds
<1> QED
  BY <1>1, <1>2 DEF OneTurn, Idle, InRun, Pairs!Ended

LEMMA ClientsTakeTurns ==
  ASSUME AnswerKinds, OneTurn, SharedPath, Quiet', NEW c \in Clients,
         path \in Servers \cup {None}, ClientAction(c)
  PROVE  OneTurn'
<1>1. Pairs!Local /\ ~Pairs!Stream /\ pc[c] # "write" /\ pc'[c] # "dead"
  BY DEF SharedPath, Pairs!Local, Pairs!Stream, AnswerKinds, Quiet
<1>2. ASSUME InRun(c)
      PROVE  /\ \A d \in Clients \ {c} : ~InRun(d) /\ pc[d] # "read"
             /\ pc[c] # "read" => Idle
  <2>1. \A d \in Clients \ {c} : ~InRun(d)
    BY <1>2 DEF OneTurn
  <2>2. \A d \in Clients \ {c} : pc[d] # "read"
    BY <2>1 DEF InRun, Pairs!Ended
  <2> QED BY <2>1, <2>2, IdleUnlessRead
<1>3. CASE Pairs!Connect(c)
  BY <1>1, <1>3 DEF Pairs!Connect
<1>4. CASE Pairs!ClientUnlink(c)
  <2>1. Pairs!Begins(c, Clients) /\ c \notin overlapped'
    BY <1>4 DEF Pairs!ClientUnlink, Quiet
  <2>2. \A d \in Clients : ~InRun(d)
    BY <2>1 DEF Pairs!Begins, InRun
  <2>3. Idle
    BY <2>2, IdleUnlessRead DEF InRun, Pairs!Ended
  <2>4. /\ UNCHANGED <<queue, inbox, reply>>
        /\ pc'[c] = "bind" /\ clientPath' = None
    BY <1>4 DEF Pairs!ClientUnlink, AnswerKinds
  <2> QED BY <2>2, <2>3, <2>4, IdleIsTurn
<1>5. CASE Pairs!ClientBind(c)
  <2>1. pc[c] = "bind" /\ clientPath = None /\ InRun(c)
    BY <1>5 DEF Pairs!ClientBind, OneTurn, InRun, Pairs!Ended
  <2>2. /\ UNCHANGED <<queue, inbox, reply>>
        /\ pc'[c] = "send" /\ clientPath' = c
    BY <1>5, <2>1 DEF Pairs!ClientBind, AnswerKinds
  <2> QED BY <1>2, <2>1, <2>2, IdleIsTurn
<1>6. CASE Pairs!ClientSend(c)
  <2>1. pc[c] = "send" /\ clientPath = c /\ InRun(c)
    BY <1>1, <1>6 DEF Pairs!ClientSend, OneTurn, InRun, Pairs!Ended
  <2>2. /\ UNCHANGED <<clientPath, peer, inbox, reply>>
        /\ pc'[c] = "read"
    BY <1>1, <1>6 DEF Pairs!ClientSend, AnswerKinds
  <2>3. Idle
    BY <1>2, <2>1
  <2>4. CASE UNCHANGED queue
    BY <1>2, <2>1, <2>2, <2>3, <2>4, IdleIsTurn
  <2>5. CASE path \in Servers /\ queue' = [queue EXCEPT ![path] = Append(@, c)]
    <3>1. queue[path] = <<>> /\ queue'[path] = <<c>>
      <4>1. queue[path] = <<>>
        BY <2>3, <2>5 DEF Idle, Waits
      <4>2. queue'[path] = Append(queue[path], c)
        BY <2>5 DEF AnswerKinds
      <4>3. Append(<<>>, c) = <<c>>
        OBVIOUS
      <4> QED BY <4>1, <4>2, <4>3
    <3>2. \A s \in Servers : /\ s # path => ~Waits(s)'
                             /\ ~Holds(s)'
      BY <2>3, <2>5, ClientsStayThemselves
      DEF Idle, Waits, Holds, AnswerKinds
    <3>3. \A d \in Clients \ {c} : ~InRun(d)'
      BY <1>2, <2>1, ClientsStayThemselves DEF InRun
    <3> QED
      BY <2>1, <2>2, <2>3, <2>5, <3>1, <3>2, <3>3
      DEF OneTurn, Idle, InRun, Pairs!Ended
  <2> QED
    BY <1>6, <2>4, <2>5 DEF Pairs!ClientSend, Pairs!SocketOpen
<1>7. CASE Pairs!ClientWrite(c)
  BY <1>1, <1>7 DEF Pairs!ClientWrite
<1>8. CASE Pairs!ClientRead(c)
  <2>1. pc[c] = "read" /\ clientPath = c /\ InRun(c)
    BY <1>8 DEF Pairs!ClientRead, OneTurn, InRun, Pairs!Ended
  <2>2. inbox[c] = <<c>> /\ \A s \in Servers : ~Waits(s) /\ ~Holds(s)
    BY <1>1, <1>8 DEF Pairs!ClientRead, OneTurn
  <2>3. /\ UNCHANGED <<clientPath, queue, peer>>
        /\ inbox' = [inbox EXCEPT ![c] = <<>>]
        /\ reply' = [reply EXCEPT ![c] = c]
        /\ pc'[c] = "close"
    BY <1>1, <1>8, <2>2 DEF Pairs!ClientRead, AnswerKinds
  <2>4. \A d \in Clients \ {c} : ~InRun(d)' /\ inbox[d] = <<>>
    BY <1>2, <2>1, ClientsStayThemselves DEF InRun, OneTurn
  <2>5. \A s \in Servers : ~Waits(s)' /\ ~Holds(s)'
    BY <2>2, <2>3, ClientsStayThemselves DEF Waits, Holds
  <2>6. \A d \in Clients : inbox'[d] = <<>> /\ reply'[d] \in {d, None}
    BY <2>3, <2>4 DEF AnswerKinds, OneTurn
  <2> QED
    BY <2>1, <2>3, <2>4, <2>5, <2>6 DEF OneTurn, InRun, Pairs!Ended
<1>9. CASE Pairs!ClientClose(c)
  <2>1. pc[c] = "close" /\ clientPath = c /\ InRun(c)
    BY <1>9 DEF Pairs!ClientClose, OneTurn, InRun, Pairs!Ended
  <2>2. /\ UNCHANGED <<clientPath, queue, inbox, reply>>
        /\ pc'[c] = "unlink"
    BY <1>1, <1>9 DEF Pairs!ClientClose, AnswerKinds
  <2> QED BY <1>2, <2>1, <2>2, IdleIsTurn
<1>10. CASE Pairs!ClientUnlinkEnd(c)
  <2>1. pc[c] = "unlink" /\ InRun(c)
    BY <1>10 DEF Pairs!ClientUnlinkEnd, InRun, Pairs!Ended
  <2>2. UNCHANGED <<queue, inbox, reply>> /\ pc'[c] = "done"
    BY <1>10 DEF Pairs!ClientUnlinkEnd, AnswerKinds
  <2> QED BY <1>2, <2>1, <2>2, IdleIsTurn
<1>11. CASE Pairs!ClientDies(c)
  BY <1>1, <1>11 DEF Pairs!ClientDies, AnswerKinds
<1> QED
  BY <1>3, <1>4, <1>5, <1>6, <1>7, <1>8, <1>9, <1>10, <1>11
  DEF ClientAction, Pairs!ClientStep

LEMMA QuietBefore ==
  ASSUME AnswerKinds, NEW c \in Clients, ClientAction(c), Quiet'
  PROVE  Quiet
<1>1. \A d \in Clients : pc[d] = "dead" => pc'[d] = "dead"
  <2>1. pc[c] # "dead"
    BY DEF ClientAction, Pairs!ClientStep, Pairs!Connect,
      Pairs!ClientUnlink, Pairs!ClientSend, Pairs!ClientBind,
      Pairs!ClientWrite, Pairs!ClientRead, Pairs!ClientClose,
      Pairs!ClientUnlinkEnd, Pairs!ClientDies, Pairs!Ended
  <2> QED BY <2>1, ClientsStayThemselves
<1>2. overlapped \subseteq overlapped'
  BY DEF ClientAction, Pairs!ClientStep, Pairs!Connect,
    Pairs!ClientUnlink, Pairs!ClientSend, Pairs!ClientBind,
    Pairs!ClientWrite, Pairs!ClientRead, Pairs!ClientClose,
    Pairs!ClientUnlinkEnd, Pairs!ClientDies, Pairs!Begins
<1> QED BY <1>1, <1>2 DEF Quiet

LEMMA AnswersNext ==
  ASSUME Answers, Reach, Pairs!Next \/ UNCHANGED Pairs!vars
  PROVE  Answers'
<1>1. CASE Pairs!TimeWaitOver \/ UNCHANGED Pairs!vars
  BY <1>1, AnswersStay DEF Pairs!TimeWaitOver, Pairs!vars
<1>2. ASSUME NEW s \in Servers,
             \/ Pairs!ServerUnlink(s) \/ Pairs!ServerBind(s)
             \/ Pairs!ServerStep(s) \/ Pairs!ServerDies(s)
      PROVE  Answers'
  BY <1>2, ServersAside, AsideAnswers, AcceptAnswers, ReceiveAnswers,
    ReplyAnswers DEF Pairs!ServerStep
<1>3. ASSUME NEW c \in Clients, ClientAction(c)
      PROVE  Answers'
  <2>1. AnswerKinds' /\ OwnElsewhere'
    BY <1>3, ClientsKeepKinds, ClientsKeepOwn DEF Answers, Reach, PairKinds
  <2>2. ASSUME SharedPath', Quiet' PROVE OneTurn'
    <3>1. SharedPath /\ Quiet
      BY <1>3, <2>2, QuietBefore, ClientsStayThemselves
      DEF Answers, SharedPath
    <3> QED
      BY <1>3, <2>2, <3>1, ClientsTakeTurns DEF Answers, Reach, PairKinds
  <2> QED BY <2>1, <2>2 DEF Answers
<1> QED BY <1>1, <1>2, <1>3 DEF Pairs!Next, ClientAction

THEOREM OwnReplyCorrect == Pairs!Spec => []OwnReply
<1>1. Answers => OwnReply
  BY DEF Answers, OwnElsewhere, SharedPath, Quiet, OneTurn, OwnReply,
    Pairs!OwnReply
<1>2. Reach /\ [Pairs!Next]_(Pairs!vars) => Reach'
  BY ReachNext
<1>3. Answers /\ Reach /\ [Pairs!Next]_(Pairs!vars) => Answers'
  BY AnswersNext
<1> QED
  BY <1>1, <1>2, <1>3, ReachInit, AnswersInit, PTL DEF Pairs!Spec

(* What the programs leave behind them.                                    *)
Leaves ==
  /\ timewait \in BOOLEAN
  /\ request \subseteq Clients /\ missed \subseteq Clients
  /\ overlapped \subseteq Pairs!Procs

LEMMA LeavesServer ==
  ASSUME AnswerKinds, Leaves, NEW s \in Servers,
         \/ Pairs!ServerUnlink(s) \/ Pairs!ServerBind(s)
         \/ Pairs!ServerStep(s) \/ Pairs!ServerDies(s)
  PROVE  Leaves'
<1> USE DEF Leaves
<1>1. CASE Pairs!ServerUnlink(s) \/ Pairs!ServerBind(s)
  BY <1>1 DEF Pairs!ServerUnlink, Pairs!ServerBind, Pairs!Begins
<1>2. CASE Pairs!Accept(s) \/ Pairs!ReadRequest(s) \/ Pairs!ReceiveRequest(s)
  BY <1>2 DEF Pairs!Accept, Pairs!ReadRequest, Pairs!ReceiveRequest
<1>3. CASE Pairs!Reply(s)
  <2>1. peer[s] \in Clients
    BY <1>3 DEF Pairs!Reply, AnswerKinds
  <2> QED BY <1>3, <2>1 DEF Pairs!Reply
<1>4. CASE \/ Pairs!ServerClose(s) \/ Pairs!ServerUnlinkEnd(s)
           \/ Pairs!ServerDies(s)
  BY <1>4 DEF Pairs!ServerClose, Pairs!ServerUnlinkEnd, Pairs!ServerDies,
    Pairs!PortFreed
<1> QED BY <1>1, <1>2, <1>3, <1>4 DEF Pairs!ServerStep

LEMMA LeavesClient ==
  ASSUME Leaves, NEW c \in Clients, ClientAction(c)
  PROVE  Leaves'
BY DEF Leaves, ClientAction, Pairs!ClientStep, Pairs!Connect,
  Pairs!ClientUnlink, Pairs!ClientSend, Pairs!ClientBind,
  Pairs!ClientWrite, Pairs!ClientRead, Pairs!ClientClose,
  Pairs!ClientUnlinkEnd, Pairs!ClientDies, Pairs!Begins

(* Type correctness of the four pairs: whatever runs meet, no name, queue  *)
(* or reply ever leads to anything but a run of the right program.         *)
THEOREM PairsTypeCorrect == Pairs!Spec => []Pairs!TypeOK
<1>1. Pairs!Init => Leaves
  BY DEF Pairs!Init, Leaves
<1>2. Answers /\ Leaves /\ [Pairs!Next]_(Pairs!vars) => Leaves'
  <2>1. CASE Pairs!TimeWaitOver \/ UNCHANGED Pairs!vars
    BY <2>1 DEF Pairs!TimeWaitOver, Pairs!vars, Leaves
  <2> QED BY <2>1, LeavesServer, LeavesClient
          DEF Pairs!Next, Answers, ClientAction
<1>3. Reach /\ Answers /\ Leaves => Pairs!TypeOK
  BY DEF Reach, PairKinds, PairStates, Answers, AnswerKinds, Leaves,
    Pairs!TypeOK
<1>4. Reach /\ [Pairs!Next]_(Pairs!vars) => Reach'
  BY ReachNext
<1>5. Answers /\ Reach /\ [Pairs!Next]_(Pairs!vars) => Answers'
  BY AnswersNext
<1> QED
  BY <1>1, <1>2, <1>3, <1>4, <1>5, ReachInit, AnswersInit, PTL
  DEF Pairs!Spec
=============================================================================
