------------------------- MODULE EchoThreadsProofs -------------------------
(***************************************************************************)
(* Facts about the echo threads that hold in both servers that EXTEND      *)
(* EchoThreads, whatever main() does between accept() and the thread: what *)
(* waits in the backlog, and where the pieces of a message are.            *)
(***************************************************************************)
EXTENDS EchoThreads, TLAPS

(* Where a thread of either server can be.                                 *)
Labels == {"none", "start", "read", "send", "exited",
           "lock", "write", "unlock"}

(* The values of the variables; what counts pieces is left to Pieces.      *)
EchoKinds ==
  /\ listening \in BOOLEAN
  /\ backlog \in Seq(Clients)
  /\ cpc \in [Clients -> ClientStates]
  /\ srv \in [Clients -> {"none", "open", "closed", "gone"}]
  /\ hpc \in [Handlers -> Labels]
  /\ sock \in [Handlers -> Clients \cup {None}]
  /\ hbytes \in [Handlers -> 0..UNITS]
  /\ alive \in BOOLEAN

LEMMA NoSeq == ASSUME NEW S PROVE <<>> \in Seq(S)
OBVIOUS

LEMMA EchoKindsInit ==
  ASSUME EchoInit
  PROVE  EchoKinds
<1>1. /\ listening \in BOOLEAN /\ backlog \in Seq(Clients)
      /\ cpc \in [Clients -> ClientStates]
      /\ srv \in [Clients -> {"none", "open", "closed", "gone"}]
  BY NoSeq DEF EchoInit, ClientInit, ClientStates
<1>2. /\ hpc \in [Handlers -> Labels]
      /\ sock \in [Handlers -> Clients \cup {None}]
      /\ hbytes \in [Handlers -> 0..UNITS]
      /\ alive \in BOOLEAN
  BY UnitsAssumption DEF EchoInit, Labels
<1> QED BY <1>1, <1>2 DEF EchoKinds

LEMMA EchoKindsExit ==
  ASSUME EchoKinds, SrvExit
  PROVE  /\ listening' \in BOOLEAN
         /\ backlog' \in Seq(Clients)
         /\ srv' \in [Clients -> {"none", "open", "closed", "gone"}]
<1>1. backlog' \in Seq(Clients)
  BY NoSeq DEF SrvExit
<1>2. listening' = FALSE
  BY DEF SrvExit
<1>3. srv' \in [Clients -> {"none", "open", "closed", "gone"}]
  BY DEF EchoKinds, SrvExit
<1> QED BY <1>1, <1>2, <1>3

LEMMA EchoKindsClient ==
  ASSUME EchoKinds, NEW c \in Clients, ClientStep(c),
         UNCHANGED <<hpc, sock, hbytes, alive>>
  PROVE  EchoKinds'
<1> USE UnitsAssumption DEF EchoKinds, ClientStates
<1>1. CASE Connect(c)
  BY <1>1 DEF Connect
<1>2. CASE CannotConnect(c)
  BY <1>2 DEF CannotConnect
<1>3. CASE SendMessage(c)
  BY <1>3 DEF SendMessage
<1>4. CASE ReadReply(c)
  BY <1>4 DEF ReadReply
<1>5. CASE ReadEof(c)
  BY <1>5 DEF ReadEof
<1>6. CASE CloseClient(c) \/ ClientKilled(c)
  BY <1>6 DEF CloseClient, ClientKilled, Disconnect
<1> QED BY <1>1, <1>2, <1>3, <1>4, <1>5, <1>6 DEF ClientStep, ClientProgress

(* The steps of the echo loop.                                             *)
LEMMA EchoKindsLoop ==
  ASSUME EchoKinds, NEW h \in Handlers,
         NEW next \in Labels,
         \/ EchoRead(h) \/ EchoSend(h) \/ EchoSendKills(h)
         \/ EchoClose(h, next)
  PROVE  EchoKinds'
<1> USE UnitsAssumption DEF EchoKinds, Labels
<1>1. CASE EchoRead(h)
  BY <1>1 DEF EchoRead, SrvRead
<1>2. CASE EchoSend(h)
  BY <1>2 DEF EchoSend, SrvSend
<1>3. CASE EchoSendKills(h)
  BY <1>3, EchoKindsExit DEF EchoSendKills, SrvSendKills, SrvExit
<1>4. CASE EchoClose(h, next)
  BY <1>4 DEF EchoClose, SrvClose
<1> QED BY <1>1, <1>2, <1>3, <1>4

-----------------------------------------------------------------------------
(* A connection in the backlog has not been accepted and is there once.    *)
Backlogged ==
  /\ \A c \in Clients : cpc[c] = "start" => srv[c] = "none"
  /\ \A i \in 1..Len(backlog) : /\ cpc[backlog[i]] # "start"
                                /\ srv[backlog[i]] = "none"
  /\ \A i, j \in 1..Len(backlog) : backlog[i] = backlog[j] => i = j

LEMMA BackloggedInit == EchoInit => Backlogged
BY DEF EchoInit, ClientInit, Backlogged

LEMMA BackloggedExit ==
  ASSUME EchoKinds, Backlogged, SrvExit
  PROVE  Backlogged'
BY DEF EchoKinds, Backlogged, SrvExit

LEMMA BackloggedClient ==
  ASSUME EchoKinds, Backlogged,
         NEW c \in Clients, ClientStep(c)
  PROVE  Backlogged'
<1> USE DEF EchoKinds, Backlogged, ClientStates
<1>1. CASE Connect(c)
  <2>1. /\ Len(backlog') = Len(backlog) + 1
        /\ \A i \in 1..Len(backlog) : backlog'[i] = backlog[i]
        /\ backlog'[Len(backlog) + 1] = c
    BY <1>1 DEF Connect
  <2>2. \A i \in 1..Len(backlog) : backlog[i] \in Clients /\ backlog[i] # c
    BY <1>1 DEF Connect
  <2>3. /\ cpc' = [cpc EXCEPT ![c] = "send"] /\ srv' = srv
        /\ srv[c] = "none"
    BY <1>1 DEF Connect
  <2>4. ASSUME NEW i \in 1..Len(backlog')
        PROVE  cpc'[backlog'[i]] # "start" /\ srv'[backlog'[i]] = "none"
    <3>1. CASE i \in 1..Len(backlog)
      <4>1. backlog'[i] = backlog[i]
        BY <2>1, <3>1
      <4>2. backlog[i] \in Clients /\ backlog[i] # c
        BY <2>2, <3>1
      <4>3. cpc[backlog[i]] # "start" /\ srv[backlog[i]] = "none"
        BY <3>1
      <4> HIDE DEF EchoKinds, Backlogged, ClientStates
      <4> QED BY <2>3, <4>1, <4>2, <4>3
    <3>2. CASE i = Len(backlog) + 1
      BY <2>1, <2>3, <3>2
    <3> QED BY <2>1, <3>1, <3>2
  <2>5. \A i, j \in 1..Len(backlog') : backlog'[i] = backlog'[j] => i = j
    <3> HIDE DEF EchoKinds, ClientStates
    <3>1. Len(backlog) \in Nat
      BY DEF EchoKinds
    <3>2. \A i \in 1..Len(backlog) : backlog'[i] # c
      BY <2>1, <2>2
    <3>3. \A i, j \in 1..Len(backlog) : backlog'[i] = backlog'[j] => i = j
      BY <2>1
    <3>4. \A i \in 1..Len(backlog') :
            i \in 1..Len(backlog) \/ i = Len(backlog) + 1
      BY <2>1, <3>1
    <3> HIDE DEF Backlogged
    <3> QED BY <2>1, <3>2, <3>3, <3>4
  <2> QED BY <2>3, <2>4, <2>5
<1>2. CASE CannotConnect(c)
  BY <1>2 DEF CannotConnect
<1>3. CASE SendMessage(c)
  BY <1>3 DEF SendMessage
<1>4. CASE ReadReply(c)
  BY <1>4 DEF ReadReply
<1>5. CASE ReadEof(c)
  BY <1>5 DEF ReadEof
<1>6. CASE CloseClient(c) \/ ClientKilled(c)
  BY <1>6 DEF CloseClient, ClientKilled, Disconnect
<1> QED BY <1>1, <1>2, <1>3, <1>4, <1>5, <1>6 DEF ClientStep, ClientProgress

(* accept() takes a connection nobody has had before.                      *)
LEMMA BackloggedAccept ==
  ASSUME EchoKinds, Backlogged,
         NEW c \in Clients, SrvAccept(c)
  PROVE  srv[c] = "none" /\ Backlogged'
<1> USE DEF EchoKinds
<1>1. /\ c = backlog[1] /\ Len(backlog) > 0
      /\ Len(backlog') = Len(backlog) - 1
      /\ \A i \in 1..Len(backlog') : backlog'[i] = backlog[i + 1]
  BY DEF SrvAccept
<1>2. /\ cpc[c] # "start" /\ srv[c] = "none"
      /\ \A i \in 1..Len(backlog') : backlog'[i] # c
  <2>1. Len(backlog) \in Nat
    OBVIOUS
  <2>2. 1 \in 1..Len(backlog)
    BY <1>1, <2>1
  <2>3. \A i \in 1..Len(backlog') : i + 1 \in 1..Len(backlog) /\ i + 1 # 1
    BY <1>1, <2>1
  <2> HIDE DEF EchoKinds
  <2> QED BY <1>1, <2>2, <2>3 DEF Backlogged
<1>3. srv' = [srv EXCEPT ![c] = "open"] /\ cpc' = cpc
  BY DEF SrvAccept
<1>4. \A i \in 1..Len(backlog') :
        i + 1 \in 1..Len(backlog) /\ backlog'[i] \in Clients
  BY <1>1
<1>5. \A d \in Clients : cpc'[d] = "start" => srv'[d] = "none"
  BY <1>2, <1>3 DEF Backlogged
<1>6. \A i \in 1..Len(backlog') : /\ cpc'[backlog'[i]] # "start"
                                  /\ srv'[backlog'[i]] = "none"
  <2> TAKE i \in 1..Len(backlog')
  <2> DEFINE e == backlog'[i]
  <2>1. e \in Clients /\ e # c
    BY <1>2, <1>4
  <2>2. cpc[e] # "start" /\ srv[e] = "none"
    <3> HIDE DEF EchoKinds
    <3>1. e = backlog[i + 1] /\ i + 1 \in 1..Len(backlog)
      BY <1>1, <1>4
    <3> QED BY <3>1 DEF Backlogged
  <2> QED BY <1>3, <2>1, <2>2
<1>7. \A i, j \in 1..Len(backlog') : backlog'[i] = backlog'[j] => i = j
  <2> SUFFICES ASSUME NEW i \in 1..Len(backlog'), NEW j \in 1..Len(backlog'),
                      backlog'[i] = backlog'[j]
               PROVE  i = j
    OBVIOUS
  <2>1. backlog[i + 1] = backlog[j + 1]
    BY <1>1
  <2>2. i + 1 = j + 1
    BY <1>4, <2>1 DEF Backlogged
  <2> QED BY <2>2
<1> QED BY <1>2, <1>5, <1>6, <1>7 DEF Backlogged

(* close() of a connection that was accepted.                              *)
LEMMA BackloggedClose ==
  ASSUME EchoKinds, Backlogged,
         NEW c \in Clients, SrvClose(c), srv[c] # "none"
  PROVE  Backlogged'
<1>1. srv' = [srv EXCEPT ![c] = "closed"] /\ cpc' = cpc /\ backlog' = backlog
  BY DEF SrvClose
<1>2. \A i \in 1..Len(backlog) : backlog[i] \in Clients /\ backlog[i] # c
  BY DEF EchoKinds, Backlogged
<1> QED BY <1>1, <1>2 DEF EchoKinds, Backlogged

-----------------------------------------------------------------------------
(* Where the pieces of a message are: nothing moves before the client      *)
(* sends, and a thread holds pieces only between its read() and its send().*)

(* A thread has its connection exactly while it is in the echo loop, and   *)
(* no other thread has it.                                                 *)
Serving ==
  /\ \A h \in Handlers : hpc[h] \in {"read", "send"} <=> sock[h] # None
  /\ \A g, h \in Handlers : sock[g] = sock[h] /\ sock[g] # None => g = h

(* No two threads have the same connection.                                *)
Alone == \A g, h \in Handlers : sock[g] = sock[h] /\ sock[g] # None => g = h

Unsent == {"start", "send", "failed"}

PiecesOf(c) ==
  /\ cpc[c] \in Unsent => toServer[c] = 0 /\ toClient[c] = 0 /\ got[c] = 0
  /\ cpc[c] = "read" => got[c] = 0
  /\ cpc[c] = "done" => toClient[c] = 0
  /\ cpc[c] \in {"read", "close"} /\ (\A h \in Handlers : sock[h] # c)
       => toServer[c] = UNITS /\ toClient[c] = 0 /\ got[c] = 0
  /\ \A h \in Handlers : sock[h] = c =>
       /\ cpc[c] \in Unsent => hbytes[h] = 0
       /\ cpc[c] \in {"read", "close"} =>
            toServer[c] + toClient[c] + got[c] + hbytes[h] = UNITS

Pieces ==
  /\ got \in [Clients -> 0..UNITS]
  /\ toServer \in [Clients -> 0..UNITS]
  /\ toClient \in [Clients -> Nat]
  /\ \A c \in Clients : PiecesOf(c)
  /\ \A h \in Handlers : hpc[h] # "send" => hbytes[h] = 0

LEMMA PiecesInit == EchoInit => Pieces
BY UnitsAssumption, EchoAssumption
   DEF EchoInit, ClientInit, Pieces, PiecesOf, Unsent

LEMMA PiecesFrame ==
  ASSUME Pieces, UNCHANGED <<cpc, got, toServer, toClient, hbytes, sock>>,
         \A h \in Handlers : hpc'[h] = "send" <=> hpc[h] = "send"
  PROVE  Pieces'
BY DEF Pieces, PiecesOf

(* What waits for a client never exceeds its message.                      *)
LEMMA PiecesBound ==
  ASSUME EchoKinds, Pieces, NEW c \in Clients
  PROVE  toClient[c] \in 0..UNITS
<1> USE UnitsAssumption DEF EchoKinds, Pieces, PiecesOf, Unsent, ClientStates
<1>1. CASE cpc[c] \notin {"read", "close"}
  <2>1. toClient[c] = 0
    BY <1>1
  <2> QED BY <2>1
<1>2. CASE cpc[c] \in {"read", "close"} /\ \A h \in Handlers : sock[h] # c
  <2>1. toClient[c] = 0
    BY <1>2
  <2> QED BY <2>1
<1>3. CASE cpc[c] \in {"read", "close"} /\ \E h \in Handlers : sock[h] = c
  <2>1. PICK h \in Handlers : sock[h] = c
    BY <1>3
  <2>2. toServer[c] + toClient[c] + got[c] + hbytes[h] = UNITS
    BY <1>3, <2>1
  <2>3. /\ toServer[c] \in Nat /\ toClient[c] \in Nat /\ got[c] \in Nat
        /\ hbytes[h] \in Nat
    OBVIOUS
  <2> QED BY <2>2, <2>3
<1> QED BY <1>1, <1>2, <1>3

LEMMA PiecesClient ==
  ASSUME EchoKinds, Pieces, NEW c \in Clients, ClientStep(c),
         UNCHANGED <<hpc, sock, hbytes>>
  PROVE  Pieces'
<1> USE UnitsAssumption DEF EchoKinds, Pieces, PiecesOf, Unsent
<1>1. CASE Connect(c)
  BY <1>1 DEF Connect
<1>2. CASE CannotConnect(c)
  BY <1>2 DEF CannotConnect
<1>3. CASE SendMessage(c)
  BY <1>3 DEF SendMessage
<1>4. CASE ReadReply(c)
  <2>1. PICK k \in 1..toClient[c] :
          /\ got' = [got EXCEPT ![c] = k]
          /\ toClient' = [toClient EXCEPT ![c] = @ - k]
    BY <1>4 DEF ReadReply
  <2>2. got[c] = 0 /\ toClient[c] \in 0..UNITS /\ cpc[c] = "read"
    BY <1>4, PiecesBound DEF ReadReply
  <2>3. cpc' = [cpc EXCEPT ![c] = "close"] /\ toServer' = toServer
    BY <1>4 DEF ReadReply
  <2>4. /\ got' \in [Clients -> 0..UNITS]
        /\ toClient' \in [Clients -> Nat]
    BY <2>1, <2>2
  <2>5. PICK g \in Handlers : sock[g] = c
    <3> SUFFICES ASSUME \A h \in Handlers : sock[h] # c PROVE FALSE
      OBVIOUS
    <3>1. toClient[c] = 0
      BY <2>2
    <3> QED BY <2>1, <3>1
  <2>6. ASSUME NEW h \in Handlers, sock[h] = c
        PROVE  toServer[c] + toClient'[c] + got'[c] + hbytes[h] = UNITS
    <3>1. toServer[c] + toClient[c] + got[c] + hbytes[h] = UNITS
      BY <2>2, <2>6
    <3>2. /\ toServer[c] \in Nat /\ hbytes[h] \in Nat /\ toClient[c] \in Nat
          /\ k \in Nat /\ got'[c] = k /\ toClient'[c] = toClient[c] - k
      BY <2>1, <2>2
    <3> HIDE DEF EchoKinds, Pieces, PiecesOf
    <3> QED BY <2>2, <3>1, <3>2
  <2>7. cpc'[c] = "close"
    BY <2>3
  <2>8. PiecesOf(c)'
    <3>1. \A h \in Handlers : sock'[h] = c =>
            toServer'[c] + toClient'[c] + got'[c] + hbytes'[h] = UNITS
      BY <2>3, <2>6
    <3>2. \E h \in Handlers : sock'[h] = c
      BY <2>5
    <3> QED BY <2>7, <3>1, <3>2 DEF PiecesOf
  <2>9. ASSUME NEW d \in Clients, d # c
        PROVE  PiecesOf(d)'
    <3>1. /\ cpc'[d] = cpc[d]
          /\ got'[d] = got[d] /\ toClient'[d] = toClient[d]
      BY <2>1, <2>3, <2>9
    <3> QED BY <2>3, <3>1 DEF PiecesOf
  <2>10. \A d \in Clients : PiecesOf(d)'
    BY <2>8, <2>9
  <2> HIDE DEF PiecesOf
  <2> QED BY <2>3, <2>4, <2>10
<1>5. CASE ReadEof(c)
  BY <1>5 DEF ReadEof
<1>6. CASE CloseClient(c) \/ ClientKilled(c)
  <2>1. Disconnect(c) /\ cpc[c] \in {"send", "read", "close"}
    BY <1>6 DEF CloseClient, ClientKilled
  <2>2. /\ cpc' = [cpc EXCEPT ![c] = "done"]
        /\ toClient' = [toClient EXCEPT ![c] = 0]
        /\ toServer' = toServer /\ got' = got
    BY <2>1 DEF Disconnect
  <2>3. ASSUME NEW d \in Clients, d # c
        PROVE  cpc'[d] = cpc[d] /\ toClient'[d] = toClient[d]
    BY <2>2, <2>3
  <2>4. cpc'[c] = "done" /\ toClient'[c] = 0
    BY <2>2
  <2> QED BY <2>2, <2>3, <2>4
<1> QED BY <1>1, <1>2, <1>3, <1>4, <1>5, <1>6 DEF ClientStep, ClientProgress

(* A thread gets a connection that no thread has.                          *)
LEMMA PiecesStart ==
  ASSUME EchoKinds, Serving, Pieces,
         NEW h \in Handlers, NEW c \in Clients, EchoStart(h, c),
         \A g \in Handlers : sock[g] # c
  PROVE  Pieces'
<1>1. hbytes[h] = 0 /\ sock[h] = None
  BY DEF EchoStart, Serving, Pieces, EchoKinds
<1>2. /\ sock' = [sock EXCEPT ![h] = c] /\ hpc' = [hpc EXCEPT ![h] = "read"]
      /\ UNCHANGED <<cpc, got, toServer, toClient, hbytes>>
  BY DEF EchoStart, clientVars
<1>3. sock'[h] = c /\ \A g \in Handlers \ {h} : sock'[g] = sock[g]
  BY <1>2 DEF EchoKinds
<1>4. \A g \in Handlers : hpc'[g] # "send" => hbytes'[g] = 0
  BY <1>1, <1>2 DEF EchoKinds, Pieces
<1>5. PiecesOf(c)'
  <2>1. PiecesOf(c)
    BY DEF Pieces
  <2>2. UNITS \in Nat
    BY UnitsAssumption
  <2> QED BY <1>1, <1>2, <1>3, <2>1, <2>2 DEF PiecesOf
<1>6. \A d \in Clients \ {c} : PiecesOf(d)'
  BY <1>1, <1>2, <1>3, EchoAssumption DEF Pieces, PiecesOf
<1> QED BY <1>2, <1>4, <1>5, <1>6 DEF Pieces

(* The steps of the echo loop.                                             *)
LEMMA PiecesLoop ==
  ASSUME EchoKinds, Alone, Pieces, NEW h \in Handlers, sock[h] # None,
         NEW next \in Labels \ {"read", "send"},
         \/ EchoRead(h) \/ EchoSend(h) \/ EchoSendKills(h)
         \/ EchoClose(h, next)
  PROVE  Pieces'
<1> USE UnitsAssumption, EchoAssumption DEF EchoKinds
<1>1. CASE EchoRead(h)
  <2>1. PICK c \in Clients : c = sock[h] /\ hbytes[h] = 0
    BY <1>1 DEF EchoRead, Pieces
  <2>2. \A g \in Handlers : sock[g] = c <=> g = h
    BY <2>1 DEF Alone
  <2>3. PICK k \in 1..toServer[c] :
          /\ toServer' = [toServer EXCEPT ![c] = @ - k]
          /\ hbytes' = [hbytes EXCEPT ![h] = k]
    BY <1>1, <2>1 DEF EchoRead, SrvRead
  <2>4. /\ UNCHANGED <<sock, cpc, got, toClient>>
        /\ hpc' = [hpc EXCEPT ![h] = "send"]
    BY <1>1 DEF EchoRead, SrvRead
  <2>5. /\ got[c] \in Nat /\ toServer[c] \in 0..UNITS /\ toClient[c] \in Nat
        /\ k \in Nat /\ toServer'[c] = toServer[c] - k /\ hbytes'[h] = k
    BY <2>1, <2>3 DEF Pieces
  <2>6. /\ \A g \in Handlers : g # h => hbytes'[g] = hbytes[g]
        /\ \A d \in Clients : d # c => toServer'[d] = toServer[d]
    BY <2>3 DEF Pieces
  <2>7. toServer' \in [Clients -> 0..UNITS]
    BY <2>3, <2>5 DEF Pieces
  <2>8. PiecesOf(c)
    BY DEF Pieces
  <2>9. cpc[c] \notin Unsent
    BY <2>3, <2>5, <2>8 DEF PiecesOf
  <2>10. PiecesOf(c)'
    <3>1. cpc[c] \in {"read", "close"} =>
            toServer'[c] + toClient[c] + got[c] + hbytes'[h] = UNITS
      <4>1. cpc[c] \in {"read", "close"} =>
              toServer[c] + toClient[c] + got[c] + hbytes[h] = UNITS
        BY <2>1, <2>8 DEF PiecesOf
      <4> HIDE DEF EchoKinds
      <4> QED BY <2>1, <2>5, <4>1
    <3> HIDE DEF EchoKinds
    <3> QED BY <2>2, <2>4, <2>8, <2>9, <3>1 DEF PiecesOf
  <2>11. \A d \in Clients \ {c} : PiecesOf(d)'
    BY <2>1, <2>2, <2>4, <2>6 DEF Pieces, PiecesOf
  <2>12. \A g \in Handlers : hpc'[g] # "send" => hbytes'[g] = 0
    BY <2>4, <2>6 DEF Pieces
  <2> QED BY <2>4, <2>7, <2>10, <2>11, <2>12 DEF Pieces
<1>2. CASE EchoSend(h)
  <2>1. PICK c \in Clients : c = sock[h]
    BY <1>2 DEF EchoSend
  <2>2. \A g \in Handlers : sock[g] = c <=> g = h
    BY <2>1 DEF Alone
  <2>3. /\ toClient' = [toClient EXCEPT ![c] =
                          IF cpc[c] = "done" THEN 0 ELSE @ + hbytes[h]]
        /\ hbytes' = [hbytes EXCEPT ![h] = 0]
        /\ UNCHANGED <<sock, cpc, got, toServer>>
        /\ hpc' = [hpc EXCEPT ![h] = "read"]
    BY <1>2, <2>1 DEF EchoSend, SrvSend
  <2>4. /\ got[c] \in Nat /\ toServer[c] \in Nat /\ toClient[c] \in Nat
        /\ hbytes[h] \in Nat
    BY DEF Pieces
  <2>5. /\ toClient'[c] = IF cpc[c] = "done" THEN 0
                          ELSE toClient[c] + hbytes[h]
        /\ hbytes'[h] = 0
        /\ \A g \in Handlers : g # h => hbytes'[g] = hbytes[g]
        /\ \A d \in Clients : d # c => toClient'[d] = toClient[d]
    BY <2>3 DEF Pieces
  <2>6. toClient' \in [Clients -> Nat]
    BY <2>3, <2>4 DEF Pieces
  <2>7. PiecesOf(c)
    BY DEF Pieces
  <2>8. PiecesOf(c)'
    <3>1. cpc[c] \in {"read", "close"} =>
            toServer[c] + toClient'[c] + got[c] + hbytes'[h] = UNITS
      <4>1. cpc[c] \in {"read", "close"} =>
              toServer[c] + toClient[c] + got[c] + hbytes[h] = UNITS
        BY <2>1, <2>7 DEF PiecesOf
      <4> HIDE DEF EchoKinds
      <4> QED BY <2>4, <2>5, <4>1
    <3>2. cpc[c] \in Unsent => toClient'[c] = 0 /\ toServer[c] = 0 /\ got[c] = 0
      BY <2>1, <2>5, <2>7 DEF PiecesOf, Unsent
    <3> HIDE DEF EchoKinds
    <3> QED BY <2>2, <2>3, <2>5, <2>7, <3>1, <3>2 DEF PiecesOf
  <2>9. \A d \in Clients \ {c} : PiecesOf(d)'
    BY <2>1, <2>2, <2>3, <2>5 DEF Pieces, PiecesOf
  <2>10. \A g \in Handlers : hpc'[g] # "send" => hbytes'[g] = 0
    BY <2>3, <2>5 DEF Pieces
  <2> QED BY <2>3, <2>6, <2>8, <2>9, <2>10 DEF Pieces
<1>3. CASE EchoSendKills(h)
  BY <1>3, PiecesFrame DEF EchoSendKills, SrvSendKills, SrvExit
<1>4. CASE EchoClose(h, next)
  <2>1. sock[h] \in Clients /\ cpc[sock[h]] = "done"
    BY <1>4 DEF EchoClose, ReadEnds
  <2>2. /\ sock' = [sock EXCEPT ![h] = None]
        /\ hpc' = [hpc EXCEPT ![h] = next]
        /\ UNCHANGED <<cpc, got, toServer, toClient, hbytes>>
    BY <1>4 DEF EchoClose, SrvClose
  <2>3. hbytes[h] = 0
    BY <1>4 DEF EchoClose, Pieces
  <2>4. \A g \in Handlers : g # h => sock'[g] = sock[g] /\ hpc'[g] = hpc[g]
    BY <2>2
  <2>5. sock'[h] = None /\ hpc'[h] # "send"
    BY <2>2
  <2> QED BY <2>1, <2>2, <2>3, <2>4, <2>5 DEF Pieces, PiecesOf, Unsent
<1> QED BY <1>1, <1>2, <1>3, <1>4

(* The promise of the two servers' echo loops.                             *)
LEMMA AloneEchoes == Alone /\ Pieces /\ EchoKinds => EchoesOwnConnection
BY EchoAssumption DEF Alone, Pieces, PiecesOf, EchoKinds, EchoesOwnConnection

(* A send() on a connection resets no other.                               *)
LEMMA LoopResets ==
  ASSUME EchoKinds, reset \in SUBSET Clients, NEW h \in Handlers,
         sock[h] # None, NEW next,
         EchoRead(h) \/ EchoSend(h) \/ EchoSendKills(h) \/ EchoClose(h, next)
  PROVE  reset' \in SUBSET Clients
<1>1. CASE EchoSend(h)
  <2>1. sock[h] \in Clients
    BY DEF EchoKinds
  <2>2. reset' \in {reset, reset \cup {sock[h]}}
    BY <1>1 DEF EchoSend, SrvSend
  <2> QED BY <2>1, <2>2
<1>2. CASE EchoRead(h) \/ EchoSendKills(h) \/ EchoClose(h, next)
  BY <1>2 DEF EchoRead, SrvRead, EchoSendKills, SrvSendKills, SrvExit,
              EchoClose, SrvClose
<1> QED BY <1>1, <1>2

LEMMA ClientResets ==
  ASSUME reset \in SUBSET Clients, NEW c \in Clients, ClientStep(c)
  PROVE  reset' \in SUBSET Clients
BY DEF ClientStep, ClientProgress, Connect, CannotConnect, ReadEof,
       SendMessage, ReadReply, CloseClient, ClientKilled, Disconnect

(* The counts of pieces are within bounds.                                 *)
LEMMA PiecesType ==
  ASSUME EchoKinds, Pieces, reset \in SUBSET Clients
  PROVE  ClientTypeOK
<1>1. \A c \in Clients : toClient[c] \in 0..UNITS
  BY PiecesBound
<1>2. toClient \in [Clients -> 0..UNITS]
  BY <1>1 DEF Pieces
<1> QED BY <1>2 DEF EchoKinds, Pieces, ClientTypeOK
-----------------------------------------------------------------------------
(* What EchoService sees of the threads: what each connection's thread has *)
(* in hand.                                                                *)

(* A thread has something in hand exactly between its read() and its       *)
(* send().                                                                 *)
InHands == \A h \in Handlers : hpc[h] = "send" <=> hbytes[h] # 0

LEMMA HeldBy ==
  ASSUME Alone, NEW h \in Handlers, sock[h] \in Clients
  PROVE  PiecesHeld[sock[h]] = hbytes[h]
<1>1. sock[h] # None
  BY EchoAssumption
<1>2. (CHOOSE g \in Handlers : sock[g] = sock[h]) = h
  BY <1>1 DEF Alone
<1> QED BY <1>2 DEF PiecesHeld

LEMMA HeldStays ==
  ASSUME UNCHANGED <<sock, hbytes>>
  PROVE  PiecesHeld' = PiecesHeld
BY DEF PiecesHeld

(* A thread with nothing in hand takes a connection or gives it up.        *)
LEMMA HeldMoves ==
  ASSUME Alone, Alone', NEW h \in Handlers, hbytes[h] = 0, hbytes' = hbytes,
         \A g \in Handlers : g # h => sock'[g] = sock[g]
  PROVE  PiecesHeld' = PiecesHeld
<1>1. ASSUME NEW c \in Clients PROVE PiecesHeld'[c] = PiecesHeld[c]
  <2>1. CASE \E g \in Handlers : g # h /\ sock[g] = c
    <3>1. PICK g \in Handlers : g # h /\ sock[g] = c /\ sock'[g] = c
      BY <2>1
    <3>2. c # None
      BY EchoAssumption
    <3>3. /\ (CHOOSE f \in Handlers : sock[f] = c) = g
          /\ (CHOOSE f \in Handlers : sock'[f] = c) = g
      BY <3>1, <3>2 DEF Alone
    <3> QED BY <3>1, <3>3 DEF PiecesHeld
  <2>2. CASE ~\E g \in Handlers : g # h /\ sock[g] = c
    <3>1. PiecesHeld[c] = 0
      BY <2>2 DEF PiecesHeld
    <3>2. PiecesHeld'[c] = 0
      BY <2>2 DEF PiecesHeld
    <3> QED BY <3>1, <3>2
  <2> QED BY <2>1, <2>2
<1> QED BY <1>1 DEF PiecesHeld

LEMMA HeldChanges ==
  ASSUME Alone, NEW h \in Handlers, sock[h] \in Clients, NEW k,
         sock' = sock, hbytes \in [Handlers -> 0..UNITS],
         hbytes' = [hbytes EXCEPT ![h] = k]
  PROVE  PiecesHeld' = [PiecesHeld EXCEPT ![sock[h]] = k]
<1>1. ASSUME NEW c \in Clients
      PROVE  PiecesHeld'[c] = IF c = sock[h] THEN k ELSE PiecesHeld[c]
  <2>1. CASE \E g \in Handlers : sock[g] = c
    <3>1. PICK g \in Handlers : sock[g] = c
      BY <2>1
    <3>2. (CHOOSE f \in Handlers : sock[f] = c) = g
      BY <3>1, EchoAssumption DEF Alone
    <3>3. PiecesHeld[c] = hbytes[g] /\ PiecesHeld'[c] = hbytes'[g]
      BY <3>1, <3>2 DEF PiecesHeld
    <3>4. g = h <=> c = sock[h]
      BY <3>1, EchoAssumption DEF Alone
    <3> QED BY <3>3, <3>4
  <2>2. CASE ~\E g \in Handlers : sock[g] = c
    BY <2>2 DEF PiecesHeld
  <2> QED BY <2>1, <2>2
<1> QED BY <1>1 DEF PiecesHeld

(* Each step of the echo loop is one EchoService makes.                    *)
LEMMA LoopServes ==
  ASSUME EchoKinds, Alone, InHands, NEW h \in Handlers, NEW next,
         sock[h] \in Clients,
         EchoRead(h) \/ EchoSend(h) \/ EchoSendKills(h) \/ EchoClose(h, next)
  PROVE  LET c == sock[h] IN
         \/ /\ PiecesHeld[c] = 0 /\ alive' = alive
            /\ \E k \in 1..UNITS :
                 SrvRead(c, k) /\ PiecesHeld' = [PiecesHeld EXCEPT ![c] = k]
         \/ /\ PiecesHeld[c] > 0 /\ alive' = alive
            /\ SrvSend(c, PiecesHeld[c])
            /\ PiecesHeld' = [PiecesHeld EXCEPT ![c] = 0]
         \/ /\ PiecesHeld[c] > 0 /\ c \in reset /\ SrvExit
            /\ alive' = FALSE /\ PiecesHeld' = PiecesHeld
         \/ /\ PiecesHeld[c] = 0 /\ ReadEnds(c) /\ SrvClose(c)
            /\ alive' = alive /\ PiecesHeld' = PiecesHeld
<1> DEFINE c == sock[h]
<1>1. PiecesHeld[c] = hbytes[h] /\ hbytes \in [Handlers -> 0..UNITS]
  BY HeldBy DEF EchoKinds
<1>2. hpc[h] = "read" => PiecesHeld[c] = 0
  BY <1>1 DEF InHands
<1>3. hpc[h] = "send" => PiecesHeld[c] > 0
  <2>1. hbytes[h] \in Nat /\ (hpc[h] = "send" => hbytes[h] # 0)
    BY <1>1, UnitsAssumption DEF InHands
  <2> QED BY <1>1, <2>1
<1>4. CASE EchoRead(h)
  <2>1. PICK k \in 1..UNITS :
          SrvRead(c, k) /\ hbytes' = [hbytes EXCEPT ![h] = k]
    BY <1>4 DEF EchoRead
  <2>2. sock' = sock /\ alive' = alive /\ hpc[h] = "read"
    BY <1>4 DEF EchoRead
  <2>3. PiecesHeld' = [PiecesHeld EXCEPT ![c] = k]
    BY <1>1, <2>1, <2>2, HeldChanges
  <2> QED BY <1>2, <2>1, <2>2, <2>3
<1>5. CASE EchoSend(h)
  <2>1. /\ sock' = sock /\ alive' = alive /\ hpc[h] = "send"
        /\ hbytes' = [hbytes EXCEPT ![h] = 0] /\ SrvSend(c, hbytes[h])
    BY <1>5 DEF EchoSend
  <2>2. PiecesHeld' = [PiecesHeld EXCEPT ![c] = 0]
    BY <1>1, <2>1, HeldChanges
  <2> QED BY <1>1, <1>3, <2>1, <2>2
<1>6. CASE EchoSendKills(h)
  <2>1. /\ sock' = sock /\ hbytes' = hbytes /\ alive' = FALSE
        /\ hpc[h] = "send" /\ c \in reset /\ SrvExit
    BY <1>6 DEF EchoSendKills, SrvSendKills
  <2> QED BY <1>3, <2>1, HeldStays
<1>7. CASE EchoClose(h, next)
  <2>1. /\ sock' = [sock EXCEPT ![h] = None] /\ hbytes' = hbytes
        /\ alive' = alive /\ hpc[h] = "read" /\ ReadEnds(c) /\ SrvClose(c)
    BY <1>7 DEF EchoClose
  <2>2. sock \in [Handlers -> Clients \cup {None}]
    BY DEF EchoKinds
  <2>3. \A g \in Handlers : sock'[g] = IF g = h THEN None ELSE sock[g]
    BY <2>1, <2>2
  <2>4. Alone'
    BY <2>3 DEF Alone
  <2>5. PiecesHeld' = PiecesHeld
    BY <1>1, <1>2, <2>1, <2>3, <2>4, HeldMoves
  <2> QED BY <1>2, <2>1, <2>5
<1> QED BY <1>4, <1>5, <1>6, <1>7

(* The loop's steps keep what is in a thread's hands there.                *)
LEMMA InHandsLoop ==
  ASSUME EchoKinds, InHands, NEW h \in Handlers, NEW next, next # "send",
         EchoRead(h) \/ EchoSend(h) \/ EchoSendKills(h) \/ EchoClose(h, next)
  PROVE  InHands'
<1> USE DEF EchoKinds, InHands
<1>1. CASE EchoRead(h)
  BY <1>1 DEF EchoRead
<1>2. CASE EchoSend(h)
  BY <1>2 DEF EchoSend
<1>3. CASE EchoSendKills(h)
  BY <1>3 DEF EchoSendKills
<1>4. CASE EchoClose(h, next)
  BY <1>4 DEF EchoClose
<1> QED BY <1>1, <1>2, <1>3, <1>4
=============================================================================
