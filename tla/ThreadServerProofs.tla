------------------------- MODULE ThreadServerProofs -------------------------
(***************************************************************************)
(* Theorems about ThreadServer, for any number of clients, threads, heap   *)
(* cells and pieces.  The invariant of HandoverIsSafe is built in layers:  *)
(*                                                                         *)
(*   Kinds    the values of the variables;                                 *)
(*   Handed   what main() and the threads know of the heap: which cell is  *)
(*            whose, and what it holds at that moment;                     *)
(*   Held     no connection is in two places, and an open one is somewhere;*)
(*   Pieces   (EchoThreadsProofs) where the pieces of each message are.    *)
(***************************************************************************)
EXTENDS ThreadServer, EchoThreadsProofs

Kinds ==
  /\ EchoKinds
  /\ hpc \in [Handlers -> {"none", "start", "read", "send", "exited"}]
  /\ mpc \in {"boot", "malloc", "accept", "create"}
  /\ heap \in [Cells -> Clients \cup {None, Free}]
  /\ client_socket \in Cells \cup {None}
  /\ arg \in [Handlers -> Cells \cup {None}]
  /\ uncreated \in SUBSET Clients

(* main() has a cell while it waits for a connection and while it starts a *)
(* thread, and a thread has one until it has copied the descriptor.        *)
Handed ==
  /\ mpc \in {"accept", "create"} <=> client_socket # None
  /\ mpc = "accept" => heap[client_socket] = None
  /\ mpc = "create" => heap[client_socket] \in Clients
  /\ \A h \in Handlers : hpc[h] = "start" <=> arg[h] # None
  /\ \A h \in Handlers : hpc[h] = "start" =>
       heap[arg[h]] \in Clients /\ arg[h] # client_socket
  /\ \A g, h \in Handlers : arg[g] = arg[h] /\ arg[g] # None => g = h
  /\ \A x \in Cells : heap[x] # Free =>
       x = client_socket \/ \E h \in Handlers : arg[h] = x

(* Serving and Backlogged are about both echo servers.                     *)
Held ==
  /\ Backlogged
  /\ Serving
  /\ \A x, y \in Cells : heap[x] = heap[y] /\ heap[x] \in Clients => x = y
  /\ \A x \in Cells : heap[x] \notin uncreated
  /\ \A h \in Handlers : sock[h] \notin uncreated
  /\ \A x \in Cells, h \in Handlers : heap[x] \in Clients => heap[x] # sock[h]
  /\ LeakOnlyByFailedCreate

-----------------------------------------------------------------------------
LEMMA HandlerCases ==
  ASSUME NEW h \in Handlers, HandlerStep(h)
  PROVE  \/ TakeArg(h)
         \/ /\ \/ EchoRead(h) \/ EchoSend(h) \/ EchoSendKills(h)
               \/ EchoClose(h, "exited")
            /\ UNCHANGED <<mpc, heap, client_socket, arg, uncreated>>
BY DEF HandlerStep, heapVars

LEMMA KindsStep ==
  ASSUME Kinds, Handed, [Next]_vars
  PROVE  Kinds'
<1> USE DEF Kinds
<1>1. CASE UNCHANGED vars
  BY <1>1 DEF vars, echoVars, clientVars, heapVars, EchoKinds
<1>2. ASSUME NEW c \in Clients, ClientStep(c), EnvUnchanged PROVE Kinds'
  BY <1>2, EchoKindsClient DEF EnvUnchanged, heapVars
<1>3. CASE MainStep
  <2>1. CASE Boot
    BY <2>1 DEF Boot, SrvListen, EchoKinds, heapVars
  <2>2. CASE BootFails
    BY <2>2, EchoKindsExit DEF BootFails, SrvExit, EchoKinds, heapVars
  <2>3. CASE Malloc
    BY <2>3 DEF Malloc, echoVars, clientVars, EchoKinds
  <2>4. CASE Accept
    <3>1. PICK c \in Clients :
            SrvAccept(c) /\ heap' = [heap EXCEPT ![client_socket] = c]
      BY <2>4 DEF Accept
    <3>2. EchoKinds'
      BY <2>4, <3>1 DEF Accept, SrvAccept, EchoKinds
    <3> QED BY <2>4, <3>1, <3>2 DEF Accept
  <2>5. CASE AcceptFails
    BY <2>5 DEF AcceptFails, echoVars, clientVars, EchoKinds
  <2>6. CASE \E h \in Handlers : CreateThread(h)
    BY <2>6 DEF CreateThread, clientVars, EchoKinds, Labels
  <2>7. CASE CreateFails
    <3>1. heap[client_socket] \in Clients
      BY <2>7 DEF CreateFails, Handed
    <3> QED BY <2>7, <3>1 DEF CreateFails, echoVars, clientVars, EchoKinds
  <2> QED BY <1>3, <2>1, <2>2, <2>3, <2>4, <2>5, <2>6, <2>7 DEF MainStep
<1>4. ASSUME NEW h \in Handlers, HandlerStep(h) PROVE Kinds'
  <2>1. CASE TakeArg(h)
    <3>1. heap[arg[h]] \in Clients
      BY <2>1 DEF TakeArg, EchoStart, Handed
    <3> QED BY <2>1, <3>1 DEF TakeArg, EchoStart, EchoKinds, Labels, clientVars
  <2>2. CASE /\ \/ EchoRead(h) \/ EchoSend(h) \/ EchoSendKills(h)
                \/ EchoClose(h, "exited")
             /\ UNCHANGED <<mpc, heap, client_socket, arg, uncreated>>
    <3>1. EchoKinds'
      BY <2>2, EchoKindsLoop DEF Labels
    <3>2. hpc' \in [Handlers -> {"none", "start", "read", "send", "exited"}]
      BY <2>2 DEF EchoRead, EchoSend, EchoSendKills, EchoClose
    <3> QED BY <2>2, <3>1, <3>2
  <2> QED BY <1>4, <2>1, <2>2, HandlerCases
<1> QED BY <1>1, <1>2, <1>3, <1>4 DEF Next, ServerStep

-----------------------------------------------------------------------------
LEMMA HandedStep ==
  ASSUME Kinds, Handed, [Next]_vars
  PROVE  Handed'
<1> USE CellAssumption, EchoAssumption DEF Kinds
<1>1. CASE UNCHANGED vars
  BY <1>1 DEF vars, echoVars, heapVars, Handed
<1>2. ASSUME NEW c \in Clients, EnvUnchanged PROVE Handed'
  BY <1>2 DEF EnvUnchanged, heapVars, Handed
<1>3. CASE MainStep
  <2>1. CASE Boot \/ BootFails
    BY <2>1 DEF Boot, BootFails, heapVars, Handed
  <2>2. CASE Malloc
    <3>1. PICK x \in Cells : /\ heap[x] = Free
                             /\ heap' = [heap EXCEPT ![x] = None]
                             /\ client_socket' = x
      BY <2>2 DEF Malloc
    <3>2. \A h \in Handlers : hpc[h] = "start" => arg[h] # x
      BY <3>1 DEF Handed
    <3> QED BY <2>2, <3>1, <3>2 DEF Malloc, Handed, echoVars
  <2>3. CASE Accept
    <3>1. PICK c \in Clients : heap' = [heap EXCEPT ![client_socket] = c]
      BY <2>3 DEF Accept
    <3>2. client_socket \in Cells
      BY <2>3 DEF Accept, Handed
    <3> QED BY <2>3, <3>1, <3>2 DEF Accept, Handed
  <2>4. CASE AcceptFails \/ CreateFails
    <3>1. client_socket \in Cells
      BY <2>4 DEF AcceptFails, CreateFails, Handed
    <3> QED BY <2>4, <3>1 DEF AcceptFails, CreateFails, Handed, echoVars
  <2>5. ASSUME NEW h \in Handlers, CreateThread(h) PROVE Handed'
    <3>1. client_socket \in Cells /\ arg[h] = None
      BY <2>5 DEF CreateThread, Handed
    <3>2. \A g \in Handlers : arg[g] # client_socket
      BY <3>1 DEF Handed
    <3>3. /\ arg' = [arg EXCEPT ![h] = client_socket]
          /\ hpc' = [hpc EXCEPT ![h] = "start"]
          /\ client_socket' = None /\ mpc' = "malloc" /\ heap' = heap
          /\ heap[client_socket] \in Clients
      BY <2>5 DEF CreateThread, Handed
    <3> QED BY <3>1, <3>2, <3>3 DEF Handed
  <2> QED BY <1>3, <2>1, <2>2, <2>3, <2>4, <2>5 DEF MainStep
<1>4. ASSUME NEW h \in Handlers, HandlerStep(h) PROVE Handed'
  <2>1. CASE TakeArg(h)
    <3>1. /\ arg' = [arg EXCEPT ![h] = None]
          /\ hpc' = [hpc EXCEPT ![h] = "read"]
          /\ heap' = [heap EXCEPT ![arg[h]] = Free]
          /\ UNCHANGED <<mpc, client_socket>>
          /\ arg[h] \in Cells /\ arg[h] # client_socket
      BY <2>1 DEF TakeArg, EchoStart, Handed
    <3> QED BY <3>1 DEF Handed
  <2>2. CASE /\ \/ EchoRead(h) \/ EchoSend(h) \/ EchoSendKills(h)
                \/ EchoClose(h, "exited")
             /\ UNCHANGED <<mpc, heap, client_socket, arg, uncreated>>
    <3>1. \A g \in Handlers : hpc'[g] = "start" <=> hpc[g] = "start"
      BY <2>2 DEF EchoRead, EchoSend, EchoSendKills, EchoClose
    <3> QED BY <2>2, <3>1 DEF Handed
  <2> QED BY <1>4, <2>1, <2>2, HandlerCases
<1> QED BY <1>1, <1>2, <1>3, <1>4 DEF Next, ServerStep

LEMMA HandedCorrect == Spec => [](Kinds /\ Handed)
<1>1. Init => Kinds
  BY EchoKindsInit DEF Init, EchoInit, Kinds
<1>2. Init => Handed
  BY CellAssumption DEF Init, EchoInit, Handed
<1> QED BY <1>1, <1>2, KindsStep, HandedStep, PTL DEF Spec

-----------------------------------------------------------------------------
(* A step that moves no connection.                                        *)
LEMMA HeldFrame ==
  ASSUME Held, UNCHANGED <<heap, sock, srv, uncreated, alive>>,
         Backlogged',
         \A h \in Handlers : hpc'[h] \in {"read", "send"} <=>
                               hpc[h] \in {"read", "send"}
  PROVE  Held'
BY DEF Held, Serving, LeakOnlyByFailedCreate

LEMMA HeldMain ==
  ASSUME Kinds, Handed, Held, alive, MainStep
  PROVE  Held'
<1> USE CellAssumption, EchoAssumption DEF Kinds
<1>1. CASE Boot
  <2>1. Backlogged'
    BY <1>1 DEF Boot, SrvListen, Held, Backlogged
  <2> QED BY <1>1, <2>1, HeldFrame DEF Boot, SrvListen, heapVars
<1>2. CASE BootFails
  <2>1. Backlogged'
    BY <1>2, BackloggedExit DEF BootFails, Held
  <2> QED BY <1>2, <2>1
          DEF BootFails, heapVars, Held, Serving, LeakOnlyByFailedCreate
<1>3. CASE Malloc
  <2>1. PICK x \in Cells : heap[x] = Free /\ heap' = [heap EXCEPT ![x] = None]
    BY <1>3 DEF Malloc
  <2>2. UNCHANGED <<hpc, sock, cpc, srv, backlog, uncreated, alive>>
    BY <1>3 DEF Malloc, echoVars, clientVars
  <2>3. \A y \in Cells : heap'[y] = IF y = x THEN None ELSE heap[y]
    BY <2>1
  <2>4. \A c \in Clients :
          (\E y \in Cells : heap'[y] = c) <=> \E y \in Cells : heap[y] = c
    BY <2>1, <2>3
  <2> QED BY <2>1, <2>2, <2>3, <2>4
          DEF Held, Backlogged, Serving, LeakOnlyByFailedCreate
<1>4. CASE Accept
  <2>1. PICK c \in Clients :
          SrvAccept(c) /\ heap' = [heap EXCEPT ![client_socket] = c]
    BY <1>4 DEF Accept
  <2>2. srv[c] = "none" /\ Backlogged'
    BY <2>1, BackloggedAccept DEF Held
  <2>3. /\ c \notin uncreated
        /\ \A x \in Cells : heap[x] # c
        /\ \A h \in Handlers : sock[h] # c
    BY <2>2 DEF Held, LeakOnlyByFailedCreate
  <2>4. UNCHANGED <<hpc, sock, uncreated, alive>>
    BY <1>4 DEF Accept
  <2>5. client_socket \in Cells /\ heap[client_socket] = None
    BY <1>4 DEF Accept, Handed
  <2>6. \A y \in Cells : heap'[y] = IF y = client_socket THEN c ELSE heap[y]
    BY <2>1
  <2>7. \A d \in Clients : srv'[d] = IF d = c THEN "open" ELSE srv[d]
    BY <2>1 DEF SrvAccept, EchoKinds
  <2>8. \A d \in Clients :
          (\E y \in Cells : heap'[y] = d) <=>
            d = c \/ \E y \in Cells : heap[y] = d
    BY <2>5, <2>6
  <2>9. LeakOnlyByFailedCreate'
    BY <2>3, <2>4, <2>7, <2>8 DEF Held, LeakOnlyByFailedCreate
  <2>10. \A x, y \in Cells :
           heap'[x] = heap'[y] /\ heap'[x] \in Clients => x = y
    BY <2>3, <2>6 DEF Held
  <2> QED BY <2>2, <2>3, <2>4, <2>6, <2>9, <2>10 DEF Held, Serving
<1>5. CASE AcceptFails
  <2>1. /\ heap' = [heap EXCEPT ![client_socket] = Free]
        /\ client_socket \in Cells /\ heap[client_socket] = None
        /\ UNCHANGED <<hpc, sock, cpc, srv, backlog, uncreated, alive>>
    BY <1>5 DEF AcceptFails, Handed, echoVars, clientVars
  <2>2. \A y \in Cells :
          heap'[y] = IF y = client_socket THEN Free ELSE heap[y]
    BY <2>1
  <2>3. \A c \in Clients :
          (\E y \in Cells : heap'[y] = c) <=> \E y \in Cells : heap[y] = c
    BY <2>1, <2>2
  <2> QED BY <2>1, <2>2, <2>3
          DEF Held, Backlogged, Serving, LeakOnlyByFailedCreate
<1>6. ASSUME NEW h \in Handlers, CreateThread(h) PROVE Held'
  <2>1. Backlogged'
    BY <1>6 DEF CreateThread, clientVars, Held, Backlogged
  <2>2. hpc' = [hpc EXCEPT ![h] = "start"] /\ hpc[h] = "none"
    BY <1>6 DEF CreateThread
  <2>3. \A g \in Handlers : hpc'[g] \in {"read", "send"} <=>
                            hpc[g] \in {"read", "send"}
    BY <2>2
  <2> QED BY <1>6, <2>1, <2>3, HeldFrame DEF CreateThread, clientVars
<1>7. CASE CreateFails
  <2> DEFINE c == heap[client_socket]
  <2>1. client_socket \in Cells /\ c \in Clients
    BY <1>7 DEF CreateFails, Handed
  <2>2. /\ heap' = [heap EXCEPT ![client_socket] = Free]
        /\ uncreated' = uncreated \cup {c}
        /\ UNCHANGED <<hpc, sock, cpc, srv, backlog, alive>>
    BY <1>7 DEF CreateFails, echoVars, clientVars
  <2>3. \A y \in Cells :
          heap'[y] = IF y = client_socket THEN Free ELSE heap[y]
    BY <2>2
  <2>4. /\ \A y \in Cells : heap'[y] # c
        /\ \A h \in Handlers : sock[h] # c
    BY <2>1, <2>3 DEF Held
  <2>5. \A d \in Clients :
          (\E y \in Cells : heap[y] = d) <=>
            d = c \/ \E y \in Cells : heap'[y] = d
    BY <2>1, <2>3
  <2>6. LeakOnlyByFailedCreate'
    BY <2>2, <2>5 DEF Held, LeakOnlyByFailedCreate
  <2>7. \A y \in Cells : heap'[y] \notin uncreated'
    BY <2>1, <2>2, <2>3, <2>4 DEF Held
  <2>8. \A x, y \in Cells :
          heap'[x] = heap'[y] /\ heap'[x] \in Clients => x = y
    BY <2>3 DEF Held
  <2>9. \A y \in Cells, h \in Handlers :
          heap'[y] \in Clients => heap'[y] # sock[h]
    BY <2>3 DEF Held
  <2>10. Backlogged' /\ Serving'
    BY <2>2 DEF Held, Backlogged, Serving
  <2> QED BY <2>2, <2>4, <2>6, <2>7, <2>8, <2>9, <2>10 DEF Held
<1> QED BY <1>1, <1>2, <1>3, <1>4, <1>5, <1>6, <1>7 DEF MainStep

LEMMA HeldHandler ==
  ASSUME Kinds, Handed, Held, alive, NEW h \in Handlers, HandlerStep(h)
  PROVE  Held'
<1> USE CellAssumption, EchoAssumption DEF Kinds
<1>1. CASE TakeArg(h)
  <2> DEFINE x == arg[h]
             c == heap[x]
  <2>1. x \in Cells /\ c \in Clients
    BY <1>1 DEF TakeArg, EchoStart, Handed
  <2>2. /\ heap' = [heap EXCEPT ![x] = Free]
        /\ sock' = [sock EXCEPT ![h] = c]
        /\ hpc' = [hpc EXCEPT ![h] = "read"]
        /\ UNCHANGED <<cpc, srv, backlog, uncreated, alive>>
    BY <1>1 DEF TakeArg, EchoStart, clientVars
  <2>3. /\ \A y \in Cells : heap'[y] = IF y = x THEN Free ELSE heap[y]
        /\ \A g \in Handlers : sock'[g] = IF g = h THEN c ELSE sock[g]
    BY <2>2 DEF EchoKinds
  <2>4. /\ c \notin uncreated
        /\ \A y \in Cells : heap'[y] # c
        /\ \A g \in Handlers : sock[g] # c
        /\ sock[h] = None
    <3>1. hpc[h] = "start"
      BY <1>1 DEF TakeArg, EchoStart
    <3> QED BY <2>1, <2>3, <3>1 DEF Held, Serving
  <2>5. Serving'
    BY <2>1, <2>2, <2>3, <2>4 DEF Held, Serving
  <2>6. /\ Backlogged'
        /\ \A y \in Cells : heap'[y] \notin uncreated'
        /\ \A g \in Handlers : sock'[g] \notin uncreated'
        /\ \A y, z \in Cells :
             heap'[y] = heap'[z] /\ heap'[y] \in Clients => y = z
    <3>1. Backlogged'
      BY <2>2 DEF Held, Backlogged
    <3> QED BY <2>2, <2>3, <2>4, <3>1 DEF Held
  <2>7. \A y \in Cells, g \in Handlers :
          heap'[y] \in Clients => heap'[y] # sock'[g]
    BY <2>3, <2>4 DEF Held
  <2>8. LeakOnlyByFailedCreate'
    <3>1. \A d \in Clients :
            (\E y \in Cells : heap[y] = d) <=>
              d = c \/ \E y \in Cells : heap'[y] = d
      BY <2>1, <2>3
    <3>2. \A d \in Clients :
            (\E g \in Handlers : sock'[g] = d) <=>
              d = c \/ \E g \in Handlers : sock[g] = d
      BY <2>3, <2>4
    <3> QED BY <2>2, <3>1, <3>2 DEF Held, LeakOnlyByFailedCreate
  <2> QED BY <2>5, <2>6, <2>7, <2>8 DEF Held
<1>2. CASE /\ EchoRead(h) \/ EchoSend(h)
           /\ UNCHANGED <<mpc, heap, client_socket, arg, uncreated>>
  <2>1. Backlogged'
    BY <1>2 DEF EchoRead, EchoSend, SrvRead, SrvSend, Held, Backlogged
  <2>2. UNCHANGED <<sock, srv, alive>>
    BY <1>2 DEF EchoRead, EchoSend, SrvRead, SrvSend
  <2>3. \A g \in Handlers : hpc'[g] \in {"read", "send"} <=>
                            hpc[g] \in {"read", "send"}
    BY <1>2 DEF EchoRead, EchoSend
  <2> QED BY <1>2, <2>1, <2>2, <2>3, HeldFrame
<1>3. CASE /\ EchoSendKills(h)
           /\ UNCHANGED <<mpc, heap, client_socket, arg, uncreated>>
  <2>1. Backlogged'
    BY <1>3, BackloggedExit DEF EchoSendKills, SrvSendKills, Held
  <2> QED BY <1>3, <2>1
          DEF EchoSendKills, Held, Serving, LeakOnlyByFailedCreate
<1>4. CASE /\ EchoClose(h, "exited")
           /\ UNCHANGED <<mpc, heap, client_socket, arg, uncreated>>
  <2> DEFINE c == sock[h]
  <2>1. c \in Clients /\ SrvClose(c)
    BY <1>4 DEF EchoClose, EchoKinds, Held, Serving
  <2>2. /\ sock' = [sock EXCEPT ![h] = None]
        /\ hpc' = [hpc EXCEPT ![h] = "exited"]
        /\ srv' = [srv EXCEPT ![c] = "closed"]
        /\ UNCHANGED <<heap, uncreated, alive>>
    BY <1>4 DEF EchoClose, SrvClose
  <2>3. srv[c] = "open"
    BY <2>1 DEF Held, LeakOnlyByFailedCreate
  <2>4. Backlogged'
    BY <2>1, <2>3, BackloggedClose DEF Held
  <2>5. /\ \A g \in Handlers : sock'[g] = IF g = h THEN None ELSE sock[g]
        /\ \A d \in Clients : srv'[d] = IF d = c THEN "closed" ELSE srv[d]
    BY <2>2 DEF EchoKinds
  <2>6. Serving'
    BY <2>2, <2>5 DEF Held, Serving
  <2>7. \A g \in Handlers : sock'[g] # c
    BY <2>1, <2>5 DEF Held, Serving
  <2>8. LeakOnlyByFailedCreate'
    <3>1. /\ c \notin uncreated
          /\ \A x \in Cells : heap[x] # c
      BY <2>1 DEF Held
    <3>2. \A d \in Clients :
            (\E g \in Handlers : sock[g] = d) <=>
              d = c \/ \E g \in Handlers : sock'[g] = d
      BY <2>1, <2>5
    <3> QED BY <2>2, <2>5, <2>7, <3>1, <3>2 DEF Held, LeakOnlyByFailedCreate
  <2> QED BY <2>2, <2>4, <2>5, <2>6, <2>8 DEF Held
<1> QED BY <1>1, <1>2, <1>3, <1>4, HandlerCases

LEMMA HeldCorrect == Spec => []Held
<1>1. Init => Held
  BY BackloggedInit, CellAssumption, EchoAssumption
     DEF Init, EchoInit, ClientInit, Held, Serving, LeakOnlyByFailedCreate
<1>2. ASSUME Kinds, Handed, Held, [Next]_vars PROVE Held'
  <2>1. CASE UNCHANGED vars
    <3>1. Backlogged'
      BY <1>2, <2>1 DEF vars, echoVars, clientVars, Held, Backlogged
    <3> QED BY <1>2, <2>1, <3>1, HeldFrame
            DEF vars, echoVars, clientVars, heapVars
  <2>2. ASSUME NEW c \in Clients, ClientStep(c), EnvUnchanged PROVE Held'
    <3>1. Backlogged'
      BY <1>2, <2>2, BackloggedClient DEF Held, Kinds
    <3>2. srv' = srv
      BY <2>2 DEF ClientStep, ClientProgress, Connect, CannotConnect, ReadEof,
                  SendMessage, ReadReply, CloseClient, ClientKilled, Disconnect
    <3> QED BY <1>2, <2>2, <3>1, <3>2, HeldFrame DEF EnvUnchanged, heapVars
  <2> QED BY <1>2, <2>1, <2>2, HeldMain, HeldHandler DEF Next, ServerStep
<1> QED BY <1>1, <1>2, HandedCorrect, PTL DEF Spec

-----------------------------------------------------------------------------
LEMMA PiecesStep ==
  ASSUME Kinds, Handed, Held, Pieces, [Next]_vars
  PROVE  Pieces'
<1>1. CASE UNCHANGED vars
  BY <1>1, PiecesFrame DEF vars, echoVars, clientVars
<1>2. ASSUME NEW c \in Clients, ClientStep(c), EnvUnchanged PROVE Pieces'
  BY <1>2, PiecesClient DEF EnvUnchanged, Kinds
<1>3. CASE MainStep
  <2>1. UNCHANGED <<cpc, got, toServer, toClient, hbytes, sock>>
    BY <1>3 DEF MainStep, Boot, BootFails, Malloc, Accept, AcceptFails,
                CreateThread, CreateFails, SrvListen, SrvExit, SrvAccept,
                echoVars, clientVars
  <2>2. \A h \in Handlers : hpc'[h] = "send" <=> hpc[h] = "send"
    BY <1>3 DEF MainStep, Boot, BootFails, Malloc, Accept, AcceptFails,
                CreateThread, CreateFails, echoVars, Kinds
  <2> QED BY <2>1, <2>2, PiecesFrame
<1>4. ASSUME NEW h \in Handlers, HandlerStep(h) PROVE Pieces'
  <2>1. CASE TakeArg(h)
    <3>1. EchoStart(h, heap[arg[h]]) /\ heap[arg[h]] \in Clients
          /\ arg[h] \in Cells
      BY <2>1, CellAssumption DEF TakeArg, EchoStart, Handed, Kinds
    <3>2. \A g \in Handlers : sock[g] # heap[arg[h]]
      BY <3>1 DEF Held
    <3> QED BY <3>1, <3>2, PiecesStart DEF Held, Kinds
  <2>2. CASE \/ EchoRead(h) \/ EchoSend(h) \/ EchoSendKills(h)
             \/ EchoClose(h, "exited")
    <3>1. sock[h] # None /\ Alone
      BY <2>2 DEF EchoRead, EchoSend, EchoSendKills, EchoClose, Held,
                  Serving, Alone
    <3> QED BY <2>2, <3>1, PiecesLoop DEF Held, Kinds, Labels
  <2> QED BY <1>4, <2>1, <2>2, HandlerCases
<1> QED BY <1>1, <1>2, <1>3, <1>4 DEF Next, ServerStep

(* Whatever the order in which main() allocates cells and starts threads   *)
(* and the threads take their arguments and free them: each connection is  *)
(* in one pair of hands, only a failed pthread_create leaks one, and a     *)
(* thread echoes exactly what its client sent.                             *)
THEOREM HandoverCorrect == Spec => []HandoverIsSafe
<1>1. Init => Pieces
  BY PiecesInit DEF Init
<1>2. Kinds /\ Handed => CellsAreExclusive
  <2> SUFFICES ASSUME Kinds, Handed PROVE CellsAreExclusive
    OBVIOUS
  <2> USE CellAssumption DEF Kinds
  <2> DEFINE waiting == {h \in Handlers : hpc[h] = "start"}
  <2>1. \A g, h \in waiting : arg[g] = arg[h] => g = h
    BY DEF Handed
  <2>2. \A h \in waiting : arg[h] # client_socket /\ heap[arg[h]] \in Clients
    BY DEF Handed
  <2>3. ASSUME NEW x \in Cells, heap[x] # Free
        PROVE  x \in {arg[h] : h \in waiting} \cup ({client_socket} \ {None})
    BY <2>3 DEF Handed
  <2>4. \A h \in waiting : arg[h] \in Cells /\ heap[arg[h]] # Free
    BY DEF Handed
  <2>5. client_socket # None =>
          client_socket \in Cells /\ heap[client_socket] # Free
    BY DEF Handed
  <2> QED BY <2>1, <2>2, <2>3, <2>4, <2>5 DEF CellsAreExclusive
<1>3. Kinds /\ Handed /\ Held /\ Pieces => HandoverIsSafe
  BY <1>2, AloneEchoes DEF Kinds, Held, Serving, Alone, HandoverIsSafe
<1> QED BY <1>1, <1>3, PiecesStep, HandedCorrect, HeldCorrect, PTL DEF Spec

(* A reset is one of a client's connection: its client closed it with part *)
(* of the reply unread, or the thread that serves it sent to nobody.       *)
Resets == reset \in SUBSET Clients

LEMMA ResetsStep ==
  ASSUME Kinds, Held, Resets, [Next]_vars
  PROVE  Resets'
<1> USE DEF Resets
<1>1. CASE UNCHANGED vars
  BY <1>1 DEF vars, echoVars, clientVars
<1>2. ASSUME NEW c \in Clients, ClientStep(c) PROVE Resets'
  BY <1>2, ClientResets
<1>3. CASE MainStep
  BY <1>3 DEF MainStep, Boot, BootFails, Malloc, Accept, AcceptFails,
              CreateThread, CreateFails, SrvListen, SrvExit, SrvAccept,
              echoVars, clientVars
<1>4. ASSUME NEW h \in Handlers, HandlerStep(h) PROVE Resets'
  <2>1. CASE TakeArg(h)
    BY <2>1 DEF TakeArg, EchoStart, clientVars
  <2>2. CASE \/ EchoRead(h) \/ EchoSend(h) \/ EchoSendKills(h)
             \/ EchoClose(h, "exited")
    <3>1. sock[h] # None
      BY <2>2 DEF EchoRead, EchoSend, EchoSendKills, EchoClose, Held, Serving
    <3> QED BY <2>2, <3>1, LoopResets DEF Kinds
  <2> QED BY <1>4, <2>1, <2>2, HandlerCases
<1> QED BY <1>1, <1>2, <1>3, <1>4 DEF Next, ServerStep

(* Type correctness of the whole state; what a client has yet to read is   *)
(* never more than the message it sent.                                    *)
THEOREM ThreadTypeCorrect == Spec => []TypeOK
<1>1. Init => Pieces /\ Resets
  BY PiecesInit DEF Init, EchoInit, ClientInit, Resets
<1>2. Kinds /\ Pieces /\ Resets => TypeOK
  <2> SUFFICES ASSUME Kinds, Pieces, Resets PROVE TypeOK
    OBVIOUS
  <2>1. ClientTypeOK
    BY PiecesType DEF Kinds, Resets
  <2>2. hpc \in [Handlers ->
                   {"none", "start", "read", "send"} \cup {"exited"}]
    BY DEF Kinds
  <2> QED BY <2>1, <2>2 DEF Kinds, EchoKinds, TypeOK, EchoTypeOK
<1> QED BY <1>1, <1>2, PiecesStep, ResetsStep, HandedCorrect, HeldCorrect,
           PTL DEF Spec
-----------------------------------------------------------------------------
(* To its clients the server is EchoService.  Until main() listens nobody  *)
(* is connected, and from then on a connection is touched only by the one  *)
(* thread that has it.                                                     *)
Started == alive /\ mpc = "boot" => \A c \in Clients : srv[c] = "none"

(* What the steps of the service rest on.                                  *)
Served == Kinds /\ Handed /\ Held /\ InHands /\ Started

LEMMA ServedInit == Init => InHands /\ Started
<1> SUFFICES ASSUME Init PROVE InHands /\ Started
  OBVIOUS
<1>1. InHands
  BY DEF Init, EchoInit, InHands
<1>2. Started
  BY DEF Init, EchoInit, ClientInit, Started
<1> QED BY <1>1, <1>2

LEMMA HeldIsAlone == Held => Alone
BY DEF Held, Serving, Alone

LEMMA MainHands ==
  ASSUME Served, MainStep
  PROVE  InHands' /\ Started'
<1>1. hbytes' = hbytes
  BY DEF MainStep, Boot, BootFails, Malloc, Accept, AcceptFails,
         CreateThread, CreateFails, echoVars
<1>2. \A h \in Handlers : hpc'[h] = "send" <=> hpc[h] = "send"
  BY DEF MainStep, Boot, BootFails, Malloc, Accept, AcceptFails,
         CreateThread, CreateFails, echoVars, Served, Kinds
<1>3. InHands'
  BY <1>1, <1>2 DEF Served, InHands
<1>4. mpc' # "boot" \/ alive' = FALSE
  BY DEF MainStep, Boot, BootFails, Malloc, Accept, AcceptFails,
         CreateThread, CreateFails
<1> QED BY <1>3, <1>4 DEF Started

LEMMA HandlerHands ==
  ASSUME Served, alive, NEW h \in Handlers, HandlerStep(h)
  PROVE  InHands' /\ Started'
<1>1. CASE TakeArg(h)
  <2>1. /\ hpc[h] = "start" /\ hpc' = [hpc EXCEPT ![h] = "read"]
        /\ UNCHANGED <<hbytes, srv, mpc, alive>>
    BY <1>1 DEF TakeArg, EchoStart, clientVars
  <2>2. InHands'
    BY <2>1 DEF Served, Kinds, InHands
  <2> QED BY <2>1, <2>2 DEF Served, Started
<1>2. CASE /\ \/ EchoRead(h) \/ EchoSend(h) \/ EchoSendKills(h)
              \/ EchoClose(h, "exited")
           /\ UNCHANGED <<mpc, heap, client_socket, arg, uncreated>>
  <2>1. InHands'
    BY <1>2, InHandsLoop DEF Served, Kinds
  <2>2. CASE EchoRead(h) \/ EchoSend(h)
    BY <1>2, <2>1, <2>2 DEF EchoRead, EchoSend, SrvRead, SrvSend, Served,
                            Started
  <2>3. CASE EchoSendKills(h)
    BY <2>1, <2>3 DEF EchoSendKills, Started
  <2>4. CASE EchoClose(h, "exited")
    <3>1. sock[h] \in Clients
      BY <2>4 DEF EchoClose, Served, Kinds, EchoKinds, Held, Serving
    <3>2. srv[sock[h]] = "open"
      BY <3>1 DEF Served, Held, LeakOnlyByFailedCreate
    <3>3. mpc # "boot"
      BY <3>1, <3>2 DEF Served, Started
    <3> QED BY <1>2, <2>1, <3>3 DEF Started
  <2> QED BY <1>2, <2>2, <2>3, <2>4
<1> QED BY <1>1, <1>2, HandlerCases

LEMMA ServedCorrect == Spec => []Served
<1>1. ASSUME Served, [Next]_vars PROVE (InHands /\ Started)'
  <2>1. CASE UNCHANGED vars
    BY <1>1, <2>1 DEF vars, echoVars, clientVars, Served, InHands, Started
  <2>2. ASSUME NEW c \in Clients, ClientStep(c), EnvUnchanged
        PROVE  InHands' /\ Started'
    <3>1. srv' = srv
      BY <2>2 DEF ClientStep, ClientProgress, Connect, CannotConnect, ReadEof,
                  SendMessage, ReadReply, CloseClient, ClientKilled, Disconnect
    <3> QED BY <1>1, <2>2, <3>1 DEF EnvUnchanged, Served, InHands, Started
  <2> QED BY <1>1, <2>1, <2>2, MainHands, HandlerHands DEF Next, ServerStep
<1> QED BY <1>1, ServedInit, HandedCorrect, HeldCorrect, PTL DEF Spec, Served

LEMMA ServiceInit == Init => Service!Init
<1> SUFFICES ASSUME Init PROVE Service!Init
  OBVIOUS
<1>1. \A h \in Handlers : sock[h] \notin Clients
  BY EchoAssumption DEF Init, EchoInit
<1>2. PiecesHeld = [c \in Clients |-> 0]
  BY <1>1 DEF PiecesHeld
<1> QED BY <1>2 DEF Init, EchoInit, ClientInit, Service!Init,
                    Service!ClientInit

LEMMA ServiceClient ==
  ASSUME NEW c \in Clients, ClientStep(c), EnvUnchanged
  PROVE  Service!Next
<1>1. PiecesHeld' = PiecesHeld /\ alive' = alive
  BY HeldStays DEF EnvUnchanged
<1>2. Service!ClientStep(c)
  BY DEF ClientStep, ClientProgress, Connect, CannotConnect, ReadEof,
         SendMessage, ReadReply, CloseClient, ClientKilled, Disconnect,
         Service!ClientStep, Service!ClientProgress, Service!Connect,
         Service!CannotConnect, Service!ReadEof, Service!SendMessage,
         Service!ReadReply, Service!CloseClient, Service!ClientKilled,
         Service!Disconnect
<1> QED BY <1>1, <1>2 DEF Service!Next

LEMMA ServiceMain ==
  ASSUME Served, alive, MainStep
  PROVE  Service!Next \/ UNCHANGED Service!serviceVars
<1>1. PiecesHeld' = PiecesHeld
  <2>1. UNCHANGED <<sock, hbytes>>
    BY DEF MainStep, Boot, BootFails, Malloc, Accept, AcceptFails,
           CreateThread, CreateFails, echoVars
  <2> QED BY <2>1, HeldStays
<1>2. CASE Boot
  <2>1. Service!Listen
    BY <1>1, <1>2 DEF Boot, SrvListen, Service!Listen, Service!SrvListen
  <2> QED BY <2>1 DEF Service!Next, Service!Serve
<1>3. CASE BootFails
  <2>1. \A c \in Clients : srv[c] = "none"
    BY <1>3 DEF BootFails, Served, Started
  <2>2. Service!Exit
    BY <1>1, <1>3, <2>1
       DEF BootFails, SrvExit, Service!Exit, Service!SrvExit
  <2> QED BY <2>2 DEF Service!Next, Service!Serve
<1>4. CASE Accept
  <2>1. PICK c \in Clients : SrvAccept(c)
    BY <1>4 DEF Accept
  <2>2. Service!Accept(c)
    BY <1>1, <1>4, <2>1
       DEF Accept, SrvAccept, Service!Accept, Service!SrvAccept
  <2> QED BY <2>2 DEF Service!Next, Service!Serve
<1>5. CASE \/ Malloc \/ AcceptFails \/ CreateFails
           \/ \E h \in Handlers : CreateThread(h)
  <2>1. UNCHANGED <<clientVars, alive>>
    BY <1>5 DEF Malloc, AcceptFails, CreateFails, CreateThread, echoVars
  <2> QED BY <1>1, <2>1
          DEF clientVars, Service!serviceVars, Service!clientVars
<1> QED BY <1>2, <1>3, <1>4, <1>5 DEF MainStep

LEMMA ServiceHandler ==
  ASSUME Served, alive, NEW h \in Handlers, HandlerStep(h)
  PROVE  Service!Next \/ UNCHANGED Service!serviceVars
<1>1. CASE TakeArg(h)
  <2>1. /\ hpc[h] = "start" /\ arg[h] \in Cells /\ heap[arg[h]] \in Clients
        /\ sock' = [sock EXCEPT ![h] = heap[arg[h]]]
        /\ UNCHANGED <<clientVars, hbytes, alive>>
    BY <1>1, CellAssumption
       DEF TakeArg, EchoStart, Served, Kinds, Handed
  <2>2. \A g \in Handlers : sock[g] # heap[arg[h]]
    BY <2>1 DEF Served, Held
  <2>3. \A g \in Handlers :
          sock'[g] = IF g = h THEN heap[arg[h]] ELSE sock[g]
    BY <2>1 DEF Served, Kinds, EchoKinds
  <2>4. Alone /\ Alone'
    <3>1. Alone
      BY HeldIsAlone DEF Served
    <3> QED BY <2>2, <2>3, <3>1 DEF Alone
  <2>5. hbytes[h] = 0
    BY <2>1 DEF Served, InHands
  <2>6. PiecesHeld' = PiecesHeld
    BY <2>1, <2>3, <2>4, <2>5, HeldMoves
  <2> QED BY <2>1, <2>6
          DEF clientVars, Service!serviceVars, Service!clientVars
<1>2. CASE \/ EchoRead(h) \/ EchoSend(h) \/ EchoSendKills(h)
           \/ EchoClose(h, "exited")
  <2> DEFINE c == sock[h]
  <2>1. c \in Clients
    BY <1>2 DEF EchoRead, EchoSend, EchoSendKills, EchoClose, Served, Kinds,
                EchoKinds, Held, Serving
  <2>2. srv[c] = "open"
    BY <2>1 DEF Served, Held, LeakOnlyByFailedCreate
  <2>3. Alone /\ EchoKinds /\ InHands
    BY HeldIsAlone DEF Served, Kinds
  <2> HIDE DEF c
  <2>4. \/ Service!Read(c) \/ Service!Echo(c) \/ Service!Exit
        \/ Service!Close(c)
    BY <1>2, <2>1, <2>2, <2>3, LoopServes
       DEF c, SrvRead, SrvSend, SrvExit, SrvClose, ReadEnds,
           Service!Read, Service!Echo, Service!Exit, Service!Close,
           Service!SrvRead, Service!SrvSend, Service!SrvExit,
           Service!SrvClose, Service!ReadEnds
  <2> QED BY <2>1, <2>4 DEF Service!Next, Service!Serve
<1> QED BY <1>1, <1>2, HandlerCases

LEMMA ServiceStep ==
  ASSUME Served, [Next]_vars
  PROVE  [Service!Next]_(Service!serviceVars)
<1>1. CASE UNCHANGED vars
  <2>1. UNCHANGED <<clientVars, alive>> /\ PiecesHeld' = PiecesHeld
    BY <1>1, HeldStays DEF vars, echoVars
  <2> QED BY <2>1 DEF clientVars, Service!serviceVars, Service!clientVars
<1> QED BY <1>1, ServiceClient, ServiceMain, ServiceHandler
        DEF Next, ServerStep

(* However main() and the threads interleave, their clients cannot tell    *)
(* the server from one that echoes each connection by itself, closes it    *)
(* only when its client is gone and ends only by SIGPIPE or before it      *)
(* has accepted anybody.                                                   *)
THEOREM ThreadServiceCorrect == Spec => ServiceSpec
<1>1. Spec => Service!Init /\ [][Service!Next]_(Service!serviceVars)
  BY ServiceInit, ServiceStep, ServedCorrect, PTL DEF Spec
<1> QED BY <1>1 DEF ServiceSpec, Service!Spec
=============================================================================
