----------------------------- MODULE SocketPairs -----------------------------
(***************************************************************************)
(* sockets/hw1: four pairs of programs, over the network or a local socket,*)
(* with a connection or with datagrams.  A server serves one request and   *)
(* ends; a client sends one and waits for the reply.  The servers have one *)
(* name, a port or a path; the local datagram clients share a path too.    *)
(*                                                                         *)
(* A process is one run of a program, and any number may run at once.      *)
(* Messages are far shorter than the buffers and arrive whole.  A path is  *)
(* a file: it stays when its process is gone, until somebody removes it.   *)
(* A port is free with its process, but for a connection in TIME_WAIT.     *)
(***************************************************************************)
EXTENDS Naturals, Sequences, FiniteSets

CONSTANTS
  Servers, Clients,  \* the runs of the two programs of a pair
  BACKLOG,           \* the second argument of listen()
  None

Procs == Servers \cup Clients
Kinds == {"inet", "local"} \X {"stream", "datagram"}

VARIABLES
  kind,        \* which of the four pairs is run
  path,        \* who bound the servers' name last, None when it is free
  clientPath,  \* the same for CLIENT_SOCKET_PATH
  timewait,    \* a connection of an earlier server still occupies the port
  pc,
  queue,       \* connections to accept, or requests received, by server
  peer,        \* the server a client is connected to; the client served
  request,     \* clients whose request lies unread in their connection
  inbox,       \* the replies at each client, by whose request they answer
  got,         \* history: whose reply each client read
  overlapped,  \* history: runs during which the same program ran twice
  lost         \* history: clients with a datagram that reached nobody

vars == <<kind, path, clientPath, timewait, pc, queue, peer, request, inbox,
          got, overlapped, lost>>

Local == kind[1] = "local"
Stream == kind[2] = "stream"

Ended == {"done", "failed", "killed", "dead"}

TypeOK ==
  /\ kind \in Kinds
  /\ path \in Servers \cup {None} /\ clientPath \in Clients \cup {None}
  /\ timewait \in BOOLEAN
  /\ pc \in [Procs -> Ended \cup {"start", "bind", "accept", "send", "read",
                                  "write", "close", "unlink"}]
  /\ queue \in [Servers -> Seq(Clients)]
  /\ peer \in [Procs -> Procs \cup {None}]
  /\ request \subseteq Clients /\ lost \subseteq Clients
  /\ inbox \in [Clients -> Seq(Clients)]
  /\ got \in [Clients -> Clients \cup {None}]
  /\ overlapped \subseteq Procs

Init ==
  /\ kind \in Kinds
  /\ path = None /\ clientPath = None
  /\ timewait = FALSE
  /\ pc = [p \in Procs |-> "start"]
  /\ queue = [s \in Servers |-> <<>>]
  /\ peer = [p \in Procs |-> None]
  /\ request = {} /\ lost = {}
  /\ inbox = [c \in Clients |-> <<>>]
  /\ got = [c \in Clients |-> None]
  /\ overlapped = {}

names == <<path, clientPath, timewait>>
data == <<queue, peer, request, inbox, got, lost>>

Goes(p, from, to) == pc[p] = from /\ pc' = [pc EXCEPT ![p] = to]

\* The sockets of a process are open until its close() or its end.
SocketOpen(p) == p # None /\ pc[p] \notin Ended \cup {"unlink"}

\* p begins while others of its kind run.
Begins(p, others) ==
  LET running == {q \in others : pc[q] \notin Ended \cup {"start"}} IN
  overlapped' = overlapped \cup running
                           \cup (IF running = {} THEN {} ELSE {p})

-----------------------------------------------------------------------------
(* The servers.                                                            *)

(* With a fault: the path is left to the unlink() at the end.              *)
ServerUnlinkNothing(s) ==
  /\ Local
  /\ Goes(s, "start", "bind")
  /\ Begins(s, Servers)
  /\ UNCHANGED <<kind, names, data>>

(* The local ones first remove what an earlier run may have left.          *)
ServerUnlink(s) ==
  /\ Local
  /\ Goes(s, "start", "bind")
  /\ path' = None
  /\ Begins(s, Servers)
  /\ UNCHANGED <<kind, clientPath, timewait, data>>

(* bind(), and listen() where there are connections.                       *)
ServerBind(s) ==
  /\ IF Local THEN /\ pc[s] = "bind" /\ UNCHANGED overlapped
              ELSE /\ pc[s] = "start" /\ Begins(s, Servers)
  /\ \/ /\ path = None /\ ~timewait
        /\ path' = s
        /\ pc' = [pc EXCEPT ![s] = IF Stream THEN "accept" ELSE "read"]
     \/ /\ path # None \/ timewait
        /\ pc' = [pc EXCEPT ![s] = "failed"]
        /\ UNCHANGED path
  /\ UNCHANGED <<kind, clientPath, timewait, data>>

Accept(s) ==
  /\ Goes(s, "accept", "read")
  /\ queue[s] # <<>>
  /\ peer' = [peer EXCEPT ![s] = Head(queue[s])]
  /\ queue' = [queue EXCEPT ![s] = Tail(@)]
  /\ UNCHANGED <<kind, names, request, inbox, got, overlapped, lost>>

(* With a fault: the server goes on reading until there is a request.      *)
ReadPatiently(s) ==
  /\ Stream /\ Goes(s, "read", "write")
  /\ peer[s] \in request
  /\ request' = request \ {peer[s]}
  /\ UNCHANGED <<kind, names, queue, peer, inbox, got, overlapped, lost>>

(* read() returns with the request, or because the client is gone.  The    *)
(* server does not look which; strcat() to a buffer that was never filled  *)
(* may crash it, which is ServerDies before the next step.                 *)
ReadRequest(s) ==
  /\ Stream /\ Goes(s, "read", "write")
  /\ peer[s] \in request \/ ~SocketOpen(peer[s])
  /\ request' = request \ {peer[s]}
  /\ UNCHANGED <<kind, names, queue, peer, inbox, got, overlapped, lost>>

ReceiveRequest(s) ==
  /\ ~Stream /\ Goes(s, "read", "write")
  /\ queue[s] # <<>>
  /\ peer' = [peer EXCEPT ![s] = Head(queue[s])]
  /\ queue' = [queue EXCEPT ![s] = Tail(@)]
  /\ UNCHANGED <<kind, names, request, inbox, got, overlapped, lost>>

(* With a fault: datagrams go back to whoever sent the last one.           *)
ReplyToLatest(s) ==
  LET latest == IF queue[s] = <<>> THEN peer[s]
                                   ELSE queue[s][Len(queue[s])]
      to == IF Local /\ ~Stream THEN clientPath ELSE latest IN
  /\ pc[s] = "write"
  /\ \/ /\ SocketOpen(to)
        /\ inbox' = [inbox EXCEPT ![to] = Append(@, peer[s])]
        /\ pc' = [pc EXCEPT ![s] = "close"]
        /\ UNCHANGED lost
     \/ /\ ~SocketOpen(to) \/ kind = <<"inet", "datagram">>
        /\ pc' = [pc EXCEPT ![s] = IF Local /\ Stream THEN "killed"
                                                      ELSE "close"]
        /\ lost' = lost \cup {peer[s]}
        /\ UNCHANGED inbox
  /\ UNCHANGED <<kind, names, queue, peer, request, got, overlapped>>

(* The reply goes to the client's socket; for local datagrams, to whoever  *)
(* has the clients' path by now.  A network may lose a datagram.  A local  *)
(* connection without its client raises SIGPIPE.                           *)
Reply(s) ==
  LET to == IF Local /\ ~Stream THEN clientPath ELSE peer[s] IN
  /\ pc[s] = "write"
  /\ \/ /\ SocketOpen(to)
        /\ inbox' = [inbox EXCEPT ![to] = Append(@, peer[s])]
        /\ pc' = [pc EXCEPT ![s] = "close"]
        /\ UNCHANGED lost
     \/ /\ ~SocketOpen(to) \/ kind = <<"inet", "datagram">>
        /\ pc' = [pc EXCEPT ![s] = IF Local /\ Stream THEN "killed"
                                                      ELSE "close"]
        /\ lost' = lost \cup {peer[s]}
        /\ UNCHANGED inbox
  /\ UNCHANGED <<kind, names, queue, peer, request, got, overlapped>>

(* The kernel's part of the end of a server's sockets: its port is free,   *)
(* except that the side that closes a connection first stays in TIME_WAIT. *)
PortFreed(s) ==
  /\ path' = IF ~Local /\ path = s THEN None ELSE path
  /\ timewait' = \/ timewait
                 \/ /\ kind = <<"inet", "stream">>
                    /\ SocketOpen(peer[s]) /\ peer[s] \notin request

ServerClose(s) ==
  /\ Goes(s, "close", IF Local THEN "unlink" ELSE "done")
  /\ PortFreed(s)
  /\ UNCHANGED <<kind, clientPath, data, overlapped>>

ServerUnlinkEnd(s) ==
  /\ Goes(s, "unlink", "done")
  /\ path' = None
  /\ UNCHANGED <<kind, clientPath, timewait, data, overlapped>>

ServerStep(s) ==
  \/ pc[s] = "bind" /\ ServerBind(s)
  \/ Accept(s) \/ ReadRequest(s) \/ ReceiveRequest(s)
  \/ Reply(s) \/ ServerClose(s) \/ ServerUnlinkEnd(s)

-----------------------------------------------------------------------------
(* The clients with a connection.                                          *)

(* connect() waits while the backlog is full.                              *)
Connect(c) ==
  /\ Stream /\ pc[c] = "start"
  /\ Begins(c, Clients)
  /\ \/ /\ SocketOpen(path) /\ Len(queue[path]) <= BACKLOG
        /\ queue' = [queue EXCEPT ![path] = Append(@, c)]
        /\ peer' = [peer EXCEPT ![c] = path]
        /\ pc' = [pc EXCEPT ![c] = "write"]
     \/ /\ ~SocketOpen(path)
        /\ pc' = [pc EXCEPT ![c] = "failed"]
        /\ UNCHANGED <<queue, peer>>
  /\ UNCHANGED <<kind, names, request, inbox, got, lost>>

(* When the server is gone, write() fails unnoticed on the network and     *)
(* raises SIGPIPE on a local socket.                                       *)
ClientWrite(c) ==
  /\ pc[c] = "write"
  /\ \/ /\ SocketOpen(peer[c])
        /\ request' = request \cup {c}
        /\ pc' = [pc EXCEPT ![c] = "read"]
     \/ /\ ~SocketOpen(peer[c])
        /\ pc' = [pc EXCEPT ![c] = IF Local THEN "killed" ELSE "read"]
        /\ UNCHANGED request
  /\ UNCHANGED <<kind, names, queue, peer, inbox, got, overlapped, lost>>

-----------------------------------------------------------------------------
(* The clients with datagrams.                                             *)

ClientUnlink(c) ==
  /\ Local /\ ~Stream
  /\ Goes(c, "start", "bind")
  /\ clientPath' = None
  /\ Begins(c, Clients)
  /\ UNCHANGED <<kind, path, timewait, data>>

ClientBind(c) ==
  /\ Goes(c, "bind", IF clientPath = None THEN "send" ELSE "failed")
  /\ clientPath' = IF clientPath = None THEN c ELSE clientPath
  /\ UNCHANGED <<kind, path, timewait, data, overlapped>>

(* sendto(): without a server the request is lost; nobody notices.         *)
ClientSend(c) ==
  /\ ~Stream
  /\ IF Local THEN /\ Goes(c, "send", "read") /\ UNCHANGED overlapped
              ELSE /\ Goes(c, "start", "read") /\ Begins(c, Clients)
  /\ \/ /\ SocketOpen(path)
        /\ queue' = [queue EXCEPT ![path] = Append(@, c)]
        /\ UNCHANGED lost
     \/ /\ ~SocketOpen(path) \/ ~Local
        /\ lost' = lost \cup {c}
        /\ UNCHANGED queue
  /\ UNCHANGED <<kind, names, peer, request, inbox, got>>

-----------------------------------------------------------------------------
(* Both.                                                                   *)

(* A connection also ends the wait when the server is gone.                *)
ClientRead(c) ==
  /\ Goes(c, "read", "close")
  /\ \/ /\ inbox[c] # <<>>
        /\ got' = [got EXCEPT ![c] = Head(inbox[c])]
        /\ inbox' = [inbox EXCEPT ![c] = Tail(@)]
     \/ /\ Stream /\ inbox[c] = <<>> /\ ~SocketOpen(peer[c])
        /\ UNCHANGED <<got, inbox>>
  /\ UNCHANGED <<kind, names, queue, peer, request, overlapped, lost>>

ClientClose(c) ==
  /\ Goes(c, "close", IF Local /\ ~Stream THEN "unlink" ELSE "done")
  /\ UNCHANGED <<kind, names, data, overlapped>>

ClientUnlinkEnd(c) ==
  /\ Goes(c, "unlink", "done")
  /\ clientPath' = None
  /\ UNCHANGED <<kind, path, timewait, data, overlapped>>

ClientStep(c) ==
  \/ ClientBind(c) \/ (pc[c] = "send" /\ ClientSend(c))
  \/ ClientWrite(c) \/ ClientRead(c) \/ ClientClose(c) \/ ClientUnlinkEnd(c)

-----------------------------------------------------------------------------
(* An interrupt, and the end of TIME_WAIT.                                 *)

ServerDies(s) ==
  /\ pc[s] \notin Ended \cup {"start"}
  /\ pc' = [pc EXCEPT ![s] = "dead"]
  /\ PortFreed(s)
  /\ UNCHANGED <<kind, clientPath, data, overlapped>>

ClientDies(c) ==
  /\ pc[c] \notin Ended \cup {"start"}
  /\ pc' = [pc EXCEPT ![c] = "dead"]
  /\ UNCHANGED <<kind, names, data, overlapped>>

TimeWaitOver ==
  /\ timewait /\ timewait' = FALSE
  /\ UNCHANGED <<kind, path, clientPath, pc, data, overlapped>>

Next ==
  \/ \E s \in Servers :
       ServerUnlink(s) \/ ServerBind(s) \/ ServerStep(s) \/ ServerDies(s)
  \/ \E c \in Clients :
       \/ Connect(c) \/ ClientUnlink(c) \/ ClientSend(c)
       \/ ClientStep(c) \/ ClientDies(c)
  \/ TimeWaitOver

Spec == Init /\ [][Next]_vars

(* A process that can go on does; nobody has to start one.                 *)
Fairness ==
  /\ \A s \in Servers : WF_vars(ServerStep(s))
  /\ \A c \in Clients : WF_vars(ClientStep(c))

FairSpec == Spec /\ Fairness

-----------------------------------------------------------------------------
(* A server run while no other one runs comes up, whatever earlier runs    *)
(* left behind, and clients can reach it as long as it waits for its       *)
(* request.  The one exception is the network server with a connection,    *)
(* which sets no SO_REUSEADDR: its port is still taken, but only if an     *)
(* earlier run, interrupted or not, had a connection to close.  Two        *)
(* servers at once do take each other's path away.                         *)
ServerReachable ==
  \A s \in Servers \ overlapped :
    /\ pc[s] = "failed" =>
         /\ kind = <<"inet", "stream">>
         /\ \E t \in Servers : pc[t] \in {"done", "dead"} /\ peer[t] # None
    /\ pc[s] = "accept" \/ (pc[s] = "read" /\ ~Stream) => path = s

(* A client reads the reply to its own request, whoever else sends to the  *)
(* server.  Only the path the local datagram clients share can lead a      *)
(* reply astray, when two of them run at once or one was interrupted.      *)
OwnReply ==
  \A c \in Clients : got[c] \notin {c, None} =>
    /\ kind = <<"local", "datagram">>
    /\ \E a \in Clients : a \in overlapped \/ pc[a] = "dead"

(* A client ends once it is connected, even if the server serves another   *)
(* one and closes, and so does a datagram client whose request the server  *)
(* has taken: unless the reply is lost or its path taken, or the server    *)
(* interrupted.                                                            *)
PromisedClientEnds ==
  \A c \in Clients :
    \/ Stream /\ pc[c] = "write"
    \/ \E s \in Servers : pc[s] = "write" /\ peer[s] = c
    ~> \/ pc[c] \in Ended
       \/ ~Stream /\ \/ c \in lost \/ (Local /\ c \in overlapped)
                     \/ \E s \in Servers : pc[s] = "dead" /\ peer[s] = c
=============================================================================
