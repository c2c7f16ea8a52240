---------------------------- MODULE EchoClients ----------------------------
(***************************************************************************)
(* The TCP side that every server of sockets/hw2 talks to: the client      *)
(* program (client.c, the same in "server queue", "pserver pool" and       *)
(* "pserver", and client_tcp.c in "multiproto") and the part of the        *)
(* kernel's socket layer the two programs rely on.  The server modules     *)
(* EXTEND this one and add the threads of their server.c.                  *)
(*                                                                         *)
(* A connection is named by its client: each client process makes one      *)
(* connection, sends one message, reads one reply and closes.  TCP keeps   *)
(* no message boundaries, so the message is UNITS pieces that read() may   *)
(* return in any grouping; only how many pieces are where is modelled.     *)
(***************************************************************************)
EXTENDS Naturals, Sequences

CONSTANTS
  Clients,  \* the client processes, and so the connections
  BACKLOG,  \* how many completed connections the kernel keeps for accept()
  UNITS     \* in how many pieces the message can arrive

ASSUME BacklogAssumption == BACKLOG \in Nat \ {0}
ASSUME UnitsAssumption == UNITS \in Nat \ {0}

VARIABLES
  listening, \* the server socket accepts connections
  backlog,   \* connections completed by the kernel, not yet accepted
  cpc,       \* where each client is in main() of client.c
  got,       \* the pieces of the reply its read() returned
  toServer,  \* pieces sent by the client that the server has not read
  toClient,  \* pieces echoed by the server that the client has not read
  srv,       \* the server's descriptor of the connection
  reset      \* the connections torn down with data still under way

clientVars == <<listening, backlog, cpc, got, toServer, toClient, srv,
                reset>>

ClientStates == {"start", "send", "read", "close", "done", "failed"}

ClientTypeOK ==
  /\ listening \in BOOLEAN
  /\ backlog \in Seq(Clients)
  /\ cpc \in [Clients -> ClientStates]
  /\ got \in [Clients -> 0..UNITS]
  /\ toServer \in [Clients -> 0..UNITS]
  /\ toClient \in [Clients -> 0..UNITS]
  /\ srv \in [Clients -> {"none", "open", "closed", "gone"}]
  /\ reset \in SUBSET Clients

ClientInit ==
  /\ listening = FALSE
  /\ backlog = <<>>
  /\ cpc = [c \in Clients |-> "start"]
  /\ got = [c \in Clients |-> 0]
  /\ toServer = [c \in Clients |-> 0]
  /\ toClient = [c \in Clients |-> 0]
  /\ srv = [c \in Clients |-> "none"]
  /\ reset = {}

-----------------------------------------------------------------------------
(* main() of client.c, one action per system call that others can see.     *)

(* connect() completes against the kernel's backlog; the server's accept() *)
(* is not needed for it.                                                   *)
Connect(c) ==
  /\ cpc[c] = "start"
  /\ listening
  /\ Len(backlog) < BACKLOG
  /\ backlog' = Append(backlog, c)
  /\ cpc' = [cpc EXCEPT ![c] = "send"]
  /\ UNCHANGED <<listening, got, toServer, toClient, srv, reset>>

(* socket(), inet_pton() or connect() fails and main() returns -1.  No     *)
(* listening socket is one cause, an exhausted resource another.           *)
CannotConnect(c) ==
  /\ cpc[c] = "start"
  /\ cpc' = [cpc EXCEPT ![c] = "failed"]
  /\ UNCHANGED <<listening, backlog, got, toServer, toClient, srv, reset>>

(* send() of the whole message.  When the server process has already ended *)
(* nobody reads it and the next read() says so.                            *)
SendMessage(c) ==
  /\ cpc[c] = "send"
  /\ toServer' = [toServer EXCEPT ![c] = UNITS]
  /\ cpc' = [cpc EXCEPT ![c] = "read"]
  /\ UNCHANGED <<listening, backlog, got, toClient, srv, reset>>

(* The one read(): it blocks until some of the reply is there and returns  *)
(* any part of it.                                                         *)
ReadReply(c) ==
  /\ cpc[c] = "read"
  /\ \E k \in 1..toClient[c] :
       /\ got' = [got EXCEPT ![c] = k]
       /\ toClient' = [toClient EXCEPT ![c] = @ - k]
  /\ cpc' = [cpc EXCEPT ![c] = "close"]
  /\ UNCHANGED <<listening, backlog, toServer, srv, reset>>

(* read() returns 0 or -1: the server's descriptor is gone and nothing of  *)
(* a reply is left.                                                        *)
ReadEof(c) ==
  /\ cpc[c] = "read"
  /\ srv[c] \in {"closed", "gone"}
  /\ toClient[c] = 0
  /\ cpc' = [cpc EXCEPT ![c] = "close"]
  /\ UNCHANGED <<listening, backlog, got, toServer, toClient, srv, reset>>

(* close(), by the program or by the kernel when the process ends: with    *)
(* part of the reply unread the kernel resets the connection instead of    *)
(* finishing it.                                                           *)
Disconnect(c) ==
  /\ cpc' = [cpc EXCEPT ![c] = "done"]
  /\ reset' = IF toClient[c] > 0 THEN reset \cup {c} ELSE reset
  /\ toClient' = [toClient EXCEPT ![c] = 0]
  /\ UNCHANGED <<listening, backlog, got, toServer, srv>>

CloseClient(c) == cpc[c] = "close" /\ Disconnect(c)

(* The user interrupts a connected client.                                 *)
ClientKilled(c) == cpc[c] \in {"send", "read"} /\ Disconnect(c)

(* What a client does once connected; connecting is up to whoever starts   *)
(* the program, and interrupting it too, so only these steps are fair.     *)
ClientProgress(c) ==
  SendMessage(c) \/ ReadReply(c) \/ ReadEof(c) \/ CloseClient(c)

ClientStep(c) ==
  Connect(c) \/ CannotConnect(c) \/ ClientProgress(c) \/ ClientKilled(c)

-----------------------------------------------------------------------------
(* The kernel's side of the calls a server makes.  Each is a fragment of   *)
(* an action of the server modules and says what becomes of every variable *)
(* of this module.                                                         *)

(* listen() succeeds.                                                      *)
SrvListen ==
  /\ ~listening
  /\ listening' = TRUE
  /\ UNCHANGED <<backlog, cpc, got, toServer, toClient, srv, reset>>

(* accept() returns the oldest completed connection.                       *)
SrvAccept(c) ==
  /\ backlog # <<>>
  /\ c = Head(backlog)
  /\ backlog' = Tail(backlog)
  /\ srv' = [srv EXCEPT ![c] = "open"]
  /\ UNCHANGED <<listening, cpc, got, toServer, toClient, reset>>

(* read() returns k > 0 pieces.                                            *)
SrvRead(c, k) ==
  /\ k \in 1..toServer[c]
  /\ toServer' = [toServer EXCEPT ![c] = @ - k]
  /\ UNCHANGED <<listening, backlog, cpc, got, toClient, srv, reset>>

(* read() returns 0 or -1: the client has closed and its message is used   *)
(* up, or the connection was reset.                                        *)
ReadEnds(c) == cpc[c] = "done" /\ (toServer[c] = 0 \/ c \in reset)

SrvReadEnds(c) == ReadEnds(c) /\ UNCHANGED clientVars

(* send(..., 0) of k pieces.  After the client's close() the first send is *)
(* answered with a reset.                                                  *)
SrvSend(c, k) ==
  /\ c \notin reset
  /\ toClient' = [toClient EXCEPT ![c] = IF cpc[c] = "done" THEN 0 ELSE @ + k]
  /\ reset' = IF cpc[c] = "done" THEN reset \cup {c} ELSE reset
  /\ UNCHANGED <<listening, backlog, cpc, got, toServer, srv>>

(* close() of the connection's descriptor.                                 *)
SrvClose(c) ==
  /\ srv' = [srv EXCEPT ![c] = "closed"]
  /\ UNCHANGED <<listening, backlog, cpc, got, toServer, toClient, reset>>

(* The server process ends and the kernel closes every descriptor, those   *)
(* of connections waiting in the backlog included.                         *)
SrvExit ==
  /\ listening' = FALSE
  /\ backlog' = <<>>
  /\ srv' = [c \in Clients |->
               IF srv[c] = "open" \/ \E i \in 1..Len(backlog) : backlog[i] = c
               THEN "gone" ELSE srv[c]]
  /\ UNCHANGED <<cpc, got, toServer, toClient, reset>>

(* send(..., 0) on a connection already reset raises SIGPIPE, which no     *)
(* server handles: its default action ends the process.                    *)
SrvSendKills(c) ==
  /\ c \in reset
  /\ SrvExit
=============================================================================
