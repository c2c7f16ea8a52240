----------------------------- MODULE EchoService -----------------------------
(***************************************************************************)
(* What the servers of sockets/hw2 promise to their TCP clients, as if     *)
(* each connection had a server of its own: whatever one read() returned   *)
(* is sent back by one send() before the next, the connection is closed    *)
(* only when its client is gone and nothing of it is left in hand (or, in  *)
(* one server, before anything of it was read), and no connection is ever  *)
(* touched on behalf of another one.                                       *)
(* There are no threads, queues, cells or numbers here, and who is kept    *)
(* waiting behind whom is left open.                                       *)
(***************************************************************************)
EXTENDS EchoClients

CONSTANTS
  ACCEPT_IS_FATAL,  \* a failed accept() ends the process
  CAN_REFUSE        \* a connection may be closed before it is served

VARIABLES
  held,  \* the pieces of each connection between read() and send()
  alive  \* the process has not ended

serviceVars == <<clientVars, held, alive>>

Init ==
  /\ ClientInit
  /\ held = [c \in Clients |-> 0]
  /\ alive = TRUE

Listen == SrvListen /\ UNCHANGED <<held, alive>>

Accept(c) == SrvAccept(c) /\ UNCHANGED <<held, alive>>

Read(c) ==
  /\ srv[c] = "open" /\ held[c] = 0
  /\ \E k \in 1..UNITS : /\ SrvRead(c, k)
                         /\ held' = [held EXCEPT ![c] = k]
  /\ UNCHANGED alive

Echo(c) ==
  /\ srv[c] = "open" /\ held[c] > 0
  /\ SrvSend(c, held[c])
  /\ held' = [held EXCEPT ![c] = 0]
  /\ UNCHANGED alive

(* All the client has sent is still to be read.                            *)
Untouched(c) == cpc[c] = "send" \/ toServer[c] = UNITS

Close(c) ==
  /\ srv[c] = "open" /\ held[c] = 0
  /\ ReadEnds(c) \/ (CAN_REFUSE /\ Untouched(c))
  /\ SrvClose(c)
  /\ UNCHANGED <<held, alive>>

(* The process ends before it has accepted anybody, or with nothing in     *)
(* hand, or by SIGPIPE.                                                    *)
Exit ==
  /\ \/ \A c \in Clients : srv[c] = "none"
     \/ ACCEPT_IS_FATAL /\ \A c \in Clients : held[c] = 0
     \/ \E c \in Clients : srv[c] = "open" /\ held[c] > 0 /\ c \in reset
  /\ SrvExit
  /\ alive' = FALSE
  /\ UNCHANGED held

Serve ==
  \/ Listen \/ Exit
  \/ \E c \in Clients : Accept(c) \/ Read(c) \/ Echo(c) \/ Close(c)

Next ==
  \/ alive /\ Serve
  \/ \E c \in Clients : ClientStep(c) /\ UNCHANGED <<held, alive>>

Spec == Init /\ [][Next]_serviceVars
=============================================================================
