----------------------------- MODULE EchoThreads -----------------------------
(***************************************************************************)
(* The thread a server starts for one connection and its echo loop: the    *)
(* part of handle_client that sockets/hw2/pserver/server.c and             *)
(* sockets/hw2/pserver pool/server.c have in common.  How a thread gets    *)
(* its argument, and what it does after close(), is in ThreadServer and    *)
(* PoolServer, which EXTEND this module.                                   *)
(***************************************************************************)
EXTENDS EchoClients

CONSTANTS
  Handlers,  \* the threads pthread_create can start
  None       \* no connection

ASSUME EchoAssumption == None \notin Clients

VARIABLES
  hpc,      \* where each thread is; "none" before it is created
  sock,     \* its local sock
  hbytes,   \* what its last read() returned
  alive     \* the process has not ended

echoVars == <<clientVars, hpc, sock, hbytes, alive>>

EchoTypeOK(labels) ==
  /\ ClientTypeOK
  /\ hpc \in [Handlers -> {"none", "start", "read", "send"} \cup labels]
  /\ sock \in [Handlers -> Clients \cup {None}]
  /\ hbytes \in [Handlers -> 0..UNITS]
  /\ alive \in BOOLEAN

EchoInit ==
  /\ ClientInit
  /\ hpc = [h \in Handlers |-> "none"]
  /\ sock = [h \in Handlers |-> None]
  /\ hbytes = [h \in Handlers |-> 0]
  /\ alive = TRUE

(* The thread takes its argument; c is what it finds there.                *)
EchoStart(h, c) ==
  /\ hpc[h] = "start"
  /\ sock' = [sock EXCEPT ![h] = c]
  /\ hpc' = [hpc EXCEPT ![h] = "read"]
  /\ UNCHANGED <<clientVars, hbytes, alive>>

EchoRead(h) ==
  /\ hpc[h] = "read"
  /\ \E k \in 1..UNITS :
       /\ SrvRead(sock[h], k)
       /\ hbytes' = [hbytes EXCEPT ![h] = k]
  /\ hpc' = [hpc EXCEPT ![h] = "send"]
  /\ UNCHANGED <<sock, alive>>

(* With a fault: the last piece read is not sent.                          *)
EchoSendOneLess(h) ==
  /\ hpc[h] = "send"
  /\ SrvSend(sock[h], hbytes[h] - 1)
  /\ hbytes' = [hbytes EXCEPT ![h] = 0]
  /\ hpc' = [hpc EXCEPT ![h] = "read"]
  /\ UNCHANGED <<sock, alive>>

(* bytes_read is not used again before the next read(), so it is cleared.  *)
EchoSend(h) ==
  /\ hpc[h] = "send"
  /\ SrvSend(sock[h], hbytes[h])
  /\ hbytes' = [hbytes EXCEPT ![h] = 0]
  /\ hpc' = [hpc EXCEPT ![h] = "read"]
  /\ UNCHANGED <<sock, alive>>

(* SIGPIPE ends the process and with it every thread.                      *)
EchoSendKills(h) ==
  /\ hpc[h] = "send"
  /\ SrvSendKills(sock[h])
  /\ alive' = FALSE
  /\ UNCHANGED <<hpc, sock, hbytes>>

(* The last read() returns 0 or -1 and the connection is closed.           *)
EchoClose(h, next) ==
  /\ hpc[h] = "read"
  /\ ReadEnds(sock[h])
  /\ SrvClose(sock[h])
  /\ sock' = [sock EXCEPT ![h] = None]
  /\ hpc' = [hpc EXCEPT ![h] = next]
  /\ UNCHANGED <<hbytes, alive>>

(* No piece of a message is lost, duplicated or echoed to another client   *)
(* while its thread serves it, and no two threads serve one connection.    *)
EchoesOwnConnection ==
  /\ \A g, h \in Handlers : sock[g] = sock[h] /\ sock[g] # None => g = h
  /\ \A h \in Handlers :
       LET c == sock[h] IN
       c # None /\ cpc[c] \in {"read", "close"} =>
         toServer[c] + hbytes[h] + toClient[c] + got[c] = UNITS

(* What the threads hold of a connection is what its thread has read.      *)
PiecesHeld ==
  [c \in Clients |->
     IF \E h \in Handlers : sock[h] = c
     THEN hbytes[CHOOSE h \in Handlers : sock[h] = c] ELSE 0]
=============================================================================
