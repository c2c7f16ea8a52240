---------------------------- MODULE ThreadServer ----------------------------
(***************************************************************************)
(* sockets/hw2/pserver/server.c: one thread per connection.  main() hands  *)
(* the descriptor over in a heap cell that it allocates before accept()    *)
(* and the thread frees; threads are neither joined nor detached.          *)
(***************************************************************************)
EXTENDS EchoThreads

CONSTANTS
  Cells,  \* heap cells for one int
  Free    \* the content of a cell that is not allocated

ASSUME CellAssumption == Free \notin Clients \cup {None} /\ None \notin Cells

VARIABLES
  mpc,            \* where main() is
  heap,           \* what each cell holds
  client_socket,  \* main()'s pointer: a cell, or None
  arg,            \* the pointer each thread was created with
  uncreated       \* history: the connections whose pthread_create failed

heapVars == <<heap, client_socket, arg>>
vars == <<echoVars, mpc, heapVars, uncreated>>

TypeOK ==
  /\ EchoTypeOK({"exited"})
  /\ mpc \in {"boot", "malloc", "accept", "create"}
  /\ heap \in [Cells -> Clients \cup {None, Free}]
  /\ client_socket \in Cells \cup {None}
  /\ arg \in [Handlers -> Cells \cup {None}]
  /\ uncreated \in SUBSET Clients

Init ==
  /\ EchoInit
  /\ mpc = "boot"
  /\ heap = [x \in Cells |-> Free]
  /\ client_socket = None
  /\ arg = [h \in Handlers |-> None]
  /\ uncreated = {}

-----------------------------------------------------------------------------
(* main().                                                                 *)

(* socket, bind and listen succeed.                                        *)
Boot ==
  /\ mpc = "boot"
  /\ SrvListen
  /\ mpc' = "malloc"
  /\ UNCHANGED <<hpc, sock, hbytes, alive, heapVars, uncreated>>

BootFails ==
  /\ mpc = "boot"
  /\ SrvExit
  /\ alive' = FALSE
  /\ UNCHANGED <<hpc, sock, hbytes, mpc, heapVars, uncreated>>

(* malloc may hand out a cell that a thread has just freed.  Cells is      *)
(* large enough for malloc not to fail, which the code does not check.     *)
Malloc ==
  /\ mpc = "malloc"
  /\ \E x \in Cells :
       /\ heap[x] = Free
       /\ heap' = [heap EXCEPT ![x] = None]
       /\ client_socket' = x
  /\ mpc' = "accept"
  /\ UNCHANGED <<echoVars, arg, uncreated>>

Accept ==
  /\ mpc = "accept"
  /\ \E c \in Clients :
       /\ SrvAccept(c)
       /\ heap' = [heap EXCEPT ![client_socket] = c]
  /\ mpc' = "create"
  /\ UNCHANGED <<hpc, sock, hbytes, alive, client_socket, arg, uncreated>>

(* A failed accept() frees the cell and the loop allocates another.        *)
AcceptFails ==
  /\ mpc = "accept"
  /\ heap' = [heap EXCEPT ![client_socket] = Free]
  /\ client_socket' = None
  /\ mpc' = "malloc"
  /\ UNCHANGED <<echoVars, arg, uncreated>>

CreateThread(h) ==
  /\ mpc = "create"
  /\ hpc[h] = "none"
  /\ hpc' = [hpc EXCEPT ![h] = "start"]
  /\ arg' = [arg EXCEPT ![h] = client_socket]
  /\ client_socket' = None
  /\ mpc' = "malloc"
  /\ UNCHANGED <<clientVars, sock, hbytes, alive, heap, uncreated>>

(* The cell is freed but the connection is not closed: the descriptor is   *)
(* known to nobody from here on.                                           *)
CreateFails ==
  /\ mpc = "create"
  /\ uncreated' = uncreated \cup {heap[client_socket]}
  /\ heap' = [heap EXCEPT ![client_socket] = Free]
  /\ client_socket' = None
  /\ mpc' = "malloc"
  /\ UNCHANGED <<echoVars, arg>>

MainStep ==
  \/ Boot \/ BootFails \/ Malloc \/ Accept \/ AcceptFails \/ CreateFails
  \/ \E h \in Handlers : CreateThread(h)

-----------------------------------------------------------------------------
(* handle_client.                                                          *)

(* With a fault: the cell is not freed.                                    *)
TakeArgWithoutFree(h) ==
  /\ EchoStart(h, heap[arg[h]])
  /\ arg' = [arg EXCEPT ![h] = None]
  /\ UNCHANGED <<mpc, heap, client_socket, uncreated>>

(* The descriptor is copied out of the cell before the cell is freed.      *)
TakeArg(h) ==
  /\ EchoStart(h, heap[arg[h]])
  /\ heap' = [heap EXCEPT ![arg[h]] = Free]
  /\ arg' = [arg EXCEPT ![h] = None]
  /\ UNCHANGED <<mpc, client_socket, uncreated>>

(* A finished thread is never joined, so it is not used again.             *)
HandlerStep(h) ==
  \/ TakeArg(h)
  \/ /\ EchoRead(h) \/ EchoSend(h) \/ EchoSendKills(h) \/ EchoClose(h, "exited")
     /\ UNCHANGED <<mpc, heapVars, uncreated>>

-----------------------------------------------------------------------------
ServerStep == alive /\ (MainStep \/ \E h \in Handlers : HandlerStep(h))

EnvUnchanged ==
  UNCHANGED <<hpc, sock, hbytes, alive, mpc, heapVars, uncreated>>

Next == ServerStep \/ \E c \in Clients : ClientStep(c) /\ EnvUnchanged

Spec == Init /\ [][Next]_vars

(* Every thread that can run runs, accept() does not fail for ever while a *)
(* connection waits, and connected clients go through their main().        *)
Fairness ==
  /\ WF_vars(alive /\ MainStep)
  /\ SF_vars(alive /\ Accept)
  /\ \A h \in Handlers : WF_vars(alive /\ HandlerStep(h))
  /\ \A c \in Clients : WF_vars(ClientProgress(c) /\ EnvUnchanged)

FairSpec == Spec /\ Fairness

-----------------------------------------------------------------------------
(* Each connection travels through a cell of its own: the cell main() is   *)
(* filling and the cells of the threads that have not started yet are all  *)
(* different and allocated, so no accept() overwrites a descriptor a new   *)
(* thread has yet to read, no cell is read after it was freed, and when    *)
(* every thread has started only main()'s cell is still allocated.         *)
CellsAreExclusive ==
  LET waiting == {h \in Handlers : hpc[h] = "start"} IN
  /\ \A g, h \in waiting : arg[g] = arg[h] => g = h
  /\ \A h \in waiting : arg[h] # client_socket /\ heap[arg[h]] \in Clients
  /\ {x \in Cells : heap[x] # Free} =
       {arg[h] : h \in waiting} \cup ({client_socket} \ {None})

(* An open connection is in main()'s cell, in the cell of a thread about   *)
(* to start, or served by a thread; the only ones nobody will ever close   *)
(* are those whose pthread_create failed.                                  *)
LeakOnlyByFailedCreate ==
  alive => \A c \in Clients :
    srv[c] = "open" <=>
      \/ c \in uncreated
      \/ \E x \in Cells : heap[x] = c
      \/ \E h \in Handlers : sock[h] = c

(* At any moment each connection is in one pair of hands: main()'s, those  *)
(* of the thread that was created for it, or, lost, nobody's; and whoever  *)
(* holds it echoes what that client sent and nothing else.                 *)
HandoverIsSafe ==
  CellsAreExclusive /\ LeakOnlyByFailedCreate /\ EchoesOwnConnection

(* A client is left waiting for ever only when its pthread_create failed:  *)
(* then its connection is neither served nor closed.                       *)
EveryClientEnds ==
  \A c \in Clients : cpc[c] = "send" ~> cpc[c] = "done" \/ c \in uncreated

(* To its clients the server is EchoService; a connection whose            *)
(* pthread_create failed is one EchoService never comes to.                *)
Service == INSTANCE EchoService WITH
  ACCEPT_IS_FATAL <- FALSE, CAN_REFUSE <- FALSE, held <- PiecesHeld

ServiceSpec == Service!Spec
=============================================================================
