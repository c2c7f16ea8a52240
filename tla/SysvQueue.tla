------------------------------ MODULE SysvQueue ------------------------------
(***************************************************************************)
(* mq/system v: a server and clients that talk through one System V        *)
(* message queue.  The type of a message says which way it goes: 1 from    *)
(* the server, 2 to it.  A server that gets to its end removes the queue   *)
(* together with whatever is in it, and every later or waiting call on it  *)
(* fails; any other end leaves the queue to the next server.               *)
(*                                                                         *)
(* A process is one run of server.c or client.c.  A server is started only *)
(* when no other one runs; clients are started at any time.  Error exits   *)
(* and a user's interrupt are one action, Dies.                            *)
(***************************************************************************)
EXTENDS Naturals, FiniteSets

CONSTANTS
  Servers, Clients,  \* the runs of the two programs, no run in both
  Queues,            \* the identifiers msgget() gives out, each once
  CAPACITY,          \* messages a queue holds (msg_qbytes / MAX_SIZE), at least 1
  None

Procs == Servers \cup Clients
Types == {1, 2}

VARIABLES
  current,  \* the queue of the key, None when there is none
  used,     \* the identifiers given out so far
  content,  \* how many messages of each type the queue holds
  pc,       \* where each process is
  msgid,    \* its queue
  dropped   \* history: a client has died between its receive and its send

vars == <<current, used, content, pc, msgid, dropped>>

TypeOK ==
  /\ current \in used \cup {None}
  /\ used \subseteq Queues
  /\ content \in [Types -> 0..CAPACITY]
  /\ pc \in [Procs -> {"start", "send", "receive", "remove", "done", "dead"}]
  /\ msgid \in [Procs -> Queues \cup {None}]
  /\ dropped \in BOOLEAN

Init ==
  /\ current = None /\ used = {}
  /\ content = [t \in Types |-> 0]
  /\ pc = [p \in Procs |-> "start"]
  /\ msgid = [p \in Procs |-> None]
  /\ dropped = FALSE

Goes(p, from, to) == pc[p] = from /\ pc' = [pc EXCEPT ![p] = to]

Running(p) == pc[p] \notin {"start", "done", "dead"}

-----------------------------------------------------------------------------
(* The calls on a queue that still exists.                                 *)

(* msgsnd() waits while the queue is full.                                 *)
Send(p, type, from, to) ==
  /\ Goes(p, from, to)
  /\ msgid[p] = current
  /\ content[1] + content[2] < CAPACITY
  /\ content' = [content EXCEPT ![type] = @ + 1]
  /\ UNCHANGED <<current, used, msgid, dropped>>

(* With a fault: any message will do.                                      *)
ReceiveAny(p, type, from, to) ==
  /\ Goes(p, from, to)
  /\ msgid[p] = current
  /\ \E t \in Types : /\ content[t] > 0
                      /\ content' = [content EXCEPT ![t] = @ - 1]
  /\ UNCHANGED <<current, used, msgid, dropped>>

(* msgrcv() waits for a message of its type.                               *)
Receive(p, type, from, to) ==
  /\ Goes(p, from, to)
  /\ msgid[p] = current
  /\ content[type] > 0
  /\ content' = [content EXCEPT ![type] = @ - 1]
  /\ UNCHANGED <<current, used, msgid, dropped>>

(* The queue has been removed: the call fails and the program exits.       *)
QueueGone(p) ==
  /\ pc[p] \in {"send", "receive"}
  /\ msgid[p] # current
  /\ pc' = [pc EXCEPT ![p] = "dead"]
  /\ UNCHANGED <<current, used, content, msgid, dropped>>

-----------------------------------------------------------------------------
(* server.c.                                                               *)

(* msgget() with IPC_CREAT creates the queue only when the key has none.   *)
ServerGet(s) ==
  /\ \A t \in Servers : ~Running(t)
  /\ Goes(s, "start", "send")
  /\ \/ /\ current # None
        /\ UNCHANGED <<current, used, content>>
     \/ /\ current = None
        /\ current' \in Queues \ used
        /\ used' = used \cup {current'}
        /\ content' = [t \in Types |-> 0]
  /\ msgid' = [msgid EXCEPT ![s] = current']
  /\ UNCHANGED dropped

(* With a fault: the queue is not removed.                                 *)
RemoveNothing(s) ==
  /\ Goes(s, "remove", "done")
  /\ UNCHANGED <<current, used, content, msgid, dropped>>

(* msgctl(IPC_RMID).                                                       *)
Remove(s) ==
  /\ Goes(s, "remove", "done")
  /\ current' = None
  /\ content' = [t \in Types |-> 0]
  /\ UNCHANGED <<used, msgid, dropped>>

ServerStep(s) ==
  \/ Send(s, 1, "send", "receive")
  \/ Receive(s, 2, "receive", "remove")
  \/ Remove(s)

-----------------------------------------------------------------------------
(* client.c.                                                               *)

(* msgget() without IPC_CREAT.                                             *)
ClientGet(c) ==
  /\ Goes(c, "start", IF current = None THEN "dead" ELSE "receive")
  /\ msgid' = [msgid EXCEPT ![c] = current]
  /\ UNCHANGED <<current, used, content, dropped>>

ClientStep(c) ==
  \/ Receive(c, 1, "receive", "send")
  \/ Send(c, 2, "send", "done")
  \/ QueueGone(c)

-----------------------------------------------------------------------------
(* An error exit or an interrupt.                                          *)
Dies(p) ==
  /\ Running(p)
  /\ pc' = [pc EXCEPT ![p] = "dead"]
  /\ dropped' = (dropped \/ (p \in Clients /\ pc[p] = "send"))
  /\ UNCHANGED <<current, used, content, msgid>>

Next ==
  \/ \E s \in Servers : ServerGet(s) \/ ServerStep(s)
  \/ \E c \in Clients : ClientGet(c) \/ ClientStep(c)
  \/ \E p \in Procs : Dies(p)

Spec == Init /\ [][Next]_vars

(* A process that can go on does; nobody has to start one.                 *)
Fairness ==
  /\ \A s \in Servers : WF_vars(ServerStep(s))
  /\ \A c \in Clients : WF_vars(ClientStep(c))

FairSpec == Spec /\ Fairness

-----------------------------------------------------------------------------
(* Every server that gets past msgrcv() has been answered: by a reply some *)
(* client sent and no other server has taken, though after a server died   *)
(* it may be the answer to that one's greeting.  And greetings, clients    *)
(* that have one and replies together exceed the running server's own      *)
(* greeting by at most one for each server that died.                      *)
AnsweredByClients ==
  LET answered == {s \in Servers : pc[s] \in {"remove", "done"}}
      dead == {s \in Servers : pc[s] = "dead"}
      waiting == {s \in Servers : pc[s] = "receive"}
      holding == {c \in Clients : pc[c] = "send" /\ msgid[c] = current}
      replied == {c \in Clients : pc[c] = "done"}
  IN  /\ Cardinality(answered) + content[2] <= Cardinality(replied)
      /\ current # None =>
           content[1] + Cardinality(holding) + content[2]
             <= Cardinality(waiting) + Cardinality(dead)

(* No client waits for ever: it gets a greeting, or the removal of the     *)
(* queue wakes it up, unless a server or a client that holds a greeting    *)
(* dies.                                                                   *)
ClientsEnd ==
  \A c \in Clients : pc[c] = "receive" ~>
    \/ pc[c] \in {"done", "dead"}
    \/ dropped
    \/ \E s \in Servers : pc[s] = "dead"
=============================================================================
