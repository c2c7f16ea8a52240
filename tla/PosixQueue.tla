----------------------------- MODULE PosixQueue -----------------------------
(***************************************************************************)
(* mq/posix: a server and clients that talk through one POSIX message      *)
(* queue in both directions.  Nothing in a message says which way it goes, *)
(* and the queue outlives the processes: only a server that gets to its    *)
(* end removes the name.                                                   *)
(*                                                                         *)
(* A process is one run of server.c or client.c.  A server is started only *)
(* when no other one runs; clients are started at any time.  Every error   *)
(* exit, and a user's interrupt, leaves the queue as it is; they are one   *)
(* action, Dies.                                                           *)
(***************************************************************************)
EXTENDS Naturals, Sequences, FiniteSets

CONSTANTS
  Servers, Clients,  \* the runs of the two programs, no run in both
  Queues,            \* queues the kernel creates
  mq_maxmsg,         \* how many messages a queue holds, at least 1
  None

Procs == Servers \cup Clients
Messages == {"Hi!", "Hello!"}

VARIABLES
  named,    \* the queue QUEUE_NAME stands for
  used,     \* the queues created so far
  content,  \* the messages in each queue, oldest first
  pc,       \* where each process is
  mq,       \* its descriptor
  dropped   \* history: a client has died between its receive and its send

vars == <<named, used, content, pc, mq, dropped>>

TypeOK ==
  /\ named \in used \cup {None}
  /\ used \subseteq Queues
  /\ content \in [Queues -> Seq(Messages)]
  /\ pc \in [Procs -> {"start", "send", "reopen", "receive", "unlink", "done",
                       "dead"}]
  /\ mq \in [Procs -> Queues \cup {None}]
  /\ dropped \in BOOLEAN

Init ==
  /\ named = None /\ used = {}
  /\ content = [q \in Queues |-> <<>>]
  /\ pc = [p \in Procs |-> "start"]
  /\ mq = [p \in Procs |-> None]
  /\ dropped = FALSE

Goes(p, from, to) == pc[p] = from /\ pc' = [pc EXCEPT ![p] = to]

Running(p) == pc[p] \notin {"start", "done", "dead"}

-----------------------------------------------------------------------------
(* The calls.                                                              *)

(* mq_open() without O_CREAT; when the name is gone the program exits.     *)
OpenExisting(p, from, to) ==
  /\ Goes(p, from, IF named = None THEN "dead" ELSE to)
  /\ mq' = [mq EXCEPT ![p] = named]
  /\ UNCHANGED <<named, used, content, dropped>>

(* mq_send() waits while the queue is full.                                *)
Send(p, message, from, to) ==
  /\ Goes(p, from, to)
  /\ Len(content[mq[p]]) < mq_maxmsg
  /\ content' = [content EXCEPT ![mq[p]] = Append(@, message)]
  /\ mq' = [mq EXCEPT ![p] = None]
  /\ UNCHANGED <<named, used, dropped>>

(* With a fault: mq_receive() leaves the message in the queue.             *)
ReceiveAndLeave(p, from, to) ==
  /\ Goes(p, from, to)
  /\ content[mq[p]] # <<>>
  /\ mq' = [mq EXCEPT ![p] = None]
  /\ UNCHANGED <<named, used, content, dropped>>

(* mq_receive() waits for a message and takes the oldest: all have         *)
(* priority 0.                                                             *)
Receive(p, from, to) ==
  /\ Goes(p, from, to)
  /\ content[mq[p]] # <<>>
  /\ content' = [content EXCEPT ![mq[p]] = Tail(@)]
  /\ mq' = [mq EXCEPT ![p] = None]
  /\ UNCHANGED <<named, used, dropped>>

-----------------------------------------------------------------------------
(* server.c.                                                               *)

(* mq_open() with O_CREAT creates the queue only when the name is free.    *)
ServerOpen(s) ==
  /\ \A t \in Servers : ~Running(t)
  /\ Goes(s, "start", "send")
  /\ \/ /\ named # None
        /\ UNCHANGED <<named, used>>
     \/ /\ named = None
        /\ named' \in Queues \ used
        /\ used' = used \cup {named'}
  /\ mq' = [mq EXCEPT ![s] = named']
  /\ UNCHANGED <<content, dropped>>

(* sleep(5) promises nothing about the clients, so the message may still   *)
(* be there when the server reads.                                         *)
ServerStep(s) ==
  \/ Send(s, "Hi!", "send", "reopen")
  \/ OpenExisting(s, "reopen", "receive")
  \/ Receive(s, "receive", "unlink")

Unlink(s) ==
  /\ Goes(s, "unlink", "done")
  /\ named' = None
  /\ UNCHANGED <<used, content, mq, dropped>>

-----------------------------------------------------------------------------
(* client.c.                                                               *)

(* With a fault: the client opens the queue for sending and forgets to     *)
(* send.                                                                   *)
ClientNeverSends(c) ==
  \/ Receive(c, "receive", "reopen")
  \/ OpenExisting(c, "reopen", "done")

ClientStep(c) ==
  \/ Receive(c, "receive", "reopen")
  \/ OpenExisting(c, "reopen", "send")
  \/ Send(c, "Hello!", "send", "done")

ClientOpen(c) == OpenExisting(c, "start", "receive")

-----------------------------------------------------------------------------
(* An error exit or an interrupt.                                          *)
Dies(p) ==
  /\ Running(p)
  /\ pc' = [pc EXCEPT ![p] = "dead"]
  /\ mq' = [mq EXCEPT ![p] = None]
  /\ dropped' = (dropped \/ (p \in Clients /\ pc[p] \in {"reopen", "send"}))
  /\ UNCHANGED <<named, used, content>>

Next ==
  \/ \E s \in Servers : ServerOpen(s) \/ ServerStep(s) \/ Unlink(s)
  \/ \E c \in Clients : ClientOpen(c) \/ ClientStep(c)
  \/ \E p \in Procs : Dies(p)

Spec == Init /\ [][Next]_vars

(* A process that can go on does; nobody has to start one.                 *)
Fairness ==
  /\ \A s \in Servers : WF_vars(ServerStep(s) \/ Unlink(s))
  /\ \A c \in Clients : WF_vars(ClientStep(c))

FairSpec == Spec /\ Fairness

-----------------------------------------------------------------------------
(* What servers that died have left behind is all there is too much: the   *)
(* messages under the name and those that clients hold between receive and *)
(* send exceed the running server's own by at most one for each server     *)
(* that died.  So only after mq_maxmsg deaths can mq_send() find the queue *)
(* full and block for ever.                                                *)
LeftoversBounded ==
  LET inQueue == IF named = None THEN 0 ELSE Len(content[named])
      inHand == Cardinality({c \in Clients : pc[c] \in {"reopen", "send"}})
      own == Cardinality({s \in Servers : pc[s] \in {"reopen", "receive"}})
      dead == Cardinality({s \in Servers : pc[s] = "dead"})
  IN  /\ inQueue + inHand <= own + dead
      /\ \A s \in Servers :
           pc[s] = "send" /\ Len(content[mq[s]]) = mq_maxmsg
             => dead >= mq_maxmsg

(* A server that has sent its greeting ends, with the greeting itself or   *)
(* with a reply, whatever other sessions left in the queue: only a client  *)
(* that dies between its receive and its send can leave it waiting.        *)
ServerEnds ==
  \A s \in Servers : pc[s] = "reopen" ~> pc[s] \in {"done", "dead"} \/ dropped
=============================================================================
