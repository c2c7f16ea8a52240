-------------------------------- MODULE Fifo --------------------------------
(***************************************************************************)
(* pipes/task2server.c and pipes/task2client.c: one message through a      *)
(* FIFO.  Opening it waits for the other side; the client removes the name *)
(* at its end, whether or not it ever had the FIFO open.  No call's result *)
(* is looked at.                                                           *)
(*                                                                         *)
(* A process is one run of a program; any number may run at once.          *)
(***************************************************************************)
EXTENDS Naturals, FiniteSets

CONSTANTS
  Servers, Clients,  \* the runs of the two programs, no run in both
  Fifos,             \* the FIFOs the kernel creates
  None

Procs == Servers \cup Clients

VARIABLES
  named, used,       \* the FIFO of the name FIFO_NAME; those created so far
  readers, writers,  \* who has, or waits for, an end of each FIFO
  buffer,            \* messages in each FIFO
  pc, fd,            \* where each process is, and the FIFO it has open
  taken,             \* messages each client has read
  missed,            \* history: clients that found no FIFO
  past               \* history: the clients already past their open() when
                     \* each server began to wait in its own

vars == <<named, used, readers, writers, buffer, pc, fd, taken, missed, past>>

TypeOK ==
  /\ used \subseteq Fifos /\ named \in used \cup {None}
  /\ readers \in [Fifos -> SUBSET Clients]
  /\ writers \in [Fifos -> SUBSET Servers]
  /\ buffer \in [Fifos -> Nat]
  /\ pc \in [Procs -> {"start", "open", "opening", "transfer", "close",
                       "unlink", "done", "killed", "dead"}]
  /\ fd \in [Procs -> used \cup {None}]
  /\ taken \in [Clients -> Nat]
  /\ missed \subseteq Clients
  /\ past \in [Servers -> SUBSET Clients]

Init ==
  /\ named = None /\ used = {}
  /\ readers = [f \in Fifos |-> {}] /\ writers = [f \in Fifos |-> {}]
  /\ buffer = [f \in Fifos |-> 0]
  /\ pc = [p \in Procs |-> "start"] /\ fd = [p \in Procs |-> None]
  /\ taken = [c \in Clients |-> 0]
  /\ missed = {}
  /\ past = [s \in Servers |-> {}]

Goes(p, from, to) == pc[p] = from /\ pc' = [pc EXCEPT ![p] = to]

-----------------------------------------------------------------------------
(* The kernel: open() of an end waits until the other end has been opened, *)
(* and wakes up everybody who waits there.                                 *)

OpenEnd(p, f, others) ==
  pc' = [q \in Procs |->
           CASE q = p /\ others = {} -> "opening"
             [] others # {} /\ (q = p \/ (q \in others /\ pc[q] = "opening"))
                  -> "transfer"
             [] OTHER -> pc[q]]

(* close() or the end of a process; what nobody can read is discarded.     *)
Release(p) ==
  /\ readers' = [f \in Fifos |-> readers[f] \ {p}]
  /\ writers' = [f \in Fifos |-> writers[f] \ {p}]
  /\ buffer' = [f \in Fifos |->
                  IF readers'[f] = {} /\ writers'[f] = {} THEN 0
                                                          ELSE buffer[f]]
  /\ fd' = [fd EXCEPT ![p] = None]

-----------------------------------------------------------------------------
(* task2server.c.                                                          *)

(* With a fault: the server first removes what an earlier run has left.    *)
MakeFifoAnew(s) ==
  /\ Goes(s, "start", "open")
  /\ named' \in Fifos \ used
  /\ used' = used \cup {named'}
  /\ UNCHANGED <<readers, writers, buffer, fd, taken, missed, past>>

(* mkfifo() fails, unnoticed, when there is one already.                   *)
MakeFifo(s) ==
  /\ Goes(s, "start", "open")
  /\ IF named = None
       THEN named' \in Fifos \ used ELSE UNCHANGED named
  /\ used' = used \cup {named'}
  /\ UNCHANGED <<readers, writers, buffer, fd, taken, missed, past>>

(* When the name is gone again write() and close() fail with open().       *)
OpenForWriting(s) ==
  /\ pc[s] = "open"
  /\ \/ /\ named = None
        /\ pc' = [pc EXCEPT ![s] = "done"]
        /\ UNCHANGED <<writers, fd>>
     \/ /\ named # None
        /\ writers' = [writers EXCEPT ![named] = @ \cup {s}]
        /\ fd' = [fd EXCEPT ![s] = named]
        /\ OpenEnd(s, named, readers[named])
  /\ past' = [past EXCEPT ![s] = {c \in Clients :
                                    pc[c] \in {"transfer", "close", "unlink"}}]
  /\ UNCHANGED <<named, used, readers, buffer, taken, missed>>

(* Without a reader write() raises SIGPIPE.                                *)
Write(s) ==
  /\ pc[s] = "transfer"
  /\ \/ /\ readers[fd[s]] # {}
        /\ pc' = [pc EXCEPT ![s] = "close"]
        /\ buffer' = [buffer EXCEPT ![fd[s]] = @ + 1]
        /\ UNCHANGED <<readers, writers, fd>>
     \/ /\ readers[fd[s]] = {}
        /\ pc' = [pc EXCEPT ![s] = "killed"]
        /\ Release(s)
  /\ UNCHANGED <<named, used, taken, missed, past>>

CloseWriter(s) ==
  /\ Goes(s, "close", "done")
  /\ Release(s)
  /\ UNCHANGED <<named, used, taken, missed, past>>

ServerStep(s) == OpenForWriting(s) \/ Write(s) \/ CloseWriter(s)

-----------------------------------------------------------------------------
(* task2client.c.                                                          *)

(* Without the FIFO open() and read() fail, and the client goes on to      *)
(* unlink().                                                               *)
OpenForReading(c) ==
  /\ pc[c] = "start"
  /\ \/ /\ named = None
        /\ pc' = [pc EXCEPT ![c] = "unlink"]
        /\ missed' = missed \cup {c}
        /\ UNCHANGED <<readers, fd>>
     \/ /\ named # None
        /\ readers' = [readers EXCEPT ![named] = @ \cup {c}]
        /\ fd' = [fd EXCEPT ![c] = named]
        /\ OpenEnd(c, named, writers[named])
        /\ UNCHANGED missed
  /\ UNCHANGED <<named, used, writers, buffer, taken, past>>

(* With a fault: the client reads again when it gets nothing.              *)
ReadUntilMessage(c) ==
  /\ Goes(c, "transfer", "close")
  /\ buffer[fd[c]] > 0
  /\ taken' = [taken EXCEPT ![c] = buffer[fd[c]]]
  /\ buffer' = [buffer EXCEPT ![fd[c]] = 0]
  /\ UNCHANGED <<named, used, readers, writers, fd, missed, past>>

(* read() takes all there is (messages are far shorter than buf), and      *)
(* reports end-of-file when there is nothing and nobody to write.          *)
Read(c) ==
  /\ Goes(c, "transfer", "close")
  /\ buffer[fd[c]] > 0 \/ writers[fd[c]] = {}
  /\ taken' = [taken EXCEPT ![c] = buffer[fd[c]]]
  /\ buffer' = [buffer EXCEPT ![fd[c]] = 0]
  /\ UNCHANGED <<named, used, readers, writers, fd, missed, past>>

CloseReader(c) ==
  /\ Goes(c, "close", "unlink")
  /\ Release(c)
  /\ UNCHANGED <<named, used, taken, missed, past>>

Unlink(c) ==
  /\ Goes(c, "unlink", "done")
  /\ named' = None
  /\ UNCHANGED <<used, readers, writers, buffer, fd, taken, missed, past>>

ClientStep(c) == Read(c) \/ CloseReader(c) \/ Unlink(c)

-----------------------------------------------------------------------------
(* An interrupt.                                                           *)
Dies(p) ==
  /\ pc[p] \notin {"start", "done", "killed", "dead"}
  /\ pc' = [pc EXCEPT ![p] = "dead"]
  /\ Release(p)
  /\ UNCHANGED <<named, used, taken, missed, past>>

Next ==
  \/ \E s \in Servers : MakeFifo(s) \/ ServerStep(s)
  \/ \E c \in Clients : OpenForReading(c) \/ ClientStep(c)
  \/ \E p \in Procs : Dies(p)

Spec == Init /\ [][Next]_vars

(* A process that can go on does; nobody has to start one.                 *)
Fairness ==
  /\ \A s \in Servers : WF_vars(ServerStep(s))
  /\ \A c \in Clients : WF_vars(ClientStep(c))

FairSpec == Spec /\ Fairness

-----------------------------------------------------------------------------
Started == {p \in Procs : pc[p] # "start"}

(* A server that waits on a FIFO nobody can find any more.                 *)
Stranded(s) == pc[s] = "opening" /\ fd[s] # named

(* Every client removes the name, without looking whose FIFO it is.  It    *)
(* leaves a server on a FIFO nobody can find only if it was past its own   *)
(* open() when the server came to it: no server that comes later takes the *)
(* name from one that waits, and no client that comes later misses it.     *)
StrandedByClientPast ==
  \A s \in Servers :
    Stranded(s) => \E c \in past[s] : pc[c] = "done"

(* As long as only one server and one client take part, the client found   *)
(* the FIFO and nobody is interrupted, nothing goes wrong: the server is   *)
(* not left waiting on a removed FIFO nor killed by SIGPIPE, and a client  *)
(* that has read has the message.  Each of these does happen to three      *)
(* processes, or to two when the client is first.                          *)
OnePairIsSafe ==
  \A s \in Servers, c \in Clients :
    /\ Started \subseteq {s, c} /\ missed = {}
    /\ pc[s] # "dead" /\ pc[c] # "dead"
    => /\ ~Stranded(s) /\ pc[s] # "killed"
       /\ pc[c] \in {"close", "unlink", "done"} => taken[c] = 1

(* Two that meet are safe, and only a client that was early harms others.  *)
FifoIsSafe == StrandedByClientPast /\ OnePairIsSafe

(* Whoever has, or waits for, one end of a FIFO while somebody is at the   *)
(* other comes to the end of its program.                                  *)
MeetingEnds ==
  \A f \in Fifos, p \in Procs :
    p \in readers[f] \cup writers[f] /\ readers[f] # {} /\ writers[f] # {}
      ~> pc[p] \in {"done", "killed", "dead"}
=============================================================================
