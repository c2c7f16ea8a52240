----------------------------- MODULE MCMailboxes -----------------------------
(***************************************************************************)
(* The other programs whose processes meet in a named object of the        *)
(* kernel: the shared memory of shm, the FIFO of pipes and the two message *)
(* queues of mq.  The user runs one pair of them; the variables of the     *)
(* others keep their initial values, in which no process is owed a step.   *)
(***************************************************************************)
EXTENDS SharedMemory, Naturals

CONSTANTS
  Fifos,
  Queues,
  mq_maxmsg,  \* messages a POSIX queue holds
  CAPACITY    \* messages a System V queue holds

ASSUME FifoAssumption == None \notin Fifos

ASSUME QueuesAssumption ==
  /\ None \notin Queues
  /\ mq_maxmsg \in Nat \ {0}
  /\ CAPACITY \in Nat \ {0}

VARIABLES
  program,
  fifoNamed, fifoUsed, readers, writers, buffer, fifoPc, fd, taken, missed,
  past, posixNamed, posixUsed, posixContent, posixPc, mq, posixDropped,
  current, sysvUsed, sysvContent, sysvPc, msgid, sysvDropped

Pipe == INSTANCE Fifo WITH
  named <- fifoNamed, used <- fifoUsed, pc <- fifoPc

Posix == INSTANCE PosixQueue WITH
  named <- posixNamed, used <- posixUsed, content <- posixContent,
  pc <- posixPc, dropped <- posixDropped

Sysv == INSTANCE SysvQueue WITH
  used <- sysvUsed, content <- sysvContent, pc <- sysvPc,
  dropped <- sysvDropped

fifoVars ==
  <<fifoNamed, fifoUsed, readers, writers, buffer, fifoPc, fd, taken, missed,
    past>>
posixVars ==
  <<posixNamed, posixUsed, posixContent, posixPc, mq, posixDropped>>
sysvVars == <<current, sysvUsed, sysvContent, sysvPc, msgid, sysvDropped>>

OneOf(programs) ==
  /\ program \in programs
  /\ Init /\ Pipe!Init /\ Posix!Init /\ Sysv!Init

OneRuns ==
  /\ UNCHANGED program
  /\ \/ /\ program = "shm" /\ Next
        /\ UNCHANGED <<fifoVars, posixVars, sysvVars>>
     \/ /\ program = "pipes/task2" /\ Pipe!Next
        /\ UNCHANGED <<vars, posixVars, sysvVars>>
     \/ /\ program = "mq/posix" /\ Posix!Next
        /\ UNCHANGED <<vars, fifoVars, sysvVars>>
     \/ /\ program = "mq/system v" /\ Sysv!Next
        /\ UNCHANGED <<vars, fifoVars, posixVars>>

allVars == <<program, vars, fifoVars, posixVars, sysvVars>>

MailboxesSpec ==
  /\ OneOf({"shm", "pipes/task2"}) /\ [][OneRuns]_allVars
  /\ Fairness /\ Pipe!Fairness

QueuesSpec ==
  /\ OneOf({"mq/posix", "mq/system v"}) /\ [][OneRuns]_allVars
  /\ Posix!Fairness /\ Sysv!Fairness

-----------------------------------------------------------------------------
(* The FIFO: one server and one client do not miss each other, and which   *)
(* clients can harm another server; whoever meets somebody there ends.     *)
FifoIsSafe == Pipe!FifoIsSafe
MeetingEnds == Pipe!MeetingEnds

(* mq/posix: only servers that died leave too much in the queue; a server  *)
(* that has sent its greeting ends, unless a client dropped one.           *)
LeftoversBounded == Posix!LeftoversBounded
ServerEnds == Posix!ServerEnds

(* mq/system v: a server that gets past msgrcv() was answered; no client   *)
(* waits for ever.                                                         *)
AnsweredByClients == Sysv!AnsweredByClients
ClientsEnd == Sysv!ClientsEnd
=============================================================================
