---------------------------- MODULE SharedMemory ----------------------------
(***************************************************************************)
(* shm/posix and shm/system v: a server writes "Hi!" into a page of shared *)
(* memory and spins until the page no longer holds it; a client writes     *)
(* "Hello!" over it.  Nothing else synchronises the two.                   *)
(*                                                                         *)
(* A message is written and read in two pieces, its first three bytes and  *)
(* the rest, in this order: strcpy(), sprintf() and strcmp() promise no    *)
(* more.  The two pairs of programs differ in one window only: a POSIX     *)
(* object has no bytes until ftruncate(), a System V segment is born whole.*)
(*                                                                         *)
(* A process is one run of a program.  A server is started only when no    *)
(* other one runs; Dies is an interrupt.                                   *)
(***************************************************************************)
EXTENDS FiniteSets

CONSTANTS
  Servers, Clients,  \* the runs of the two programs
  Objects,           \* the pieces of memory the kernel creates
  None

ASSUME MemoryAssumption ==
  /\ IsFiniteSet(Servers) /\ IsFiniteSet(Clients)
  /\ Servers \cap Clients = {}
  /\ None \notin Objects

Procs == Servers \cup Clients

\* What the two halves of a page hold: zeroes, or a half of a message.
Front == {"", "Hi!", "Hel"}
Back == {"", "lo!"}

VARIABLES
  api,          \* which of the two pairs of programs is run
  named,        \* the object SHM_NAME, or the key, stands for
  used, sized,  \* the objects created so far, and those with their bytes
  front, back,  \* what each object holds
  pc,           \* where each process is
  ptr,          \* the object it has mapped
  got           \* what each server has printed

vars == <<api, named, used, sized, front, back, pc, ptr, got>>

TypeOK ==
  /\ api \in {"posix", "system v"}
  /\ named \in used \cup {None}
  /\ used \subseteq Objects /\ sized \subseteq used
  /\ front \in [Objects -> Front] /\ back \in [Objects -> Back]
  /\ pc \in [Procs -> {"start", "truncate", "front", "back", "compare",
                       "compareBack", "print", "printBack", "remove", "done",
                       "dead"}]
  /\ ptr \in [Procs -> used \cup {None}]
  /\ got \in [Servers -> Front \X Back]

Init ==
  /\ api \in {"posix", "system v"}
  /\ named = None /\ used = {} /\ sized = {}
  /\ front = [o \in Objects |-> ""] /\ back = [o \in Objects |-> ""]
  /\ pc = [p \in Procs |-> "start"]
  /\ ptr = [p \in Procs |-> None]
  /\ got = [s \in Servers |-> <<"", "">>]

Goes(p, from, to) == pc[p] = from /\ pc' = [pc EXCEPT ![p] = to]

Running(p) == pc[p] \notin {"start", "done", "dead"}

objects == <<named, used, sized>>
memory == <<front, back>>

-----------------------------------------------------------------------------
(* The two halves of sprintf() or strcpy().                                *)

WriteFront(p, text) ==
  /\ Goes(p, "front", "back")
  /\ front' = [front EXCEPT ![ptr[p]] = text]
  /\ UNCHANGED <<api, objects, back, ptr, got>>

WriteBack(p, text, to) ==
  /\ Goes(p, "back", to)
  /\ back' = [back EXCEPT ![ptr[p]] = text]
  /\ UNCHANGED <<api, objects, front, ptr, got>>

-----------------------------------------------------------------------------
(* The servers.                                                            *)

(* shm_open() or shmget(), which create the memory or find the old one.    *)
Open(s) ==
  /\ \A t \in Servers : ~Running(t)
  /\ Goes(s, "start", IF api = "posix" THEN "truncate" ELSE "front")
  /\ IF named = None
       THEN named' \in Objects \ used ELSE UNCHANGED named
  /\ used' = used \cup {named'}
  /\ sized' = IF api = "posix" THEN sized ELSE sized \cup {named'}
  /\ ptr' = [ptr EXCEPT ![s] = named']
  /\ UNCHANGED <<api, memory, got>>

Truncate(s) ==
  /\ Goes(s, "truncate", "front")
  /\ sized' = sized \cup {ptr[s]}
  /\ UNCHANGED <<api, named, used, memory, ptr, got>>

(* With a fault: the loop goes round while the texts differ.               *)
CompareInverted(s) ==
  /\ \/ /\ pc[s] = "compare"
        /\ Goes(s, "compare", IF front[ptr[s]] = "Hi!" THEN "compareBack"
                                                       ELSE "compare")
     \/ Goes(s, "compareBack", IF back[ptr[s]] = "" THEN "print"
                                                    ELSE "compare")
  /\ UNCHANGED <<api, objects, memory, ptr, got>>

(* The loop's strcmp() against "Hi!".                                      *)
Compare(s) ==
  /\ \/ Goes(s, "compare", IF front[ptr[s]] = "Hi!" THEN "compareBack"
                                                    ELSE "print")
     \/ Goes(s, "compareBack", IF back[ptr[s]] = "" THEN "compare"
                                                    ELSE "print")
  /\ UNCHANGED <<api, objects, memory, ptr, got>>

(* printf() reads the memory once more.                                    *)
PrintReceived(s) ==
  /\ \/ /\ Goes(s, "print", "printBack")
        /\ got' = [got EXCEPT ![s][1] = front[ptr[s]]]
     \/ /\ Goes(s, "printBack", "remove")
        /\ got' = [got EXCEPT ![s][2] = back[ptr[s]]]
  /\ UNCHANGED <<api, objects, memory, ptr>>

(* shm_unlink() or IPC_RMID: the name is free, the mappings stay.          *)
Remove(s) ==
  /\ Goes(s, "remove", "done")
  /\ named' = None
  /\ UNCHANGED <<api, used, sized, memory, ptr, got>>

ServerStep(s) ==
  \/ Truncate(s) \/ WriteFront(s, "Hi!") \/ WriteBack(s, "", "compare")
  \/ Compare(s) \/ PrintReceived(s) \/ Remove(s)

-----------------------------------------------------------------------------
(* The clients.                                                            *)

(* Without the memory the calls fail unchecked, and printing crashes.      *)
Attach(c) ==
  /\ Goes(c, "start", IF named = None THEN "dead" ELSE "print")
  /\ ptr' = [ptr EXCEPT ![c] = named]
  /\ UNCHANGED <<api, objects, memory, got>>

(* Printing what is there, or touching an object without bytes (SIGBUS).   *)
PrintGreeting(c) ==
  /\ Goes(c, "print", IF ptr[c] \in sized THEN "front" ELSE "dead")
  /\ UNCHANGED <<api, objects, memory, ptr, got>>

(* With a fault: the client reads the greeting and does not answer.        *)
ClientOnlyReads(c) ==
  /\ Goes(c, "front", "done")
  /\ UNCHANGED <<api, objects, memory, ptr, got>>

ClientWrites(c) == WriteFront(c, "Hel") \/ WriteBack(c, "lo!", "done")

ClientStep(c) == PrintGreeting(c) \/ ClientWrites(c)

-----------------------------------------------------------------------------
Dies(p) ==
  /\ Running(p)
  /\ pc' = [pc EXCEPT ![p] = "dead"]
  /\ UNCHANGED <<api, objects, memory, ptr, got>>

Next ==
  \/ \E s \in Servers : Open(s) \/ ServerStep(s)
  \/ \E c \in Clients : Attach(c) \/ ClientStep(c)
  \/ \E p \in Procs : Dies(p)

Spec == Init /\ [][Next]_vars

(* A process that can go on does; nobody has to start one.                 *)
Fairness ==
  /\ \A s \in Servers : WF_vars(ServerStep(s))
  /\ \A c \in Clients : WF_vars(ClientStep(c))

FairSpec == Spec /\ Fairness

-----------------------------------------------------------------------------
(* A server that leaves its loop prints something of a client's message:   *)
(* half of one, or one mixed with its own greeting, but never the bare     *)
(* greeting or an empty page, although it reads the memory again after the *)
(* comparison and half-written messages of clients that met an earlier     *)
(* server may still arrive.                                                *)
HearsAClient ==
  \A s \in Servers : pc[s] \in {"remove", "done"} =>
    got[s][1] = "Hel" \/ got[s] = <<"Hi!", "lo!">>

(* A client that has yet to finish its message when the server is already  *)
(* waiting sets it free, unless one of them is interrupted.  (A message    *)
(* finished before the greeting is overwritten by it, and the server waits *)
(* for the next client.)                                                   *)
WriterFreesServer ==
  \A s \in Servers, c \in Clients :
    (/\ pc[s] \in {"compare", "compareBack"}
     /\ pc[c] \in {"front", "back"} /\ ptr[c] = ptr[s])
    ~> pc[s] \in {"done", "dead"} \/ pc[c] = "dead"
=============================================================================
