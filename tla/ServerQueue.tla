----------------------------- MODULE ServerQueue -----------------------------
(***************************************************************************)
(* sockets/hw2/server queue/server.c: the main thread accepts connections  *)
(* and puts them in client_queue, a ring of QUEUE_SIZE slots guarded by    *)
(* one mutex and two condition variables; a fixed set of worker threads    *)
(* takes them out and echoes what each client sends until it closes.       *)
(*                                                                         *)
(* One action is one step another thread can observe: a lock taken, a wait *)
(* entered, the ring changed, a signal, an unlock, a system call.          *)
(***************************************************************************)
EXTENDS EchoClients, FiniteSets

CONSTANTS
  Workers,     \* the threads of threads[MAX_THREADS]
  Main,        \* the thread that runs main()
  QUEUE_SIZE,  \* slots of client_queue
  None         \* no thread, no connection

ASSUME QueueAssumption == QUEUE_SIZE \in Nat \ {0}
ASSUME ThreadAssumption ==
  /\ IsFiniteSet(Workers)
  /\ Main \notin Workers
  /\ None \notin Workers \cup {Main}
  /\ None \notin Clients

Threads == Workers \cup {Main}
Slots == 0..(QUEUE_SIZE - 1)

VARIABLES
  queue, front, rear, count,  \* client_queue_t
  mutex,                      \* the thread that holds client_queue.mutex
  not_empty, not_full,        \* the threads waiting on each condition variable
  pc,                         \* where each thread is
  sock,                       \* main's new_socket, a worker's client_socket
  bytes_read,                 \* what a worker's last read() returned
  alive                       \* the process has not ended

ringVars == <<queue, front, rear, count>>
syncVars == <<mutex, not_empty, not_full>>
vars == <<clientVars, ringVars, syncVars, pc, sock, bytes_read, alive>>

MainStates == {"boot", "create", "accept", "lock", "locked", "wait", "signal",
               "unlock"}
WorkerStates == {"unborn", "lock", "locked", "wait", "signal", "unlock",
                 "read", "send", "close"}

TypeOK ==
  /\ ClientTypeOK
  /\ queue \in [Slots -> Clients \cup {None}]
  /\ front \in Slots
  /\ rear \in Slots
  /\ count \in 0..QUEUE_SIZE
  /\ mutex \in Threads \cup {None}
  /\ not_empty \in SUBSET Workers
  /\ not_full \in SUBSET {Main}
  /\ pc \in [Threads -> MainStates \cup WorkerStates]
  /\ pc[Main] \in MainStates
  /\ \A w \in Workers : pc[w] \in WorkerStates
  /\ sock \in [Threads -> Clients \cup {None}]
  /\ bytes_read \in [Workers -> 0..UNITS]
  /\ alive \in BOOLEAN

Init ==
  /\ ClientInit
  /\ queue = [i \in Slots |-> None]
  /\ front = 0 /\ rear = 0 /\ count = 0
  /\ mutex = None
  /\ not_empty = {} /\ not_full = {}
  /\ pc = [t \in Threads |-> IF t = Main THEN "boot" ELSE "unborn"]
  /\ sock = [t \in Threads |-> None]
  /\ bytes_read = [w \in Workers |-> 0]
  /\ alive = TRUE

Goto(t, label) == pc' = [pc EXCEPT ![t] = label]

-----------------------------------------------------------------------------
(* The pthread calls.                                                      *)

MutexLock(t) == mutex = None /\ mutex' = t
MutexUnlock(t) == mutex = t /\ mutex' = None

(* The threads pthread_cond_signal can wake: one of the waiting ones, or   *)
(* nobody when none waits (the signal is not remembered).  A woken thread  *)
(* has to take the mutex again, so it goes back to "lock".                 *)
Woken(waiting) == IF waiting = {} THEN {{}} ELSE {{t} : t \in waiting}

(* POSIX lets pthread_cond_wait return without a signal.                   *)
SpuriousWakeup(t) ==
  /\ t \in not_empty \cup not_full
  /\ not_empty' = not_empty \ {t}
  /\ not_full' = not_full \ {t}
  /\ Goto(t, "lock")
  /\ UNCHANGED <<clientVars, ringVars, mutex, sock, bytes_read, alive>>

-----------------------------------------------------------------------------
(* The ring's arithmetic, shared by the two functions.                     *)

(* With a fault: the ring takes one connection too many.                   *)
FullOffByOne == count > QUEUE_SIZE
Full == count = QUEUE_SIZE
Empty == count = 0
NextSlot(i) == (i + 1) % QUEUE_SIZE

(* With a fault: the last connection put in is taken first.                *)
Newest == queue[(rear + QUEUE_SIZE - 1) % QUEUE_SIZE]
Oldest == queue[front]

-----------------------------------------------------------------------------
(* add_to_queue, called by main() only.                                    *)

AddLock ==
  /\ pc[Main] = "lock"
  /\ MutexLock(Main)
  /\ Goto(Main, "locked")
  /\ UNCHANGED <<clientVars, ringVars, not_empty, not_full, sock, bytes_read,
                 alive>>

AddWait ==
  /\ pc[Main] = "locked"
  /\ Full
  /\ MutexUnlock(Main)
  /\ not_full' = not_full \cup {Main}
  /\ Goto(Main, "wait")
  /\ UNCHANGED <<clientVars, ringVars, not_empty, sock, bytes_read, alive>>

(* From here on the connection is the ring's: main() does not use          *)
(* new_socket again before the next accept().                              *)
AddInsert ==
  /\ pc[Main] = "locked"
  /\ ~Full
  /\ queue' = [queue EXCEPT ![rear] = sock[Main]]
  /\ rear' = NextSlot(rear)
  /\ count' = count + 1
  /\ sock' = [sock EXCEPT ![Main] = None]
  /\ Goto(Main, "signal")
  /\ UNCHANGED <<clientVars, front, syncVars, bytes_read, alive>>

(* With a fault: only the first connection of a burst is signalled.        *)
AddSignalFirstOnly ==
  /\ pc[Main] = "signal"
  /\ \E woken \in IF count = 1 THEN Woken(not_empty) ELSE {{}} :
       /\ not_empty' = not_empty \ woken
       /\ pc' = [t \in Threads |-> IF t = Main THEN "unlock"
                                   ELSE IF t \in woken THEN "lock" ELSE pc[t]]
  /\ UNCHANGED <<clientVars, ringVars, mutex, not_full, sock, bytes_read,
                 alive>>

AddSignal ==
  /\ pc[Main] = "signal"
  /\ \E woken \in Woken(not_empty) :
       /\ not_empty' = not_empty \ woken
       /\ pc' = [t \in Threads |-> IF t = Main THEN "unlock"
                                   ELSE IF t \in woken THEN "lock" ELSE pc[t]]
  /\ UNCHANGED <<clientVars, ringVars, mutex, not_full, sock, bytes_read,
                 alive>>

AddUnlock ==
  /\ pc[Main] = "unlock"
  /\ MutexUnlock(Main)
  /\ Goto(Main, "accept")
  /\ UNCHANGED <<clientVars, ringVars, not_empty, not_full, sock, bytes_read,
                 alive>>

-----------------------------------------------------------------------------
(* remove_from_queue, called by every worker.                              *)

RemoveLock(w) ==
  /\ pc[w] = "lock"
  /\ MutexLock(w)
  /\ Goto(w, "locked")
  /\ UNCHANGED <<clientVars, ringVars, not_empty, not_full, sock, bytes_read,
                 alive>>

RemoveWait(w) ==
  /\ pc[w] = "locked"
  /\ Empty
  /\ MutexUnlock(w)
  /\ not_empty' = not_empty \cup {w}
  /\ Goto(w, "wait")
  /\ UNCHANGED <<clientVars, ringVars, not_full, sock, bytes_read, alive>>

(* The taken slot keeps its old value: only front and count move.          *)
RemoveTake(w) ==
  /\ pc[w] = "locked"
  /\ ~Empty
  /\ sock' = [sock EXCEPT ![w] = Oldest]
  /\ front' = NextSlot(front)
  /\ count' = count - 1
  /\ Goto(w, "signal")
  /\ UNCHANGED <<clientVars, queue, rear, syncVars, bytes_read, alive>>

(* With a fault: main() is not told that a slot is free.                   *)
RemoveWithoutSignal(w) ==
  /\ pc[w] = "signal"
  /\ Goto(w, "unlock")
  /\ UNCHANGED <<clientVars, ringVars, syncVars, sock, bytes_read, alive>>

RemoveSignal(w) ==
  /\ pc[w] = "signal"
  /\ \E woken \in Woken(not_full) :
       /\ not_full' = not_full \ woken
       /\ pc' = [t \in Threads |-> IF t = w THEN "unlock"
                                   ELSE IF t \in woken THEN "lock" ELSE pc[t]]
  /\ UNCHANGED <<clientVars, ringVars, mutex, not_empty, sock, bytes_read,
                 alive>>

RemoveUnlock(w) ==
  /\ pc[w] = "unlock"
  /\ MutexUnlock(w)
  /\ Goto(w, "read")
  /\ UNCHANGED <<clientVars, ringVars, not_empty, not_full, sock, bytes_read,
                 alive>>

-----------------------------------------------------------------------------
(* handle_client: the echo loop around one connection.                     *)

WorkerRead(w) ==
  /\ pc[w] = "read"
  /\ \E k \in 1..UNITS :
       /\ SrvRead(sock[w], k)
       /\ bytes_read' = [bytes_read EXCEPT ![w] = k]
  /\ Goto(w, "send")
  /\ UNCHANGED <<ringVars, syncVars, sock, alive>>

(* With a fault: a read() that finds nothing yet is taken for the end.     *)
WorkerReadEndsWhenEmpty(w) ==
  /\ pc[w] = "read"
  /\ toServer[sock[w]] = 0 /\ UNCHANGED clientVars
  /\ Goto(w, "close")
  /\ UNCHANGED <<ringVars, syncVars, sock, bytes_read, alive>>

WorkerReadEnds(w) ==
  /\ pc[w] = "read"
  /\ SrvReadEnds(sock[w])
  /\ Goto(w, "close")
  /\ UNCHANGED <<ringVars, syncVars, sock, bytes_read, alive>>

(* With a fault: sizeof(buffer) is sent instead of bytes_read.             *)
WorkerSendWholeBuffer(w) ==
  /\ pc[w] = "send"
  /\ SrvSend(sock[w], UNITS)
  /\ bytes_read' = [bytes_read EXCEPT ![w] = 0]
  /\ Goto(w, "read")
  /\ UNCHANGED <<ringVars, syncVars, sock, alive>>

(* bytes_read is not used again before the next read(), so it is cleared.  *)
WorkerSend(w) ==
  /\ pc[w] = "send"
  /\ SrvSend(sock[w], bytes_read[w])
  /\ bytes_read' = [bytes_read EXCEPT ![w] = 0]
  /\ Goto(w, "read")
  /\ UNCHANGED <<ringVars, syncVars, sock, alive>>

(* The client closed early and its kernel has answered an earlier echo     *)
(* with a reset: this send() ends the whole process.                       *)
WorkerSendKills(w) ==
  /\ pc[w] = "send"
  /\ SrvSendKills(sock[w])
  /\ alive' = FALSE
  /\ UNCHANGED <<ringVars, syncVars, pc, sock, bytes_read>>

WorkerClose(w) ==
  /\ pc[w] = "close"
  /\ SrvClose(sock[w])
  /\ sock' = [sock EXCEPT ![w] = None]
  /\ Goto(w, "lock")
  /\ UNCHANGED <<ringVars, syncVars, bytes_read, alive>>

-----------------------------------------------------------------------------
(* main().                                                                 *)

(* init_queue, socket, bind and listen succeed.                            *)
Boot ==
  /\ pc[Main] = "boot"
  /\ SrvListen
  /\ Goto(Main, "create")
  /\ UNCHANGED <<ringVars, syncVars, sock, bytes_read, alive>>

(* pthread_create of one more worker; the last one ends the loop.  The     *)
(* worker may run before main() creates the next.                          *)
CreateWorker(w) ==
  /\ pc[Main] = "create"
  /\ pc[w] = "unborn"
  /\ pc' = [t \in Threads |->
              IF t = w THEN "lock"
              ELSE IF t = Main /\ \A v \in Workers \ {w} : pc[v] # "unborn"
                   THEN "accept" ELSE pc[t]]
  /\ UNCHANGED <<clientVars, ringVars, syncVars, sock, bytes_read, alive>>

(* A failed socket, bind, listen or pthread_create ends the process, with  *)
(* whatever workers it has already started.                                *)
StartupFails ==
  /\ pc[Main] \in {"boot", "create"}
  /\ SrvExit
  /\ alive' = FALSE
  /\ UNCHANGED <<ringVars, syncVars, pc, sock, bytes_read>>

(* accept(); a failed one leaves everything as it is and is tried again.   *)
Accept ==
  /\ pc[Main] = "accept"
  /\ \E c \in Clients :
       /\ SrvAccept(c)
       /\ sock' = [sock EXCEPT ![Main] = c]
  /\ Goto(Main, "lock")
  /\ UNCHANGED <<ringVars, syncVars, bytes_read, alive>>

-----------------------------------------------------------------------------
MainStep ==
  \/ Boot \/ StartupFails \/ Accept
  \/ AddLock \/ AddWait \/ AddInsert \/ AddSignal \/ AddUnlock
  \/ \E w \in Workers : CreateWorker(w)

WorkerStep(w) ==
  \/ RemoveLock(w) \/ RemoveWait(w) \/ RemoveTake(w) \/ RemoveSignal(w)
  \/ RemoveUnlock(w)
  \/ WorkerRead(w) \/ WorkerReadEnds(w) \/ WorkerSend(w)
  \/ WorkerSendKills(w) \/ WorkerClose(w)

ServerStep ==
  /\ alive
  /\ \/ MainStep
     \/ \E w \in Workers : WorkerStep(w)
     \/ \E t \in Threads : SpuriousWakeup(t)

EnvStep ==
  /\ \E c \in Clients : ClientStep(c)
  /\ UNCHANGED <<ringVars, syncVars, pc, sock, bytes_read, alive>>

Next == ServerStep \/ EnvStep

Spec == Init /\ [][Next]_vars

(* The scheduler runs every thread that can run, a thread that blocks on   *)
(* the mutex is not passed over for ever (spurious wakeups could make      *)
(* others take it again and again), and a connected client goes through    *)
(* its main().  Nothing makes clients appear, and a spurious wakeup is     *)
(* never owed to anybody.                                                  *)
Fairness ==
  /\ WF_vars(alive /\ MainStep)
  /\ SF_vars(alive /\ AddLock)
  /\ \A w \in Workers : /\ WF_vars(alive /\ WorkerStep(w))
                        /\ SF_vars(alive /\ RemoveLock(w))
  /\ \A c \in Clients :
       WF_vars(ClientProgress(c)
               /\ UNCHANGED <<ringVars, syncVars, pc, sock, bytes_read, alive>>)

FairSpec == Spec /\ Fairness

-----------------------------------------------------------------------------
(* The slots that hold a connection: count of them from front on, wrapping *)
(* round at QUEUE_SIZE.                                                    *)
Window == {i \in Slots : \/ front <= i /\ i < front + count
                        \/ i + QUEUE_SIZE < front + count}

(* front, rear and count always describe the same window, although         *)
(* add_to_queue moves two of them and remove_from_queue the other two.     *)
RingShape == \/ rear = front + count
             \/ rear + QUEUE_SIZE = front + count

(* Every connection accepted and not yet closed is in exactly one place:   *)
(* main()'s hand, one slot of the window, or one worker's hand.  So        *)
(* add_to_queue never overwrites a waiting connection, no connection is    *)
(* lost in the ring, and no two workers ever read, write or close the same *)
(* descriptor.                                                             *)
OneOwner ==
  /\ RingShape
  /\ alive => \A c \in Clients :
       srv[c] = "open" <=> \/ \E t \in Threads : sock[t] = c
                           \/ \E i \in Window : queue[i] = c
  /\ \A t, u \in Threads : sock[t] = sock[u] /\ sock[t] # None => t = u
  /\ \A i, j \in Window : queue[i] = queue[j] => i = j
  /\ \A i \in Window : queue[i] # None /\ \A t \in Threads : sock[t] # queue[i]

(* The workers about to look at count again.                               *)
Alert == {w \in Workers : pc[w] \in {"lock", "locked"}}

(* No lost wakeup: pthread_cond_signal is enough, although it wakes one    *)
(* thread only.  While a worker sleeps in remove_from_queue, each waiting  *)
(* connection has a worker of its own that is going to look for it or a    *)
(* signal that main() is about to send; and main() sleeps in add_to_queue  *)
(* only while the ring is full or a worker is about to signal.             *)
NoLostWakeup ==
  /\ not_empty # {} =>
       count <= Cardinality(Alert) + (IF pc[Main] = "signal" THEN 1 ELSE 0)
  /\ not_full # {} =>
       count = QUEUE_SIZE \/ \E w \in Workers : pc[w] = "signal"

(* No piece of a message is lost, duplicated or echoed to another client:  *)
(* until the client closes, what it sent is what waits for the server,     *)
(* what one worker holds, what waits for the client and what it has read.  *)
EchoConservation ==
  \A c \in Clients : cpc[c] \in {"read", "close"} =>
    LET held == toServer[c] + toClient[c] + got[c] IN
    IF \E w \in Workers : sock[w] = c
    THEN \E w \in Workers : sock[w] = c /\ held + bytes_read[w] = UNITS
    ELSE held = UNITS /\ toServer[c] = UNITS

(* A client that reads its whole reply never ends the server for all the   *)
(* others: SIGPIPE needs a client that left with part of the reply missing *)
(* and a message that the server did not get in one read().                *)
KilledByEarlyCloseOnly ==
  ~alive /\ pc[Main] \notin {"boot", "create"} =>
    /\ UNITS >= 2
    /\ \E c \in Clients : cpc[c] = "done" /\ got[c] < UNITS

(* The ring with its lock and condition variables implements the           *)
(* first-in first-out hand-off of HandoffQueue.                            *)
Handoff == INSTANCE HandoffQueue WITH
  Conns <- Clients,
  Servers <- Workers,
  Cap <- QUEUE_SIZE,
  fifo <- [i \in 1..count |-> queue[(front + i - 1) % QUEUE_SIZE]],
  serving <- [w \in Workers |-> sock[w]],
  done <- {c \in Clients : srv[c] = "closed"},
  pending <- {c \in Clients :
                /\ srv[c] # "closed"
                /\ \A w \in Workers : sock[w] # c
                /\ \A i \in Window : queue[i] # c}

HandoffSpec == Handoff!Spec

(* And the workers are to each client a server of its own, EchoService:    *)
(* what they hold of a connection is what its worker has read.             *)
PiecesHeld ==
  [c \in Clients |->
     IF \E w \in Workers : sock[w] = c
     THEN bytes_read[CHOOSE w \in Workers : sock[w] = c] ELSE 0]

Service == INSTANCE EchoService WITH
  ACCEPT_IS_FATAL <- FALSE, CAN_REFUSE <- FALSE, held <- PiecesHeld

ServiceSpec == Service!Spec

(* Every connection main() accepts is served to its end and closed, as     *)
(* long as the clients go through their main(): neither the ring being     *)
(* full nor all workers being busy or asleep leaves one behind.            *)
EveryConnectionServed ==
  \A c \in Clients : srv[c] = "open" ~> srv[c] \in {"closed", "gone"}

(* Every client that got into the backlog comes out of its read() and      *)
(* ends, with an echo or because the server never came up.                 *)
EveryClientEnds == \A c \in Clients : cpc[c] = "send" ~> cpc[c] = "done"

(* Neither end of a connection is left waiting: the hand-over, the two     *)
(* condition variables and the pool of workers owe both of them an end.    *)
NobodyLeftWaiting == EveryConnectionServed /\ EveryClientEnds
=============================================================================
