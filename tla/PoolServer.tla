----------------------------- MODULE PoolServer -----------------------------
(***************************************************************************)
(* sockets/hw2/pserver pool/server.c: main() takes a thread number from a  *)
(* stack of MAX_THREADS numbers, starts a thread for the connection under  *)
(* that number, waits on a pipe for the number of a thread that has        *)
(* finished, and pushes it back.                                           *)
(***************************************************************************)
EXTENDS EchoThreads, FiniteSets

CONSTANTS
  MAX_THREADS,  \* how many numbers there are
  Main          \* the thread that runs main()

ASSUME PoolAssumption ==
  /\ MAX_THREADS \in Nat \ {0}
  /\ IsFiniteSet(Handlers) /\ IsFiniteSet(Clients)
  /\ Main \notin Handlers /\ None \notin Handlers \cup {Main}

Ids == 0..(MAX_THREADS - 1)
NoId == MAX_THREADS

VARIABLES
  mpc,                \* where main() is
  new_socket,         \* main()'s locals
  thread_id,
  finished_thread_id,
  available_threads,  \* the stack of free numbers: thread_count of them
  thread_count,
  mutex,              \* the thread that holds the mutex
  pipe,               \* numbers written to pipe_fd[1] and not yet read
  id,                 \* t_arg->id of each thread
  uncreated           \* history: the connections whose pthread_create failed

mainVars == <<mpc, new_socket, thread_id, finished_thread_id, uncreated>>
poolVars == <<available_threads, thread_count, mutex, pipe, id>>
vars == <<echoVars, mainVars, poolVars>>

TypeOK ==
  /\ EchoTypeOK({"lock", "write", "unlock", "exited"})
  /\ mpc \in {"boot", "accept", "lockPop", "pop", "wait", "unlockPop",
              "create", "readPipe", "lockPush", "push", "signal",
              "unlockPush"}
  /\ new_socket \in Clients \cup {None}
  /\ thread_id \in Ids \cup {NoId}
  /\ finished_thread_id \in Ids \cup {NoId}
  /\ available_threads \in [Ids -> Ids]
  /\ thread_count \in 0..MAX_THREADS
  /\ mutex \in Handlers \cup {Main, None}
  /\ pipe \in Seq(Ids)
  /\ id \in [Handlers -> Ids \cup {NoId}]
  /\ uncreated \in SUBSET Clients

Init ==
  /\ EchoInit
  /\ mpc = "boot"
  /\ new_socket = None
  /\ thread_id = NoId /\ finished_thread_id = NoId
  /\ available_threads = [i \in Ids |-> i]
  /\ thread_count = MAX_THREADS
  /\ mutex = None
  /\ pipe = <<>>
  /\ id = [h \in Handlers |-> NoId]
  /\ uncreated = {}

MutexLock(t) == mutex = None /\ mutex' = t
MutexUnlock(t) == mutex = t /\ mutex' = None

-----------------------------------------------------------------------------
(* main().                                                                 *)

MainGoes(from, to) == mpc = from /\ mpc' = to

(* pipe, socket, bind and listen succeed and the numbers are laid out.     *)
Boot ==
  /\ MainGoes("boot", "accept")
  /\ SrvListen
  /\ UNCHANGED <<hpc, sock, hbytes, alive, new_socket, thread_id,
                 finished_thread_id, uncreated, poolVars>>

BootFails ==
  /\ mpc = "boot"
  /\ SrvExit
  /\ alive' = FALSE
  /\ UNCHANGED <<hpc, sock, hbytes, mainVars, poolVars>>

Accept ==
  /\ MainGoes("accept", "lockPop")
  /\ \E c \in Clients : SrvAccept(c) /\ new_socket' = c
  /\ UNCHANGED <<hpc, sock, hbytes, alive, thread_id, finished_thread_id,
                 uncreated, poolVars>>

LockPop ==
  /\ MainGoes("lockPop", "pop")
  /\ MutexLock(Main)
  /\ UNCHANGED <<echoVars, new_socket, thread_id, finished_thread_id,
                 uncreated, available_threads, thread_count, pipe,
                 id>>

WaitForThread ==
  /\ MainGoes("pop", "wait")
  /\ thread_count = 0
  /\ MutexUnlock(Main)
  /\ UNCHANGED <<echoVars, new_socket, thread_id, finished_thread_id,
                 uncreated, available_threads, thread_count, pipe, id>>

(* pthread_cond_wait returns without a signal; the only signal is sent by  *)
(* main() itself, which sleeps here.                                       *)
SpuriousWakeup ==
  /\ MainGoes("wait", "lockPop")
  /\ UNCHANGED <<echoVars, new_socket, thread_id, finished_thread_id,
                 uncreated, available_threads, thread_count, mutex, pipe, id>>

Pop ==
  /\ MainGoes("pop", "unlockPop")
  /\ thread_count # 0
  /\ thread_count' = thread_count - 1
  /\ thread_id' = available_threads[thread_count']
  /\ UNCHANGED <<echoVars, new_socket, finished_thread_id, uncreated,
                 available_threads, mutex, pipe, id>>

UnlockPop ==
  /\ MainGoes("unlockPop", "create")
  /\ MutexUnlock(Main)
  /\ UNCHANGED <<echoVars, new_socket, thread_id, finished_thread_id,
                 uncreated, available_threads, thread_count, pipe,
                 id>>

(* pthread_create with a fresh thread_arg.  The argument is the thread's   *)
(* from here on; main() does not use new_socket or thread_id again.        *)
CreateThread(h) ==
  /\ MainGoes("create", "readPipe")
  /\ hpc[h] = "none"
  /\ hpc' = [hpc EXCEPT ![h] = "start"]
  /\ sock' = [sock EXCEPT ![h] = new_socket]
  /\ id' = [id EXCEPT ![h] = thread_id]
  /\ new_socket' = None
  /\ thread_id' = NoId
  /\ UNCHANGED <<clientVars, hbytes, alive, finished_thread_id, uncreated,
                 available_threads, thread_count, mutex, pipe>>

(* A failed pthread_create closes the connection; the number is not pushed *)
(* back.                                                                   *)
CreateFails ==
  /\ MainGoes("create", "accept")
  /\ SrvClose(new_socket)
  /\ uncreated' = uncreated \cup {new_socket}
  /\ new_socket' = None
  /\ thread_id' = NoId
  /\ UNCHANGED <<hpc, sock, hbytes, alive, finished_thread_id, poolVars>>

(* read() of the pipe blocks until a thread has written its number.        *)
ReadPipe ==
  /\ MainGoes("readPipe", "lockPush")
  /\ pipe # <<>>
  /\ finished_thread_id' = Head(pipe)
  /\ pipe' = Tail(pipe)
  /\ UNCHANGED <<echoVars, new_socket, thread_id, uncreated,
                 available_threads, thread_count, mutex, id>>

LockPush ==
  /\ MainGoes("lockPush", "push")
  /\ MutexLock(Main)
  /\ UNCHANGED <<echoVars, new_socket, thread_id, finished_thread_id,
                 uncreated, available_threads, thread_count, pipe,
                 id>>

(* With a fault: the number is stored but not counted.                     *)
PushWithoutCount ==
  /\ MainGoes("push", "signal")
  /\ available_threads' = [available_threads EXCEPT
                             ![thread_count] = finished_thread_id]
  /\ finished_thread_id' = NoId
  /\ UNCHANGED <<echoVars, new_socket, thread_id, uncreated, thread_count,
                 mutex, pipe, id>>

Push ==
  /\ MainGoes("push", "signal")
  /\ available_threads' = [available_threads EXCEPT
                             ![thread_count] = finished_thread_id]
  /\ thread_count' = thread_count + 1
  /\ finished_thread_id' = NoId
  /\ UNCHANGED <<echoVars, new_socket, thread_id, uncreated, mutex,
                 pipe, id>>

(* Nobody but main() waits on cond, so the signal wakes nobody.            *)
Signal ==
  /\ MainGoes("signal", "unlockPush")
  /\ UNCHANGED <<echoVars, new_socket, thread_id, finished_thread_id,
                 uncreated, poolVars>>

UnlockPush ==
  /\ MainGoes("unlockPush", "accept")
  /\ MutexUnlock(Main)
  /\ UNCHANGED <<echoVars, new_socket, thread_id, finished_thread_id,
                 uncreated, available_threads, thread_count, pipe,
                 id>>

MainStep ==
  \/ Boot \/ BootFails \/ Accept
  \/ LockPop \/ WaitForThread \/ Pop \/ UnlockPop
  \/ CreateFails \/ ReadPipe
  \/ LockPush \/ Push \/ Signal \/ UnlockPush
  \/ \E h \in Handlers : CreateThread(h)

-----------------------------------------------------------------------------
(* handle_client.                                                          *)

(* The echo loop, from taking the argument to close().                     *)
Echo(h) ==
  /\ \/ EchoStart(h, sock[h])
     \/ EchoRead(h)
     \/ EchoSend(h)
     \/ EchoSendKills(h)
     \/ EchoClose(h, "lock")
  /\ UNCHANGED <<mainVars, poolVars>>

HandlerLock(h) ==
  /\ hpc[h] = "lock"
  /\ MutexLock(h)
  /\ hpc' = [hpc EXCEPT ![h] = "write"]
  /\ UNCHANGED <<clientVars, sock, hbytes, alive, mainVars, available_threads,
                 thread_count, pipe, id>>

(* With a fault: the number is written to the pipe twice.                  *)
HandlerWriteTwice(h) ==
  /\ hpc[h] = "write"
  /\ pipe' = pipe \o <<id[h], id[h]>>
  /\ id' = [id EXCEPT ![h] = NoId]
  /\ hpc' = [hpc EXCEPT ![h] = "unlock"]
  /\ UNCHANGED <<clientVars, sock, hbytes, alive, mainVars, available_threads,
                 thread_count, mutex>>

(* The thread gives its number up; main() may read it before the thread    *)
(* has released the mutex.                                                 *)
HandlerWrite(h) ==
  /\ hpc[h] = "write"
  /\ pipe' = Append(pipe, id[h])
  /\ id' = [id EXCEPT ![h] = NoId]
  /\ hpc' = [hpc EXCEPT ![h] = "unlock"]
  /\ UNCHANGED <<clientVars, sock, hbytes, alive, mainVars, available_threads,
                 thread_count, mutex>>

(* After the unlock the thread frees its argument and returns; it is never *)
(* joined.                                                                 *)
HandlerUnlock(h) ==
  /\ hpc[h] = "unlock"
  /\ MutexUnlock(h)
  /\ hpc' = [hpc EXCEPT ![h] = "exited"]
  /\ UNCHANGED <<clientVars, sock, hbytes, alive, mainVars, available_threads,
                 thread_count, pipe, id>>

HandlerStep(h) ==
  Echo(h) \/ HandlerLock(h) \/ HandlerWrite(h) \/ HandlerUnlock(h)

-----------------------------------------------------------------------------
ServerStep ==
  alive /\ (MainStep \/ SpuriousWakeup \/ \E h \in Handlers : HandlerStep(h))

EnvUnchanged == UNCHANGED <<hpc, sock, hbytes, alive, mainVars, poolVars>>

Next == ServerStep \/ \E c \in Clients : ClientStep(c) /\ EnvUnchanged

Spec == Init /\ [][Next]_vars

(* Every thread that can run runs, and connected clients go through their  *)
(* main().  A spurious wakeup is never owed.                               *)
Fairness ==
  /\ WF_vars(alive /\ MainStep)
  /\ \A h \in Handlers : WF_vars(alive /\ HandlerStep(h))
  /\ \A c \in Clients : WF_vars(ClientProgress(c) /\ EnvUnchanged)

FairSpec == Spec /\ Fairness

-----------------------------------------------------------------------------
(* Where a number can be: on the stack, in main()'s hand on the way out or *)
(* back, with a thread, or in the pipe.                                    *)
Stacked == {available_threads[i] : i \in 0..(thread_count - 1)}
InHand == {thread_id, finished_thread_id} \ {NoId}
WithThread == {id[h] : h \in Handlers} \ {NoId}
InPipe == {pipe[i] : i \in 1..Len(pipe)}

(* No number is ever in two places, so no two threads share a slot of      *)
(* threads[] and the stack never overflows; and the only numbers that are  *)
(* nowhere are those of the failed calls of pthread_create.                *)
NumbersConserved ==
  /\ Cardinality(Stacked) = thread_count
  /\ Cardinality(InPipe) = Len(pipe)
  /\ thread_count + Len(pipe) + Cardinality(InHand) + Cardinality(WithThread)
       + Cardinality(uncreated) = MAX_THREADS
  /\ Cardinality(Stacked \cup InPipe \cup InHand \cup WithThread)
       + Cardinality(uncreated) = MAX_THREADS

(* The pool never works in parallel: main() waits for the thread it has    *)
(* just started before it accepts again, so at most one thread is between  *)
(* its start and its write to the pipe, however many numbers are free.     *)
OneClientAtATime ==
  LET busy == {h \in Handlers :
                 hpc[h] \in {"start", "read", "send", "lock", "write"}} IN
  /\ Cardinality(busy) <= 1
  /\ busy # {} => mpc = "readPipe" /\ pipe = <<>>

(* main() sleeps on cond only when every number was lost to a failed       *)
(* pthread_create, and then no thread is left that could bring one back.   *)
WaitsOnlyWhenAllLost ==
  mpc = "wait" =>
    /\ Cardinality(uncreated) = MAX_THREADS
    /\ \A h \in Handlers : hpc[h] \in {"none", "unlock", "exited"}

(* Both together: a failed pthread_create is the only way to lose a        *)
(* number, and losing them all the only way to put main() to sleep.        *)
PoolShrinksOnlyByFailures == NumbersConserved /\ WaitsOnlyWhenAllLost

(* As long as fewer than MAX_THREADS calls of pthread_create have failed,  *)
(* every connection main() accepts is closed in the end.                   *)
EveryConnectionServed ==
  [](Cardinality(uncreated) < MAX_THREADS) =>
    \A c \in Clients : srv[c] = "open" ~> srv[c] \in {"closed", "gone"}

(* To its clients the server is EchoService, one that may close a          *)
(* connection instead of serving it: when pthread_create fails.            *)
Service == INSTANCE EchoService WITH
  ACCEPT_IS_FATAL <- FALSE, CAN_REFUSE <- TRUE, held <- PiecesHeld

ServiceSpec == Service!Spec
=============================================================================
