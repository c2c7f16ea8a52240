-------------------------- MODULE PoolServerProofs --------------------------
(***************************************************************************)
(* Theorems about PoolServer, for any number of clients, threads, numbers  *)
(* and pieces.  The pool never works in parallel (Turns), so a number that *)
(* is not on the stack is on its way from the stack through one thread and *)
(* back, which only one can be at a time (Counted).  Numbered follows it   *)
(* there: the stack is a set, and the number on its way is not in it.      *)
(***************************************************************************)
EXTENDS PoolServer, EchoThreadsProofs, FiniteSetTheorems

Kinds ==
  /\ EchoKinds
  /\ mpc \in {"boot", "accept", "lockPop", "pop", "wait", "unlockPop",
              "create", "readPipe", "lockPush", "push", "signal",
              "unlockPush"}
  /\ thread_id \in Nat /\ finished_thread_id \in Nat
  /\ available_threads \in [Ids -> Nat]
  /\ thread_count \in 0..MAX_THREADS
  /\ pipe \in Seq(Nat)
  /\ id \in [Handlers -> Nat]

(* The threads that have not given their number up yet.                    *)
Busy == {h \in Handlers : hpc[h] \in {"start", "read", "send", "lock", "write"}}

(* main() and the one thread take turns.                                   *)
Turns ==
  /\ \A h \in Busy : mpc = "readPipe" /\ pipe = <<>>
  /\ \A g, h \in Busy : g = h
  /\ pipe # <<>> => mpc = "readPipe" /\ Len(pipe) = 1

(* The connections main() and the threads have were accepted, and those of *)
(* a failed pthread_create are nobody's.                                   *)
Accepted ==
  /\ mpc \in {"lockPop", "pop", "wait", "unlockPop", "create"} =>
       new_socket \in Clients /\ srv[new_socket] # "none"
  /\ \A h \in Handlers : hpc[h] \in {"start", "read", "send"} =>
       sock[h] \in Clients /\ srv[sock[h]] # "none"
  /\ uncreated \subseteq Clients
  /\ \A c \in uncreated : srv[c] # "none"
  /\ new_socket \notin uncreated

(* The one number that is off the stack and not lost.                      *)
Out == IF mpc \in {"unlockPop", "create", "readPipe", "lockPush", "push"}
       THEN 1 ELSE 0

Counted ==
  /\ thread_count + Out + Cardinality(uncreated) = MAX_THREADS
  /\ mpc = "wait" => thread_count = 0

IInv == Kinds /\ Turns /\ Backlogged /\ Accepted /\ Counted

-----------------------------------------------------------------------------
LEMMA LostCount ==
  ASSUME Accepted
  PROVE  IsFiniteSet(uncreated) /\ Cardinality(uncreated) \in Nat
BY PoolAssumption, FS_Subset, FS_CardinalityType DEF Accepted

(* The steps of main() that only move it and touch nothing but the mutex   *)
(* and the stack.                                                          *)
LEMMA MainPops ==
  ASSUME IInv, LockPop \/ WaitForThread \/ SpuriousWakeup \/ Pop \/ UnlockPop
  PROVE  IInv'
<1>1. /\ UNCHANGED <<hpc, sock, hbytes, alive, listening, backlog, cpc, srv,
                     new_socket, uncreated, pipe, id, available_threads,
                     finished_thread_id>>
  BY DEF LockPop, WaitForThread, SpuriousWakeup, Pop, UnlockPop, echoVars,
         clientVars
<1>2. /\ mpc \in {"lockPop", "pop", "wait", "unlockPop"}
      /\ mpc' \in {"lockPop", "pop", "wait", "unlockPop", "create"}
  BY DEF LockPop, WaitForThread, SpuriousWakeup, Pop, UnlockPop, MainGoes
<1>3. /\ thread_count' \in 0..MAX_THREADS /\ thread_id' \in Nat
      /\ thread_count' + Out' = thread_count + Out
      /\ mpc' = "wait" => thread_count' = 0
  <2> USE PoolAssumption DEF IInv, Kinds, Counted, Out, MainGoes
  <2>1. CASE Pop
    <3>1. /\ thread_count' = thread_count - 1 /\ thread_count # 0
          /\ mpc = "pop" /\ mpc' = "unlockPop"
          /\ thread_id' = available_threads[thread_count']
      BY <2>1 DEF Pop
    <3>2. thread_count' \in Ids /\ thread_count' \in 0..MAX_THREADS
      BY <3>1 DEF Ids
    <3>3. thread_id' \in Nat
      BY <3>1, <3>2
    <3>4. Out = 0 /\ Out' = 1
      BY <3>1
    <3> QED BY <3>1, <3>2, <3>3, <3>4
  <2>2. CASE LockPop \/ WaitForThread \/ SpuriousWakeup \/ UnlockPop
    <3>1. thread_count' = thread_count /\ thread_id' = thread_id
      BY <2>2 DEF LockPop, WaitForThread, SpuriousWakeup, UnlockPop
    <3>2. Out' = Out
      BY <2>2 DEF LockPop, WaitForThread, SpuriousWakeup, UnlockPop
    <3>3. mpc' = "wait" => thread_count = 0
      BY <2>2 DEF LockPop, WaitForThread, SpuriousWakeup, UnlockPop
    <3> QED BY <3>1, <3>2, <3>3
  <2> QED BY <2>1, <2>2
<1>4. Kinds'
  BY <1>1, <1>2, <1>3 DEF IInv, Kinds, EchoKinds
<1>5. Turns'
  BY <1>1, <1>2 DEF IInv, Turns, Busy
<1>6. Backlogged'
  BY <1>1 DEF IInv, Backlogged
<1>7. Accepted'
  BY <1>1, <1>2 DEF IInv, Accepted
<1>8. Counted'
  BY <1>1, <1>3 DEF IInv, Counted
<1> QED BY <1>4, <1>5, <1>6, <1>7, <1>8 DEF IInv

LEMMA MainPushes ==
  ASSUME IInv, ReadPipe \/ LockPush \/ Push \/ Signal \/ UnlockPush
  PROVE  IInv'
<1>1. UNCHANGED <<hpc, sock, hbytes, alive, listening, backlog, cpc, srv,
                  new_socket, uncreated, id, thread_id>>
  BY DEF ReadPipe, LockPush, Push, Signal, UnlockPush, echoVars, clientVars,
         poolVars
<1>2. /\ mpc \in {"readPipe", "lockPush", "push", "signal", "unlockPush"}
      /\ mpc' \in {"lockPush", "push", "signal", "unlockPush", "accept"}
  BY DEF ReadPipe, LockPush, Push, Signal, UnlockPush, MainGoes
<1>3. pipe' \in Seq(Nat) /\ finished_thread_id' \in Nat /\ Turns'
  <2>1. CASE ReadPipe
    <3>1. /\ pipe # <<>> /\ pipe' = Tail(pipe)
          /\ finished_thread_id' = Head(pipe)
      BY <2>1 DEF ReadPipe
    <3>2. pipe \in Seq(Nat) /\ Len(pipe) = 1
      BY <3>1 DEF IInv, Kinds, Turns
    <3>3. /\ pipe' \in Seq(Nat) /\ Len(pipe') = 0
          /\ finished_thread_id' \in Nat
      BY <3>1, <3>2
    <3>4. pipe' = <<>>
      BY <3>3
    <3>5. Busy' = {}
      BY <1>1, <3>1 DEF IInv, Turns, Busy
    <3> QED BY <3>3, <3>4, <3>5 DEF Turns
  <2>2. CASE LockPush \/ Push \/ Signal \/ UnlockPush
    <3>1. pipe' = pipe /\ mpc # "readPipe"
      BY <2>2 DEF LockPush, Push, Signal, UnlockPush, MainGoes, poolVars
    <3>2. finished_thread_id' \in Nat
      BY <2>2, PoolAssumption
         DEF LockPush, Push, Signal, UnlockPush, IInv, Kinds, NoId
    <3>3. pipe = <<>> /\ Busy = {} /\ Busy' = Busy
      BY <1>1, <3>1 DEF IInv, Turns, Busy
    <3> QED BY <3>1, <3>2, <3>3 DEF Turns, IInv, Kinds
  <2> QED BY <2>1, <2>2
<1>4. /\ thread_count' \in 0..MAX_THREADS
      /\ available_threads' \in [Ids -> Nat]
      /\ thread_count' + Out' = thread_count + Out
  <2>1. thread_count \in 0..MAX_THREADS /\ available_threads \in [Ids -> Nat]
    BY DEF IInv, Kinds
  <2>2. CASE Push
    <3>1. /\ thread_count' = thread_count + 1
          /\ available_threads' = [available_threads EXCEPT
                                    ![thread_count] = finished_thread_id]
          /\ mpc = "push" /\ mpc' = "signal"
      BY <2>2 DEF Push, MainGoes
    <3>2. Out = 1 /\ Out' = 0
      BY <3>1 DEF Out
    <3>3. /\ thread_count + 1 + Cardinality(uncreated) = MAX_THREADS
          /\ Cardinality(uncreated) \in Nat /\ MAX_THREADS \in Nat
      BY <3>2, LostCount, PoolAssumption DEF IInv, Counted
    <3>4. thread_count' \in 0..MAX_THREADS
      BY <2>1, <3>1, <3>3
    <3>5. available_threads' \in [Ids -> Nat]
      BY <2>1, <3>1 DEF IInv, Kinds
    <3> QED BY <2>1, <3>1, <3>2, <3>4, <3>5
  <2>3. CASE ReadPipe \/ LockPush \/ Signal \/ UnlockPush
    <3>1. thread_count' = thread_count /\ available_threads' = available_threads
      BY <2>3 DEF ReadPipe, LockPush, Signal, UnlockPush, poolVars
    <3>2. Out' = Out
      BY <2>3 DEF ReadPipe, LockPush, Signal, UnlockPush, MainGoes, Out
    <3> QED BY <2>1, <3>1, <3>2
  <2> QED BY <2>2, <2>3
<1>5. Kinds'
  BY <1>1, <1>2, <1>3, <1>4 DEF IInv, Kinds, EchoKinds
<1>6. Backlogged'
  BY <1>1 DEF IInv, Backlogged
<1>7. Accepted'
  BY <1>1, <1>2 DEF IInv, Accepted
<1>8. Counted'
  BY <1>1, <1>2, <1>4 DEF IInv, Counted
<1> QED BY <1>3, <1>5, <1>6, <1>7, <1>8 DEF IInv

-----------------------------------------------------------------------------
(* The steps of main() that start, take or hand over a connection.         *)
LEMMA MainConnects ==
  ASSUME IInv, \/ Boot \/ BootFails \/ Accept \/ CreateFails
               \/ \E h \in Handlers : CreateThread(h)
  PROVE  IInv'
<1>1. CASE Boot
  <2>1. /\ UNCHANGED <<hpc, sock, hbytes, alive, backlog, cpc, srv, new_socket,
                       thread_id, finished_thread_id, uncreated,
                       available_threads, thread_count, pipe, id>>
        /\ listening' = TRUE /\ mpc = "boot" /\ mpc' = "accept"
    BY <1>1 DEF Boot, SrvListen, MainGoes, poolVars
  <2>2. Kinds'
    BY <2>1 DEF IInv, Kinds, EchoKinds
  <2>3. Turns' /\ Backlogged'
    BY <2>1 DEF IInv, Turns, Busy, Backlogged
  <2>4. Accepted' /\ Counted'
    BY <2>1 DEF IInv, Accepted, Counted, Out
  <2> QED BY <2>2, <2>3, <2>4 DEF IInv
<1>2. CASE BootFails
  <2>1. /\ UNCHANGED <<hpc, sock, hbytes, cpc, mpc, new_socket, thread_id,
                       finished_thread_id, uncreated, available_threads,
                       thread_count, pipe, id>>
        /\ alive' = FALSE /\ SrvExit
    BY <1>2 DEF BootFails, SrvExit, mainVars, poolVars
  <2>2. Kinds' /\ Backlogged'
    BY <2>1, EchoKindsExit, BackloggedExit DEF IInv, Kinds, EchoKinds
  <2>3. Turns' /\ Counted'
    BY <2>1 DEF IInv, Turns, Busy, Counted, Out
  <2>4. Accepted'
    BY <2>1 DEF IInv, Accepted, SrvExit
  <2> QED BY <2>2, <2>3, <2>4 DEF IInv
<1>3. CASE Accept
  <2>1. PICK c \in Clients : SrvAccept(c) /\ new_socket' = c
    BY <1>3 DEF Accept
  <2>2. /\ UNCHANGED <<hpc, sock, hbytes, alive, cpc, thread_id, listening,
                       finished_thread_id, uncreated, available_threads,
                       thread_count, pipe, id>>
        /\ mpc = "accept" /\ mpc' = "lockPop"
        /\ srv' = [srv EXCEPT ![c] = "open"]
    BY <1>3, <2>1 DEF Accept, SrvAccept, MainGoes, poolVars
  <2>3. srv[c] = "none" /\ Backlogged'
    BY <2>1, BackloggedAccept DEF IInv, Kinds
  <2>4. backlog' \in Seq(Clients)
    BY <2>1 DEF SrvAccept, IInv, Kinds, EchoKinds
  <2>5. Kinds'
    BY <2>2, <2>4 DEF IInv, Kinds, EchoKinds
  <2>6. Turns' /\ Counted'
    BY <2>2 DEF IInv, Turns, Busy, Counted, Out
  <2>7. Accepted'
    BY <2>1, <2>2, <2>3 DEF IInv, Accepted, Kinds, EchoKinds
  <2> QED BY <2>3, <2>5, <2>6, <2>7 DEF IInv
<1>4. CASE CreateFails
  <2>1. /\ UNCHANGED <<hpc, sock, hbytes, alive, cpc, listening, backlog,
                       finished_thread_id, available_threads,
                       thread_count, pipe, id>>
        /\ mpc = "create" /\ mpc' = "accept" /\ thread_id' = MAX_THREADS
        /\ SrvClose(new_socket) /\ new_socket' = None
        /\ srv' = [srv EXCEPT ![new_socket] = "closed"]
        /\ uncreated' = uncreated \cup {new_socket}
    BY <1>4 DEF CreateFails, SrvClose, MainGoes, poolVars, NoId
  <2>2. /\ new_socket \in Clients /\ srv[new_socket] # "none"
        /\ new_socket \notin uncreated
    BY <2>1 DEF IInv, Accepted
  <2>3. Backlogged'
    BY <2>1, <2>2, BackloggedClose DEF IInv, Kinds
  <2>4. Kinds'
    BY <2>1, <2>2, PoolAssumption DEF IInv, Kinds, EchoKinds
  <2>5. Turns'
    BY <2>1 DEF IInv, Turns, Busy
  <2>6. None \notin Clients
    BY EchoAssumption
  <2>7. Accepted'
    BY <2>1, <2>2, <2>6 DEF IInv, Accepted, Kinds, EchoKinds
  <2>8. Counted'
    <3>1. Cardinality(uncreated') = Cardinality(uncreated) + 1
      BY <2>1, <2>2, LostCount, FS_AddElement DEF IInv
    <3>2. Out = 1 /\ Out' = 0 /\ thread_count \in Nat
      BY <2>1 DEF Out, IInv, Kinds
    <3>3. Cardinality(uncreated) \in Nat
      BY LostCount DEF IInv
    <3>4. thread_count + 1 + Cardinality(uncreated) = MAX_THREADS
      BY <3>2 DEF IInv, Counted
    <3>5. thread_count + 0 + (Cardinality(uncreated) + 1) = MAX_THREADS
      BY <3>2, <3>3, <3>4
    <3> QED BY <2>1, <3>1, <3>2, <3>5 DEF Counted
  <2> QED BY <2>3, <2>4, <2>5, <2>7, <2>8 DEF IInv
<1>5. ASSUME NEW h \in Handlers, CreateThread(h)
      PROVE  IInv'
  <2>1. /\ UNCHANGED <<hbytes, alive, listening, backlog, cpc, srv, uncreated,
                       finished_thread_id, available_threads,
                       thread_count, pipe>>
        /\ mpc = "create" /\ mpc' = "readPipe" /\ thread_id' = MAX_THREADS
        /\ hpc' = [hpc EXCEPT ![h] = "start"]
        /\ sock' = [sock EXCEPT ![h] = new_socket]
        /\ id' = [id EXCEPT ![h] = thread_id]
        /\ new_socket' = None
    BY <1>5 DEF CreateThread, MainGoes, clientVars, NoId
  <2>2. new_socket \in Clients /\ srv[new_socket] # "none"
    BY <2>1 DEF IInv, Accepted
  <2>3. Kinds'
    BY <2>1, <2>2, PoolAssumption DEF IInv, Kinds, EchoKinds, Labels
  <2>4. pipe = <<>> /\ Busy = {}
    BY <2>1 DEF IInv, Turns
  <2>5. Busy' = {h}
    BY <2>1, <2>4 DEF Busy, IInv, Kinds, EchoKinds
  <2>6. Turns'
    BY <2>1, <2>4, <2>5 DEF Turns
  <2>7. Backlogged' /\ Counted'
    BY <2>1 DEF IInv, Backlogged, Counted, Out
  <2>8. Accepted'
    BY <2>1, <2>2, EchoAssumption DEF IInv, Accepted, Kinds, EchoKinds
  <2> QED BY <2>3, <2>6, <2>7, <2>8 DEF IInv
<1> QED BY <1>1, <1>2, <1>3, <1>4, <1>5

-----------------------------------------------------------------------------
LEMMA HandlerEchoes ==
  ASSUME IInv, NEW h \in Handlers, Echo(h)
  PROVE  IInv'
<1>1. /\ UNCHANGED <<mpc, new_socket, thread_id, finished_thread_id,
                     uncreated, available_threads, thread_count, pipe, id>>
      /\ hpc[h] \in {"start", "read", "send"}
  BY DEF Echo, mainVars, poolVars, EchoStart, EchoRead, EchoSend,
         EchoSendKills, EchoClose
<1>2. sock[h] \in Clients /\ srv[sock[h]] # "none"
  BY <1>1 DEF IInv, Accepted
<1>3. /\ EchoKinds' /\ Backlogged'
      /\ sock' = sock \/ sock' = [sock EXCEPT ![h] = None]
      /\ hpc' = hpc \/ \E l \in {"read", "send", "lock"} :
                         hpc' = [hpc EXCEPT ![h] = l]
      /\ sock' = sock \/ hpc' = [hpc EXCEPT ![h] = "lock"]
      /\ \A c \in Clients : srv[c] # "none" => srv'[c] # "none"
  <2> USE DEF IInv, Kinds
  <2>1. CASE EchoStart(h, sock[h])
    <3>1. sock' = sock /\ hpc' = [hpc EXCEPT ![h] = "read"]
      BY <2>1 DEF EchoStart, EchoKinds
    <3> QED BY <2>1, <3>1 DEF EchoStart, clientVars, EchoKinds, Labels,
                              Backlogged
  <2>2. CASE EchoRead(h) \/ EchoSend(h)
    <3>1. EchoKinds'
      BY <2>2, EchoKindsLoop DEF Labels
    <3>2. /\ UNCHANGED <<sock, srv, cpc, backlog>>
          /\ \E l \in {"read", "send", "lock"} : hpc' = [hpc EXCEPT ![h] = l]
      BY <2>2 DEF EchoRead, EchoSend, SrvRead, SrvSend
    <3> QED BY <3>1, <3>2 DEF Backlogged
  <2>3. CASE EchoSendKills(h)
    <3>1. EchoKinds'
      BY <2>3, EchoKindsLoop DEF Labels
    <3>2. hpc' = hpc /\ sock' = sock /\ SrvExit
      BY <2>3 DEF EchoSendKills, SrvSendKills
    <3>3. Backlogged'
      BY <3>2, BackloggedExit
    <3> QED BY <3>1, <3>2, <3>3 DEF SrvExit
  <2>4. CASE EchoClose(h, "lock")
    <3>1. EchoKinds'
      BY <2>4, EchoKindsLoop DEF Labels
    <3>2. /\ sock' = [sock EXCEPT ![h] = None]
          /\ hpc' = [hpc EXCEPT ![h] = "lock"]
          /\ SrvClose(sock[h])
          /\ srv' = [srv EXCEPT ![sock[h]] = "closed"]
      BY <2>4 DEF EchoClose, SrvClose
    <3>3. Backlogged'
      BY <1>2, <3>2, BackloggedClose
    <3>4. \A c \in Clients : srv[c] # "none" => srv'[c] # "none"
      BY <3>2 DEF EchoKinds
    <3> QED BY <3>1, <3>2, <3>3, <3>4
  <2> QED BY <2>1, <2>2, <2>3, <2>4 DEF Echo
<1>4. Kinds'
  BY <1>1, <1>3 DEF IInv, Kinds
<1>5. Turns'
  <2>1. Busy' = Busy
    BY <1>1, <1>3 DEF Busy, IInv, Kinds, EchoKinds
  <2> QED BY <1>1, <2>1 DEF IInv, Turns
<1>6. Accepted'
  <2>1. \A g \in Handlers : hpc'[g] \in {"start", "read", "send"} =>
          hpc[g] \in {"start", "read", "send"} /\ sock'[g] = sock[g]
    BY <1>1, <1>3 DEF IInv, Kinds, EchoKinds
  <2>2. \A c \in Clients : srv[c] # "none" => srv'[c] # "none"
    BY <1>3
  <2> QED BY <1>1, <2>1, <2>2 DEF IInv, Accepted
<1>7. Counted'
  BY <1>1 DEF IInv, Counted, Out
<1> QED BY <1>3, <1>4, <1>5, <1>6, <1>7 DEF IInv

(* The thread gives its number up.                                         *)
LEMMA HandlerReturns ==
  ASSUME IInv, NEW h \in Handlers,
         HandlerLock(h) \/ HandlerWrite(h) \/ HandlerUnlock(h)
  PROVE  IInv'
<1>1. UNCHANGED <<sock, hbytes, alive, listening, backlog, cpc, srv, mpc,
                  new_socket, thread_id, finished_thread_id, uncreated,
                  available_threads, thread_count>>
  BY DEF HandlerLock, HandlerWrite, HandlerUnlock, clientVars, mainVars
<1>2. /\ hpc[h] \in {"lock", "write", "unlock"}
      /\ \E l \in {"write", "unlock", "exited"} : hpc' = [hpc EXCEPT ![h] = l]
  BY DEF HandlerLock, HandlerWrite, HandlerUnlock
<1>3. pipe' \in Seq(Nat) /\ id' \in [Handlers -> Nat] /\ Turns'
  <2>1. CASE HandlerWrite(h)
    <3>1. /\ hpc[h] = "write" /\ hpc' = [hpc EXCEPT ![h] = "unlock"]
          /\ pipe' = Append(pipe, id[h])
          /\ id' = [id EXCEPT ![h] = MAX_THREADS]
      BY <2>1 DEF HandlerWrite, NoId
    <3>2. h \in Busy
      BY <3>1 DEF Busy
    <3>3. mpc = "readPipe" /\ pipe = <<>> /\ Busy = {h}
      BY <3>2 DEF IInv, Turns
    <3>4. pipe \in Seq(Nat) /\ id[h] \in Nat
      BY DEF IInv, Kinds
    <3>5. pipe' \in Seq(Nat) /\ Len(pipe') = 1
      BY <3>1, <3>3, <3>4
    <3>6. Busy' = {}
      BY <3>1, <3>3 DEF Busy, IInv, Kinds, EchoKinds
    <3>7. id' \in [Handlers -> Nat]
      BY <3>1, PoolAssumption DEF IInv, Kinds
    <3> QED BY <1>1, <3>3, <3>5, <3>6, <3>7 DEF Turns
  <2>2. CASE HandlerLock(h) \/ HandlerUnlock(h)
    <3>1. pipe' = pipe /\ id' = id
      BY <2>2 DEF HandlerLock, HandlerUnlock
    <3>2. Busy' = Busy
      BY <2>2 DEF HandlerLock, HandlerUnlock, Busy, IInv, Kinds, EchoKinds
    <3> QED BY <1>1, <3>1, <3>2 DEF IInv, Turns, Kinds
  <2> QED BY <2>1, <2>2
<1>4. Kinds'
  BY <1>1, <1>2, <1>3 DEF IInv, Kinds, EchoKinds, Labels
<1>5. Backlogged' /\ Counted'
  BY <1>1 DEF IInv, Backlogged, Counted, Out
<1>6. Accepted'
  <2>1. \A g \in Handlers : hpc'[g] \in {"start", "read", "send"} =>
          hpc[g] \in {"start", "read", "send"}
    BY <1>2 DEF IInv, Kinds, EchoKinds
  <2> QED BY <1>1, <2>1 DEF IInv, Accepted
<1> QED BY <1>3, <1>4, <1>5, <1>6 DEF IInv

LEMMA ClientKeeps ==
  ASSUME IInv, NEW c \in Clients, ClientStep(c), EnvUnchanged
  PROVE  IInv'
<1>1. /\ UNCHANGED <<hpc, sock, hbytes, alive>>
      /\ UNCHANGED <<mpc, new_socket, thread_id, finished_thread_id, uncreated,
                     available_threads, thread_count, pipe, id>>
  BY DEF EnvUnchanged, mainVars, poolVars
<1>2. srv' = srv
  BY DEF ClientStep, ClientProgress, Connect, CannotConnect, ReadEof,
         SendMessage, ReadReply, CloseClient, ClientKilled, Disconnect
<1>3. EchoKinds' /\ Backlogged'
  BY <1>1, EchoKindsClient, BackloggedClient DEF IInv, Kinds
<1>4. Kinds'
  BY <1>1, <1>3 DEF IInv, Kinds
<1>5. Turns' /\ Counted'
  BY <1>1 DEF IInv, Turns, Busy, Counted, Out
<1>6. Accepted'
  BY <1>1, <1>2 DEF IInv, Accepted
<1> QED BY <1>3, <1>4, <1>5, <1>6 DEF IInv

-----------------------------------------------------------------------------
LEMMA PoolInvariant == Spec => []IInv
<1>1. Init => IInv
  <2> SUFFICES ASSUME Init PROVE IInv
    OBVIOUS
  <2>1. EchoKinds /\ Backlogged
    BY EchoKindsInit, BackloggedInit DEF Init
  <2>2. Kinds
    BY <2>1, PoolAssumption, NoSeq DEF Init, Kinds, Ids, NoId
  <2>3. \A h \in Handlers : hpc[h] = "none"
    BY DEF Init, EchoInit
  <2>4. Turns
    BY <2>3 DEF Init, Turns, Busy
  <2>5. Accepted
    BY <2>3 DEF Init, Accepted
  <2>6. Counted
    BY FS_EmptySet, PoolAssumption DEF Init, Counted, Out
  <2> QED BY <2>1, <2>2, <2>4, <2>5, <2>6 DEF IInv
<1>2. ASSUME IInv, UNCHANGED vars PROVE IInv'
  BY <1>2 DEF vars, echoVars, clientVars, mainVars, poolVars, IInv, Kinds,
              EchoKinds, Turns, Busy, Backlogged, Accepted, Counted, Out
<1>3. IInv /\ [Next]_vars => IInv'
  BY <1>2, MainPops, MainPushes, MainConnects, HandlerEchoes, HandlerReturns,
     ClientKeeps DEF Next, ServerStep, MainStep, HandlerStep
<1> QED BY <1>1, <1>3, PTL DEF Spec

(* Whatever the clients do and however many numbers are free, no two       *)
(* threads of the pool are ever at work together.                          *)
THEOREM OneClientCorrect == Spec => []OneClientAtATime
<1>1. IInv => OneClientAtATime
  <2> SUFFICES ASSUME IInv PROVE OneClientAtATime
    OBVIOUS
  <2>1. Busy # {} => mpc = "readPipe" /\ pipe = <<>>
    BY DEF IInv, Turns
  <2>2. Cardinality(Busy) <= 1
    <3>1. CASE Busy = {}
      <4>1. Cardinality(Busy) = 0
        BY <3>1, FS_EmptySet
      <4> QED BY <4>1
    <3>2. CASE Busy # {}
      <4>1. PICK h : h \in Busy
        BY <3>2
      <4>2. Busy = {h}
        BY <4>1 DEF IInv, Turns
      <4>3. Cardinality(Busy) = 1
        BY <4>2, FS_Singleton
      <4> QED BY <4>3
    <3> QED BY <3>1, <3>2
  <2> QED BY <2>1, <2>2 DEF Busy, OneClientAtATime
<1> QED BY <1>1, PoolInvariant, PTL

(* main() sleeps on cond only after MAX_THREADS failed calls of            *)
(* pthread_create, and then no thread is left that could wake it.          *)
THEOREM WaitsCorrect == Spec => []WaitsOnlyWhenAllLost
<1>1. IInv => WaitsOnlyWhenAllLost
  <2> SUFFICES ASSUME IInv, mpc = "wait"
               PROVE  /\ Cardinality(uncreated) = MAX_THREADS
                      /\ \A h \in Handlers :
                           hpc[h] \in {"none", "unlock", "exited"}
    BY DEF WaitsOnlyWhenAllLost
  <2>1. Out = 0 /\ thread_count = 0 /\ Cardinality(uncreated) \in Nat
    BY LostCount DEF IInv, Counted, Out
  <2>2. Cardinality(uncreated) = MAX_THREADS
    BY <2>1, PoolAssumption DEF IInv, Counted
  <2>3. Busy = {}
    BY DEF IInv, Turns
  <2> QED BY <2>2, <2>3 DEF Busy, IInv, Kinds, EchoKinds, Labels
<1> QED BY <1>1, PoolInvariant, PTL

-----------------------------------------------------------------------------
(* Which number is where.                                                  *)

NobodyHas == \A h \in Handlers : id[h] = NoId

(* The way of number n: main()'s hand, a thread, the pipe, main()'s hand.  *)
OnItsWay(n) ==
  \/ /\ mpc \in {"unlockPop", "create"}
     /\ thread_id = n /\ finished_thread_id = NoId /\ NobodyHas /\ pipe = <<>>
  \/ /\ mpc = "readPipe"
     /\ thread_id = NoId /\ finished_thread_id = NoId /\ pipe = <<>>
     /\ \E h \in Busy : id[h] = n /\ \A g \in Handlers \ {h} : id[g] = NoId
  \/ /\ mpc = "readPipe"
     /\ thread_id = NoId /\ finished_thread_id = NoId /\ NobodyHas
     /\ pipe = <<n>>
  \/ /\ mpc \in {"lockPush", "push"}
     /\ thread_id = NoId /\ finished_thread_id = n /\ NobodyHas /\ pipe = <<>>

AllHome ==
  /\ Out = 0
  /\ thread_id = NoId /\ finished_thread_id = NoId /\ NobodyHas /\ pipe = <<>>

(* The stack holds thread_count different numbers, and not the one on its  *)
(* way.                                                                    *)
StackIsSet ==
  /\ available_threads \in [Ids -> Ids]
  /\ \A i, j \in 0..(thread_count - 1) :
       available_threads[i] = available_threads[j] => i = j
  /\ IsFiniteSet(Stacked) /\ Cardinality(Stacked) = thread_count

Numbered ==
  /\ StackIsSet
  /\ AllHome \/ \E n \in Ids \ Stacked : OnItsWay(n)

LEMMA IdFacts == NoId \notin Ids /\ NoId \in Nat /\ Ids \subseteq Nat
BY PoolAssumption DEF NoId, Ids

LEMMA NumberedFrame ==
  ASSUME Numbered,
         UNCHANGED <<thread_id, finished_thread_id, available_threads,
                     thread_count, pipe, id>>,
         Busy' = Busy, Out' = Out,
         mpc' = mpc \/ (mpc = "unlockPop" /\ mpc' = "create")
                    \/ (mpc = "lockPush" /\ mpc' = "push") \/ Out = 0
  PROVE  Numbered'
<1>1. Stacked' = Stacked
  BY DEF Stacked
<1>2. StackIsSet'
  BY <1>1 DEF Numbered, StackIsSet
<1>3. NobodyHas' = NobodyHas
  BY DEF NobodyHas
<1>4. CASE AllHome
  BY <1>2, <1>3, <1>4 DEF Numbered, AllHome
<1>5. CASE ~AllHome
  <2>1. PICK n \in Ids \ Stacked : OnItsWay(n)
    BY <1>5 DEF Numbered
  <2>2. mpc' = mpc \/ (mpc = "unlockPop" /\ mpc' = "create")
                   \/ (mpc = "lockPush" /\ mpc' = "push")
    BY <2>1 DEF OnItsWay, Out
  <2>3. OnItsWay(n)'
    BY <1>3, <2>1, <2>2 DEF OnItsWay
  <2> QED BY <1>1, <1>2, <2>1, <2>3 DEF Numbered
<1> QED BY <1>4, <1>5

LEMMA NumberedPop ==
  ASSUME IInv, Numbered, Pop
  PROVE  Numbered'
<1> DEFINE k == thread_count - 1
<1>1. /\ thread_count' = k /\ thread_id' = available_threads[k]
      /\ mpc = "pop" /\ mpc' = "unlockPop"
      /\ UNCHANGED <<available_threads, finished_thread_id, pipe, id, hpc>>
  BY DEF Pop, MainGoes, echoVars
<1>2. thread_count \in 1..MAX_THREADS /\ k \in 0..(thread_count - 1)
      /\ k \in Ids /\ MAX_THREADS \in Nat
  BY PoolAssumption DEF Pop, IInv, Kinds, Ids
<1>3. PICK n \in Ids : n = available_threads[k]
  BY <1>2 DEF Numbered, StackIsSet
<1>4. Stacked' = Stacked \ {n}
  <2>1. \A i \in 0..(k - 1) :
          i \in 0..(thread_count - 1) /\ available_threads[i] # n
    BY <1>2, <1>3 DEF Numbered, StackIsSet
  <2>2. \A i \in 0..(thread_count - 1) : i \in 0..(k - 1) \/ i = k
    BY <1>2
  <2>3. Stacked' = {available_threads[i] : i \in 0..(k - 1)}
    BY <1>1 DEF Stacked
  <2> HIDE DEF k
  <2> QED BY <1>3, <2>1, <2>2, <2>3 DEF Stacked
<1>5. n \in Stacked
  BY <1>2, <1>3 DEF Stacked
<1>6. IsFiniteSet(Stacked') /\ Cardinality(Stacked') = k
  <2>1. IsFiniteSet(Stacked) /\ Cardinality(Stacked) = thread_count
    BY DEF Numbered, StackIsSet
  <2> QED BY <1>4, <1>5, <2>1, FS_RemoveElement
<1>7. StackIsSet'
  <2>1. \A i \in 0..(k - 1) : i \in 0..(thread_count - 1)
    BY <1>2
  <2> HIDE DEF k
  <2> QED BY <1>1, <1>6, <2>1 DEF Numbered, StackIsSet
<1>8. AllHome
  BY <1>1 DEF Numbered, OnItsWay
<1>9. OnItsWay(n)'
  BY <1>1, <1>3, <1>8 DEF AllHome, OnItsWay, NobodyHas
<1> QED BY <1>3, <1>4, <1>7, <1>9 DEF Numbered

LEMMA NumberedPush ==
  ASSUME IInv, Numbered, Push
  PROVE  Numbered'
<1> DEFINE k == thread_count
           n == finished_thread_id
<1>1. /\ thread_count' = k + 1 /\ finished_thread_id' = NoId
      /\ available_threads' = [available_threads EXCEPT ![k] = n]
      /\ mpc = "push" /\ mpc' = "signal"
      /\ UNCHANGED <<thread_id, pipe, id>>
  BY DEF Push, MainGoes
<1>2. /\ n \in Ids \ Stacked /\ thread_id = NoId
      /\ NobodyHas /\ pipe = <<>>
  BY <1>1 DEF Numbered, AllHome, Out, OnItsWay
<1>3. k \in Nat /\ k \in Ids
  <2>1. Out = 1
    BY <1>1 DEF Out
  <2>2. /\ k + 1 + Cardinality(uncreated) = MAX_THREADS
        /\ Cardinality(uncreated) \in Nat /\ MAX_THREADS \in Nat
    BY <2>1, LostCount, PoolAssumption DEF IInv, Counted
  <2>3. k \in 0..MAX_THREADS
    BY DEF IInv, Kinds
  <2> QED BY <2>2, <2>3 DEF Ids
<1>4. available_threads \in [Ids -> Ids]
  BY DEF Numbered, StackIsSet
<1>5. /\ available_threads' \in [Ids -> Ids]
      /\ available_threads'[k] = n
      /\ \A i \in 0..(k - 1) : available_threads'[i] = available_threads[i]
                               /\ available_threads[i] # n
  <2>1. \A i \in 0..(k - 1) : i # k
    BY <1>3
  <2>2. \A i \in 0..(k - 1) : available_threads[i] \in Stacked
    BY DEF Stacked
  <2>3. \A i \in 0..(k - 1) : i \in Ids
    BY <1>3, PoolAssumption DEF Ids
  <2> QED BY <1>1, <1>2, <1>3, <1>4, <2>1, <2>2, <2>3
<1>6. \A i \in 0..(thread_count' - 1) : i \in 0..(k - 1) \/ i = k
  BY <1>1, <1>3
<1>7. \A i \in 0..(k - 1) : i \in 0..(thread_count' - 1)
  BY <1>1, <1>3
<1>8. k \in 0..(thread_count' - 1)
  BY <1>1, <1>3
<1> HIDE DEF k, n
<1>9. Stacked' = Stacked \cup {n}
  <2>1. Stacked = {available_threads[i] : i \in 0..(k - 1)}
    BY DEF Stacked, k
  <2> QED BY <1>5, <1>6, <1>7, <1>8, <2>1 DEF Stacked
<1>10. IsFiniteSet(Stacked') /\ Cardinality(Stacked') = k + 1
  <2>1. IsFiniteSet(Stacked) /\ Cardinality(Stacked) = k
    BY DEF Numbered, StackIsSet, k
  <2> QED BY <1>2, <1>9, <2>1, FS_AddElement
<1>11. \A i, j \in 0..(thread_count' - 1) :
         available_threads'[i] = available_threads'[j] => i = j
  <2>1. \A i, j \in 0..(k - 1) :
          available_threads[i] = available_threads[j] => i = j
    BY DEF Numbered, StackIsSet, k
  <2> QED BY <1>5, <1>6, <2>1
<1>12. StackIsSet'
  BY <1>1, <1>5, <1>10, <1>11 DEF StackIsSet
<1>13. AllHome'
  BY <1>1, <1>2 DEF AllHome, NobodyHas, Out, NoId
<1> QED BY <1>12, <1>13 DEF Numbered

LEMMA NumberedCreate ==
  ASSUME IInv, Numbered,
         CreateFails \/ \E h \in Handlers : CreateThread(h)
  PROVE  Numbered'
<1> USE IdFacts
<1>1. /\ mpc = "create" /\ thread_id' = NoId
      /\ UNCHANGED <<finished_thread_id, available_threads, thread_count, pipe>>
  BY DEF CreateFails, CreateThread, MainGoes, poolVars
<1>2. PICK n \in Ids \ Stacked : OnItsWay(n)
  BY <1>1 DEF Numbered, AllHome, Out
<1>3. finished_thread_id = NoId /\ NobodyHas /\ pipe = <<>> /\ thread_id = n
  BY <1>1, <1>2 DEF OnItsWay
<1>4. Stacked' = Stacked /\ StackIsSet'
  BY <1>1 DEF Stacked, Numbered, StackIsSet
<1>5. CASE CreateFails
  <2>1. mpc' = "accept" /\ id' = id
    BY <1>5 DEF CreateFails, MainGoes, poolVars
  <2>2. AllHome'
    BY <1>1, <1>3, <2>1 DEF AllHome, NobodyHas, Out, NoId
  <2> QED BY <1>4, <2>2 DEF Numbered
<1>6. ASSUME NEW h \in Handlers, CreateThread(h)
      PROVE  Numbered'
  <2>1. /\ mpc' = "readPipe" /\ id' = [id EXCEPT ![h] = n]
        /\ hpc' = [hpc EXCEPT ![h] = "start"]
    BY <1>3, <1>6 DEF CreateThread, MainGoes
  <2>2. h \in Busy' /\ id'[h] = n
    BY <2>1 DEF Busy, IInv, Kinds, EchoKinds
  <2>3. \A g \in Handlers \ {h} : id'[g] = NoId'
    BY <1>3, <2>1 DEF NobodyHas, NoId, IInv, Kinds
  <2>4. OnItsWay(n)'
    BY <1>1, <1>3, <2>1, <2>2, <2>3 DEF OnItsWay, NoId
  <2> QED BY <1>2, <1>4, <2>4 DEF Numbered, Ids
<1> QED BY <1>5, <1>6

LEMMA NumberedPipe ==
  ASSUME IInv, Numbered,
         ReadPipe \/ \E h \in Handlers : HandlerWrite(h)
  PROVE  Numbered'
<1> USE IdFacts
<1>1. UNCHANGED <<thread_id, available_threads, thread_count>>
  BY DEF ReadPipe, HandlerWrite, mainVars
<1>2. Stacked' = Stacked /\ StackIsSet'
  BY <1>1 DEF Stacked, Numbered, StackIsSet
<1>3. CASE ReadPipe
  <2>1. /\ mpc = "readPipe" /\ mpc' = "lockPush" /\ pipe # <<>>
        /\ finished_thread_id' = Head(pipe) /\ pipe' = Tail(pipe) /\ id' = id
    BY <1>3 DEF ReadPipe, MainGoes
  <2>2. PICK n \in Ids \ Stacked : OnItsWay(n)
    BY <2>1 DEF Numbered, AllHome
  <2>3. pipe = <<n>> /\ thread_id = NoId /\ NobodyHas
    BY <2>1, <2>2 DEF OnItsWay
  <2>4. pipe' = <<>> /\ finished_thread_id' = n
    BY <2>1, <2>3
  <2>5. OnItsWay(n)'
    BY <1>1, <2>1, <2>3, <2>4 DEF OnItsWay, NobodyHas, NoId
  <2> QED BY <1>2, <2>2, <2>5 DEF Numbered, Ids
<1>4. ASSUME NEW h \in Handlers, HandlerWrite(h)
      PROVE  Numbered'
  <2>1. /\ pipe' = Append(pipe, id[h]) /\ id' = [id EXCEPT ![h] = NoId]
        /\ mpc' = mpc /\ finished_thread_id' = finished_thread_id
        /\ h \in Busy
    BY <1>4 DEF HandlerWrite, mainVars, Busy
  <2>2. mpc = "readPipe" /\ pipe = <<>> /\ Busy = {h}
    BY <2>1 DEF IInv, Turns
  <2>3. PICK n \in Ids \ Stacked : OnItsWay(n)
    BY <2>2 DEF Numbered, AllHome, Out
  <2>4. /\ thread_id = NoId /\ finished_thread_id = NoId
        /\ id[h] = n /\ \A g \in Handlers \ {h} : id[g] = NoId
    BY <2>2, <2>3 DEF OnItsWay
  <2>5. pipe' = <<n>>
    BY <2>1, <2>2, <2>4
  <2>6. NobodyHas'
    BY <2>1, <2>4 DEF NobodyHas, NoId, IInv, Kinds
  <2>7. OnItsWay(n)'
    BY <1>1, <2>1, <2>2, <2>4, <2>5, <2>6 DEF OnItsWay, NoId
  <2> QED BY <1>2, <2>3, <2>7 DEF Numbered, Ids
<1> QED BY <1>3, <1>4

(* Every other step leaves the numbers where they are.                     *)
LEMMA NumberedStep ==
  ASSUME IInv, Numbered, [Next]_vars
  PROVE  Numbered'
<1>1. ASSUME \/ LockPop \/ WaitForThread \/ SpuriousWakeup \/ UnlockPop
             \/ LockPush \/ Signal \/ UnlockPush
             \/ Boot \/ BootFails \/ Accept \/ UNCHANGED vars
      PROVE  Numbered'
  <2>1. /\ UNCHANGED <<hpc, thread_id, finished_thread_id, available_threads,
                       thread_count, pipe, id>>
    BY <1>1 DEF LockPop, WaitForThread, SpuriousWakeup, UnlockPop, LockPush,
                Signal, UnlockPush, Boot, BootFails, Accept, vars, echoVars,
                mainVars, poolVars
  <2>2. /\ Out' = Out
        /\ mpc' = mpc \/ (mpc = "unlockPop" /\ mpc' = "create")
                      \/ (mpc = "lockPush" /\ mpc' = "push") \/ Out = 0
    BY <1>1 DEF LockPop, WaitForThread, SpuriousWakeup, UnlockPop, LockPush,
                Signal, UnlockPush, Boot, BootFails, Accept, vars,
                mainVars, MainGoes, Out
  <2>3. Busy' = Busy
    BY <2>1 DEF Busy
  <2> QED BY <2>1, <2>2, <2>3, NumberedFrame
<1>2. ASSUME NEW c \in Clients, EnvUnchanged PROVE Numbered'
  <2>1. /\ UNCHANGED <<hpc, mpc, thread_id, finished_thread_id,
                       available_threads, thread_count, pipe, id>>
    BY <1>2 DEF EnvUnchanged, mainVars, poolVars
  <2>2. Busy' = Busy /\ Out' = Out
    BY <2>1 DEF Busy, Out
  <2> QED BY <2>1, <2>2, NumberedFrame
<1>3. ASSUME NEW h \in Handlers, Echo(h) \/ HandlerLock(h) \/ HandlerUnlock(h)
      PROVE  Numbered'
  <2>1. UNCHANGED <<mpc, thread_id, finished_thread_id, available_threads,
                    thread_count, pipe, id>>
    BY <1>3 DEF Echo, HandlerLock, HandlerUnlock, mainVars, poolVars
  <2>2. \/ hpc' = hpc
        \/ /\ hpc[h] \in {"start", "read", "send", "lock"}
           /\ \E l \in {"read", "send", "lock", "write"} :
                hpc' = [hpc EXCEPT ![h] = l]
        \/ hpc[h] = "unlock" /\ hpc' = [hpc EXCEPT ![h] = "exited"]
    BY <1>3 DEF Echo, HandlerLock, HandlerUnlock, EchoStart, EchoRead,
                EchoSend, EchoSendKills, EchoClose
  <2>3. Busy' = Busy /\ Out' = Out
    BY <2>1, <2>2 DEF Busy, Out, IInv, Kinds, EchoKinds
  <2> QED BY <2>1, <2>3, NumberedFrame
<1> QED BY <1>1, <1>2, <1>3, NumberedPop, NumberedPush, NumberedCreate,
           NumberedPipe DEF Next, ServerStep, MainStep, HandlerStep

LEMMA AlwaysNumbered == Spec => []Numbered
<1>1. Init => Numbered
  <2> SUFFICES ASSUME Init PROVE Numbered
    OBVIOUS
  <2>1. /\ thread_count = MAX_THREADS
        /\ available_threads = [i \in Ids |-> i]
        /\ Stacked = Ids
    BY DEF Init, Stacked, Ids
  <2>2. IsFiniteSet(Ids) /\ Cardinality(Ids) = MAX_THREADS
    <3>1. MAX_THREADS \in Nat \ {0} /\ 0 \in Int /\ MAX_THREADS - 1 \in Int
      BY PoolAssumption
    <3> QED BY <3>1, FS_Interval DEF Ids
  <2>3. StackIsSet
    BY <2>1, <2>2 DEF StackIsSet, Ids
  <2>4. AllHome
    BY DEF Init, AllHome, NobodyHas, Out
  <2> QED BY <2>3, <2>4 DEF Numbered
<1> QED BY <1>1, NumberedStep, PoolInvariant, PTL DEF Spec

(* Every number is on the stack, on its way once, or was lost to a failed  *)
(* pthread_create: never in two places.                                    *)
THEOREM NumbersCorrect == Spec => []NumbersConserved
<1>1. IInv /\ Numbered => NumbersConserved
  <2> SUFFICES ASSUME IInv, Numbered PROVE NumbersConserved
    OBVIOUS
  <2> USE IdFacts
  <2>1. /\ IsFiniteSet(Stacked) /\ Cardinality(Stacked) = thread_count
        /\ thread_count \in Nat /\ Cardinality(uncreated) \in Nat
        /\ thread_count + Out + Cardinality(uncreated) = MAX_THREADS
    BY LostCount DEF Numbered, StackIsSet, IInv, Kinds, Counted
  <2>2. CASE AllHome
    <3>1. InHand = {} /\ WithThread = {} /\ InPipe = {} /\ Len(pipe) = 0
      BY <2>2 DEF AllHome, InHand, WithThread, InPipe, NobodyHas
    <3>2. Stacked \cup InPipe \cup InHand \cup WithThread = Stacked
      BY <3>1
    <3>3. Out = 0
      BY <2>2 DEF AllHome
    <3> QED BY <2>1, <3>1, <3>2, <3>3, FS_EmptySet DEF NumbersConserved
  <2>3. ASSUME NEW n \in Ids \ Stacked, OnItsWay(n)
        PROVE  NumbersConserved
    <3>1. Out = 1
      BY <2>3 DEF OnItsWay, Out
    <3>2. \/ InHand = {n} /\ WithThread = {} /\ InPipe = {} /\ Len(pipe) = 0
          \/ InHand = {} /\ WithThread = {n} /\ InPipe = {} /\ Len(pipe) = 0
          \/ InHand = {} /\ WithThread = {} /\ InPipe = {n} /\ Len(pipe) = 1
      <4>1. CASE pipe = <<>> /\ NobodyHas /\ InHand = {n}
        BY <4>1 DEF WithThread, InPipe, NobodyHas
      <4>2. CASE /\ thread_id = NoId /\ finished_thread_id = NoId /\ pipe = <<>>
                 /\ \E h \in Busy : /\ id[h] = n
                                    /\ \A g \in Handlers \ {h} : id[g] = NoId
        BY <2>3, <4>2 DEF InHand, WithThread, InPipe, Busy
      <4>3. CASE /\ thread_id = NoId /\ finished_thread_id = NoId /\ NobodyHas
                 /\ pipe = <<n>>
        BY <4>3 DEF InHand, WithThread, InPipe, NobodyHas
      <4>4. (mpc # "readPipe") => InHand = {n} /\ NobodyHas /\ pipe = <<>>
        BY <2>3 DEF OnItsWay, InHand
      <4> QED BY <2>3, <4>1, <4>2, <4>3, <4>4 DEF OnItsWay
    <3>3. Stacked \cup InPipe \cup InHand \cup WithThread = Stacked \cup {n}
      BY <3>2
    <3>4. Cardinality(Stacked \cup {n}) = thread_count + 1
      BY <2>1, <2>3, FS_AddElement
    <3>5. Cardinality({n}) = 1 /\ Cardinality({}) = 0
      BY FS_EmptySet, FS_Singleton
    <3>6. /\ Cardinality(InPipe) = Len(pipe)
          /\ Len(pipe) + Cardinality(InHand) + Cardinality(WithThread) = 1
          /\ Len(pipe) \in Nat /\ Cardinality(InHand) \in Nat
          /\ Cardinality(WithThread) \in Nat
      <4>1. CASE InHand = {n} /\ WithThread = {} /\ InPipe = {} /\ Len(pipe) = 0
        BY <3>5, <4>1
      <4>2. CASE InHand = {} /\ WithThread = {n} /\ InPipe = {} /\ Len(pipe) = 0
        BY <3>5, <4>2
      <4>3. CASE InHand = {} /\ WithThread = {} /\ InPipe = {n} /\ Len(pipe) = 1
        BY <3>5, <4>3
      <4> QED BY <3>2, <4>1, <4>2, <4>3
    <3>7. thread_count + Len(pipe) + Cardinality(InHand)
            + Cardinality(WithThread) + Cardinality(uncreated) = MAX_THREADS
      <4> DEFINE p == Len(pipe)
                 a == Cardinality(InHand)
                 b == Cardinality(WithThread)
                 u == Cardinality(uncreated)
      <4>1. /\ p \in Nat /\ a \in Nat /\ b \in Nat /\ u \in Nat
            /\ p + a + b = 1 /\ thread_count \in Nat
            /\ thread_count + 1 + u = MAX_THREADS
        BY <2>1, <3>1, <3>6
      <4> HIDE DEF p, a, b, u
      <4>2. thread_count + p + a + b + u = MAX_THREADS
        BY <4>1
      <4> QED BY <4>2 DEF p, a, b, u
    <3>8. Cardinality(Stacked \cup InPipe \cup InHand \cup WithThread)
            + Cardinality(uncreated) = MAX_THREADS
      <4>1. thread_count + 1 + Cardinality(uncreated) = MAX_THREADS
        BY <2>1, <3>1
      <4> QED BY <3>3, <3>4, <4>1
    <3> QED BY <2>1, <3>6, <3>7, <3>8 DEF NumbersConserved
  <2> QED BY <2>2, <2>3 DEF Numbered
<1> QED BY <1>1, PoolInvariant, AlwaysNumbered, PTL

(* A failed pthread_create is the only way to lose a number, and losing    *)
(* them all the only way to put main() to sleep.                           *)
THEOREM ShrinksByFailuresCorrect == Spec => []PoolShrinksOnlyByFailures
BY NumbersCorrect, WaitsCorrect, PTL DEF PoolShrinksOnlyByFailures

-----------------------------------------------------------------------------
(* To its clients the server is EchoService.  Nothing of a connection is   *)
(* read before its thread runs (Whole), so one that main() closes itself,  *)
(* because there is no thread for it, is refused and not cut off.          *)

Whole(c) ==
  \/ cpc[c] \in {"send", "done"} /\ toServer[c] = 0
  \/ cpc[c] \in {"read", "close", "done"} /\ toServer[c] = UNITS

Started == alive /\ mpc = "boot" => \A c \in Clients : srv[c] = "none"

Fetched ==
  /\ toServer \in [Clients -> 0..UNITS]
  /\ \A c \in Clients : cpc[c] = "start" => toServer[c] = 0
  /\ \A i \in 1..Len(backlog) : Whole(backlog[i])
  /\ new_socket # None => Whole(new_socket)

Owned ==
  /\ new_socket # None <=>
       mpc \in {"lockPop", "pop", "wait", "unlockPop", "create"}
  /\ \A h \in Handlers : sock[h] # None <=> hpc[h] \in {"start", "read", "send"}
  /\ alive /\ new_socket # None => srv[new_socket] = "open"
  /\ \A h \in Handlers : alive /\ sock[h] # None => srv[sock[h]] = "open"

Served == Owned /\ Started /\ InHands /\ Fetched

LEMMA ServedInit == Init => Served
<1> SUFFICES ASSUME Init PROVE Served
  OBVIOUS
<1> USE DEF Init, EchoInit, ClientInit
<1>1. Owned /\ Started
  BY DEF Owned, Started
<1>2. InHands /\ Fetched
  BY UnitsAssumption DEF InHands, Fetched
<1> QED BY <1>1, <1>2 DEF Served

LEMMA TurnsAlone ==
  ASSUME IInv, Owned
  PROVE  /\ Alone
         /\ \A h \in Handlers : sock[h] # None =>
              /\ mpc = "readPipe" /\ new_socket = None
              /\ \A g \in Handlers : sock[g] # None => g = h
<1>1. \A h \in Handlers : sock[h] # None => h \in Busy
  BY DEF Owned, Busy
<1> QED BY <1>1 DEF IInv, Turns, Owned, Alone

(* Steps that touch no connection and no thread.                           *)
LEMMA ServedFrame ==
  ASSUME Served, UNCHANGED <<hpc, sock, hbytes, cpc, toServer, srv,
                             backlog, new_socket>>,
         alive' => alive,
         mpc' # "boot" \/ mpc' = mpc,
         mpc \in {"lockPop", "pop", "wait", "unlockPop", "create"} <=>
           mpc' \in {"lockPop", "pop", "wait", "unlockPop", "create"}
  PROVE  Served'
BY DEF Served, Owned, Started, InHands, Fetched, Whole

LEMMA MainServed ==
  ASSUME IInv, Served, MainStep \/ SpuriousWakeup
  PROVE  Served'
<1>1. CASE Boot \/ LockPop \/ WaitForThread \/ SpuriousWakeup \/ Pop
           \/ UnlockPop \/ ReadPipe \/ LockPush \/ Push \/ Signal
           \/ UnlockPush
  <2>1. UNCHANGED <<hpc, sock, hbytes, cpc, toServer, srv, backlog,
                    new_socket, alive>>
    BY <1>1 DEF Boot, LockPop, WaitForThread, SpuriousWakeup, Pop, UnlockPop,
                ReadPipe, LockPush, Push, Signal, UnlockPush, SrvListen,
                echoVars, clientVars
  <2>2. /\ mpc' # "boot"
        /\ mpc \in {"lockPop", "pop", "wait", "unlockPop", "create"} <=>
             mpc' \in {"lockPop", "pop", "wait", "unlockPop", "create"}
    BY <1>1 DEF Boot, LockPop, WaitForThread, SpuriousWakeup, Pop, UnlockPop,
                ReadPipe, LockPush, Push, Signal, UnlockPush, MainGoes
  <2> QED BY <2>1, <2>2, ServedFrame
<1>2. CASE BootFails
  <2>1. /\ UNCHANGED <<hpc, sock, hbytes, cpc, toServer, mpc, new_socket>>
        /\ alive' = FALSE /\ backlog' = <<>>
    BY <1>2 DEF BootFails, SrvExit, mainVars
  <2>2. Owned' /\ Started' /\ InHands'
    BY <2>1 DEF Served, Owned, Started, InHands
  <2>3. Fetched'
    BY <2>1 DEF Served, Fetched, Whole
  <2> QED BY <2>2, <2>3 DEF Served
<1>3. CASE Accept
  <2>1. PICK c \in Clients : SrvAccept(c) /\ new_socket' = c
    BY <1>3 DEF Accept
  <2>2. /\ UNCHANGED <<hpc, sock, hbytes, alive, cpc, toServer>>
        /\ mpc = "accept" /\ mpc' = "lockPop"
        /\ srv' = [srv EXCEPT ![c] = "open"]
        /\ backlog # <<>> /\ c = Head(backlog) /\ backlog' = Tail(backlog)
    BY <1>3, <2>1 DEF Accept, SrvAccept, MainGoes
  <2>3. /\ backlog \in Seq(Clients) /\ srv \in [Clients ->
             {"none", "open", "closed", "gone"}]
    BY DEF IInv, Kinds, EchoKinds
  <2>4. \A h \in Handlers : sock[h] = None
    BY <2>2, TurnsAlone DEF Served
  <2>5. Owned' /\ Started' /\ InHands'
    BY <2>1, <2>2, <2>3, <2>4, EchoAssumption
       DEF Served, Owned, Started, InHands
  <2>6. Fetched'
    <3>1. c = backlog[1] /\ 1 \in 1..Len(backlog)
      BY <2>2, <2>3
    <3>2. \A i \in 1..Len(backlog') :
            i + 1 \in 1..Len(backlog) /\ backlog'[i] = backlog[i + 1]
      BY <2>2, <2>3
    <3>3. Whole(c)' /\ Whole(new_socket)'
      BY <2>1, <2>2, <3>1 DEF Served, Fetched, Whole
    <3>4. (\A i \in 1..Len(backlog) : Whole(backlog[i]))'
      BY <2>2, <3>2 DEF Served, Fetched, Whole
    <3> QED BY <2>2, <3>3, <3>4 DEF Served, Fetched
  <2> QED BY <2>5, <2>6 DEF Served
<1>4. CASE CreateFails
  <2>1. /\ UNCHANGED <<hpc, sock, hbytes, alive, cpc, toServer, backlog>>
        /\ mpc = "create" /\ mpc' = "accept" /\ new_socket' = None
        /\ srv' = [srv EXCEPT ![new_socket] = "closed"]
    BY <1>4 DEF CreateFails, SrvClose, MainGoes
  <2>2. \A h \in Handlers : sock[h] = None
    BY <2>1, TurnsAlone DEF Served
  <2>3. Owned' /\ Started' /\ InHands'
    BY <2>1, <2>2 DEF Served, Owned, Started, InHands
  <2>4. Fetched'
    BY <2>1 DEF Served, Fetched, Whole
  <2> QED BY <2>3, <2>4 DEF Served
<1>5. ASSUME NEW h \in Handlers, CreateThread(h)
      PROVE  Served'
  <2>1. /\ UNCHANGED <<hbytes, alive, cpc, toServer, backlog, srv>>
        /\ mpc = "create" /\ mpc' = "readPipe" /\ new_socket' = None
        /\ hpc[h] = "none" /\ hpc' = [hpc EXCEPT ![h] = "start"]
        /\ sock' = [sock EXCEPT ![h] = new_socket]
    BY <1>5 DEF CreateThread, MainGoes, clientVars
  <2>2. /\ \A g \in Handlers : sock[g] = None
        /\ new_socket # None /\ new_socket \in Clients
    BY <2>1, TurnsAlone DEF Served, Owned, IInv, Accepted
  <2>3. /\ \A g \in Handlers : sock'[g] = IF g = h THEN new_socket ELSE None
        /\ \A g \in Handlers : hpc'[g] = IF g = h THEN "start" ELSE hpc[g]
    BY <2>1, <2>2 DEF IInv, Kinds, EchoKinds
  <2>4. Owned' /\ Started' /\ InHands'
    BY <2>1, <2>2, <2>3 DEF Served, Owned, Started, InHands
  <2>5. Fetched'
    BY <2>1 DEF Served, Fetched, Whole
  <2> QED BY <2>4, <2>5 DEF Served
<1> QED BY <1>1, <1>2, <1>3, <1>4, <1>5 DEF MainStep

LEMMA EchoServed ==
  ASSUME IInv, Served, NEW h \in Handlers, Echo(h)
  PROVE  Served'
<1>1. /\ sock[h] \in Clients /\ sock[h] # None
      /\ UNCHANGED <<mpc, new_socket>> /\ mpc = "readPipe" /\ new_socket = None
      /\ \A g \in Handlers : sock[g] # None => g = h
  <2>1. hpc[h] \in {"start", "read", "send"}
    BY DEF Echo, EchoStart, EchoRead, EchoSend, EchoSendKills, EchoClose
  <2>2. sock[h] # None /\ sock[h] \in Clients
    BY <2>1, EchoAssumption DEF IInv, Accepted
  <2> QED BY <2>2, TurnsAlone DEF Served, Echo, mainVars
<1>2. /\ hpc \in [Handlers -> Labels] /\ hbytes \in [Handlers -> 0..UNITS]
      /\ sock \in [Handlers -> Clients \cup {None}]
      /\ backlog \in Seq(Clients)
  BY DEF IInv, Kinds, EchoKinds
<1>3. CASE EchoStart(h, sock[h])
  <2>1. /\ hpc[h] = "start" /\ hpc' = [hpc EXCEPT ![h] = "read"]
        /\ sock' = sock
        /\ UNCHANGED <<hbytes, alive, cpc, toServer, srv, backlog>>
    BY <1>2, <1>3 DEF EchoStart, clientVars
  <2>2. Owned' /\ Started' /\ InHands'
    BY <1>1, <1>2, <2>1 DEF Served, Owned, Started, InHands
  <2>3. Fetched'
    BY <1>1, <2>1 DEF Served, Fetched, Whole
  <2> QED BY <2>2, <2>3 DEF Served
<1>4. CASE EchoRead(h)
  <2>1. PICK k \in 1..toServer[sock[h]] :
          toServer' = [toServer EXCEPT ![sock[h]] = @ - k]
    BY <1>4 DEF EchoRead, SrvRead
  <2>2. /\ hpc[h] = "read" /\ hpc' = [hpc EXCEPT ![h] = "send"]
        /\ UNCHANGED <<sock, alive, cpc, srv, backlog>>
    BY <1>4 DEF EchoRead, SrvRead
  <2>3. Owned' /\ Started'
    BY <1>1, <1>2, <2>2 DEF Served, Owned, Started
  <2>4. InHands'
    BY <1>4, InHandsLoop DEF Served, IInv, Kinds
  <2>5. Fetched'
    <3>1. toServer' \in [Clients -> 0..UNITS]
      BY <1>1, <2>1, UnitsAssumption DEF Served, Fetched
    <3>2. cpc[sock[h]] # "start"
      BY <1>1, <2>1, UnitsAssumption DEF Served, Fetched
    <3>3. \A c \in Clients : c # sock[h] => toServer'[c] = toServer[c]
      BY <2>1 DEF Served, Fetched
    <3>4. srv[sock[h]] # "none"
      BY <1>4 DEF EchoRead, IInv, Accepted
    <3>5. \A i \in 1..Len(backlog) :
            backlog[i] \in Clients /\ backlog[i] # sock[h]
      BY <1>2, <3>4 DEF IInv, Backlogged
    <3>6. \A i \in 1..Len(backlog) : Whole(backlog[i])'
      BY <2>2, <3>3, <3>5 DEF Served, Fetched, Whole
    <3> QED BY <1>1, <2>2, <3>1, <3>2, <3>3, <3>6 DEF Served, Fetched
  <2> QED BY <2>3, <2>4, <2>5 DEF Served
<1>5. CASE EchoSend(h)
  <2>1. /\ hpc[h] = "send" /\ hpc' = [hpc EXCEPT ![h] = "read"]
        /\ UNCHANGED <<sock, alive, cpc, srv, backlog, toServer>>
    BY <1>5 DEF EchoSend, SrvSend
  <2>2. Owned' /\ Started'
    BY <1>1, <1>2, <2>1 DEF Served, Owned, Started
  <2>3. InHands'
    BY <1>5, InHandsLoop DEF Served, IInv, Kinds
  <2>4. Fetched'
    BY <1>1, <2>1 DEF Served, Fetched, Whole
  <2> QED BY <2>2, <2>3, <2>4 DEF Served
<1>6. CASE EchoSendKills(h)
  <2>1. /\ UNCHANGED <<hpc, sock, hbytes, cpc, toServer>>
        /\ alive' = FALSE /\ backlog' = <<>>
    BY <1>6 DEF EchoSendKills, SrvSendKills, SrvExit
  <2>2. Owned' /\ Started' /\ InHands'
    BY <1>1, <2>1 DEF Served, Owned, Started, InHands
  <2>3. Fetched'
    BY <1>1, <2>1 DEF Served, Fetched
  <2> QED BY <2>2, <2>3 DEF Served
<1>7. CASE EchoClose(h, "lock")
  <2>1. /\ hpc' = [hpc EXCEPT ![h] = "lock"]
        /\ sock' = [sock EXCEPT ![h] = None]
        /\ UNCHANGED <<alive, cpc, backlog, toServer>>
    BY <1>7 DEF EchoClose, SrvClose
  <2>2. \A g \in Handlers : sock'[g] = None
    BY <1>1, <1>2, <2>1
  <2>3. Owned' /\ Started'
    BY <1>1, <1>2, <2>1, <2>2 DEF Served, Owned, Started
  <2>4. InHands'
    BY <1>7, InHandsLoop DEF Served, IInv, Kinds
  <2>5. Fetched'
    BY <1>1, <2>1 DEF Served, Fetched, Whole
  <2> QED BY <2>3, <2>4, <2>5 DEF Served
<1> QED BY <1>3, <1>4, <1>5, <1>6, <1>7 DEF Echo

LEMMA ReturnServed ==
  ASSUME IInv, Served, NEW h \in Handlers,
         HandlerLock(h) \/ HandlerWrite(h) \/ HandlerUnlock(h)
  PROVE  Served'
<1>1. /\ UNCHANGED <<sock, hbytes, alive, cpc, toServer, srv, backlog, mpc,
                     new_socket>>
      /\ hpc[h] \in {"lock", "write", "unlock"}
      /\ \E l \in {"write", "unlock", "exited"} : hpc' = [hpc EXCEPT ![h] = l]
  BY DEF HandlerLock, HandlerWrite, HandlerUnlock, clientVars, mainVars
<1>2. Owned' /\ Started' /\ InHands'
  BY <1>1 DEF Served, Owned, Started, InHands, IInv, Kinds, EchoKinds
<1>3. Fetched'
  BY <1>1 DEF Served, Fetched, Whole
<1> QED BY <1>2, <1>3 DEF Served

LEMMA ClientServed ==
  ASSUME IInv, Served, NEW c \in Clients, ClientStep(c), EnvUnchanged
  PROVE  Served'
<1>1. /\ UNCHANGED <<hpc, sock, hbytes, alive, mpc, new_socket>>
      /\ srv' = srv
  BY DEF EnvUnchanged, mainVars, ClientStep, ClientProgress, Connect,
         CannotConnect, ReadEof, SendMessage, ReadReply, CloseClient,
         ClientKilled, Disconnect
<1>2. Owned' /\ Started' /\ InHands'
  BY <1>1 DEF Served, Owned, Started, InHands
<1>3. /\ backlog \in Seq(Clients) /\ cpc \in [Clients -> ClientStates]
      /\ new_socket # None => new_socket \in Clients
  BY DEF IInv, Kinds, EchoKinds, Served, Owned, Accepted
<1>4. \/ /\ backlog' = Append(backlog, c) /\ cpc[c] = "start" /\ cpc'[c] = "send"
         /\ toServer' = toServer
      \/ /\ backlog' = backlog /\ toServer' = toServer
         /\ cpc[c] = "start" /\ cpc'[c] = "failed"
      \/ /\ backlog' = backlog /\ toServer' = [toServer EXCEPT ![c] = UNITS]
         /\ cpc[c] = "send" /\ cpc'[c] = "read"
      \/ /\ backlog' = backlog /\ toServer' = toServer
         /\ cpc[c] = "read" /\ cpc'[c] = "close"
      \/ /\ backlog' = backlog /\ toServer' = toServer
         /\ cpc[c] \in {"send", "read", "close"} /\ cpc'[c] = "done"
  BY <1>3 DEF ClientStep, ClientProgress, Connect, CannotConnect, ReadEof,
              SendMessage, ReadReply, CloseClient, ClientKilled, Disconnect
<1>5. \A d \in Clients : d # c => cpc'[d] = cpc[d]
  BY <1>3 DEF ClientStep, ClientProgress, Connect, CannotConnect, ReadEof,
              SendMessage, ReadReply, CloseClient, ClientKilled, Disconnect
<1>6. /\ toServer' \in [Clients -> 0..UNITS]
      /\ \A d \in Clients : d # c => toServer'[d] = toServer[d]
  BY <1>4, UnitsAssumption DEF Served, Fetched
<1>7. \A d \in Clients : cpc'[d] = "start" => toServer'[d] = 0
  BY <1>4, <1>5, <1>6 DEF Served, Fetched
<1>8. \A d \in Clients : Whole(d) => Whole(d)'
  <2>1. Whole(c) => Whole(c)'
    BY <1>4, UnitsAssumption DEF Whole, Served, Fetched
  <2> QED BY <1>5, <1>6, <2>1 DEF Whole
<1>9. (\A i \in 1..Len(backlog) : Whole(backlog[i]))'
  <2>1. CASE backlog' = backlog
    <3>1. \A i \in 1..Len(backlog) : backlog[i] \in Clients /\ Whole(backlog[i])
      BY <1>3 DEF Served, Fetched
    <3> QED BY <1>8, <2>1, <3>1 DEF Whole
  <2>2. CASE backlog' = Append(backlog, c) /\ cpc[c] = "start" /\ cpc'[c] = "send"
             /\ toServer' = toServer
    <3>1. Whole(c)'
      BY <2>2 DEF Whole, Served, Fetched
    <3>2. \A i \in 1..Len(backlog') :
            \/ i \in 1..Len(backlog) /\ backlog'[i] = backlog[i]
            \/ backlog'[i] = c
      BY <1>3, <2>2
    <3>3. \A i \in 1..Len(backlog) : backlog[i] \in Clients /\ Whole(backlog[i])
      BY <1>3 DEF Served, Fetched
    <3> QED BY <1>8, <3>1, <3>2, <3>3 DEF Whole
  <2> QED BY <1>4, <2>1, <2>2
<1>10. Fetched'
  BY <1>1, <1>3, <1>6, <1>7, <1>8, <1>9 DEF Served, Fetched
<1> QED BY <1>2, <1>10 DEF Served

LEMMA ServedCorrect == Spec => []Served
<1>1. ASSUME IInv, Served, [Next]_vars PROVE Served'
  <2>1. CASE UNCHANGED vars
    BY <1>1, <2>1, ServedFrame DEF vars, echoVars, clientVars, mainVars
  <2> QED BY <1>1, <2>1, MainServed, EchoServed, ReturnServed, ClientServed
          DEF Next, ServerStep, HandlerStep
<1> QED BY <1>1, ServedInit, PoolInvariant, PTL DEF Spec

-----------------------------------------------------------------------------
(* Where the pieces of the messages are.  A thread has its connection from *)
(* pthread_create on, a step before it enters the echo loop.               *)
LEMMA PoolPiecesStep ==
  ASSUME IInv, Owned, Pieces, [Next]_vars
  PROVE  Pieces'
<1>1. CASE UNCHANGED vars
  BY <1>1, PiecesFrame DEF vars, echoVars, clientVars
<1>2. ASSUME NEW c \in Clients, ClientStep(c), EnvUnchanged PROVE Pieces'
  BY <1>2, PiecesClient DEF EnvUnchanged, IInv, Kinds
<1>3. ASSUME NEW h \in Handlers, CreateThread(h) PROVE Pieces'
  <2>1. /\ UNCHANGED <<cpc, got, toServer, toClient, hbytes>>
        /\ mpc = "create" /\ hpc[h] = "none"
        /\ sock' = [sock EXCEPT ![h] = new_socket]
        /\ hpc' = [hpc EXCEPT ![h] = "start"]
    BY <1>3 DEF CreateThread, MainGoes, clientVars
  <2>2. new_socket \in Clients
    BY <2>1 DEF IInv, Accepted
  <2>3. \A g \in Handlers : sock[g] = None
    BY <2>1, <2>2, TurnsAlone
  <2>4. hbytes[h] = 0
    BY <2>1 DEF Pieces
  <2>5. sock'[h] = new_socket /\ \A g \in Handlers \ {h} : sock'[g] = None
    BY <2>1, <2>3 DEF IInv, Kinds, EchoKinds
  <2>6. ASSUME NEW c \in Clients PROVE PiecesOf(c)'
    <3>1. PiecesOf(c) /\ c # None
      BY EchoAssumption DEF Pieces
    <3>2. UNITS \in Nat
      BY UnitsAssumption
    <3> QED BY <2>1, <2>3, <2>4, <2>5, <3>1, <3>2 DEF PiecesOf
  <2>7. \A g \in Handlers : hpc'[g] # "send" => hbytes'[g] = 0
    BY <2>1, <2>4 DEF Pieces, IInv, Kinds, EchoKinds
  <2> QED BY <2>1, <2>6, <2>7 DEF Pieces
<1>4. CASE \/ Boot \/ BootFails \/ Accept \/ LockPop \/ WaitForThread \/ Pop
           \/ UnlockPop \/ CreateFails \/ ReadPipe \/ LockPush \/ Push
           \/ Signal \/ UnlockPush \/ SpuriousWakeup
  <2>1. UNCHANGED <<cpc, got, toServer, toClient, hbytes, sock, hpc>>
    BY <1>4 DEF Boot, BootFails, Accept, LockPop, WaitForThread, Pop,
                UnlockPop, CreateFails, ReadPipe, LockPush, Push, Signal,
                UnlockPush, SpuriousWakeup, SrvListen, SrvExit, SrvAccept,
                SrvClose, echoVars, clientVars
  <2> QED BY <2>1, PiecesFrame
<1>5. ASSUME NEW h \in Handlers, HandlerStep(h) PROVE Pieces'
  <2>1. CASE EchoStart(h, sock[h])
    <3>1. UNCHANGED <<cpc, got, toServer, toClient, hbytes, sock>>
      BY <2>1 DEF EchoStart, clientVars, IInv, Kinds, EchoKinds
    <3>2. \A g \in Handlers : hpc'[g] = "send" <=> hpc[g] = "send"
      BY <2>1 DEF EchoStart, IInv, Kinds, EchoKinds
    <3> QED BY <3>1, <3>2, PiecesFrame
  <2>2. CASE EchoRead(h) \/ EchoSend(h) \/ EchoSendKills(h)
             \/ EchoClose(h, "lock")
    <3>1. sock[h] # None
      BY <2>2 DEF EchoRead, EchoSend, EchoSendKills, EchoClose, Owned
    <3> QED BY <2>2, <3>1, PiecesLoop, TurnsAlone DEF IInv, Kinds, Labels
  <2>3. CASE HandlerLock(h) \/ HandlerWrite(h) \/ HandlerUnlock(h)
    <3>1. UNCHANGED <<cpc, got, toServer, toClient, hbytes, sock>>
      BY <2>3 DEF HandlerLock, HandlerWrite, HandlerUnlock, clientVars
    <3>2. \A g \in Handlers : hpc'[g] = "send" <=> hpc[g] = "send"
      BY <2>3 DEF HandlerLock, HandlerWrite, HandlerUnlock, IInv, Kinds,
                  EchoKinds
    <3> QED BY <3>1, <3>2, PiecesFrame
  <2> QED BY <1>5, <2>1, <2>2, <2>3 DEF HandlerStep, Echo
<1> QED BY <1>1, <1>2, <1>3, <1>4, <1>5 DEF Next, ServerStep, MainStep

LEMMA PoolPieces == Spec => []Pieces
<1>1. Init => Pieces
  BY PiecesInit DEF Init
<1>2. IInv /\ Served /\ Pieces /\ [Next]_vars => Pieces'
  BY PoolPiecesStep DEF Served
<1> QED BY <1>1, <1>2, PoolInvariant, ServedCorrect, PTL DEF Spec

(* The threads of the pool, too, lose or duplicate no piece of a message   *)
(* and send none to another client.                                        *)
THEOREM PoolEchoesCorrect == Spec => []EchoesOwnConnection
<1>1. IInv /\ Served /\ Pieces => EchoesOwnConnection
  BY TurnsAlone, AloneEchoes DEF Served, IInv, Kinds
<1> QED BY <1>1, PoolPieces, PoolInvariant, ServedCorrect, PTL

(* Who can hold the mutex, and which connections can be reset.             *)
Sane == mutex \in Handlers \cup {Main, None} /\ reset \in SUBSET Clients

LEMMA SaneStep ==
  ASSUME IInv, Owned, Sane, [Next]_vars
  PROVE  Sane'
<1> USE DEF Sane
<1>1. CASE UNCHANGED vars
  BY <1>1 DEF vars, echoVars, clientVars, poolVars
<1>2. ASSUME NEW c \in Clients, ClientStep(c), EnvUnchanged PROVE Sane'
  BY <1>2, ClientResets DEF EnvUnchanged, poolVars
<1>3. CASE \/ Boot \/ BootFails \/ Accept \/ CreateFails
           \/ \E h \in Handlers : CreateThread(h)
  BY <1>3 DEF Boot, BootFails, Accept, CreateFails, CreateThread, SrvListen,
              SrvExit, SrvAccept, SrvClose, clientVars, poolVars
<1>4. CASE \/ LockPop \/ WaitForThread \/ Pop \/ UnlockPop \/ ReadPipe
           \/ LockPush \/ Push \/ Signal \/ UnlockPush \/ SpuriousWakeup
  BY <1>4 DEF LockPop, WaitForThread, Pop, UnlockPop, ReadPipe, LockPush,
              Push, Signal, UnlockPush, SpuriousWakeup, MutexLock,
              MutexUnlock, echoVars, clientVars, poolVars
<1>5. ASSUME NEW h \in Handlers, HandlerStep(h) PROVE Sane'
  <2>1. CASE Echo(h)
    <3>1. mutex' = mutex
      BY <2>1 DEF Echo, poolVars
    <3>2. CASE EchoStart(h, sock[h])
      BY <3>1, <3>2 DEF EchoStart, clientVars
    <3>3. CASE EchoRead(h) \/ EchoSend(h) \/ EchoSendKills(h)
               \/ EchoClose(h, "lock")
      <4>1. sock[h] # None
        BY <3>3 DEF EchoRead, EchoSend, EchoSendKills, EchoClose, Owned
      <4> QED BY <3>1, <3>3, <4>1, LoopResets DEF IInv, Kinds
    <3> QED BY <2>1, <3>2, <3>3 DEF Echo
  <2>2. CASE HandlerLock(h) \/ HandlerWrite(h) \/ HandlerUnlock(h)
    BY <2>2 DEF HandlerLock, HandlerWrite, HandlerUnlock, MutexLock,
                MutexUnlock, clientVars
  <2> QED BY <1>5, <2>1, <2>2 DEF HandlerStep
<1> QED BY <1>1, <1>2, <1>3, <1>4, <1>5 DEF Next, ServerStep, MainStep

(* Type correctness of the whole state: every number in a variable, on the *)
(* stack or in the pipe is one of the MAX_THREADS there are.               *)
THEOREM PoolTypeCorrect == Spec => []TypeOK
<1>1. Init => Sane
  BY DEF Init, EchoInit, ClientInit, Sane
<1>2. IInv /\ Served /\ Sane /\ [Next]_vars => Sane'
  BY SaneStep DEF Served
<1>3. IInv /\ Served /\ Numbered /\ Pieces /\ Sane => TypeOK
  <2> SUFFICES ASSUME IInv, Served, Numbered, Pieces, Sane PROVE TypeOK
    OBVIOUS
  <2>1. EchoTypeOK({"lock", "write", "unlock", "exited"})
    <3>1. ClientTypeOK
      BY PiecesType DEF IInv, Kinds, Sane
    <3> QED BY <3>1 DEF IInv, Kinds, EchoKinds, EchoTypeOK, Labels
  <2>2. new_socket \in Clients \cup {None} /\ uncreated \in SUBSET Clients
    BY DEF IInv, Accepted, Served, Owned
  <2>3. /\ thread_id \in Ids \cup {NoId}
        /\ finished_thread_id \in Ids \cup {NoId}
        /\ id \in [Handlers -> Ids \cup {NoId}]
        /\ pipe \in Seq(Ids)
    <3>1. id \in [Handlers -> Nat]
      BY DEF IInv, Kinds
    <3>2. CASE AllHome
      BY <3>1, <3>2, NoSeq DEF AllHome, NobodyHas
    <3>3. ASSUME NEW n \in Ids, OnItsWay(n)
          PROVE  /\ thread_id \in {n, NoId} /\ finished_thread_id \in {n, NoId}
                 /\ \A h \in Handlers : id[h] \in {n, NoId}
                 /\ pipe = <<>> \/ pipe = <<n>>
      BY <3>3 DEF OnItsWay, NobodyHas, Busy
    <3>4. ASSUME NEW n \in Ids PROVE <<n>> \in Seq(Ids)
      OBVIOUS
    <3> QED BY <3>1, <3>2, <3>3, <3>4, NoSeq DEF Numbered
  <2> QED BY <2>1, <2>2, <2>3
      DEF IInv, Kinds, Numbered, StackIsSet, Sane, TypeOK
<1> QED BY <1>1, <1>2, <1>3, PoolInvariant, ServedCorrect, AlwaysNumbered,
           PoolPieces, PTL DEF Spec
LEMMA ServiceInit == Init => Service!Init
<1> SUFFICES ASSUME Init PROVE Service!Init
  OBVIOUS
<1>1. \A h \in Handlers : sock[h] \notin Clients
  BY EchoAssumption DEF Init, EchoInit
<1>2. PiecesHeld = [c \in Clients |-> 0]
  BY <1>1 DEF PiecesHeld
<1> QED BY <1>2 DEF Init, EchoInit, ClientInit, Service!Init,
                    Service!ClientInit

LEMMA ServiceClient ==
  ASSUME NEW c \in Clients, ClientStep(c), EnvUnchanged
  PROVE  Service!Next
<1>1. PiecesHeld' = PiecesHeld /\ alive' = alive
  BY HeldStays DEF EnvUnchanged
<1>2. Service!ClientStep(c)
  BY DEF ClientStep, ClientProgress, Connect, CannotConnect, ReadEof,
         SendMessage, ReadReply, CloseClient, ClientKilled, Disconnect,
         Service!ClientStep, Service!ClientProgress, Service!Connect,
         Service!CannotConnect, Service!ReadEof, Service!SendMessage,
         Service!ReadReply, Service!CloseClient, Service!ClientKilled,
         Service!Disconnect
<1> QED BY <1>1, <1>2 DEF Service!Next

LEMMA ServiceStutter ==
  ASSUME UNCHANGED <<clientVars, sock, hbytes, alive>>
  PROVE  UNCHANGED Service!serviceVars
<1>1. PiecesHeld' = PiecesHeld
  BY HeldStays
<1> QED BY <1>1 DEF clientVars, Service!serviceVars, Service!clientVars

(* Connections begin to be served and are refused by main(), which has     *)
(* them alone.                                                             *)
LEMMA ServiceMain ==
  ASSUME IInv, Served, alive, MainStep \/ SpuriousWakeup
  PROVE  Service!Next \/ UNCHANGED Service!serviceVars
<1>1. CASE LockPop \/ WaitForThread \/ SpuriousWakeup \/ Pop
           \/ UnlockPop \/ ReadPipe \/ LockPush \/ Push \/ Signal
           \/ UnlockPush
  BY <1>1, ServiceStutter
     DEF LockPop, WaitForThread, SpuriousWakeup, Pop, UnlockPop, ReadPipe,
         LockPush, Push, Signal, UnlockPush, echoVars
<1>2. CASE Boot
  <2>1. PiecesHeld' = PiecesHeld
    BY <1>2, HeldStays DEF Boot
  <2>2. Service!Listen
    BY <1>2, <2>1 DEF Boot, SrvListen, Service!Listen, Service!SrvListen
  <2> QED BY <2>2 DEF Service!Next, Service!Serve
<1>3. CASE BootFails
  <2>1. /\ PiecesHeld' = PiecesHeld
        /\ \A c \in Clients : srv[c] = "none"
    BY <1>3, HeldStays DEF BootFails, Served, Started
  <2>2. Service!Exit
    BY <1>3, <2>1 DEF BootFails, SrvExit, Service!Exit, Service!SrvExit
  <2> QED BY <2>2 DEF Service!Next, Service!Serve
<1>4. CASE Accept
  <2>1. PICK c \in Clients : SrvAccept(c)
    BY <1>4 DEF Accept
  <2>2. PiecesHeld' = PiecesHeld
    BY <1>4, HeldStays DEF Accept
  <2>3. Service!Accept(c)
    BY <1>4, <2>1, <2>2
       DEF Accept, SrvAccept, Service!Accept, Service!SrvAccept
  <2> QED BY <2>3 DEF Service!Next, Service!Serve
<1>5. CASE CreateFails
  <2>1. /\ SrvClose(new_socket) /\ new_socket \in Clients /\ alive' = alive
        /\ new_socket # None /\ srv[new_socket] = "open"
    BY <1>5 DEF CreateFails, MainGoes, IInv, Accepted, Served, Owned
  <2>2. PiecesHeld' = PiecesHeld
    BY <1>5, HeldStays DEF CreateFails
  <2>3. PiecesHeld[new_socket] = 0
    <3>1. \A h \in Handlers : sock[h] # new_socket
      BY <2>1, TurnsAlone DEF Served
    <3> QED BY <2>1, <3>1 DEF PiecesHeld
  <2>4. Service!ReadEnds(new_socket) \/ Service!Untouched(new_socket)
    BY <2>1 DEF Served, Fetched, Whole, Service!ReadEnds, Service!Untouched
  <2>5. Service!Close(new_socket)
    BY <2>1, <2>2, <2>3, <2>4 DEF SrvClose, Service!Close, Service!SrvClose
  <2> QED BY <2>1, <2>5 DEF Service!Next, Service!Serve
<1>6. ASSUME NEW h \in Handlers, CreateThread(h)
      PROVE  UNCHANGED Service!serviceVars
  <2>1. /\ sock' = [sock EXCEPT ![h] = new_socket] /\ hpc[h] = "none"
        /\ UNCHANGED <<clientVars, hbytes, alive>>
    BY <1>6 DEF CreateThread
  <2>2. \A g \in Handlers : g # h => sock'[g] = sock[g]
    BY <2>1 DEF IInv, Kinds, EchoKinds
  <2>3. Alone /\ Alone'
    <3>1. Alone
      BY TurnsAlone DEF Served
    <3>2. mpc = "create"
      BY <1>6 DEF CreateThread, MainGoes
    <3>3. \A g \in Handlers : sock[g] = None
      BY <3>2, TurnsAlone DEF Served
    <3> QED BY <2>2, <3>1, <3>3 DEF Alone
  <2>4. hbytes[h] = 0
    BY <2>1 DEF Served, InHands
  <2>5. PiecesHeld' = PiecesHeld
    BY <2>1, <2>2, <2>3, <2>4, HeldMoves
  <2> QED BY <2>1, <2>5
          DEF clientVars, Service!serviceVars, Service!clientVars
<1> QED BY <1>1, <1>2, <1>3, <1>4, <1>5, <1>6 DEF MainStep

LEMMA ServiceHandler ==
  ASSUME IInv, Served, alive, NEW h \in Handlers, HandlerStep(h)
  PROVE  Service!Next \/ UNCHANGED Service!serviceVars
<1>1. CASE HandlerLock(h) \/ HandlerWrite(h) \/ HandlerUnlock(h)
  BY <1>1, ServiceStutter DEF HandlerLock, HandlerWrite, HandlerUnlock
<1>2. CASE EchoStart(h, sock[h])
  <2>1. sock' = sock
    BY <1>2 DEF EchoStart, IInv, Kinds, EchoKinds
  <2> QED BY <1>2, <2>1, ServiceStutter DEF EchoStart
<1>3. CASE \/ EchoRead(h) \/ EchoSend(h) \/ EchoSendKills(h)
           \/ EchoClose(h, "lock")
  <2> DEFINE c == sock[h]
  <2>1. hpc[h] \in {"start", "read", "send"}
    BY <1>3 DEF EchoRead, EchoSend, EchoSendKills, EchoClose
  <2>2. c \in Clients /\ srv[c] = "open"
    BY <2>1, EchoAssumption DEF IInv, Accepted, Served, Owned
  <2>3. Alone /\ EchoKinds /\ InHands
    BY TurnsAlone DEF Served, IInv, Kinds
  <2> HIDE DEF c
  <2>4. \/ Service!Read(c) \/ Service!Echo(c) \/ Service!Exit
        \/ Service!Close(c)
    BY <1>3, <2>2, <2>3, LoopServes
       DEF c, SrvRead, SrvSend, SrvExit, SrvClose, ReadEnds,
           Service!Read, Service!Echo, Service!Exit, Service!Close,
           Service!SrvRead, Service!SrvSend, Service!SrvExit,
           Service!SrvClose, Service!ReadEnds
  <2> QED BY <2>2, <2>4 DEF Service!Next, Service!Serve
<1> QED BY <1>1, <1>2, <1>3 DEF HandlerStep, Echo

LEMMA ServiceStep ==
  ASSUME IInv, Served, [Next]_vars
  PROVE  [Service!Next]_(Service!serviceVars)
<1>1. CASE UNCHANGED vars
  BY <1>1, ServiceStutter DEF vars, echoVars
<1> QED BY <1>1, ServiceClient, ServiceMain, ServiceHandler
        DEF Next, ServerStep

(* However main() and its threads interleave over the mutex and the pipe,  *)
(* their clients cannot tell the pool from a server that echoes each       *)
(* connection by itself, except that a connection may be closed before     *)
(* anything of it was read.                                                *)
THEOREM PoolServiceCorrect == Spec => ServiceSpec
<1>1. Spec => Service!Init /\ [][Service!Next]_(Service!serviceVars)
  BY ServiceInit, ServiceStep, PoolInvariant, ServedCorrect, PTL DEF Spec
<1> QED BY <1>1 DEF ServiceSpec, Service!Spec
=============================================================================
