-------------------------- MODULE ServerQueueProofs --------------------------
(***************************************************************************)
(* Machine-checked proofs about ServerQueue, for any number of clients and *)
(* workers, any QUEUE_SIZE and BACKLOG, and a message in any number of     *)
(* pieces.                                                                 *)
(***************************************************************************)
EXTENDS ServerQueue, TLAPS, FiniteSetTheorems, SequenceTheorems

-----------------------------------------------------------------------------
(* Layer 1: every variable is of the expected kind, except the ones that   *)
(* say how many pieces are where: those need layers 2 to 4.                *)

Kinds ==
  /\ listening \in BOOLEAN
  /\ backlog \in Seq(Clients)
  /\ cpc \in [Clients -> ClientStates]
  /\ srv \in [Clients -> {"none", "open", "closed", "gone"}]
  /\ queue \in [Slots -> Clients \cup {None}]
  /\ front \in Slots
  /\ rear \in Slots
  /\ count \in 0..QUEUE_SIZE
  /\ mutex \in Threads \cup {None}
  /\ not_empty \in SUBSET Workers
  /\ not_full \in SUBSET {Main}
  /\ pc \in [Threads -> MainStates \cup WorkerStates]
  /\ pc[Main] \in MainStates
  /\ \A w \in Workers : pc[w] \in WorkerStates
  /\ sock \in [Threads -> Clients \cup {None}]
  /\ bytes_read \in [Workers -> 0..UNITS]
  /\ alive \in BOOLEAN

LEMMA EmptySeqFact == ASSUME NEW S PROVE <<>> \in Seq(S)
OBVIOUS

(* The ring's index arithmetic without the modulus.                        *)
LEMMA NextSlotFact ==
  ASSUME NEW x \in Slots
  PROVE  /\ NextSlot(x) \in Slots
         /\ NextSlot(x) = IF x + 1 = QUEUE_SIZE THEN 0 ELSE x + 1
<1>1. CASE x + 1 = QUEUE_SIZE
  BY <1>1, QueueAssumption DEF NextSlot, Slots
<1>2. CASE x + 1 < QUEUE_SIZE
  BY <1>2, QueueAssumption DEF NextSlot, Slots
<1> QED BY <1>1, <1>2, QueueAssumption DEF Slots

LEMMA KindsInit == Init => Kinds
<1> SUFFICES ASSUME Init PROVE Kinds
  OBVIOUS
<1>1. /\ pc \in [Threads -> MainStates \cup WorkerStates]
      /\ pc[Main] \in MainStates
      /\ \A w \in Workers : pc[w] \in WorkerStates
  BY ThreadAssumption DEF Init, Threads, MainStates, WorkerStates
<1>2. backlog \in Seq(Clients)
  BY EmptySeqFact DEF Init, ClientInit
<1>3. listening \in BOOLEAN /\ alive \in BOOLEAN
  BY DEF Init, ClientInit
<1>4. /\ cpc \in [Clients -> ClientStates]
      /\ srv \in [Clients -> {"none", "open", "closed", "gone"}]
  BY DEF Init, ClientInit, ClientStates
<1>5. /\ queue \in [Slots -> Clients \cup {None}]
      /\ front \in Slots /\ rear \in Slots /\ count \in 0..QUEUE_SIZE
  BY QueueAssumption DEF Init, Slots
<1>6. /\ mutex \in Threads \cup {None}
      /\ not_empty \in SUBSET Workers /\ not_full \in SUBSET {Main}
      /\ sock \in [Threads -> Clients \cup {None}]
      /\ bytes_read \in [Workers -> 0..UNITS]
  BY UnitsAssumption DEF Init
<1> QED BY <1>1, <1>2, <1>3, <1>4, <1>5, <1>6 DEF Kinds

LEMMA KindsExit ==
  ASSUME Kinds, SrvExit
  PROVE  /\ listening' \in BOOLEAN
         /\ backlog' \in Seq(Clients)
         /\ srv' \in [Clients -> {"none", "open", "closed", "gone"}]
<1>1. backlog' \in Seq(Clients)
  BY EmptySeqFact DEF SrvExit
<1>2. listening' = FALSE
  BY DEF SrvExit
<1>3. srv' \in [Clients -> {"none", "open", "closed", "gone"}]
  BY DEF Kinds, SrvExit
<1> QED BY <1>1, <1>2, <1>3

LEMMA KindsClient ==
  ASSUME Kinds, NEW c \in Clients, ClientStep(c),
         UNCHANGED <<ringVars, syncVars, pc, sock, bytes_read, alive>>
  PROVE  Kinds'
<1> USE UnitsAssumption DEF Kinds, ClientStates, ringVars, syncVars
<1>1. CASE Connect(c)
  BY <1>1 DEF Connect
<1>2. CASE CannotConnect(c)
  BY <1>2 DEF CannotConnect
<1>3. CASE SendMessage(c)
  BY <1>3 DEF SendMessage
<1>4. CASE ReadReply(c)
  BY <1>4 DEF ReadReply
<1>5. CASE ReadEof(c)
  BY <1>5 DEF ReadEof
<1>6. CASE CloseClient(c) \/ ClientKilled(c)
  BY <1>6 DEF CloseClient, ClientKilled, Disconnect
<1> QED BY <1>1, <1>2, <1>3, <1>4, <1>5, <1>6 DEF ClientStep, ClientProgress

LEMMA KindsMain == ASSUME Kinds, MainStep PROVE Kinds'
<1> USE UnitsAssumption, ThreadAssumption
    DEF Kinds, clientVars, ringVars, syncVars, Threads, MainStates,
        WorkerStates, Goto, MutexLock, MutexUnlock
<1>1. CASE Boot
  BY <1>1 DEF Boot, SrvListen
<1>2. CASE StartupFails
  BY <1>2, KindsExit DEF StartupFails, SrvExit
<1>3. CASE Accept
  BY <1>3 DEF Accept, SrvAccept
<1>4. CASE AddLock
  BY <1>4 DEF AddLock
<1>5. CASE AddWait
  BY <1>5 DEF AddWait
<1>6. CASE AddInsert
  BY <1>6, NextSlotFact, QueueAssumption DEF AddInsert, Full
<1>7. CASE AddSignal
  BY <1>7 DEF AddSignal, Woken
<1>8. CASE AddUnlock
  BY <1>8 DEF AddUnlock
<1>9. CASE \E w \in Workers : CreateWorker(w)
  BY <1>9 DEF CreateWorker
<1> QED BY <1>1, <1>2, <1>3, <1>4, <1>5, <1>6, <1>7, <1>8, <1>9 DEF MainStep

LEMMA KindsWorker ==
  ASSUME Kinds, NEW w \in Workers, WorkerStep(w)
  PROVE  Kinds'
<1> USE UnitsAssumption, ThreadAssumption
    DEF Kinds, clientVars, ringVars, syncVars, Threads, MainStates,
        WorkerStates, Goto, MutexLock, MutexUnlock
<1>1. CASE RemoveLock(w)
  BY <1>1 DEF RemoveLock
<1>2. CASE RemoveWait(w)
  BY <1>2 DEF RemoveWait
<1>3. CASE RemoveTake(w)
  BY <1>3, NextSlotFact, QueueAssumption DEF RemoveTake, Empty, Oldest
<1>4. CASE RemoveSignal(w)
  BY <1>4 DEF RemoveSignal, Woken
<1>5. CASE RemoveUnlock(w)
  BY <1>5 DEF RemoveUnlock
<1>6. CASE WorkerRead(w)
  BY <1>6 DEF WorkerRead, SrvRead
<1>7. CASE WorkerReadEnds(w)
  BY <1>7 DEF WorkerReadEnds, SrvReadEnds
<1>8. CASE WorkerSend(w)
  BY <1>8 DEF WorkerSend, SrvSend
<1>9. CASE WorkerSendKills(w)
  BY <1>9, KindsExit DEF WorkerSendKills, SrvSendKills, SrvExit
<1>10. CASE WorkerClose(w)
  BY <1>10 DEF WorkerClose, SrvClose
<1> QED BY <1>1, <1>2, <1>3, <1>4, <1>5, <1>6, <1>7, <1>8, <1>9, <1>10
        DEF WorkerStep

LEMMA KindsSpurious ==
  ASSUME Kinds, NEW t \in Threads, SpuriousWakeup(t)
  PROVE  Kinds'
BY ThreadAssumption
   DEF SpuriousWakeup, Kinds, clientVars, ringVars, Threads, MainStates,
       WorkerStates, Goto

(* Every reachable state is of the expected kind.                          *)
THEOREM KindsCorrect == Spec => []Kinds
<1>1. ASSUME Kinds, [Next]_vars PROVE Kinds'
  <2>1. CASE EnvStep
    BY <1>1, <2>1, KindsClient DEF EnvStep
  <2>2. CASE ServerStep
    BY <1>1, <2>2, KindsMain, KindsWorker, KindsSpurious DEF ServerStep
  <2>3. CASE UNCHANGED vars
    BY <1>1, <2>3
       DEF vars, clientVars, ringVars, syncVars, Kinds
  <2> QED BY <1>1, <2>1, <2>2, <2>3 DEF Next
<1> QED BY <1>1, KindsInit, PTL DEF Spec

-----------------------------------------------------------------------------
(* Layer 2: the mutex, the wait sets and the hands agree with where the    *)
(* threads are.  A worker's hand is empty unless it is past the removal;   *)
(* that it is full from there on needs layer 3.                            *)

Sync ==
  /\ \A t \in Threads : mutex = t <=> pc[t] \in {"locked", "signal", "unlock"}
  /\ \A w \in Workers : w \in not_empty <=> pc[w] = "wait"
  /\ Main \in not_full <=> pc[Main] = "wait"
  /\ sock[Main] # None <=> pc[Main] \in {"lock", "locked", "wait"}
  /\ \A w \in Workers :
       pc[w] \in {"unborn", "lock", "locked", "wait"} => sock[w] = None

LEMMA SyncInit == Init => Sync
BY ThreadAssumption DEF Init, Sync, Threads

LEMMA SyncFrame ==
  ASSUME Sync, UNCHANGED <<syncVars, pc, sock>>
  PROVE  Sync'
BY DEF Sync, syncVars

LEMMA SyncMain == ASSUME Kinds, Sync, MainStep PROVE Sync'
<1> USE ThreadAssumption
    DEF Kinds, Sync, clientVars, ringVars, syncVars, Threads, MainStates,
        WorkerStates, Goto, MutexLock, MutexUnlock
<1>1. CASE Boot
  BY <1>1 DEF Boot
<1>2. CASE StartupFails
  BY <1>2 DEF StartupFails
<1>3. CASE Accept
  BY <1>3 DEF Accept
<1>4. CASE AddLock
  BY <1>4 DEF AddLock
<1>5. CASE AddWait
  BY <1>5 DEF AddWait
<1>6. CASE AddInsert
  BY <1>6 DEF AddInsert
<1>7. CASE AddSignal
  BY <1>7 DEF AddSignal, Woken
<1>8. CASE AddUnlock
  BY <1>8 DEF AddUnlock
<1>9. CASE \E w \in Workers : CreateWorker(w)
  BY <1>9 DEF CreateWorker
<1> QED BY <1>1, <1>2, <1>3, <1>4, <1>5, <1>6, <1>7, <1>8, <1>9 DEF MainStep

LEMMA SyncWorker ==
  ASSUME Kinds, Sync, NEW w \in Workers, WorkerStep(w)
  PROVE  Sync'
<1> USE ThreadAssumption
    DEF Kinds, Sync, clientVars, ringVars, syncVars, Threads, MainStates,
        WorkerStates, Goto, MutexLock, MutexUnlock
<1>1. CASE RemoveLock(w)
  BY <1>1 DEF RemoveLock
<1>2. CASE RemoveWait(w)
  BY <1>2 DEF RemoveWait
<1>3. CASE RemoveTake(w)
  BY <1>3 DEF RemoveTake
<1>4. CASE RemoveSignal(w)
  BY <1>4 DEF RemoveSignal, Woken
<1>5. CASE RemoveUnlock(w)
  BY <1>5 DEF RemoveUnlock
<1>6. CASE WorkerRead(w)
  BY <1>6 DEF WorkerRead
<1>7. CASE WorkerReadEnds(w)
  BY <1>7 DEF WorkerReadEnds
<1>8. CASE WorkerSend(w)
  BY <1>8 DEF WorkerSend
<1>9. CASE WorkerSendKills(w)
  BY <1>9 DEF WorkerSendKills
<1>10. CASE WorkerClose(w)
  BY <1>10 DEF WorkerClose
<1> QED BY <1>1, <1>2, <1>3, <1>4, <1>5, <1>6, <1>7, <1>8, <1>9, <1>10
        DEF WorkerStep

LEMMA SyncSpurious ==
  ASSUME Kinds, Sync, NEW t \in Threads, SpuriousWakeup(t)
  PROVE  Sync'
BY ThreadAssumption
   DEF SpuriousWakeup, Kinds, Sync, Threads, MainStates, WorkerStates, Goto

(* The lock, the condition variables and the hands are used consistently.  *)
THEOREM SyncCorrect == Spec => []Sync
<1>1. ASSUME Kinds, Sync, [Next]_vars PROVE Sync'
  <2>1. CASE EnvStep
    BY <1>1, <2>1, SyncFrame DEF EnvStep
  <2>2. CASE ServerStep
    BY <1>1, <2>2, SyncMain, SyncWorker, SyncSpurious DEF ServerStep
  <2>3. CASE UNCHANGED vars
    BY <1>1, <2>3, SyncFrame DEF vars
  <2> QED BY <1>1, <2>1, <2>2, <2>3 DEF Next
<1> QED BY <1>1, SyncInit, KindsCorrect, PTL DEF Spec

-----------------------------------------------------------------------------
(* Layer 2, continued.  No lost wakeup: the workers about to look at       *)
(* count, counted.                                                         *)

LEMMA AlertCounted ==
  ASSUME NEW S, NEW T, T \in SUBSET Workers, S \subseteq T
  PROVE  /\ IsFiniteSet(S) /\ IsFiniteSet(T)
         /\ Cardinality(S) \in Nat /\ Cardinality(T) \in Nat
         /\ Cardinality(S) <= Cardinality(T)
<1>1. IsFiniteSet(T)
  BY FS_Subset, ThreadAssumption
<1>2. S \in SUBSET T
  OBVIOUS
<1>3. IsFiniteSet(S) /\ Cardinality(S) <= Cardinality(T)
  BY <1>1, <1>2, FS_Subset
<1> QED BY <1>1, <1>3, FS_CardinalityType

LEMMA AlertIsWorkers == Alert \in SUBSET Workers /\ Alert' \in SUBSET Workers
BY DEF Alert

LEMMA WakeupInit == Init => NoLostWakeup
BY DEF Init, NoLostWakeup

(* A step that makes nobody fall asleep, leaves count alone and takes away *)
(* neither an alert worker nor a promised signal loses no wakeup.          *)
LEMMA WakeupFrame ==
  ASSUME Kinds, NoLostWakeup,
         not_empty' \subseteq not_empty, not_full' \subseteq not_full,
         count' = count, Alert \subseteq Alert',
         pc[Main] = "signal" => pc'[Main] = "signal",
         \A w \in Workers : pc[w] = "signal" => pc'[w] = "signal"
  PROVE  NoLostWakeup'
<1>1. /\ Cardinality(Alert) \in Nat /\ Cardinality(Alert') \in Nat
      /\ Cardinality(Alert) <= Cardinality(Alert')
  BY AlertCounted, AlertIsWorkers
<1>2. not_empty' # {} =>
        count' <= Cardinality(Alert') + (IF pc'[Main] = "signal" THEN 1 ELSE 0)
  <2> SUFFICES ASSUME not_empty' # {}
               PROVE  count' <= Cardinality(Alert')
                                  + (IF pc'[Main] = "signal" THEN 1 ELSE 0)
    OBVIOUS
  <2>1. count <= Cardinality(Alert) + (IF pc[Main] = "signal" THEN 1 ELSE 0)
    BY DEF NoLostWakeup
  <2> QED BY <1>1, <2>1 DEF Kinds
<1>3. not_full' # {} =>
        count' = QUEUE_SIZE \/ \E w \in Workers : pc'[w] = "signal"
  BY DEF NoLostWakeup
<1> QED BY <1>2, <1>3 DEF NoLostWakeup, Alert

LEMMA WakeupMain ==
  ASSUME Kinds, Sync, NoLostWakeup, MainStep
  PROVE  NoLostWakeup'
<1> USE ThreadAssumption DEF Kinds, Sync, Threads, Goto, MutexLock, MutexUnlock,
        ringVars, syncVars
<1>1. CASE Boot \/ StartupFails \/ Accept \/ AddLock \/ AddUnlock
  <2>1. /\ \A w \in Workers : pc'[w] = pc[w]
        /\ pc[Main] = "signal" => pc'[Main] = "signal"
        /\ UNCHANGED <<not_empty, not_full, count>>
    BY <1>1 DEF Boot, StartupFails, Accept, AddLock, AddUnlock
  <2>2. Alert \subseteq Alert'
    BY <2>1 DEF Alert
  <2> QED BY <2>1, <2>2, WakeupFrame
<1>2. CASE \E w \in Workers : CreateWorker(w)
  <2>1. PICK w \in Workers : CreateWorker(w)
    BY <1>2
  <2>2. /\ \A v \in Workers : v # w => pc'[v] = pc[v]
        /\ pc[w] = "unborn" /\ pc[Main] = "create"
        /\ UNCHANGED <<not_empty, not_full, count>>
    BY <2>1 DEF CreateWorker
  <2>3. Alert \subseteq Alert'
    BY <2>2 DEF Alert
  <2> QED BY <2>2, <2>3, WakeupFrame
<1>3. CASE AddWait
  <2>1. /\ \A w \in Workers : pc'[w] = pc[w]
        /\ pc[Main] = "locked" /\ pc'[Main] = "wait"
        /\ UNCHANGED <<not_empty, count>>
        /\ count = QUEUE_SIZE
    BY <1>3 DEF AddWait, Full
  <2>2. Alert' = Alert
    BY <2>1 DEF Alert
  <2> QED BY <2>1, <2>2 DEF NoLostWakeup, Alert
<1>4. CASE AddInsert
  <2>1. /\ \A w \in Workers : pc'[w] = pc[w]
        /\ pc[Main] = "locked" /\ pc'[Main] = "signal"
        /\ UNCHANGED <<not_empty, not_full>>
        /\ count' = count + 1
    BY <1>4 DEF AddInsert
  <2>2. Alert' = Alert
    BY <2>1 DEF Alert
  <2>3. not_full' = {}
    BY <2>1
  <2>4. Cardinality(Alert) \in Nat
    BY AlertCounted, AlertIsWorkers
  <2>5. not_empty' # {} => count' <= Cardinality(Alert') + 1
    BY <2>1, <2>2, <2>4 DEF NoLostWakeup
  <2> QED BY <2>1, <2>3, <2>5 DEF NoLostWakeup, Alert
<1>5. CASE AddSignal
  <2>1. PICK woken \in Woken(not_empty) :
          /\ not_empty' = not_empty \ woken
          /\ pc' = [t \in Threads |-> IF t = Main THEN "unlock"
                                      ELSE IF t \in woken THEN "lock"
                                      ELSE pc[t]]
    BY <1>5 DEF AddSignal
  <2>2. /\ pc[Main] = "signal" /\ pc'[Main] = "unlock"
        /\ not_full' = {} /\ count' = count
    BY <1>5, <2>1 DEF AddSignal
  <2>3. CASE not_empty = {}
    BY <2>1, <2>2, <2>3 DEF NoLostWakeup
  <2>4. CASE not_empty # {}
    <3>1. PICK t \in not_empty : woken = {t}
      BY <2>1, <2>4 DEF Woken
    <3>2. t \in Workers /\ pc[t] = "wait" /\ pc'[t] = "lock"
      BY <2>1, <3>1
    <3>3. \A w \in Workers : w # t => pc'[w] = pc[w]
      BY <2>1, <3>1
    <3>4. Alert' = Alert \cup {t} /\ t \notin Alert
      BY <3>2, <3>3 DEF Alert
    <3>5. IsFiniteSet(Alert) /\ Cardinality(Alert) \in Nat
      BY AlertCounted, AlertIsWorkers
    <3>6. Cardinality(Alert') = Cardinality(Alert) + 1
      BY <3>4, <3>5, FS_AddElement
    <3>7. count <= Cardinality(Alert) + 1
      BY <2>2, <2>4 DEF NoLostWakeup
    <3>8. count' <= Cardinality(Alert') + 0
      BY <2>2, <3>5, <3>6, <3>7
    <3> QED BY <2>2, <3>8 DEF NoLostWakeup, Alert
  <2> QED BY <2>3, <2>4
<1> QED BY <1>1, <1>2, <1>3, <1>4, <1>5 DEF MainStep

LEMMA WakeupWorker ==
  ASSUME Kinds, Sync, NoLostWakeup, NEW w \in Workers, WorkerStep(w)
  PROVE  NoLostWakeup'
<1> USE ThreadAssumption DEF Kinds, Sync, Threads, Goto, MutexLock, MutexUnlock,
        ringVars, syncVars
<1>1. CASE \/ RemoveLock(w) \/ RemoveUnlock(w) \/ WorkerRead(w)
           \/ WorkerReadEnds(w) \/ WorkerSend(w) \/ WorkerSendKills(w)
           \/ WorkerClose(w)
  <2>1. /\ \A t \in Threads \ {w} : pc'[t] = pc[t]
        /\ pc[w] # "signal"
           \/ pc'[w] = pc[w]
        /\ pc[w] \in {"lock", "locked"} => pc'[w] \in {"lock", "locked"}
        /\ UNCHANGED <<not_empty, not_full, count>>
    BY <1>1 DEF RemoveLock, RemoveUnlock, WorkerRead, WorkerReadEnds,
                WorkerSend, WorkerSendKills, WorkerClose
  <2>2. Alert \subseteq Alert'
    BY <2>1 DEF Alert
  <2> QED BY <2>1, <2>2, WakeupFrame
<1>2. CASE RemoveWait(w)
  <2>1. /\ \A t \in Threads \ {w} : pc'[t] = pc[t]
        /\ pc[w] = "locked"
        /\ count = 0 /\ UNCHANGED <<not_full, count>>
    BY <1>2 DEF RemoveWait, Empty
  <2>2. Cardinality(Alert') \in Nat
    BY AlertCounted, AlertIsWorkers
  <2>3. count' <= Cardinality(Alert') + (IF pc'[Main] = "signal" THEN 1 ELSE 0)
    BY <2>1, <2>2
  <2>4. not_full' # {} =>
          count' = QUEUE_SIZE \/ \E v \in Workers : pc'[v] = "signal"
    BY <2>1 DEF NoLostWakeup
  <2> QED BY <2>3, <2>4 DEF NoLostWakeup, Alert
<1>3. CASE RemoveTake(w)
  <2>1. /\ \A t \in Threads \ {w} : pc'[t] = pc[t]
        /\ pc[w] = "locked" /\ pc'[w] = "signal"
        /\ count' = count - 1
        /\ UNCHANGED <<not_empty, not_full>>
    BY <1>3 DEF RemoveTake
  <2>2. Alert' = Alert \ {w} /\ w \in Alert
    BY <2>1 DEF Alert
  <2>3. IsFiniteSet(Alert) /\ Cardinality(Alert) \in Nat
    BY AlertCounted, AlertIsWorkers
  <2>4. Cardinality(Alert') = Cardinality(Alert) - 1
    BY <2>2, <2>3, FS_RemoveElement
  <2>5. pc'[Main] = pc[Main]
    BY <2>1
  <2>6. not_empty' # {} =>
          count' <= Cardinality(Alert')
                      + (IF pc'[Main] = "signal" THEN 1 ELSE 0)
    <3> SUFFICES ASSUME not_empty' # {}
                 PROVE  count' <= Cardinality(Alert')
                                    + (IF pc'[Main] = "signal" THEN 1 ELSE 0)
      OBVIOUS
    <3>1. count <= Cardinality(Alert) + (IF pc[Main] = "signal" THEN 1 ELSE 0)
      BY <2>1 DEF NoLostWakeup
    <3>2. count \in Int
      BY QueueAssumption
    <3> QED BY <2>1, <2>3, <2>4, <2>5, <3>1, <3>2
  <2> QED BY <2>1, <2>6 DEF NoLostWakeup, Alert
<1>4. CASE RemoveSignal(w)
  <2>1. PICK woken \in Woken(not_full) :
          /\ not_full' = not_full \ woken
          /\ pc' = [t \in Threads |-> IF t = w THEN "unlock"
                                      ELSE IF t \in woken THEN "lock"
                                      ELSE pc[t]]
    BY <1>4 DEF RemoveSignal
  <2>2. pc[w] = "signal" /\ UNCHANGED <<not_empty, count>>
    BY <1>4 DEF RemoveSignal, ringVars
  <2>3. woken \subseteq {Main} /\ not_full' = {}
    BY <2>1 DEF Woken
  <2>4. \A v \in Workers \ {w} : pc'[v] = pc[v]
    BY <2>1, <2>3
  <2>5. Alert' = Alert
    BY <2>1, <2>2, <2>4 DEF Alert
  <2>6. pc'[Main] = "signal" <=> pc[Main] = "signal"
    BY <2>1, <2>3 DEF Woken
  <2> QED BY <2>2, <2>3, <2>5, <2>6 DEF NoLostWakeup, Alert
<1> QED BY <1>1, <1>2, <1>3, <1>4 DEF WorkerStep

LEMMA WakeupSpurious ==
  ASSUME Kinds, Sync, NoLostWakeup, NEW t \in Threads, SpuriousWakeup(t)
  PROVE  NoLostWakeup'
<1>1. /\ pc[t] = "wait" /\ pc'[t] = "lock"
      /\ \A u \in Threads \ {t} : pc'[u] = pc[u]
      /\ not_empty' \subseteq not_empty /\ not_full' \subseteq not_full
      /\ count' = count
  BY ThreadAssumption
     DEF SpuriousWakeup, Kinds, Sync, Threads, Goto, ringVars
<1>2. Alert \subseteq Alert'
  BY <1>1 DEF Alert, Threads
<1> QED BY <1>1, <1>2, WakeupFrame DEF Threads

(* One pthread_cond_signal for each connection put in or taken out is      *)
(* enough: no worker sleeps while a connection nobody will look for waits, *)
(* and main() sleeps only while the ring is full or about to be announced  *)
(* as not full.                                                            *)
THEOREM NoLostWakeupCorrect == Spec => []NoLostWakeup
<1>1. ASSUME Kinds, Sync, NoLostWakeup, [Next]_vars PROVE NoLostWakeup'
  <2>1. CASE EnvStep \/ UNCHANGED vars
    <3>1. UNCHANGED <<count, not_empty, not_full, pc>>
      BY <2>1 DEF EnvStep, vars, ringVars, syncVars
    <3> QED BY <1>1, <3>1 DEF NoLostWakeup, Alert
  <2>2. CASE ServerStep
    BY <1>1, <2>2, WakeupMain, WakeupWorker, WakeupSpurious DEF ServerStep
  <2> QED BY <1>1, <2>1, <2>2 DEF Next
<1> QED BY <1>1, WakeupInit, KindsCorrect, SyncCorrect, PTL DEF Spec

-----------------------------------------------------------------------------
(* Layer 3: the window of the ring, and who owns each connection.          *)

LEMMA WindowGrows ==
  ASSUME Kinds, RingShape, ~Full,
         front' = front, rear' = NextSlot(rear), count' = count + 1
  PROVE  /\ RingShape'
         /\ rear \notin Window
         /\ Window' = Window \cup {rear}
<1> USE QueueAssumption DEF Kinds, RingShape, Full, Slots
<1>1. rear' = IF rear + 1 = QUEUE_SIZE THEN 0 ELSE rear + 1
  BY NextSlotFact
<1>2. RingShape'
  BY <1>1
<1>3. rear \notin Window
  BY DEF Window
<1>4. ASSUME NEW i \in Slots
      PROVE  i \in Window' <=> i \in Window \/ i = rear
  BY DEF Window
<1>5. Window \subseteq Slots /\ Window' \subseteq Slots
  BY DEF Window
<1> QED BY <1>2, <1>3, <1>4, <1>5

LEMMA WindowShrinks ==
  ASSUME Kinds, RingShape, ~Empty,
         front' = NextSlot(front), rear' = rear, count' = count - 1
  PROVE  /\ RingShape'
         /\ front \in Window
         /\ Window' = Window \ {front}
<1> USE QueueAssumption DEF Kinds, RingShape, Empty, Slots
<1>1. front' = IF front + 1 = QUEUE_SIZE THEN 0 ELSE front + 1
  BY NextSlotFact
<1>2. RingShape'
  BY <1>1
<1>3. front \in Window
  BY DEF Window
<1>4. ASSUME NEW i \in Slots
      PROVE  i \in Window' <=> i \in Window /\ i # front
  BY <1>1 DEF Window
<1>5. Window \subseteq Slots /\ Window' \subseteq Slots
  BY DEF Window
<1> QED BY <1>2, <1>3, <1>4, <1>5

(* A connection in the backlog has not been accepted and is there once.    *)
Backlogged ==
  /\ \A c \in Clients : cpc[c] = "start" => srv[c] = "none"
  /\ \A i \in 1..Len(backlog) : /\ cpc[backlog[i]] # "start"
                                /\ srv[backlog[i]] = "none"
  /\ \A i, j \in 1..Len(backlog) : backlog[i] = backlog[j] => i = j

(* A worker past the removal has a connection in its hand.                 *)
HandsFull ==
  \A w \in Workers :
    pc[w] \in {"signal", "unlock", "read", "send", "close"}
      => sock[w] \in Clients

Owned == Backlogged /\ HandsFull /\ OneOwner

LEMMA OwnedInit == Init => Owned
<1> SUFFICES ASSUME Init PROVE Owned
  OBVIOUS
<1>1. Backlogged
  BY DEF Init, ClientInit, Backlogged
<1>2. HandsFull
  BY ThreadAssumption DEF Init, HandsFull, Threads
<1>3. Window = {}
  BY QueueAssumption DEF Init, Window, Slots
<1>4. OneOwner
  BY <1>3, QueueAssumption, ThreadAssumption
     DEF Init, ClientInit, OneOwner, RingShape
<1> QED BY <1>1, <1>2, <1>4 DEF Owned

LEMMA BackloggedExit == ASSUME Kinds, Backlogged, SrvExit PROVE Backlogged'
BY DEF Kinds, Backlogged, SrvExit

LEMMA BackloggedClient ==
  ASSUME Kinds, Backlogged, NEW c \in Clients, ClientStep(c)
  PROVE  Backlogged'
<1> USE DEF Kinds, Backlogged, ClientStates
<1>1. CASE Connect(c)
  <2>1. /\ Len(backlog') = Len(backlog) + 1
        /\ \A i \in 1..Len(backlog) : backlog'[i] = backlog[i]
        /\ backlog'[Len(backlog) + 1] = c
    BY <1>1 DEF Connect
  <2>2. \A i \in 1..Len(backlog) : backlog[i] \in Clients /\ backlog[i] # c
    BY <1>1 DEF Connect
  <2>3. /\ cpc' = [cpc EXCEPT ![c] = "send"] /\ srv' = srv
        /\ srv[c] = "none"
    BY <1>1 DEF Connect
  <2>4. \A i \in 1..Len(backlog') : /\ cpc'[backlog'[i]] # "start"
                                    /\ srv'[backlog'[i]] = "none"
    BY <2>1, <2>2, <2>3
  <2>5. \A i, j \in 1..Len(backlog') : backlog'[i] = backlog'[j] => i = j
    BY <2>1, <2>2
  <2> QED BY <2>3, <2>4, <2>5
<1>2. CASE CannotConnect(c)
  BY <1>2 DEF CannotConnect
<1>3. CASE SendMessage(c)
  BY <1>3 DEF SendMessage
<1>4. CASE ReadReply(c)
  BY <1>4 DEF ReadReply
<1>5. CASE ReadEof(c)
  BY <1>5 DEF ReadEof
<1>6. CASE CloseClient(c) \/ ClientKilled(c)
  BY <1>6 DEF CloseClient, ClientKilled, Disconnect
<1> QED BY <1>1, <1>2, <1>3, <1>4, <1>5, <1>6 DEF ClientStep, ClientProgress

LEMMA OneOwnerFrame ==
  ASSUME OneOwner, UNCHANGED <<alive, srv, ringVars, sock>>
  PROVE  OneOwner'
<1>1. RingShape' /\ Window' = Window
  BY DEF OneOwner, RingShape, Window, ringVars
<1> QED BY <1>1 DEF OneOwner, ringVars

(* When the process ends, only the clause about live descriptors is        *)
(* affected, and it no longer applies.                                     *)
LEMMA OneOwnerExit ==
  ASSUME OneOwner, alive' = FALSE, UNCHANGED <<ringVars, sock>>
  PROVE  OneOwner'
<1>1. RingShape' /\ Window' = Window
  BY DEF OneOwner, RingShape, Window, ringVars
<1> QED BY <1>1 DEF OneOwner, ringVars

LEMMA OwnedAccept ==
  ASSUME Kinds, Sync, Owned, alive, Accept
  PROVE  Owned'
<1> USE ThreadAssumption DEF Kinds, Threads
<1>1. PICK c \in Clients : SrvAccept(c) /\ sock' = [sock EXCEPT ![Main] = c]
  BY DEF Accept
<1>2. /\ c = backlog[1] /\ Len(backlog) > 0
      /\ Len(backlog') = Len(backlog) - 1
      /\ \A i \in 1..Len(backlog') : backlog'[i] = backlog[i + 1]
  BY <1>1 DEF SrvAccept
<1>3. /\ cpc[c] # "start" /\ srv[c] = "none"
      /\ \A i \in 1..Len(backlog') : backlog'[i] # c
  BY <1>2 DEF Owned, Backlogged
<1>4. srv' = [srv EXCEPT ![c] = "open"] /\ cpc' = cpc
  BY <1>1 DEF SrvAccept
<1>5. Backlogged'
  <2>1. \A i \in 1..Len(backlog') :
          i + 1 \in 1..Len(backlog) /\ backlog'[i] \in Clients
    BY <1>2
  <2>2. \A d \in Clients : cpc'[d] = "start" => srv'[d] = "none"
    BY <1>3, <1>4 DEF Owned, Backlogged
  <2>3. \A i \in 1..Len(backlog') : /\ cpc'[backlog'[i]] # "start"
                                    /\ srv'[backlog'[i]] = "none"
    <3> TAKE i \in 1..Len(backlog')
    <3> DEFINE e == backlog'[i]
    <3>1. e \in Clients /\ e # c
      BY <1>3, <2>1
    <3>2. cpc[e] # "start" /\ srv[e] = "none"
      BY <1>2, <2>1 DEF Owned, Backlogged
    <3> QED BY <1>4, <3>1, <3>2
  <2>4. \A i, j \in 1..Len(backlog') : backlog'[i] = backlog'[j] => i = j
    <3> SUFFICES ASSUME NEW i \in 1..Len(backlog'), NEW j \in 1..Len(backlog'),
                        backlog'[i] = backlog'[j]
                 PROVE  i = j
      OBVIOUS
    <3>1. backlog[i + 1] = backlog[j + 1]
      BY <1>2
    <3>2. i + 1 = j + 1
      BY <2>1, <3>1 DEF Owned, Backlogged
    <3> QED BY <3>2
  <2> QED BY <2>2, <2>3, <2>4 DEF Backlogged
<1>6. HandsFull'
  BY <1>1 DEF Owned, HandsFull, Accept, Goto
<1>7. sock[Main] = None
  BY DEF Sync, Accept
<1>8. RingShape' /\ Window' = Window /\ queue' = queue
  BY DEF Owned, OneOwner, RingShape, Window, Accept, ringVars
<1>9. /\ \A t \in Threads : sock[t] # c
      /\ \A i \in Window : queue[i] # c
  BY <1>3 DEF Owned, OneOwner
<1>10. OneOwner'
  <2>1. ASSUME NEW d \in Clients
        PROVE  srv'[d] = "open" <=> \/ \E t \in Threads : sock'[t] = d
                                    \/ \E i \in Window' : queue'[i] = d
    <3>1. CASE d = c
      BY <1>1, <1>4, <3>1
    <3>2. CASE d # c
      <4>1. srv[d] = "open" <=> \/ \E t \in Threads : sock[t] = d
                                \/ \E i \in Window : queue[i] = d
        BY DEF Owned, OneOwner
      <4>2. srv'[d] = srv[d]
        BY <1>4, <3>2
      <4>3. \A t \in Threads : sock'[t] = d <=> sock[t] = d
        BY <1>1, <1>7, <3>2
      <4> HIDE DEF Kinds, Threads
      <4> QED BY <1>8, <4>1, <4>2, <4>3
    <3> QED BY <3>1, <3>2
  <2>2. /\ \A t, u \in Threads : sock'[t] = sock'[u] /\ sock'[t] # None => t = u
        /\ \A i \in Window' : /\ queue'[i] # None
                              /\ \A t \in Threads : sock'[t] # queue'[i]
    BY <1>1, <1>8, <1>9 DEF Owned, OneOwner
  <2> QED BY <1>8, <2>1, <2>2 DEF Owned, OneOwner
<1> QED BY <1>5, <1>6, <1>10 DEF Owned

LEMMA OwnedInsert ==
  ASSUME Kinds, Sync, Owned, alive, AddInsert
  PROVE  Owned'
<1> USE ThreadAssumption DEF Kinds, Threads
<1> DEFINE c == sock[Main]
<1>1. c \in Clients
  BY DEF Sync, AddInsert
<1>2. /\ queue' = [queue EXCEPT ![rear] = c]
      /\ sock' = [sock EXCEPT ![Main] = None]
      /\ srv' = srv /\ cpc' = cpc /\ backlog' = backlog /\ alive' = alive
  BY DEF AddInsert, clientVars
<1>3. /\ RingShape'
      /\ rear \notin Window
      /\ Window' = Window \cup {rear}
  BY WindowGrows DEF AddInsert, Owned, OneOwner
<1>4. Backlogged'
  BY <1>2 DEF Owned, Backlogged
<1>5. HandsFull'
  BY <1>2 DEF Owned, HandsFull, AddInsert, Goto
<1>6. /\ queue'[rear] = c
      /\ \A i \in Window : queue'[i] = queue[i] /\ queue[i] # c
      /\ \A t \in Threads : t # Main => sock'[t] = sock[t] /\ sock[t] # c
      /\ sock'[Main] = None
  BY <1>1, <1>2, <1>3 DEF Owned, OneOwner, Window
<1>7. OneOwner'
  <2>1. ASSUME NEW d \in Clients
        PROVE  srv'[d] = "open" <=> \/ \E t \in Threads : sock'[t] = d
                                    \/ \E i \in Window' : queue'[i] = d
    <3>1. srv[d] = "open" <=> \/ \E t \in Threads : sock[t] = d
                              \/ \E i \in Window : queue[i] = d
      BY DEF Owned, OneOwner
    <3>2. CASE d = c
      BY <1>2, <1>3, <1>6, <3>1, <3>2
    <3>3. CASE d # c
      BY <1>2, <1>3, <1>6, <3>1, <3>3
    <3> QED BY <3>2, <3>3
  <2>2. \A t, u \in Threads : sock'[t] = sock'[u] /\ sock'[t] # None => t = u
    BY <1>6 DEF Owned, OneOwner
  <2>3. \A i, j \in Window' : queue'[i] = queue'[j] => i = j
    BY <1>3, <1>6 DEF Owned, OneOwner
  <2>4. ASSUME NEW i \in Window'
        PROVE  /\ queue'[i] # None
               /\ \A t \in Threads : sock'[t] # queue'[i]
    <3>1. CASE i = rear
      <4>1. queue'[i] = c /\ c # None
        BY <1>1, <1>6, <3>1
      <4>2. \A t \in Threads : sock'[t] # c
        BY <1>1, <1>6
      <4> QED BY <4>1, <4>2
    <3>2. CASE i # rear
      <4>1. i \in Window
        BY <1>3, <3>2
      <4>2. queue[i] # None /\ \A t \in Threads : sock[t] # queue[i]
        BY <4>1 DEF Owned, OneOwner
      <4>3. queue'[i] = queue[i]
        BY <1>6, <4>1
      <4>4. \A t \in Threads : sock'[t] = sock[t] \/ sock'[t] = None
        BY <1>6
      <4> HIDE DEF Kinds, Threads
      <4> QED BY <4>2, <4>3, <4>4
    <3> QED BY <3>1, <3>2
  <2> QED BY <1>3, <2>1, <2>2, <2>3, <2>4 DEF OneOwner
<1> QED BY <1>4, <1>5, <1>7 DEF Owned

LEMMA OwnedTake ==
  ASSUME Kinds, Sync, Owned, alive, NEW w \in Workers, RemoveTake(w)
  PROVE  Owned'
<1> USE ThreadAssumption DEF Kinds, Threads
<1> DEFINE c == queue[front]
<1>1. /\ RingShape'
      /\ front \in Window
      /\ Window' = Window \ {front}
  BY WindowShrinks DEF RemoveTake, Owned, OneOwner
<1>2. c \in Clients /\ \A t \in Threads : sock[t] # c
  BY <1>1 DEF Owned, OneOwner
<1>3. /\ sock' = [sock EXCEPT ![w] = c]
      /\ queue' = queue /\ srv' = srv /\ cpc' = cpc /\ backlog' = backlog
      /\ alive' = alive
  BY DEF RemoveTake, Oldest, clientVars
<1>4. sock[w] = None
  BY DEF Sync, RemoveTake
<1>5. Backlogged'
  BY <1>3 DEF Owned, Backlogged
<1>6. HandsFull'
  BY <1>2, <1>3 DEF Owned, HandsFull, RemoveTake, Goto
<1>7. /\ sock'[w] = c
      /\ \A t \in Threads : t # w => sock'[t] = sock[t]
      /\ \A i \in Window' : queue[i] # c
  BY <1>1, <1>3 DEF Owned, OneOwner
<1>8. OneOwner'
  <2>1. ASSUME NEW d \in Clients
        PROVE  srv'[d] = "open" <=> \/ \E t \in Threads : sock'[t] = d
                                    \/ \E i \in Window' : queue'[i] = d
    <3>1. srv[d] = "open" <=> \/ \E t \in Threads : sock[t] = d
                              \/ \E i \in Window : queue[i] = d
      BY DEF Owned, OneOwner
    <3>2. CASE d = c
      BY <1>1, <1>3, <1>7, <3>1, <3>2
    <3>3. CASE d # c
      BY <1>1, <1>3, <1>4, <1>7, <3>1, <3>3
    <3> QED BY <3>2, <3>3
  <2>2. \A t, u \in Threads : sock'[t] = sock'[u] /\ sock'[t] # None => t = u
    BY <1>2, <1>7 DEF Owned, OneOwner
  <2>3. \A i, j \in Window' : queue'[i] = queue'[j] => i = j
    BY <1>1, <1>3 DEF Owned, OneOwner
  <2>4. \A i \in Window' : /\ queue'[i] # None
                           /\ \A t \in Threads : sock'[t] # queue'[i]
    BY <1>1, <1>3, <1>7 DEF Owned, OneOwner
  <2> QED BY <1>1, <2>1, <2>2, <2>3, <2>4 DEF OneOwner
<1> QED BY <1>5, <1>6, <1>8 DEF Owned

LEMMA OwnedClose ==
  ASSUME Kinds, Sync, Owned, alive, NEW w \in Workers, WorkerClose(w)
  PROVE  Owned'
<1> USE ThreadAssumption DEF Kinds, Threads
<1> DEFINE c == sock[w]
<1>1. c \in Clients /\ srv[c] = "open"
  BY DEF Owned, OneOwner, HandsFull, WorkerClose
<1>2. /\ srv' = [srv EXCEPT ![c] = "closed"]
      /\ sock' = [sock EXCEPT ![w] = None]
      /\ cpc' = cpc /\ backlog' = backlog /\ queue' = queue /\ alive' = alive
  BY DEF WorkerClose, SrvClose, ringVars
<1>3. Backlogged'
  BY <1>1, <1>2 DEF Owned, Backlogged
<1>4. HandsFull'
  BY <1>2 DEF Owned, HandsFull, WorkerClose, Goto
<1>5. RingShape' /\ Window' = Window
  BY DEF Owned, OneOwner, RingShape, Window, WorkerClose, ringVars
<1>6. /\ \A t \in Threads : sock'[t] # c
      /\ \A i \in Window : queue[i] # c
      /\ \A t \in Threads : t # w => sock'[t] = sock[t]
      /\ sock'[w] = None
  BY <1>1, <1>2 DEF Owned, OneOwner
<1>7. OneOwner'
  <2>1. ASSUME NEW d \in Clients
        PROVE  srv'[d] = "open" <=> \/ \E t \in Threads : sock'[t] = d
                                    \/ \E i \in Window' : queue'[i] = d
    <3>1. srv[d] = "open" <=> \/ \E t \in Threads : sock[t] = d
                              \/ \E i \in Window : queue[i] = d
      BY DEF Owned, OneOwner
    <3>2. CASE d = c
      BY <1>2, <1>5, <1>6, <3>2
    <3>3. CASE d # c
      BY <1>2, <1>5, <1>6, <3>1, <3>3
    <3> QED BY <3>2, <3>3
  <2> QED BY <1>2, <1>5, <1>6, <2>1 DEF Owned, OneOwner
<1> QED BY <1>3, <1>4, <1>7 DEF Owned

(* The steps of main() and of the workers that move no connection.         *)
LEMMA OwnedMain ==
  ASSUME Kinds, Sync, Owned, alive, MainStep
  PROVE  Owned'
<1> USE ThreadAssumption, OneOwnerFrame
    DEF Kinds, Threads, MainStates, WorkerStates, Owned, Backlogged,
        HandsFull, clientVars, Goto
<1>1. CASE Boot
  BY <1>1 DEF Boot, SrvListen
<1>2. CASE StartupFails
  BY <1>2, BackloggedExit, OneOwnerExit DEF StartupFails
<1>3. CASE AddLock
  BY <1>3 DEF AddLock
<1>4. CASE AddWait
  BY <1>4 DEF AddWait
<1>5. CASE AddSignal
  <2>1. HandsFull'
    BY <1>5 DEF AddSignal, Woken
  <2> QED BY <1>5, <2>1 DEF AddSignal
<1>6. CASE AddUnlock
  BY <1>6 DEF AddUnlock
<1>7. CASE \E w \in Workers : CreateWorker(w)
  BY <1>7 DEF CreateWorker
<1> QED BY <1>1, <1>2, <1>3, <1>4, <1>5, <1>6, <1>7, OwnedAccept, OwnedInsert
        DEF MainStep

LEMMA OwnedWorker ==
  ASSUME Kinds, Sync, Owned, alive, NEW w \in Workers, WorkerStep(w)
  PROVE  Owned'
<1> USE ThreadAssumption, OneOwnerFrame
    DEF Kinds, Threads, MainStates, WorkerStates, Owned, Backlogged,
        HandsFull, clientVars, Goto
<1>1. CASE RemoveLock(w)
  BY <1>1 DEF RemoveLock
<1>2. CASE RemoveWait(w)
  BY <1>2 DEF RemoveWait
<1>3. CASE RemoveSignal(w)
  <2>1. HandsFull'
    BY <1>3 DEF RemoveSignal, Woken
  <2> QED BY <1>3, <2>1 DEF RemoveSignal
<1>4. CASE RemoveUnlock(w)
  BY <1>4 DEF RemoveUnlock
<1>5. CASE WorkerRead(w)
  BY <1>5 DEF WorkerRead, SrvRead
<1>6. CASE WorkerReadEnds(w)
  BY <1>6 DEF WorkerReadEnds, SrvReadEnds
<1>7. CASE WorkerSend(w)
  BY <1>7 DEF WorkerSend, SrvSend
<1>8. CASE WorkerSendKills(w)
  BY <1>8, BackloggedExit, OneOwnerExit DEF WorkerSendKills, SrvSendKills
<1> QED BY <1>1, <1>2, <1>3, <1>4, <1>5, <1>6, <1>7, <1>8, OwnedTake,
           OwnedClose DEF WorkerStep

LEMMA OwnedSpurious ==
  ASSUME Kinds, Owned, NEW t \in Threads, SpuriousWakeup(t)
  PROVE  Owned'
<1>1. OneOwner'
  BY OneOwnerFrame DEF Owned, SpuriousWakeup, clientVars
<1>2. HandsFull'
  BY DEF Kinds, Owned, HandsFull, SpuriousWakeup, Goto
<1> QED BY <1>1, <1>2 DEF Owned, Backlogged, SpuriousWakeup, clientVars

LEMMA OwnedClient ==
  ASSUME Kinds, Owned, EnvStep
  PROVE  Owned'
<1>1. PICK c \in Clients : ClientStep(c)
  BY DEF EnvStep
<1>2. srv' = srv
  BY <1>1 DEF ClientStep, ClientProgress, Connect, CannotConnect, SendMessage,
              ReadReply, ReadEof, CloseClient, ClientKilled, Disconnect
<1>3. OneOwner'
  BY <1>2, OneOwnerFrame DEF Owned, EnvStep
<1>4. HandsFull'
  BY DEF Owned, HandsFull, EnvStep
<1> QED BY <1>1, <1>3, <1>4, BackloggedClient DEF Owned

LEMMA OwnedCorrect == Spec => []Owned
<1>1. ASSUME Kinds, Sync, Owned, [Next]_vars PROVE Owned'
  <2>1. CASE EnvStep
    BY <1>1, <2>1, OwnedClient
  <2>2. CASE ServerStep
    BY <1>1, <2>2, OwnedMain, OwnedWorker, OwnedSpurious DEF ServerStep
  <2>3. CASE UNCHANGED vars
    BY <1>1, <2>3, OneOwnerFrame
       DEF vars, clientVars, Owned, Backlogged, HandsFull
  <2> QED BY <1>1, <2>1, <2>2, <2>3 DEF Next
<1> QED BY <1>1, OwnedInit, KindsCorrect, SyncCorrect, PTL DEF Spec

(* Every accepted connection is in exactly one pair of hands, however many *)
(* workers there are and however long the ring is.                         *)
THEOREM OneOwnerCorrect == Spec => []OneOwner
<1>1. Owned => OneOwner
  BY DEF Owned
<1> QED BY <1>1, OwnedCorrect, PTL

-----------------------------------------------------------------------------
(* Layer 4: where the pieces of each message are.  EchoConservation is not *)
(* inductive: it needs to know that nothing moves before the client sends, *)
(* that a worker holds pieces only between its read() and its send(), and  *)
(* that it closes only after the client has ended.                         *)

Unsent == {"start", "send", "failed"}

PiecesOf(c) ==
  /\ cpc[c] \in Unsent => toServer[c] = 0 /\ toClient[c] = 0 /\ got[c] = 0
  /\ cpc[c] = "read" => got[c] = 0
  /\ cpc[c] = "done" => toClient[c] = 0
  /\ cpc[c] \in {"read", "close"} /\ (\A w \in Workers : sock[w] # c)
       => toServer[c] = UNITS /\ toClient[c] = 0 /\ got[c] = 0
  /\ \A w \in Workers : sock[w] = c =>
       /\ cpc[c] \in Unsent => bytes_read[w] = 0
       /\ cpc[c] \in {"read", "close"} =>
            toServer[c] + toClient[c] + got[c] + bytes_read[w] = UNITS

Pieces ==
  /\ got \in [Clients -> 0..UNITS]
  /\ toServer \in [Clients -> 0..UNITS]
  /\ toClient \in [Clients -> Nat]
  /\ reset \in SUBSET Clients
  /\ \A c \in Clients : PiecesOf(c)
  /\ \A w \in Workers :
       /\ pc[w] # "send" => bytes_read[w] = 0
       /\ pc[w] = "close" => cpc[sock[w]] = "done"

LEMMA PiecesInit == Init => Pieces
BY UnitsAssumption, ThreadAssumption
   DEF Init, ClientInit, Pieces, PiecesOf, Unsent, Threads

(* Steps that move no piece and only move workers about outside the echo   *)
(* loop.                                                                   *)
LEMMA PiecesFrame ==
  ASSUME Pieces, UNCHANGED <<cpc, got, toServer, toClient, reset, bytes_read>>,
         \A w \in Workers : /\ sock'[w] = sock[w]
                            /\ pc'[w] = "send" <=> pc[w] = "send"
                            /\ pc'[w] = "close" <=> pc[w] = "close"
  PROVE  Pieces'
BY DEF Pieces, PiecesOf

(* What waits for a client never exceeds its message.                      *)
LEMMA PiecesBound ==
  ASSUME Kinds, Pieces, NEW c \in Clients
  PROVE  toClient[c] \in 0..UNITS
<1> USE UnitsAssumption DEF Kinds, Pieces, PiecesOf, Unsent, ClientStates
<1>1. CASE cpc[c] \notin {"read", "close"}
  <2>1. toClient[c] = 0
    BY <1>1
  <2> QED BY <2>1
<1>2. CASE cpc[c] \in {"read", "close"} /\ \A w \in Workers : sock[w] # c
  <2>1. toClient[c] = 0
    BY <1>2
  <2> QED BY <2>1
<1>3. CASE cpc[c] \in {"read", "close"} /\ \E w \in Workers : sock[w] = c
  <2>1. PICK w \in Workers : sock[w] = c
    BY <1>3
  <2>2. toServer[c] + toClient[c] + got[c] + bytes_read[w] = UNITS
    BY <1>3, <2>1
  <2>3. /\ toServer[c] \in Nat /\ toClient[c] \in Nat /\ got[c] \in Nat
        /\ bytes_read[w] \in Nat
    OBVIOUS
  <2> QED BY <2>2, <2>3
<1> QED BY <1>1, <1>2, <1>3

LEMMA PiecesClient ==
  ASSUME Kinds, Owned, Pieces, NEW c \in Clients, ClientStep(c),
         UNCHANGED <<pc, sock, bytes_read>>
  PROVE  Pieces'
<1> USE UnitsAssumption DEF Kinds, Pieces, PiecesOf, Unsent
<1>1. CASE Connect(c)
  BY <1>1 DEF Connect
<1>2. CASE CannotConnect(c)
  BY <1>2 DEF CannotConnect
<1>3. CASE SendMessage(c)
  BY <1>3 DEF SendMessage
<1>4. CASE ReadReply(c)
  <2>1. PICK k \in 1..toClient[c] :
          /\ got' = [got EXCEPT ![c] = k]
          /\ toClient' = [toClient EXCEPT ![c] = @ - k]
    BY <1>4 DEF ReadReply
  <2>2. got[c] = 0 /\ toClient[c] \in 0..UNITS /\ cpc[c] = "read"
    BY <1>4, PiecesBound DEF ReadReply
  <2>3. /\ cpc' = [cpc EXCEPT ![c] = "close"]
        /\ toServer' = toServer /\ reset' = reset
    BY <1>4 DEF ReadReply
  <2>4. /\ got' \in [Clients -> 0..UNITS]
        /\ toClient' \in [Clients -> Nat]
    BY <2>1, <2>2
  <2>5. ~ \A w \in Workers : sock[w] # c
    <3> SUFFICES ASSUME \A w \in Workers : sock[w] # c PROVE FALSE
      OBVIOUS
    <3>1. toClient[c] = 0
      BY <2>2
    <3> QED BY <2>1, <3>1
  <2>6. ASSUME NEW w \in Workers, sock[w] = c
        PROVE  toServer[c] + toClient'[c] + got'[c] + bytes_read[w] = UNITS
    <3>1. toServer[c] + toClient[c] + got[c] + bytes_read[w] = UNITS
      BY <2>2, <2>6
    <3>2. toServer[c] \in Nat /\ bytes_read[w] \in Nat
      OBVIOUS
    <3> QED BY <2>1, <2>2, <3>1, <3>2
  <2>7. ASSUME NEW d \in Clients, d # c
        PROVE  /\ cpc'[d] = cpc[d]
               /\ got'[d] = got[d] /\ toClient'[d] = toClient[d]
    BY <2>1, <2>3, <2>7
  <2>8. \A w \in Workers : pc[w] = "close" => sock[w] \in Clients
    BY DEF Owned, HandsFull
  <2>9. cpc'[c] = "close"
    BY <2>3
  <2>10. \A w \in Workers : pc'[w] = "close" => cpc'[sock'[w]] = "done"
    BY <2>2, <2>3, <2>8
  <2>11. ASSUME NEW d \in Clients PROVE PiecesOf(d)'
    <3>1. CASE d = c
      <4>1. \A w \in Workers : sock'[w] = c =>
              toServer'[c] + toClient'[c] + got'[c] + bytes_read'[w] = UNITS
        BY <2>3, <2>6
      <4>2. \E w \in Workers : sock'[w] = c
        BY <2>5
      <4> QED BY <2>9, <3>1, <4>1, <4>2 DEF PiecesOf
    <3>2. CASE d # c
      BY <2>3, <2>7, <3>2 DEF PiecesOf
    <3> QED BY <3>1, <3>2
  <2> QED BY <2>3, <2>4, <2>10, <2>11
<1>5. CASE ReadEof(c)
  BY <1>5 DEF ReadEof
<1>6. CASE CloseClient(c) \/ ClientKilled(c)
  <2>1. Disconnect(c) /\ cpc[c] \in {"send", "read", "close"}
    BY <1>6 DEF CloseClient, ClientKilled
  <2>2. /\ cpc' = [cpc EXCEPT ![c] = "done"]
        /\ toClient' = [toClient EXCEPT ![c] = 0]
        /\ toServer' = toServer /\ got' = got
    BY <2>1 DEF Disconnect
  <2>3. reset' \in SUBSET Clients
    BY <2>1 DEF Disconnect
  <2>4. ASSUME NEW d \in Clients, d # c
        PROVE  cpc'[d] = cpc[d] /\ toClient'[d] = toClient[d]
    BY <2>2, <2>4
  <2>5. cpc'[c] = "done" /\ toClient'[c] = 0
    BY <2>2
  <2>6. \A w \in Workers : pc[w] = "close" => sock[w] \in Clients
    BY DEF Owned, HandsFull
  <2> QED BY <2>2, <2>3, <2>4, <2>5, <2>6
<1> QED BY <1>1, <1>2, <1>3, <1>4, <1>5, <1>6 DEF ClientStep, ClientProgress

LEMMA PiecesMain ==
  ASSUME Kinds, Sync, Owned, Pieces, MainStep
  PROVE  Pieces'
<1> USE ThreadAssumption, PiecesFrame
    DEF Kinds, Threads, MainStates, WorkerStates, clientVars, Goto
<1>1. CASE Boot
  BY <1>1 DEF Boot, SrvListen
<1>2. CASE StartupFails
  BY <1>2 DEF StartupFails, SrvExit
<1>3. CASE Accept
  BY <1>3 DEF Accept, SrvAccept
<1>4. CASE AddLock
  BY <1>4 DEF AddLock
<1>5. CASE AddWait
  BY <1>5 DEF AddWait
<1>6. CASE AddInsert
  BY <1>6 DEF AddInsert
<1>7. CASE AddSignal
  <2>1. PICK woken \in Woken(not_empty) :
          pc' = [t \in Threads |-> IF t = Main THEN "unlock"
                                   ELSE IF t \in woken THEN "lock" ELSE pc[t]]
    BY <1>7 DEF AddSignal
  <2>2. \A w \in woken : w \in Workers /\ pc[w] = "wait"
    BY <2>1 DEF Woken, Sync
  <2> QED BY <1>7, <2>1, <2>2 DEF AddSignal
<1>8. CASE AddUnlock
  BY <1>8 DEF AddUnlock
<1>9. CASE \E w \in Workers : CreateWorker(w)
  BY <1>9 DEF CreateWorker
<1> QED BY <1>1, <1>2, <1>3, <1>4, <1>5, <1>6, <1>7, <1>8, <1>9 DEF MainStep

LEMMA PiecesWorker ==
  ASSUME Kinds, Sync, Owned, Pieces, NEW w \in Workers, WorkerStep(w)
  PROVE  Pieces'
<1> USE ThreadAssumption, UnitsAssumption
    DEF Kinds, Threads, MainStates, WorkerStates, clientVars, Goto
<1>1. CASE RemoveLock(w)
  BY <1>1, PiecesFrame DEF RemoveLock
<1>2. CASE RemoveWait(w)
  BY <1>2, PiecesFrame DEF RemoveWait
<1>3. CASE RemoveTake(w)
  <2>1. /\ queue[front] \in Clients
        /\ \A v \in Workers : sock[v] # queue[front]
    BY <1>3, WindowShrinks DEF RemoveTake, Owned, OneOwner
  <2>2. bytes_read[w] = 0 /\ sock[w] = None
    BY <1>3 DEF RemoveTake, Pieces, Sync
  <2> QED BY <1>3, <2>1, <2>2 DEF RemoveTake, Oldest, Pieces, PiecesOf, Unsent
<1>4. CASE RemoveSignal(w)
  <2>1. PICK woken \in Woken(not_full) :
          pc' = [t \in Threads |-> IF t = w THEN "unlock"
                                   ELSE IF t \in woken THEN "lock" ELSE pc[t]]
    BY <1>4 DEF RemoveSignal
  <2>2. \A t \in woken : t = Main
    BY <2>1 DEF Woken
  <2> QED BY <1>4, <2>1, <2>2, PiecesFrame DEF RemoveSignal
<1>5. CASE RemoveUnlock(w)
  BY <1>5, PiecesFrame DEF RemoveUnlock
<1>6. CASE WorkerRead(w)
  <2>1. PICK c \in Clients : c = sock[w] /\ bytes_read[w] = 0
    BY <1>6 DEF WorkerRead, Owned, HandsFull, Pieces
  <2>2. \A v \in Workers : sock[v] = c <=> v = w
    BY <2>1 DEF Owned, OneOwner
  <2>3. PICK k \in 1..toServer[c] :
          /\ toServer' = [toServer EXCEPT ![c] = @ - k]
          /\ bytes_read' = [bytes_read EXCEPT ![w] = k]
    BY <1>6, <2>1 DEF WorkerRead, SrvRead
  <2>4. /\ UNCHANGED <<sock, cpc, got, toClient, reset>>
        /\ pc' = [pc EXCEPT ![w] = "send"]
    BY <1>6 DEF WorkerRead, SrvRead
  <2>5. /\ got[c] \in Nat /\ toServer[c] \in 0..UNITS /\ toClient[c] \in Nat
        /\ k \in Nat /\ toServer'[c] = toServer[c] - k /\ bytes_read'[w] = k
    BY <2>1, <2>3 DEF Pieces
  <2>6. /\ \A v \in Workers : v # w => bytes_read'[v] = bytes_read[v]
        /\ \A d \in Clients : d # c => toServer'[d] = toServer[d]
    BY <2>3 DEF Pieces
  <2>7. toServer' \in [Clients -> 0..UNITS]
    BY <2>3, <2>5 DEF Pieces
  <2>8. PiecesOf(c)
    BY DEF Pieces
  <2>9. cpc[c] \notin Unsent
    BY <2>3, <2>5, <2>8 DEF PiecesOf
  <2>10. PiecesOf(c)'
    <3>1. cpc[c] \in {"read", "close"} =>
            toServer'[c] + toClient[c] + got[c] + bytes_read'[w] = UNITS
      <4>1. cpc[c] \in {"read", "close"} =>
              toServer[c] + toClient[c] + got[c] + bytes_read[w] = UNITS
        BY <2>1, <2>8 DEF PiecesOf
      <4> HIDE DEF Kinds
      <4> QED BY <2>1, <2>5, <4>1
    <3> HIDE DEF Kinds
    <3> QED BY <2>2, <2>4, <2>8, <2>9, <3>1 DEF PiecesOf
  <2>11. \A d \in Clients \ {c} : PiecesOf(d)'
    BY <2>1, <2>2, <2>4, <2>6 DEF Pieces, PiecesOf
  <2>12. \A v \in Workers : /\ pc'[v] # "send" => bytes_read'[v] = 0
                            /\ pc'[v] = "close" => cpc'[sock'[v]] = "done"
    BY <2>4, <2>6 DEF Pieces
  <2> QED BY <2>4, <2>7, <2>10, <2>11, <2>12 DEF Pieces
<1>7. CASE WorkerReadEnds(w)
  BY <1>7 DEF WorkerReadEnds, SrvReadEnds, ReadEnds, Pieces, PiecesOf
<1>8. CASE WorkerSend(w)
  <2>1. PICK c \in Clients : c = sock[w]
    BY <1>8 DEF WorkerSend, Owned, HandsFull
  <2>2. \A v \in Workers : sock[v] = c <=> v = w
    BY <2>1 DEF Owned, OneOwner
  <2>3. /\ toClient' = [toClient EXCEPT ![c] =
                          IF cpc[c] = "done" THEN 0 ELSE @ + bytes_read[w]]
        /\ reset' \in SUBSET Clients
        /\ bytes_read' = [bytes_read EXCEPT ![w] = 0]
        /\ UNCHANGED <<sock, cpc, got, toServer>>
        /\ pc' = [pc EXCEPT ![w] = "read"]
    BY <1>8, <2>1 DEF WorkerSend, SrvSend, Pieces
  <2>4. /\ got[c] \in Nat /\ toServer[c] \in Nat /\ toClient[c] \in Nat
        /\ bytes_read[w] \in Nat
    BY DEF Pieces
  <2>5. /\ toClient'[c] = IF cpc[c] = "done" THEN 0
                          ELSE toClient[c] + bytes_read[w]
        /\ bytes_read'[w] = 0
        /\ \A v \in Workers : v # w => bytes_read'[v] = bytes_read[v]
        /\ \A d \in Clients : d # c => toClient'[d] = toClient[d]
    BY <2>3 DEF Pieces
  <2>6. toClient' \in [Clients -> Nat]
    BY <2>3, <2>4 DEF Pieces
  <2>7. PiecesOf(c)
    BY DEF Pieces
  <2>8. PiecesOf(c)'
    <3>1. cpc[c] \in {"read", "close"} =>
            toServer[c] + toClient'[c] + got[c] + bytes_read'[w] = UNITS
      <4>1. cpc[c] \in {"read", "close"} =>
              toServer[c] + toClient[c] + got[c] + bytes_read[w] = UNITS
        BY <2>1, <2>7 DEF PiecesOf
      <4> HIDE DEF Kinds
      <4> QED BY <2>4, <2>5, <4>1
    <3>2. cpc[c] \in Unsent => toClient'[c] = 0 /\ toServer[c] = 0 /\ got[c] = 0
      BY <2>1, <2>5, <2>7 DEF PiecesOf, Unsent
    <3> HIDE DEF Kinds
    <3> QED BY <2>2, <2>3, <2>5, <2>7, <3>1, <3>2 DEF PiecesOf
  <2>9. \A d \in Clients \ {c} : PiecesOf(d)'
    BY <2>1, <2>2, <2>3, <2>5 DEF Pieces, PiecesOf
  <2>10. \A v \in Workers : /\ pc'[v] # "send" => bytes_read'[v] = 0
                            /\ pc'[v] = "close" => cpc'[sock'[v]] = "done"
    BY <2>3, <2>5 DEF Pieces
  <2> QED BY <2>3, <2>6, <2>8, <2>9, <2>10 DEF Pieces
<1>9. CASE WorkerSendKills(w)
  BY <1>9, PiecesFrame DEF WorkerSendKills, SrvSendKills, SrvExit
<1>10. CASE WorkerClose(w)
  <2>1. sock[w] \in Clients /\ cpc[sock[w]] = "done"
    BY <1>10 DEF WorkerClose, Owned, HandsFull, Pieces
  <2>2. /\ sock' = [sock EXCEPT ![w] = None]
        /\ pc' = [pc EXCEPT ![w] = "lock"]
        /\ UNCHANGED <<cpc, got, toServer, toClient, reset, bytes_read>>
    BY <1>10 DEF WorkerClose, SrvClose
  <2>3. bytes_read[w] = 0
    BY <1>10 DEF WorkerClose, Pieces
  <2>4. \A v \in Workers : v # w => sock'[v] = sock[v] /\ pc'[v] = pc[v]
    BY <2>2
  <2>5. sock'[w] = None /\ pc'[w] = "lock"
    BY <2>2
  <2> QED BY <2>1, <2>2, <2>3, <2>4, <2>5 DEF Pieces, PiecesOf, Unsent
<1> QED BY <1>1, <1>2, <1>3, <1>4, <1>5, <1>6, <1>7, <1>8, <1>9, <1>10
        DEF WorkerStep

LEMMA PiecesSpurious ==
  ASSUME Kinds, Sync, Pieces, NEW t \in Threads, SpuriousWakeup(t)
  PROVE  Pieces'
<1>1. \A w \in Workers : /\ sock'[w] = sock[w]
                         /\ pc'[w] = "send" <=> pc[w] = "send"
                         /\ pc'[w] = "close" <=> pc[w] = "close"
  BY ThreadAssumption DEF SpuriousWakeup, Kinds, Sync, Threads, Goto
<1> QED BY <1>1, PiecesFrame DEF SpuriousWakeup, clientVars

LEMMA PiecesCorrect == Spec => []Pieces
<1>1. ASSUME Kinds, Sync, Owned, Pieces, [Next]_vars PROVE Pieces'
  <2>1. CASE EnvStep
    BY <1>1, <2>1, PiecesClient DEF EnvStep
  <2>2. CASE ServerStep
    BY <1>1, <2>2, PiecesMain, PiecesWorker, PiecesSpurious DEF ServerStep
  <2>3. CASE UNCHANGED vars
    BY <1>1, <2>3, PiecesFrame DEF vars, clientVars
  <2> QED BY <1>1, <2>1, <2>2, <2>3 DEF Next
<1> QED BY <1>1, PiecesInit, KindsCorrect, SyncCorrect, OwnedCorrect, PTL
        DEF Spec

(* No piece of a message is lost, duplicated or sent to another client,    *)
(* whatever number of reads it arrives in.                                 *)
THEOREM EchoConservationCorrect == Spec => []EchoConservation
<1>1. Kinds /\ Owned /\ Pieces => EchoConservation
  <2> SUFFICES ASSUME Kinds, Owned, Pieces, NEW c \in Clients,
                      cpc[c] \in {"read", "close"}
               PROVE  LET held == toServer[c] + toClient[c] + got[c] IN
                      IF \E w \in Workers : sock[w] = c
                      THEN \E w \in Workers :
                             sock[w] = c /\ held + bytes_read[w] = UNITS
                      ELSE held = UNITS /\ toServer[c] = UNITS
    BY DEF EchoConservation
  <2>1. CASE \E w \in Workers : sock[w] = c
    BY <2>1 DEF Pieces, PiecesOf
  <2>2. CASE \A w \in Workers : sock[w] # c
    BY <2>2, UnitsAssumption DEF Pieces, PiecesOf
  <2> QED BY <2>1, <2>2
<1> QED BY <1>1, KindsCorrect, OwnedCorrect, PiecesCorrect, PTL

(* Type correctness of the whole state, the counts of pieces included.     *)
THEOREM TypeCorrect == Spec => []TypeOK
<1>1. Kinds /\ Pieces => TypeOK
  <2> SUFFICES ASSUME Kinds, Pieces PROVE TypeOK
    OBVIOUS
  <2>1. \A c \in Clients : toClient[c] \in 0..UNITS
    BY PiecesBound
  <2>2. toClient \in [Clients -> 0..UNITS]
    BY <2>1 DEF Pieces
  <2> QED BY <2>2 DEF Kinds, Pieces, TypeOK, ClientTypeOK
<1> QED BY <1>1, KindsCorrect, PiecesCorrect, PTL

-----------------------------------------------------------------------------
(* Layer 5: what a reset costs.  A connection is reset only after its      *)
(* client has ended with a piece unread, and what is left to read is less  *)
(* by that piece; so a second send(), the one that kills, needs another    *)
(* piece to have been read.                                                *)

ResetsOf(c) ==
  /\ c \in reset => cpc[c] = "done" /\ got[c] + toServer[c] < UNITS
  /\ cpc[c] = "done" => got[c] + toServer[c] <= UNITS
  /\ \A w \in Workers : sock[w] = c =>
       /\ c \in reset => got[c] + toServer[c] + bytes_read[w] < UNITS
       /\ cpc[c] = "done" => got[c] + toServer[c] + bytes_read[w] <= UNITS

Resets ==
  /\ \A c \in Clients : ResetsOf(c)
  /\ \A w \in Workers : pc[w] = "send" => bytes_read[w] > 0
  /\ KilledByEarlyCloseOnly

LEMMA ResetsInit == Init => Resets
BY ThreadAssumption
   DEF Init, ClientInit, Resets, ResetsOf, KilledByEarlyCloseOnly, Threads

LEMMA ResetsFrame ==
  ASSUME Resets, UNCHANGED <<cpc, got, toServer, reset, bytes_read, alive>>,
         pc'[Main] \in {"boot", "create"} \/ pc[Main] \notin {"boot", "create"}
           \/ alive,
         \A w \in Workers : /\ sock'[w] = sock[w]
                            /\ pc'[w] = "send" => pc[w] = "send"
  PROVE  Resets'
BY DEF Resets, ResetsOf, KilledByEarlyCloseOnly

LEMMA ResetsClient ==
  ASSUME Kinds, Owned, Pieces, Resets, NEW c \in Clients, ClientStep(c),
         UNCHANGED <<pc, sock, bytes_read, alive>>
  PROVE  Resets'
<1> USE UnitsAssumption DEF Kinds, Pieces, Resets, ResetsOf,
        KilledByEarlyCloseOnly
<1>1. CASE Connect(c)
  BY <1>1 DEF Connect
<1>2. CASE CannotConnect(c)
  BY <1>2 DEF CannotConnect
<1>3. CASE SendMessage(c)
  BY <1>3 DEF SendMessage
<1>4. CASE ReadReply(c)
  BY <1>4 DEF ReadReply
<1>5. CASE ReadEof(c)
  BY <1>5 DEF ReadEof
<1>6. CASE CloseClient(c) \/ ClientKilled(c)
  <2>1. Disconnect(c) /\ cpc[c] \in {"send", "read", "close"}
    BY <1>6 DEF CloseClient, ClientKilled
  <2>2. /\ cpc' = [cpc EXCEPT ![c] = "done"]
        /\ toServer' = toServer /\ got' = got
        /\ reset' = IF toClient[c] > 0 THEN reset \cup {c} ELSE reset
    BY <2>1 DEF Disconnect
  <2>3. c \notin reset
    BY <2>1
  <2>4. /\ got[c] \in Nat /\ toServer[c] \in Nat /\ toClient[c] \in Nat
        /\ \A w \in Workers : bytes_read[w] \in Nat
    OBVIOUS
  <2>5. ASSUME NEW w \in Workers, sock[w] = c
        PROVE  got[c] + toServer[c] + bytes_read[w] + toClient[c] <= UNITS
    <3>1. CASE cpc[c] = "send"
      BY <2>4, <2>5, <3>1 DEF PiecesOf, Unsent
    <3>2. CASE cpc[c] \in {"read", "close"}
      BY <2>4, <2>5, <3>2 DEF PiecesOf
    <3> QED BY <2>1, <3>1, <3>2
  <2>6. got[c] + toServer[c] + toClient[c] <= UNITS
    <3>1. CASE \E w \in Workers : sock[w] = c
      BY <2>4, <2>5, <3>1
    <3>2. CASE cpc[c] = "send"
      BY <2>4, <3>2 DEF PiecesOf, Unsent
    <3>3. CASE cpc[c] \in {"read", "close"} /\ \A w \in Workers : sock[w] # c
      <4>1. toServer[c] = UNITS /\ toClient[c] = 0 /\ got[c] = 0
        BY <3>3 DEF PiecesOf
      <4> QED BY <4>1
    <3> QED BY <2>1, <3>1, <3>2, <3>3
  <2>7. ResetsOf(c)'
    BY <2>2, <2>3, <2>4, <2>5, <2>6
  <2>8. ASSUME NEW d \in Clients, d # c PROVE ResetsOf(d)'
    BY <2>2, <2>8
  <2> HIDE DEF ResetsOf
  <2> QED BY <2>2, <2>7, <2>8
<1> QED BY <1>1, <1>2, <1>3, <1>4, <1>5, <1>6 DEF ClientStep, ClientProgress

LEMMA ResetsMain ==
  ASSUME Kinds, Sync, Owned, Pieces, Resets, alive, MainStep
  PROVE  Resets'
<1> USE ThreadAssumption, ResetsFrame
    DEF Kinds, Threads, MainStates, WorkerStates, clientVars, Goto
<1>1. CASE Boot
  BY <1>1 DEF Boot, SrvListen
<1>2. CASE StartupFails
  BY <1>2 DEF StartupFails, SrvExit, Resets, ResetsOf, KilledByEarlyCloseOnly
<1>3. CASE Accept
  BY <1>3 DEF Accept, SrvAccept
<1>4. CASE AddLock
  BY <1>4 DEF AddLock
<1>5. CASE AddWait
  BY <1>5 DEF AddWait
<1>6. CASE AddInsert
  BY <1>6 DEF AddInsert
<1>7. CASE AddSignal
  BY <1>7 DEF AddSignal
<1>8. CASE AddUnlock
  BY <1>8 DEF AddUnlock
<1>9. CASE \E w \in Workers : CreateWorker(w)
  BY <1>9 DEF CreateWorker
<1> QED BY <1>1, <1>2, <1>3, <1>4, <1>5, <1>6, <1>7, <1>8, <1>9 DEF MainStep

LEMMA ResetsWorker ==
  ASSUME Kinds, Sync, Owned, Pieces, Resets, alive,
         NEW w \in Workers, WorkerStep(w)
  PROVE  Resets'
<1> USE ThreadAssumption, UnitsAssumption
    DEF Kinds, Threads, MainStates, WorkerStates, clientVars, Goto
<1>1. CASE \/ RemoveLock(w) \/ RemoveWait(w) \/ RemoveSignal(w)
           \/ RemoveUnlock(w) \/ WorkerReadEnds(w)
  BY <1>1, ResetsFrame
     DEF RemoveLock, RemoveWait, RemoveSignal, RemoveUnlock, WorkerReadEnds,
         SrvReadEnds
<1>2. CASE RemoveTake(w)
  <2>1. bytes_read[w] = 0 /\ sock'[w] = queue[front] /\ queue[front] \in Clients
    BY <1>2, WindowShrinks
       DEF RemoveTake, Oldest, Pieces, Owned, OneOwner
  <2>2. /\ \A v \in Workers \ {w} : sock'[v] = sock[v] /\ pc'[v] = pc[v]
        /\ pc'[w] = "signal" /\ pc'[Main] = pc[Main]
        /\ UNCHANGED <<clientVars, bytes_read, alive>>
    BY <1>2 DEF RemoveTake
  <2>3. \A c \in Clients : got[c] \in Nat /\ toServer[c] \in Nat
    <3>1. got \in [Clients -> 0..UNITS] /\ toServer \in [Clients -> 0..UNITS]
      BY DEF Pieces
    <3> HIDE DEF Kinds
    <3> QED BY <3>1
  <2>4. ASSUME NEW c \in Clients PROVE ResetsOf(c)'
    <3>1. ResetsOf(c)
      BY DEF Resets
    <3>2. /\ got[c] + toServer[c] + bytes_read[w] = got[c] + toServer[c]
          /\ UNCHANGED <<cpc, got, toServer, reset, bytes_read>>
      BY <2>1, <2>2, <2>3
    <3>3. ASSUME NEW v \in Workers, sock'[v] = c
          PROVE  /\ c \in reset =>
                      got[c] + toServer[c] + bytes_read[v] < UNITS
                 /\ cpc[c] = "done" =>
                      got[c] + toServer[c] + bytes_read[v] <= UNITS
      <4>1. CASE v = w
        BY <3>1, <3>2, <4>1 DEF ResetsOf
      <4>2. CASE v # w
        BY <2>2, <3>1, <3>3, <4>2 DEF ResetsOf
      <4> QED BY <4>1, <4>2
    <3> QED BY <3>1, <3>2, <3>3 DEF ResetsOf
  <2>5. /\ \A v \in Workers : pc'[v] = "send" => bytes_read'[v] > 0
        /\ KilledByEarlyCloseOnly'
    BY <2>2 DEF Resets, KilledByEarlyCloseOnly
  <2> QED BY <2>4, <2>5 DEF Resets
<1>3. CASE WorkerRead(w)
  <2>1. PICK c \in Clients : c = sock[w] /\ bytes_read[w] = 0
    BY <1>3 DEF WorkerRead, Owned, HandsFull, Pieces
  <2>2. \A v \in Workers : v # w => sock[v] # c
    BY <2>1 DEF Owned, OneOwner
  <2>3. PICK k \in 1..toServer[c] :
          /\ toServer' = [toServer EXCEPT ![c] = @ - k]
          /\ bytes_read' = [bytes_read EXCEPT ![w] = k]
    BY <1>3, <2>1 DEF WorkerRead, SrvRead
  <2>4. /\ UNCHANGED <<sock, cpc, got, reset, alive>>
        /\ pc' = [pc EXCEPT ![w] = "send"]
    BY <1>3 DEF WorkerRead, SrvRead
  <2>5. /\ got[c] \in Nat /\ toServer[c] \in Nat /\ k \in Nat /\ k > 0
        /\ toServer'[c] = toServer[c] - k /\ bytes_read'[w] = k
    BY <2>1, <2>3 DEF Pieces
  <2>6. /\ \A v \in Workers : v # w => bytes_read'[v] = bytes_read[v]
        /\ \A d \in Clients : d # c => toServer'[d] = toServer[d]
    BY <2>3 DEF Pieces
  <2>7. ResetsOf(c)'
    <3>1. ResetsOf(c)
      BY <2>1 DEF Resets
    <3>3. \A v \in Workers : sock'[v] = c => v = w
      BY <2>2, <2>4
    <3>4. c \in reset => /\ cpc[c] = "done"
                         /\ got[c] + toServer[c] < UNITS
      BY <3>1 DEF ResetsOf
    <3>5. cpc[c] = "done" => got[c] + toServer[c] <= UNITS
      BY <3>1 DEF ResetsOf
    <3>6. got[c] + toServer'[c] + bytes_read'[w] = got[c] + toServer[c]
      BY <2>5
    <3>7. got[c] + toServer'[c] < got[c] + toServer[c]
      BY <2>5
    <3>8. /\ c \in reset' => /\ cpc'[c] = "done"
                             /\ got'[c] + toServer'[c] < UNITS
          /\ cpc'[c] = "done" => got'[c] + toServer'[c] <= UNITS
      BY <2>4, <2>5, <3>4, <3>5, <3>7
    <3>9. \A v \in Workers : sock'[v] = c =>
            /\ c \in reset' => got'[c] + toServer'[c] + bytes_read'[v] < UNITS
            /\ cpc'[c] = "done" =>
                 got'[c] + toServer'[c] + bytes_read'[v] <= UNITS
      BY <2>4, <3>3, <3>4, <3>5, <3>6
    <3> QED BY <3>8, <3>9 DEF ResetsOf
  <2>8. \A d \in Clients \ {c} : ResetsOf(d)'
    BY <2>1, <2>2, <2>4, <2>6 DEF Resets, ResetsOf
  <2>9. \A v \in Workers : pc'[v] = "send" => bytes_read'[v] > 0
    BY <2>4, <2>5, <2>6 DEF Resets
  <2>10. KilledByEarlyCloseOnly'
    BY <2>4 DEF Resets, KilledByEarlyCloseOnly
  <2> QED BY <2>7, <2>8, <2>9, <2>10 DEF Resets
<1>4. CASE WorkerSend(w)
  <2>1. PICK c \in Clients : c = sock[w]
    BY <1>4 DEF WorkerSend, Owned, HandsFull
  <2>2. \A v \in Workers : v # w => sock[v] # c
    BY <2>1 DEF Owned, OneOwner
  <2>3. /\ bytes_read' = [bytes_read EXCEPT ![w] = 0]
        /\ reset' = IF cpc[c] = "done" THEN reset \cup {c} ELSE reset
        /\ c \notin reset
        /\ UNCHANGED <<cpc, got, toServer, sock, alive>>
        /\ pc' = [pc EXCEPT ![w] = "read"]
        /\ pc[w] = "send"
    BY <1>4, <2>1 DEF WorkerSend, SrvSend
  <2>4. /\ got[c] \in Nat /\ toServer[c] \in Nat /\ bytes_read[w] \in Nat
        /\ bytes_read[w] > 0
    BY <2>3 DEF Pieces, Resets
  <2>5. cpc[c] = "done" =>
          got[c] + toServer[c] + bytes_read[w] <= UNITS
    BY <2>1 DEF Resets, ResetsOf
  <2>6. cpc[c] = "done" => got[c] + toServer[c] < UNITS
    BY <2>4, <2>5
  <2>7. ResetsOf(c)'
    BY <2>2, <2>3, <2>4, <2>6 DEF ResetsOf
  <2>8. \A d \in Clients \ {c} : ResetsOf(d)'
    BY <2>1, <2>2, <2>3 DEF Resets, ResetsOf
  <2>9. /\ \A v \in Workers : pc'[v] = "send" => bytes_read'[v] > 0
        /\ KilledByEarlyCloseOnly'
    BY <2>3 DEF Resets, KilledByEarlyCloseOnly
  <2> QED BY <2>7, <2>8, <2>9 DEF Resets
<1>5. CASE WorkerSendKills(w)
  <2>1. PICK c \in Clients : c = sock[w]
    BY <1>5 DEF WorkerSendKills, Owned, HandsFull
  <2>2. /\ c \in reset /\ pc[w] = "send"
        /\ UNCHANGED <<cpc, got, toServer, reset, pc, sock, bytes_read>>
    BY <1>5, <2>1 DEF WorkerSendKills, SrvSendKills, SrvExit
  <2>3. /\ got[c] \in Nat /\ toServer[c] \in Nat /\ bytes_read[w] \in Nat
        /\ bytes_read[w] > 0
        /\ cpc[c] = "done"
        /\ got[c] + toServer[c] + bytes_read[w] < UNITS
    BY <2>1, <2>2 DEF Pieces, Resets, ResetsOf
  <2>4. UNITS >= 2 /\ got[c] < UNITS
    BY <2>3
  <2>5. KilledByEarlyCloseOnly'
    BY <2>2, <2>3, <2>4 DEF KilledByEarlyCloseOnly
  <2> QED BY <2>2, <2>5 DEF Resets, ResetsOf
<1>6. CASE WorkerClose(w)
  BY <1>6 DEF WorkerClose, SrvClose, Resets, ResetsOf, KilledByEarlyCloseOnly
<1> QED BY <1>1, <1>2, <1>3, <1>4, <1>5, <1>6 DEF WorkerStep

LEMMA ResetsSpurious ==
  ASSUME Kinds, Sync, Resets, alive, NEW t \in Threads, SpuriousWakeup(t)
  PROVE  Resets'
BY ResetsFrame, ThreadAssumption
   DEF SpuriousWakeup, Kinds, Threads, Goto, clientVars

(* A client that reads its whole reply never ends the server: SIGPIPE      *)
(* needs one that left early and a message that arrived in pieces.         *)
THEOREM KilledByEarlyCloseOnlyCorrect == Spec => []KilledByEarlyCloseOnly
<1>1. ASSUME Kinds, Sync, Owned, Pieces, Resets, [Next]_vars PROVE Resets'
  <2>1. CASE EnvStep
    BY <1>1, <2>1, ResetsClient DEF EnvStep
  <2>2. CASE ServerStep
    BY <1>1, <2>2, ResetsMain, ResetsWorker, ResetsSpurious DEF ServerStep
  <2>3. CASE UNCHANGED vars
    BY <1>1, <2>3
       DEF vars, clientVars, Resets, ResetsOf, KilledByEarlyCloseOnly
  <2> QED BY <1>1, <2>1, <2>2, <2>3 DEF Next
<1>2. Resets => KilledByEarlyCloseOnly
  BY DEF Resets
<1> QED BY <1>1, <1>2, ResetsInit, KindsCorrect, SyncCorrect, OwnedCorrect,
           PiecesCorrect, PTL DEF Spec

-----------------------------------------------------------------------------
(* Layer 6: the ring, its lock and its condition variables implement the   *)
(* bounded first-in first-out hand-off of HandoffQueue.  AddInsert is its  *)
(* Put, RemoveTake its Take, WorkerClose its Finish, and every other step  *)
(* of threads, clients and kernel is invisible to it.                      *)

(* The refinement mapping of ServerQueue, with names.                      *)
SlotAt(f, i) == (f + i - 1) % QUEUE_SIZE
RingSeq(q, f, n) == [i \in 1..n |-> q[SlotAt(f, i)]]
Waiting == RingSeq(queue, front, count)
Serving == [w \in Workers |-> sock[w]]
Finished == {c \in Clients : srv[c] = "closed"}
Pending == {c \in Clients :
              /\ srv[c] # "closed"
              /\ \A w \in Workers : sock[w] # c
              /\ \A i \in Window : queue[i] # c}

-----------------------------------------------------------------------------
(* The ring as a sequence.                                                 *)

LEMMA ModFact ==
  ASSUME NEW x \in 0..(2 * QUEUE_SIZE - 1)
  PROVE  x % QUEUE_SIZE = IF x < QUEUE_SIZE THEN x ELSE x - QUEUE_SIZE
<1>1. CASE x < QUEUE_SIZE
  BY <1>1, QueueAssumption
<1>2. CASE x >= QUEUE_SIZE
  <2>1. PICK y \in 0..(QUEUE_SIZE - 1) : x = y + QUEUE_SIZE
    BY <1>2, QueueAssumption
  <2>2. (y + QUEUE_SIZE) % QUEUE_SIZE = y
    BY QueueAssumption, SMTT(60)
  <2> QED BY <1>2, <2>1, <2>2, QueueAssumption
<1> QED BY <1>1, <1>2, QueueAssumption

LEMMA SlotAtFact ==
  ASSUME NEW f \in Slots, NEW n \in 0..QUEUE_SIZE, NEW i \in 1..n
  PROVE  /\ SlotAt(f, i) \in Slots
         /\ SlotAt(f, i) = IF f + i - 1 < QUEUE_SIZE THEN f + i - 1
                           ELSE f + i - 1 - QUEUE_SIZE
<1>1. f + i - 1 \in 0..(2 * QUEUE_SIZE - 1)
  BY QueueAssumption DEF Slots
<1> QED BY <1>1, ModFact, QueueAssumption DEF Slots, SlotAt

(* What RingSeq(q, f, n) is, element by element.                           *)
RingShapeOf(s, S, q, f, n) ==
  /\ s \in Seq(S)
  /\ Len(s) = n
  /\ \A i \in 1..n : s[i] = q[SlotAt(f, i)]

LEMMA RingSeqShape ==
  ASSUME NEW S, NEW q \in [Slots -> S], NEW f \in Slots,
         NEW n \in 0..QUEUE_SIZE
  PROVE  RingShapeOf(RingSeq(q, f, n), S, q, f, n)
<1>1. \A i \in 1..n : q[SlotAt(f, i)] \in S
  BY SlotAtFact
<1>2. n \in Nat
  BY QueueAssumption
<1> QED BY <1>1, <1>2 DEF RingSeq, RingShapeOf

(* Putting c in slot r, the one after the window, appends it.              *)
Appends(q, f, n, p, m, c) == RingSeq(p, f, m) = Append(RingSeq(q, f, n), c)

LEMMA RingSeqAppend ==
  ASSUME NEW S, NEW q \in [Slots -> S], NEW f \in Slots,
         NEW n \in 0..QUEUE_SIZE,
         NEW r \in Slots, r = f + n \/ r + QUEUE_SIZE = f + n,
         NEW c \in S,
         NEW p \in [Slots -> S], p = [q EXCEPT ![r] = c],
         NEW m \in 0..QUEUE_SIZE, m = n + 1
  PROVE  Appends(q, f, n, p, m, c)
<1> DEFINE new == RingSeq(p, f, m)
           old == RingSeq(q, f, n)
<1>1. RingShapeOf(new, S, p, f, m) /\ RingShapeOf(old, S, q, f, n)
  BY RingSeqShape
<1> HIDE DEF new, old
<1>2. n \in Nat /\ QUEUE_SIZE \in Nat \ {0}
  BY QueueAssumption
<1>3. /\ Append(old, c) \in Seq(S) /\ Len(Append(old, c)) = m
      /\ \A i \in 1..n : Append(old, c)[i] = old[i]
      /\ Append(old, c)[m] = c
  BY <1>1, <1>2 DEF RingShapeOf
<1>4. SlotAt(f, m) = r
  <2>1. m \in 1..m
    BY <1>2
  <2>2. SlotAt(f, m) = IF f + m - 1 < QUEUE_SIZE THEN f + m - 1
                       ELSE f + m - 1 - QUEUE_SIZE
    BY <2>1, SlotAtFact
  <2> QED BY <1>2, <2>2 DEF Slots
<1>5. ASSUME NEW i \in 1..n
      PROVE  new[i] = old[i]
  <2>1. SlotAt(f, i) \in Slots /\ SlotAt(f, i) # r
    BY <1>2, SlotAtFact DEF Slots
  <2>2. p[SlotAt(f, i)] = q[SlotAt(f, i)]
    BY <2>1
  <2>3. i \in 1..m
    BY <1>2
  <2> QED BY <1>1, <2>2, <2>3 DEF RingShapeOf
<1>6. new[m] = c
  BY <1>1, <1>2, <1>4 DEF RingShapeOf
<1>7. new \in Seq(S) /\ Len(new) = m
  BY <1>1 DEF RingShapeOf
<1>8. \A i \in 1..Len(new) : new[i] = Append(old, c)[i]
  BY <1>2, <1>3, <1>5, <1>6, <1>7
<1>9. new = Append(old, c)
  BY <1>3, <1>7, <1>8, SeqEqual
<1> QED BY <1>9 DEF new, old, Appends

(* Moving front to g, past its slot, takes the head.                       *)
TakesHead(q, f, n, g, m) ==
  /\ RingSeq(q, f, n) # <<>>
  /\ Head(RingSeq(q, f, n)) = q[f]
  /\ RingSeq(q, g, m) = Tail(RingSeq(q, f, n))

LEMMA RingSeqTail ==
  ASSUME NEW S, NEW q \in [Slots -> S], NEW f \in Slots,
         NEW n \in 0..QUEUE_SIZE,
         NEW g \in Slots, g = NextSlot(f),
         NEW m \in 0..QUEUE_SIZE, m = n - 1
  PROVE  TakesHead(q, f, n, g, m)
<1> DEFINE new == RingSeq(q, g, m)
           old == RingSeq(q, f, n)
<1>1. RingShapeOf(new, S, q, g, m) /\ RingShapeOf(old, S, q, f, n)
  BY RingSeqShape
<1> HIDE DEF new, old
<1>2. n \in Nat \ {0} /\ m \in Nat /\ QUEUE_SIZE \in Nat \ {0}
  BY QueueAssumption
<1>3. g = IF f + 1 = QUEUE_SIZE THEN 0 ELSE f + 1
  BY NextSlotFact
<1>4. old # <<>>
  BY <1>1, <1>2 DEF RingShapeOf
<1>5. Head(old) = q[f]
  <2>1. SlotAt(f, 1) = f
    BY <1>2, SlotAtFact DEF Slots
  <2>2. old[1] = q[f]
    BY <1>1, <1>2, <2>1 DEF RingShapeOf
  <2> QED BY <1>1, <1>4, <2>2 DEF RingShapeOf
<1>6. /\ Tail(old) \in Seq(S) /\ Len(Tail(old)) = m
      /\ \A i \in 1..m : Tail(old)[i] = old[i + 1]
  BY <1>1, <1>2, <1>4, HeadTailProperties DEF RingShapeOf
<1>7. ASSUME NEW i \in 1..m
      PROVE  new[i] = Tail(old)[i]
  <2>1. i + 1 \in 1..n
    BY <1>2
  <2>2. SlotAt(g, i) = SlotAt(f, i + 1)
    <3>1. SlotAt(g, i) = IF g + i - 1 < QUEUE_SIZE THEN g + i - 1
                         ELSE g + i - 1 - QUEUE_SIZE
      BY SlotAtFact
    <3>2. SlotAt(f, i + 1) =
            IF f + (i + 1) - 1 < QUEUE_SIZE THEN f + (i + 1) - 1
            ELSE f + (i + 1) - 1 - QUEUE_SIZE
      BY <2>1, SlotAtFact
    <3> QED BY <1>2, <1>3, <3>1, <3>2 DEF Slots
  <2> QED BY <1>1, <1>6, <2>1, <2>2 DEF RingShapeOf
<1>8. new \in Seq(S) /\ Len(new) = m
  BY <1>1 DEF RingShapeOf
<1>9. \A i \in 1..Len(new) : new[i] = Tail(old)[i]
  BY <1>7, <1>8
<1>10. new = Tail(old)
  BY <1>6, <1>8, <1>9, SeqEqual
<1> QED BY <1>4, <1>5, <1>10 DEF new, old, TakesHead

-----------------------------------------------------------------------------
(* The steps.                                                              *)

(* The abstract state is the refinement mapping's, by name.                *)
LEMMA MapInit ==
  ASSUME Pending = Clients, Waiting = <<>>, Finished = {},
         Serving = [w \in Workers |-> None]
  PROVE  Handoff!Init
BY DEF Handoff!Init, Pending, Waiting, Finished, Serving, RingSeq, SlotAt

LEMMA MapStutter ==
  ASSUME UNCHANGED <<Pending, Waiting, Serving, Finished>>
  PROVE  UNCHANGED Handoff!vars
BY DEF Handoff!vars, Pending, Waiting, Finished, Serving, RingSeq, SlotAt

LEMMA HandoffInit == Init => Handoff!Init
<1> SUFFICES ASSUME Init PROVE Handoff!Init
  OBVIOUS
<1>1. count = 0 /\ front = 0 /\ \A c \in Clients : srv[c] = "none"
  BY DEF Init, ClientInit
<1>2. \A w \in Workers : sock[w] = None
  BY DEF Init, Threads
<1>3. Window = {}
  BY <1>1, QueueAssumption DEF Window, Slots
<1>4. Pending = Clients
  BY <1>1, <1>2, <1>3, ThreadAssumption DEF Pending
<1>5. Waiting = <<>>
  BY <1>1 DEF Waiting, RingSeq, SlotAt
<1>6. Finished = {} /\ Serving = [w \in Workers |-> None]
  BY <1>1, <1>2 DEF Finished, Serving
<1> QED BY <1>4, <1>5, <1>6, MapInit

(* A step that leaves the ring, the workers' hands and the set of closed   *)
(* connections alone is invisible.                                         *)
LEMMA Invisible ==
  ASSUME UNCHANGED ringVars,
         \A w \in Workers : sock'[w] = sock[w],
         \A c \in Clients : srv'[c] = "closed" <=> srv[c] = "closed"
  PROVE  UNCHANGED Handoff!vars
<1>1. Window' = Window /\ queue' = queue
  BY DEF Window, ringVars
<1>2. Pending' = Pending
  BY <1>1 DEF Pending
<1>3. Waiting' = Waiting
  BY DEF Waiting, ringVars
<1>4. Serving' = Serving /\ Finished' = Finished
  BY DEF Serving, Finished
<1> QED BY <1>2, <1>3, <1>4, MapStutter

(* What the end of the process closes is not counted as served.            *)
LEMMA ExitClosesNothing ==
  ASSUME Kinds, Owned, SrvExit
  PROVE  \A c \in Clients : srv'[c] = "closed" <=> srv[c] = "closed"
<1> SUFFICES ASSUME NEW c \in Clients
             PROVE  srv'[c] = "closed" <=> srv[c] = "closed"
  OBVIOUS
<1>1. \A i \in 1..Len(backlog) : backlog[i] = c => srv[c] = "none"
  BY DEF Owned, Backlogged
<1> QED BY <1>1 DEF SrvExit, Kinds

LEMMA InsertIsPut ==
  ASSUME Kinds, Sync, Owned, alive, AddInsert
  PROVE  \E c \in Clients : Handoff!Put(c)
<1> USE ThreadAssumption DEF Kinds, Threads
<1>1. PICK c \in Clients : c = sock[Main]
  BY DEF AddInsert, Sync
<1>2. /\ count # QUEUE_SIZE /\ count' = count + 1
      /\ queue' = [queue EXCEPT ![rear] = c] /\ front' = front
      /\ UNCHANGED srv
      /\ \A w \in Workers : sock'[w] = sock[w]
  BY <1>1 DEF AddInsert, Full, clientVars
<1>3. rear \notin Window /\ Window' = Window \cup {rear}
  BY WindowGrows DEF AddInsert, Owned, OneOwner
<1>4. Window \subseteq Slots
  BY DEF Window
<1>5. c \in Pending
  BY <1>1, <1>4 DEF Pending, Owned, OneOwner
<1>6. Pending' = Pending \ {c}
  <2>1. \A d \in Clients :
          (\A i \in Window' : queue'[i] # d)
            <=> (\A i \in Window : queue[i] # d) /\ d # c
    BY <1>2, <1>3, <1>4
  <2> QED BY <1>2, <2>1 DEF Pending
<1>7. rear = front + count \/ rear + QUEUE_SIZE = front + count
  BY DEF Owned, OneOwner, RingShape
<1>8. Waiting' = Append(Waiting, c)
  <2> DEFINE S == Clients \cup {None}
  <2>0. /\ queue \in [Slots -> S] /\ c \in S
        /\ front \in Slots /\ rear \in Slots /\ count \in 0..QUEUE_SIZE
        /\ queue' \in [Slots -> S] /\ count' \in 0..QUEUE_SIZE
    BY <1>2, QueueAssumption
  <2> HIDE DEF S, Kinds
  <2>1. Appends(queue, front, count, queue', count', c)
    BY <1>2, <1>7, <2>0, RingSeqAppend
  <2> QED BY <1>2, <2>1 DEF Waiting, Appends
<1>9. Len(Waiting) = count
  <2> DEFINE S == Clients \cup {None}
  <2>1. queue \in [Slots -> S] /\ front \in Slots /\ count \in 0..QUEUE_SIZE
    OBVIOUS
  <2> HIDE DEF S, Kinds
  <2>2. RingShapeOf(RingSeq(queue, front, count), S, queue, front, count)
    BY <2>1, RingSeqShape
  <2> QED BY <2>2 DEF Waiting, RingShapeOf
<1>10. Len(Waiting) < QUEUE_SIZE
  BY <1>2, <1>9, QueueAssumption
<1>11. Serving' = Serving /\ Finished' = Finished
  BY <1>2 DEF Serving, Finished
<1> HIDE DEF Kinds, Threads
<1>12. Handoff!Put(c)
  BY <1>5, <1>6, <1>8, <1>10, <1>11
     DEF Handoff!Put, Pending, Waiting, Finished, Serving, RingSeq, SlotAt
<1> QED BY <1>12

LEMMA TakeIsTake ==
  ASSUME Kinds, Sync, Owned, NEW w \in Workers, RemoveTake(w)
  PROVE  Handoff!Take(w)
<1> USE ThreadAssumption DEF Kinds, Threads
<1>1. /\ pc[w] = "locked" /\ sock[w] = None
      /\ sock' = [sock EXCEPT ![w] = queue[front]]
      /\ count # 0 /\ count' = count - 1
      /\ front' = NextSlot(front) /\ queue' = queue /\ UNCHANGED srv
  BY DEF RemoveTake, Sync, Empty, Oldest, clientVars
<1>2. front \in Window /\ Window' = Window \ {front}
  BY WindowShrinks DEF RemoveTake, Owned, OneOwner
<1>3. Pending' = Pending
  <2>1. \A d \in Clients :
          /\ \A v \in Workers : sock'[v] # d
          /\ \A i \in Window' : queue'[i] # d
          <=>
          /\ \A v \in Workers : sock[v] # d
          /\ \A i \in Window : queue[i] # d
    BY <1>1, <1>2
  <2> QED BY <1>1, <2>1 DEF Pending
<1>4. /\ Waiting # <<>> /\ Head(Waiting) = queue[front]
      /\ Waiting' = Tail(Waiting)
  <2> DEFINE S == Clients \cup {None}
  <2>1. /\ queue \in [Slots -> S]
        /\ front \in Slots /\ front' \in Slots
        /\ count \in 0..QUEUE_SIZE /\ count' \in 0..QUEUE_SIZE
    BY <1>1, NextSlotFact, QueueAssumption
  <2> HIDE DEF S, Kinds
  <2>2. TakesHead(queue, front, count, front', count')
    BY <1>1, <2>1, RingSeqTail
  <2> QED BY <1>1, <2>2 DEF Waiting, TakesHead
<1>5. Finished' = Finished
  BY <1>1 DEF Finished
<1>6. Serving[w] = None /\ Serving' = [Serving EXCEPT ![w] = Head(Waiting)]
  BY <1>1, <1>4 DEF Serving
<1> HIDE DEF Kinds, Threads
<1> QED BY <1>3, <1>4, <1>5, <1>6
        DEF Handoff!Take, Pending, Waiting, Finished, Serving, RingSeq, SlotAt

LEMMA CloseIsFinish ==
  ASSUME Kinds, Owned, NEW w \in Workers, WorkerClose(w)
  PROVE  Handoff!Finish(w)
<1> DEFINE c == sock[w]
<1> USE ThreadAssumption DEF Kinds, Threads
<1>1. /\ c \in Clients /\ c # None
      /\ sock' = [sock EXCEPT ![w] = None]
      /\ srv' = [srv EXCEPT ![c] = "closed"]
      /\ UNCHANGED ringVars
  BY DEF WorkerClose, SrvClose, Owned, HandsFull
<1>2. Window' = Window /\ queue' = queue
  BY <1>1 DEF Window, ringVars
<1>3. Pending' = Pending
  BY <1>1, <1>2 DEF Pending
<1>4. Waiting' = Waiting
  BY <1>1 DEF Waiting, ringVars
<1>5. Finished' = Finished \cup {c}
  BY <1>1 DEF Finished
<1>6. /\ Serving[w] = c
      /\ Serving' = [Serving EXCEPT ![w] = None]
  BY <1>1 DEF Serving
<1>7. Serving[w] # None /\ Finished' = Finished \cup {Serving[w]}
  BY <1>1, <1>5, <1>6
<1> HIDE DEF c, Kinds, Threads
<1> QED BY <1>3, <1>4, <1>6, <1>7
        DEF Handoff!Finish, Pending, Waiting, Finished, Serving, RingSeq, SlotAt

-----------------------------------------------------------------------------
LEMMA HandoffClient ==
  ASSUME NEW c \in Clients, ClientStep(c),
         UNCHANGED <<ringVars, syncVars, pc, sock, bytes_read, alive>>
  PROVE  UNCHANGED Handoff!vars
<1>1. UNCHANGED srv
  BY DEF ClientStep, ClientProgress, Connect, CannotConnect, SendMessage,
         ReadReply, ReadEof, CloseClient, ClientKilled, Disconnect
<1> QED BY <1>1, Invisible

LEMMA HandoffMain ==
  ASSUME Kinds, Sync, Owned, alive, MainStep
  PROVE  [Handoff!Next]_(Handoff!vars)
<1> USE ThreadAssumption DEF Threads
<1>1. CASE Boot \/ AddLock \/ AddWait \/ AddSignal \/ AddUnlock
           \/ \E w \in Workers : CreateWorker(w)
  <2>1. UNCHANGED <<ringVars, sock, srv>>
    BY <1>1 DEF Boot, SrvListen, AddLock, AddWait, AddSignal, AddUnlock,
                CreateWorker, clientVars
  <2> QED BY <2>1, Invisible
<1>2. CASE StartupFails
  <2>1. SrvExit /\ UNCHANGED <<ringVars, sock>>
    BY <1>2 DEF StartupFails
  <2> QED BY <2>1, ExitClosesNothing, Invisible
<1>3. CASE Accept
  <2>1. PICK c \in Clients : SrvAccept(c) /\ sock' = [sock EXCEPT ![Main] = c]
    BY <1>3 DEF Accept
  <2>2. c = backlog[1] /\ 1 \in 1..Len(backlog)
    BY <2>1 DEF SrvAccept, Kinds
  <2>3. srv[c] = "none" /\ srv' = [srv EXCEPT ![c] = "open"]
    BY <2>1, <2>2 DEF Owned, Backlogged, SrvAccept
  <2>4. \A d \in Clients : srv'[d] = "closed" <=> srv[d] = "closed"
    BY <2>3 DEF Kinds
  <2>5. \A w \in Workers : sock'[w] = sock[w]
    BY <2>1 DEF Kinds
  <2>6. UNCHANGED ringVars
    BY <1>3 DEF Accept
  <2> QED BY <2>4, <2>5, <2>6, Invisible
<1>4. CASE AddInsert
  BY <1>4, InsertIsPut DEF Handoff!Next
<1> QED BY <1>1, <1>2, <1>3, <1>4 DEF MainStep

LEMMA HandoffWorker ==
  ASSUME Kinds, Sync, Owned, NEW w \in Workers, WorkerStep(w)
  PROVE  [Handoff!Next]_(Handoff!vars)
<1>1. CASE \/ RemoveLock(w) \/ RemoveWait(w) \/ RemoveSignal(w)
           \/ RemoveUnlock(w) \/ WorkerRead(w) \/ WorkerReadEnds(w)
           \/ WorkerSend(w)
  <2>1. UNCHANGED <<ringVars, sock, srv>>
    BY <1>1 DEF RemoveLock, RemoveWait, RemoveSignal, RemoveUnlock, WorkerRead,
                SrvRead, WorkerReadEnds, SrvReadEnds, WorkerSend, SrvSend,
                clientVars
  <2> QED BY <2>1, Invisible
<1>2. CASE WorkerSendKills(w)
  <2>1. SrvExit /\ UNCHANGED <<ringVars, sock>>
    BY <1>2 DEF WorkerSendKills, SrvSendKills
  <2> QED BY <2>1, ExitClosesNothing, Invisible
<1>3. CASE RemoveTake(w)
  BY <1>3, TakeIsTake DEF Handoff!Next
<1>4. CASE WorkerClose(w)
  BY <1>4, CloseIsFinish DEF Handoff!Next
<1> QED BY <1>1, <1>2, <1>3, <1>4 DEF WorkerStep

LEMMA HandoffStep ==
  ASSUME Kinds, Sync, Owned, [Next]_vars
  PROVE  [Handoff!Next]_(Handoff!vars)
<1>1. CASE EnvStep
  BY <1>1, HandoffClient DEF EnvStep
<1>2. CASE ServerStep
  <2>1. ASSUME NEW t \in Threads, SpuriousWakeup(t)
        PROVE  UNCHANGED <<ringVars, sock, srv>>
    BY <2>1 DEF SpuriousWakeup, clientVars
  <2>2. CASE \E t \in Threads : SpuriousWakeup(t)
    BY <2>1, <2>2, Invisible
  <2> QED BY <1>2, <2>2, HandoffMain, HandoffWorker DEF ServerStep
<1>3. CASE UNCHANGED vars
  <2>1. UNCHANGED <<ringVars, sock, srv>>
    BY <1>3 DEF vars, clientVars
  <2> QED BY <2>1, Invisible
<1> QED BY <1>1, <1>2, <1>3 DEF Next

(* The queue of the server is a bounded first-in first-out hand-off: every *)
(* connection main() puts in is given to one worker, in the order of       *)
(* arrival, and none comes back.                                           *)
THEOREM HandoffCorrect == Spec => HandoffSpec
<1>1. Spec => Handoff!Init /\ [][Handoff!Next]_(Handoff!vars)
  BY HandoffInit, HandoffStep, KindsCorrect, SyncCorrect, OwnedCorrect, PTL
     DEF Spec
<1> QED BY <1>1 DEF HandoffSpec, Handoff!Spec
-----------------------------------------------------------------------------
(* To each client the workers are EchoService.  The invariant adds to the  *)
(* layers above what a worker has in hand, why it closes, and that nobody  *)
(* is connected before main() has started the workers.                     *)

InHands == \A w \in Workers : pc[w] = "send" <=> bytes_read[w] # 0

ClosesEnded == \A w \in Workers : pc[w] = "close" => ReadEnds(sock[w])

Started ==
  alive /\ pc[Main] \in {"boot", "create"} =>
    \A c \in Clients : srv[c] = "none"

Served == InHands /\ ClosesEnded /\ Started

LEMMA ServedInit == Init => Served
BY ThreadAssumption
   DEF Init, ClientInit, Served, InHands, ClosesEnded, Started, Threads

(* Steps that touch no connection and move no worker into or out of        *)
(* "send" and "close".                                                     *)
LEMMA ServedFrame ==
  ASSUME Served, UNCHANGED <<clientVars, bytes_read, alive>>,
         pc'[Main] \in {"boot", "create"} => pc[Main] \in {"boot", "create"},
         \A w \in Workers : /\ pc'[w] = "send" <=> pc[w] = "send"
                            /\ pc'[w] = "close" <=> pc[w] = "close"
                            /\ pc'[w] = "close" => sock'[w] = sock[w]
  PROVE  Served'
BY DEF Served, InHands, ClosesEnded, Started, ReadEnds, clientVars

LEMMA ServedMain ==
  ASSUME Kinds, Sync, Owned, Served, alive, MainStep
  PROVE  Served'
<1> USE ThreadAssumption
    DEF Kinds, Threads, MainStates, WorkerStates, Goto
<1>1. CASE Boot
  BY <1>1 DEF Boot, SrvListen, Served, InHands, ClosesEnded, Started, ReadEnds
<1>2. CASE StartupFails
  BY <1>2 DEF StartupFails, SrvExit, Served, InHands, ClosesEnded, Started,
              ReadEnds
<1>3. CASE Accept
  BY <1>3 DEF Accept, SrvAccept, Served, InHands, ClosesEnded, Started,
              ReadEnds
<1>4. CASE AddLock \/ AddWait \/ AddUnlock
  BY <1>4, ServedFrame DEF AddLock, AddWait, AddUnlock
<1>5. CASE AddInsert
  BY <1>5, ServedFrame DEF AddInsert
<1>6. CASE AddSignal
  <2>1. PICK woken \in Woken(not_empty) :
          pc' = [t \in Threads |-> IF t = Main THEN "unlock"
                                   ELSE IF t \in woken THEN "lock" ELSE pc[t]]
    BY <1>6 DEF AddSignal
  <2>2. \A w \in Workers : w \in woken => pc[w] = "wait"
    BY DEF Woken, Sync
  <2> QED BY <1>6, <2>1, <2>2, ServedFrame DEF AddSignal
<1>7. CASE \E w \in Workers : CreateWorker(w)
  BY <1>7, ServedFrame DEF CreateWorker
<1> QED BY <1>1, <1>2, <1>3, <1>4, <1>5, <1>6, <1>7 DEF MainStep

(* The workers' steps outside the echo loop.                               *)
LEMMA ServedRing ==
  ASSUME Kinds, Sync, Served, NEW w \in Workers,
         \/ RemoveLock(w) \/ RemoveWait(w) \/ RemoveTake(w)
         \/ RemoveSignal(w) \/ RemoveUnlock(w)
  PROVE  Served'
<1> USE ThreadAssumption
    DEF Kinds, Threads, MainStates, WorkerStates, Goto
<1>1. CASE RemoveLock(w) \/ RemoveWait(w) \/ RemoveUnlock(w)
  BY <1>1, ServedFrame DEF RemoveLock, RemoveWait, RemoveUnlock
<1>2. CASE RemoveTake(w)
  BY <1>2, ServedFrame DEF RemoveTake
<1>3. CASE RemoveSignal(w)
  <2>1. PICK woken \in Woken(not_full) :
          pc' = [t \in Threads |-> IF t = w THEN "unlock"
                                   ELSE IF t \in woken THEN "lock" ELSE pc[t]]
    BY <1>3 DEF RemoveSignal
  <2>2. woken \subseteq {Main} /\ pc[w] = "signal"
    BY <1>3 DEF RemoveSignal, Woken
  <2>3. Main \in woken => pc[Main] = "wait"
    BY DEF Woken, Sync
  <2> QED BY <1>3, <2>1, <2>2, <2>3, ServedFrame DEF RemoveSignal
<1> QED BY <1>1, <1>2, <1>3

LEMMA ServedEcho ==
  ASSUME Kinds, Sync, Owned, Pieces, Served, alive, NEW w \in Workers,
         \/ WorkerRead(w) \/ WorkerReadEnds(w) \/ WorkerSend(w)
         \/ WorkerSendKills(w) \/ WorkerClose(w)
  PROVE  Served'
<1> USE ThreadAssumption
    DEF Kinds, Threads, MainStates, WorkerStates, Goto
<1>1. /\ sock[w] \in Clients /\ srv[sock[w]] = "open"
      /\ \A v \in Workers : v # w => sock[v] # sock[w]
  <2>1. sock[w] \in Clients
    BY DEF WorkerRead, WorkerReadEnds, WorkerSend, WorkerSendKills,
           WorkerClose, Owned, HandsFull
  <2> QED BY <2>1, ThreadAssumption DEF Owned, OneOwner, Threads
<1>2. pc[Main] \notin {"boot", "create"}
  BY <1>1 DEF Served, Started
<1>3. CASE WorkerRead(w)
  <2>1. PICK k \in 1..UNITS :
          SrvRead(sock[w], k) /\ bytes_read' = [bytes_read EXCEPT ![w] = k]
    BY <1>3 DEF WorkerRead
  <2>2. /\ pc[w] = "read" /\ pc' = [pc EXCEPT ![w] = "send"]
        /\ UNCHANGED <<sock, alive, cpc, reset>>
        /\ toServer' = [toServer EXCEPT ![sock[w]] = @ - k]
    BY <1>3, <2>1 DEF WorkerRead, SrvRead
  <2>3. InHands'
    BY <2>1, <2>2 DEF Served, InHands
  <2>4. ClosesEnded'
    <3>1. \A v \in Workers : v # w /\ sock[v] \in Clients
            => toServer'[sock[v]] = toServer[sock[v]]
      BY <1>1, <2>2 DEF Pieces
    <3>2. \A v \in Workers : pc[v] = "close" => sock[v] \in Clients
      BY DEF Owned, HandsFull
    <3> QED BY <2>2, <3>1, <3>2 DEF Served, ClosesEnded, ReadEnds
  <2> QED BY <1>2, <2>2, <2>3, <2>4 DEF Served, Started
<1>4. CASE WorkerReadEnds(w)
  <2>1. /\ pc[w] = "read" /\ pc' = [pc EXCEPT ![w] = "close"]
        /\ UNCHANGED <<sock, alive, bytes_read, clientVars>>
        /\ ReadEnds(sock[w])
    BY <1>4 DEF WorkerReadEnds, SrvReadEnds
  <2>2. InHands' /\ ClosesEnded'
    BY <2>1 DEF Served, InHands, ClosesEnded, ReadEnds, clientVars
  <2> QED BY <1>2, <2>1, <2>2 DEF Served, Started
<1>5. CASE WorkerSend(w)
  <2>1. /\ pc[w] = "send" /\ pc' = [pc EXCEPT ![w] = "read"]
        /\ bytes_read' = [bytes_read EXCEPT ![w] = 0]
        /\ UNCHANGED <<sock, alive, cpc, toServer>>
        /\ reset \subseteq reset'
    BY <1>5 DEF WorkerSend, SrvSend
  <2>2. InHands' /\ ClosesEnded'
    BY <2>1 DEF Served, InHands, ClosesEnded, ReadEnds
  <2> QED BY <1>2, <2>1, <2>2 DEF Served, Started
<1>6. CASE WorkerSendKills(w)
  BY <1>6 DEF WorkerSendKills, SrvSendKills, SrvExit, Served, InHands,
              ClosesEnded, Started, ReadEnds
<1>7. CASE WorkerClose(w)
  <2>1. /\ pc[w] = "close" /\ pc' = [pc EXCEPT ![w] = "lock"]
        /\ sock' = [sock EXCEPT ![w] = None]
        /\ UNCHANGED <<alive, bytes_read, cpc, toServer, reset>>
    BY <1>7 DEF WorkerClose, SrvClose
  <2>2. InHands' /\ ClosesEnded'
    BY <2>1 DEF Served, InHands, ClosesEnded, ReadEnds
  <2> QED BY <1>2, <2>1, <2>2 DEF Served, Started
<1> QED BY <1>3, <1>4, <1>5, <1>6, <1>7

LEMMA ServedClient ==
  ASSUME Kinds, Pieces, Owned, Served, EnvStep
  PROVE  Served'
<1>1. PICK c \in Clients : ClientStep(c)
  BY DEF EnvStep
<1>2. /\ srv' = srv
      /\ UNCHANGED <<pc, sock, bytes_read, alive>>
  BY <1>1 DEF EnvStep, ClientStep, ClientProgress, Connect, CannotConnect,
              SendMessage, ReadReply, ReadEof, CloseClient, ClientKilled,
              Disconnect
<1>3. cpc[c] # "done" /\ reset \subseteq reset'
  BY <1>1 DEF ClientStep, ClientProgress, Connect, CannotConnect, SendMessage,
              ReadReply, ReadEof, CloseClient, ClientKilled, Disconnect
<1>4. \A d \in Clients : d # c => cpc'[d] = cpc[d] /\ toServer'[d] = toServer[d]
  BY <1>1 DEF ClientStep, ClientProgress, Connect, CannotConnect, SendMessage,
              ReadReply, ReadEof, CloseClient, ClientKilled, Disconnect,
              Kinds, Pieces
<1>5. \A w \in Workers : pc[w] = "close" =>
        sock[w] \in Clients /\ cpc[sock[w]] = "done"
  BY DEF Owned, HandsFull, Served, ClosesEnded, ReadEnds
<1>6. ClosesEnded'
  BY <1>2, <1>3, <1>4, <1>5 DEF Served, ClosesEnded, ReadEnds
<1> QED BY <1>2, <1>6 DEF Served, InHands, Started

LEMMA ServedCorrect == Spec => []Served
<1>1. ASSUME Kinds, Sync, Owned, Pieces, Served, [Next]_vars PROVE Served'
  <2>1. CASE EnvStep
    BY <1>1, <2>1, ServedClient
  <2>2. CASE ServerStep
    <3>1. ASSUME NEW t \in Threads, SpuriousWakeup(t) PROVE Served'
      <4>1. pc[t] = "wait" /\ pc' = [pc EXCEPT ![t] = "lock"]
        BY <1>1, <3>1, ThreadAssumption
           DEF SpuriousWakeup, Sync, Goto, Kinds, Threads
      <4> QED BY <1>1, <3>1, <4>1, ThreadAssumption, ServedFrame
              DEF SpuriousWakeup, Kinds, Threads
    <3> QED BY <1>1, <2>2, <3>1, ServedMain, ServedRing, ServedEcho
            DEF ServerStep, WorkerStep
  <2>3. CASE UNCHANGED vars
    BY <1>1, <2>3, ServedFrame DEF vars
  <2> QED BY <1>1, <2>1, <2>2, <2>3 DEF Next
<1> QED BY <1>1, ServedInit, KindsCorrect, SyncCorrect, OwnedCorrect,
           PiecesCorrect, PTL DEF Spec

-----------------------------------------------------------------------------
LEMMA HeldBy ==
  ASSUME OneOwner, NEW w \in Workers, sock[w] \in Clients
  PROVE  PiecesHeld[sock[w]] = bytes_read[w]
<1>1. (CHOOSE v \in Workers : sock[v] = sock[w]) = w
  BY ThreadAssumption DEF OneOwner, Threads
<1> QED BY <1>1 DEF PiecesHeld

LEMMA HeldStays ==
  ASSUME UNCHANGED bytes_read, \A w \in Workers : sock'[w] = sock[w]
  PROVE  PiecesHeld' = PiecesHeld
BY DEF PiecesHeld

(* A worker with nothing in hand takes a connection or gives it up.        *)
LEMMA HeldMoves ==
  ASSUME OneOwner, OneOwner', NEW w \in Workers, bytes_read[w] = 0,
         bytes_read' = bytes_read,
         \A v \in Workers : v # w => sock'[v] = sock[v]
  PROVE  PiecesHeld' = PiecesHeld
<1> USE ThreadAssumption
<1>1. ASSUME NEW c \in Clients PROVE PiecesHeld'[c] = PiecesHeld[c]
  <2>1. CASE \E v \in Workers : v # w /\ sock[v] = c
    <3>1. PICK v \in Workers : v # w /\ sock[v] = c /\ sock'[v] = c
      BY <2>1
    <3>2. /\ (CHOOSE u \in Workers : sock[u] = c) = v
          /\ (CHOOSE u \in Workers : sock'[u] = c) = v
      BY <3>1 DEF OneOwner, Threads
    <3> QED BY <3>1, <3>2 DEF PiecesHeld
  <2>2. CASE ~\E v \in Workers : v # w /\ sock[v] = c
    <3>1. PiecesHeld[c] = 0
      BY <2>2 DEF PiecesHeld
    <3>2. PiecesHeld'[c] = 0
      BY <2>2 DEF PiecesHeld
    <3> QED BY <3>1, <3>2
  <2> QED BY <2>1, <2>2
<1> QED BY <1>1 DEF PiecesHeld

LEMMA HeldChanges ==
  ASSUME Kinds, OneOwner, NEW w \in Workers, sock[w] \in Clients, NEW k,
         sock' = sock, bytes_read' = [bytes_read EXCEPT ![w] = k]
  PROVE  PiecesHeld' = [PiecesHeld EXCEPT ![sock[w]] = k]
<1> USE ThreadAssumption
<1>1. ASSUME NEW c \in Clients
      PROVE  PiecesHeld'[c] = IF c = sock[w] THEN k ELSE PiecesHeld[c]
  <2>1. CASE \E v \in Workers : sock[v] = c
    <3>1. PICK v \in Workers : sock[v] = c
      BY <2>1
    <3>2. (CHOOSE u \in Workers : sock[u] = c) = v
      BY <3>1 DEF OneOwner, Threads
    <3>3. PiecesHeld[c] = bytes_read[v] /\ PiecesHeld'[c] = bytes_read'[v]
      BY <3>1, <3>2 DEF PiecesHeld
    <3>4. v = w <=> c = sock[w]
      BY <3>1 DEF OneOwner, Threads
    <3> QED BY <3>3, <3>4 DEF Kinds
  <2>2. CASE ~\E v \in Workers : sock[v] = c
    BY <2>2 DEF PiecesHeld
  <2> QED BY <2>1, <2>2
<1>2. /\ PiecesHeld = [c \in Clients |-> PiecesHeld[c]]
      /\ PiecesHeld' = [c \in Clients |-> PiecesHeld'[c]]
  BY DEF PiecesHeld
<1> QED BY <1>1, <1>2

LEMMA ServiceStutter ==
  ASSUME UNCHANGED <<clientVars, bytes_read, alive>>,
         \A w \in Workers : sock'[w] = sock[w]
  PROVE  UNCHANGED Service!serviceVars
<1>1. PiecesHeld' = PiecesHeld
  BY HeldStays
<1> QED BY <1>1 DEF clientVars, Service!serviceVars, Service!clientVars

LEMMA ServiceInit == Init => Service!Init
<1> SUFFICES ASSUME Init PROVE Service!Init
  OBVIOUS
<1>1. \A w \in Workers : sock[w] \notin Clients
  BY ThreadAssumption DEF Init, Threads
<1>2. PiecesHeld = [c \in Clients |-> 0]
  BY <1>1 DEF PiecesHeld
<1> QED BY <1>2 DEF Init, ClientInit, Service!Init, Service!ClientInit

LEMMA ServiceClient ==
  ASSUME EnvStep
  PROVE  Service!Next
<1>1. PICK c \in Clients : ClientStep(c)
  BY DEF EnvStep
<1>2. PiecesHeld' = PiecesHeld /\ alive' = alive
  BY HeldStays DEF EnvStep
<1>3. Service!ClientStep(c)
  BY <1>1
     DEF ClientStep, ClientProgress, Connect, CannotConnect, ReadEof,
         SendMessage, ReadReply, CloseClient, ClientKilled, Disconnect,
         Service!ClientStep, Service!ClientProgress, Service!Connect,
         Service!CannotConnect, Service!ReadEof, Service!SendMessage,
         Service!ReadReply, Service!CloseClient, Service!ClientKilled,
         Service!Disconnect
<1> QED BY <1>2, <1>3 DEF Service!Next

LEMMA ServiceMain ==
  ASSUME Kinds, Served, alive, MainStep
  PROVE  Service!Next \/ UNCHANGED Service!serviceVars
<1> USE ThreadAssumption
<1>1. \A w \in Workers : sock'[w] = sock[w]
  BY DEF MainStep, Boot, StartupFails, Accept, AddLock, AddWait, AddInsert,
         AddSignal, AddUnlock, CreateWorker, Kinds, Threads
<1>2. bytes_read' = bytes_read
  BY DEF MainStep, Boot, StartupFails, Accept, AddLock, AddWait, AddInsert,
         AddSignal, AddUnlock, CreateWorker
<1>3. PiecesHeld' = PiecesHeld
  BY <1>1, <1>2, HeldStays
<1>4. CASE Boot
  <2>1. Service!Listen
    BY <1>3, <1>4 DEF Boot, SrvListen, Service!Listen, Service!SrvListen
  <2> QED BY <2>1 DEF Service!Next, Service!Serve
<1>5. CASE StartupFails
  <2>1. \A c \in Clients : srv[c] = "none"
    BY <1>5 DEF StartupFails, Served, Started
  <2>2. Service!Exit
    BY <1>3, <1>5, <2>1
       DEF StartupFails, SrvExit, Service!Exit, Service!SrvExit
  <2> QED BY <2>2 DEF Service!Next, Service!Serve
<1>6. CASE Accept
  <2>1. PICK c \in Clients : SrvAccept(c)
    BY <1>6 DEF Accept
  <2>2. Service!Accept(c)
    BY <1>3, <1>6, <2>1
       DEF Accept, SrvAccept, Service!Accept, Service!SrvAccept
  <2> QED BY <2>2 DEF Service!Next, Service!Serve
<1>7. CASE \/ AddLock \/ AddWait \/ AddInsert \/ AddSignal \/ AddUnlock
           \/ \E w \in Workers : CreateWorker(w)
  <2>1. UNCHANGED <<clientVars, alive>>
    BY <1>7 DEF AddLock, AddWait, AddInsert, AddSignal, AddUnlock,
                CreateWorker
  <2> QED BY <1>1, <1>2, <2>1, ServiceStutter
<1> QED BY <1>4, <1>5, <1>6, <1>7 DEF MainStep

LEMMA ServiceTake ==
  ASSUME Kinds, Sync, Owned, Owned', Served, NEW w \in Workers, RemoveTake(w)
  PROVE  UNCHANGED Service!serviceVars
<1>1. bytes_read[w] = 0 /\ bytes_read' = bytes_read
  BY DEF RemoveTake, Served, InHands
<1>2. \A v \in Workers : v # w => sock'[v] = sock[v]
  BY DEF RemoveTake, Kinds, Threads
<1>3. PiecesHeld' = PiecesHeld
  BY <1>1, <1>2, HeldMoves DEF Owned
<1> QED BY <1>3 DEF RemoveTake, clientVars, Service!serviceVars,
                    Service!clientVars

LEMMA ServiceEchoes ==
  ASSUME Kinds, Owned, Owned', Served, alive, NEW w \in Workers,
         \/ WorkerRead(w) \/ WorkerSend(w) \/ WorkerSendKills(w)
         \/ WorkerClose(w)
  PROVE  Service!Next
<1> DEFINE c == sock[w]
<1>1. c \in Clients /\ srv[c] = "open"
  BY DEF WorkerRead, WorkerSend, WorkerSendKills, WorkerClose, Owned,
         HandsFull, OneOwner, Threads
<1>2. PiecesHeld[c] = bytes_read[w]
  BY <1>1, HeldBy DEF Owned
<1>3. pc[w] # "send" => PiecesHeld[c] = 0
  BY <1>2 DEF Served, InHands
<1>4. pc[w] = "send" => PiecesHeld[c] > 0
  <2>1. bytes_read[w] \in Nat /\ (pc[w] = "send" => bytes_read[w] # 0)
    BY UnitsAssumption DEF Kinds, Served, InHands
  <2> QED BY <1>2, <2>1
<1>5. CASE WorkerRead(w)
  <2>1. PICK k \in 1..UNITS :
          SrvRead(c, k) /\ bytes_read' = [bytes_read EXCEPT ![w] = k]
    BY <1>5 DEF WorkerRead
  <2>2. sock' = sock /\ alive' = alive /\ pc[w] = "read"
    BY <1>5 DEF WorkerRead
  <2>3. PiecesHeld' = [PiecesHeld EXCEPT ![c] = k]
    BY <1>1, <2>1, <2>2, HeldChanges DEF Owned
  <2> HIDE DEF c
  <2>4. Service!Read(c)
    BY <1>1, <1>3, <2>1, <2>2, <2>3
       DEF SrvRead, Service!Read, Service!SrvRead
  <2> QED BY <1>1, <2>4 DEF Service!Next, Service!Serve
<1>6. CASE WorkerSend(w)
  <2>1. /\ sock' = sock /\ alive' = alive /\ pc[w] = "send"
        /\ bytes_read' = [bytes_read EXCEPT ![w] = 0]
        /\ SrvSend(c, bytes_read[w])
    BY <1>6 DEF WorkerSend
  <2>2. PiecesHeld' = [PiecesHeld EXCEPT ![c] = 0]
    BY <1>1, <2>1, HeldChanges DEF Owned
  <2> HIDE DEF c
  <2>3. Service!Echo(c)
    BY <1>1, <1>2, <1>4, <2>1, <2>2 DEF SrvSend, Service!Echo, Service!SrvSend
  <2> QED BY <1>1, <2>3 DEF Service!Next, Service!Serve
<1>7. CASE WorkerSendKills(w)
  <2>1. /\ sock' = sock /\ bytes_read' = bytes_read /\ alive' = FALSE
        /\ pc[w] = "send" /\ c \in reset /\ SrvExit
    BY <1>7 DEF WorkerSendKills, SrvSendKills
  <2>2. PiecesHeld' = PiecesHeld
    BY <2>1, HeldStays
  <2> HIDE DEF c
  <2>3. Service!Exit
    BY <1>1, <1>4, <2>1, <2>2 DEF SrvExit, Service!Exit, Service!SrvExit
  <2> QED BY <2>3 DEF Service!Next, Service!Serve
<1>8. CASE WorkerClose(w)
  <2>1. /\ SrvClose(c) /\ bytes_read' = bytes_read /\ alive' = alive
        /\ pc[w] = "close" /\ sock' = [sock EXCEPT ![w] = None]
    BY <1>8 DEF WorkerClose
  <2>2. ReadEnds(c)
    BY <2>1 DEF Served, ClosesEnded
  <2>3. \A v \in Workers : v # w => sock'[v] = sock[v]
    BY <2>1 DEF Kinds, Threads
  <2>4. PiecesHeld' = PiecesHeld
    BY <1>2, <1>3, <2>1, <2>3, HeldMoves DEF Owned
  <2> HIDE DEF c
  <2>5. Service!Close(c)
    BY <1>1, <1>3, <2>1, <2>2, <2>4
       DEF ReadEnds, SrvClose, Service!Close, Service!ReadEnds,
           Service!SrvClose
  <2> QED BY <1>1, <2>5 DEF Service!Next, Service!Serve
<1> QED BY <1>5, <1>6, <1>7, <1>8

LEMMA ServiceStep ==
  ASSUME Kinds, Sync, Owned, Owned', Served, [Next]_vars
  PROVE  [Service!Next]_(Service!serviceVars)
<1>1. CASE EnvStep
  BY <1>1, ServiceClient
<1>2. CASE ServerStep
  <2>1. CASE \E t \in Threads : SpuriousWakeup(t)
    BY <2>1, ServiceStutter DEF SpuriousWakeup
  <2>2. CASE MainStep
    BY <1>2, <2>2, ServiceMain DEF ServerStep
  <2>3. ASSUME NEW w \in Workers, WorkerStep(w)
        PROVE  Service!Next \/ UNCHANGED Service!serviceVars
    <3>1. CASE RemoveLock(w) \/ RemoveWait(w) \/ RemoveSignal(w)
               \/ RemoveUnlock(w) \/ WorkerReadEnds(w)
      BY <3>1, ServiceStutter
         DEF RemoveLock, RemoveWait, RemoveSignal, RemoveUnlock,
             WorkerReadEnds, SrvReadEnds
    <3> QED BY <1>2, <2>3, <3>1, ServiceTake, ServiceEchoes
            DEF ServerStep, WorkerStep
  <2> QED BY <1>2, <2>1, <2>2, <2>3 DEF ServerStep
<1>3. CASE UNCHANGED vars
  BY <1>3, ServiceStutter DEF vars
<1> QED BY <1>1, <1>2, <1>3 DEF Next

(* Whatever the order in which the connections go through the ring and the *)
(* workers take turns, the clients cannot tell the server from one that    *)
(* echoes each connection by itself.                                       *)
THEOREM ServiceCorrect == Spec => ServiceSpec
<1>1. Spec => Service!Init /\ [][Service!Next]_(Service!serviceVars)
  BY ServiceInit, ServiceStep, KindsCorrect, SyncCorrect, OwnedCorrect,
     ServedCorrect, PTL DEF Spec
<1> QED BY <1>1 DEF ServiceSpec, Service!Spec
=============================================================================
