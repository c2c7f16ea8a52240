-------------------------- MODULE MailboxesProofs --------------------------
(***************************************************************************)
(* Theorems about the programs that meet in a named object of the kernel,  *)
(* for any numbers of servers, clients and objects.  Shared memory: what   *)
(* the server prints comes from a client.  The FIFO: one server and one    *)
(* client do not miss each other, and who removes it under a server that   *)
(* waits.  The POSIX queue: how much is left in it.  The System V queue:   *)
(* who answered a server.                                                  *)
(***************************************************************************)
EXTENDS MCMailboxes, Sequences, FiniteSetTheorems, TLAPS

(* Two servers never run at once, so nobody else writes "Hi!".             *)
OneServer ==
  \A s, t \in Servers : Running(s) /\ Running(t) => s = t

Mapped == \A p \in Procs : Running(p) => ptr[p] \in Objects

(* A half of the client's message.                                         *)
Partly(f, b) == f = "Hel" \/ (f = "Hi!" /\ b = "lo!")

(* What a server knows at each step of its loop: its greeting is written,  *)
(* then overwritten, and no client ever takes a piece of a message back.   *)
Progressed(s) ==
  LET f == front[ptr[s]]  b == back[ptr[s]] IN
  /\ pc[s] \in {"back", "compare", "compareBack"} => f \in {"Hi!", "Hel"}
  /\ pc[s] = "print" => Partly(f, b)
  /\ pc[s] = "printBack" => Partly(got[s][1], b)
  /\ pc[s] \in {"remove", "done"} => Partly(got[s][1], got[s][2])

Listening ==
  /\ TypeOK /\ OneServer /\ Mapped
  /\ \A s \in Servers : Progressed(s)

(* The two pieces of what a server has printed.                            *)
LEMMA PieceFact ==
  ASSUME NEW g \in Front \X Back, NEW f \in Front, NEW b \in Back
  PROVE  /\ [g EXCEPT ![1] = f] = <<f, g[2]>>
         /\ [g EXCEPT ![2] = b] = <<g[1], b>>
OBVIOUS

LEMMA ListeningInit == Init => Listening
<1> SUFFICES ASSUME Init PROVE Listening
  OBVIOUS
<1>1. /\ front \in [Objects -> Front] /\ back \in [Objects -> Back]
      /\ got \in [Servers -> Front \X Back]
  BY DEF Init, Front, Back
<1>2. TypeOK
  BY <1>1 DEF Init, TypeOK
<1>3. \A p \in Procs : pc[p] = "start"
  BY DEF Init
<1>4. OneServer /\ Mapped /\ \A s \in Servers : Progressed(s)
  BY <1>3 DEF OneServer, Mapped, Progressed, Running, Procs
<1> QED BY <1>2, <1>4 DEF Listening

(* A step of a server that leaves the names alone.                         *)
LEMMA ServerStepListens ==
  ASSUME Listening, NEW s \in Servers, ServerStep(s)
  PROVE  Listening'
<1> USE DEF Listening, Procs, Running, Front, Back
<1>1. s \in Procs /\ Running(s) /\ ptr[s] \in Objects
  BY DEF ServerStep, Truncate, WriteFront, WriteBack, Compare, PrintReceived,
         Remove, Goes, Mapped
<1>2. \A t \in Servers \ {s} : ~Running(t)
  BY <1>1 DEF OneServer
<1>3. CASE Truncate(s)
  <2>1. TypeOK'
    BY <1>1, <1>3, MemoryAssumption DEF TypeOK, Truncate, Goes, memory
  <2>2. OneServer' /\ Mapped'
    BY <1>1, <1>3 DEF OneServer, Mapped, Truncate, Goes, memory, TypeOK
  <2>3. \A t \in Servers : Progressed(t)'
    BY <1>1, <1>3 DEF Progressed, Truncate, Goes, memory, TypeOK
  <2> QED BY <2>1, <2>2, <2>3
<1>4. CASE WriteFront(s, "Hi!")
  <2>1. TypeOK' BY <1>1, <1>4 DEF TypeOK, WriteFront, Goes, objects
  <2>2. OneServer' /\ Mapped'
    BY <1>1, <1>4 DEF OneServer, Mapped, WriteFront, Goes, objects, TypeOK
  <2>3. \A t \in Servers : Progressed(t)'
    BY <1>1, <1>2, <1>4 DEF Progressed, WriteFront, Goes, objects, TypeOK
  <2> QED BY <2>1, <2>2, <2>3
<1>5. CASE WriteBack(s, "", "compare")
  <2>1. TypeOK' BY <1>1, <1>5 DEF TypeOK, WriteBack, Goes, objects
  <2>2. OneServer' /\ Mapped'
    BY <1>1, <1>5 DEF OneServer, Mapped, WriteBack, Goes, objects, TypeOK
  <2>3. \A t \in Servers : Progressed(t)'
    BY <1>1, <1>2, <1>5 DEF Progressed, WriteBack, Goes, objects, TypeOK
  <2> QED BY <2>1, <2>2, <2>3
<1>6. CASE Compare(s)
  <2>1. /\ UNCHANGED <<api, named, used, sized, front, back, ptr, got>>
        /\ pc' = [pc EXCEPT ![s] = pc'[s]]
        /\ pc'[s] \in {"compare", "compareBack", "print"}
    BY <1>1, <1>6 DEF Compare, Goes, objects, memory, TypeOK
  <2>2. /\ pc[s] \in {"compare", "compareBack"}
        /\ pc'[s] = "print" =>
             \/ front[ptr[s]] # "Hi!"
             \/ pc[s] = "compareBack" /\ back[ptr[s]] # ""
    BY <1>1, <1>6 DEF Compare, Goes, TypeOK
  <2>3. front[ptr[s]] \in {"Hi!", "Hel"} /\ back[ptr[s]] \in {"", "lo!"}
    BY <1>1, <2>2 DEF Progressed, TypeOK
  <2>4. Progressed(s)'
    BY <1>1, <2>1, <2>2, <2>3 DEF Progressed, Partly
  <2>5. pc' \in [Procs -> {"start", "truncate", "front", "back", "compare",
                           "compareBack", "print", "printBack", "remove",
                           "done", "dead"}]
    BY <2>1 DEF TypeOK
  <2>6. TypeOK'
    BY <2>1, <2>5 DEF TypeOK
  <2>7. OneServer' /\ Mapped' /\ \A t \in Servers \ {s} : Progressed(t)'
    BY <1>1, <2>1 DEF OneServer, Mapped, Progressed, TypeOK
  <2> QED BY <2>4, <2>6, <2>7
<1>7. CASE PrintReceived(s)
  <2> DEFINE f == front[ptr[s]]  b == back[ptr[s]]
  <2>1. f \in Front /\ b \in Back /\ got[s] \in Front \X Back
    BY <1>1 DEF TypeOK
  <2>2. \A t \in Servers \ {s} : got'[t] = got[t] /\ pc'[t] = pc[t]
    BY <1>7 DEF PrintReceived, Goes, TypeOK
  <2>3. /\ UNCHANGED <<api, named, used, sized, front, back, ptr>>
        /\ pc' = [pc EXCEPT ![s] = pc'[s]]
        /\ pc'[s] \in {"printBack", "remove"}
    BY <1>1, <1>7 DEF PrintReceived, Goes, objects, memory, TypeOK
  <2>4. OneServer' /\ Mapped'
    BY <1>1, <2>3 DEF TypeOK, OneServer, Mapped
  <2>5. pc' \in [Procs -> {"start", "truncate", "front", "back", "compare",
                           "compareBack", "print", "printBack", "remove",
                           "done", "dead"}]
    BY <2>3 DEF TypeOK
  <2>6. CASE pc[s] = "print"
    <3>1. got' = [got EXCEPT ![s] = <<f, got[s][2]>>] /\ pc'[s] = "printBack"
      BY <1>1, <1>7, <2>1, <2>6, PieceFact DEF PrintReceived, Goes, TypeOK
    <3>2. got' \in [Servers -> Front \X Back] /\ got'[s][1] = f
      BY <2>1, <3>1 DEF TypeOK
    <3>3. Partly(f, b)
      BY <2>6 DEF Progressed
    <3>4. Progressed(s)'
      BY <2>3, <3>1, <3>2, <3>3 DEF Progressed
    <3>5. TypeOK'
      BY <2>3, <2>5, <3>2 DEF TypeOK
    <3>6. \A t \in Servers \ {s} : Progressed(t)'
      BY <2>2, <2>3 DEF Progressed
    <3> QED BY <2>4, <3>4, <3>5, <3>6
  <2>7. CASE pc[s] = "printBack"
    <3>1. got' = [got EXCEPT ![s] = <<got[s][1], b>>] /\ pc'[s] = "remove"
      BY <1>1, <1>7, <2>1, <2>7, PieceFact DEF PrintReceived, Goes, TypeOK
    <3>2. /\ got' \in [Servers -> Front \X Back]
          /\ got'[s][1] = got[s][1] /\ got'[s][2] = b
      BY <2>1, <3>1 DEF TypeOK
    <3>3. Partly(got[s][1], b)
      BY <2>7 DEF Progressed
    <3>4. Progressed(s)'
      BY <2>3, <3>1, <3>2, <3>3 DEF Progressed
    <3>5. TypeOK'
      BY <2>3, <2>5, <3>2 DEF TypeOK
    <3>6. \A t \in Servers \ {s} : Progressed(t)'
      BY <2>2, <2>3 DEF Progressed
    <3> QED BY <2>4, <3>4, <3>5, <3>6
  <2> QED BY <1>7, <2>6, <2>7 DEF PrintReceived, Goes
<1>8. CASE Remove(s)
  <2>1. TypeOK' BY <1>1, <1>8 DEF TypeOK, Remove, Goes, memory
  <2>2. OneServer' /\ Mapped'
    BY <1>1, <1>8 DEF OneServer, Mapped, Remove, Goes, memory, TypeOK
  <2>3. \A t \in Servers : Progressed(t)'
    BY <1>1, <1>2, <1>8 DEF Progressed, Remove, Goes, memory, TypeOK
  <2> QED BY <2>1, <2>2, <2>3
<1> QED BY <1>3, <1>4, <1>5, <1>6, <1>7, <1>8 DEF ServerStep

(* A client adds pieces of its message and nothing else.                   *)
LEMMA ClientStepListens ==
  ASSUME Listening, NEW c \in Clients, Attach(c) \/ ClientStep(c)
  PROVE  Listening'
<1> USE MemoryAssumption DEF Listening, Procs, Running, Front, Back
<1>1. c \in Procs /\ c \notin Servers
  OBVIOUS
<1>2. \A s \in Servers : pc'[s] = pc[s] /\ ptr'[s] = ptr[s]
  BY <1>1 DEF Attach, ClientStep, PrintGreeting, ClientWrites, WriteFront,
              WriteBack, Goes, TypeOK
<1>3. UNCHANGED <<api, named, used, sized, got>>
  BY DEF Attach, ClientStep, PrintGreeting, ClientWrites, WriteFront,
         WriteBack, objects
<1>4. CASE Attach(c)
  <2>1. TypeOK' /\ Mapped'
    BY <1>1, <1>4 DEF TypeOK, Mapped, Attach, Goes, objects, memory
  <2>2. OneServer' /\ \A s \in Servers : Progressed(s)'
    BY <1>2, <1>3, <1>4 DEF OneServer, Progressed, Attach, memory
  <2> QED BY <2>1, <2>2
<1>5. CASE PrintGreeting(c)
  <2>1. TypeOK' /\ Mapped'
    BY <1>1, <1>5 DEF TypeOK, Mapped, PrintGreeting, Goes, objects, memory
  <2>2. OneServer' /\ \A s \in Servers : Progressed(s)'
    BY <1>2, <1>3, <1>5 DEF OneServer, Progressed, PrintGreeting, memory
  <2> QED BY <2>1, <2>2
<1>6. CASE WriteFront(c, "Hel")
  <2>1. ptr[c] \in Objects
    BY <1>1, <1>6 DEF WriteFront, Goes, Mapped
  <2>2. TypeOK' /\ Mapped'
    BY <1>1, <1>6, <2>1 DEF TypeOK, Mapped, WriteFront, Goes, objects
  <2>3. \A o \in Objects : front'[o] \in {front[o], "Hel"} /\ back'[o] = back[o]
    BY <1>6, <2>1 DEF WriteFront, TypeOK
  <2>4. \A s \in Servers : Progressed(s)'
    <3> SUFFICES ASSUME NEW s \in Servers, Running(s) PROVE Progressed(s)'
      BY <1>2, <1>3 DEF Progressed
    <3>1. ptr[s] \in Objects
      BY DEF Mapped
    <3> QED BY <1>2, <1>3, <2>3, <3>1 DEF Progressed, Partly
  <2> QED BY <1>2, <2>2, <2>4 DEF OneServer
<1>7. CASE WriteBack(c, "lo!", "done")
  <2>1. ptr[c] \in Objects
    BY <1>1, <1>7 DEF WriteBack, Goes, Mapped
  <2>2. TypeOK' /\ Mapped'
    BY <1>1, <1>7, <2>1 DEF TypeOK, Mapped, WriteBack, Goes, objects
  <2>3. \A o \in Objects : front'[o] = front[o] /\ back'[o] \in {back[o], "lo!"}
    BY <1>7, <2>1 DEF WriteBack, TypeOK
  <2>4. \A s \in Servers : Progressed(s)'
    <3> SUFFICES ASSUME NEW s \in Servers, Running(s) PROVE Progressed(s)'
      BY <1>2, <1>3 DEF Progressed
    <3>1. ptr[s] \in Objects
      BY DEF Mapped
    <3> QED BY <1>2, <1>3, <2>3, <3>1 DEF Progressed, Partly
  <2> QED BY <1>2, <2>2, <2>4 DEF OneServer
<1> QED BY <1>4, <1>5, <1>6, <1>7 DEF ClientStep, ClientWrites

(* A server starts when no other runs; a process dies.                     *)
LEMMA OtherStepListens ==
  ASSUME Listening,
         \/ \E s \in Servers : Open(s)
         \/ \E p \in Procs : Dies(p)
         \/ UNCHANGED vars
  PROVE  Listening'
<1> USE DEF Listening, Running, Front, Back
<1>1. ASSUME NEW s \in Servers, Open(s) PROVE Listening'
  <2>1. s \in Procs /\ named' \in Objects
    BY <1>1 DEF Open, TypeOK, Procs
  <2>2. /\ pc'[s] \in {"truncate", "front"} /\ ptr'[s] \in Objects
        /\ \A p \in Procs \ {s} : pc'[p] = pc[p] /\ ptr'[p] = ptr[p]
        /\ UNCHANGED <<api, front, back, got>>
    BY <1>1, <2>1 DEF Open, Goes, TypeOK, memory
  <2>3. TypeOK'
    BY <1>1, <2>1 DEF Open, Goes, TypeOK, memory
  <2>4. OneServer' /\ Mapped'
    BY <1>1, <2>1, <2>2 DEF OneServer, Mapped, Open, Procs
  <2>5. \A t \in Servers : Progressed(t)'
    BY <1>1, <2>1, <2>2 DEF Progressed, Procs
  <2> QED BY <2>3, <2>4, <2>5
<1>2. ASSUME NEW p \in Procs, Dies(p) PROVE Listening'
  <2>1. TypeOK' /\ Mapped' /\ OneServer'
    BY <1>2 DEF Dies, TypeOK, Mapped, OneServer, Procs, objects, memory
  <2>2. \A t \in Servers : Progressed(t)'
    BY <1>2 DEF Dies, TypeOK, Progressed, Procs, objects, memory
  <2> QED BY <2>1, <2>2
<1>3. CASE UNCHANGED vars
  BY <1>3 DEF vars, TypeOK, OneServer, Mapped, Progressed
<1> QED BY <1>1, <1>2, <1>3

(* Every state of the programs is one of Listening.                        *)
THEOREM AlwaysListening == Spec => []Listening
<1>1. Listening /\ [Next]_vars => Listening'
  BY ServerStepListens, ClientStepListens, OtherStepListens DEF Next
<1> QED BY <1>1, ListeningInit, PTL DEF Spec

(* HearsAClient of SharedMemory: what a server prints after its loop in    *)
(* shm/posix/server.c and shm/system v/server.c has a piece of a client's  *)
(* message in it.                                                          *)
THEOREM ServerHearsAClient == Spec => []HearsAClient
<1>1. Listening => HearsAClient
  <2> SUFFICES ASSUME Listening, NEW s \in Servers,
                      pc[s] \in {"remove", "done"}
               PROVE  got[s][1] = "Hel" \/ got[s] = <<"Hi!", "lo!">>
    BY DEF HearsAClient
  <2>1. got[s] \in Front \X Back
    BY DEF Listening, TypeOK
  <2>2. Partly(got[s][1], got[s][2])
    BY DEF Listening, Progressed
  <2> QED BY <2>1, <2>2 DEF Partly
<1> QED BY <1>1, AlwaysListening, PTL

(* No run of a server or a client, interrupted or not, writes anything but *)
(* a piece of one of the messages, or outside a page that has its size.    *)
THEOREM MemoryTypeCorrect == Spec => []TypeOK
<1>1. Listening => TypeOK
  BY DEF Listening
<1> QED BY <1>1, AlwaysListening, PTL

-----------------------------------------------------------------------------
(* The FIFO.  Nobody but these two has been started, the client found the  *)
(* FIFO and neither was interrupted.                                       *)
Quiet(s, c) ==
  /\ \A p \in Servers \cup Clients : fifoPc[p] # "start" => p \in {s, c}
  /\ missed = {}
  /\ fifoPc[s] # "dead" /\ fifoPc[c] # "dead"

HasOpen == {"opening", "transfer", "close"}

FifoKinds ==
  /\ Pipe!TypeOK
  /\ \A p \in Servers \cup Clients : fifoPc[p] \in HasOpen => fd[p] # None

Fed == {"close", "unlink", "done"}

(* How far the two can be from each other: they wait for each other twice, *)
(* in open() and, the client only, in read().                              *)
InStep(s, c) ==
  \/ fifoPc[s] = "start" /\ fifoPc[c] = "start"
  \/ fifoPc[s] = "open" /\ fifoPc[c] \in {"start", "opening"}
  \/ fifoPc[s] = "opening" /\ fifoPc[c] = "start"
  \/ fifoPc[s] = "transfer" /\ fifoPc[c] = "transfer"
  \/ fifoPc[s] \in {"close", "done"} /\ fifoPc[c] \in {"transfer"} \cup Fed

(* What the kernel holds for them meanwhile.                               *)
Meeting(s, c) ==
  /\ InStep(s, c)
  /\ fifoNamed = None <=> fifoPc[s] = "start" \/ fifoPc[c] = "done"
  /\ \A f \in Fifos :
       /\ readers[f] = IF fifoPc[c] \in HasOpen /\ fd[c] = f THEN {c} ELSE {}
       /\ writers[f] = IF fifoPc[s] \in HasOpen /\ fd[s] = f THEN {s} ELSE {}
       /\ fifoPc[s] \in {"start", "open", "opening"} => buffer[f] = 0
  /\ fifoPc[c] \in HasOpen => fd[c] = fifoNamed
  /\ fifoPc[s] \in {"opening", "transfer"} => fd[s] = fifoNamed
  /\ fifoPc[c] = "transfer" =>
       buffer[fifoNamed] = IF fifoPc[s] = "transfer" THEN 0 ELSE 1
  /\ fifoPc[c] \in Fed => taken[c] = 1

Met == \A s \in Servers, c \in Clients : Quiet(s, c) => Meeting(s, c)

(* Where everybody is after open() of an end whose other end is others'.   *)
LEMMA OpenEndFact ==
  ASSUME NEW p \in Servers \cup Clients, NEW f, NEW others,
         Pipe!OpenEnd(p, f, others)
  PROVE  /\ DOMAIN fifoPc' = Servers \cup Clients
         /\ fifoPc'[p] = IF others = {} THEN "opening" ELSE "transfer"
         /\ \A q \in (Servers \cup Clients) \ {p} :
              fifoPc'[q] = IF q \in others /\ fifoPc[q] = "opening"
                           THEN "transfer" ELSE fifoPc[q]
         /\ fifoPc' = [q \in Servers \cup Clients |-> fifoPc'[q]]
<1>1. \A q \in Servers \cup Clients : fifoPc'[q] =
        CASE q = p /\ others = {} -> "opening"
          [] others # {} /\ (q = p \/ (q \in others /\ fifoPc[q] = "opening"))
               -> "transfer"
          [] OTHER -> fifoPc[q]
  BY DEF Pipe!OpenEnd, Pipe!Procs
<1>2. fifoPc'[p] = IF others = {} THEN "opening" ELSE "transfer"
  <2>1. CASE others = {}
    BY <1>1, <2>1
  <2>2. CASE others # {}
    BY <1>1, <2>2
  <2> QED BY <2>1, <2>2
<1>3. ASSUME NEW q \in (Servers \cup Clients) \ {p}
      PROVE  fifoPc'[q] = IF q \in others /\ fifoPc[q] = "opening"
                          THEN "transfer" ELSE fifoPc[q]
  BY <1>1
<1>4. /\ DOMAIN fifoPc' = Servers \cup Clients
      /\ fifoPc' = [q \in Servers \cup Clients |-> fifoPc'[q]]
  BY DEF Pipe!OpenEnd, Pipe!Procs
<1> QED BY <1>2, <1>3, <1>4

LEMMA OpenEndKeeps ==
  ASSUME FifoKinds, NEW p \in Servers \cup Clients, NEW f \in fifoUsed,
         NEW others, Pipe!OpenEnd(p, f, others),
         fd' = [fd EXCEPT ![p] = f], UNCHANGED fifoUsed
  PROVE  /\ fifoPc' \in [Servers \cup Clients ->
                         {"start", "open", "opening", "transfer", "close",
                          "unlink", "done", "killed", "dead"}]
         /\ fd' \in [Servers \cup Clients -> fifoUsed' \cup {None}]
         /\ \A q \in Servers \cup Clients :
              fifoPc'[q] \in HasOpen => fd'[q] # None
<1> USE FifoAssumption DEF FifoKinds, Pipe!TypeOK, Pipe!Procs, HasOpen
<1>1. fifoPc' \in [Servers \cup Clients ->
                   {"start", "open", "opening", "transfer", "close",
                    "unlink", "done", "killed", "dead"}]
  BY DEF Pipe!OpenEnd
<1>2. fd' \in [Servers \cup Clients -> fifoUsed' \cup {None}]
  OBVIOUS
<1>3. ASSUME NEW q \in Servers \cup Clients, fifoPc'[q] \in HasOpen
      PROVE  fd'[q] # None
  <2>1. CASE q = p
    <3>1. f # None
      OBVIOUS
    <3> QED BY <2>1, <3>1
  <2>2. CASE q # p
    <3>1. fd'[q] = fd[q]
      BY <2>2
    <3>2. fifoPc[q] \in HasOpen
      BY <1>3, <2>2, OpenEndFact
    <3> QED BY <3>1, <3>2
  <2> QED BY <2>1, <2>2
<1> QED BY <1>1, <1>2, <1>3

LEMMA FifoTypes ==
  ASSUME FifoKinds, [Pipe!Next]_(Pipe!vars)
  PROVE  FifoKinds'
<1> USE FifoAssumption
    DEF FifoKinds, Pipe!TypeOK, Pipe!Procs, Pipe!Goes, HasOpen
<1>1. CASE UNCHANGED Pipe!vars
  BY <1>1 DEF Pipe!vars
<1>2. ASSUME NEW s \in Servers, Pipe!MakeFifo(s) PROVE FifoKinds'
  <2>1. fifoNamed' \in fifoUsed' /\ fifoUsed \subseteq fifoUsed'
    BY <1>2 DEF Pipe!MakeFifo
  <2>2. fifoUsed' \subseteq Fifos
    BY <1>2 DEF Pipe!MakeFifo
  <2>3. fifoPc' = [fifoPc EXCEPT ![s] = "open"] /\ fd' = fd
    BY <1>2 DEF Pipe!MakeFifo
  <2> QED BY <1>2, <2>1, <2>2, <2>3 DEF Pipe!MakeFifo
<1>3. ASSUME NEW s \in Servers, Pipe!OpenForWriting(s) PROVE FifoKinds'
  <2>0. past' \in [Servers -> SUBSET Clients]
    BY <1>3 DEF Pipe!OpenForWriting
  <2>1. CASE fifoNamed = None
    BY <1>3, <2>0, <2>1 DEF Pipe!OpenForWriting
  <2>2. CASE fifoNamed # None
    <3>1. /\ Pipe!OpenEnd(s, fifoNamed, readers[fifoNamed])
          /\ writers' = [writers EXCEPT ![fifoNamed] = @ \cup {s}]
          /\ fd' = [fd EXCEPT ![s] = fifoNamed]
          /\ UNCHANGED <<fifoNamed, fifoUsed, readers, buffer, taken, missed>>
      BY <1>3, <2>2 DEF Pipe!OpenForWriting
    <3>2. writers' \in [Fifos -> SUBSET Servers]
      BY <3>1
    <3> QED BY <2>0, <2>2, <3>1, <3>2, OpenEndKeeps
  <2> QED BY <2>1, <2>2
<1>4. ASSUME NEW s \in Servers, Pipe!Write(s) PROVE FifoKinds'
  <2>1. CASE readers[fd[s]] # {}
    BY <1>4, <2>1 DEF Pipe!Write
  <2>2. CASE readers[fd[s]] = {}
    <3>1. /\ fifoPc' = [fifoPc EXCEPT ![s] = "killed"]
          /\ Pipe!Release(s)
          /\ UNCHANGED <<fifoNamed, fifoUsed, taken, missed, past>>
      BY <1>4, <2>2 DEF Pipe!Write
    <3> QED BY <3>1 DEF Pipe!Release
  <2> QED BY <2>1, <2>2
<1>5. ASSUME NEW s \in Servers, Pipe!CloseWriter(s) PROVE FifoKinds'
  BY <1>5 DEF Pipe!CloseWriter, Pipe!Release
<1>6. ASSUME NEW c \in Clients, Pipe!OpenForReading(c) PROVE FifoKinds'
  <2>1. CASE fifoNamed = None
    BY <1>6, <2>1 DEF Pipe!OpenForReading
  <2>2. CASE fifoNamed # None
    <3>1. /\ Pipe!OpenEnd(c, fifoNamed, writers[fifoNamed])
          /\ readers' = [readers EXCEPT ![fifoNamed] = @ \cup {c}]
          /\ fd' = [fd EXCEPT ![c] = fifoNamed]
          /\ UNCHANGED <<fifoNamed, fifoUsed, writers, buffer, taken, missed,
                         past>>
      BY <1>6, <2>2 DEF Pipe!OpenForReading
    <3>2. readers' \in [Fifos -> SUBSET Clients]
      BY <3>1
    <3> QED BY <2>2, <3>1, <3>2, OpenEndKeeps
  <2> QED BY <2>1, <2>2
<1>7. ASSUME NEW c \in Clients, Pipe!Read(c) PROVE FifoKinds'
  <2>1. fd[c] \in Fifos /\ buffer[fd[c]] \in Nat
    BY <1>7 DEF Pipe!Read
  <2> QED BY <1>7, <2>1 DEF Pipe!Read
<1>8. ASSUME NEW c \in Clients, Pipe!CloseReader(c) PROVE FifoKinds'
  BY <1>8 DEF Pipe!CloseReader, Pipe!Release
<1>9. ASSUME NEW c \in Clients, Pipe!Unlink(c) PROVE FifoKinds'
  BY <1>9 DEF Pipe!Unlink
<1>10. ASSUME NEW p \in Servers \cup Clients, Pipe!Dies(p) PROVE FifoKinds'
  BY <1>10 DEF Pipe!Dies, Pipe!Release
<1> QED BY <1>1, <1>2, <1>3, <1>4, <1>5, <1>6, <1>7, <1>8, <1>9, <1>10
        DEF Pipe!Next, Pipe!ServerStep, Pipe!ClientStep

(* What has happened to a process cannot be undone, and whoever takes a    *)
(* step has been started.                                                  *)
LEMMA NobodyReturns ==
  ASSUME FifoKinds, Pipe!Next
  PROVE  /\ \A p \in Servers \cup Clients :
              /\ fifoPc[p] # "start" => fifoPc'[p] # "start"
              /\ fifoPc[p] = "dead" => fifoPc'[p] = "dead"
         /\ missed \subseteq missed'
<1> USE DEF FifoKinds, Pipe!TypeOK, Pipe!Procs, Pipe!Goes
<1> DEFINE Onward ==
             /\ \A p \in Servers \cup Clients :
                  /\ fifoPc[p] # "start" => fifoPc'[p] # "start"
                  /\ fifoPc[p] = "dead" => fifoPc'[p] = "dead"
             /\ missed \subseteq missed'
<1>1. ASSUME NEW s \in Servers, Pipe!MakeFifo(s) PROVE Onward
  BY <1>1 DEF Pipe!MakeFifo
<1>2. ASSUME NEW s \in Servers, Pipe!OpenForWriting(s) PROVE Onward
  BY <1>2 DEF Pipe!OpenForWriting, Pipe!OpenEnd
<1>3. ASSUME NEW s \in Servers, Pipe!Write(s) PROVE Onward
  BY <1>3 DEF Pipe!Write
<1>4. ASSUME NEW s \in Servers, Pipe!CloseWriter(s) PROVE Onward
  BY <1>4 DEF Pipe!CloseWriter
<1>5. ASSUME NEW c \in Clients, Pipe!OpenForReading(c) PROVE Onward
  BY <1>5 DEF Pipe!OpenForReading, Pipe!OpenEnd
<1>6. ASSUME NEW c \in Clients, Pipe!ClientStep(c) PROVE Onward
  BY <1>6 DEF Pipe!ClientStep, Pipe!Read, Pipe!CloseReader, Pipe!Unlink
<1>7. ASSUME NEW p \in Servers \cup Clients, Pipe!Dies(p) PROVE Onward
  BY <1>7 DEF Pipe!Dies
<1> HIDE DEF Onward
<1>8. Onward
  BY <1>1, <1>2, <1>3, <1>4, <1>5, <1>6, <1>7
     DEF Pipe!Next, Pipe!ServerStep
<1> QED BY <1>8 DEF Onward

(* As long as it is quiet only the two take steps.                         *)
LEMMA OnlyTheTwo ==
  ASSUME FifoKinds, Pipe!Next, NEW s \in Servers, NEW c \in Clients,
         Quiet(s, c)'
  PROVE  /\ Quiet(s, c)
         /\ \/ Pipe!MakeFifo(s) \/ Pipe!OpenForWriting(s)
            \/ Pipe!Write(s) \/ Pipe!CloseWriter(s)
            \/ Pipe!OpenForReading(c)
            \/ Pipe!Read(c) \/ Pipe!CloseReader(c) \/ Pipe!Unlink(c)
<1> USE MemoryAssumption DEF FifoKinds, Pipe!TypeOK, Pipe!Procs, Pipe!Goes
<1>1. Quiet(s, c)
  BY NobodyReturns DEF Quiet
<1>2. ASSUME NEW p \in Servers, Pipe!MakeFifo(p) \/ Pipe!ServerStep(p)
      PROVE  p = s
  <2>1. fifoPc'[p] # "start"
    BY <1>2, NobodyReturns
       DEF Pipe!MakeFifo, Pipe!ServerStep, Pipe!OpenForWriting, Pipe!Write,
           Pipe!CloseWriter
  <2> QED BY <2>1 DEF Quiet
<1>3. ASSUME NEW p \in Clients, Pipe!OpenForReading(p) \/ Pipe!ClientStep(p)
      PROVE  p = c
  <2>1. fifoPc'[p] # "start"
    BY <1>3, NobodyReturns
       DEF Pipe!OpenForReading, Pipe!OpenEnd, Pipe!ClientStep, Pipe!Read,
           Pipe!CloseReader, Pipe!Unlink
  <2> QED BY <2>1 DEF Quiet
<1>4. ASSUME NEW p \in Servers \cup Clients, Pipe!Dies(p) PROVE FALSE
  BY <1>4 DEF Pipe!Dies, Quiet
<1> QED BY <1>1, <1>2, <1>3, <1>4
        DEF Pipe!Next, Pipe!ServerStep, Pipe!ClientStep

LEMMA ServerMeets ==
  ASSUME FifoKinds, NEW s \in Servers, NEW c \in Clients, Meeting(s, c),
         \/ Pipe!MakeFifo(s) \/ Pipe!OpenForWriting(s)
         \/ Pipe!Write(s) \/ Pipe!CloseWriter(s)
  PROVE  Meeting(s, c)'
<1> USE MemoryAssumption, FifoAssumption
    DEF FifoKinds, Pipe!TypeOK, Pipe!Procs, Pipe!Goes, HasOpen, Fed
<1>0. s # c
  OBVIOUS
<1>1. CASE Pipe!MakeFifo(s)
  <2>1. /\ fifoPc[s] = "start" /\ fifoPc[c] = "start"
        /\ fifoPc'[s] = "open" /\ fifoPc'[c] = "start"
        /\ fifoNamed' \in Fifos /\ fifoNamed' # None
        /\ readers' = readers /\ writers' = writers /\ buffer' = buffer
    BY <1>0, <1>1 DEF Pipe!MakeFifo, Meeting, InStep
  <2> QED BY <2>1 DEF Meeting, InStep
<1>2. CASE Pipe!OpenForWriting(s)
  <2>1. /\ fifoPc[s] = "open" /\ fifoNamed # None /\ fifoNamed \in Fifos
        /\ fifoPc[c] \in {"start", "opening"}
        /\ fifoNamed' = fifoNamed /\ fd' = [fd EXCEPT ![s] = fifoNamed]
        /\ writers' = [writers EXCEPT ![fifoNamed] = @ \cup {s}]
        /\ readers' = readers /\ buffer' = buffer /\ taken' = taken
        /\ Pipe!OpenEnd(s, fifoNamed, readers[fifoNamed])
    BY <1>2 DEF Pipe!OpenForWriting, Meeting, InStep
  <2>2. /\ fd'[s] = fifoNamed /\ fd'[c] = fd[c]
        /\ \A f \in Fifos : writers'[f] = IF f = fifoNamed THEN {s} ELSE {}
    BY <1>0, <2>1 DEF Meeting
  <2>3. CASE fifoPc[c] = "start"
    <3>1. readers[fifoNamed] = {}
      BY <2>1, <2>3 DEF Meeting
    <3>2. fifoPc'[s] = "opening" /\ fifoPc'[c] = "start"
      BY <1>0, <2>1, <2>3, <3>1, OpenEndFact
    <3> QED BY <2>1, <2>2, <2>3, <3>2 DEF Meeting, InStep
  <2>4. CASE fifoPc[c] = "opening"
    <3>1. readers[fifoNamed] = {c}
      BY <2>1, <2>4 DEF Meeting
    <3>2. fifoPc'[s] = "transfer" /\ fifoPc'[c] = "transfer"
      BY <1>0, <2>1, <2>4, <3>1, OpenEndFact
    <3> QED BY <2>1, <2>2, <2>4, <3>2 DEF Meeting, InStep
  <2> QED BY <2>1, <2>3, <2>4
<1>3. CASE Pipe!Write(s)
  <2>1. /\ fifoPc[s] = "transfer" /\ fifoPc[c] = "transfer"
        /\ fifoNamed \in Fifos /\ fd[s] = fifoNamed
        /\ readers[fd[s]] = {c} /\ buffer[fd[s]] = 0
    BY <1>3 DEF Pipe!Write, Meeting, InStep
  <2>2. /\ fifoPc' = [fifoPc EXCEPT ![s] = "close"]
        /\ buffer' = [buffer EXCEPT ![fd[s]] = @ + 1]
        /\ fifoNamed' = fifoNamed /\ readers' = readers
        /\ writers' = writers /\ fd' = fd /\ taken' = taken
    BY <1>3, <2>1 DEF Pipe!Write
  <2>3. /\ fifoPc'[s] = "close" /\ fifoPc'[c] = "transfer"
        /\ buffer'[fifoNamed] = 1
    BY <1>0, <2>1, <2>2
  <2> QED BY <2>1, <2>2, <2>3 DEF Meeting, InStep
<1>4. CASE Pipe!CloseWriter(s)
  <2>1. /\ fifoPc[s] = "close" /\ fifoPc'[s] = "done"
        /\ fifoPc'[c] = fifoPc[c] /\ fifoPc[c] \in {"transfer"} \cup Fed
        /\ readers' = [f \in Fifos |-> readers[f] \ {s}]
        /\ writers' = [f \in Fifos |-> writers[f] \ {s}]
        /\ buffer' = [f \in Fifos |->
             IF readers'[f] = {} /\ writers'[f] = {} THEN 0 ELSE buffer[f]]
        /\ fd'[c] = fd[c] /\ fifoNamed' = fifoNamed /\ taken' = taken
    BY <1>0, <1>4 DEF Pipe!CloseWriter, Pipe!Release, Meeting, InStep
  <2>2. \A f \in Fifos : readers'[f] = readers[f] /\ writers'[f] = {}
    BY <1>0, <2>1 DEF Meeting
  <2>3. fifoPc[c] = "transfer" => buffer'[fifoNamed] = buffer[fifoNamed]
    BY <2>1, <2>2 DEF Meeting
  <2> QED BY <2>1, <2>2, <2>3 DEF Meeting, InStep
<1> QED BY <1>1, <1>2, <1>3, <1>4

LEMMA ClientMeets ==
  ASSUME FifoKinds, NEW s \in Servers, NEW c \in Clients, Meeting(s, c),
         missed' = {},
         \/ Pipe!OpenForReading(c)
         \/ Pipe!Read(c) \/ Pipe!CloseReader(c) \/ Pipe!Unlink(c)
  PROVE  Meeting(s, c)'
<1> USE MemoryAssumption, FifoAssumption
    DEF FifoKinds, Pipe!TypeOK, Pipe!Procs, Pipe!Goes, HasOpen, Fed
<1>0. s # c
  OBVIOUS
<1>1. CASE Pipe!OpenForReading(c)
  <2>1. /\ fifoPc[c] = "start" /\ fifoNamed # None /\ fifoNamed \in Fifos
        /\ fifoPc[s] \in {"open", "opening"}
        /\ fifoNamed' = fifoNamed /\ fd' = [fd EXCEPT ![c] = fifoNamed]
        /\ readers' = [readers EXCEPT ![fifoNamed] = @ \cup {c}]
        /\ writers' = writers /\ buffer' = buffer /\ taken' = taken
        /\ Pipe!OpenEnd(c, fifoNamed, writers[fifoNamed])
    BY <1>1 DEF Pipe!OpenForReading, Meeting, InStep
  <2>2. /\ fd'[c] = fifoNamed /\ fd'[s] = fd[s]
        /\ \A f \in Fifos : readers'[f] = IF f = fifoNamed THEN {c} ELSE {}
    BY <1>0, <2>1 DEF Meeting
  <2>3. CASE fifoPc[s] = "open"
    <3>1. writers[fifoNamed] = {}
      BY <2>1, <2>3 DEF Meeting
    <3>2. fifoPc'[c] = "opening" /\ fifoPc'[s] = "open"
      BY <1>0, <2>1, <2>3, <3>1, OpenEndFact
    <3> QED BY <2>1, <2>2, <2>3, <3>2 DEF Meeting, InStep
  <2>4. CASE fifoPc[s] = "opening"
    <3>1. writers[fifoNamed] = {s}
      BY <2>1, <2>4 DEF Meeting
    <3>2. fifoPc'[c] = "transfer" /\ fifoPc'[s] = "transfer"
      BY <1>0, <2>1, <2>4, <3>1, OpenEndFact
    <3> QED BY <2>1, <2>2, <2>4, <3>2 DEF Meeting, InStep
  <2> QED BY <2>1, <2>3, <2>4
<1>2. CASE Pipe!Read(c)
  <2>1. /\ fifoPc[c] = "transfer" /\ fifoPc[s] \in {"transfer", "close", "done"}
        /\ fifoNamed \in Fifos /\ fd[c] = fifoNamed
        /\ buffer[fd[c]] > 0 \/ writers[fd[c]] = {}
    BY <1>2 DEF Pipe!Read, Meeting, InStep
  <2>2. fifoPc[s] # "transfer" /\ buffer[fd[c]] = 1
    BY <2>1 DEF Meeting
  <2>3. /\ fifoPc'[c] = "close" /\ fifoPc'[s] = fifoPc[s] /\ taken'[c] = 1
        /\ fifoNamed' = fifoNamed /\ readers' = readers
        /\ writers' = writers /\ fd' = fd
    BY <1>0, <1>2, <2>2 DEF Pipe!Read
  <2> QED BY <2>1, <2>2, <2>3 DEF Meeting, InStep
<1>3. CASE Pipe!CloseReader(c)
  <2>1. /\ fifoPc[c] = "close" /\ fifoPc'[c] = "unlink"
        /\ fifoPc'[s] = fifoPc[s] /\ fifoPc[s] \in {"close", "done"}
        /\ readers' = [f \in Fifos |-> readers[f] \ {c}]
        /\ writers' = [f \in Fifos |-> writers[f] \ {c}]
        /\ fd'[s] = fd[s] /\ fifoNamed' = fifoNamed /\ taken' = taken
    BY <1>0, <1>3 DEF Pipe!CloseReader, Pipe!Release, Meeting, InStep
  <2>2. \A f \in Fifos : readers'[f] = {} /\ writers'[f] = writers[f]
    BY <1>0, <2>1 DEF Meeting
  <2> QED BY <2>1, <2>2 DEF Meeting, InStep
<1>4. CASE Pipe!Unlink(c)
  <2>1. /\ fifoPc[c] = "unlink" /\ fifoPc'[c] = "done" /\ fifoNamed' = None
        /\ fifoPc'[s] = fifoPc[s] /\ fifoPc[s] \in {"close", "done"}
        /\ UNCHANGED <<readers, writers, buffer, fd, taken>>
    BY <1>0, <1>4 DEF Pipe!Unlink, Meeting, InStep
  <2> QED BY <2>1 DEF Meeting, InStep
<1> QED BY <1>1, <1>2, <1>3, <1>4

LEMMA FifoInvariant == Pipe!Spec => [](FifoKinds /\ Met)
<1>1. Pipe!Init => FifoKinds /\ Met
  <2> SUFFICES ASSUME Pipe!Init PROVE FifoKinds /\ Met
    OBVIOUS
  <2>1. FifoKinds
    BY DEF Pipe!Init, FifoKinds, Pipe!TypeOK, Pipe!Procs, HasOpen
  <2>2. \A s \in Servers, c \in Clients : Meeting(s, c)
    BY DEF Pipe!Init, Pipe!Procs, Meeting, InStep, HasOpen, Fed
  <2> QED BY <2>1, <2>2 DEF Met
<1>2. ASSUME FifoKinds, Met, [Pipe!Next]_(Pipe!vars) PROVE Met'
  <2>1. CASE UNCHANGED Pipe!vars
    <3>1. UNCHANGED <<fifoNamed, readers, writers, buffer, fifoPc, fd, taken,
                      missed>>
      BY <2>1 DEF Pipe!vars
    <3>2. ASSUME NEW s \in Servers, NEW c \in Clients
          PROVE  /\ Quiet(s, c)' <=> Quiet(s, c)
                 /\ Meeting(s, c)' <=> Meeting(s, c)
      BY <3>1 DEF Quiet, Meeting, InStep
    <3> QED BY <1>2, <3>2 DEF Met
  <2>2. CASE Pipe!Next
    <3> SUFFICES ASSUME NEW s \in Servers, NEW c \in Clients, Quiet(s, c)'
                 PROVE  Meeting(s, c)'
      BY DEF Met
    <3>1. Meeting(s, c) /\ missed' = {}
      BY <1>2, <2>2, OnlyTheTwo DEF Met, Quiet
    <3> QED BY <1>2, <2>2, <3>1, OnlyTheTwo, ServerMeets, ClientMeets
  <2> QED BY <1>2, <2>1, <2>2
<1> QED BY <1>1, <1>2, FifoTypes, PTL DEF Pipe!Spec

(* Readers and writers are clients and servers, and no end is open that    *)
(* was not opened by a name.                                               *)
THEOREM FifoTypeCorrect == Pipe!Spec => []Pipe!TypeOK
<1>1. FifoKinds => Pipe!TypeOK
  BY DEF FifoKinds
<1> QED BY <1>1, FifoInvariant, PTL

(* A server that waits in open() is alone on its FIFO.  As long as that    *)
(* has the name, only clients the server knows about can remove it, and    *)
(* once it has not, one of them has.                                       *)
PastOpen == {"transfer", "close", "unlink"}

Waits(s) == fifoPc[s] = "opening" =>
  /\ s \in writers[fd[s]] /\ readers[fd[s]] = {}
  /\ fd[s] = fifoNamed =>
       \A c \in Clients : fifoPc[c] \in PastOpen => c \in past[s]
  /\ fd[s] # fifoNamed => \E c \in past[s] : fifoPc[c] = "done"

Guarded == \A s \in Servers : Waits(s)

(* Steps that move one process, to where it can do no harm.                *)
LEMMA GuardedStays ==
  ASSUME FifoKinds, Guarded, NEW p \in Servers \cup Clients,
         NEW to \in {"open", "transfer", "close", "unlink", "done", "killed",
                     "dead"},
         fifoPc' = [fifoPc EXCEPT ![p] = to],
         p \in Clients /\ to \in PastOpen =>
           fifoPc[p] \in PastOpen \/ fifoNamed = None,
         fifoPc[p] # "done",
         \A q \in (Servers \cup Clients) \ {p} : fd'[q] = fd[q],
         \A f \in Fifos : /\ readers'[f] \subseteq readers[f]
                          /\ writers[f] \ {p} \subseteq writers'[f],
         UNCHANGED <<fifoNamed, past>>
  PROVE  Guarded'
<1> SUFFICES ASSUME NEW s \in Servers, fifoPc'[s] = "opening"
             PROVE  Waits(s)'
  BY DEF Guarded, Waits
<1>1. s # p /\ fifoPc[s] = "opening" /\ fd'[s] = fd[s]
  BY DEF FifoKinds, Pipe!TypeOK, Pipe!Procs
<1>2. fd[s] \in Fifos /\ fd[s] # None /\ past[s] \subseteq Clients
  BY <1>1 DEF FifoKinds, Pipe!TypeOK, Pipe!Procs, HasOpen
<1>3. s \in writers'[fd'[s]] /\ readers'[fd'[s]] = {}
  BY <1>1, <1>2 DEF Guarded, Waits
<1>4. \A c \in Clients : /\ fifoPc[c] = "done" => fifoPc'[c] = "done"
                         /\ fifoPc'[c] \in PastOpen =>
                              fifoPc[c] \in PastOpen \/ fifoNamed = None
  BY DEF FifoKinds, Pipe!TypeOK, Pipe!Procs
<1> QED BY <1>1, <1>2, <1>3, <1>4 DEF Guarded, Waits

LEMMA GuardedNext ==
  ASSUME FifoKinds, Guarded, [Pipe!Next]_(Pipe!vars)
  PROVE  Guarded'
<1> USE MemoryAssumption, FifoAssumption
    DEF FifoKinds, Pipe!TypeOK, Pipe!Procs, Pipe!Goes, PastOpen
<1>1. CASE UNCHANGED Pipe!vars
  BY <1>1 DEF Pipe!vars, Guarded, Waits
<1>2. ASSUME NEW s \in Servers, Pipe!MakeFifo(s) PROVE Guarded'
  <2>1. CASE fifoNamed # None
    BY <1>2, <2>1, GuardedStays DEF Pipe!MakeFifo
  <2>2. CASE fifoNamed = None
    <3> SUFFICES ASSUME NEW q \in Servers, fifoPc'[q] = "opening"
                 PROVE  Waits(q)'
      BY DEF Guarded, Waits
    <3>1. /\ fifoPc[q] = "opening" /\ fifoNamed' \notin fifoUsed
          /\ fifoPc' = [fifoPc EXCEPT ![s] = "open"]
          /\ UNCHANGED <<readers, writers, fd, past>>
      BY <1>2, <2>2 DEF Pipe!MakeFifo
    <3>2. fd[q] \in fifoUsed
      BY <3>1 DEF HasOpen
    <3>3. Waits(q) /\ fd[q] # fifoNamed
      BY <2>2, <3>2 DEF Guarded
    <3>4. \A c \in Clients : fifoPc'[c] = fifoPc[c]
      BY <3>1
    <3> QED BY <3>1, <3>2, <3>3, <3>4 DEF Waits
  <2> QED BY <2>1, <2>2
<1>3. ASSUME NEW s \in Servers, Pipe!OpenForWriting(s) PROVE Guarded'
  <2>1. CASE fifoNamed = None
    <3> SUFFICES ASSUME NEW q \in Servers, fifoPc'[q] = "opening"
                 PROVE  Waits(q)'
      BY DEF Guarded, Waits
    <3>1. q # s /\ fifoPc[q] = "opening"
      BY <1>3, <2>1 DEF Pipe!OpenForWriting
    <3>2. /\ \A c \in Clients : fifoPc'[c] = fifoPc[c]
          /\ past'[q] = past[q]
          /\ UNCHANGED <<fifoNamed, readers, writers, fd>>
      BY <1>3, <2>1, <3>1 DEF Pipe!OpenForWriting
    <3> QED BY <3>1, <3>2 DEF Guarded, Waits
  <2>2. CASE fifoNamed # None
    <3>1. /\ Pipe!OpenEnd(s, fifoNamed, readers[fifoNamed])
          /\ writers' = [writers EXCEPT ![fifoNamed] = @ \cup {s}]
          /\ fd' = [fd EXCEPT ![s] = fifoNamed]
          /\ past' = [past EXCEPT ![s] = {c \in Clients :
                                            fifoPc[c] \in PastOpen}]
          /\ UNCHANGED <<fifoNamed, readers>>
      BY <1>3, <2>2 DEF Pipe!OpenForWriting
    <3>2. ASSUME NEW q \in Servers, fifoPc'[q] = "opening"
          PROVE  Waits(q)'
      <4>1. CASE q = s
        <5>1. readers[fifoNamed] = {}
          BY <3>1, <3>2, <4>1, OpenEndFact
        <5>2. \A c \in Clients : fifoPc'[c] = fifoPc[c]
          BY <3>1, <5>1, OpenEndFact
        <5> QED BY <2>2, <3>1, <4>1, <5>1, <5>2 DEF Waits
      <4>2. CASE q # s
        <5>1. fifoPc[q] = "opening" /\ Waits(q) /\ fd[q] # None
          BY <3>1, <3>2, <4>2, OpenEndFact DEF Guarded, HasOpen
        <5>2. fd'[q] = fd[q] /\ past'[q] = past[q]
          BY <3>1, <4>2
        <5>3. q \in writers'[fd'[q]] /\ readers'[fd'[q]] = {}
          BY <3>1, <5>1, <5>2 DEF Waits
        <5>4. ASSUME fd[q] = fifoNamed, NEW c \in Clients
              PROVE  fifoPc'[c] = fifoPc[c]
          BY <3>1, <5>1, <5>4, OpenEndFact DEF Waits
        <5>5. \A c \in Clients : fifoPc[c] = "done" => fifoPc'[c] = "done"
          BY <3>1, OpenEndFact
        <5> QED BY <3>1, <5>1, <5>2, <5>3, <5>4, <5>5 DEF Waits
      <4> QED BY <4>1, <4>2
    <3> QED BY <3>2 DEF Guarded, Waits
  <2> QED BY <2>1, <2>2
<1>4. ASSUME NEW s \in Servers, Pipe!Write(s) PROVE Guarded'
  <2>1. CASE readers[fd[s]] # {}
    BY <1>4, <2>1, GuardedStays DEF Pipe!Write
  <2>2. CASE readers[fd[s]] = {}
    <3>1. /\ fifoPc[s] = "transfer" /\ fifoPc' = [fifoPc EXCEPT ![s] = "killed"]
          /\ readers' = [f \in Fifos |-> readers[f] \ {s}]
          /\ writers' = [f \in Fifos |-> writers[f] \ {s}]
          /\ fd' = [fd EXCEPT ![s] = None]
          /\ UNCHANGED <<fifoNamed, past>>
      BY <1>4, <2>2 DEF Pipe!Write, Pipe!Release
    <3> QED BY <3>1, GuardedStays
  <2> QED BY <2>1, <2>2
<1>5. ASSUME NEW s \in Servers, Pipe!CloseWriter(s) PROVE Guarded'
  BY <1>5, GuardedStays DEF Pipe!CloseWriter, Pipe!Release
<1>6. ASSUME NEW c \in Clients, Pipe!OpenForReading(c) PROVE Guarded'
  <2>1. CASE fifoNamed = None
    BY <1>6, <2>1, GuardedStays DEF Pipe!OpenForReading
  <2>2. CASE fifoNamed # None
    <3>1. /\ Pipe!OpenEnd(c, fifoNamed, writers[fifoNamed])
          /\ readers' = [readers EXCEPT ![fifoNamed] = @ \cup {c}]
          /\ fd' = [fd EXCEPT ![c] = fifoNamed]
          /\ fifoPc[c] = "start"
          /\ UNCHANGED <<fifoNamed, writers, past>>
      BY <1>6, <2>2 DEF Pipe!OpenForReading
    <3>2. ASSUME NEW q \in Servers, fifoPc'[q] = "opening"
          PROVE  Waits(q)'
      <4>1. /\ fifoPc[q] = "opening" /\ q \notin writers[fifoNamed]
            /\ fd[q] # None
        BY <3>1, <3>2, OpenEndFact DEF HasOpen
      <4>2. Waits(q) /\ fd[q] # fifoNamed /\ fd'[q] = fd[q]
        BY <3>1, <4>1 DEF Guarded, Waits
      <4>3. q \in writers'[fd'[q]] /\ readers'[fd'[q]] = {}
        BY <3>1, <4>1, <4>2 DEF Waits
      <4>4. \A d \in Clients : fifoPc[d] = "done" => fifoPc'[d] = "done"
        BY <3>1, OpenEndFact
      <4> QED BY <3>1, <4>1, <4>2, <4>3, <4>4 DEF Waits
    <3> QED BY <3>2 DEF Guarded, Waits
  <2> QED BY <2>1, <2>2
<1>7. ASSUME NEW c \in Clients, Pipe!Read(c) PROVE Guarded'
  BY <1>7, GuardedStays DEF Pipe!Read
<1>8. ASSUME NEW c \in Clients, Pipe!CloseReader(c) PROVE Guarded'
  BY <1>8, GuardedStays DEF Pipe!CloseReader, Pipe!Release
<1>9. ASSUME NEW c \in Clients, Pipe!Unlink(c) PROVE Guarded'
  <2> SUFFICES ASSUME NEW q \in Servers, fifoPc'[q] = "opening"
               PROVE  Waits(q)'
    BY DEF Guarded, Waits
  <2>1. /\ fifoPc[q] = "opening" /\ fifoPc[c] = "unlink"
        /\ fifoPc' = [fifoPc EXCEPT ![c] = "done"] /\ fifoNamed' = None
        /\ UNCHANGED <<readers, writers, fd, past>>
    BY <1>9 DEF Pipe!Unlink
  <2>2. Waits(q) /\ fd[q] # None
    BY <2>1 DEF Guarded, HasOpen
  <2>3. c \in past[q] \/ \E d \in past[q] : fifoPc[d] = "done"
    BY <2>1, <2>2 DEF Waits
  <2> QED BY <2>1, <2>2, <2>3 DEF Waits
<1>10. ASSUME NEW p \in Servers \cup Clients, Pipe!Dies(p) PROVE Guarded'
  BY <1>10, GuardedStays DEF Pipe!Dies, Pipe!Release
<1> QED BY <1>1, <1>2, <1>3, <1>4, <1>5, <1>6, <1>7, <1>8, <1>9, <1>10
        DEF Pipe!Next, Pipe!ServerStep, Pipe!ClientStep

(* Nobody removes the FIFO under a server that waits for its only client,  *)
(* nobody reads or writes too early, and a server is left on a FIFO        *)
(* without a name only by a client it found past its open().               *)
THEOREM FifoCorrect == Pipe!Spec => []FifoIsSafe
<1>1. ASSUME FifoKinds, Met PROVE Pipe!OnePairIsSafe
  <2> SUFFICES ASSUME NEW s \in Servers, NEW c \in Clients,
                      Pipe!Started \subseteq {s, c}, missed = {},
                      fifoPc[s] # "dead", fifoPc[c] # "dead"
               PROVE  /\ ~Pipe!Stranded(s) /\ fifoPc[s] # "killed"
                      /\ fifoPc[c] \in {"close", "unlink", "done"}
                           => taken[c] = 1
    BY DEF Pipe!OnePairIsSafe
  <2>1. Quiet(s, c)
    BY DEF Quiet, Pipe!Started, Pipe!Procs
  <2>2. Meeting(s, c)
    BY <1>1, <2>1 DEF Met
  <2> QED BY <2>2 DEF Meeting, InStep, Pipe!Stranded, Fed
<1>2. Guarded => Pipe!StrandedByClientPast
  BY DEF Guarded, Waits, Pipe!StrandedByClientPast, Pipe!Stranded
<1>3. Pipe!Init => Guarded
  BY DEF Pipe!Init, Pipe!Procs, Guarded, Waits
<1>4. Pipe!Spec => []Guarded
  BY <1>3, GuardedNext, FifoInvariant, PTL DEF Pipe!Spec
<1>5. FifoKinds /\ Met /\ Guarded => FifoIsSafe
  BY <1>1, <1>2 DEF FifoIsSafe, Pipe!FifoIsSafe
<1> QED BY <1>4, <1>5, FifoInvariant, PTL

-----------------------------------------------------------------------------
(* Counting.                                                               *)

LEMMA Recount ==
  ASSUME NEW S, NEW T, NEW x, IsFiniteSet(S), S \ {x} = T \ {x}
  PROVE  /\ IsFiniteSet(T)
         /\ Cardinality(S) \in Nat /\ Cardinality(T) \in Nat
         /\ Cardinality(T) = Cardinality(S) - (IF x \in S THEN 1 ELSE 0)
                                            + (IF x \in T THEN 1 ELSE 0)
<1>1. /\ IsFiniteSet(S \ {x})
      /\ Cardinality(S \ {x}) =
           Cardinality(S) - (IF x \in S THEN 1 ELSE 0)
  BY FS_RemoveElement, FS_CardinalityType
<1>2. CASE x \in T
  <2>1. T = (S \ {x}) \cup {x}
    BY <1>2
  <2>2. /\ IsFiniteSet(T)
        /\ Cardinality(T) = Cardinality(S \ {x}) + 1
    BY <1>1, <2>1, FS_AddElement
  <2> QED BY <1>1, <1>2, <2>2, FS_CardinalityType
<1>3. CASE x \notin T
  <2>1. T = S \ {x}
    BY <1>3
  <2> QED BY <1>1, <1>3, <2>1, FS_CardinalityType
<1> QED BY <1>2, <1>3

-----------------------------------------------------------------------------
(* The POSIX queue.                                                        *)

PosixKinds ==
  /\ posixNamed \in Queues \cup {None} /\ posixUsed \subseteq Queues
  /\ posixContent \in [Queues -> Seq(Posix!Messages)]
  /\ posixPc \in [Posix!Procs -> {"start", "send", "reopen", "receive",
                                  "unlink", "done", "dead"}]
  /\ mq \in [Posix!Procs -> Queues \cup {None}]

(* Servers run one after the other, and a descriptor in use is a queue's.  *)
PosixTurns ==
  /\ \A s, t \in Servers : Posix!Running(s) /\ Posix!Running(t) => s = t
  /\ \A p \in Posix!Procs : posixPc[p] \in {"send", "receive"} => mq[p] # None

(* The messages in all queues, those whose names are gone included; what   *)
(* the clients hold; the server whose greeting is not back; the dead.      *)
Slots == {x \in Queues \X Nat : x[2] \in 1..Len(posixContent[x[1]])}
Held == {c \in Clients : posixPc[c] \in {"reopen", "send"}}
Owing == {s \in Servers : posixPc[s] \in {"reopen", "receive"}}
Died == {s \in Servers : posixPc[s] = "dead"}

(* A message is made by a server only; a client puts back what it took,    *)
(* maybe into another queue.  So counting the messages of every queue      *)
(* makes LeftoversBounded inductive.                                       *)
Balanced ==
  /\ IsFiniteSet(Slots)
  /\ Cardinality(Slots) + Cardinality(Held)
       <= Cardinality(Owing) + Cardinality(Died)

PosixInv == PosixKinds /\ PosixTurns /\ Balanced

LEMMA PosixCounts ==
  ASSUME PosixInv, NEW p \in Posix!Procs, NEW x,
         \A q \in Posix!Procs \ {p} : posixPc'[q] = posixPc[q],
         Slots \ {x} = Slots' \ {x}
  PROVE  /\ IsFiniteSet(Slots')
         /\ Cardinality(Slots) \in Nat /\ Cardinality(Held) \in Nat
         /\ Cardinality(Owing) \in Nat /\ Cardinality(Died) \in Nat
         /\ Cardinality(Slots') = Cardinality(Slots)
              - (IF x \in Slots THEN 1 ELSE 0)
              + (IF x \in Slots' THEN 1 ELSE 0)
         /\ Cardinality(Held') = Cardinality(Held)
              - (IF p \in Held THEN 1 ELSE 0) + (IF p \in Held' THEN 1 ELSE 0)
         /\ Cardinality(Owing') = Cardinality(Owing)
              - (IF p \in Owing THEN 1 ELSE 0)
              + (IF p \in Owing' THEN 1 ELSE 0)
         /\ Cardinality(Died') = Cardinality(Died)
              - (IF p \in Died THEN 1 ELSE 0) + (IF p \in Died' THEN 1 ELSE 0)
<1>1. IsFiniteSet(Held) /\ IsFiniteSet(Owing) /\ IsFiniteSet(Died)
  BY MemoryAssumption, FS_Subset DEF Held, Owing, Died
<1>2. /\ Held \ {p} = Held' \ {p} /\ Owing \ {p} = Owing' \ {p}
      /\ Died \ {p} = Died' \ {p}
  BY DEF Held, Owing, Died, Posix!Procs
<1>3. IsFiniteSet(Slots)
  BY DEF PosixInv, Balanced
<1> QED
  BY <1>1, <1>2, <1>3, Recount

(* mq_send() makes one message, mq_receive() takes one.                    *)
LEMMA PosixSendAdds ==
  ASSUME PosixInv, NEW p \in Posix!Procs, NEW m \in Posix!Messages, NEW to,
         Posix!Send(p, m, "send", to)
  PROVE  \E x : x \notin Slots /\ x \in Slots' /\ Slots \ {x} = Slots' \ {x}
<1> DEFINE q == mq[p]
           n == Len(posixContent[q])
<1>1. q \in Queues /\ posixContent[q] \in Seq(Posix!Messages)
  BY DEF PosixInv, PosixKinds, PosixTurns, Posix!Send, Posix!Goes
<1>2. posixContent' = [posixContent EXCEPT ![q] = Append(posixContent[q], m)]
  BY DEF Posix!Send
<1>3. n \in Nat /\ Len(posixContent'[q]) = n + 1
  BY <1>1, <1>2 DEF PosixInv, PosixKinds
<1>4. \A r \in Queues \ {q} : posixContent'[r] = posixContent[r]
  BY <1>2 DEF PosixInv, PosixKinds
<1> HIDE DEF q, n
<1>5. <<q, n + 1>> \notin Slots /\ <<q, n + 1>> \in Slots'
  BY <1>1, <1>3 DEF Slots, n
<1>6. Slots \ {<<q, n + 1>>} = Slots' \ {<<q, n + 1>>}
  BY <1>1, <1>3, <1>4 DEF Slots, n
<1> QED BY <1>5, <1>6

LEMMA PosixReceiveTakes ==
  ASSUME PosixInv, NEW p \in Posix!Procs, NEW to,
         Posix!Receive(p, "receive", to)
  PROVE  \E x : x \in Slots /\ x \notin Slots' /\ Slots \ {x} = Slots' \ {x}
<1> DEFINE q == mq[p]
           n == Len(posixContent[q])
<1>1. /\ q \in Queues /\ posixContent[q] \in Seq(Posix!Messages)
      /\ posixContent[q] # <<>>
  BY DEF PosixInv, PosixKinds, PosixTurns, Posix!Receive, Posix!Goes
<1>2. posixContent' = [posixContent EXCEPT ![q] = Tail(posixContent[q])]
  BY DEF Posix!Receive
<1>3. n \in Nat \ {0} /\ Len(posixContent'[q]) = n - 1
  BY <1>1, <1>2 DEF PosixInv, PosixKinds
<1>4. \A r \in Queues \ {q} : posixContent'[r] = posixContent[r]
  BY <1>2 DEF PosixInv, PosixKinds
<1> HIDE DEF q, n
<1>5. <<q, n>> \in Slots /\ <<q, n>> \notin Slots'
  BY <1>1, <1>3 DEF Slots, n
<1>6. Slots \ {<<q, n>>} = Slots' \ {<<q, n>>}
  BY <1>1, <1>3, <1>4 DEF Slots, n
<1> QED BY <1>5, <1>6

LEMMA PosixKindsStep == PosixKinds /\ PosixTurns /\ Posix!Next => PosixKinds'
<1> SUFFICES ASSUME PosixKinds, PosixTurns, Posix!Next PROVE PosixKinds'
  OBVIOUS
<1> USE DEF PosixKinds, PosixTurns, Posix!Procs, Posix!Goes
<1>1. ASSUME NEW p \in Posix!Procs, NEW m \in Posix!Messages,
             NEW to \in {"reopen", "done"}, Posix!Send(p, m, "send", to)
      PROVE  PosixKinds'
  <2>1. mq[p] \in Queues
    BY <1>1 DEF Posix!Send
  <2> QED BY <1>1, <2>1 DEF Posix!Send
<1>2. ASSUME NEW p \in Posix!Procs, NEW to \in {"unlink", "reopen"},
             Posix!Receive(p, "receive", to)
      PROVE  PosixKinds'
  <2>1. mq[p] \in Queues
    BY <1>2 DEF Posix!Receive
  <2> QED BY <1>2, <2>1 DEF Posix!Receive
<1>3. ASSUME NEW p \in Posix!Procs, NEW from,
             NEW to \in {"receive", "send"}, Posix!OpenExisting(p, from, to)
      PROVE  PosixKinds'
  BY <1>3 DEF Posix!OpenExisting
<1>4. ASSUME NEW s \in Servers, Posix!ServerOpen(s) PROVE PosixKinds'
  BY <1>4 DEF Posix!ServerOpen
<1>5. ASSUME NEW s \in Servers, Posix!Unlink(s) PROVE PosixKinds'
  BY <1>5 DEF Posix!Unlink
<1>6. ASSUME NEW p \in Posix!Procs, Posix!Dies(p) PROVE PosixKinds'
  BY <1>6 DEF Posix!Dies
<1> QED
  BY <1>1, <1>2, <1>3, <1>4, <1>5, <1>6
  DEF Posix!Next, Posix!ServerStep, Posix!ClientStep, Posix!ClientOpen,
      Posix!Messages

LEMMA PosixTurnsStep == PosixKinds /\ PosixTurns /\ Posix!Next => PosixTurns'
<1> SUFFICES ASSUME PosixKinds, PosixTurns, Posix!Next PROVE PosixTurns'
  OBVIOUS
<1> USE QueuesAssumption
    DEF PosixKinds, PosixTurns, Posix!Procs, Posix!Goes, Posix!Running
<1>1. ASSUME NEW p \in Posix!Procs, NEW m, NEW to \in {"reopen", "done"},
             Posix!Send(p, m, "send", to)
      PROVE  PosixTurns'
  BY <1>1 DEF Posix!Send
<1>2. ASSUME NEW p \in Posix!Procs, NEW to \in {"unlink", "reopen"},
             Posix!Receive(p, "receive", to)
      PROVE  PosixTurns'
  BY <1>2 DEF Posix!Receive
<1>3. ASSUME NEW p \in Posix!Procs, NEW from,
             NEW to \in {"receive", "send"}, Posix!OpenExisting(p, from, to),
             p \in Servers => from = "reopen"
      PROVE  PosixTurns'
  BY <1>3 DEF Posix!OpenExisting
<1>4. ASSUME NEW s \in Servers, Posix!ServerOpen(s) PROVE PosixTurns'
  BY <1>4 DEF Posix!ServerOpen
<1>5. ASSUME NEW s \in Servers, Posix!Unlink(s) PROVE PosixTurns'
  BY <1>5 DEF Posix!Unlink
<1>6. ASSUME NEW p \in Posix!Procs, Posix!Dies(p) PROVE PosixTurns'
  BY <1>6 DEF Posix!Dies
<1> QED
  BY <1>1, <1>2, <1>3, <1>4, <1>5, <1>6, MemoryAssumption
  DEF Posix!Next, Posix!ServerStep, Posix!ClientStep, Posix!ClientOpen

(* A step that moves no message.                                           *)
LEMMA PosixStays ==
  ASSUME PosixInv, NEW p \in Posix!Procs, posixContent' = posixContent,
         \A q \in Posix!Procs \ {p} : posixPc'[q] = posixPc[q],
         p \notin Held => p \notin Held',
         p \in Owing' \cup Died' <=> p \in Owing \cup Died \/ p \in Died'
  PROVE  Balanced'
<1>1. Slots' = Slots
  BY DEF Slots
<1>2. /\ ~(p \in Owing /\ p \in Died) /\ ~(p \in Owing' /\ p \in Died')
  BY DEF Owing, Died
<1>3. p \in Owing => p \in Owing' \/ p \in Died'
  BY <1>2
<1> QED
  BY <1>1, <1>2, <1>3, PosixCounts DEF PosixInv, Balanced

LEMMA BalancedStep == PosixInv /\ Posix!Next => Balanced'
<1> SUFFICES ASSUME PosixInv, Posix!Next PROVE Balanced'
  OBVIOUS
<1> USE MemoryAssumption
    DEF PosixInv, PosixKinds, Posix!Procs, Posix!Goes, Posix!Running
<1>1. ASSUME NEW s \in Servers, Posix!Send(s, "Hi!", "send", "reopen")
      PROVE  Balanced'
  <2>1. \A q \in Posix!Procs \ {s} : posixPc'[q] = posixPc[q]
    BY <1>1 DEF Posix!Send
  <2>2. /\ s \notin Held /\ s \notin Held' /\ s \notin Owing /\ s \in Owing'
        /\ s \notin Died /\ s \notin Died'
    BY <1>1 DEF Posix!Send, Held, Owing, Died
  <2>3. PICK x : x \notin Slots /\ x \in Slots' /\ Slots \ {x} = Slots' \ {x}
    BY <1>1, PosixSendAdds DEF Posix!Messages
  <2> QED BY <2>1, <2>2, <2>3, PosixCounts DEF Balanced
<1>2. ASSUME NEW s \in Servers, Posix!Receive(s, "receive", "unlink")
      PROVE  Balanced'
  <2>1. \A q \in Posix!Procs \ {s} : posixPc'[q] = posixPc[q]
    BY <1>2 DEF Posix!Receive
  <2>2. /\ s \notin Held /\ s \notin Held' /\ s \in Owing /\ s \notin Owing'
        /\ s \notin Died /\ s \notin Died'
    BY <1>2 DEF Posix!Receive, Held, Owing, Died
  <2>3. PICK x : x \in Slots /\ x \notin Slots' /\ Slots \ {x} = Slots' \ {x}
    BY <1>2, PosixReceiveTakes
  <2> QED BY <2>1, <2>2, <2>3, PosixCounts DEF Balanced
<1>3. ASSUME NEW c \in Clients, Posix!Receive(c, "receive", "reopen")
      PROVE  Balanced'
  <2>1. \A q \in Posix!Procs \ {c} : posixPc'[q] = posixPc[q]
    BY <1>3 DEF Posix!Receive
  <2>2. /\ c \notin Held /\ c \in Held' /\ c \notin Owing /\ c \notin Owing'
        /\ c \notin Died /\ c \notin Died'
    BY <1>3 DEF Posix!Receive, Held, Owing, Died
  <2>3. PICK x : x \in Slots /\ x \notin Slots' /\ Slots \ {x} = Slots' \ {x}
    BY <1>3, PosixReceiveTakes
  <2> QED BY <2>1, <2>2, <2>3, PosixCounts DEF Balanced
<1>4. ASSUME NEW c \in Clients, Posix!Send(c, "Hello!", "send", "done")
      PROVE  Balanced'
  <2>1. \A q \in Posix!Procs \ {c} : posixPc'[q] = posixPc[q]
    BY <1>4 DEF Posix!Send
  <2>2. /\ c \in Held /\ c \notin Held' /\ c \notin Owing /\ c \notin Owing'
        /\ c \notin Died /\ c \notin Died'
    BY <1>4 DEF Posix!Send, Held, Owing, Died
  <2>3. PICK x : x \notin Slots /\ x \in Slots' /\ Slots \ {x} = Slots' \ {x}
    BY <1>4, PosixSendAdds DEF Posix!Messages
  <2> QED BY <2>1, <2>2, <2>3, PosixCounts DEF Balanced
<1>5. ASSUME NEW p \in Posix!Procs,
             \/ p \in Servers /\ Posix!ServerOpen(p)
             \/ p \in Servers
                /\ Posix!OpenExisting(p, "reopen", "receive")
             \/ p \in Servers /\ Posix!Unlink(p)
             \/ p \in Clients /\ Posix!ClientOpen(p)
             \/ p \in Clients /\ Posix!OpenExisting(p, "reopen", "send")
             \/ Posix!Dies(p)
      PROVE  Balanced'
  <2>1. /\ posixContent' = posixContent
        /\ \A q \in Posix!Procs \ {p} : posixPc'[q] = posixPc[q]
    BY <1>5 DEF Posix!ServerOpen, Posix!OpenExisting, Posix!Unlink,
                Posix!ClientOpen, Posix!Dies
  <2>2. p \notin Held => p \notin Held'
    BY <1>5 DEF Posix!ServerOpen, Posix!OpenExisting, Posix!Unlink,
                Posix!ClientOpen, Posix!Dies, Held
  <2>3. /\ p \in Owing' \cup Died' <=> p \in Owing \cup Died \/ p \in Died'
    BY <1>5 DEF Posix!ServerOpen, Posix!OpenExisting, Posix!Unlink,
                Posix!ClientOpen, Posix!Dies, Owing, Died
  <2> QED BY <2>1, <2>2, <2>3, PosixStays
<1> QED
  BY <1>1, <1>2, <1>3, <1>4, <1>5
  DEF Posix!Next, Posix!ServerStep, Posix!ClientStep

LEMMA PosixInvariant == Posix!Spec => []PosixInv
<1>1. Posix!Init => PosixInv
  <2> SUFFICES ASSUME Posix!Init PROVE PosixInv
    OBVIOUS
  <2> USE DEF Posix!Init, Posix!Procs
  <2>1. PosixKinds
    BY DEF PosixKinds
  <2>2. PosixTurns
    BY DEF PosixTurns, Posix!Running
  <2>3. Slots = {} /\ Held = {} /\ Owing = {} /\ Died = {}
    BY DEF Slots, Held, Owing, Died
  <2> QED BY <2>1, <2>2, <2>3, FS_EmptySet DEF PosixInv, Balanced
<1>2. PosixInv /\ [Posix!Next]_(Posix!vars) => PosixInv'
  <2> SUFFICES ASSUME PosixInv, [Posix!Next]_(Posix!vars) PROVE PosixInv'
    OBVIOUS
  <2>1. CASE UNCHANGED Posix!vars
    BY <2>1
    DEF Posix!vars, PosixInv, PosixKinds, PosixTurns, Posix!Running,
        Balanced, Slots, Held, Owing, Died
  <2>2. CASE Posix!Next
    BY <2>2, PosixKindsStep, PosixTurnsStep, BalancedStep DEF PosixInv
  <2> QED BY <2>1, <2>2
<1> QED BY <1>1, <1>2, PTL DEF Posix!Spec

(* A queue has no more messages than there are slots.                      *)
LEMMA QueueInSlots ==
  ASSUME PosixInv, NEW q \in Queues
  PROVE  Len(posixContent[q]) <= Cardinality(Slots)
<1> DEFINE n == Len(posixContent[q])
           f == [i \in 1..n |-> <<q, i>>]
<1>1. n \in Nat
  BY DEF PosixInv, PosixKinds
<1>2. f \in Injection(1..n, Slots)
  BY <1>1 DEF Slots, Injection, IsInjective
<1>3. Cardinality(1..n) <= Cardinality(Slots)
  BY <1>2, FS_Injection DEF PosixInv, Balanced
<1>4. Cardinality(1..n) = n
  BY <1>1, FS_Interval
<1> QED BY <1>3, <1>4

PosixNames ==
  /\ posixNamed \in posixUsed \cup {None}
  /\ posixDropped \in BOOLEAN

(* The name leads to a queue that was created, and a queue only ever holds *)
(* whole messages of the two programs.                                     *)
THEOREM PosixTypeCorrect == Posix!Spec => []Posix!TypeOK
<1>1. Posix!Init => PosixNames
  BY DEF Posix!Init, PosixNames
<1>2. PosixNames /\ [Posix!Next]_(Posix!vars) => PosixNames'
  <2> SUFFICES ASSUME PosixNames, [Posix!Next]_(Posix!vars)
               PROVE  PosixNames'
    OBVIOUS
  <2>1. CASE \E s \in Servers : Posix!ServerOpen(s)
    BY <2>1 DEF Posix!ServerOpen, PosixNames
  <2>2. CASE \/ \E p \in Posix!Procs : Posix!Dies(p)
             \/ \E s \in Servers : Posix!Unlink(s)
    BY <2>2 DEF Posix!Dies, Posix!Unlink, PosixNames
  <2>3. CASE \/ \E s \in Servers : Posix!ServerStep(s)
             \/ \E c \in Clients : Posix!ClientOpen(c) \/ Posix!ClientStep(c)
             \/ UNCHANGED Posix!vars
    BY <2>3 DEF Posix!ServerStep, Posix!ClientOpen, Posix!ClientStep,
                Posix!OpenExisting, Posix!Send, Posix!Receive, Posix!vars,
                PosixNames
  <2> QED BY <2>1, <2>2, <2>3 DEF Posix!Next
<1>3. PosixInv /\ PosixNames => Posix!TypeOK
  BY DEF PosixInv, PosixKinds, PosixNames, Posix!TypeOK
<1> QED BY <1>1, <1>2, <1>3, PosixInvariant, PTL DEF Posix!Spec

(* However the sessions die and whichever of the queues a client still     *)
(* has open, at most one message too many is left for each server that     *)
(* died; only after mq_maxmsg deaths is the greeting not accepted.         *)
THEOREM LeftoversCorrect == Posix!Spec => []LeftoversBounded
<1>1. ASSUME PosixInv PROVE LeftoversBounded
  <2> DEFINE own == {s \in Servers : posixPc[s] \in {"reopen", "receive"}}
             inHand == {c \in Clients : posixPc[c] \in {"reopen", "send"}}
             dead == {s \in Servers : posixPc[s] = "dead"}
  <2>1. /\ IsFiniteSet(Held) /\ IsFiniteSet(Owing) /\ IsFiniteSet(Died)
        /\ IsFiniteSet(Slots)
    BY <1>1, MemoryAssumption, FS_Subset
    DEF Held, Owing, Died, PosixInv, Balanced
  <2>2. /\ Cardinality(Held) \in Nat /\ Cardinality(Owing) \in Nat
        /\ Cardinality(Died) \in Nat /\ Cardinality(Slots) \in Nat
    BY <2>1, FS_CardinalityType
  <2>3. /\ Posix!Cardinality(inHand) = Cardinality(Held)
        /\ Posix!Cardinality(own) = Cardinality(Owing)
        /\ Posix!Cardinality(dead) = Cardinality(Died)
    BY DEF Posix!Cardinality, Cardinality, Posix!IsFiniteSet, IsFiniteSet,
           Held, Owing, Died
  <2>4. \A q \in Queues : /\ Len(posixContent[q]) <= Cardinality(Slots)
                          /\ Len(posixContent[q]) \in Nat
    BY <1>1, QueueInSlots DEF PosixInv, PosixKinds
  <2>5. (IF posixNamed = None THEN 0 ELSE Len(posixContent[posixNamed]))
          + Cardinality(Held) <= Cardinality(Owing) + Cardinality(Died)
    BY <1>1, <2>2, <2>4 DEF PosixInv, PosixKinds, Balanced
  <2>6. ASSUME NEW s \in Servers, posixPc[s] = "send",
               Len(posixContent[mq[s]]) = mq_maxmsg
        PROVE  Cardinality(Died) >= mq_maxmsg
    <3>1. Owing = {}
      BY <1>1, <2>6 DEF Owing, PosixInv, PosixTurns, Posix!Running
    <3>2. Cardinality(Owing) = 0
      BY <3>1, FS_EmptySet
    <3>3. mq[s] \in Queues
      BY <1>1, <2>6 DEF PosixInv, PosixTurns, PosixKinds, Posix!Procs
    <3> QED
      BY <1>1, <2>2, <2>4, <2>6, <3>2, <3>3, QueuesAssumption
      DEF PosixInv, Balanced
  <2> QED
    BY <2>3, <2>5, <2>6 DEF LeftoversBounded, Posix!LeftoversBounded
<1> QED BY <1>1, PosixInvariant, PTL

-----------------------------------------------------------------------------
(* The System V queue.                                                     *)

SysvKinds ==
  /\ current \in sysvUsed \cup {None} /\ sysvUsed \subseteq Queues
  /\ sysvContent \in [Sysv!Types -> Nat]
  /\ sysvPc \in [Sysv!Procs -> {"start", "send", "receive", "remove", "done",
                                "dead"}]
  /\ msgid \in [Sysv!Procs -> sysvUsed \cup {None}]
  /\ \A p \in Sysv!Procs : sysvPc[p] \in {"send", "receive"} => msgid[p] # None

Answered == {s \in Servers : sysvPc[s] \in {"remove", "done"}}
Lost == {s \in Servers : sysvPc[s] = "dead"}
Waiting == {s \in Servers : sysvPc[s] = "receive"}
Holding == {c \in Clients : sysvPc[c] = "send" /\ msgid[c] = current}
Replied == {c \in Clients : sysvPc[c] = "done"}

(* The two halves of AnsweredByClients, inductive without the queues that  *)
(* are gone: what they held was removed with them.                         *)
Answers ==
  Cardinality(Answered) + sysvContent[2] <= Cardinality(Replied)
Greetings ==
  current # None =>
    sysvContent[1] + Cardinality(Holding) + sysvContent[2]
      <= Cardinality(Waiting) + Cardinality(Lost)

SysvInv == SysvKinds /\ Answers /\ Greetings

LEMMA SysvFinite ==
  /\ Cardinality(Answered) \in Nat /\ Cardinality(Lost) \in Nat
  /\ Cardinality(Waiting) \in Nat /\ Cardinality(Holding) \in Nat
  /\ Cardinality(Replied) \in Nat
<1>1. /\ IsFiniteSet(Answered) /\ IsFiniteSet(Lost) /\ IsFiniteSet(Waiting)
      /\ IsFiniteSet(Holding) /\ IsFiniteSet(Replied)
  BY MemoryAssumption, FS_Subset DEF Answered, Lost, Waiting, Holding, Replied
<1> QED BY <1>1, FS_CardinalityType

(* One process moves; the queue of the key stays.                          *)
LEMMA SysvCounts ==
  ASSUME SysvInv, NEW p \in Sysv!Procs, current' = current, msgid' = msgid,
         \A q \in Sysv!Procs \ {p} : sysvPc'[q] = sysvPc[q]
  PROVE  /\ Cardinality(Answered) \in Nat /\ Cardinality(Lost) \in Nat
         /\ Cardinality(Waiting) \in Nat /\ Cardinality(Holding) \in Nat
         /\ Cardinality(Replied) \in Nat
         /\ Cardinality(Answered') = Cardinality(Answered)
              - (IF p \in Answered THEN 1 ELSE 0)
              + (IF p \in Answered' THEN 1 ELSE 0)
         /\ Cardinality(Lost') = Cardinality(Lost)
              - (IF p \in Lost THEN 1 ELSE 0) + (IF p \in Lost' THEN 1 ELSE 0)
         /\ Cardinality(Waiting') = Cardinality(Waiting)
              - (IF p \in Waiting THEN 1 ELSE 0)
              + (IF p \in Waiting' THEN 1 ELSE 0)
         /\ Cardinality(Holding') = Cardinality(Holding)
              - (IF p \in Holding THEN 1 ELSE 0)
              + (IF p \in Holding' THEN 1 ELSE 0)
         /\ Cardinality(Replied') = Cardinality(Replied)
              - (IF p \in Replied THEN 1 ELSE 0)
              + (IF p \in Replied' THEN 1 ELSE 0)
<1>1. /\ IsFiniteSet(Answered) /\ IsFiniteSet(Lost) /\ IsFiniteSet(Waiting)
      /\ IsFiniteSet(Holding) /\ IsFiniteSet(Replied)
  BY MemoryAssumption, FS_Subset DEF Answered, Lost, Waiting, Holding, Replied
<1>2. /\ Answered \ {p} = Answered' \ {p} /\ Lost \ {p} = Lost' \ {p}
      /\ Waiting \ {p} = Waiting' \ {p} /\ Holding \ {p} = Holding' \ {p}
      /\ Replied \ {p} = Replied' \ {p}
  BY DEF Answered, Lost, Waiting, Holding, Replied, Sysv!Procs
<1> QED BY <1>1, <1>2, Recount

LEMMA SysvKindsStep == SysvKinds /\ Sysv!Next => SysvKinds'
<1> SUFFICES ASSUME SysvKinds, Sysv!Next PROVE SysvKinds'
  OBVIOUS
<1> USE QueuesAssumption DEF SysvKinds, Sysv!Procs, Sysv!Goes, Sysv!Types
<1>1. ASSUME NEW p \in Sysv!Procs, NEW t \in {1, 2},
             NEW to \in {"receive", "done"}, Sysv!Send(p, t, "send", to)
      PROVE  SysvKinds'
  BY <1>1 DEF Sysv!Send
<1>2. ASSUME NEW p \in Sysv!Procs, NEW t \in {1, 2},
             NEW to \in {"remove", "send"}, Sysv!Receive(p, t, "receive", to)
      PROVE  SysvKinds'
  BY <1>2 DEF Sysv!Receive
<1>3. ASSUME NEW s \in Servers, Sysv!ServerGet(s) PROVE SysvKinds'
  BY <1>3 DEF Sysv!ServerGet
<1>4. ASSUME NEW s \in Servers, Sysv!Remove(s) PROVE SysvKinds'
  BY <1>4 DEF Sysv!Remove
<1>5. ASSUME NEW c \in Clients, Sysv!ClientGet(c) PROVE SysvKinds'
  BY <1>5 DEF Sysv!ClientGet
<1>6. ASSUME NEW p \in Sysv!Procs, Sysv!QueueGone(p) \/ Sysv!Dies(p)
      PROVE  SysvKinds'
  BY <1>6 DEF Sysv!QueueGone, Sysv!Dies
<1> QED
  BY <1>1, <1>2, <1>3, <1>4, <1>5, <1>6
  DEF Sysv!Next, Sysv!ServerStep, Sysv!ClientStep

LEMMA SysvCountStep == SysvInv /\ Sysv!Next => (Answers /\ Greetings)'
<1> SUFFICES ASSUME SysvInv, Sysv!Next PROVE (Answers /\ Greetings)'
  OBVIOUS
<1> DEFINE Moves(p) ==
      /\ current' = current /\ msgid' = msgid
      /\ \A q \in Sysv!Procs \ {p} : sysvPc'[q] = sysvPc[q]
<1> USE MemoryAssumption
    DEF SysvInv, SysvKinds, Sysv!Procs, Sysv!Goes, Sysv!Types
<1>1. ASSUME NEW s \in Servers, Sysv!Send(s, 1, "send", "receive")
      PROVE  (Answers /\ Greetings)'
  <2>1. /\ Moves(s) /\ sysvContent'[1] = sysvContent[1] + 1
        /\ sysvContent'[2] = sysvContent[2]
    BY <1>1 DEF Sysv!Send
  <2>2. /\ s \notin Answered /\ s \notin Answered' /\ s \notin Lost
        /\ s \notin Lost' /\ s \notin Waiting /\ s \in Waiting'
        /\ s \notin Holding /\ s \notin Holding' /\ s \notin Replied
        /\ s \notin Replied'
    BY <1>1 DEF Sysv!Send, Answered, Lost, Waiting, Holding, Replied
  <2> QED BY <2>1, <2>2, SysvCounts DEF Answers, Greetings
<1>2. ASSUME NEW s \in Servers, Sysv!Receive(s, 2, "receive", "remove")
      PROVE  (Answers /\ Greetings)'
  <2>1. /\ Moves(s) /\ sysvContent'[2] = sysvContent[2] - 1
        /\ sysvContent'[1] = sysvContent[1]
    BY <1>2 DEF Sysv!Receive
  <2>2. /\ s \notin Answered /\ s \in Answered' /\ s \notin Lost
        /\ s \notin Lost' /\ s \in Waiting /\ s \notin Waiting'
        /\ s \notin Holding /\ s \notin Holding' /\ s \notin Replied
        /\ s \notin Replied'
    BY <1>2 DEF Sysv!Receive, Answered, Lost, Waiting, Holding, Replied
  <2> QED BY <2>1, <2>2, SysvCounts DEF Answers, Greetings
<1>3. ASSUME NEW c \in Clients, Sysv!Receive(c, 1, "receive", "send")
      PROVE  (Answers /\ Greetings)'
  <2>1. /\ Moves(c) /\ sysvContent'[1] = sysvContent[1] - 1
        /\ sysvContent'[2] = sysvContent[2]
    BY <1>3 DEF Sysv!Receive
  <2>2. /\ c \notin Answered /\ c \notin Answered' /\ c \notin Lost
        /\ c \notin Lost' /\ c \notin Waiting /\ c \notin Waiting'
        /\ c \notin Holding /\ c \notin Replied /\ c \notin Replied'
    BY <1>3 DEF Sysv!Receive, Answered, Lost, Waiting, Holding, Replied
  <2> QED BY <2>1, <2>2, SysvCounts DEF Answers, Greetings
<1>4. ASSUME NEW c \in Clients, Sysv!Send(c, 2, "send", "done")
      PROVE  (Answers /\ Greetings)'
  <2>1. /\ Moves(c) /\ sysvContent'[2] = sysvContent[2] + 1
        /\ sysvContent'[1] = sysvContent[1]
    BY <1>4 DEF Sysv!Send
  <2>2. /\ c \notin Answered /\ c \notin Answered' /\ c \notin Lost
        /\ c \notin Lost' /\ c \notin Waiting /\ c \notin Waiting'
        /\ c \in Holding /\ c \notin Holding' /\ c \notin Replied
        /\ c \in Replied'
    BY <1>4 DEF Sysv!Send, Answered, Lost, Waiting, Holding, Replied
  <2> QED BY <2>1, <2>2, SysvCounts DEF Answers, Greetings
<1>5. ASSUME NEW p \in Sysv!Procs, Sysv!QueueGone(p) \/ Sysv!Dies(p)
      PROVE  (Answers /\ Greetings)'
  <2>1. Moves(p) /\ sysvContent' = sysvContent
    BY <1>5 DEF Sysv!QueueGone, Sysv!Dies
  <2>2. /\ p \notin Answered' /\ p \notin Waiting' /\ p \notin Holding'
        /\ p \notin Replied /\ p \notin Replied' /\ p \notin Lost
        /\ p \in Servers => p \in Lost'
        /\ p \in Waiting => p \in Servers
    BY <1>5 DEF Sysv!QueueGone, Sysv!Dies, Sysv!Running,
                Answered, Lost, Waiting, Holding, Replied
  <2> QED BY <2>1, <2>2, SysvCounts DEF Answers, Greetings
<1>6. ASSUME NEW s \in Servers, Sysv!ServerGet(s)
      PROVE  (Answers /\ Greetings)'
  <2>1. CASE current # None
    <3>1. /\ current' = current /\ sysvContent' = sysvContent
          /\ Answered' = Answered /\ Lost' = Lost /\ Waiting' = Waiting
          /\ Holding' = Holding /\ Replied' = Replied
      BY <1>6, <2>1
      DEF Sysv!ServerGet, Answered, Lost, Waiting, Holding, Replied
    <3> QED BY <3>1 DEF Answers, Greetings
  <2>2. CASE current = None
    <3>1. /\ current' \in Queues \ sysvUsed
          /\ sysvContent' = [t \in Sysv!Types |-> 0]
          /\ sysvPc[s] = "start" /\ sysvPc' = [sysvPc EXCEPT ![s] = "send"]
          /\ msgid' = [msgid EXCEPT ![s] = current']
      BY <1>6, <2>2 DEF Sysv!ServerGet
    <3>2. /\ Answered' = Answered /\ Lost' = Lost /\ Waiting' = Waiting
          /\ Replied' = Replied
      BY <3>1 DEF Answered, Lost, Waiting, Replied
    <3>3. Holding' = {}
      BY <3>1, QueuesAssumption DEF Holding
    <3>4. sysvContent'[1] = 0 /\ sysvContent'[2] = 0
      BY <3>1
    <3>5. /\ Cardinality(Answered) \in Nat /\ Cardinality(Replied) \in Nat
          /\ Cardinality(Waiting) \in Nat /\ Cardinality(Lost) \in Nat
      BY SysvFinite
    <3> HIDE DEF SysvInv
    <3>6. Cardinality(Answered) <= Cardinality(Replied)
      BY <3>5 DEF SysvInv, Answers
    <3>7. Cardinality(Holding') = 0
      BY <3>3, FS_EmptySet
    <3> QED BY <3>2, <3>4, <3>5, <3>6, <3>7 DEF Answers, Greetings
  <2> QED BY <2>1, <2>2
<1>7. ASSUME NEW s \in Servers, Sysv!Remove(s)
      PROVE  (Answers /\ Greetings)'
  <2>1. /\ current' = None /\ sysvContent' = [t \in Sysv!Types |-> 0]
        /\ sysvPc[s] = "remove" /\ sysvPc' = [sysvPc EXCEPT ![s] = "done"]
    BY <1>7 DEF Sysv!Remove
  <2>2. Answered' = Answered /\ Replied' = Replied /\ sysvContent'[2] = 0
    BY <2>1 DEF Answered, Replied
  <2>3. Cardinality(Answered) \in Nat /\ Cardinality(Replied) \in Nat
    BY SysvFinite
  <2> QED BY <2>1, <2>2, <2>3 DEF Answers, Greetings
<1>8. ASSUME NEW c \in Clients, Sysv!ClientGet(c)
      PROVE  (Answers /\ Greetings)'
  <2>1. /\ current' = current /\ sysvContent' = sysvContent
        /\ Answered' = Answered /\ Lost' = Lost /\ Waiting' = Waiting
        /\ Holding' = Holding /\ Replied' = Replied
    BY <1>8 DEF Sysv!ClientGet, Answered, Lost, Waiting, Holding, Replied
  <2> QED BY <2>1 DEF Answers, Greetings
<1> QED
  BY <1>1, <1>2, <1>3, <1>4, <1>5, <1>6, <1>7, <1>8
  DEF Sysv!Next, Sysv!ServerStep, Sysv!ClientStep

LEMMA SysvInvariant == Sysv!Spec => []SysvInv
<1>1. Sysv!Init => SysvInv
  <2> SUFFICES ASSUME Sysv!Init PROVE SysvInv
    OBVIOUS
  <2> USE DEF Sysv!Init, Sysv!Procs, Sysv!Types
  <2>1. SysvKinds
    BY DEF SysvKinds
  <2>2. Answered = {} /\ Replied = {}
    BY DEF Answered, Replied
  <2> QED
    BY <2>1, <2>2, FS_EmptySet DEF SysvInv, Answers, Greetings
<1>2. SysvInv /\ [Sysv!Next]_(Sysv!vars) => SysvInv'
  <2> SUFFICES ASSUME SysvInv, [Sysv!Next]_(Sysv!vars) PROVE SysvInv'
    OBVIOUS
  <2>1. CASE UNCHANGED Sysv!vars
    BY <2>1
    DEF Sysv!vars, SysvInv, SysvKinds, Answers, Greetings, Answered, Lost,
        Waiting, Holding, Replied
  <2>2. CASE Sysv!Next
    BY <2>2, SysvKindsStep, SysvCountStep DEF SysvInv
  <2> QED BY <2>1, <2>2
<1> QED BY <1>1, <1>2, PTL DEF Sysv!Spec

(* A server gets past msgrcv() only with a reply that some client sent and *)
(* no other server has had, and greetings outlive only servers that died.  *)
THEOREM AnswersCorrect == Sysv!Spec => []AnsweredByClients
<1>1. ASSUME SysvInv PROVE AnsweredByClients
  <2>1. \A S : Sysv!Cardinality(S) = Cardinality(S)
    BY DEF Sysv!Cardinality, Cardinality, Sysv!IsFiniteSet, IsFiniteSet
  <2> QED
    BY <1>1, <2>1
    DEF SysvInv, Answers, Greetings, Answered, Lost, Waiting, Holding,
        Replied, AnsweredByClients, Sysv!AnsweredByClients
<1> QED BY <1>1, SysvInvariant, PTL

(* msgsnd() waits for room for the messages of both types together.        *)
SysvRoom == sysvContent[1] + sysvContent[2] <= CAPACITY

SysvFlag == sysvDropped \in BOOLEAN

LEMMA SysvDropped == Sysv!Spec => []SysvFlag
<1>1. Sysv!Init => SysvFlag
  BY DEF Sysv!Init, SysvFlag
<1>2. SysvFlag /\ [Sysv!Next]_(Sysv!vars) => SysvFlag'
  BY DEF Sysv!Next, Sysv!ServerStep, Sysv!ClientStep, Sysv!ServerGet,
         Sysv!Remove, Sysv!ClientGet, Sysv!QueueGone, Sysv!Dies, Sysv!Send,
         Sysv!Receive, Sysv!vars, SysvFlag
<1> QED BY <1>1, <1>2, PTL DEF Sysv!Spec

(* However many servers and clients come and go, the queue is never fuller *)
(* than the kernel lets it be.                                             *)
THEOREM SysvTypeCorrect == Sysv!Spec => []Sysv!TypeOK
<1> USE QueuesAssumption DEF Sysv!Types
<1>1. Sysv!Init => SysvRoom
  <2> SUFFICES ASSUME Sysv!Init PROVE SysvRoom
    OBVIOUS
  <2>1. sysvContent = [t \in {1, 2} |-> 0]
    BY DEF Sysv!Init
  <2>2. sysvContent[1] = 0 /\ sysvContent[2] = 0
    BY <2>1
  <2> QED BY <2>2 DEF SysvRoom
<1>2. ASSUME SysvKinds, SysvRoom, [Sysv!Next]_(Sysv!vars) PROVE SysvRoom'
  <2> USE <1>2 DEF SysvKinds, SysvRoom
  <2>1. ASSUME NEW p, NEW type \in {1, 2}, NEW from, NEW to,
               Sysv!Send(p, type, from, to) \/ Sysv!Receive(p, type, from, to)
        PROVE  SysvRoom'
    BY <2>1 DEF Sysv!Send, Sysv!Receive
  <2>2. CASE \/ sysvContent' = sysvContent
             \/ sysvContent' = [t \in {1, 2} |-> 0]
    BY <2>2
  <2>3. CASE \/ \E s \in Servers : Sysv!ServerGet(s) \/ Sysv!Remove(s)
             \/ \E c \in Clients : Sysv!ClientGet(c) \/ Sysv!QueueGone(c)
             \/ \E p \in Sysv!Procs : Sysv!Dies(p)
             \/ UNCHANGED Sysv!vars
    <3>1. \/ sysvContent' = sysvContent
          \/ sysvContent' = [t \in {1, 2} |-> 0]
      BY <2>3 DEF Sysv!ServerGet, Sysv!Remove, Sysv!ClientGet,
                  Sysv!QueueGone, Sysv!Dies, Sysv!vars
    <3> QED BY <2>2, <3>1
  <2> QED BY <2>1, <2>3 DEF Sysv!Next, Sysv!ServerStep, Sysv!ClientStep
<1>3. SysvInv /\ SysvRoom /\ SysvFlag => Sysv!TypeOK
  <2> SUFFICES ASSUME SysvInv, SysvRoom, SysvFlag
               PROVE  sysvContent \in [{1, 2} -> 0..CAPACITY]
    BY DEF SysvInv, SysvKinds, SysvFlag, Sysv!TypeOK
  <2>1. sysvContent \in [{1, 2} -> Nat]
    BY DEF SysvInv, SysvKinds
  <2>2. /\ sysvContent[1] \in 0..CAPACITY
        /\ sysvContent[2] \in 0..CAPACITY
    BY <2>1 DEF SysvRoom
  <2> QED BY <2>1, <2>2
<1>4. SysvInv => SysvKinds
  BY DEF SysvInv
<1> QED BY <1>1, <1>2, <1>3, <1>4, SysvInvariant, SysvDropped, PTL
   DEF Sysv!Spec
=============================================================================
