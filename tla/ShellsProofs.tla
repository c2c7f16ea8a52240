---------------------------- MODULE ShellsProofs ----------------------------
(***************************************************************************)
(* Theorems about the two shells, each from one invariant.                 *)
(*                                                                         *)
(* PipelineShell, for any capacity of the pipe and any number of pieces:   *)
(* where the shell is says which children there can be, and where a child  *)
(* is says which ends of the pipe it holds.                                *)
(*                                                                         *)
(* NestedShell, for any set of processes and any length of a word: the     *)
(* processes are a chain of shells, each waiting for the next.             *)
(***************************************************************************)
EXTENDS MCShells, FiniteSetTheorems, TLAPS

(* Which children there are while the shell is where it is.  After the     *)
(* first of two wait()s, or the fork of a single command, there is at most *)
(* one.                                                                    *)
Family ==
  /\ spc \in {"prompt", "pipe", "forkLeft", "forkOnly", "ended", "crashed"}
       => \A p \in Children : cpc[p] = "none"
  /\ spc = "forkRight" => cpc[Right] = "none"
  /\ spc \in {"forkRight", "closeRead", "closeWrite", "waitTwice"} =>
       cpc[Only] = "none"
  /\ spc = "wait" => \A p, q \in Children :
       cpc[p] # "none" /\ cpc[q] # "none" => p = q

(* Who holds an end of the pipe.                                           *)
Holders ==
  /\ Shell \in readers <=> spc \in {"forkLeft", "forkRight", "closeRead"}
  /\ Shell \in writers <=>
       spc \in {"forkLeft", "forkRight", "closeRead", "closeWrite"}
  /\ Left \in readers <=> cpc[Left] = "setup"
  /\ Left \in writers <=> cpc[Left] \in {"setup", "exec", "run", "write"}
  /\ Right \in readers <=> cpc[Right] \in {"setup", "exec", "run", "read"}
  /\ Right \in writers <=> cpc[Right] = "setup"
  /\ Only \notin readers /\ Only \notin writers

(* What is in the pipe; at end-of-file nobody can write any more.          *)
Flow ==
  /\ pipe \in Nat /\ written \in Nat /\ taken \in Nat
  /\ taken + pipe = written
  /\ eof => /\ pipe = 0
            /\ cpc[Left] \in {"none", "zombie"}
            /\ Shell \notin writers

Kinds ==
  /\ spc \in {"prompt", "pipe", "forkLeft", "forkRight", "closeRead",
              "closeWrite", "waitTwice", "forkOnly", "wait", "ended",
              "crashed"}
  /\ cpc \in [Children -> {"none", "setup", "exec", "run", "write", "read",
                           "zombie"}]
  /\ cpc[Left] # "read" /\ cpc[Right] # "write"
  /\ cpc[Only] \in {"none", "exec", "run", "zombie"}
  /\ readers \subseteq Procs /\ writers \subseteq Procs
  /\ eof \in BOOLEAN

IInv == Kinds /\ Family /\ Holders /\ Flow

-----------------------------------------------------------------------------
LEMMA ShellKeeps ==
  ASSUME IInv, ShellStep
  PROVE  IInv'
<1> USE PipeAssumption DEF IInv, Kinds, Children, Procs, ShellGoes
<1>1. CASE ReadLine
  <2>1. /\ cpc' = cpc /\ readers' = readers /\ writers' = writers
        /\ pipe' = pipe /\ written' = written /\ taken' = taken /\ eof' = eof
    BY <1>1 DEF ReadLine, ends, data
  <2>2. /\ spc = "prompt"
        /\ spc' \in {"pipe", "forkOnly", "ended", "crashed"}
    BY <1>1 DEF ReadLine
  <2>3. Kinds'
    BY <2>1, <2>2
  <2>4. Family'
    BY <2>1, <2>2 DEF Family
  <2>5. Holders'
    BY <2>1, <2>2 DEF Holders
  <2>6. Flow'
    BY <2>1, <2>2 DEF Flow
  <2> QED BY <2>3, <2>4, <2>5, <2>6
<1>2. CASE MakePipe
  <2>1. /\ spc = "pipe" /\ spc' = "forkLeft" /\ cpc' = cpc
        /\ readers' = {Shell} /\ writers' = {Shell}
        /\ pipe' = 0 /\ written' = 0 /\ taken' = 0 /\ eof' = FALSE
    BY <1>2 DEF MakePipe
  <2>2. \A p \in Children : cpc[p] = "none"
    BY <2>1 DEF Family
  <2>3. Kinds'
    BY <2>1
  <2>4. Family'
    BY <2>1, <2>2 DEF Family
  <2>5. Holders'
    BY <2>1, <2>2 DEF Holders
  <2>6. Flow'
    BY <2>1 DEF Flow
  <2> QED BY <2>3, <2>4, <2>5, <2>6
<1>3. CASE PipeFails
  BY <1>3 DEF PipeFails, Family, Holders, Flow, ends, data
<1>4. CASE \/ Fork(Left, "forkLeft", "forkRight", "setup")
           \/ ForkFails("forkLeft", "forkRight")
  BY <1>4 DEF Fork, ForkFails, Family, Holders, Flow, ends, data
<1>5. CASE \/ Fork(Right, "forkRight", "closeRead", "setup")
           \/ ForkFails("forkRight", "closeRead")
  BY <1>5 DEF Fork, ForkFails, Family, Holders, Flow, ends, data
<1>6. CASE CloseRead \/ CloseWrite
  BY <1>6 DEF CloseRead, CloseWrite, Family, Holders, Flow, data
<1>7. CASE Wait("waitTwice", "wait") \/ Wait("wait", "prompt")
  BY <1>7 DEF Wait, ChildGoes, Family, Holders, Flow, ends, data
<1>8. CASE \/ Fork(Only, "forkOnly", "wait", "exec")
           \/ ForkFails("forkOnly", "wait")
  BY <1>8 DEF Fork, ForkFails, Family, Holders, Flow, ends, data
<1> QED BY <1>1, <1>2, <1>3, <1>4, <1>5, <1>6, <1>7, <1>8 DEF ShellStep

LEMMA ChildKeeps ==
  ASSUME IInv, NEW p \in Children, ChildStep(p) \/ CommandStep(p)
  PROVE  IInv'
<1> USE PipeAssumption DEF IInv, Kinds, Children, Procs, ChildGoes
<1>1. CASE CloseOtherEnd(p)
  BY <1>1 DEF CloseOtherEnd, Family, Holders, Flow, data
<1>2. CASE Exec(p)
  BY <1>2 DEF Exec, Family, Holders, Flow, ends, data
<1>3. CASE ExecFails(p) \/ Stops(p) \/ (p = Left /\ WriteKills)
  BY <1>3 DEF ExecFails, Stops, WriteKills, Ends, Family, Holders, Flow, data
<1>4. CASE p = Left /\ StartWrite
  BY <1>4 DEF StartWrite, Family, Holders, Flow, ends, data
<1>5. CASE p = Left /\ Write
  BY <1>5 DEF Write, Family, Holders, Flow, ends
<1>6. CASE p = Right /\ StartRead
  BY <1>6 DEF StartRead, Family, Holders, Flow, ends, data
<1>7. CASE p = Right /\ Read
  BY <1>7 DEF Read, Family, Holders, Flow, ends
<1>8. CASE p = Right /\ ReadEof
  BY <1>8 DEF ReadEof, Family, Holders, Flow, ends
<1> QED BY <1>1, <1>2, <1>3, <1>4, <1>5, <1>6, <1>7, <1>8
        DEF ChildStep, CommandStep

LEMMA ShellInvariant == Spec => []IInv
<1>1. Init => IInv
  <2> SUFFICES ASSUME Init PROVE IInv
    OBVIOUS
  <2>1. \A p \in Children : cpc[p] = "none"
    BY DEF Init
  <2>2. Kinds
    BY PipeAssumption DEF Init, Kinds, Children, Procs
  <2>3. Family
    BY <2>1 DEF Init, Family, Children
  <2>4. Holders
    BY <2>1 DEF Init, Holders, Children
  <2>5. Flow
    BY DEF Init, Flow
  <2> QED BY <2>2, <2>3, <2>4, <2>5 DEF IInv
<1>2. IInv /\ UNCHANGED vars => IInv'
  BY DEF IInv, Kinds, Family, Holders, Flow, vars, ends, data
<1>3. IInv /\ [Next]_vars => IInv'
  BY <1>2, ShellKeeps, ChildKeeps DEF Next
<1> QED BY <1>1, <1>3, PTL DEF Spec

(* Whichever of fork(), pipe() and execvp() fails and whichever command    *)
(* ends first: at the prompt no child and no end of a pipe is left.        *)
THEOREM CleanPromptCorrect == Spec => []CleanPrompt
<1>1. IInv => CleanPrompt
  BY DEF IInv, Kinds, Family, Holders, CleanPrompt, Children, Procs
<1> QED BY <1>1, ShellInvariant, PTL

(* End-of-file comes after everything the left command will write, and     *)
(* SIGPIPE only when no right command will read.                           *)
THEOREM PipeTruthCorrect == Spec => []PipeTellsTheTruth
<1>1. IInv => PipeTellsTheTruth
  BY DEF IInv, Kinds, Holders, Flow, PipeTellsTheTruth, Children
<1> QED BY <1>1, ShellInvariant, PTL

(* The pipe is never fuller than PIPE_BUF, and a command that has entered  *)
(* write() is still below its OUTPUT.                                      *)
Bounded ==
  /\ pipe <= PIPE_BUF /\ written <= OUTPUT
  /\ cpc[Left] = "write" => written < OUTPUT

LEMMA BoundedStep ==
  ASSUME IInv, Bounded, [Next]_vars
  PROVE  Bounded'
<1> USE PipeAssumption DEF IInv, Kinds, Children, Bounded
<1>1. CASE ShellStep
  <2>1. CASE MakePipe
    <3>1. cpc[Left] = "none"
      BY <2>1 DEF MakePipe, ShellGoes, Family
    <3> QED BY <2>1, <3>1 DEF MakePipe
  <2>2. CASE ~MakePipe
    <3>1. UNCHANGED data /\ (cpc'[Left] = "write" => cpc[Left] = "write")
      BY <1>1, <2>2
         DEF ShellStep, ReadLine, PipeFails, Fork, ForkFails, CloseRead,
             CloseWrite, Wait, ChildGoes, ShellGoes, data
    <3> QED BY <3>1 DEF data
  <2> QED BY <2>1, <2>2
<1>2. ASSUME NEW p \in Children, ChildStep(p) \/ CommandStep(p)
      PROVE  Bounded'
  <2>1. CASE p = Left /\ StartWrite
    BY <2>1 DEF StartWrite, ChildGoes, data
  <2>2. CASE p = Left /\ Write
    BY <2>2 DEF Write, ChildGoes, Flow
  <2>3. CASE p = Right /\ Read
    BY <2>3 DEF Read, ChildGoes, Flow
  <2>4. CASE p = Right /\ (StartRead \/ ReadEof)
    BY <2>4 DEF StartRead, ReadEof, ChildGoes, data
  <2>5. CASE ChildStep(p) \/ Stops(p) \/ (p = Left /\ WriteKills)
    BY <2>5 DEF ChildStep, CloseOtherEnd, Exec, ExecFails, Stops, WriteKills,
                Ends, ChildGoes, data
  <2> QED BY <1>2, <2>1, <2>2, <2>3, <2>4, <2>5 DEF CommandStep
<1>3. CASE UNCHANGED vars
  BY <1>3 DEF vars, data
<1> QED BY <1>1, <1>2, <1>3 DEF Next

(* The kernel's bounds on the pipe and the model's on a command hold       *)
(* whatever becomes of the commands of earlier lines.                      *)
THEOREM PipelineTypeCorrect == Spec => []TypeOK
<1>1. Init => Bounded
  BY PipeAssumption DEF Init, Bounded, Children
<1>2. IInv /\ Bounded => TypeOK
  BY PipeAssumption DEF IInv, Kinds, Flow, Bounded, TypeOK
<1> QED BY <1>1, <1>2, BoundedStep, ShellInvariant, PTL DEF Spec

-----------------------------------------------------------------------------
(* The shell without pipes.  Whatever does not wait, a zombie included, is *)
(* the end of the chain.                                                   *)
Foot == {p \in Processes : pc[p] \notin {"none", "wait"}}

Chain ==
  /\ pc \in [Processes -> {"none", "prompt", "fork", "exec", "run", "wait",
                           "zombie"}]
  /\ parent \in [Processes -> Processes]
  /\ pc[Root] \notin {"exec", "run", "zombie"}
  /\ \A p, q \in Foot : p = q
  /\ \A c \in Processes \ {Root} : pc[c] # "none" => pc[parent[c]] = "wait"
  /\ \A b, c \in Processes \ {Root} :
       pc[b] # "none" /\ pc[c] # "none" /\ parent[b] = parent[c] => b = c

(* The steps of one process that only move that process.                   *)
LEMMA ChainMoves ==
  ASSUME Chain, NEW p \in Processes, NEW label,
         p \in Foot, pc' = [pc EXCEPT ![p] = label], parent' = parent,
         label \in {"none", "prompt", "fork", "run", "zombie"},
         p = Root => label \in {"none", "prompt", "fork"}
  PROVE  Chain'
<1> USE NestedAssumption
<1>1. /\ pc' \in [Processes -> {"none", "prompt", "fork", "exec", "run",
                                "wait", "zombie"}]
      /\ parent' \in [Processes -> Processes]
      /\ pc'[Root] \notin {"exec", "run", "zombie"}
  BY DEF Chain
<1>2. \A q \in Processes : q # p => pc'[q] = pc[q]
  BY DEF Chain
<1>3. \A q, r \in Foot' : q = r
  BY <1>2 DEF Chain, Foot
<1>4. \A q \in Processes : /\ pc[q] = "wait" <=> pc'[q] = "wait"
                           /\ pc'[q] # "none" => pc[q] # "none"
  BY <1>2 DEF Chain, Foot
<1>5. \A c \in Processes \ {Root} : pc'[c] # "none" => pc'[parent[c]] = "wait"
  BY <1>4 DEF Chain
<1> QED BY <1>1, <1>3, <1>4, <1>5 DEF Chain

(* fork() adds a process to the end of the chain.                          *)
LEMMA ChainGrows ==
  ASSUME Chain, NEW p \in Processes, NEW c \in Processes, Nested!Fork(p, c)
  PROVE  Chain'
<1> USE NestedAssumption
<1>1. /\ pc[p] = "fork" /\ pc[c] = "none" /\ c # Root /\ p # c
      /\ pc' = [pc EXCEPT ![p] = "wait", ![c] = "exec"]
      /\ parent' = [parent EXCEPT ![c] = p]
  BY DEF Nested!Fork
<1>2. /\ pc' \in [Processes -> {"none", "prompt", "fork", "exec", "run",
                                "wait", "zombie"}]
      /\ parent' \in [Processes -> Processes]
      /\ pc'[Root] \notin {"exec", "run", "zombie"}
  BY <1>1 DEF Chain
<1>3. \A q \in Processes : q # p /\ q # c => pc'[q] = pc[q]
  BY <1>1 DEF Chain
<1>4. pc'[p] = "wait" /\ pc'[c] = "exec" /\ parent'[c] = p
  BY <1>1 DEF Chain
<1>5. \A q, r \in Foot' : q = r
  <2>1. \A q \in Foot : q = p
    BY <1>1 DEF Chain, Foot
  <2>2. \A q \in Foot' : q = c
    BY <2>1, <1>3, <1>4 DEF Foot
  <2> QED BY <2>2
<1>6. \A b \in Processes \ {Root} :
        b # c /\ pc'[b] # "none" => /\ pc[b] # "none"
                                   /\ parent'[b] = parent[b]
                                   /\ pc[parent[b]] = "wait"
                                   /\ parent[b] # p /\ parent[b] # c
  BY <1>1, <1>3 DEF Chain
<1>7. \A b \in Processes \ {Root} : pc'[b] # "none" => pc'[parent'[b]] = "wait"
  BY <1>3, <1>4, <1>6 DEF Chain
<1>8. \A a, b \in Processes \ {Root} :
        pc'[a] # "none" /\ pc'[b] # "none" /\ parent'[a] = parent'[b] => a = b
  BY <1>4, <1>6 DEF Chain
<1> QED BY <1>2, <1>5, <1>7, <1>8 DEF Chain

(* wait() takes it off again.                                              *)
LEMMA ChainShrinks ==
  ASSUME Chain, NEW p \in Processes, NEW c \in Processes, Nested!Wait(p, c)
  PROVE  Chain'
<1> USE NestedAssumption
<1>1. /\ pc[p] = "wait" /\ pc[c] = "zombie" /\ parent[c] = p
      /\ p # c /\ c # Root
      /\ pc' = [pc EXCEPT ![p] = "prompt", ![c] = "none"]
      /\ parent' = parent
  BY DEF Nested!Wait, Chain
<1>2. /\ pc' \in [Processes -> {"none", "prompt", "fork", "exec", "run",
                                "wait", "zombie"}]
      /\ parent' \in [Processes -> Processes]
      /\ pc'[Root] \notin {"exec", "run", "zombie"}
  BY <1>1 DEF Chain
<1>3. \A q \in Processes : q # p /\ q # c => pc'[q] = pc[q]
  BY <1>1 DEF Chain
<1>4. pc'[p] = "prompt" /\ pc'[c] = "none"
  BY <1>1 DEF Chain
<1>5. \A q, r \in Foot' : q = r
  <2>1. \A q \in Foot : q = c
    BY <1>1 DEF Chain, Foot
  <2>2. \A q \in Foot' : q = p
    BY <2>1, <1>3, <1>4 DEF Foot
  <2> QED BY <2>2
<1>6. \A b \in Processes \ {Root} :
        pc'[b] # "none" => /\ pc[b] # "none" /\ b # c
                           /\ pc[parent[b]] = "wait"
                           /\ parent[b] # p /\ parent[b] # c
  BY <1>1, <1>3, <1>4 DEF Chain
<1>7. \A b \in Processes \ {Root} : pc'[b] # "none" => pc'[parent'[b]] = "wait"
  BY <1>1, <1>3, <1>6 DEF Chain
<1>8. \A a, b \in Processes \ {Root} :
        pc'[a] # "none" /\ pc'[b] # "none" /\ parent'[a] = parent'[b] => a = b
  BY <1>1, <1>6 DEF Chain
<1> QED BY <1>2, <1>5, <1>7, <1>8 DEF Chain

LEMMA ChainInvariant == Nested!Spec => []Chain
<1> USE NestedAssumption
<1>1. Nested!Init => Chain
  BY DEF Nested!Init, Chain, Foot
<1>2. ASSUME Chain, [Nested!Next]_(Nested!vars) PROVE Chain'
  <2>1. CASE UNCHANGED Nested!vars \/ Nested!CloseInput
    BY <1>2, <2>1 DEF Nested!vars, Nested!CloseInput, Chain, Foot
  <2>2. ASSUME NEW p \in Processes, Nested!ProcStep(p) PROVE Chain'
    <3>1. CASE Nested!ReadLine(p) \/ Nested!ReadEof(p)
      <4>1. /\ pc[p] = "prompt" /\ parent' = parent
            /\ \E label \in {"none", "zombie", "fork"} :
                 /\ pc' = [pc EXCEPT ![p] = label]
                 /\ p = Root => label # "zombie"
        BY <3>1 DEF Nested!ReadLine, Nested!ReadEof, Nested!TakeLine,
                    Nested!Goto, Nested!Gone
      <4> QED BY <4>1, <1>2, ChainMoves DEF Foot
    <3>2. CASE Nested!ForkFails(p) \/ Nested!ExecFails(p)
      BY <3>2, <1>2, ChainMoves
         DEF Nested!ForkFails, Nested!ExecFails, Nested!Goto, Foot
    <3>3. CASE Nested!Exec(p)
      <4>1. p # Root
        BY <3>3, <1>2 DEF Nested!Exec, Chain
      <4> QED BY <4>1, <3>3, <1>2, ChainMoves DEF Nested!Exec, Nested!Goto, Foot
    <3>4. CASE Nested!CommandEnds(p)
      <4>1. p # Root
        BY <3>4, <1>2 DEF Nested!CommandEnds, Chain
      <4> QED BY <4>1, <3>4, <1>2, ChainMoves
              DEF Nested!CommandEnds, Nested!Goto, Foot
    <3>5. ASSUME NEW c \in Processes, Nested!Fork(p, c) \/ Nested!Wait(p, c)
          PROVE  Chain'
      BY <3>5, <1>2, ChainGrows, ChainShrinks
    <3> QED BY <2>2, <3>1, <3>2, <3>3, <3>4, <3>5 DEF Nested!ProcStep
  <2> QED BY <1>2, <2>1, <2>2 DEF Nested!Next
<1> QED BY <1>1, <1>2, PTL DEF Nested!Spec

(* However many shells pile up because execvp() failed, one process uses   *)
(* the terminal and every other one waits for its own child.               *)
THEOREM OneForegroundCorrect == Nested!Spec => []OneForeground
<1>1. ASSUME Chain PROVE OneForeground
  <2>1. Cardinality(Nested!Active) <= 1
    <3>1. Nested!Active \subseteq Foot
      BY DEF Nested!Active, Foot
    <3>2. \A p, q \in Nested!Active : p = q
      BY <1>1, <3>1 DEF Chain
    <3>3. CASE Nested!Active = {}
      BY <3>3, FS_EmptySet
    <3>4. CASE \E p : Nested!Active = {p}
      BY <3>4, FS_Singleton
    <3> QED BY <3>2, <3>3, <3>4
  <2>2. Nested!Cardinality(Nested!Active) = Cardinality(Nested!Active)
    BY DEF Nested!Cardinality, Cardinality, Nested!IsFiniteSet, IsFiniteSet
  <2> QED BY <1>1, <2>1, <2>2 DEF Chain, OneForeground, Nested!OneForeground
<1> QED BY <1>1, ChainInvariant, PTL

Words == word \in [Processes -> 0..WORD] /\ nestedEof \in BOOLEAN

(* Every process of the pile is of a kind the shell knows, and no word     *)
(* grows, at end-of-file or by fork().                                     *)
THEOREM NestedTypeCorrect == Nested!Spec => []Nested!TypeOK
<1> USE NestedAssumption
<1>1. ASSUME Nested!Init PROVE Words
  <2>1. PICK n \in 0..WORD : word = [p \in Processes |-> n]
    BY <1>1 DEF Nested!Init
  <2> QED BY <1>1, <2>1 DEF Nested!Init, Words
<1>2. ASSUME Words, [Nested!Next]_(Nested!vars) PROVE Words'
  <2>1. CASE UNCHANGED Nested!vars \/ Nested!CloseInput
    BY <1>2, <2>1 DEF Nested!vars, Nested!CloseInput, Words
  <2>2. ASSUME NEW p \in Processes, Nested!ProcStep(p) PROVE Words'
    <3>1. CASE Nested!ReadLine(p)
      BY <1>2, <3>1 DEF Nested!ReadLine, Nested!TakeLine, Words
    <3>2. CASE Nested!ReadEof(p)
      BY <1>2, <3>2 DEF Nested!ReadEof, Nested!TakeLine, Words
    <3>3. CASE \/ Nested!ForkFails(p) \/ Nested!Exec(p)
               \/ Nested!ExecFails(p) \/ Nested!CommandEnds(p)
               \/ \E c \in Processes : Nested!Fork(p, c) \/ Nested!Wait(p, c)
      BY <1>2, <3>3 DEF Nested!ForkFails, Nested!Exec, Nested!ExecFails,
                        Nested!CommandEnds, Nested!Fork, Nested!Wait,
                        Words
    <3> QED BY <2>2, <3>1, <3>2, <3>3 DEF Nested!ProcStep
  <2> QED BY <1>2, <2>1, <2>2 DEF Nested!Next
<1>3. Chain /\ Words => Nested!TypeOK
  BY DEF Chain, Words, Nested!TypeOK
<1> QED BY <1>1, <1>2, <1>3, ChainInvariant, PTL DEF Nested!Spec
=============================================================================
