---------------------------- MODULE PipelineShell ----------------------------
(***************************************************************************)
(* pipes/task3.c: a shell that runs one command, or two joined by a pipe,  *)
(* and prompts again when they have ended.  Who holds an end of the pipe   *)
(* decides who sees end-of-file, who is killed by SIGPIPE and who waits    *)
(* for ever, so the model follows the descriptors through fork(), close()  *)
(* and the end of a process.                                               *)
(*                                                                         *)
(* The commands are any programs that write or read one piece at a time,   *)
(* stop when they like, and stop at end-of-file.  A line has fewer words   *)
(* than MAX_ARGS; only the branch with a pipe checks that.                 *)
(***************************************************************************)
EXTENDS Naturals, FiniteSets

CONSTANTS
  Shell,             \* the shell
  Left, Right,       \* the children of a line with a pipe
  Only,              \* the child of a line without one
  PIPE_BUF,          \* pieces the pipe holds
  OUTPUT             \* bound of the model: pieces a command writes at most

Children == {Left, Right, Only}
Procs == Children \cup {Shell}

ASSUME PipeAssumption ==
  /\ Left # Right /\ Only \notin {Left, Right} /\ Shell \notin Children
  /\ PIPE_BUF \in Nat \ {0} /\ OUTPUT \in Nat

VARIABLES
  spc,               \* where the shell is in main()
  cpc,               \* where each child is
  readers, writers,  \* the processes that hold pipefd[0] and pipefd[1]
  pipe,              \* pieces in the pipe
  written, taken,    \* pieces the commands of this line wrote and read
  eof                \* the right command has read end-of-file

ends == <<readers, writers>>
data == <<pipe, written, taken, eof>>
vars == <<spc, cpc, ends, data>>

TypeOK ==
  /\ spc \in {"prompt", "pipe", "forkLeft", "forkRight", "closeRead",
              "closeWrite", "waitTwice", "forkOnly", "wait", "ended",
              "crashed"}
  /\ cpc \in [Children -> {"none", "setup", "exec", "run", "write", "read",
                           "zombie"}]
  /\ readers \subseteq Procs /\ writers \subseteq Procs
  /\ pipe \in 0..PIPE_BUF
  /\ written \in 0..OUTPUT /\ taken \in 0..OUTPUT
  /\ eof \in BOOLEAN

Init ==
  /\ spc = "prompt"
  /\ cpc = [p \in Children |-> "none"]
  /\ readers = {} /\ writers = {}
  /\ pipe = 0 /\ written = 0 /\ taken = 0
  /\ eof = FALSE

ShellGoes(from, to) == spc = from /\ spc' = to
ChildGoes(p, from, to) == cpc[p] = from /\ cpc' = [cpc EXCEPT ![p] = to]

-----------------------------------------------------------------------------
(* main().                                                                 *)

(* fgets() and the strtok() calls that tell the kinds of line apart.  A    *)
(* line without a word makes strcmp() read a null pointer, which ends the  *)
(* shell.                                                                  *)
ReadLine ==
  /\ spc = "prompt"
  /\ spc' \in {"pipe", "forkOnly", "ended", "crashed"}
  /\ UNCHANGED <<cpc, ends, data>>

(* pipe(); nothing of an earlier line is left in the new one.              *)
MakePipe ==
  /\ ShellGoes("pipe", "forkLeft")
  /\ readers' = {Shell} /\ writers' = {Shell}
  /\ pipe' = 0 /\ written' = 0 /\ taken' = 0
  /\ eof' = FALSE
  /\ UNCHANGED cpc

PipeFails ==
  /\ ShellGoes("pipe", "ended")
  /\ UNCHANGED <<cpc, ends, data>>

(* With a fault: the shell gives the read end up before the right command  *)
(* exists.                                                                 *)
ForkAndDropReader(p, from, to, first) ==
  /\ ShellGoes(from, to)
  /\ cpc' = [cpc EXCEPT ![p] = first]
  /\ readers' = (IF Shell \in readers THEN readers \cup {p} ELSE readers)
                  \ {Shell}
  /\ writers' = IF Shell \in writers THEN writers \cup {p} ELSE writers
  /\ UNCHANGED data

(* fork() succeeds: the child holds what the shell holds.                  *)
Fork(p, from, to, first) ==
  /\ ShellGoes(from, to)
  /\ cpc' = [cpc EXCEPT ![p] = first]
  /\ readers' = IF Shell \in readers THEN readers \cup {p} ELSE readers
  /\ writers' = IF Shell \in writers THEN writers \cup {p} ELSE writers
  /\ UNCHANGED data

(* fork() returns -1, which the shell takes for the parent's branch.       *)
ForkFails(from, to) ==
  /\ ShellGoes(from, to)
  /\ UNCHANGED <<cpc, ends, data>>

CloseRead ==
  /\ ShellGoes("closeRead", "closeWrite")
  /\ readers' = readers \ {Shell}
  /\ UNCHANGED <<cpc, writers, data>>

(* With a fault: the shell keeps its write end.                            *)
CloseWriteForgotten ==
  /\ ShellGoes("closeWrite", "waitTwice")
  /\ UNCHANGED <<cpc, ends, data>>

CloseWrite ==
  /\ ShellGoes("closeWrite", "waitTwice")
  /\ writers' = writers \ {Shell}
  /\ UNCHANGED <<cpc, readers, data>>

(* wait(NULL) takes any child that has ended, blocks while all of them     *)
(* run, and returns at once when there is none.                            *)
Wait(from, to) ==
  /\ ShellGoes(from, to)
  /\ \/ /\ \A p \in Children : cpc[p] = "none"
        /\ UNCHANGED cpc
     \/ \E p \in Children : ChildGoes(p, "zombie", "none")
  /\ UNCHANGED <<ends, data>>

(* With a fault: the shell waits for one child only.                       *)
ShellStepOneWait ==
  \/ ReadLine \/ MakePipe \/ PipeFails
  \/ Fork(Left, "forkLeft", "forkRight", "setup")
  \/ Fork(Right, "forkRight", "closeRead", "setup")
  \/ CloseRead \/ CloseWrite
  \/ Wait("waitTwice", "prompt") \/ Wait("wait", "prompt")
  \/ Fork(Only, "forkOnly", "wait", "exec")

ShellStep ==
  \/ ReadLine \/ MakePipe \/ PipeFails
  \/ Fork(Left, "forkLeft", "forkRight", "setup")
  \/ ForkFails("forkLeft", "forkRight")
  \/ Fork(Right, "forkRight", "closeRead", "setup")
  \/ ForkFails("forkRight", "closeRead")
  \/ CloseRead \/ CloseWrite
  \/ Wait("waitTwice", "wait") \/ Wait("wait", "prompt")
  \/ Fork(Only, "forkOnly", "wait", "exec")
  \/ ForkFails("forkOnly", "wait")

-----------------------------------------------------------------------------
(* The children, up to execvp().                                           *)

(* close() of the end the child does not use.  dup2() and the second       *)
(* close() only move the other end to the standard descriptor.             *)
CloseOtherEnd(p) ==
  /\ ChildGoes(p, "setup", "exec")
  /\ IF p = Left THEN readers' = readers \ {p} /\ UNCHANGED writers
                 ELSE writers' = writers \ {p} /\ UNCHANGED readers
  /\ UNCHANGED <<spc, data>>

Exec(p) ==
  /\ ChildGoes(p, "exec", "run")
  /\ UNCHANGED <<spc, ends, data>>

(* The end of a process, which closes everything it holds.                 *)
Ends(p) ==
  /\ cpc' = [cpc EXCEPT ![p] = "zombie"]
  /\ readers' = readers \ {p}
  /\ writers' = writers \ {p}
  /\ UNCHANGED <<spc, data>>

(* execvp() fails, perror() and exit().                                    *)
ExecFails(p) == cpc[p] = "exec" /\ Ends(p)

ChildStep(p) == CloseOtherEnd(p) \/ Exec(p) \/ ExecFails(p)

-----------------------------------------------------------------------------
(* The commands.  Once a command has entered write() or read() it cannot   *)
(* stop before the call returns.                                           *)

Stops(p) == cpc[p] = "run" /\ Ends(p)

StartWrite ==
  /\ ChildGoes(Left, "run", "write")
  /\ written < OUTPUT
  /\ UNCHANGED <<spc, ends, data>>

Write ==
  /\ ChildGoes(Left, "write", "run")
  /\ readers # {}
  /\ pipe < PIPE_BUF
  /\ pipe' = pipe + 1
  /\ written' = written + 1
  /\ UNCHANGED <<spc, ends, taken, eof>>

(* Nobody can read any more: SIGPIPE.                                      *)
WriteKills == cpc[Left] = "write" /\ readers = {} /\ Ends(Left)

StartRead ==
  /\ ~eof
  /\ ChildGoes(Right, "run", "read")
  /\ UNCHANGED <<spc, ends, data>>

Read ==
  /\ ChildGoes(Right, "read", "run")
  /\ pipe > 0
  /\ pipe' = pipe - 1
  /\ taken' = taken + 1
  /\ UNCHANGED <<spc, ends, written, eof>>

(* read() returns 0: the pipe is empty and nobody can write any more.      *)
ReadEof ==
  /\ ChildGoes(Right, "read", "run")
  /\ pipe = 0
  /\ writers = {}
  /\ eof' = TRUE
  /\ UNCHANGED <<spc, ends, pipe, written, taken>>

CommandStep(p) ==
  \/ Stops(p)
  \/ p = Left /\ (StartWrite \/ Write \/ WriteKills)
  \/ p = Right /\ (StartRead \/ Read \/ ReadEof)

-----------------------------------------------------------------------------
Next == ShellStep \/ \E p \in Children : ChildStep(p) \/ CommandStep(p)

Spec == Init /\ [][Next]_vars

(* The scheduler runs the shell and every child.  No line is ever owed.    *)
Fairness ==
  /\ WF_vars(spc # "prompt" /\ ShellStep)
  /\ \A p \in Children : WF_vars(ChildStep(p) \/ CommandStep(p))

FairSpec == Spec /\ Fairness

-----------------------------------------------------------------------------
(* Every line starts, and the shell ends, with nothing left of the line    *)
(* before: no child running or waiting to be reaped and no end of a pipe   *)
(* open, whichever of fork(), pipe() and execvp() failed and whichever     *)
(* command ended first.                                                    *)
CleanPrompt ==
  spc \in {"prompt", "ended", "crashed"} =>
    /\ \A p \in Children : cpc[p] = "none"
    /\ readers = {} /\ writers = {}

(* What the pipe tells a command about the other one is true: the right    *)
(* one reads end-of-file only after it has read all the left one will ever *)
(* write, and the left one is killed by SIGPIPE only when the right one    *)
(* has ended, or could not be started at all.                              *)
PipeTellsTheTruth ==
  /\ eof => taken = written /\ cpc[Left] \in {"none", "zombie"}
  /\ cpc[Left] = "write" /\ readers = {} =>
       /\ spc \notin {"forkRight", "closeRead"}
       /\ cpc[Right] \in {"none", "zombie"}

(* Every line comes back to the prompt, or ends the shell: the commands    *)
(* never wait for an end of the pipe that the shell or the other command   *)
(* has forgotten to close.                                                 *)
EveryLineEnds ==
  spc # "prompt" ~> spc \in {"prompt", "ended", "crashed"}
=============================================================================
