----------------------------- MODULE NestedShell -----------------------------
(***************************************************************************)
(* processes/task3.c: a shell without pipes.  A child whose execvp() fails *)
(* does not end: it goes on with the loop it was forked in and becomes a   *)
(* shell of its own, under a shell that waits for it.  The result of       *)
(* fgets() is not looked at either: at end-of-file the last line is taken  *)
(* again, one character shorter each time.                                 *)
(*                                                                         *)
(* The input delivers one line for each read(), as a terminal does.        *)
(***************************************************************************)
EXTENDS Naturals, FiniteSets

CONSTANTS
  Procs,  \* the processes there is room for
  Root,   \* the shell the user starts, one of them
  WORD    \* bound of the model: the longest name of a command

VARIABLES
  pc,      \* where each process is
  parent,  \* who forked it
  word,    \* the length of the first word in its line[]
  eof      \* the input is closed

vars == <<pc, parent, word, eof>>

TypeOK ==
  /\ pc \in [Procs -> {"none", "prompt", "fork", "exec", "run", "wait",
                       "zombie"}]
  /\ parent \in [Procs -> Procs]
  /\ word \in [Procs -> 0..WORD]
  /\ eof \in BOOLEAN

(* line[] is not initialised: whatever it holds counts as a first line.    *)
Init ==
  /\ pc = [p \in Procs |-> IF p = Root THEN "prompt" ELSE "none"]
  /\ parent = [p \in Procs |-> Root]
  /\ word \in {[p \in Procs |-> n] : n \in 0..WORD}
  /\ eof = FALSE

Goto(p, label) == pc' = [pc EXCEPT ![p] = label]

(* The end of a process.  Nobody in the program waits for the first one.   *)
Gone(p) == IF p = Root THEN "none" ELSE "zombie"

-----------------------------------------------------------------------------
(* What follows fgets(): a line without a word makes strcmp() read a null  *)
(* pointer and ends the process, "exit" ends it too, and anything else is  *)
(* forked for.                                                             *)
TakeLine(p, length) ==
  /\ word' = [word EXCEPT ![p] = length]
  /\ \/ Goto(p, Gone(p))
     \/ length > 0 /\ Goto(p, "fork")
  /\ UNCHANGED <<parent, eof>>

ReadLine(p) ==
  /\ pc[p] = "prompt"
  /\ ~eof
  /\ \E n \in 0..WORD : TakeLine(p, n)

(* With a fault: the line is not shortened at end-of-file.                 *)
ReadEofWhole(p) ==
  /\ pc[p] = "prompt"
  /\ eof
  /\ TakeLine(p, word[p])

(* fgets() leaves line[] alone and its last character is cut off as if it  *)
(* were a newline.                                                         *)
ReadEof(p) ==
  /\ pc[p] = "prompt"
  /\ eof
  /\ TakeLine(p, IF word[p] = 0 THEN 0 ELSE word[p] - 1)

(* With a fault: the parent does not wait for the command.                 *)
ForkOnly(p, c) ==
  /\ pc[p] = "fork"
  /\ pc[c] = "none" /\ c # Root
  /\ pc' = [pc EXCEPT ![p] = "prompt", ![c] = "exec"]
  /\ parent' = [parent EXCEPT ![c] = p]
  /\ word' = [word EXCEPT ![c] = word[p]]
  /\ UNCHANGED eof

(* fork(): the child has a copy of everything, line[] included.            *)
Fork(p, c) ==
  /\ pc[p] = "fork"
  /\ pc[c] = "none" /\ c # Root
  /\ pc' = [pc EXCEPT ![p] = "wait", ![c] = "exec"]
  /\ parent' = [parent EXCEPT ![c] = p]
  /\ word' = [word EXCEPT ![c] = word[p]]
  /\ UNCHANGED eof

(* fork() returns -1; wait() has no child to wait for.                     *)
ForkFails(p) ==
  /\ pc[p] = "fork"
  /\ Goto(p, "prompt")
  /\ UNCHANGED <<parent, word, eof>>

Exec(p) ==
  /\ pc[p] = "exec"
  /\ Goto(p, "run")
  /\ UNCHANGED <<parent, word, eof>>

ExecFails(p) ==
  /\ pc[p] = "exec"
  /\ Goto(p, "prompt")
  /\ UNCHANGED <<parent, word, eof>>

CommandEnds(p) ==
  /\ pc[p] = "run"
  /\ Goto(p, "zombie")
  /\ UNCHANGED <<parent, word, eof>>

Wait(p, c) ==
  /\ pc[p] = "wait"
  /\ pc[c] = "zombie" /\ parent[c] = p
  /\ pc' = [pc EXCEPT ![p] = "prompt", ![c] = "none"]
  /\ UNCHANGED <<parent, word, eof>>

ProcStep(p) ==
  \/ ReadLine(p) \/ ReadEof(p)
  \/ ForkFails(p) \/ Exec(p) \/ ExecFails(p) \/ CommandEnds(p)
  \/ \E c \in Procs : Fork(p, c) \/ Wait(p, c)

CloseInput == ~eof /\ eof' = TRUE /\ UNCHANGED <<pc, parent, word>>

Next == CloseInput \/ \E p \in Procs : ProcStep(p)

Spec == Init /\ [][Next]_vars

(* The scheduler runs every process and commands end.  The user need not   *)
(* type anything or close the input.                                       *)
Fairness == \A p \in Procs : WF_vars((pc[p] # "prompt" \/ eof) /\ ProcStep(p))

FairSpec == Spec /\ Fairness

-----------------------------------------------------------------------------
Active == {p \in Procs : pc[p] \in {"prompt", "fork", "exec", "run"}}

(* However many shells have piled up, the terminal has one reader: at most *)
(* one process is not waiting, every process but the first has a parent    *)
(* that waits for it, and no parent waits for two.                         *)
OneForeground ==
  /\ Cardinality(Active) <= 1
  /\ \A c \in Procs \ {Root} : pc[c] # "none" => pc[parent[c]] = "wait"
  /\ \A b, c \in Procs \ {Root} :
       pc[b] # "none" /\ pc[c] # "none" /\ parent[b] = parent[c] => b = c

(* When the input is closed every shell of the pile ends, although none of *)
(* them looks for end-of-file: each takes its last line again, shorter     *)
(* every time, until no word is left.                                      *)
EndsAfterEof == eof ~> \A p \in Procs : pc[p] = "none"
=============================================================================
