------------------------------ MODULE MCShells ------------------------------
(***************************************************************************)
(* The two shells, with and without pipes.  The user runs one of them; the *)
(* other one's variables keep their initial values, in which it waits for  *)
(* its user and is owed no step.                                           *)
(***************************************************************************)
EXTENDS PipelineShell

CONSTANTS Processes, Root, WORD  \* of NestedShell

ASSUME NestedAssumption == Root \in Processes /\ WORD \in Nat

VARIABLES program, pc, parent, word, nestedEof

Nested == INSTANCE NestedShell WITH Procs <- Processes, eof <- nestedEof

nestedVars == <<pc, parent, word, nestedEof>>

ShellsInit ==
  /\ program \in {"pipes/task3", "processes/task3"}
  /\ Init /\ Nested!Init

ShellsNext ==
  /\ UNCHANGED program
  /\ \/ program = "pipes/task3" /\ Next /\ UNCHANGED nestedVars
     \/ program = "processes/task3" /\ Nested!Next /\ UNCHANGED vars

ShellsSpec ==
  /\ ShellsInit /\ [][ShellsNext]_<<program, vars, nestedVars>>
  /\ Fairness /\ Nested!Fairness

-----------------------------------------------------------------------------
(* The shell without pipes: one process at a time uses the terminal; at    *)
(* end-of-file the whole pile of shells ends.                              *)
OneForeground == Nested!OneForeground
EndsAfterEof == Nested!EndsAfterEof
=============================================================================
