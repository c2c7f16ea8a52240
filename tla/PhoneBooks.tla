----------------------------- MODULE PhoneBooks -----------------------------
(***************************************************************************)
(* The two phone books, structs/task.c and dynamic/task.c, given the same  *)
(* commands.  Searching and printing change nothing and are left out.      *)
(***************************************************************************)
EXTENDS PhoneArray, PhoneHeap, FiniteSets

CONSTANT MAX_RECORDS  \* bound of the model: records in dynamic/task.c

VARIABLE refused  \* history: the array was full when a record was entered

vars == <<arrayVars, heapVars, refused>>

TypeOK ==
  /\ ArrayTypeOK
  /\ heap \in Seq(Records)
  /\ count \in 0..MAX_RECORDS
  /\ exited \in BOOLEAN /\ exhausted \in BOOLEAN /\ refused \in BOOLEAN

Init == ArrayInit /\ HeapInit /\ refused = FALSE

(* Menu item 1.  A program that has ended takes no more commands.          *)
Add(r) ==
  /\ count < MAX_RECORDS
  /\ ArrayAdd(r)
  /\ IF exited THEN UNCHANGED heapVars ELSE HeapAdd(r)
  /\ refused' = (refused \/ ArrayFull)

(* Menu item 2.                                                            *)
Delete(name) ==
  /\ ArrayDelete(name)
  /\ IF exited THEN UNCHANGED heapVars ELSE HeapDelete(name)
  /\ UNCHANGED refused

Next ==
  \/ \E r \in Records : Add(r)
  \/ \E name \in Names : Delete(name)

Spec == Init /\ [][Next]_vars

-----------------------------------------------------------------------------
(* The array is the list of PhoneBook, in spite of the shifting: the slots *)
(* below the count, in order, and none of a deleted record's data is left  *)
(* above it.                                                               *)
Book == INSTANCE PhoneBook WITH
  book <- [k \in 1..abonents_count |-> list[k - 1]]

NothingLeft == \A i \in Slots : i >= abonents_count => list[i] = Zero

ArrayIsList == Book!Spec /\ []NothingLeft

(* The two programs hold records under the same names, as often, although  *)
(* they delete different ones of several namesakes and order them          *)
(* differently, and the one on the heap goes on, its last record deleted   *)
(* or not: as long as there is memory and room for what is entered.        *)
SameNames ==
  ~exhausted /\ ~refused =>
    /\ ~exited
    /\ count = Len(heap) /\ count = abonents_count
    /\ \A name \in Names :
         Cardinality(InArray(name)) = Cardinality(InHeap(name))
=============================================================================
