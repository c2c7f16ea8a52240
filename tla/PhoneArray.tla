----------------------------- MODULE PhoneArray -----------------------------
(***************************************************************************)
(* structs/task.c: a phone book in an array of MAX_ABONENTS records.       *)
(* Fields fit in NAME_LEN and menu choices are numbers; a record is its    *)
(* name and whatever else is in it.                                        *)
(***************************************************************************)
EXTENDS Naturals

CONSTANTS
  Names, Others,  \* names, and the rest of a record
  MAX_ABONENTS,   \* at least 1
  Zero            \* a record of zero bytes

Records == [name : Names, other : Others]
Slots == 0..(MAX_ABONENTS - 1)

VARIABLES list, abonents_count

arrayVars == <<list, abonents_count>>

ArrayTypeOK ==
  /\ list \in [Slots -> Records \cup {Zero}]
  /\ abonents_count \in 0..MAX_ABONENTS

ArrayInit ==
  /\ list = [i \in Slots |-> Zero]
  /\ abonents_count = 0

ArrayFull == abonents_count >= MAX_ABONENTS

(* add_abonent; a full book is left as it is.                              *)
ArrayAdd(r) ==
  IF ArrayFull THEN UNCHANGED arrayVars ELSE
    /\ list' = [list EXCEPT ![abonents_count] = r]
    /\ abonents_count' = abonents_count + 1

(* Where the loops of delete_abonent and search_abonent find the name.     *)
InArray(name) == {i \in 0..(abonents_count - 1) : list[i].name = name}

First(slots) == CHOOSE i \in slots : \A j \in slots : i <= j

(* With a fault: the loop starts one record too late.                      *)
ShiftedLate(i) ==
  [j \in Slots |-> IF j \in (i + 1)..(abonents_count - 2) THEN list[j + 1]
                   ELSE IF j = abonents_count - 1 THEN Zero ELSE list[j]]

(* The records after the deleted one move down and the last is zeroed.     *)
Shifted(i) ==
  [j \in Slots |-> IF j \in i..(abonents_count - 2) THEN list[j + 1]
                   ELSE IF j = abonents_count - 1 THEN Zero ELSE list[j]]

(* delete_abonent; an unknown name changes nothing.                        *)
ArrayDelete(name) ==
  IF InArray(name) = {} THEN UNCHANGED arrayVars ELSE
    /\ list' = Shifted(First(InArray(name)))
    /\ abonents_count' = abonents_count - 1
=============================================================================
