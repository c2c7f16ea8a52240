------------------------------ MODULE PhoneBook ------------------------------
(***************************************************************************)
(* What structs/task.c promises its user: a list of at most MAX_ABONENTS   *)
(* records in the order they were entered, from which a name takes the     *)
(* record entered first among those that bear it.                          *)
(***************************************************************************)
EXTENDS Naturals, SequencesExt

CONSTANTS Records, Names, MAX_ABONENTS

VARIABLE book

Bearers(name) == {k \in 1..Len(book) : book[k].name = name}

Init == book = <<>>

Add(r) ==
  /\ Len(book) < MAX_ABONENTS
  /\ book' = Append(book, r)

Delete(name) ==
  \E k \in Bearers(name) :
    /\ \A j \in Bearers(name) : k <= j
    /\ book' = RemoveAt(book, k)

Next ==
  \/ \E r \in Records : Add(r)
  \/ \E name \in Names : Delete(name)

Spec == Init /\ [][Next]_book
=============================================================================
