------------------------------ MODULE PhoneHeap ------------------------------
(***************************************************************************)
(* dynamic/task.c: a phone book in a block that realloc() grows and        *)
(* shrinks by one record.  The last record takes the place of a deleted    *)
(* one.  heap is the block, as long as it is allocated; the empty block is *)
(* the null pointer.                                                       *)
(***************************************************************************)
EXTENDS Naturals, Sequences

VARIABLES
  heap, count,
  exited,    \* the program has ended with exit(1)
  exhausted  \* history: there was no memory for a block that was asked for

heapVars == <<heap, count, exited, exhausted>>

HeapInit == heap = <<>> /\ count = 0 /\ exited = FALSE /\ exhausted = FALSE

(* The old block is forgotten and the program ends.                        *)
ReallocFails ==
  exited' = TRUE /\ exhausted' = TRUE /\ UNCHANGED <<heap, count>>

(* add_abonent.                                                            *)
HeapAdd(r) ==
  \/ ReallocFails
  \/ /\ heap' = Append(heap, r)
     /\ count' = count + 1
     /\ UNCHANGED <<exited, exhausted>>

InHeap(name) == {i \in 1..count : heap[i].name = name}

FirstInHeap(name) ==
  CHOOSE i \in InHeap(name) : \A j \in InHeap(name) : i <= j

Shrunk(i) == SubSeq([heap EXCEPT ![i] = heap[count]], 1, count - 1)

(* With a fault: any null result is taken for a failure.                  *)
NullIsFailure(null, records) == null

(* What a null result of realloc() means when so many records are left.    *)
IsFailure(null, records) == null /\ records > 0

(* delete_abonent.  realloc() to no bytes frees the block, and may return  *)
(* null for that; to a smaller size it fails only for want of memory.      *)
HeapDelete(name) ==
  IF InHeap(name) = {} THEN UNCHANGED heapVars ELSE
    \E null \in BOOLEAN :
      /\ exhausted' = (exhausted \/ (null /\ count > 1))
      /\ exited' = IsFailure(null, count - 1)
      /\ IF exited' THEN UNCHANGED <<heap, count>>
                    ELSE /\ heap' = Shrunk(FirstInHeap(name))
                         /\ count' = count - 1
=============================================================================
