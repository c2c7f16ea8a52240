---------------------------- MODULE MCOneProcess ----------------------------
(***************************************************************************)
(* The programs that are one process and meet nobody but their user: the   *)
(* file manager, the phone books, the exercises and, with threads, the     *)
(* shop.  The user runs one of them; the variables of the others keep an   *)
(* initial value.                                                          *)
(***************************************************************************)
EXTENDS MCFileManager

CONSTANTS
  Persons, Others, MAX_ABONENTS, MAX_RECORDS, Zero,
  BYTE, HALF, WORDS, Letters, TEXT, SIZE,
  NUM_STORES, NUM_CUSTOMERS, STORE_CAPACITY, MAX_NEED, LOADER_INCREMENT,
  STORE_BOUND, Loader

ASSUME BooksAssumption == MAX_ABONENTS \in Nat \ {0} /\ MAX_RECORDS \in Nat

ASSUME CustomersAssumption ==
  /\ NUM_STORES \in Nat \ {0} /\ NUM_CUSTOMERS \in Nat
  /\ STORE_CAPACITY \in Nat \ {0} /\ LOADER_INCREMENT \in Nat
  /\ MAX_NEED \in Nat /\ STORE_BOUND \in Nat
  /\ STORE_BOUND >= MAX_NEED /\ STORE_BOUND >= STORE_CAPACITY
  /\ Loader \notin Nat /\ None \notin Nat /\ Loader # None

ASSUME TextsAssumption ==
  TEXT \in Nat /\ SIZE \in Nat /\ WORDS \in Nat \ {0}

ASSUME BytesAssumption == BYTE \in Nat \ {0} /\ HALF \in Nat \ {0}

(* So it is for all natural numbers; the provers know no powers but 2^0.   *)
ASSUME PowersAssumption ==
  \A k \in 0..(4 * BYTE + HALF) : 2^k \in Nat /\ 2^(k + 1) = 2 * 2^k

VARIABLES
  program,
  list, abonents_count, heap, count, exited, exhausted, refused,
  task, input, output,
  stores, need, satisfied_customers, store_mutexes,
  satisfied_customers_mutex, pc, i, read, created, joined

Books == INSTANCE PhoneBooks WITH Names <- Persons
Exercise == INSTANCE Exercises
Shop == INSTANCE Shop

booksVars ==
  <<list, abonents_count, heap, count, exited, exhausted, refused>>
exerciseVars == <<task, input, output>>
shopVars ==
  <<stores, need, satisfied_customers, store_mutexes,
    satisfied_customers_mutex, pc, i, read, created, joined>>

OneOf(programs) ==
  /\ program \in programs
  /\ Init /\ Books!Init /\ Exercise!Init /\ Shop!Init
  /\ program # "fm" => files = [p \in Panels |-> <<>>]
  /\ program # "task3" => /\ stores = [s \in Shop!Stores |-> 0]
                          /\ need = [c \in Shop!Customers |-> 0]

OneRuns ==
  /\ UNCHANGED program
  /\ \/ /\ program = "fm" /\ Next
        /\ UNCHANGED <<booksVars, exerciseVars, shopVars>>
     \/ /\ program = "phone books" /\ Books!Next
        /\ UNCHANGED <<vars, exerciseVars, shopVars>>
     \/ /\ program = "exercise" /\ Exercise!Next
        /\ UNCHANGED <<vars, booksVars, shopVars>>
     \/ /\ program = "task3" /\ Shop!Next
        /\ UNCHANGED <<vars, booksVars, exerciseVars>>

allVars == <<program, vars, booksVars, exerciseVars, shopVars>>

FileManagerSpec == OneOf({"fm"}) /\ [][OneRuns]_allVars

SequentialSpec ==
  OneOf({"phone books", "exercise"}) /\ [][OneRuns]_allVars

ShopSpec == OneOf({"task3"}) /\ [][OneRuns]_allVars /\ Shop!Fairness

-----------------------------------------------------------------------------
(* The phone books: the array is a list of records in the order they were  *)
(* entered, and both programs know the same names.                         *)
ArrayIsList == Books!ArrayIsList
SameNames == Books!SameNames

(* The exercises compute what they are for.                                *)
ResultsRight == Exercise!ResultsRight

(* The shop: the loader, the customers and main() end in this order, goods *)
(* are neither lost nor doubled, and the program ends.                     *)
EndsInOrder == Shop!EndsInOrder
GoodsConserved == Shop!GoodsConserved
EndsWhenSatisfied == Shop!EndsWhenSatisfied
=============================================================================
