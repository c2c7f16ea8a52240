-------------------------------- MODULE Shop --------------------------------
(***************************************************************************)
(* pthread/task3.c: customers empty stores until their need is met, a      *)
(* loader fills the stores until every customer is satisfied.  Each store  *)
(* has a mutex that is only ever tried, never waited for: whoever finds a  *)
(* store taken goes on to the next one.                                    *)
(***************************************************************************)
EXTENDS Integers, FiniteSets, FiniteSetsExt

CONSTANTS
  NUM_STORES, NUM_CUSTOMERS,
  STORE_CAPACITY,    \* a store starts with less than this
  MAX_NEED,          \* rand() % 100000 in the code
  LOADER_INCREMENT,
  STORE_BOUND,       \* bound of the model: a store that holds this much is
                     \* not filled further.  It meets any need, so the
                     \* bound hides no control flow
  Loader, None

Stores == 0..(NUM_STORES - 1)
Customers == 0..(NUM_CUSTOMERS - 1)
Threads == Customers \cup {Loader}

VARIABLES
  stores, need, satisfied_customers,
  store_mutexes,              \* who is in each store
  satisfied_customers_mutex,
  pc,                         \* where each thread is
  i,                          \* its local i
  read,                       \* the satisfied_customers a customer has read
  created,                    \* how many threads main() has created
  joined                      \* how many it has joined; then it has ended

goods == <<stores, need>>
counting == <<satisfied_customers, satisfied_customers_mutex, read>>
mainVars == <<created, joined>>
vars == <<goods, counting, store_mutexes, pc, i, mainVars>>

TypeOK ==
  /\ stores \in [Stores -> 0..STORE_BOUND]
  /\ need \in [Customers -> (1 - STORE_BOUND)..MAX_NEED]
  /\ satisfied_customers \in 0..NUM_CUSTOMERS
  /\ store_mutexes \in [Stores -> Threads \cup {None}]
  /\ satisfied_customers_mutex \in Customers \cup {None}
  /\ pc \in [Threads -> {"unborn", "while", "try", "take", "clear", "unlock",
                         "lockCount", "readCount", "writeCount", "add",
                         "check", "done"}]
  /\ i \in [Threads -> 0..NUM_STORES]
  /\ read \in [Customers -> 0..NUM_CUSTOMERS]
  /\ created \in 0..(NUM_CUSTOMERS + 1)
  /\ joined \in 0..(NUM_CUSTOMERS + 1)

Init ==
  /\ stores \in [Stores -> 0..(STORE_CAPACITY - 1)]
  /\ need \in [Customers -> 0..MAX_NEED]
  /\ satisfied_customers = 0
  /\ store_mutexes = [s \in Stores |-> None]
  /\ satisfied_customers_mutex = None
  /\ pc = [t \in Threads |-> "unborn"]
  /\ i = [t \in Threads |-> 0]
  /\ read = [c \in Customers |-> 0]
  /\ created = 0 /\ joined = 0

Goto(t, label) == pc' = [pc EXCEPT ![t] = label]

-----------------------------------------------------------------------------
(* What customers and the loader do alike.                                 *)

(* With a fault: the result of trylock is not looked at.                   *)
EnterUnlocked(t, inside) ==
  /\ pc[t] = "try"
  /\ i[t] < NUM_STORES
  /\ store_mutexes' = [store_mutexes EXCEPT ![i[t]] = t]
  /\ Goto(t, inside)
  /\ UNCHANGED <<goods, counting, i, mainVars>>

(* pthread_mutex_trylock succeeds.                                         *)
Enter(t, inside) ==
  /\ pc[t] = "try"
  /\ i[t] < NUM_STORES
  /\ store_mutexes[i[t]] = None
  /\ store_mutexes' = [store_mutexes EXCEPT ![i[t]] = t]
  /\ Goto(t, inside)
  /\ UNCHANGED <<goods, counting, i, mainVars>>

(* It fails and the for loop goes on.                                      *)
NextStore(t) ==
  /\ pc[t] = "try"
  /\ i[t] < NUM_STORES
  /\ store_mutexes[i[t]] # None
  /\ i' = [i EXCEPT ![t] = @ + 1]
  /\ UNCHANGED <<goods, counting, store_mutexes, pc, mainVars>>

(* The for loop ends without a store.                                      *)
NoStore(t, after) ==
  /\ pc[t] = "try"
  /\ i[t] = NUM_STORES
  /\ i' = [i EXCEPT ![t] = 0]
  /\ Goto(t, after)
  /\ UNCHANGED <<goods, counting, store_mutexes, mainVars>>

(* pthread_mutex_unlock, sleep and break.  The sleep is left out: how long *)
(* a thread sleeps promises nothing about the order of steps.              *)
Leave(t, after) ==
  /\ pc[t] = "unlock"
  /\ store_mutexes' = [store_mutexes EXCEPT ![i[t]] = None]
  /\ i' = [i EXCEPT ![t] = 0]
  /\ Goto(t, after)
  /\ UNCHANGED <<goods, counting, mainVars>>

-----------------------------------------------------------------------------
(* customer_thread.                                                        *)

WhileNeed(c) ==
  /\ pc[c] = "while"
  /\ Goto(c, IF need[c] > 0 THEN "try" ELSE "lockCount")
  /\ UNCHANGED <<goods, counting, store_mutexes, i, mainVars>>

Take(c) ==
  /\ pc[c] = "take"
  /\ need' = [need EXCEPT ![c] = @ - stores[i[c]]]
  /\ Goto(c, "clear")
  /\ UNCHANGED <<stores, counting, store_mutexes, i, mainVars>>

Clear(c) ==
  /\ pc[c] = "clear"
  /\ stores' = [stores EXCEPT ![i[c]] = 0]
  /\ Goto(c, "unlock")
  /\ UNCHANGED <<need, counting, store_mutexes, i, mainVars>>

(* With a fault: the counter is changed without its mutex.                 *)
CountUnlocked(c) ==
  /\ pc[c] = "lockCount"
  /\ satisfied_customers_mutex' = c
  /\ Goto(c, "readCount")
  /\ UNCHANGED <<goods, satisfied_customers, read, store_mutexes, i, mainVars>>

LockCount(c) ==
  /\ pc[c] = "lockCount"
  /\ satisfied_customers_mutex = None
  /\ satisfied_customers_mutex' = c
  /\ Goto(c, "readCount")
  /\ UNCHANGED <<goods, satisfied_customers, read, store_mutexes, i, mainVars>>

(* satisfied_customers++ reads the counter ...                             *)
ReadCount(c) ==
  /\ pc[c] = "readCount"
  /\ read' = [read EXCEPT ![c] = satisfied_customers]
  /\ Goto(c, "writeCount")
  /\ UNCHANGED <<goods, satisfied_customers, satisfied_customers_mutex,
                 store_mutexes, i, mainVars>>

(* ... and writes it; then the mutex is released and the thread ends.      *)
WriteCount(c) ==
  /\ pc[c] = "writeCount"
  /\ satisfied_customers' = read[c] + 1
  /\ satisfied_customers_mutex' = None
  /\ Goto(c, "done")
  /\ UNCHANGED <<goods, read, store_mutexes, i, mainVars>>

CustomerStep(c) ==
  \/ WhileNeed(c)
  \/ Enter(c, "take") \/ NextStore(c) \/ NoStore(c, "while")
  \/ Take(c) \/ Clear(c) \/ Leave(c, "while")
  \/ LockCount(c) \/ ReadCount(c) \/ WriteCount(c)

-----------------------------------------------------------------------------
(* loader_thread.                                                          *)

Filled(amount) ==
  IF amount + LOADER_INCREMENT > STORE_BOUND THEN STORE_BOUND
                                             ELSE amount + LOADER_INCREMENT

Add ==
  /\ pc[Loader] = "add"
  /\ stores' = [stores EXCEPT ![i[Loader]] = Filled(@)]
  /\ Goto(Loader, "unlock")
  /\ UNCHANGED <<need, counting, store_mutexes, i, mainVars>>

(* The counter is read once under its mutex, which is released on both     *)
(* branches.                                                               *)
Check ==
  /\ pc[Loader] = "check"
  /\ satisfied_customers_mutex = None
  /\ Goto(Loader, IF satisfied_customers >= NUM_CUSTOMERS THEN "done"
                  ELSE "try")
  /\ UNCHANGED <<goods, counting, store_mutexes, i, mainVars>>

LoaderStep ==
  \/ Enter(Loader, "add") \/ NextStore(Loader) \/ NoStore(Loader, "check")
  \/ Add \/ Leave(Loader, "check")
  \/ Check

-----------------------------------------------------------------------------
(* main(): the customers are created one by one, then the loader; they are *)
(* joined in the same order, and then the mutexes are destroyed.           *)

ThreadNumber(n) == IF n < NUM_CUSTOMERS THEN n ELSE Loader

Create ==
  /\ created <= NUM_CUSTOMERS
  /\ created' = created + 1
  /\ Goto(ThreadNumber(created),
          IF created < NUM_CUSTOMERS THEN "while" ELSE "try")
  /\ UNCHANGED <<goods, counting, store_mutexes, i, joined>>

Join ==
  /\ created = NUM_CUSTOMERS + 1
  /\ joined <= NUM_CUSTOMERS
  /\ pc[ThreadNumber(joined)] = "done"
  /\ joined' = joined + 1
  /\ UNCHANGED <<goods, counting, store_mutexes, pc, i, created>>

MainStep == Create \/ Join

-----------------------------------------------------------------------------
Next == MainStep \/ LoaderStep \/ \E c \in Customers : CustomerStep(c)

Spec == Init /\ [][Next]_vars

(* The scheduler runs every thread.  The mutex of the counter is held for  *)
(* two steps of a customer only, so weak fairness is enough for it.        *)
Fairness ==
  /\ WF_vars(MainStep)
  /\ WF_vars(LoaderStep)
  /\ \A c \in Customers : WF_vars(CustomerStep(c))

FairSpec == Spec /\ Fairness

-----------------------------------------------------------------------------
(* What is in the stores less what the customers still need.  A store some *)
(* customer has taken from but not yet cleared counts as empty.            *)
Balance ==
  MapThenSumSet(LAMBDA s : IF \E c \in Customers : pc[c] = "clear" /\ i[c] = s
                           THEN 0 ELSE stores[s], Stores)
  - MapThenSumSet(LAMBDA c : need[c], Customers)

(* Goods are never consumed twice or lost: no step of the customers        *)
(* changes the balance, and one visit of the loader adds at most one       *)
(* delivery.  It takes the exclusion of every pair of threads in one store *)
(* to get this right.                                                      *)
GoodsConserved ==
  [][/\ Balance' - Balance \in 0..LOADER_INCREMENT
     /\ Balance' # Balance => Add]_vars

(* Threads past the increment are exactly what the counter says, so the    *)
(* loader goes home only after the last customer, and main() destroys the  *)
(* mutexes only when nobody is left in a store.                            *)
EndsInOrder ==
  /\ satisfied_customers = Cardinality({c \in Customers : pc[c] = "done"})
  /\ pc[Loader] = "done" => \A c \in Customers : pc[c] = "done" /\ need[c] <= 0
  /\ joined = NUM_CUSTOMERS + 1 =>
       /\ \A t \in Threads : pc[t] = "done"
       /\ \A s \in Stores : store_mutexes[s] = None

(* Once no customer needs anything the program ends.                       *)
EndsWhenSatisfied ==
  (\A c \in Customers : need[c] <= 0) ~> joined = NUM_CUSTOMERS + 1
=============================================================================
