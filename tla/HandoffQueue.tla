---------------------------- MODULE HandoffQueue ----------------------------
(***************************************************************************)
(* What client_queue of "server queue" promises to the rest of the         *)
(* program: a bounded first-in first-out hand-off.  Every connection is    *)
(* put in at most once, at most Cap of them wait, each is given to exactly *)
(* one server thread in the order of arrival, and none comes back.         *)
(* There are no locks, condition variables or array indices here.          *)
(***************************************************************************)
EXTENDS Naturals, Sequences

CONSTANTS Conns, Servers, Cap, None

VARIABLES
  pending,  \* connections that have not been put in yet
  fifo,     \* connections waiting, oldest first
  serving,  \* what each server thread works on
  done      \* connections given back

vars == <<pending, fifo, serving, done>>

Init ==
  /\ pending = Conns
  /\ fifo = <<>>
  /\ serving = [w \in Servers |-> None]
  /\ done = {}

Put(c) ==
  /\ c \in pending
  /\ Len(fifo) < Cap
  /\ pending' = pending \ {c}
  /\ fifo' = Append(fifo, c)
  /\ UNCHANGED <<serving, done>>

Take(w) ==
  /\ fifo # <<>>
  /\ serving[w] = None
  /\ serving' = [serving EXCEPT ![w] = Head(fifo)]
  /\ fifo' = Tail(fifo)
  /\ UNCHANGED <<pending, done>>

Finish(w) ==
  /\ serving[w] # None
  /\ done' = done \cup {serving[w]}
  /\ serving' = [serving EXCEPT ![w] = None]
  /\ UNCHANGED <<pending, fifo>>

Next ==
  \/ \E c \in Conns : Put(c)
  \/ \E w \in Servers : Take(w) \/ Finish(w)

Spec == Init /\ [][Next]_vars
=============================================================================
