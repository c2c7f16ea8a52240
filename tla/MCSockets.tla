------------------------------ MODULE MCSockets ------------------------------
(***************************************************************************)
(* The programs of sockets/hw2/multiproto and those of sockets/hw1: one of *)
(* the two groups is run, and the variables of the other keep an initial   *)
(* value.  Two clients of each kind, and two servers of hw1 with a backlog  *)
(* small enough for two clients to fill it.                                *)
(***************************************************************************)
EXTENDS MultiProtoServer

CONSTANTS Servers, PAIR_BACKLOG  \* of SocketPairs

ASSUME PairAssumption ==
  /\ PAIR_BACKLOG \in Nat
  /\ IsFiniteSet(Servers) /\ IsFiniteSet(Clients)
  /\ Servers \cap Clients = {}
  /\ None \notin Servers

VARIABLES
  program,
  kind, path, clientPath, timewait, pc, queue, peer, request, inbox,
  reply,  \* got of SocketPairs
  overlapped,
  missed  \* lost of SocketPairs

Pairs == INSTANCE SocketPairs WITH
  BACKLOG <- PAIR_BACKLOG, got <- reply, lost <- missed

pairsVars ==
  <<kind, path, clientPath, timewait, pc, queue, peer, request, inbox, reply,
    overlapped, missed>>

OneOf(programs) ==
  /\ program \in programs
  /\ Init /\ Pairs!Init
  /\ program # "hw1" => kind = <<"inet", "stream">>

OneRuns ==
  /\ UNCHANGED program
  /\ \/ program = "multiproto" /\ Next /\ UNCHANGED pairsVars
     \/ program = "hw1" /\ Pairs!Next /\ UNCHANGED vars

allVars == <<program, vars, pairsVars>>

MultiProtoSpec ==
  OneOf({"multiproto"}) /\ [][OneRuns]_allVars /\ Fairness

PairsSpec ==
  OneOf({"hw1"}) /\ [][OneRuns]_allVars /\ Pairs!Fairness

-----------------------------------------------------------------------------
(* A server of hw1 can be reached, its clients read their own replies, and *)
(* who is connected or heard ends.                                         *)
ServerReachable == Pairs!ServerReachable
OwnReply == Pairs!OwnReply
PromisedClientEnds == Pairs!PromisedClientEnds
=============================================================================
