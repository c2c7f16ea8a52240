---------------------------- MODULE MCServerQueue ----------------------------
(* Model values and symmetry for the runs of ServerQueue.                  *)
EXTENDS ServerQueue, TLC

Symmetry == Permutations(Clients) \cup Permutations(Workers)
=============================================================================
