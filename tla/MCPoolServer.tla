---------------------------- MODULE MCPoolServer ----------------------------
(* Model values for the run of PoolServer.                                 *)
EXTENDS PoolServer
=============================================================================
