---------------------------- MODULE MCThreadServer ----------------------------
(* ThreadServer with model values for clients, threads and cells.          *)
EXTENDS ThreadServer
=============================================================================
