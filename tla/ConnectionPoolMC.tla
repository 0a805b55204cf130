-------------------------- MODULE ConnectionPoolMC --------------------------
(* An instance of ConnectionPool for TLC; liveness rules out symmetry. *)
EXTENDS ConnectionPool
=============================================================================
