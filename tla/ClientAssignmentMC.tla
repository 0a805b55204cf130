------------------------- MODULE ClientAssignmentMC -------------------------
(* An instance of ClientAssignment for TLC; liveness rules out symmetry. *)
EXTENDS ClientAssignment
=============================================================================
