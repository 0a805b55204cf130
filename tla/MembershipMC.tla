---------------------------- MODULE MembershipMC ----------------------------
(* Instances of Membership for TLC. *)
EXTENDS Membership, TLC

\* Users and requests are compared for equality only.
Symmetry == Permutations(Users) \cup Permutations(Requests)
=============================================================================
