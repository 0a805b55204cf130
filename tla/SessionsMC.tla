----------------------------- MODULE SessionsMC -----------------------------
(* Instances of Sessions for TLC. *)
EXTENDS Sessions, TLC

\* Identifiers are interchangeable.
Symmetry ==
    Permutations(Users) \cup Permutations(Sessions) \cup Permutations(Requests)

\* The state without the history field due, which no action reads.
WithoutHistory ==
    <<rows, [r \in Requests |-> [request[r] EXCEPT !.due = {}]]>>
=============================================================================
