------------------------- MODULE ProjectLifecycleMC -------------------------
(* Instances of ProjectLifecycle for TLC. *)
EXTENDS ProjectLifecycle, TLC

\* Identifiers are interchangeable: the specification compares them for
\* equality only.
Symmetry ==
    Permutations(Projects) \cup Permutations(Milestones)
        \cup Permutations(Users) \cup Permutations(Deliverables)
=============================================================================
