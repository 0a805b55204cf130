-------------------------- MODULE SessionLineages --------------------------
(***************************************************************************)
(* What users are promised about their sessions: a login starts a lineage, *)
(* a refresh replaces its only session by a fresh one, and whatever logs   *)
(* out or revokes ends lineages of one user, for good.  Each is one step.  *)
(* Sessions implements it.                                                 *)
(***************************************************************************)
CONSTANTS
    Users,
    Sessions,   \* sessions ever created; a lineage is named by its first one
    NoUser

VARIABLES
    owner,  \* by lineage: the user it belongs to
    live,   \* by lineage: its active sessions
    used    \* the sessions that have ever been created

vars == <<owner, live, used>>

TypeOK ==
    /\ owner \in [Sessions -> Users \cup {NoUser}]
    /\ live \in [Sessions -> SUBSET Sessions]
    /\ used \in SUBSET Sessions

Init ==
    /\ owner = [f \in Sessions |-> NoUser]
    /\ live = [f \in Sessions |-> {}]
    /\ used = {}

Create(s) ==
    /\ s \notin used
    /\ used' = used \cup {s}

\* Register and Login.
Begin(u, s) ==
    /\ Create(s)
    /\ owner' = [owner EXCEPT ![s] = u]
    /\ live' = [live EXCEPT ![s] = {s}]

\* RefreshToken: s was the only session of the lineage, and t is now.
Rotate(f, s, t) ==
    /\ live[f] = {s}
    /\ Create(t)
    /\ live' = [live EXCEPT ![f] = {t}]
    /\ UNCHANGED owner

\* Logout, LogoutAllDevices, reuse detection, ChangePassword, ResetCredential.
End(u, lineages) ==
    /\ \A f \in lineages : owner[f] = u
    /\ live' = [f \in Sessions |-> IF f \in lineages THEN {} ELSE live[f]]
    /\ UNCHANGED <<owner, used>>

Next ==
    \/ \E u \in Users, s \in Sessions : Begin(u, s)
    \/ \E f, s, t \in Sessions : Rotate(f, s, t)
    \/ \E u \in Users, lineages \in SUBSET Sessions : End(u, lineages)

Spec == Init /\ [][Next]_vars
=============================================================================
