---------------------------- MODULE ClientAccess ----------------------------
(***************************************************************************)
(* What an organization is promised about the clients of its projects: the *)
(* observable effect of project.AssignClient and of client.Provision and   *)
(* client.Remove when each is one step.  ClientAssignment implements it.   *)
(***************************************************************************)
EXTENDS FiniteSets

CONSTANTS
    Projects,  \* the projects of the organization
    Users,     \* the people who may become clients
    NoUser     \* not a user: client_id IS NULL

VARIABLES
    phase,     \* by project: open, archived, cancelled or deleted
    client,    \* projects.client_id
    members    \* users with an active client membership

vars == <<phase, client, members>>

\* Drafts, active and completed projects are open to mutation.
Phases == {"open", "archived", "cancelled", "deleted"}

TypeOK ==
    /\ phase \in [Projects -> Phases]
    /\ client \in [Projects -> Users \cup {NoUser}]
    /\ members \in SUBSET Users

Live(p) == phase[p] # "deleted"

\* u is the client of a live project other than those of except.
Attached(u, except) ==
    \E q \in Projects \ except : Live(q) /\ client[q] = u

Init ==
    /\ phase = [p \in Projects |-> "open"]
    /\ client = [p \in Projects |-> NoUser]
    /\ members = {}

\* assertProjectNotFrozen, restoreProject and the soft delete.
PhaseTransitions ==
    [open      |-> {"archived", "cancelled", "deleted"},
     archived  |-> {"open", "deleted"},
     cancelled |-> {"deleted"},
     deleted   |-> {}]

ChangePhase(p, next) ==
    /\ next \in PhaseTransitions[phase[p]]
    /\ phase' = [phase EXCEPT ![p] = next]
    /\ UNCHANGED <<client, members>>

\* The client of an open project is replaced by a member, or by nobody.  The
\* displaced client's membership goes unless another project names them; a
\* project deleted while the request ran may count, a live one must.
ChangeClient(p, u) ==
    LET old == client[p] IN
    /\ phase[p] = "open"
    /\ u # old
    /\ u \in members \cup {NoUser}
    /\ client' = [client EXCEPT ![p] = u]
    /\ \/ /\ members' = members
          /\ old = NoUser \/ \E q \in Projects \ {p} : client[q] = old
       \/ /\ members' = members \ {old}
          /\ old # NoUser /\ ~Attached(old, {p})
    /\ UNCHANGED phase

Provision(u) ==
    /\ u \notin members
    /\ members' = members \cup {u}
    /\ UNCHANGED <<phase, client>>

Remove(u) ==
    /\ u \in members
    /\ ~Attached(u, {})
    /\ members' = members \ {u}
    /\ UNCHANGED <<phase, client>>

Next ==
    \/ \E p \in Projects, next \in Phases : ChangePhase(p, next)
    \/ \E p \in Projects, u \in Users \cup {NoUser} : ChangeClient(p, u)
    \/ \E u \in Users : Provision(u) \/ Remove(u)

Spec == Init /\ [][Next]_vars
=============================================================================
