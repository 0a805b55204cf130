----------------------------- MODULE Membership -----------------------------
(***************************************************************************)
(* The memberships of one organization and what depends on them: the       *)
(* staff operations of internal/membership/service.go, the creation of the *)
(* organization, the provisioning and removal of clients, and the client   *)
(* and the assignee of one of its projects.                                *)
(*                                                                         *)
(* A row of the memberships table carries a role and a status and several  *)
(* services write it, each by user id and each after its own look at the   *)
(* role.  Some looks lock the row, some do not.  A transaction is split    *)
(* where another may run between its look and its write, and where it      *)
(* waits for a row with another row locked; what it does after its last    *)
(* wait is one step with the commit.                                       *)
(*                                                                         *)
(* Administrators, members and viewers are told apart by the permission    *)
(* gate only and are one role here, staff.  The gate comes before the      *)
(* transaction and is not trusted: whoever passed it may have lost the     *)
(* permission since, so an operation may come at any time from anyone the  *)
(* service itself accepts.                                                 *)
(***************************************************************************)
CONSTANTS
    Users,     \* the people who may hold a membership
    Requests,  \* transactions that may be in flight at a time
    NoUser     \* not a user

ASSUME SentinelAssumption == NoUser \notin Users

VARIABLES
    workspace,  \* "none", or is_personal of the organization
    founder,    \* who created the organization
    member,     \* the memberships table, by user
    project,    \* "none", or whether the project is open or frozen
    client,     \* projects.client_id
    assignee,   \* assigned_to of the project's assignment: project_id is
                \* unique in assignments, so there is at most one
    request     \* the transactions in flight

rows == <<workspace, founder, member, project, client, assignee>>
vars == <<workspace, founder, member, project, client, assignee, request>>

-----------------------------------------------------------------------------
(* Rows *)

Absent       == [role |-> "none", status |-> "none"]
ActiveOwner  == [role |-> "owner", status |-> "active"]
ActiveStaff  == [role |-> "staff", status |-> "active"]
ActiveClient == [role |-> "client", status |-> "active"]
Invited(role) == [role |-> role, status |-> "invited"]

\* Nobody suspends a membership, and an invited row is never activated: no
\* operation accepts an invitation.
MembershipRow ==
    {Absent, ActiveOwner, ActiveStaff, ActiveClient, Invited("owner"),
     Invited("staff")}

Idle ==
    [at |-> "idle", op |-> "none", actor |-> NoUser, target |-> NoUser,
     role |-> "none"]

Operations ==
    {"none", "invite", "add", "rerole", "remove", "removeClient", "assign",
     "assignClient"}

Statements ==
    {"idle",
     "target",  \* a grant of the owner role has its actor, reads its target
     "write",   \* the write of the membership row is next
     "member",  \* EnsureActiveMember is next
     "commit",  \* the assignment is next
     "client",  \* IsActiveClientMember is next
     "prune"}   \* pruneClientMembership is next, and then the commit

Request ==
    [at     : Statements,
     op     : Operations,
     actor  : Users \cup {NoUser},   \* kept for grants of the owner role
     target : Users \cup {NoUser},
     role   : {"none", "owner", "staff"}]

TypeOK ==
    /\ workspace \in {"none", "personal", "shared"}
    /\ founder \in Users \cup {NoUser}
    /\ member \in [Users -> MembershipRow]
    /\ project \in {"none", "open", "frozen"}
    /\ client \in Users \cup {NoUser}
    /\ assignee \in Users \cup {NoUser}
    /\ request \in [Requests -> Request]

Init ==
    /\ workspace = "none"
    /\ founder = NoUser
    /\ member = [u \in Users |-> Absent]
    /\ project = "none"
    /\ client = NoUser
    /\ assignee = NoUser
    /\ request = [r \in Requests |-> Idle]

-----------------------------------------------------------------------------
(* Row locks *)

\* Mutant: a SELECT without FOR UPDATE OF m.
HoldsNoMember(r, u) == FALSE

\* The rows that a request keeps locked from one step to the next: the actor of
\* a grant of the owner role, the assignee after EnsureActiveMember, and the new
\* client after IsActiveClientMember.  The last is a FOR SHARE, but AssignClient
\* is the only one to take it and holds the project, so no two of them meet.
HoldsMember(r, u) ==
    \/ /\ request[r].role = "owner"
       /\ request[r].at \in {"target", "write"}
       /\ request[r].actor = u
    \/ /\ request[r].at \in {"commit", "prune"}
       /\ request[r].target = u

\* r can lock or write the row of u.
MemberFree(r, u) == \A q \in Requests \ {r} : ~HoldsMember(q, u)

\* LockForMutation and AssignClient keep the project row to their commit.
ProjectFree == \A q \in Requests : request[q].op \notin {"assign", "assignClient"}

Begin(r, req) ==
    /\ request[r].at = "idle"
    /\ request' = [request EXCEPT ![r] = req]
    /\ UNCHANGED rows

Moves(r, statement) == request' = [request EXCEPT ![r].at = statement]

Ends(r) == request' = [request EXCEPT ![r] = Idle]

\* The request is rejected, its statement finds no row, it times out or its
\* connection goes: the rollback leaves no trace.
Abort(r) ==
    /\ request[r].at # "idle"
    /\ Ends(r)
    /\ UNCHANGED rows

-----------------------------------------------------------------------------
(* The organization and its project *)

\* The owner membership comes with the organization.  Registration makes a
\* personal workspace, organization.Create a shared one.
CreateOrganization(u, kind) ==
    /\ workspace = "none"
    /\ workspace' = kind
    /\ founder' = u
    /\ member' = [member EXCEPT ![u] = ActiveOwner]
    /\ UNCHANGED <<project, client, assignee, request>>

CreateProject ==
    /\ workspace # "none"
    /\ project = "none"
    /\ project' = "open"
    /\ UNCHANGED <<workspace, founder, member, client, assignee, request>>

Archive ==
    /\ project = "open"
    /\ ProjectFree
    /\ project' = "frozen"
    /\ UNCHANGED <<workspace, founder, member, client, assignee, request>>

Restore ==
    /\ project = "frozen"
    /\ project' = "open"
    /\ UNCHANGED <<workspace, founder, member, client, assignee, request>>

-----------------------------------------------------------------------------
(* Staff *)

\* requireNotPersonalWorkspace, on every staff operation.
StaffAllowed == workspace = "shared"

\* An insert meets the unique index on user and organization.
Insert(u, row) ==
    /\ member[u] = Absent
    /\ member' = [member EXCEPT ![u] = row]
    /\ UNCHANGED <<workspace, founder, project, client, assignee>>

\* AddOrgMember and InviteOrgMember with a role other than owner.
AddOrgMember(u) ==
    /\ StaffAllowed
    /\ Insert(u, ActiveStaff)
    /\ UNCHANGED request

InviteOrgMember(u) ==
    /\ StaffAllowed
    /\ Insert(u, Invited("staff"))
    /\ UNCHANGED request

\* requireOwnerToGrantOwner locks the actor's row and keeps it to the commit;
\* the wait for the row is before anything else is held.
GrantOwner(r, op, a, t) ==
    /\ op \in {"invite", "add", "rerole"}
    /\ StaffAllowed
    /\ MemberFree(r, a)
    /\ member[a] = ActiveOwner
    /\ op = "invite" => t # a
    /\ Begin(r, [at |-> IF op = "rerole" THEN "target" ELSE "write", op |-> op,
                 actor |-> a, target |-> t, role |-> "owner"])

\* Mutant: only clients are protected.
ProtectedClients == {"client"}

Protected == {"owner", "client"}

\* The unlocked look at the target's role.
SeesStaff(t) == member[t] # Absent /\ member[t].role \notin Protected

\* UpdateOrgMemberRole to owner, after the actor's row.
ReadTarget(r) ==
    /\ request[r].at = "target"
    /\ SeesStaff(request[r].target)
    /\ Moves(r, "write")
    /\ UNCHANGED rows

\* UpdateOrgMemberRole to another staff role.
BeginUpdateRole(r, t) ==
    /\ StaffAllowed
    /\ SeesStaff(t)
    /\ Begin(r, [Idle EXCEPT !.at = "write", !.op = "rerole", !.target = t,
                             !.role = "staff"])

BeginRemove(r, t) ==
    /\ StaffAllowed
    /\ SeesStaff(t)
    /\ Begin(r, [Idle EXCEPT !.at = "write", !.op = "remove", !.target = t])

\* The write of the row of r's target, with the request's commit.
WritesTarget(r, op) ==
    /\ request[r].at = "write"
    /\ request[r].op = op
    /\ MemberFree(r, request[r].target)
    /\ Ends(r)

InsertOwner(r) ==
    \/ /\ WritesTarget(r, "add")
       /\ Insert(request[r].target, ActiveOwner)
    \/ /\ WritesTarget(r, "invite")
       /\ Insert(request[r].target, Invited("owner"))

\* The UPDATE names the user, not the role it replaces.
UpdateRole(r) ==
    LET t == request[r].target IN
    /\ WritesTarget(r, "rerole")
    /\ member[t] # Absent
    /\ member' = [member EXCEPT ![t].role = request[r].role]
    /\ UNCHANGED <<workspace, founder, project, client, assignee>>

\* The DELETE names the user, not the role.
DeleteMember(r) ==
    LET t == request[r].target IN
    /\ WritesTarget(r, "remove")
    /\ member[t] # Absent
    /\ member' = [member EXCEPT ![t] = Absent]
    /\ UNCHANGED <<workspace, founder, project, client, assignee>>

-----------------------------------------------------------------------------
(* Clients *)

\* Mutant: a client is invited, as staff may be.
ProvisionInvited(u) ==
    /\ workspace # "none"
    /\ Insert(u, Invited("client"))
    /\ UNCHANGED request

\* client.Provision: personal workspaces take clients.
Provision(u) ==
    /\ workspace # "none"
    /\ Insert(u, ActiveClient)
    /\ UNCHANGED request

\* client.Remove: GetClientUser, which locks nothing ...
BeginRemoveClient(r, t) ==
    /\ member[t] = ActiveClient
    /\ Begin(r, [Idle EXCEPT !.at = "write", !.op = "removeClient", !.target = t])

\* ... then the lock, which asks for no role, the project check and the DELETE.
DeleteClient(r) ==
    LET t == request[r].target IN
    /\ WritesTarget(r, "removeClient")
    /\ member[t] # Absent
    /\ client # t
    /\ member' = [member EXCEPT ![t] = Absent]
    /\ UNCHANGED <<workspace, founder, project, client, assignee>>

\* project.AssignClient(u), NoUser to unassign, takes the project row, for which
\* it waits with nothing held ...
BeginAssignClient(r, u) ==
    /\ project = "open"
    /\ ProjectFree
    /\ u # client
    /\ Begin(r, [Idle EXCEPT !.at = IF u = NoUser THEN "prune" ELSE "client",
                             !.op = "assignClient", !.target = u])

\* ... then the row of the new client, to its commit ...
IsActiveClientMember(r) ==
    /\ request[r].at = "client"
    /\ MemberFree(r, request[r].target)
    /\ member[request[r].target] = ActiveClient
    /\ Moves(r, "prune")
    /\ UNCHANGED rows

\* ... and then, when a client is displaced, that one's row, if there still is
\* one.  The membership goes, whatever has become of it.
AssignClient(r) ==
    /\ request[r].at = "prune"
    /\ client \in Users => MemberFree(r, client)
    /\ client' = request[r].target
    /\ member' =
        [x \in Users |-> IF x = client THEN Absent ELSE member[x]]
    /\ Ends(r)
    /\ UNCHANGED <<workspace, founder, project, assignee>>

-----------------------------------------------------------------------------
(* Assignments *)

\* LockForMutation keeps the project row; it waits with nothing held.
BeginAssignment(r, u) ==
    /\ project = "open"
    /\ ProjectFree
    /\ Begin(r, [Idle EXCEPT !.at = "member", !.op = "assign", !.target = u])

EnsureActiveMember(r) ==
    LET u == request[r].target IN
    /\ request[r].at = "member"
    /\ MemberFree(r, u)
    /\ member[u].status = "active"
    /\ member[u].role # "client"
    /\ Moves(r, "commit")
    /\ UNCHANGED rows

\* Repo.Create or Repo.UpdateAssignedTo, with the commit.
SetAssignee(r) ==
    /\ request[r].at = "commit"
    /\ assignee' = request[r].target
    /\ Ends(r)
    /\ UNCHANGED <<workspace, founder, member, project, client>>

\* assignment.Create: the unique index on project_id takes one row.
CreateAssignment(r) == assignee = NoUser /\ SetAssignee(r)

\* assignment.Update
UpdateAssignment(r) == assignee # NoUser /\ SetAssignee(r)

\* assignment.Delete
DeleteAssignment ==
    /\ project = "open"
    /\ ProjectFree
    /\ assignee # NoUser
    /\ assignee' = NoUser
    /\ UNCHANGED <<workspace, founder, member, project, client, request>>

-----------------------------------------------------------------------------
ProjectStep ==
    \/ CreateProject
    \/ Archive
    \/ Restore
    \/ DeleteAssignment

MemberStep(u) ==
    \/ \E kind \in {"personal", "shared"} : CreateOrganization(u, kind)
    \/ AddOrgMember(u)
    \/ InviteOrgMember(u)
    \/ Provision(u)

RequestBegins(r) ==
    \/ \E op \in Operations, a, u \in Users : GrantOwner(r, op, a, u)
    \/ \E u \in Users :
        \/ BeginUpdateRole(r, u)
        \/ BeginRemove(r, u)
        \/ BeginRemoveClient(r, u)
        \/ BeginAssignment(r, u)
    \/ \E u \in Users \cup {NoUser} : BeginAssignClient(r, u)

RequestMoves(r) ==
    \/ ReadTarget(r)
    \/ InsertOwner(r)
    \/ UpdateRole(r)
    \/ DeleteMember(r)
    \/ DeleteClient(r)
    \/ EnsureActiveMember(r)
    \/ CreateAssignment(r)
    \/ UpdateAssignment(r)
    \/ IsActiveClientMember(r)
    \/ AssignClient(r)
    \/ Abort(r)

Next ==
    \/ ProjectStep
    \/ \E u \in Users : MemberStep(u)
    \/ \E r \in Requests : RequestBegins(r) \/ RequestMoves(r)

Spec == Init /\ [][Next]_vars

-----------------------------------------------------------------------------
(* Properties *)

\* Who created the organization stays its active owner for good: no removal,
\* role change, client removal or prune reaches the row, although all of them
\* look at the role before they write and only the grants hold a lock.
FounderStaysOwner == workspace # "none" => member[founder] = ActiveOwner

\* After the creation of the organization, whoever becomes an owner, active or
\* invited, is granted it by a request whose actor is an active owner at the
\* commit, not only when requireOwnerToGrantOwner looked.
OnlyOwnersGrantOwner ==
    [][\A u \in Users :
        /\ workspace # "none"
        /\ member[u].role # "owner"
        /\ member'[u].role = "owner"
        => \E r \in Requests, a \in Users :
            /\ request[r].role = "owner"
            /\ request[r].target = u
            /\ request[r].actor = a
            /\ member[a] = ActiveOwner
            /\ member'[a] = ActiveOwner
            /\ request'[r].at = "idle"]_vars

\* An assignment is made, changed or removed only while the project is open,
\* and only to somebody who is active staff at the commit: the row lock of
\* EnsureActiveMember keeps a concurrent membership change from passing between
\* its check and the insert.
AssigneeIsStaff ==
    [][assignee' # assignee =>
        /\ project = "open"
        /\ assignee' \in Users =>
            /\ member[assignee'].status = "active"
            /\ member[assignee'].role # "client"]_vars

\* The statement of r waits for the row of u when another request holds it.
Awaits(r, u) ==
    \/ /\ \/ request[r].at \in {"member", "client"}
          \/ request[r].at = "write" /\ request[r].op \notin {"invite", "add"}
       /\ request[r].target = u
    \/ /\ request[r].at = "prune"
       /\ client = u

WaitsFor(r) ==
    {q \in Requests \ {r} : \E u \in Users : Awaits(r, u) /\ HoldsMember(q, u)}

\* A set of requests none of which can go on before another of them ends.
DeadlockedSet(S) ==
    /\ S # {}
    /\ \A r \in S : WaitsFor(r) \cap S # {}

\* These transactions deadlock in one way only, which takes two roles that
\* changed under an unlocked look: a reassignment displaces a client who has
\* become an owner and is granting the role, and the grants that wait for each
\* other from there lead to one whose target, staff when it looked, has become
\* the new client that the reassignment holds.  Without a reassignment no set of
\* grants, removals and assignments waits for each other.
DeadlocksAreReassignments ==
    \A S \in SUBSET Requests :
        DeadlockedSet(S) =>
            \E T \in SUBSET S : \E r \in T :
                /\ DeadlockedSet(T)
                /\ request[r].at = "prune"
                /\ member[client] = ActiveOwner
                /\ member[request[r].target] = ActiveClient
                /\ \A q \in T \ {r} :
                    request[q].role = "owner" /\ request[q].at = "write"
                /\ \E q \in T \ {r} : request[q].target = request[r].target

(* What the comments of RemoveOrgMember and UpdateOrgMemberRole say *)

\* "Never allow the organization owner to be removed", and "an existing client
\* membership can never be re-role'd away": the row that a removal or a role
\* change writes is neither an owner's nor a client's.
ProtectedRowsStay ==
    [][\A r \in Requests :
        DeleteMember(r) \/ UpdateRole(r) => SeesStaff(request[r].target)]_vars
=============================================================================
