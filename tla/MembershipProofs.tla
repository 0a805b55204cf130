-------------------------- MODULE MembershipProofs --------------------------
(* Theorems about Membership, for every set of users and of requests. *)
EXTENDS Membership, TLAPS

-----------------------------------------------------------------------------
(* The inductive invariant *)

\* Before the organization exists there is nothing and nobody in flight.
\* Afterwards its founder is an active owner, whom no project has for a client.
FounderInv ==
    IF workspace = "none"
    THEN /\ member = [u \in Users |-> Absent]
         /\ project = "none"
         /\ client = NoUser
         /\ \A r \in Requests : request[r].at = "idle"
    ELSE /\ founder \in Users
         /\ member[founder] = ActiveOwner
         /\ client # founder

\* What a request in flight has seen, and holds on to.
RequestOK(r) ==
    LET q == request[r] IN
    /\ q.at = "idle" => q.op = "none" /\ q.role = "none"
    /\ q.at \notin {"idle", "prune"} => q.target \in Users
    /\ q.role = "owner" =>
        /\ q.at \in {"target", "write"}
        /\ q.actor \in Users
        /\ member[q.actor] = ActiveOwner
    /\ q.at = "target" => q.op = "rerole" /\ q.role = "owner"
    /\ q.at = "write" =>
        \/ q.op \in {"invite", "add"} /\ q.role = "owner"
        \/ q.op = "rerole" /\ q.role \in {"owner", "staff"} /\ q.target # founder
        \/ /\ q.op \in {"remove", "removeClient"}
           /\ q.role = "none"
           /\ q.target # founder
    /\ q.at \in {"member", "commit"} <=> q.op = "assign"
    /\ q.at \in {"client", "prune"} <=> q.op = "assignClient"
    /\ q.op \in {"assign", "assignClient"} => project = "open"
    /\ q.op = "assignClient" => q.target # client
    /\ q.at = "commit" =>
        /\ member[q.target].status = "active"
        /\ member[q.target].role # "client"
    /\ q.at = "prune" /\ q.target \in Users => member[q.target] = ActiveClient

RequestInv == \A r \in Requests : RequestOK(r)

\* One request at a time has the project row.
HasProject(r) == request[r].op \in {"assign", "assignClient"}

ProjectInv == \A p, q \in Requests : HasProject(p) /\ HasProject(q) => p = q

IInv == TypeOK /\ FounderInv /\ RequestInv /\ ProjectInv

-----------------------------------------------------------------------------
(* Type correctness *)

LEMMA IdleType == Idle \in Request
  BY DEF Idle, Request, Statements, Operations

LEMMA InitIInv == Init => IInv
  BY IdleType
  DEF Init, IInv, TypeOK, FounderInv, RequestInv, RequestOK, ProjectInv,
      HasProject, MembershipRow, Absent, Idle

\* Each way to move a request on keeps its type.
LEMMA RequestTypes ==
    ASSUME TypeOK, NEW r \in Requests
    PROVE  /\ \A q \in Request : Begin(r, q) => request' \in [Requests -> Request]
           /\ \A s \in Statements : Moves(r, s) => request' \in [Requests -> Request]
           /\ Ends(r) => request' \in [Requests -> Request]
<1>1. \A s \in Statements : [request[r] EXCEPT !.at = s] \in Request
  BY DEF TypeOK, Request
<1>2. \A s : Moves(r, s) =>
          request' = [request EXCEPT ![r] = [request[r] EXCEPT !.at = s]]
  BY DEF Moves
<1> QED
  BY <1>1, <1>2, IdleType DEF TypeOK, Begin, Ends

\* The requests that the operations begin with are well typed.
LEMMA BegunTypes ==
    ASSUME NEW t \in Users \cup {NoUser}, NEW a \in Users, NEW op \in Operations
    PROVE  /\ \A s \in Statements :
                [at |-> s, op |-> op, actor |-> a, target |-> t, role |-> "owner"]
                    \in Request
           /\ \A s \in Statements, x \in {"none", "staff"} :
                [Idle EXCEPT !.at = s, !.op = op, !.target = t, !.role = x]
                    \in Request
           /\ \A s \in Statements :
                [Idle EXCEPT !.at = s, !.op = op, !.target = t] \in Request
  BY DEF Idle, Request

\* A change of role leads from rows to rows.
LEMMA RoleTypes ==
    ASSUME NEW row \in MembershipRow, row # Absent, NEW x \in {"owner", "staff"}
    PROVE  [row EXCEPT !.role = x] \in MembershipRow
  BY DEF MembershipRow, Absent, ActiveOwner, ActiveStaff, ActiveClient, Invited

LEMMA RowTypes ==
    MembershipRow = {Absent, ActiveOwner, ActiveStaff, ActiveClient,
                     Invited("owner"), Invited("staff")}
  BY DEF MembershipRow

LEMMA TypeStep ==
    ASSUME IInv, [Next]_vars
    PROVE  TypeOK'
<1> USE DEF IInv
<1>1. CASE UNCHANGED vars
  BY <1>1 DEF vars, TypeOK
<1>2. CASE ProjectStep
  BY <1>2, RowTypes
  DEF ProjectStep, CreateProject, Archive, Restore, DeleteAssignment, TypeOK
<1>3. ASSUME NEW u \in Users, MemberStep(u)
      PROVE  TypeOK'
  BY <1>3, RowTypes
  DEF MemberStep, CreateOrganization, AddOrgMember, InviteOrgMember, Provision,
      Insert, TypeOK
<1>4. ASSUME NEW r \in Requests, RequestBegins(r)
      PROVE  TypeOK'
  <2>1. \E q \in Request : Begin(r, q)
    <3>1. Statements = {"idle", "target", "write", "member", "commit", "client",
                        "prune"}
      BY DEF Statements
    <3>2. {"rerole", "remove", "removeClient", "assign", "assignClient"}
            \subseteq Operations
      BY DEF Operations
    <3>3. ASSUME NEW op \in Operations, NEW a \in Users, NEW u \in Users,
                 GrantOwner(r, op, a, u)
          PROVE  \E q \in Request : Begin(r, q)
      BY <3>1, <3>3, BegunTypes DEF GrantOwner
    <3>4. ASSUME NEW u \in Users, BeginUpdateRole(r, u)
          PROVE  \E q \in Request : Begin(r, q)
      BY <3>1, <3>2, <3>4, BegunTypes DEF BeginUpdateRole
    <3>5. ASSUME NEW u \in Users,
                 BeginRemove(r, u) \/ BeginRemoveClient(r, u) \/ BeginAssignment(r, u)
          PROVE  \E q \in Request : Begin(r, q)
      BY <3>1, <3>2, <3>5, BegunTypes
      DEF BeginRemove, BeginRemoveClient, BeginAssignment
    <3>6. ASSUME NEW u \in Users \cup {NoUser}, BeginAssignClient(r, u)
          PROVE  \E q \in Request : Begin(r, q)
      BY <3>1, <3>2, <3>6 DEF BeginAssignClient, Idle, Request
    <3> QED
      BY <1>4, <3>3, <3>4, <3>5, <3>6 DEF RequestBegins
  <2> QED
    BY <2>1, RequestTypes DEF Begin, rows, TypeOK
<1>5. ASSUME NEW r \in Requests, RequestMoves(r)
      PROVE  TypeOK'
  <2>1. CASE ReadTarget(r) \/ EnsureActiveMember(r) \/ IsActiveClientMember(r)
    BY <2>1, RequestTypes
    DEF ReadTarget, EnsureActiveMember, IsActiveClientMember, Statements, rows,
        TypeOK
  <2>2. CASE InsertOwner(r)
    BY <2>2, RequestTypes, RowTypes DEF InsertOwner, WritesTarget, Insert, TypeOK
  <2>3. CASE UpdateRole(r)
    <3> DEFINE t == request[r].target
    <3>1. t \in Users /\ request[r].role \in {"owner", "staff"}
      BY <2>3 DEF UpdateRole, WritesTarget, RequestInv, RequestOK
    <3>2. [member[t] EXCEPT !.role = request[r].role] \in MembershipRow
      BY <2>3, <3>1, RoleTypes DEF UpdateRole, TypeOK
    <3>3. member' = [member EXCEPT ![t] = [member[t] EXCEPT !.role = request[r].role]]
      BY <2>3 DEF UpdateRole
    <3> QED
      BY <2>3, <3>2, <3>3, RequestTypes DEF UpdateRole, WritesTarget, TypeOK
  <2>4. CASE DeleteMember(r) \/ DeleteClient(r)
    BY <2>4, RequestTypes, RowTypes
    DEF DeleteMember, DeleteClient, WritesTarget, TypeOK
  <2>5. CASE CreateAssignment(r) \/ UpdateAssignment(r)
    BY <2>5, RequestTypes
    DEF CreateAssignment, UpdateAssignment, SetAssignee, TypeOK, Request
  <2>6. CASE AssignClient(r)
    BY <2>6, RequestTypes, RowTypes DEF AssignClient, TypeOK, Request
  <2>7. CASE Abort(r)
    BY <2>7, RequestTypes DEF Abort, rows, TypeOK
  <2> QED
    BY <1>5, <2>1, <2>2, <2>3, <2>4, <2>5, <2>6, <2>7 DEF RequestMoves
<1> QED
  BY <1>1, <1>2, <1>3, <1>4, <1>5 DEF Next

-----------------------------------------------------------------------------
(* What a step does to the rows *)

\* r ends with the write of the row of u, which nobody else has locked.
WritesRowOf(r, u) ==
    /\ request[r].at = "write"
    /\ request[r].target = u
    /\ u \in Users
    /\ MemberFree(r, u)
    /\ member' = [member EXCEPT ![u] = member'[u]]
    /\ request[r].op \in {"invite", "add"} => member[u] = Absent
    /\ Ends(r)

\* r ends with the deletion of the row of u, the client it displaces, which
\* nobody else has locked.
PrunesRowOf(r, u) ==
    /\ request[r].at = "prune"
    /\ client = u
    /\ u \in Users
    /\ MemberFree(r, u)
    /\ member' = [member EXCEPT ![u] = member'[u]]
    /\ Ends(r)

\* Once the organization exists, a row changes through the write of a request or
\* the prune of an assignment, or it is a new one.
LEMMA RowStep ==
    ASSUME IInv, [Next]_vars, workspace # "none"
    PROVE  \/ member' = member
           \/ \E r \in Requests :
                WritesRowOf(r, request[r].target) \/ PrunesRowOf(r, client)
           \/ \E u \in Users :
                member[u] = Absent /\ member' = [member EXCEPT ![u] = member'[u]]
<1> USE DEF IInv
<1>1. CASE UNCHANGED vars
  BY <1>1 DEF vars
<1>2. CASE ProjectStep
  BY <1>2 DEF ProjectStep, CreateProject, Archive, Restore, DeleteAssignment
<1>3. ASSUME NEW u \in Users, MemberStep(u)
      PROVE  /\ member[u] = Absent
             /\ member' = [member EXCEPT ![u] = member'[u]]
  BY <1>3
  DEF MemberStep, CreateOrganization, AddOrgMember, InviteOrgMember, Provision,
      Insert, TypeOK
<1>4. ASSUME NEW r \in Requests, RequestBegins(r)
      PROVE  member' = member
  BY <1>4
  DEF RequestBegins, GrantOwner, BeginUpdateRole, BeginRemove,
      BeginRemoveClient, BeginAssignment, BeginAssignClient, Begin, rows
<1>5. ASSUME NEW r \in Requests, RequestMoves(r)
      PROVE  \/ member' = member
             \/ WritesRowOf(r, request[r].target)
             \/ PrunesRowOf(r, client)
  <2>1. request[r].at = "write" => request[r].target \in Users
    BY DEF RequestInv, RequestOK
  <2>2. CASE InsertOwner(r) \/ UpdateRole(r) \/ DeleteMember(r) \/ DeleteClient(r)
    BY <2>1, <2>2
    DEF InsertOwner, UpdateRole, DeleteMember, DeleteClient, WritesTarget,
        Insert, WritesRowOf, TypeOK
  <2>3. CASE \/ ReadTarget(r) \/ EnsureActiveMember(r) \/ Abort(r)
             \/ CreateAssignment(r) \/ UpdateAssignment(r)
             \/ IsActiveClientMember(r)
    BY <2>3
    DEF ReadTarget, EnsureActiveMember, Abort, CreateAssignment,
        UpdateAssignment, SetAssignee, IsActiveClientMember, rows
  <2>4. CASE AssignClient(r)
    <3>1. CASE client \in Users
      BY <2>4, <3>1 DEF AssignClient, PrunesRowOf, TypeOK
    <3>2. CASE client = NoUser
      BY <2>4, <3>2, SentinelAssumption DEF AssignClient, TypeOK
    <3> QED
      BY <3>1, <3>2 DEF TypeOK
  <2> QED
    BY <1>5, <2>2, <2>3, <2>4 DEF RequestMoves
<1> QED
  BY <1>1, <1>2, <1>3, <1>4, <1>5 DEF Next

\* A row that a request keeps locked is as it was.
LEMMA HeldRowKept ==
    ASSUME IInv, [Next]_vars, workspace # "none",
           NEW r \in Requests, request'[r].at # "idle",
           NEW u \in Users, HoldsMember(r, u)
    PROVE  member'[u] = member[u]
<1>1. member[u] # Absent
  BY DEF IInv, RequestInv, RequestOK, HoldsMember, Absent, ActiveOwner,
         ActiveClient
<1>2. ASSUME NEW q \in Requests, WritesRowOf(q, request[q].target)
      PROVE  member'[u] = member[u]
  <2>1. q # r
    BY <1>2 DEF WritesRowOf, Ends, IInv, TypeOK, Idle
  <2>2. request[q].target # u
    BY <1>2, <2>1 DEF WritesRowOf, MemberFree
  <2> QED
    BY <1>2, <2>2 DEF WritesRowOf, IInv, TypeOK
<1>3. ASSUME NEW q \in Requests, PrunesRowOf(q, client)
      PROVE  member'[u] = member[u]
  <2>1. q # r
    BY <1>3 DEF PrunesRowOf, Ends, IInv, TypeOK, Idle
  <2>2. client # u
    BY <1>3, <2>1 DEF PrunesRowOf, MemberFree
  <2> QED
    BY <1>3, <2>2 DEF PrunesRowOf, IInv, TypeOK
<1>4. ASSUME NEW x \in Users, member[x] = Absent,
             member' = [member EXCEPT ![x] = member'[x]]
      PROVE  member'[u] = member[u]
  BY <1>1, <1>4 DEF IInv, TypeOK
<1> QED
  BY <1>2, <1>3, <1>4, RowStep

\* The row of the founder is as it was.
LEMMA FounderRowKept ==
    ASSUME IInv, [Next]_vars, workspace # "none"
    PROVE  member'[founder] = ActiveOwner
<1>1. /\ founder \in Users
      /\ member[founder] = ActiveOwner
      /\ member[founder] # Absent
      /\ client # founder
  BY DEF IInv, FounderInv, ActiveOwner, Absent
<1>2. ASSUME NEW q \in Requests, WritesRowOf(q, request[q].target)
      PROVE  member'[founder] = member[founder]
  <2>1. request[q].target # founder
    BY <1>1, <1>2 DEF WritesRowOf, IInv, RequestInv, RequestOK
  <2> QED
    BY <1>1, <1>2, <2>1 DEF WritesRowOf, IInv, TypeOK
<1>3. ASSUME NEW q \in Requests, PrunesRowOf(q, client)
      PROVE  member'[founder] = member[founder]
  BY <1>1, <1>3 DEF PrunesRowOf, IInv, TypeOK
<1>4. ASSUME NEW x \in Users, member[x] = Absent,
             member' = [member EXCEPT ![x] = member'[x]]
      PROVE  member'[founder] = member[founder]
  BY <1>1, <1>4 DEF IInv, TypeOK
<1> QED
  BY <1>1, <1>2, <1>3, <1>4, RowStep

-----------------------------------------------------------------------------
(* The invariant is inductive *)

\* Without an organization no request begins or goes on.
LEMMA NobodyBefore ==
    ASSUME IInv, workspace = "none", NEW r \in Requests
    PROVE  ~RequestBegins(r) /\ ~RequestMoves(r)
<1>1. /\ \A u \in Users : member[u] = Absent
      /\ request[r].at = "idle"
      /\ project # "open"
      /\ Absent # ActiveClient
  BY DEF IInv, FounderInv, Absent, ActiveClient
<1>2. ~RequestBegins(r)
  BY <1>1
  DEF RequestBegins, GrantOwner, BeginUpdateRole, BeginRemove, StaffAllowed,
      BeginRemoveClient, BeginAssignment, BeginAssignClient
<1>3. ~RequestMoves(r)
  BY <1>1
  DEF RequestMoves, ReadTarget, InsertOwner, UpdateRole, DeleteMember,
      DeleteClient, WritesTarget, EnsureActiveMember, CreateAssignment,
      UpdateAssignment, SetAssignee, IsActiveClientMember, AssignClient, Abort
<1> QED
  BY <1>2, <1>3

\* The organization keeps its kind and its founder, and the client changes by
\* AssignClient.
LEMMA FounderKept ==
    ASSUME [Next]_vars, workspace # "none"
    PROVE  /\ workspace' = workspace
           /\ founder' = founder
           /\ client' = client \/ \E r \in Requests : AssignClient(r)
  BY DEF Next, vars, ProjectStep, CreateProject, Archive, Restore,
      DeleteAssignment, MemberStep, CreateOrganization,
      AddOrgMember, InviteOrgMember, Provision, Insert, RequestBegins,
      GrantOwner, BeginUpdateRole, BeginRemove, BeginRemoveClient,
      BeginAssignment, BeginAssignClient, Begin, rows, RequestMoves,
      IsActiveClientMember, AssignClient, ReadTarget, InsertOwner,
      UpdateRole, DeleteMember, DeleteClient, WritesTarget,
      EnsureActiveMember, CreateAssignment, UpdateAssignment, SetAssignee,
      Abort

LEMMA FounderStep ==
    ASSUME IInv, [Next]_vars
    PROVE  FounderInv'
<1> USE DEF IInv
<1>1. CASE workspace = "none"
  <2>1. \A r \in Requests : request[r].at = "idle"
    BY <1>1 DEF FounderInv
  <2>2. CASE \E u \in Users, kind \in {"personal", "shared"} :
                CreateOrganization(u, kind)
    BY <1>1, <2>2, SentinelAssumption DEF CreateOrganization, FounderInv, TypeOK
  <2>3. ASSUME ~\E u \in Users, kind \in {"personal", "shared"} :
                    CreateOrganization(u, kind)
        PROVE  UNCHANGED vars
    <3>1. ~ProjectStep
      BY <1>1
      DEF ProjectStep, CreateProject, Archive, Restore, DeleteAssignment,
          FounderInv
    <3>2. \A u \in Users : ~MemberStep(u)
      BY <1>1, <2>3 DEF MemberStep, AddOrgMember, InviteOrgMember, Provision, StaffAllowed
    <3>3. \A r \in Requests : ~RequestBegins(r) /\ ~RequestMoves(r)
      BY <1>1, NobodyBefore
    <3> QED
      BY <3>1, <3>2, <3>3 DEF Next
  <2> QED
    BY <2>2, <2>3 DEF FounderInv, vars
<1>2. CASE workspace # "none"
  <2>1. /\ workspace' = workspace
        /\ founder' = founder
        /\ client' = client \/ \E r \in Requests : AssignClient(r)
    BY <1>2, FounderKept
  <2>2. member'[founder] = ActiveOwner
    BY <1>2, FounderRowKept
  <2>3. ASSUME NEW r \in Requests, AssignClient(r)
        PROVE  client' # founder
    <3>1. /\ client' = request[r].target
          /\ client' \in Users => member[client'] = ActiveClient
      BY <2>3 DEF AssignClient, RequestInv, RequestOK
    <3> QED
      BY <1>2, <3>1 DEF FounderInv, ActiveOwner, ActiveClient
  <2>4. client' # founder
    BY <1>2, <2>1, <2>3 DEF FounderInv
  <2> QED
    BY <1>2, <2>1, <2>2, <2>4 DEF FounderInv
<1> QED
  BY <1>1, <1>2

\* A request that does not move is as sure of its ground as before.
LEMMA UntouchedRequest ==
    ASSUME IInv, [Next]_vars, workspace # "none",
           NEW r \in Requests, request'[r] = request[r], request[r].at # "idle"
    PROVE  /\ request[r].role = "owner" =>
                member'[request[r].actor] = member[request[r].actor]
           /\ request[r].at \in {"commit", "prune"} /\ request[r].target \in Users =>
                member'[request[r].target] = member[request[r].target]
           /\ HasProject(r) => project' = "open" /\ client' = client
<1> USE DEF IInv
<1>1. /\ request[r].role = "owner" =>
            request[r].actor \in Users /\ HoldsMember(r, request[r].actor)
      /\ request[r].at = "commit" =>
            request[r].target \in Users /\ HoldsMember(r, request[r].target)
      /\ request[r].at = "prune" => HoldsMember(r, request[r].target)
  BY DEF RequestInv, RequestOK, HoldsMember
<1>2. HasProject(r) => project = "open" /\ ~ProjectFree
  BY DEF RequestInv, RequestOK, ProjectFree, HasProject
<1>3. HasProject(r) => project' = "open"
  BY <1>2
  DEF Next, vars, ProjectStep, CreateProject, Archive, Restore,
      DeleteAssignment, MemberStep, CreateOrganization, AddOrgMember,
      InviteOrgMember, Provision, Insert, RequestBegins, GrantOwner,
      BeginUpdateRole, BeginRemove, BeginRemoveClient, BeginAssignment,
      BeginAssignClient, Begin, rows, RequestMoves, IsActiveClientMember,
      AssignClient, ReadTarget, InsertOwner, UpdateRole, DeleteMember,
      DeleteClient, WritesTarget, EnsureActiveMember, CreateAssignment,
      UpdateAssignment, SetAssignee, Abort
<1>4. ASSUME NEW q \in Requests, AssignClient(q)
      PROVE  ~HasProject(r)
  <2>1. HasProject(q)
    BY <1>4 DEF AssignClient, HasProject, RequestInv, RequestOK
  <2>2. q # r
    BY <1>4 DEF AssignClient, Ends, TypeOK, Idle
  <2> QED
    BY <2>1, <2>2 DEF ProjectInv
<1>5. HasProject(r) => client' = client
  BY <1>4, FounderKept
<1> QED
  BY <1>1, <1>3, <1>5, HeldRowKept

\* A step begins or moves one request, or it touches none.
LEMMA RequestStep ==
    ASSUME IInv, [Next]_vars
    PROVE  \/ request' = request
           \/ \E r \in Requests :
                /\ RequestBegins(r) \/ RequestMoves(r)
                /\ \A q \in Requests \ {r} : request'[q] = request[q]
<1> USE DEF IInv, TypeOK
<1>1. CASE UNCHANGED vars
  BY <1>1 DEF vars
<1>2. CASE ProjectStep
  BY <1>2
  DEF ProjectStep, CreateProject, Archive, Restore, DeleteAssignment
<1>3. ASSUME NEW u \in Users, MemberStep(u)
      PROVE  request' = request
  BY <1>3
  DEF MemberStep, CreateOrganization, AddOrgMember, InviteOrgMember, Provision
<1>4. ASSUME NEW r \in Requests, RequestBegins(r)
      PROVE  \A q \in Requests \ {r} : request'[q] = request[q]
  BY <1>4
  DEF RequestBegins, GrantOwner, BeginUpdateRole, BeginRemove,
      BeginRemoveClient, BeginAssignment, BeginAssignClient, Begin
<1>5. ASSUME NEW r \in Requests, RequestMoves(r)
      PROVE  \A q \in Requests \ {r} : request'[q] = request[q]
  BY <1>5
  DEF RequestMoves, ReadTarget, InsertOwner, UpdateRole, DeleteMember,
      DeleteClient, WritesTarget, EnsureActiveMember, CreateAssignment,
      UpdateAssignment, SetAssignee, IsActiveClientMember, AssignClient, Abort,
      Moves, Ends
<1> QED
  BY <1>1, <1>2, <1>3, <1>4, <1>5 DEF Next

\* A request that begins has seen what its next statement relies on.
LEMMA BegunRequest ==
    ASSUME IInv, workspace # "none", NEW r \in Requests, RequestBegins(r)
    PROVE  RequestOK(r)'
<1> USE DEF IInv, TypeOK
<1>2. /\ member' = member /\ founder' = founder /\ project' = project
      /\ client' = client
      /\ \A q : Begin(r, q) => request'[r] = q
  BY
  DEF RequestBegins, GrantOwner, BeginUpdateRole, BeginRemove,
      BeginRemoveClient, BeginAssignment, BeginAssignClient, Begin, rows
<1>3. \A u \in Users : member[u] = ActiveClient \/ SeesStaff(u) => u # founder
  BY DEF FounderInv, SeesStaff, Protected, ActiveClient, ActiveOwner
<1>4. ASSUME NEW op \in Operations, NEW a \in Users, NEW u \in Users,
             GrantOwner(r, op, a, u)
      PROVE  RequestOK(r)'
  <2>1. request'[r] =
            [at |-> IF op = "rerole" THEN "target" ELSE "write", op |-> op,
             actor |-> a, target |-> u, role |-> "owner"]
    BY <1>2, <1>4 DEF GrantOwner
  <2> QED
    BY <1>2, <1>4, <2>1 DEF GrantOwner, RequestOK
<1>5. ASSUME NEW u \in Users, BeginUpdateRole(r, u) PROVE RequestOK(r)'
  BY <1>2, <1>3, <1>5 DEF BeginUpdateRole, RequestOK, Idle
<1>6. ASSUME NEW u \in Users, BeginRemove(r, u) PROVE RequestOK(r)'
  BY <1>2, <1>3, <1>6 DEF BeginRemove, RequestOK, Idle
<1>7. ASSUME NEW u \in Users, BeginRemoveClient(r, u) PROVE RequestOK(r)'
  BY <1>2, <1>3, <1>7 DEF BeginRemoveClient, RequestOK, Idle
<1>8. ASSUME NEW u \in Users, BeginAssignment(r, u) PROVE RequestOK(r)'
  BY <1>2, <1>8 DEF BeginAssignment, RequestOK, Idle
<1>9. ASSUME NEW u \in Users \cup {NoUser}, BeginAssignClient(r, u)
      PROVE  RequestOK(r)'
  <2>1. /\ project = "open" /\ u # client
        /\ request'[r] =
            [at |-> IF u = NoUser THEN "prune" ELSE "client",
             op |-> "assignClient", actor |-> NoUser, target |-> u,
             role |-> "none"]
    BY <1>2, <1>9 DEF BeginAssignClient, Idle
  <2>2. CASE u = NoUser
    BY <1>2, <2>1, <2>2, SentinelAssumption DEF RequestOK
  <2>3. CASE u # NoUser
    BY <1>2, <2>1, <2>3 DEF RequestOK
  <2> QED
    BY <2>2, <2>3
<1> QED
  BY <1>4, <1>5, <1>6, <1>7, <1>8, <1>9 DEF RequestBegins

\* So has a request that goes on; one that ends relies on nothing.
LEMMA MovedRequest ==
    ASSUME IInv, workspace # "none", NEW r \in Requests, RequestMoves(r)
    PROVE  RequestOK(r)'
<1> USE DEF IInv, TypeOK
<1>1. CASE Ends(r)
  <2>1. request'[r] = Idle
    BY <1>1 DEF Ends
  <2> QED
    BY <2>1 DEF RequestOK, Idle
<1>2. CASE ReadTarget(r)
  <2>1. /\ request'[r] = [request[r] EXCEPT !.at = "write"]
        /\ member' = member /\ founder' = founder /\ project' = project
        /\ client' = client
    BY <1>2 DEF ReadTarget, Moves, rows
  <2>2. request[r].target # founder
    BY <1>2 DEF ReadTarget, FounderInv, SeesStaff, Protected, ActiveOwner
  <2>3. request[r] \in Request
    OBVIOUS
  <2> QED
    BY <1>2, <2>1, <2>2, <2>3 DEF ReadTarget, RequestInv, RequestOK, Request
<1>3. CASE EnsureActiveMember(r)
  <2>1. /\ request'[r] = [request[r] EXCEPT !.at = "commit"]
        /\ member' = member /\ founder' = founder /\ project' = project
        /\ client' = client
    BY <1>3 DEF EnsureActiveMember, Moves, rows
  <2>2. request[r] \in Request
    OBVIOUS
  <2> QED
    BY <1>3, <2>1, <2>2
    DEF EnsureActiveMember, RequestInv, RequestOK, Request
<1>4. CASE IsActiveClientMember(r)
  <2>1. /\ request'[r] = [request[r] EXCEPT !.at = "prune"]
        /\ member' = member /\ founder' = founder /\ project' = project
        /\ client' = client
    BY <1>4 DEF IsActiveClientMember, Moves, rows
  <2>2. request[r] \in Request
    OBVIOUS
  <2> QED
    BY <1>4, <2>1, <2>2
    DEF IsActiveClientMember, RequestInv, RequestOK, Request
<1> QED
  BY <1>1, <1>2, <1>3, <1>4
  DEF RequestMoves, InsertOwner, UpdateRole, DeleteMember, DeleteClient,
      WritesTarget, CreateAssignment, UpdateAssignment, SetAssignee,
      AssignClient, Abort

LEMMA RequestInvStep ==
    ASSUME IInv, [Next]_vars
    PROVE  RequestInv'
<1>1. CASE workspace = "none"
  <2>1. request' = request /\ \A r \in Requests : request[r].at = "idle"
    BY <1>1, RequestStep, NobodyBefore DEF IInv, FounderInv
  <2> QED
    BY <2>1 DEF IInv, RequestInv, RequestOK
<1>2. CASE workspace # "none"
  <2>1. ASSUME NEW r \in Requests, request'[r] = request[r]
        PROVE  RequestOK(r)'
    <3>1. CASE request[r].at = "idle"
      BY <2>1, <3>1 DEF IInv, RequestInv, RequestOK
    <3>2. CASE request[r].at # "idle"
      <4>1. RequestOK(r)
        BY DEF IInv, RequestInv
      <4>2. founder' = founder
        BY <1>2, FounderKept
      <4> QED
        BY <1>2, <2>1, <3>2, <4>1, <4>2, UntouchedRequest
        DEF RequestOK, HasProject
    <3> QED
      BY <3>1, <3>2
  <2> QED
    BY <1>2, <2>1, RequestStep, BegunRequest, MovedRequest DEF RequestInv
<1> QED
  BY <1>1, <1>2

\* A request takes the project row when nobody has it, and keeps its kind.
LEMMA ProjectInvStep ==
    ASSUME IInv, [Next]_vars
    PROVE  ProjectInv'
<1>1. CASE request' = request
  BY <1>1 DEF IInv, ProjectInv, HasProject
<1>2. ASSUME NEW r \in Requests, RequestBegins(r) \/ RequestMoves(r),
             \A q \in Requests \ {r} : request'[q] = request[q]
      PROVE  ProjectInv'
  <2>1. HasProject(r)' => HasProject(r) \/ ProjectFree
    <3> USE DEF IInv, TypeOK
    <3>1. ASSUME RequestBegins(r)
          PROVE  HasProject(r)' => ProjectFree
      <4>1. \A q : Begin(r, q) => request'[r] = q
        BY DEF Begin
      <4>2. ASSUME NEW op \in Operations, NEW a \in Users, NEW u \in Users,
                   GrantOwner(r, op, a, u)
            PROVE  ~HasProject(r)'
        BY <4>1, <4>2 DEF GrantOwner, HasProject
      <4>3. ASSUME NEW u \in Users,
                   BeginUpdateRole(r, u) \/ BeginRemove(r, u) \/ BeginRemoveClient(r, u)
            PROVE  ~HasProject(r)'
        <5>1. CASE BeginUpdateRole(r, u)
          BY <4>1, <5>1 DEF BeginUpdateRole, Idle, HasProject
        <5>2. CASE BeginRemove(r, u)
          BY <4>1, <5>2 DEF BeginRemove, Idle, HasProject
        <5>3. CASE BeginRemoveClient(r, u)
          BY <4>1, <5>3 DEF BeginRemoveClient, Idle, HasProject
        <5> QED
          BY <4>3, <5>1, <5>2, <5>3
      <4> QED
        BY <3>1, <4>2, <4>3
        DEF RequestBegins, BeginAssignment, BeginAssignClient
    <3>2. CASE Ends(r)
      BY <3>2 DEF Ends, Idle, HasProject
    <3>3. ASSUME NEW statement, Moves(r, statement)
          PROVE  HasProject(r)' => HasProject(r)
      BY <3>3 DEF Moves, HasProject, Request
    <3> QED
      BY <1>2, <3>1, <3>2, <3>3
      DEF RequestMoves, ReadTarget, EnsureActiveMember, IsActiveClientMember,
          InsertOwner, UpdateRole, DeleteMember, DeleteClient, WritesTarget,
          CreateAssignment, UpdateAssignment, SetAssignee, AssignClient, Abort
  <2>2. \A q \in Requests \ {r} : HasProject(q)' => HasProject(q) /\ ~ProjectFree
    BY <1>2 DEF HasProject, ProjectFree
  <2> QED
    BY <2>1, <2>2 DEF IInv, ProjectInv
<1> QED
  BY <1>1, <1>2, RequestStep

LEMMA StepIInv == IInv /\ [Next]_vars => IInv'
  BY TypeStep, FounderStep, RequestInvStep, ProjectInvStep DEF IInv

THEOREM InductiveInvariant == Spec => []IInv
  BY InitIInv, StepIInv, PTL DEF Spec

-----------------------------------------------------------------------------
(* What follows *)

\* Every reachable state is well typed.
THEOREM TypeCorrect == Spec => []TypeOK
<1>1. IInv => TypeOK
  BY DEF IInv
<1> QED
  BY <1>1, InductiveInvariant, PTL

\* Whatever removals, role changes and prunes are under way, and however many
\* of them, who created the organization stays its active owner.
THEOREM FounderStaysOwnerCorrect == Spec => []FounderStaysOwner
<1>1. IInv => FounderStaysOwner
  BY DEF IInv, FounderInv, FounderStaysOwner
<1> QED
  BY <1>1, InductiveInvariant, PTL

\* A row becomes an owner's by the write of a request that holds the row of an
\* active owner.
THEOREM OnlyOwnersGrantOwnerCorrect == Spec => OnlyOwnersGrantOwner
<1> DEFINE Granted(u) ==
        \E r \in Requests, a \in Users :
            /\ request[r].role = "owner"
            /\ request[r].target = u
            /\ request[r].actor = a
            /\ member[a] = ActiveOwner
            /\ member'[a] = ActiveOwner
            /\ request'[r].at = "idle"
<1>1. ASSUME IInv, [Next]_vars, NEW u \in Users, workspace # "none",
             member[u].role # "owner", member'[u].role = "owner"
      PROVE  Granted(u)
  <2>1. PICK r \in Requests : InsertOwner(r) \/ UpdateRole(r)
    <3> USE DEF IInv, TypeOK
    <3>1. CASE UNCHANGED vars
      BY <1>1, <3>1 DEF vars
    <3>2. CASE ProjectStep
      BY <1>1, <3>2
      DEF ProjectStep, CreateProject, Archive, Restore, DeleteAssignment
    <3>3. ASSUME NEW x \in Users, MemberStep(x)
          PROVE  FALSE
      BY <1>1, <3>3
      DEF MemberStep, CreateOrganization, AddOrgMember, InviteOrgMember,
          Provision, Insert, ActiveStaff, ActiveClient, Invited
    <3>4. ASSUME NEW r \in Requests, RequestBegins(r)
          PROVE  FALSE
      BY <1>1, <3>4
      DEF RequestBegins, GrantOwner, BeginUpdateRole, BeginRemove,
          BeginRemoveClient, BeginAssignment, BeginAssignClient, Begin, rows
    <3>5. ASSUME NEW r \in Requests, RequestMoves(r)
          PROVE  InsertOwner(r) \/ UpdateRole(r)
      BY <1>1, <3>5
      DEF RequestMoves, ReadTarget, EnsureActiveMember, Abort, rows, Absent,
          DeleteMember, DeleteClient, CreateAssignment, UpdateAssignment,
          SetAssignee, IsActiveClientMember, AssignClient
    <3> QED
      BY <1>1, <3>1, <3>2, <3>3, <3>4, <3>5 DEF Next
  <2> DEFINE t == request[r].target
             a == request[r].actor
  <2>2. t \in Users /\ request'[r] = Idle
    BY <1>1, <2>1
    DEF InsertOwner, UpdateRole, WritesTarget, Ends, IInv, TypeOK, RequestInv,
        RequestOK
  <2>3. \A x \in Users \ {t} : member'[x] = member[x]
    BY <1>1, <2>1, <2>2 DEF InsertOwner, UpdateRole, Insert, IInv, TypeOK
  <2>4. u = t
    BY <1>1, <2>3
  <2>5. request[r].role = "owner"
    <3>1. CASE InsertOwner(r)
      BY <1>1, <3>1 DEF InsertOwner, WritesTarget, IInv, RequestInv, RequestOK
    <3>2. CASE UpdateRole(r)
      <4>1. \A row \in MembershipRow : \A x : [row EXCEPT !.role = x].role = x
        BY DEF MembershipRow, Absent, ActiveOwner, ActiveStaff, ActiveClient,
               Invited
      <4>2. member'[t] = [member[t] EXCEPT !.role = request[r].role]
        BY <1>1, <2>2, <3>2 DEF UpdateRole, IInv, TypeOK
      <4> QED
        BY <1>1, <2>2, <2>4, <4>1, <4>2 DEF IInv, TypeOK
    <3> QED
      BY <2>1, <3>1, <3>2
  <2>6. a \in Users /\ member[a] = ActiveOwner
    BY <1>1, <2>5 DEF IInv, RequestInv, RequestOK
  <2>7. a # t
    BY <1>1, <2>4, <2>6 DEF ActiveOwner
  <2> QED
    BY <2>2, <2>3, <2>4, <2>5, <2>6, <2>7 DEF Idle
<1>2. IInv /\ [Next]_vars =>
        [\A u \in Users :
            /\ workspace # "none"
            /\ member[u].role # "owner"
            /\ member'[u].role = "owner"
            => Granted(u)]_vars
  BY <1>1
<1> QED
  BY <1>2, InductiveInvariant, PTL DEF Spec, OnlyOwnersGrantOwner

\* The check of EnsureActiveMember holds when the assignment is written.
THEOREM AssigneeIsStaffCorrect == Spec => AssigneeIsStaff
<1>1. ASSUME IInv, Next, assignee' # assignee
      PROVE  /\ project = "open"
             /\ assignee' \in Users =>
                    /\ member[assignee'].status = "active"
                    /\ member[assignee'].role # "client"
  <2>1. \/ DeleteAssignment
        \/ \E r \in Requests : SetAssignee(r)
    BY <1>1
    DEF Next, ProjectStep, CreateProject, Archive, Restore, MemberStep,
        CreateOrganization, AddOrgMember, InviteOrgMember, Provision, Insert,
        RequestBegins, GrantOwner, BeginUpdateRole, BeginRemove,
        BeginRemoveClient, BeginAssignment, BeginAssignClient, Begin, rows,
        RequestMoves, IsActiveClientMember, AssignClient, ReadTarget,
        InsertOwner, UpdateRole, DeleteMember, DeleteClient, EnsureActiveMember,
        CreateAssignment, UpdateAssignment, Abort
  <2>2. CASE DeleteAssignment
    BY <2>2, SentinelAssumption DEF DeleteAssignment
  <2>3. ASSUME NEW r \in Requests, SetAssignee(r)
        PROVE  /\ project = "open"
               /\ member[assignee'].status = "active"
               /\ member[assignee'].role # "client"
    BY <1>1, <2>3 DEF SetAssignee, IInv, RequestInv, RequestOK
  <2> QED
    BY <2>1, <2>2, <2>3
<1>2. IInv /\ [Next]_vars =>
        [assignee' # assignee =>
            /\ project = "open"
            /\ assignee' \in Users =>
                /\ member[assignee'].status = "active"
                /\ member[assignee'].role # "client"]_vars
  BY <1>1
<1> QED
  BY <1>2, InductiveInvariant, PTL DEF Spec, AssigneeIsStaff

-----------------------------------------------------------------------------
(* Deadlocks *)

\* A grant of the owner role that waits for its target.
GrantWaits(r) ==
    request[r].role = "owner" /\ request[r].at = "write" /\ request[r].op = "rerole"

\* The grants that have the row of r's target.
GrantsAhead(r) ==
    {q \in Requests \ {r} :
        request[q].role = "owner" /\ request[q].actor = request[r].target}

\* Grants alone do not wait for each other in a circle: the one that looked last
\* saw no owner, and the row that another grant has is an owner's.
GrantInv ==
    \A S \in SUBSET Requests :
        S # {} => \E r \in S : GrantWaits(r) => GrantsAhead(r) \cap S = {}

\* A request that begins or goes on does not wait as a grant, or it is one that
\* has just looked at its target.
LEMMA GrantStep ==
    ASSUME IInv, NEW r \in Requests, RequestBegins(r) \/ RequestMoves(r)
    PROVE  ~GrantWaits(r)' \/ ReadTarget(r)
<1> USE DEF IInv, TypeOK
<1>1. CASE RequestBegins(r)
  <2>1. \A q : Begin(r, q) => request'[r] = q
    BY DEF Begin
  <2>2. ASSUME NEW op \in Operations, NEW a \in Users, NEW u \in Users,
               GrantOwner(r, op, a, u)
        PROVE  ~GrantWaits(r)'
    BY <2>1, <2>2 DEF GrantOwner, GrantWaits
  <2>3. ASSUME NEW u \in Users,
               \/ BeginUpdateRole(r, u) \/ BeginRemove(r, u)
               \/ BeginRemoveClient(r, u) \/ BeginAssignment(r, u)
        PROVE  ~GrantWaits(r)'
    BY <2>1, <2>3
    DEF BeginUpdateRole, BeginRemove, BeginRemoveClient, BeginAssignment, Idle,
        GrantWaits
  <2>4. ASSUME NEW u \in Users \cup {NoUser}, BeginAssignClient(r, u)
        PROVE  ~GrantWaits(r)'
    BY <2>1, <2>4 DEF BeginAssignClient, Idle, GrantWaits
  <2> QED
    BY <1>1, <2>2, <2>3, <2>4 DEF RequestBegins
<1>2. CASE Ends(r)
  BY <1>2 DEF Ends, Idle, GrantWaits
<1>3. CASE EnsureActiveMember(r) \/ IsActiveClientMember(r)
  BY <1>3 DEF EnsureActiveMember, IsActiveClientMember, Moves, Request, GrantWaits
<1> QED
  BY <1>1, <1>2, <1>3
  DEF RequestMoves, InsertOwner, UpdateRole, DeleteMember, DeleteClient,
      WritesTarget, CreateAssignment, UpdateAssignment, SetAssignee,
      AssignClient, Abort

LEMMA GrantInvStep ==
    ASSUME IInv, GrantInv, [Next]_vars
    PROVE  GrantInv'
<1> SUFFICES ASSUME NEW S \in SUBSET Requests, S # {}
             PROVE  \E r \in S : GrantWaits(r)' => GrantsAhead(r)' \cap S = {}
  BY DEF GrantInv
<1>1. CASE \A q \in S : request'[q] = request[q]
  <2>1. PICK r \in S : GrantWaits(r) => GrantsAhead(r) \cap S = {}
    BY DEF GrantInv
  <2> QED
    BY <1>1, <2>1 DEF GrantWaits, GrantsAhead
<1>2. ASSUME NEW r \in S, RequestBegins(r) \/ RequestMoves(r),
             \A q \in Requests \ {r} : request'[q] = request[q]
      PROVE  GrantWaits(r)' => GrantsAhead(r)' \cap S = {}
  <2> SUFFICES ASSUME ReadTarget(r)
               PROVE  GrantsAhead(r)' = {}
    BY <1>2, GrantStep
  <2>1. /\ request'[r].target = request[r].target
        /\ member[request[r].target] # ActiveOwner
    BY DEF ReadTarget, SeesStaff, Protected, ActiveOwner, Moves, IInv, TypeOK,
           Request
  <2>2. ASSUME NEW q \in Requests \ {r},
               request'[q].role = "owner",
               request'[q].actor = request'[r].target
        PROVE  FALSE
    BY <1>2, <2>1, <2>2 DEF IInv, RequestInv, RequestOK
  <2> QED
    BY <2>2 DEF GrantsAhead
<1> QED
  BY <1>1, <1>2, RequestStep

\* A request of a deadlocked set that has a row which another one waits for is
\* a grant, or a reassignment whose new client it is.
LEMMA HolderWaits ==
    ASSUME IInv, NEW S \in SUBSET Requests, DeadlockedSet(S),
           NEW q \in S, NEW u \in Users, HoldsMember(q, u)
    PROVE  \/ GrantWaits(q) /\ request[q].actor = u
           \/ request[q].at = "prune" /\ request[q].target = u
<1>1. \E x \in Users : Awaits(q, x)
  BY DEF DeadlockedSet, WaitsFor
<1> QED
  BY <1>1 DEF Awaits, HoldsMember, GrantWaits, IInv, RequestInv, RequestOK

\* However many requests are in flight, those that wait for each other are a
\* reassignment and the grants that lead from the client it displaces to the one
\* it puts in place.
THEOREM DeadlocksAreReassignmentsCorrect == Spec => []DeadlocksAreReassignments
<1>1. ASSUME IInv, GrantInv, NEW S \in SUBSET Requests, DeadlockedSet(S)
      PROVE  \E T \in SUBSET S : \E r \in T :
                /\ DeadlockedSet(T)
                /\ request[r].at = "prune"
                /\ member[client] = ActiveOwner
                /\ member[request[r].target] = ActiveClient
                /\ \A q \in T \ {r} :
                    request[q].role = "owner" /\ request[q].at = "write"
                /\ \E q \in T \ {r} : request[q].target = request[r].target
  <2> DEFINE G == {g \in S : GrantWaits(g)}
  \* Whoever displaces a client waits for a grant by that client.
  <2>1. ASSUME NEW r \in S, request[r].at = "prune"
        PROVE  \E g \in G :
                    request[g].actor = client /\ client \in Users /\ g \in WaitsFor(r)
    <3>1. PICK q \in S : q \in WaitsFor(r)
      BY <1>1 DEF DeadlockedSet
    <3>2. client \in Users /\ HoldsMember(q, client) /\ q # r
      BY <2>1, <3>1 DEF WaitsFor, Awaits
    <3>3. request[q].at # "prune" \/ request[q].target # client
      BY <1>1, <3>2 DEF IInv, RequestInv, RequestOK
    <3>4. GrantWaits(q) /\ request[q].actor = client
      BY <1>1, <3>2, <3>3, HolderWaits
    <3> QED
      BY <3>1, <3>2, <3>4
  \* What a grant waits for is another grant's or a new client's.
  <2>2. ASSUME NEW g \in G
        PROVE  \E q \in S \ {g} :
                    /\ q \in WaitsFor(g)
                    /\ \/ q \in G /\ q \in GrantsAhead(g)
                       \/ /\ request[q].at = "prune"
                          /\ request[q].target = request[g].target
                          /\ request[q].target \in Users
    <3>1. PICK q \in S : q \in WaitsFor(g)
      BY <1>1 DEF DeadlockedSet
    <3>2. PICK u \in Users : Awaits(g, u) /\ HoldsMember(q, u)
      BY <3>1 DEF WaitsFor
    <3>3. u = request[g].target
      BY <3>2 DEF Awaits, GrantWaits
    <3>4. q # g
      BY <3>1 DEF WaitsFor
    <3>5. \/ GrantWaits(q) /\ request[q].actor = u
          \/ request[q].at = "prune" /\ request[q].target = u
      BY <1>1, <3>2, HolderWaits
    <3> QED
      BY <3>1, <3>3, <3>4, <3>5 DEF GrantsAhead, GrantWaits
  <2>3. G # {}
    <3>1. PICK p \in S, q \in S : q \in WaitsFor(p)
      BY <1>1 DEF DeadlockedSet
    <3>2. PICK u \in Users : HoldsMember(q, u)
      BY <3>1 DEF WaitsFor
    <3>3. GrantWaits(q) \/ request[q].at = "prune"
      BY <1>1, <3>2, HolderWaits
    <3> QED
      BY <2>1, <3>3
  <2>4. PICK last \in G : GrantsAhead(last) \cap G = {}
    BY <1>1, <2>3 DEF GrantInv
  <2>5. PICK r \in S : /\ request[r].at = "prune"
                       /\ request[r].target = request[last].target
                       /\ request[r].target \in Users
    BY <2>2, <2>4
  <2>6. \A q \in S : request[q].at = "prune" => q = r
    BY <1>1, <2>5 DEF IInv, RequestInv, RequestOK, ProjectInv, HasProject
  <2>7. r \notin G
    BY <2>5 DEF GrantWaits
  <2> DEFINE T == G \cup {r}
  <2>8. DeadlockedSet(T)
    <3>1. WaitsFor(r) \cap T # {}
      BY <2>1, <2>5
    <3>2. \A g \in G : WaitsFor(g) \cap T # {}
      BY <2>2, <2>6
    <3> QED
      BY <3>1, <3>2 DEF DeadlockedSet
  <2>9. member[client] = ActiveOwner /\ member[request[r].target] = ActiveClient
    BY <1>1, <2>1, <2>5 DEF GrantWaits, IInv, RequestInv, RequestOK
  <2>10. \A q \in T \ {r} : request[q].role = "owner" /\ request[q].at = "write"
    BY DEF GrantWaits
  <2>11. T \in SUBSET S /\ r \in T /\ last \in T \ {r}
    BY <2>7
  <2> HIDE DEF T
  <2> QED
    BY <2>5, <2>8, <2>9, <2>10, <2>11
<1>2. IInv /\ GrantInv => DeadlocksAreReassignments
  BY <1>1 DEF DeadlocksAreReassignments
<1>3. Init => GrantInv
  BY DEF Init, GrantInv, GrantWaits, Idle
<1>4. IInv /\ GrantInv /\ [Next]_vars => GrantInv'
  BY GrantInvStep
<1> QED
  BY <1>2, <1>3, <1>4, InductiveInvariant, PTL DEF Spec
=============================================================================
