-------------------------- MODULE ClientAssignment --------------------------
(***************************************************************************)
(* project.AssignClient, client.Provision and client.Remove statement by   *)
(* statement: concurrent PostgreSQL transactions at READ COMMITTED, with   *)
(* the row locks the repositories take.                                    *)
(*                                                                         *)
(* phase, client and members are the committed rows.  A transaction's own  *)
(* writes are published by Commit; its locks follow from the statement it  *)
(* has reached.  A SELECT ... FOR SHARE / FOR UPDATE is two steps: the     *)
(* statement starts and finds the row, then it is granted the lock; when   *)
(* the row is deleted in between, it finds no row.  Requests take over     *)
(* each other's identifiers once they have ended.                          *)
(*                                                                         *)
(* Archive, cancel, restore and delete of a project lock the project row   *)
(* only, so they are one step each.  The staff operations on memberships   *)
(* (internal/membership) are not modelled here.                            *)
(***************************************************************************)
EXTENDS FiniteSets

CONSTANTS
    Projects,   \* the projects of the organization
    Users,      \* the people who may become clients
    Requests,   \* requests in flight at a time
    NoProject, NoUser

ASSUME SentinelAssumption == NoProject \notin Projects /\ NoUser \notin Users

VARIABLES
    phase,      \* by project: open, archived, cancelled or deleted
    client,     \* projects.client_id
    members,    \* users with an active client membership
    request     \* the transactions in flight

rows == <<phase, client, members>>
vars == <<phase, client, members, request>>

\* The abstract specification this one implements.
Access ==
    INSTANCE ClientAccess WITH
        phase <- phase, client <- client, members <- members

Statements ==
    {"idle",
     "lockProject",    \* GetProjectByIDAndOrganizationIDForUpdate waits
     "checkClient",    \* IsActiveClientMember is next
     "awaitShare",     \* IsActiveClientMember waits
     "lockDisplaced",  \* LockClientMembership is next
     "awaitUpdate",    \* LockClientMembership waits
     "checkProjects",  \* IsClientOnAnyOtherProject, ClientHasProjects
     "insert",         \* CreateClientMembership
     "commit"}

RequestState ==
    [kind      : {"none", "assign", "remove", "provision"},
     at        : Statements,
     project   : Projects \cup {NoProject},
     user      : Users \cup {NoUser},   \* the new client, NoUser to unassign
     displaced : Users \cup {NoUser},   \* the client whose membership may go
     outcome   : {"none", "keep", "delete"}]  \* of the displaced membership

TypeOK ==
    /\ phase \in [Projects -> Access!Phases]
    /\ client \in [Projects -> Users \cup {NoUser}]
    /\ members \in SUBSET Users
    /\ request \in [Requests -> RequestState]

Idle ==
    [kind |-> "none", at |-> "idle", project |-> NoProject, user |-> NoUser,
     displaced |-> NoUser, outcome |-> "none"]

-----------------------------------------------------------------------------
(* Locks *)

HoldsProject(r, p) ==
    /\ request[r].project = p
    /\ request[r].at \notin {"idle", "lockProject"}

\* Mutant: IsActiveClientMember reads without FOR SHARE.
NeverHoldsShare(r, u) == FALSE

HoldsShare(r, u) ==
    /\ request[r].kind = "assign"
    /\ request[r].user = u
    /\ request[r].at \in {"lockDisplaced", "awaitUpdate", "checkProjects", "commit"}

\* Mutant: LockClientMembership reads without FOR UPDATE; the DELETE itself
\* still locks the row.
HoldsUpdateOnlyByDelete(r, u) ==
    /\ request[r].displaced = u
    /\ request[r].at = "commit"
    /\ request[r].outcome = "delete"

HoldsUpdate(r, u) ==
    /\ request[r].displaced = u
    /\ \/ request[r].at = "checkProjects"
       \/ request[r].at = "commit" /\ request[r].outcome # "none"

\* An uncommitted DELETE or INSERT of u's membership: the unique index on
\* (user_id, organization_id) makes an INSERT wait for it.
Writes(r, u) ==
    /\ request[r].at = "commit"
    /\ \/ request[r].displaced = u /\ request[r].outcome = "delete"
       \/ request[r].kind = "provision" /\ request[r].user = u

\* The requests whose end the statement of r waits for.
WaitsFor(r) ==
    {s \in Requests \ {r} :
        \/ /\ request[r].at = "lockProject"
           /\ HoldsProject(s, request[r].project)
        \/ /\ request[r].at = "awaitShare"
           /\ HoldsUpdate(s, request[r].user)
        \/ /\ request[r].at = "awaitUpdate"
           /\ \/ HoldsUpdate(s, request[r].displaced)
              \/ HoldsShare(s, request[r].displaced)
        \/ /\ request[r].at = "insert"
           /\ Writes(s, request[r].user)}

\* A set of requests none of which can go on before another of them ends.
DeadlockedSet(S) ==
    /\ S # {}
    /\ \A r \in S : WaitsFor(r) \cap S # {}

-----------------------------------------------------------------------------
Init ==
    /\ phase = [p \in Projects |-> "open"]
    /\ client = [p \in Projects |-> NoUser]
    /\ members = {}
    /\ request = [r \in Requests |-> Idle]

\* The statement request r goes on with.
Go(r, statement) ==
    /\ request' = [request EXCEPT ![r].at = statement]
    /\ UNCHANGED rows

\* Mutant: a rejected request leaves its transaction open.
StaysOpen(r) == request[r]

\* A request that is rejected, or has nothing to do, releases its locks.
Rejected(r) == Idle

Reject(r) ==
    /\ request' = [request EXCEPT ![r] = Rejected(r)]
    /\ UNCHANGED rows

Begin(r, kind, statement, p, u, displaced) ==
    /\ request[r].at = "idle"
    /\ request' = [request EXCEPT ![r] =
            [kind |-> kind, at |-> statement, project |-> p, user |-> u,
             displaced |-> displaced, outcome |-> "none"]]
    /\ UNCHANGED rows

\* PUT .../projects/p/client with u, or with null.
BeginAssign(r, p, u) == Begin(r, "assign", "lockProject", p, u, NoUser)

\* GetClientUser, unlocked.
BeginRemove(r, u) ==
    /\ u \in members
    /\ Begin(r, "remove", "lockDisplaced", NoProject, NoUser, u)

\* IsMember, unlocked.
BeginProvision(r, u) ==
    /\ u \notin members
    /\ Begin(r, "provision", "insert", NoProject, u, NoUser)

\* Mutant: no early return when the client stays the same.
NothingToUnassign(p, u) == u = NoUser /\ client[p] = NoUser

\* The requested client is the client already.
NoChange(p, u) == client[p] = u

LockProject(r) ==
    LET p == request[r].project
        u == request[r].user
    IN
    /\ request[r].at = "lockProject"
    /\ WaitsFor(r) = {}
    /\ IF phase[p] # "open" \/ NoChange(p, u)
       THEN Reject(r)
       ELSE /\ request' = [request EXCEPT ![r] =
                    [request[r] EXCEPT
                        !.displaced = client[p],
                        !.at = IF u = NoUser THEN "lockDisplaced"
                               ELSE "checkClient"]]
            /\ UNCHANGED rows

CheckClient(r) ==
    /\ request[r].at = "checkClient"
    /\ IF request[r].user \in members THEN Go(r, "awaitShare") ELSE Reject(r)

GrantShare(r) ==
    /\ request[r].at = "awaitShare"
    /\ WaitsFor(r) = {}
    /\ Go(r, IF request[r].displaced = NoUser THEN "commit" ELSE "lockDisplaced")

\* The row of the displaced client does not exist: Remove reports 404, the
\* prune is skipped.
WithoutRow(r) ==
    IF request[r].kind = "remove" THEN Rejected(r)
    ELSE [request[r] EXCEPT !.at = "commit"]

LockDisplaced(r) ==
    /\ request[r].at = "lockDisplaced"
    /\ IF request[r].displaced \in members
       THEN Go(r, "awaitUpdate")
       ELSE /\ request' = [request EXCEPT ![r] = WithoutRow(r)]
            /\ UNCHANGED rows

GrantUpdate(r) ==
    /\ request[r].at = "awaitUpdate"
    /\ WaitsFor(r) = {}
    /\ Go(r, "checkProjects")

\* IsClientOnAnyOtherProject, and ClientHasProjects for Remove.
StillAttached(r) == Access!Attached(request[r].displaced, {request[r].project})

CheckProjects(r) ==
    /\ request[r].at = "checkProjects"
    /\ IF request[r].kind = "remove" /\ StillAttached(r)
       THEN Reject(r)
       ELSE /\ request' = [request EXCEPT ![r] =
                    [request[r] EXCEPT
                        !.at = "commit",
                        !.outcome = IF StillAttached(r) THEN "keep" ELSE "delete"]]
            /\ UNCHANGED rows

\* The INSERT, or its unique violation.
Insert(r) ==
    /\ request[r].at = "insert"
    /\ WaitsFor(r) = {}
    /\ IF request[r].user \in members THEN Reject(r) ELSE Go(r, "commit")

\* What becomes of request s when the membership of u is deleted: a statement
\* that waits for the row finds it gone.
AfterDelete(s, u) ==
    CASE request[s].at = "awaitShare" /\ request[s].user = u -> Rejected(s)
      [] request[s].at = "awaitUpdate" /\ request[s].displaced = u -> WithoutRow(s)
      [] OTHER -> request[s]

Commit(r) ==
    LET q == request[r]
        deletes == q.outcome = "delete"
    IN
    /\ q.at = "commit"
    /\ client' = IF q.kind = "assign"
                 THEN [client EXCEPT ![q.project] = q.user] ELSE client
    /\ members' =
        CASE q.kind = "provision" -> members \cup {q.user}
          [] deletes -> members \ {q.displaced}
          [] OTHER -> members
    /\ request' = [s \in Requests |->
            IF s = r THEN Idle
            ELSE IF deletes THEN AfterDelete(s, q.displaced)
            ELSE request[s]]
    /\ UNCHANGED phase

\* A lost connection, the timeout of WithDBTimeout, the deadlock detector, or
\* an error of the audit or activity INSERT: the transaction rolls back.
Abort(r) ==
    /\ request[r].at # "idle"
    /\ request' = [request EXCEPT ![r] = Idle]
    /\ UNCHANGED rows

\* PostgreSQL cancels a transaction of a deadlocked set.
BreakDeadlock(r) ==
    /\ \E S \in SUBSET Requests : r \in S /\ DeadlockedSet(S)
    /\ Abort(r)

\* Archive, cancel, restore or delete, in one transaction that holds only the
\* project row.
ChangePhase(p, next) ==
    /\ \A r \in Requests : ~HoldsProject(r, p)
    /\ next \in Access!PhaseTransitions[phase[p]]
    /\ phase' = [phase EXCEPT ![p] = next]
    /\ UNCHANGED <<client, members, request>>

-----------------------------------------------------------------------------
RequestBegins(r) ==
    \/ \E p \in Projects, u \in Users \cup {NoUser} : BeginAssign(r, p, u)
    \/ \E u \in Users : BeginRemove(r, u)
    \/ \E u \in Users : BeginProvision(r, u)

\* Statements that wait for no lock.
Proceeds(r) ==
    \/ CheckClient(r)
    \/ LockDisplaced(r)
    \/ CheckProjects(r)
    \/ Commit(r)

\* Statements that wait for a lock.
IsGranted(r) ==
    \/ LockProject(r)
    \/ GrantShare(r)
    \/ GrantUpdate(r)
    \/ Insert(r)

Next ==
    \/ \E r \in Requests :
        RequestBegins(r) \/ Proceeds(r) \/ IsGranted(r) \/ Abort(r)
    \/ \E p \in Projects, next \in Access!Phases : ChangePhase(p, next)

Spec == Init /\ [][Next]_vars

\* A running transaction takes its next statement, a statement whose lock stays
\* free is granted it, and the deadlock detector runs.  No request is assumed to
\* begin, time out or be aborted, and a lock that is free only now and then may
\* never be granted: PostgreSQL lets a FOR SHARE pass a FOR UPDATE that waits.
Fairness ==
    \A r \in Requests :
        /\ WF_vars(Proceeds(r))
        /\ WF_vars(IsGranted(r))
        /\ WF_vars(BreakDeadlock(r))

FairSpec == Spec /\ Fairness

-----------------------------------------------------------------------------
(* Properties *)

\* The client of a live project is a member, whatever prune, removal and
\* assignment run concurrently: the FOR SHARE of the assignment and the FOR
\* UPDATE of the prune and of Remove keep projects.client_id from being
\* stranded.
ClientIsMember ==
    \A p \in Projects :
        Access!Live(p) /\ client[p] # NoUser => client[p] \in members

\* Each transaction takes effect at its commit as one step of ClientAccess:
\* concurrent prunes of one client neither both keep nor wrongly drop the
\* membership, although each reads the other projects before the other commits.
ImplementsAccess == Access!Spec

\* The only deadlock the lock order allows is the exchange of clients among
\* projects: at its core each request puts in place a client whom another of
\* them displaces.  Remove, Provision, unassignment and first assignments can
\* wait for a deadlocked request but never close a cycle ("no deadlock is
\* possible", says Remove).
DeadlocksAreSwaps ==
    \A S \in SUBSET Requests :
        DeadlockedSet(S) =>
            \E T \in SUBSET S :
                /\ DeadlockedSet(T)
                /\ \A r \in T :
                    /\ request[r].kind = "assign"
                    /\ request[r].at = "awaitUpdate"
                    /\ request[r].user # request[r].displaced
                    /\ \E s \in T : request[s].user = request[r].displaced

\* Once no further request begins, as in the shutdown of the server, those in
\* flight all end without a timeout: no lock is left behind by a request that
\* was rejected, and no cycle of waits escapes the deadlock detector.  While
\* requests keep coming a FOR UPDATE can wait for good behind the overlapping
\* FOR SHAREs of assignments, and only its timeout ends that.
Drains ==
    <>[][~\E r \in Requests : RequestBegins(r)]_vars
        => <>[](\A r \in Requests : request[r].at = "idle")
=============================================================================
