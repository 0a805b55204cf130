----------------------- MODULE ClientAssignmentProofs -----------------------
(***************************************************************************)
(* Theorems about ClientAssignment, for any number of projects, users and  *)
(* requests in flight: its transactions implement ClientAccess.            *)
(***************************************************************************)
EXTENDS ClientAssignment, TLAPS

-----------------------------------------------------------------------------
(* The inductive invariant *)

\* An assignment that has the project row relies on the project being open and
\* on its client, and, once it has the share lock, on the new client's row.
AssignOK(r) ==
    LET q == request[r] IN
    q.kind = "assign" =>
        /\ q.project \in Projects
        /\ q.at \notin {"idle", "lockProject"} =>
            /\ phase[q.project] = "open"
            /\ q.displaced = client[q.project]
            /\ q.user # q.displaced
        /\ q.at \in {"checkClient", "awaitShare"} => q.user \in Users
        /\ q.at \in {"awaitShare", "lockDisplaced", "awaitUpdate",
                     "checkProjects", "commit"} =>
            q.user \in members \cup {NoUser}

\* A request that is about to lock a membership row, or has it, found it; what
\* it decided about the row stays right until it commits.
DisplacedOK(r) ==
    LET q == request[r] IN
    /\ q.at \in {"lockDisplaced", "awaitUpdate", "checkProjects"} =>
        q.displaced \in Users
    /\ q.at \in {"awaitUpdate", "checkProjects"} => q.displaced \in members
    /\ q.outcome # "none" => q.at = "commit" /\ q.displaced \in members
    /\ q.outcome = "keep" =>
        /\ q.kind = "assign"
        /\ \E p \in Projects \ {q.project} : client[p] = q.displaced
    /\ q.outcome = "delete" => ~Access!Attached(q.displaced, {q.project})

\* Which statements a kind of request goes through.
KindOK(r) ==
    LET q == request[r] IN
    /\ q.at # "idle" => q.kind # "none"
    /\ q.kind \in {"remove", "provision"} => q.project = NoProject
    /\ q.at \in {"lockProject", "checkClient", "awaitShare"} => q.kind = "assign"
    /\ q.kind = "provision" =>
        /\ q.at \in {"insert", "commit"}
        /\ q.user \in Users
        /\ q.outcome = "none"
        /\ q.at = "commit" => q.user \notin members
    /\ q.at = "insert" => q.kind = "provision"
    /\ q.kind = "remove" /\ q.at = "commit" => q.outcome = "delete"
    /\ q.kind = "assign" /\ q.at = "commit" /\ q.outcome = "none" =>
        q.displaced = NoUser

Provides(r, u) ==
    /\ request[r].kind = "provision"
    /\ request[r].at = "commit"
    /\ request[r].user = u

\* Two requests never have locks that exclude each other.
LocksExclude(r, s) ==
    /\ \A p \in Projects : ~(HoldsProject(r, p) /\ HoldsProject(s, p))
    /\ \A u \in Users :
        /\ HoldsUpdate(r, u) => ~HoldsUpdate(s, u) /\ ~HoldsShare(s, u)
        /\ Provides(r, u) => ~Provides(s, u)

RequestOK(r) == AssignOK(r) /\ DisplacedOK(r) /\ KindOK(r)

IInv ==
    /\ TypeOK
    /\ ClientIsMember
    /\ \A r \in Requests : RequestOK(r)
    /\ \A r, s \in Requests : r # s => LocksExclude(r, s)

LEMMA IdleType == Idle \in RequestState
  BY DEF Idle, RequestState, Statements

LEMMA InitIInv == Init => IInv
  BY IdleType
  DEF Init, IInv, TypeOK, ClientIsMember, RequestOK, AssignOK, DisplacedOK,
      KindOK, LocksExclude, HoldsProject, HoldsUpdate, HoldsShare, Provides,
      Idle, Access!Phases

-----------------------------------------------------------------------------
(* Steps of one transaction that change no committed row *)

\* r moves on, and nothing else happens.
Alone(r) ==
    /\ UNCHANGED rows
    /\ request' = [request EXCEPT ![r] = request'[r]]

\* The locks of r that it did not have before exclude nobody's.
NewLocksFree(r) ==
    \A s \in Requests \ {r} :
        /\ \A p \in Projects :
            HoldsProject(r, p)' => HoldsProject(r, p) \/ ~HoldsProject(s, p)
        /\ \A u \in Users :
            /\ HoldsUpdate(r, u)' =>
                \/ HoldsUpdate(r, u)
                \/ ~HoldsUpdate(s, u) /\ ~HoldsShare(s, u)
            /\ HoldsShare(r, u)' => HoldsShare(r, u) \/ ~HoldsUpdate(s, u)
            /\ Provides(r, u)' => Provides(r, u) \/ ~Provides(s, u)

LEMMA AloneStep ==
    ASSUME IInv, NEW r \in Requests, Alone(r), request'[r] \in RequestState,
           RequestOK(r)', NewLocksFree(r)
    PROVE  IInv'
<1>1. TypeOK'
  <2>1. request' \in [Requests -> RequestState]
    BY DEF IInv, TypeOK, Alone
  <2> QED
    BY <2>1 DEF IInv, TypeOK, Alone, rows
<1>2. ClientIsMember'
  BY DEF IInv, Alone, rows, ClientIsMember, Access!Live
<1>3. ASSUME NEW s \in Requests PROVE RequestOK(s)'
  BY DEF IInv, TypeOK, Alone, rows, RequestOK, AssignOK, DisplacedOK, KindOK,
         Access!Attached, Access!Live
<1>4. ASSUME NEW s \in Requests, NEW t \in Requests, s # t
      PROVE  LocksExclude(s, t)'
  <2>1. \A x \in Requests \ {r} :
          /\ \A p : HoldsProject(x, p)' <=> HoldsProject(x, p)
          /\ \A u : /\ HoldsUpdate(x, u)' <=> HoldsUpdate(x, u)
                    /\ HoldsShare(x, u)' <=> HoldsShare(x, u)
                    /\ Provides(x, u)' <=> Provides(x, u)
    BY DEF IInv, TypeOK, Alone, HoldsProject, HoldsUpdate, HoldsShare, Provides
  <2>2. \A x, y \in Requests : x # y => LocksExclude(x, y)
    BY DEF IInv
  <2>3. CASE s # r /\ t # r
    BY <1>4, <2>1, <2>2, <2>3 DEF LocksExclude
  <2>4. CASE s = r
    BY <1>4, <2>1, <2>2, <2>4 DEF LocksExclude, NewLocksFree
  <2>5. CASE t = r
    BY <1>4, <2>1, <2>2, <2>5 DEF LocksExclude, NewLocksFree
  <2> QED
    BY <2>3, <2>4, <2>5
<1> QED
  BY <1>1, <1>2, <1>3, <1>4 DEF IInv

\* A request that ends without a commit.
LEMMA EndStep ==
    ASSUME IInv, NEW r \in Requests, request' = [request EXCEPT ![r] = Idle],
           UNCHANGED rows
    PROVE  IInv'
<1>1. request'[r] = Idle
  BY DEF IInv, TypeOK
<1>2. Alone(r)
  BY DEF IInv, TypeOK, Alone
<1>3. RequestOK(r)' /\ NewLocksFree(r)
  BY <1>1
  DEF Idle, RequestOK, AssignOK, DisplacedOK, KindOK, NewLocksFree,
      HoldsProject, HoldsUpdate, HoldsShare, Provides
<1> QED
  BY <1>1, <1>2, <1>3, IdleType, AloneStep

LEMMA BeginStep ==
    ASSUME IInv, NEW r \in Requests, RequestBegins(r)
    PROVE  IInv'
<1>1. PICK q \in RequestState :
          /\ request' = [request EXCEPT ![r] = q]
          /\ UNCHANGED rows
          /\ q.outcome = "none"
          /\ \/ /\ q.kind = "assign" /\ q.at = "lockProject"
                /\ q.project \in Projects
             \/ /\ q.kind = "remove" /\ q.at = "lockDisplaced"
                /\ q.project = NoProject /\ q.displaced \in Users
             \/ /\ q.kind = "provision" /\ q.at = "insert"
                /\ q.project = NoProject /\ q.user \in Users
  <2>1. ASSUME NEW p \in Projects, NEW u \in Users \cup {NoUser}, BeginAssign(r, p, u)
        PROVE  [kind |-> "assign", at |-> "lockProject", project |-> p,
                user |-> u, displaced |-> NoUser, outcome |-> "none"]
                    \in RequestState
    BY DEF RequestState, Statements
  <2>2. ASSUME NEW u \in Users
        PROVE  /\ [kind |-> "remove", at |-> "lockDisplaced",
                   project |-> NoProject, user |-> NoUser, displaced |-> u,
                   outcome |-> "none"] \in RequestState
               /\ [kind |-> "provision", at |-> "insert",
                   project |-> NoProject, user |-> u, displaced |-> NoUser,
                   outcome |-> "none"] \in RequestState
    BY DEF RequestState, Statements
  <2> QED
    BY <2>1, <2>2 DEF RequestBegins, BeginAssign, BeginRemove, BeginProvision, Begin
<1>2. request'[r] = q /\ Alone(r)
  BY <1>1 DEF IInv, TypeOK, Alone
<1>3. RequestOK(r)'
  BY <1>1, <1>2 DEF RequestOK, AssignOK, DisplacedOK, KindOK
<1>4. NewLocksFree(r)
  BY <1>1, <1>2, SentinelAssumption
  DEF NewLocksFree, HoldsProject, HoldsUpdate, HoldsShare, Provides
<1> QED
  BY <1>1, <1>2, <1>3, <1>4, AloneStep

\* A request that takes its next statement with the same data.
LEMMA GoStep ==
    ASSUME IInv, NEW r \in Requests, NEW q \in RequestState,
           request' = [request EXCEPT ![r] = q], UNCHANGED rows
    PROVE  request'[r] = q /\ Alone(r)
  BY DEF IInv, TypeOK, Alone

LEMMA GoType ==
    ASSUME IInv, NEW r \in Requests, NEW at \in Statements, Go(r, at)
    PROVE  /\ request'[r] \in RequestState
           /\ request'[r] = [request[r] EXCEPT !.at = at]
           /\ request[r] \in RequestState
           /\ Alone(r)
<1>1. request[r] \in RequestState
  BY DEF IInv, TypeOK
<1>2. [request[r] EXCEPT !.at = at] \in RequestState
  BY <1>1 DEF RequestState
<1>3. request' = [request EXCEPT ![r] = [request[r] EXCEPT !.at = at]]
  BY DEF Go
<1> QED
  BY <1>1, <1>2, <1>3, GoStep DEF Go

LEMMA LockProjectStep ==
    ASSUME IInv, NEW r \in Requests, LockProject(r)
    PROVE  IInv'
<1> DEFINE p == request[r].project
           u == request[r].user
           q == [request[r] EXCEPT
                    !.displaced = client[p],
                    !.at = IF u = NoUser THEN "lockDisplaced" ELSE "checkClient"]
<1>1. /\ request[r] \in RequestState
      /\ request[r].at = "lockProject" /\ request[r].kind = "assign"
      /\ p \in Projects /\ request[r].outcome = "none"
      /\ RequestOK(r)
  BY DEF IInv, TypeOK, LockProject, RequestOK, KindOK, AssignOK, DisplacedOK
<1>2. \A s \in Requests \ {r} : ~HoldsProject(s, p)
  BY <1>1 DEF LockProject, WaitsFor
<1>3. CASE Reject(r)
  BY <1>3, EndStep DEF Reject, Rejected
<1>4. CASE ~Reject(r)
  <2>1. /\ request' = [request EXCEPT ![r] = q]
        /\ UNCHANGED rows
        /\ phase[p] = "open"
        /\ client[p] # u
    BY <1>4 DEF LockProject, NoChange
  <2>2. q \in RequestState
    BY <1>1 DEF IInv, TypeOK, RequestState, Statements
  <2>3. request'[r] = q /\ Alone(r)
    BY <2>1, <2>2, GoStep
  <2>4. /\ q.kind = "assign" /\ q.project = p /\ q.user = u
        /\ q.displaced = client[p] /\ q.outcome = "none"
        /\ q.at = IF u = NoUser THEN "lockDisplaced" ELSE "checkClient"
        /\ u \in Users \cup {NoUser}
        /\ client[p] \in Users \cup {NoUser}
    BY <1>1 DEF RequestState, IInv, TypeOK
  <2> HIDE DEF q
  <2>5. RequestOK(r)'
    BY <1>1, <2>1, <2>3, <2>4 DEF RequestOK, AssignOK, DisplacedOK, KindOK, rows
  <2>6. NewLocksFree(r)
    BY <1>1, <1>2, <2>3, <2>4, SentinelAssumption
    DEF NewLocksFree, HoldsProject, HoldsUpdate, HoldsShare, Provides
  <2> QED
    BY <2>2, <2>3, <2>5, <2>6, AloneStep
<1> QED
  BY <1>3, <1>4

LEMMA CheckClientStep ==
    ASSUME IInv, NEW r \in Requests, CheckClient(r)
    PROVE  IInv'
<1>1. CASE Reject(r)
  BY <1>1, EndStep DEF Reject, Rejected
<1>2. CASE Go(r, "awaitShare") /\ request[r].user \in members
  <2>1. /\ request'[r] \in RequestState
        /\ request'[r] = [request[r] EXCEPT !.at = "awaitShare"]
        /\ request[r] \in RequestState
        /\ Alone(r)
    BY <1>2, GoType DEF Statements
  <2>2. RequestOK(r)
    BY DEF IInv
  <2>3. RequestOK(r)'
    BY <1>2, <2>1, <2>2
    DEF CheckClient, Alone, rows, RequestOK, AssignOK, DisplacedOK, KindOK,
        RequestState
  <2>4. NewLocksFree(r)
    BY <2>1
    DEF CheckClient, NewLocksFree, HoldsProject, HoldsUpdate, HoldsShare,
        Provides, RequestState
  <2> QED
    BY <2>1, <2>3, <2>4, AloneStep
<1> QED
  BY <1>1, <1>2 DEF CheckClient

LEMMA GrantShareStep ==
    ASSUME IInv, NEW r \in Requests, GrantShare(r)
    PROVE  IInv'
<1> DEFINE at == IF request[r].displaced = NoUser THEN "commit" ELSE "lockDisplaced"
<1>1. /\ request'[r] \in RequestState
      /\ request'[r] = [request[r] EXCEPT !.at = at]
      /\ request[r] \in RequestState
      /\ Alone(r)
  BY GoType DEF GrantShare, Statements
<1>2. RequestOK(r) /\ request[r].at = "awaitShare"
  BY DEF IInv, GrantShare
<1>3. RequestOK(r)'
  BY <1>1, <1>2
  DEF Alone, rows, RequestOK, AssignOK, DisplacedOK, KindOK, RequestState,
      Access!Attached, Access!Live
<1>4. \A s \in Requests \ {r} : ~HoldsUpdate(s, request[r].user)
  BY <1>2 DEF GrantShare, WaitsFor
<1>5. NewLocksFree(r)
  BY <1>1, <1>2, <1>4
  DEF NewLocksFree, HoldsProject, HoldsUpdate, HoldsShare, Provides,
      RequestState, RequestOK, KindOK, DisplacedOK
<1> QED
  BY <1>1, <1>3, <1>5, AloneStep

\* The row of the client of an open project exists.
LEMMA LockDisplacedStep ==
    ASSUME IInv, NEW r \in Requests, LockDisplaced(r)
    PROVE  IInv'
<1>1. /\ RequestOK(r)
      /\ request[r].at = "lockDisplaced"
      /\ request[r].displaced \in Users
      /\ request[r].kind \in {"assign", "remove"}
  BY DEF IInv, TypeOK, RequestState, LockDisplaced, RequestOK, DisplacedOK, KindOK
<1>2. CASE Go(r, "awaitUpdate") /\ request[r].displaced \in members
  <2>1. /\ request'[r] \in RequestState
        /\ request'[r] = [request[r] EXCEPT !.at = "awaitUpdate"]
        /\ request[r] \in RequestState
        /\ Alone(r)
    BY <1>2, GoType DEF Statements
  <2>2. RequestOK(r)'
    BY <1>1, <1>2, <2>1
    DEF Alone, rows, RequestOK, AssignOK, DisplacedOK, KindOK, RequestState
  <2>3. NewLocksFree(r)
    BY <1>1, <2>1
    DEF NewLocksFree, HoldsProject, HoldsUpdate, HoldsShare, Provides, RequestState
  <2> QED
    BY <2>1, <2>2, <2>3, AloneStep
<1>3. CASE /\ request[r].displaced \notin members
           /\ request' = [request EXCEPT ![r] = WithoutRow(r)]
           /\ UNCHANGED rows
  <2>1. request[r].kind = "remove"
    BY <1>1, <1>3, SentinelAssumption
    DEF RequestOK, AssignOK, IInv, ClientIsMember, Access!Live
  <2> QED
    BY <1>3, <2>1, EndStep DEF WithoutRow, Rejected
<1> QED
  BY <1>2, <1>3 DEF LockDisplaced

LEMMA GrantUpdateStep ==
    ASSUME IInv, NEW r \in Requests, GrantUpdate(r)
    PROVE  IInv'
<1>1. /\ request'[r] \in RequestState
      /\ request'[r] = [request[r] EXCEPT !.at = "checkProjects"]
      /\ request[r] \in RequestState
      /\ Alone(r)
  BY GoType DEF GrantUpdate, Statements
<1>2. RequestOK(r) /\ request[r].at = "awaitUpdate"
  BY DEF IInv, GrantUpdate
<1>3. RequestOK(r)'
  BY <1>1, <1>2
  DEF Alone, rows, RequestOK, AssignOK, DisplacedOK, KindOK, RequestState
<1>4. \A s \in Requests \ {r} :
        /\ ~HoldsUpdate(s, request[r].displaced)
        /\ ~HoldsShare(s, request[r].displaced)
  BY <1>2 DEF GrantUpdate, WaitsFor
<1>5. NewLocksFree(r)
  BY <1>1, <1>2, <1>4
  DEF NewLocksFree, HoldsProject, HoldsUpdate, HoldsShare, Provides, RequestState
<1> QED
  BY <1>1, <1>3, <1>5, AloneStep

LEMMA CheckProjectsStep ==
    ASSUME IInv, NEW r \in Requests, CheckProjects(r)
    PROVE  IInv'
<1> DEFINE outcome == IF StillAttached(r) THEN "keep" ELSE "delete"
           q == [request[r] EXCEPT !.at = "commit", !.outcome = outcome]
<1>1. /\ request[r] \in RequestState
      /\ request[r].at = "checkProjects"
      /\ RequestOK(r)
  BY DEF IInv, TypeOK, CheckProjects
<1>2. CASE Reject(r)
  BY <1>2, EndStep DEF Reject, Rejected
<1>3. CASE ~Reject(r)
  <2>1. /\ request' = [request EXCEPT ![r] = q]
        /\ UNCHANGED rows
        /\ ~(request[r].kind = "remove" /\ StillAttached(r))
    BY <1>3 DEF CheckProjects
  <2>2. q \in RequestState
    BY <1>1 DEF RequestState, Statements
  <2>3. request'[r] = q /\ Alone(r)
    BY <2>1, <2>2, GoStep
  <2>4. /\ q.kind = request[r].kind /\ q.project = request[r].project
        /\ q.user = request[r].user /\ q.displaced = request[r].displaced
        /\ q.at = "commit" /\ q.outcome = outcome
    BY <1>1 DEF RequestState
  <2>5. /\ client' = client /\ phase' = phase /\ members' = members
        /\ request'[r].displaced = request[r].displaced
        /\ request'[r].project = request[r].project
    BY <2>1, <2>3, <2>4 DEF rows
  <2> HIDE DEF q
  <2>6. NewLocksFree(r)
    BY <1>1, <2>3, <2>4
    DEF NewLocksFree, HoldsProject, HoldsUpdate, HoldsShare, Provides,
        RequestOK, KindOK
  <2>7. KindOK(r)' /\ AssignOK(r)'
    BY <1>1, <2>1, <2>3, <2>4 DEF RequestOK, AssignOK, KindOK, DisplacedOK, rows
  <2>8. DisplacedOK(r)'
    <3>1. CASE StillAttached(r)
      <4>1. \E p \in Projects \ {request[r].project} :
                client[p] = request[r].displaced
        BY <3>1 DEF StillAttached, Access!Attached
      <4> QED
        BY <1>1, <2>1, <2>3, <2>4, <2>5, <3>1, <4>1
        DEF RequestOK, KindOK, DisplacedOK, RequestState
    <3>2. CASE ~StillAttached(r)
      <4>1. ~\E p \in Projects \ {request[r].project} :
                phase[p] # "deleted" /\ client[p] = request[r].displaced
        BY <3>2 DEF StillAttached, Access!Attached, Access!Live
      <4> QED
        BY <1>1, <2>1, <2>3, <2>4, <2>5, <3>2, <4>1
        DEF RequestOK, KindOK, DisplacedOK, Access!Attached, Access!Live
    <3> QED
      BY <3>1, <3>2
  <2> QED
    BY <2>2, <2>3, <2>6, <2>7, <2>8, AloneStep DEF RequestOK
<1> QED
  BY <1>2, <1>3

LEMMA InsertStep ==
    ASSUME IInv, NEW r \in Requests, Insert(r)
    PROVE  IInv'
<1>1. CASE Reject(r)
  BY <1>1, EndStep DEF Reject, Rejected
<1>2. CASE Go(r, "commit") /\ request[r].user \notin members
  <2>1. /\ request'[r] \in RequestState
        /\ request'[r] = [request[r] EXCEPT !.at = "commit"]
        /\ request[r] \in RequestState
        /\ Alone(r)
    BY <1>2, GoType DEF Statements
  <2>2. RequestOK(r) /\ request[r].at = "insert"
    BY DEF IInv, Insert
  <2>3. RequestOK(r)'
    BY <1>2, <2>1, <2>2
    DEF Alone, rows, RequestOK, AssignOK, DisplacedOK, KindOK, RequestState
  <2>4. \A s \in Requests \ {r} : ~Writes(s, request[r].user)
    BY <2>2 DEF Insert, WaitsFor
  <2>5. NewLocksFree(r)
    BY <2>1, <2>2, <2>4, SentinelAssumption
    DEF NewLocksFree, HoldsProject, HoldsUpdate, HoldsShare, Provides, Writes,
        RequestState, RequestOK, KindOK
  <2> QED
    BY <2>1, <2>3, <2>5, AloneStep
<1> QED
  BY <1>1, <1>2 DEF Insert

-----------------------------------------------------------------------------
(* Commits *)

\* The three kinds of commit, as they change the rows.
Replaces(r) ==
    LET q == request[r] IN
    /\ q.kind = "assign"
    /\ client' = [client EXCEPT ![q.project] = q.user]
    /\ members' = IF q.outcome = "delete" THEN members \ {q.displaced} ELSE members

Removes(r) ==
    LET q == request[r] IN
    /\ q.kind = "remove"
    /\ q.outcome = "delete"
    /\ client' = client
    /\ members' = members \ {q.displaced}

Adds(r) ==
    LET q == request[r] IN
    /\ q.kind = "provision"
    /\ q.outcome = "none"
    /\ client' = client
    /\ members' = members \cup {q.user}

\* What becomes of the other requests when r commits.
Passes(r, s) ==
    IF request[r].outcome = "delete"
    THEN AfterDelete(s, request[r].displaced) ELSE request[s]

LEMMA CommitKinds ==
    ASSUME IInv, NEW r \in Requests, Commit(r)
    PROVE  /\ request[r].at = "commit"
           /\ phase' = phase
           /\ Replaces(r) \/ Removes(r) \/ Adds(r)
           /\ request'[r] = Idle
           /\ request' = [s \in Requests |-> request'[s]]
           /\ \A s \in Requests \ {r} : request'[s] = Passes(r, s)
<1>1. /\ request[r] \in RequestState
      /\ request[r].at = "commit"
      /\ KindOK(r)
  BY DEF IInv, TypeOK, RequestOK, Commit
<1>2. request[r].kind \in {"assign", "remove", "provision"}
  BY <1>1 DEF KindOK, RequestState
<1>3. Replaces(r) \/ Removes(r) \/ Adds(r)
  <2>1. CASE request[r].kind = "assign"
    BY <1>1, <2>1 DEF Commit, Replaces, RequestState
  <2>2. CASE request[r].kind = "remove"
    BY <1>1, <2>2 DEF Commit, Removes, KindOK
  <2>3. CASE request[r].kind = "provision"
    BY <1>1, <2>3 DEF Commit, Adds, KindOK
  <2> QED
    BY <1>2, <2>1, <2>2, <2>3
<1>4. request' = [s \in Requests |-> IF s = r THEN Idle ELSE Passes(r, s)]
  BY DEF Commit, Passes
<1> QED
  BY <1>1, <1>3, <1>4 DEF Commit

\* The row that a commit deletes is nobody's who is past its lock, and a project
\* that is locked by another request does not name it.
LEMMA DeletedRow ==
    ASSUME IInv, NEW r \in Requests, request[r].at = "commit",
           request[r].outcome = "delete", NEW s \in Requests \ {r}
    PROVE  /\ request[r].displaced \in Users
           /\ ~HoldsUpdate(s, request[r].displaced)
           /\ ~HoldsShare(s, request[r].displaced)
           /\ ~Provides(s, request[r].displaced)
           /\ request[s].kind = "assign" /\ request[s].at \notin {"idle", "lockProject"}
                => request[s].displaced # request[r].displaced
<1> DEFINE d == request[r].displaced
<1>1. d \in Users /\ d \in members
  BY DEF IInv, TypeOK, RequestOK, DisplacedOK
<1>2. HoldsUpdate(r, d)
  BY DEF HoldsUpdate
<1>3. LocksExclude(r, s) /\ RequestOK(s) /\ RequestOK(r)
  BY DEF IInv
<1>4. ~HoldsUpdate(s, d) /\ ~HoldsShare(s, d)
  BY <1>1, <1>2, <1>3 DEF LocksExclude
<1>5. ~Provides(s, d)
  BY <1>1, <1>3 DEF RequestOK, KindOK, Provides
<1>6. ASSUME request[s].kind = "assign", request[s].at \notin {"idle", "lockProject"},
             request[s].displaced = d
      PROVE  FALSE
  <2>1. /\ request[s].project \in Projects
        /\ phase[request[s].project] = "open"
        /\ client[request[s].project] = d
    BY <1>3, <1>6 DEF RequestOK, AssignOK
  <2>2. request[s].project # request[r].project
    BY <1>3, <1>6, <2>1 DEF LocksExclude, HoldsProject
  <2>3. ~Access!Attached(d, {request[r].project})
    BY <1>3 DEF RequestOK, DisplacedOK
  <2> QED
    BY <2>1, <2>2, <2>3 DEF Access!Attached, Access!Live
<1> QED
  BY <1>1, <1>4, <1>5, <1>6

\* Another request goes on as it was, or, if it waited for the deleted row, it
\* ends: only Remove waits for a row that may go.
LEMMA PassesKinds ==
    ASSUME IInv, NEW r \in Requests, request[r].at = "commit",
           NEW s \in Requests \ {r}
    PROVE  \/ Passes(r, s) = Idle
           \/ /\ Passes(r, s) = request[s]
              /\ request[r].outcome = "delete" =>
                    /\ ~(/\ request[s].at = "awaitShare"
                         /\ request[s].user = request[r].displaced)
                    /\ ~(/\ request[s].at = "awaitUpdate"
                         /\ request[s].displaced = request[r].displaced)
<1>1. CASE request[r].outcome # "delete"
  BY <1>1 DEF Passes
<1>2. CASE request[r].outcome = "delete"
  <2>1. CASE request[s].at = "awaitShare" /\ request[s].user = request[r].displaced
    BY <1>2, <2>1 DEF Passes, AfterDelete, Rejected
  <2>2. CASE request[s].at = "awaitUpdate" /\ request[s].displaced = request[r].displaced
    <3>1. request[s].kind = "remove"
      <4>1. request[s].kind # "assign"
        BY <1>2, <2>2, DeletedRow
      <4>2. request[s] \in RequestState /\ KindOK(s)
        BY DEF IInv, TypeOK, RequestOK
      <4> QED
        BY <2>2, <4>1, <4>2 DEF RequestState, KindOK
    <3> QED
      BY <1>2, <2>2, <3>1 DEF Passes, AfterDelete, WithoutRow, Rejected
  <2>3. CASE /\ ~(/\ request[s].at = "awaitShare"
                  /\ request[s].user = request[r].displaced)
             /\ ~(/\ request[s].at = "awaitUpdate"
                  /\ request[s].displaced = request[r].displaced)
    BY <1>2, <2>3 DEF Passes, AfterDelete
  <2> QED
    BY <2>1, <2>2, <2>3
<1> QED
  BY <1>1, <1>2

\* The client that a commit puts in place is a member, and not the displaced one.
LEMMA NewClient ==
    ASSUME IInv, NEW r \in Requests, request[r].at = "commit",
           request[r].kind = "assign"
    PROVE  /\ request[r].project \in Projects
           /\ request[r].user \in members \cup {NoUser}
           /\ request[r].user # request[r].displaced
           /\ request[r].displaced = client[request[r].project]
           /\ phase[request[r].project] = "open"
           /\ request[r].user \in Users => HoldsShare(r, request[r].user)
           /\ request[r].displaced \in Users => HoldsUpdate(r, request[r].displaced)
           /\ HoldsProject(r, request[r].project)
<1>1. AssignOK(r) /\ KindOK(r)
  BY DEF IInv, RequestOK
<1> QED
  BY <1>1, SentinelAssumption
  DEF AssignOK, KindOK, HoldsShare, HoldsUpdate, HoldsProject

LEMMA CommitClients ==
    ASSUME IInv, NEW r \in Requests, Commit(r)
    PROVE  ClientIsMember'
<1>1. /\ request[r].at = "commit"
      /\ phase' = phase
      /\ Replaces(r) \/ Removes(r) \/ Adds(r)
  BY CommitKinds
<1>2. request[r].outcome = "delete" =>
        \A p \in Projects \ {request[r].project} :
            phase[p] # "deleted" => client[p] # request[r].displaced
  BY DEF IInv, RequestOK, DisplacedOK, Access!Attached, Access!Live
<1>3. CASE Replaces(r)
  BY <1>1, <1>2, <1>3, NewClient
  DEF Replaces, IInv, TypeOK, ClientIsMember, Access!Live
<1>4. CASE Removes(r)
  <2>1. request[r].project \notin Projects
    BY <1>4, SentinelAssumption DEF Removes, IInv, RequestOK, KindOK
  <2> QED
    BY <1>1, <1>2, <1>4, <2>1 DEF Removes, IInv, ClientIsMember, Access!Live
<1>5. CASE Adds(r)
  BY <1>1, <1>5 DEF Adds, IInv, ClientIsMember, Access!Live
<1> QED
  BY <1>1, <1>3, <1>4, <1>5

\* What a request that is left alone by a commit relies on still holds.
LEMMA CommitOthers ==
    ASSUME IInv, NEW r \in Requests, Commit(r), NEW s \in Requests \ {r},
           request'[s] = request[s], Passes(r, s) = request[s],
           request[r].outcome = "delete" =>
                /\ ~(/\ request[s].at = "awaitShare"
                     /\ request[s].user = request[r].displaced)
                /\ ~(/\ request[s].at = "awaitUpdate"
                     /\ request[s].displaced = request[r].displaced)
    PROVE  RequestOK(s)'
<1> DEFINE d == request[r].displaced
           q == request[s]
<1>1. /\ request[r].at = "commit"
      /\ phase' = phase
      /\ Replaces(r) \/ Removes(r) \/ Adds(r)
  BY CommitKinds
<1>2. /\ RequestOK(s) /\ RequestOK(r)
      /\ LocksExclude(r, s) /\ LocksExclude(s, r)
      /\ q \in RequestState /\ request[r] \in RequestState
  BY DEF IInv, TypeOK
<1>3. \A u \in members : u \in members' \/ (request[r].outcome = "delete" /\ u = d)
  BY <1>1 DEF Replaces, Removes, Adds
<1>4. \A p \in Projects :
        \/ client'[p] = client[p]
        \/ /\ request[r].kind = "assign" /\ p = request[r].project
           /\ client'[p] = request[r].user /\ client[p] = d
  BY <1>1, NewClient DEF Replaces, Removes, Adds, IInv, TypeOK
<1>5. AssignOK(s)'
  <2>1. CASE q.kind # "assign"
    BY <2>1 DEF AssignOK
  <2>2. CASE q.kind = "assign"
    <3>1. q.at \notin {"idle", "lockProject"} =>
            client'[q.project] = client[q.project]
      BY <1>1, <1>2, <1>4, <2>2, NewClient
      DEF RequestOK, AssignOK, LocksExclude, HoldsProject
    <3>2. q.at \in {"lockDisplaced", "awaitUpdate", "checkProjects", "commit"} =>
            q.user \in members' \cup {NoUser}
      <4>1. q.at \in {"lockDisplaced", "awaitUpdate", "checkProjects", "commit"} =>
                HoldsShare(s, q.user)
        BY <2>2 DEF HoldsShare
      <4> QED
        BY <1>1, <1>2, <1>3, <2>2, <4>1, DeletedRow DEF RequestOK, AssignOK
    <3>3. q.at = "awaitShare" => q.user \in members' \cup {NoUser}
      BY <1>2, <1>3, <2>2 DEF RequestOK, AssignOK
    <3> QED
      BY <1>1, <1>2, <2>2, <3>1, <3>2, <3>3 DEF RequestOK, AssignOK
  <2> QED
    BY <2>1, <2>2
<1>6. DisplacedOK(s)'
  <2>1. q.at \in {"awaitUpdate", "checkProjects"} => q.displaced \in members'
    BY <1>1, <1>2, <1>3, DeletedRow DEF RequestOK, DisplacedOK, HoldsUpdate
  <2>2. q.outcome # "none" =>
            /\ q.at = "commit" /\ q.displaced \in members /\ q.displaced \in Users
            /\ HoldsUpdate(s, q.displaced)
    BY <1>2 DEF RequestOK, DisplacedOK, HoldsUpdate, IInv, TypeOK
  <2>3. q.outcome # "none" => q.displaced \in members'
    BY <1>1, <1>3, <2>2, DeletedRow
  <2>4. q.outcome = "keep" =>
            \E p \in Projects \ {q.project} : client'[p] = q.displaced
    <3>1. SUFFICES ASSUME q.outcome = "keep"
                   PROVE  \E p \in Projects \ {q.project} : client'[p] = q.displaced
      OBVIOUS
    <3>2. PICK p \in Projects \ {q.project} : client[p] = q.displaced
      BY <1>2, <3>1 DEF RequestOK, DisplacedOK
    <3>3. request[r].kind = "assign" => d # q.displaced
      BY <1>1, <1>2, <2>2, <3>1, NewClient DEF LocksExclude
    <3> QED
      BY <1>4, <3>2, <3>3
  <2>5. q.outcome = "delete" =>
            \A p \in Projects \ {q.project} :
                phase[p] # "deleted" => client'[p] # q.displaced
    <3>1. SUFFICES ASSUME q.outcome = "delete", NEW p \in Projects \ {q.project},
                          phase[p] # "deleted"
                   PROVE  client'[p] # q.displaced
      OBVIOUS
    <3>2. client[p] # q.displaced
      BY <1>2, <3>1 DEF RequestOK, DisplacedOK, Access!Attached, Access!Live
    <3>3. request[r].kind = "assign" => request[r].user # q.displaced
      BY <1>1, <1>2, <2>2, <3>1, NewClient DEF LocksExclude
    <3> QED
      BY <1>4, <3>2, <3>3
  <2> QED
    BY <1>1, <1>2, <2>1, <2>2, <2>3, <2>4, <2>5
    DEF RequestOK, DisplacedOK, Access!Attached, Access!Live
<1>7. KindOK(s)'
  <2>1. q.kind = "provision" /\ q.at = "commit" => q.user \notin members'
    BY <1>1, <1>2
    DEF RequestOK, KindOK, Replaces, Removes, Adds, LocksExclude, Provides
  <2> QED
    BY <1>2, <2>1 DEF RequestOK, KindOK
<1> QED
  BY <1>5, <1>6, <1>7 DEF RequestOK

LEMMA CommitStep ==
    ASSUME IInv, NEW r \in Requests, Commit(r)
    PROVE  IInv'
<1>1. /\ request[r].at = "commit"
      /\ phase' = phase
      /\ Replaces(r) \/ Removes(r) \/ Adds(r)
      /\ request'[r] = Idle
      /\ request' = [s \in Requests |-> request'[s]]
  BY CommitKinds
<1>2. \A s \in Requests \ {r} : request'[s] = Idle \/ request'[s] = request[s]
  BY <1>1, CommitKinds, PassesKinds
<1>3. TypeOK'
  <2>1. \A s \in Requests : request'[s] \in RequestState
    BY <1>1, <1>2, IdleType DEF IInv, TypeOK
  <2>2. request' \in [Requests -> RequestState]
    BY <1>1, <2>1
  <2>3. client' \in [Projects -> Users \cup {NoUser}] /\ members' \in SUBSET Users
    BY <1>1 DEF IInv, TypeOK, RequestState, Replaces, Removes, Adds, RequestOK, KindOK
  <2> QED
    BY <1>1, <2>2, <2>3 DEF IInv, TypeOK
<1>4. ASSUME NEW s \in Requests PROVE RequestOK(s)'
  <2>1. CASE request'[s] = Idle
    BY <2>1 DEF RequestOK, AssignOK, DisplacedOK, KindOK, Idle
  <2>2. CASE s # r /\ request'[s] # Idle
    <3>1. request'[s] = Passes(r, s)
      BY <2>2, CommitKinds
    <3> QED
      BY <1>1, <2>2, <3>1, PassesKinds, CommitOthers
  <2> QED
    BY <1>1, <2>1, <2>2
<1>5. ASSUME NEW s \in Requests, NEW t \in Requests, s # t
      PROVE  LocksExclude(s, t)'
  <2>1. \A x \in Requests :
          /\ \A p : HoldsProject(x, p)' => HoldsProject(x, p)
          /\ \A u : /\ HoldsUpdate(x, u)' => HoldsUpdate(x, u)
                    /\ HoldsShare(x, u)' => HoldsShare(x, u)
                    /\ Provides(x, u)' => Provides(x, u)
    BY <1>1, <1>2 DEF HoldsProject, HoldsUpdate, HoldsShare, Provides, Idle
  <2>2. LocksExclude(s, t)
    BY <1>5 DEF IInv
  <2> QED
    BY <2>1, <2>2 DEF LocksExclude
<1> QED
  BY <1>3, <1>4, <1>5, CommitClients DEF IInv

LEMMA ChangePhaseStep ==
    ASSUME IInv, NEW p \in Projects, NEW next \in Access!Phases, ChangePhase(p, next)
    PROVE  IInv'
<1>1. /\ phase' = [phase EXCEPT ![p] = next]
      /\ client' = client /\ members' = members /\ request' = request
      /\ \A r \in Requests : ~HoldsProject(r, p)
  BY DEF ChangePhase
<1>2. phase[p] # "deleted"
  BY DEF ChangePhase, Access!PhaseTransitions
<1>3. \A q \in Projects : phase'[q] # "deleted" => phase[q] # "deleted"
  BY <1>1, <1>2 DEF IInv, TypeOK
<1>4. TypeOK' /\ ClientIsMember'
  BY <1>1, <1>3 DEF IInv, TypeOK, ClientIsMember, Access!Live
<1>5. ASSUME NEW r \in Requests PROVE RequestOK(r)'
  <2>1. RequestOK(r)
    BY DEF IInv
  <2>2. AssignOK(r)'
    BY <1>1, <2>1 DEF RequestOK, AssignOK, HoldsProject, IInv, TypeOK
  <2>3. DisplacedOK(r)'
    BY <1>1, <1>3, <2>1 DEF RequestOK, DisplacedOK, Access!Attached, Access!Live
  <2>4. KindOK(r)'
    BY <1>1, <2>1 DEF RequestOK, KindOK
  <2> QED
    BY <2>2, <2>3, <2>4 DEF RequestOK
<1>6. \A r, s \in Requests : r # s => LocksExclude(r, s)'
  BY <1>1
  DEF IInv, LocksExclude, HoldsProject, HoldsUpdate, HoldsShare, Provides
<1> QED
  BY <1>4, <1>5, <1>6 DEF IInv

LEMMA StepIInv == IInv /\ [Next]_vars => IInv'
<1> SUFFICES ASSUME IInv, [Next]_vars PROVE IInv'
  OBVIOUS
<1>1. CASE UNCHANGED vars
  BY <1>1
  DEF vars, IInv, TypeOK, ClientIsMember, RequestOK, AssignOK, DisplacedOK,
      KindOK, LocksExclude, HoldsProject, HoldsUpdate, HoldsShare, Provides,
      Access!Attached, Access!Live
<1>2. ASSUME NEW r \in Requests, Abort(r)
      PROVE  IInv'
  BY <1>2, EndStep DEF Abort
<1>3. ASSUME NEW r \in Requests, RequestBegins(r) \/ Proceeds(r) \/ IsGranted(r)
      PROVE  IInv'
  BY <1>3, BeginStep, CheckClientStep, LockDisplacedStep, CheckProjectsStep,
     CommitStep, LockProjectStep, GrantShareStep, GrantUpdateStep, InsertStep
  DEF Proceeds, IsGranted
<1> QED
  BY <1>1, <1>2, <1>3, ChangePhaseStep DEF Next

LEMMA InductiveInvariant == Spec => []IInv
  BY InitIInv, StepIInv, PTL DEF Spec

-----------------------------------------------------------------------------
(* What follows *)

\* Every reachable state is well typed.
THEOREM TypeCorrect == Spec => []TypeOK
<1>1. IInv => TypeOK
  BY DEF IInv
<1> QED
  BY <1>1, InductiveInvariant, PTL

\* The client of a live project is a member, however many assignments, prunes,
\* removals and provisions interleave.
THEOREM ClientIsMemberCorrect == Spec => []ClientIsMember
<1>1. IInv => ClientIsMember
  BY DEF IInv
<1> QED
  BY <1>1, InductiveInvariant, PTL

\* A commit is one operation of ClientAccess.
LEMMA CommitRefines ==
    ASSUME IInv, NEW r \in Requests, Commit(r)
    PROVE  Access!Next
<1> DEFINE q == request[r]
<1>1. /\ q.at = "commit"
      /\ phase' = phase
      /\ Replaces(r) \/ Removes(r) \/ Adds(r)
      /\ RequestOK(r)
      /\ q \in RequestState
  BY CommitKinds DEF IInv, TypeOK
<1>2. CASE Replaces(r)
  <2>1. /\ q.project \in Projects /\ q.user \in Users \cup {NoUser}
        /\ phase[q.project] = "open"
        /\ q.user # client[q.project]
        /\ q.user \in members \cup {NoUser}
        /\ q.displaced = client[q.project]
    BY <1>1, <1>2, NewClient DEF Replaces, RequestState
  <2>2. \/ /\ members' = members
           /\ \/ q.displaced = NoUser
              \/ \E p \in Projects \ {q.project} : client[p] = q.displaced
        \/ /\ members' = members \ {q.displaced}
           /\ q.displaced # NoUser /\ ~Access!Attached(q.displaced, {q.project})
    BY <1>1, <1>2, SentinelAssumption
    DEF Replaces, RequestOK, DisplacedOK, KindOK, RequestState, IInv, TypeOK
  <2>3. Access!ChangeClient(q.project, q.user)
    BY <1>1, <1>2, <2>1, <2>2 DEF Replaces, Access!ChangeClient
  <2> QED
    BY <2>1, <2>3 DEF Access!Next
<1>3. CASE Removes(r)
  <2>1. /\ q.displaced \in members /\ q.displaced \in Users
        /\ ~Access!Attached(q.displaced, {})
    BY <1>1, <1>3, SentinelAssumption
    DEF Removes, RequestOK, DisplacedOK, KindOK, Access!Attached, IInv, TypeOK
  <2>2. Access!Remove(q.displaced)
    BY <1>1, <1>3, <2>1 DEF Removes, Access!Remove
  <2> QED
    BY <2>1, <2>2 DEF Access!Next
<1>4. CASE Adds(r)
  <2>1. q.user \in Users /\ q.user \notin members
    BY <1>1, <1>4 DEF Adds, RequestOK, KindOK
  <2>2. Access!Provision(q.user)
    BY <1>1, <1>4, <2>1 DEF Adds, Access!Provision
  <2> QED
    BY <2>1, <2>2 DEF Access!Next
<1> QED
  BY <1>1, <1>2, <1>3, <1>4

\* Every statement but the commits is a stutter of ClientAccess.
LEMMA StepRefines ==
    ASSUME IInv, [Next]_vars
    PROVE  [Access!Next]_(Access!vars)
<1>1. CASE UNCHANGED rows
  BY <1>1 DEF rows, Access!vars
<1>2. ASSUME NEW r \in Requests,
             RequestBegins(r) \/ Proceeds(r) \/ IsGranted(r) \/ Abort(r)
      PROVE  UNCHANGED rows \/ Commit(r)
  BY <1>2
  DEF RequestBegins, BeginAssign, BeginRemove, BeginProvision, Begin, Proceeds,
      IsGranted, Abort, CheckClient, LockDisplaced, CheckProjects, LockProject,
      GrantShare, GrantUpdate, Insert, Go, Reject
<1>3. ASSUME NEW p \in Projects, NEW next \in Access!Phases, ChangePhase(p, next)
      PROVE  Access!Next
  BY <1>3 DEF ChangePhase, Access!ChangePhase, Access!Next
<1> QED
  BY <1>1, <1>2, <1>3, CommitRefines DEF Next, vars, rows

\* Each transaction takes effect at its commit as one step of ClientAccess, for
\* any number of projects, users and requests in flight.
THEOREM ImplementsAccessCorrect == Spec => ImplementsAccess
<1>1. Init => Access!Init
  BY DEF Init, Access!Init
<1> QED
  BY <1>1, StepRefines, InductiveInvariant, PTL DEF Spec, ImplementsAccess, Access!Spec
-----------------------------------------------------------------------------
(* Deadlocks *)

\* Who waits for whom.  Requests that hold the lock of a membership row FOR
\* UPDATE, or have written one, wait for nothing any more.
LEMMA Waits ==
    ASSUME IInv, NEW S \in SUBSET Requests, DeadlockedSet(S), NEW r \in S
    PROVE  /\ request[r].at \in {"lockProject", "awaitUpdate"}
           /\ \E s \in S :
                /\ request[s].at = "awaitUpdate"
                /\ request[r].at = "awaitUpdate" =>
                    /\ request[s].kind = "assign"
                    /\ request[s].user = request[r].displaced
<1>1. \A q \in S :
        request[q].at \in {"lockProject", "awaitShare", "awaitUpdate", "insert"}
  BY DEF DeadlockedSet, WaitsFor
<1>2. \A q \in S : request[q].at \notin {"awaitShare", "insert"}
  BY <1>1 DEF DeadlockedSet, WaitsFor, HoldsUpdate, Writes
<1>3. PICK s \in S : s \in WaitsFor(r)
  BY DEF DeadlockedSet
<1>4. CASE request[r].at = "lockProject"
  BY <1>1, <1>2, <1>3, <1>4 DEF WaitsFor, HoldsProject
<1>5. CASE request[r].at = "awaitUpdate"
  BY <1>1, <1>2, <1>3, <1>5 DEF WaitsFor, HoldsUpdate, HoldsShare
<1> QED
  BY <1>1, <1>2, <1>4, <1>5

\* At the core of every deadlock is an exchange of clients among projects,
\* however many requests are in flight: the assignments of a deadlocked set
\* that wait for a displaced client wait for each other.
THEOREM DeadlocksAreSwapsCorrect == Spec => []DeadlocksAreSwaps
<1>1. ASSUME IInv, NEW S \in SUBSET Requests, DeadlockedSet(S)
      PROVE  \E T \in SUBSET S :
                /\ DeadlockedSet(T)
                /\ \A r \in T :
                    /\ request[r].kind = "assign"
                    /\ request[r].at = "awaitUpdate"
                    /\ request[r].user # request[r].displaced
                    /\ \E s \in T : request[s].user = request[r].displaced
  <2> DEFINE T == {r \in S : request[r].kind = "assign"
                             /\ request[r].at = "awaitUpdate"}
  <2>1. \A r \in S : request[r].at = "awaitUpdate" =>
            \E s \in T : request[s].user = request[r].displaced
    BY <1>1, Waits
  <2>2. T # {}
    <3>1. PICK r \in S : TRUE
      BY <1>1 DEF DeadlockedSet
    <3>2. PICK s \in S : request[s].at = "awaitUpdate"
      BY <1>1, <3>1, Waits
    <3> QED
      BY <2>1, <3>2
  <2>3. \A r \in T : request[r].user # request[r].displaced
    BY <1>1 DEF IInv, RequestOK, AssignOK
  <2>4. ASSUME NEW r \in T, NEW s \in T, request[s].user = request[r].displaced
        PROVE  s \in WaitsFor(r)
    BY <2>3, <2>4 DEF WaitsFor, HoldsShare
  <2>5. DeadlockedSet(T)
    BY <2>1, <2>2, <2>4 DEF DeadlockedSet
  <2> QED
    BY <2>1, <2>3, <2>5
<1>2. IInv => DeadlocksAreSwaps
  BY <1>1 DEF DeadlocksAreSwaps
<1> QED
  BY <1>2, InductiveInvariant, PTL
=============================================================================
