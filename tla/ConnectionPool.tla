--------------------------- MODULE ConnectionPool ---------------------------
(***************************************************************************)
(* The database connections of one server process: the pool of             *)
(* pkg/db/db.go, the middlewares that query it before a handler runs, and  *)
(* the transactions of the handlers, some of which ask the pool for a      *)
(* second connection while they have one.                                  *)
(*                                                                         *)
(* A statement that runs on the pool waits until a connection is free.     *)
(* The wait in a middleware is bounded by the request alone, the wait in a *)
(* service by WithDBTimeout too.  Which rows a statement reads is left     *)
(* out, except for the project row that every mutation of a project locks  *)
(* first.                                                                  *)
(***************************************************************************)
EXTENDS Integers, FiniteSets

CONSTANTS
    Requests,  \* the requests that may be served at a time
    Projects,  \* the projects they may mutate
    MaxOpen,   \* SetMaxOpenConns
    NoProject

\* A transaction with a nested query needs two connections by itself.
ASSUME MaxOpenAssumption == MaxOpen \in Nat /\ MaxOpen >= 2

ASSUME SentinelAssumption == NoProject \notin Projects

ASSUME RequestsAssumption == IsFiniteSet(Requests)

VARIABLES
    at,       \* what a request executes next
    kind,     \* what its handler does
    project,  \* the project whose row its handler locks
    conn      \* how many connections it has

vars == <<at, kind, project, conn>>

-----------------------------------------------------------------------------
Gates == {"auth", "org", "access", "rbac", "decision"}

Kinds ==
    {"query",           \* one statement on the pool: the reads
     "mutation",        \* a transaction that locks the project row first
     "update",          \* one that may read the row again after the commit
     "nestedMutation",  \* an update that queries the pool under the row lock:
                        \* UpdateMilestone, and the denied decisions of
                        \* ensureActorProjectAccessInTx
     "nestedRead"}      \* a transaction that locks no project and queries the
                        \* pool: assignment.GetByID, and ChangePassword, which
                        \* reads the hash on the pool before

LocksRow == {"mutation", "update", "nestedMutation"}

Statements == Gates \cup {"query", "lock", "nested", "commit"}

\* Mutant: the audit row of a transaction is written on the pool.
NeedsWithAuditOnPool(s) ==
    IF s \in {"nested", "commit"} THEN 2 ELSE IF s = "idle" THEN 0 ELSE 1

\* The connections that a statement runs with: the nested one has its own
\* next to that of its transaction.
Needs(s) == IF s = "nested" THEN 2 ELSE IF s = "idle" THEN 0 ELSE 1

Init ==
    /\ at = [r \in Requests |-> "idle"]
    /\ kind = [r \in Requests |-> "none"]
    /\ project = [r \in Requests |-> NoProject]
    /\ conn = [r \in Requests |-> 0]

Connections == {c \in Requests \X {1, 2} : c[2] <= conn[c[1]]}

InUse == Cardinality(Connections)

TypeOK ==
    /\ at \in [Requests -> Statements \cup {"idle"}]
    /\ kind \in [Requests -> Kinds \cup {"none"}]
    /\ project \in [Requests -> Projects \cup {NoProject}]
    /\ conn \in [Requests -> 0 .. 2]
    /\ \A r \in Requests : conn[r] <= Needs(at[r])
    /\ InUse <= MaxOpen

HoldsRow(r, p) ==
    /\ kind[r] \in LocksRow
    /\ project[r] = p
    /\ at[r] \in {"nested", "commit"}

RowFree(p) == \A r \in Requests : ~HoldsRow(r, p)

-----------------------------------------------------------------------------
\* r gives back all its connections but c and goes on with s.
Goto(r, s, c) ==
    /\ at' = [at EXCEPT ![r] = s]
    /\ conn' = [conn EXCEPT ![r] = c]

\* Mutant: a transaction that fails is not rolled back.
EndWithoutRollback(r) ==
    /\ Goto(r, "idle", conn[r])
    /\ kind' = [kind EXCEPT ![r] = "none"]
    /\ project' = [project EXCEPT ![r] = NoProject]

\* The response is sent; a transaction that did not commit is rolled back.
End(r) ==
    /\ Goto(r, "idle", 0)
    /\ kind' = [kind EXCEPT ![r] = "none"]
    /\ project' = [project EXCEPT ![r] = NoProject]

NextGate(r, s) == Goto(r, s, 0) /\ UNCHANGED <<kind, project>>

\* A handler begins: with BEGIN and SELECT ... FOR UPDATE, with a statement on
\* the pool, or with BEGIN and one.
Handle(r) ==
    \/ \E k \in LocksRow, p \in Projects :
        /\ Goto(r, "lock", 0)
        /\ kind' = [kind EXCEPT ![r] = k]
        /\ project' = [project EXCEPT ![r] = p]
    \/ /\ Goto(r, "query", 0)
       /\ \E k \in {"query", "nestedRead"} : kind' = [kind EXCEPT ![r] = k]
       /\ UNCHANGED project
    \/ /\ Goto(r, "nested", 0)
       /\ kind' = [kind EXCEPT ![r] = "nestedRead"]
       /\ UNCHANGED project

\* Protected routes start with RequireAuth, the others with their handler.
Arrive(r) ==
    /\ at[r] = "idle"
    /\ NextGate(r, "auth") \/ Handle(r)

\* The pool gives a connection to one of the requests that wait for one.
Acquire(r) ==
    /\ conn[r] < Needs(at[r])
    /\ InUse < MaxOpen
    /\ conn' = [conn EXCEPT ![r] = @ + 1]
    /\ UNCHANGED <<at, kind, project>>

\* r has the connections for its statement.
Runs(r, s) == at[r] = s /\ conn[r] = Needs(s)

-----------------------------------------------------------------------------
(* The middlewares; each may refuse the request *)

\* The routes of the user's own account have no further gate.
RequireAuth(r) ==
    /\ Runs(r, "auth")
    /\ NextGate(r, "org") \/ Handle(r) \/ End(r)

LoadOrg(r) ==
    /\ Runs(r, "org")
    /\ NextGate(r, "access") \/ End(r)

RequireMembership(r) ==
    /\ Runs(r, "access")
    /\ NextGate(r, "rbac") \/ End(r)

\* Allowed or denied, the decision is recorded; a failed query records none.
RequirePermission(r) ==
    /\ Runs(r, "rbac")
    /\ NextGate(r, "decision") \/ End(r)

RecordDecision(r) ==
    /\ Runs(r, "decision")
    /\ Handle(r) \/ End(r)

-----------------------------------------------------------------------------
(* The handlers *)

\* A read of several statements takes a connection for each.
Query(r) ==
    /\ Runs(r, "query")
    /\ \/ /\ Goto(r, IF kind[r] = "nestedRead" THEN "nested" ELSE "query", 0)
          /\ UNCHANGED <<kind, project>>
       \/ End(r)

\* The row may be missing, or frozen.
LockProject(r) ==
    /\ Runs(r, "lock")
    /\ RowFree(project[r])
    /\ \/ /\ Goto(r, IF kind[r] = "nestedMutation" THEN "nested" ELSE "commit", 1)
          /\ UNCHANGED <<kind, project>>
       \/ End(r)

\* The nested statement ends and gives its connection back; what it returns may
\* roll the transaction back.
Nested(r) ==
    /\ Runs(r, "nested")
    /\ \/ Goto(r, "commit", 1) /\ UNCHANGED <<kind, project>>
       \/ End(r)

\* The remaining statements of the transaction and its commit.  Update,
\* UpdateMilestone and SetProjectRevisionLimit then read the row on the pool,
\* unless there was nothing to change.
Commit(r) ==
    /\ Runs(r, "commit")
    /\ \/ End(r)
       \/ /\ kind[r] \in {"update", "nestedMutation"}
          /\ Goto(r, "query", 0)
          /\ kind' = [kind EXCEPT ![r] = "query"]
          /\ project' = [project EXCEPT ![r] = NoProject]

\* Mutant: the query under the row lock is given a context without the timeout.
TimedExceptNested == {"query", "lock", "commit"}

\* The statements of the services, with or without a connection.
Timed == {"query", "lock", "nested", "commit"}

\* WithDBTimeout passes.
Timeout(r) == at[r] \in Timed /\ End(r)

\* The client goes away and cancels the context of the request.
Disconnect(r) == at[r] # "idle" /\ End(r)

-----------------------------------------------------------------------------
\* Statements that wait for nothing.
Proceed(r) ==
    \/ RequireAuth(r)
    \/ LoadOrg(r)
    \/ RequireMembership(r)
    \/ RequirePermission(r)
    \/ RecordDecision(r)
    \/ Query(r)
    \/ Nested(r)
    \/ Commit(r)

\* Statements that wait for a connection or for a row.
IsGranted(r) == Acquire(r) \/ LockProject(r)

Next ==
    \E r \in Requests :
        \/ Arrive(r)
        \/ Proceed(r)
        \/ IsGranted(r)
        \/ Timeout(r)
        \/ Disconnect(r)

Spec == Init /\ [][Next]_vars

\* A statement with all it needs is executed, the pool and the row lock pass
\* nobody over for ever, and the timeout is a timer of the runtime.  Nobody has
\* to arrive or to go away.
Fairness ==
    \A r \in Requests :
        /\ WF_vars(Proceed(r))
        /\ SF_vars(IsGranted(r))
        /\ WF_vars(Timeout(r))

FairSpec == Spec /\ Fairness

-----------------------------------------------------------------------------
(* Properties *)

AwaitsConnection(r) == conn[r] < Needs(at[r]) /\ InUse >= MaxOpen

AwaitsRow(r) == Runs(r, "lock") /\ ~RowFree(project[r])

\* Requests are being served and each of them waits for a connection or for a
\* row: nothing but timeouts and disconnects goes on.
Stalled ==
    /\ \E r \in Requests : at[r] # "idle"
    /\ \A r \in Requests :
        at[r] # "idle" => AwaitsConnection(r) \/ AwaitsRow(r)

\* The server stalls only through a query on the pool inside a transaction: the
\* connections are then all with transactions that wait for their second one,
\* or for the project row of such a transaction.  Without nested queries no
\* load, however large, needs the timeout to go on.
StallsNeedNesting ==
    Stalled =>
        /\ \E r \in Requests : at[r] = "nested"
        /\ \A r \in Requests :
            conn[r] > 0 =>
                \/ at[r] = "nested"
                \/ /\ at[r] = "lock"
                   /\ \E q \in Requests :
                        at[q] = "nested" /\ HoldsRow(q, project[r])

\* A stall takes as many transactions as the pool has connections, one for each:
\* the service stays clear of the timeout as long as fewer than MaxOpen of its
\* transactions run at once.
StallsTakeTheWholePool ==
    Stalled =>
        Cardinality({r \in Requests : at[r] # "idle" /\ conn[r] > 0}) = MaxOpen

\* Every request is answered, also those that wait in a middleware, where no
\* timeout helps, while the handlers before them stall.
RequestsEnd ==
    \A r \in Requests : at[r] # "idle" ~> at[r] = "idle"
=============================================================================
