------------------------------ MODULE Sessions ------------------------------
(***************************************************************************)
(* The sessions and credentials of users: Register, Login, RefreshToken,   *)
(* Logout and LogoutAllDevices of auth.Service, ChangePassword of          *)
(* user.Service, Provision (of a new user) and ResetCredential of          *)
(* client.Service, as concurrent PostgreSQL transactions at READ COMMITTED.*)
(*                                                                         *)
(* session, password and mustChange are the committed rows.  A request     *)
(* collects row locks and publishes its writes by Commit.                  *)
(*                                                                         *)
(* UPDATE sessions ... WHERE revoked = false is one step that takes the    *)
(* snapshot of the rows to update, then one step per row, in an order the  *)
(* planner chooses: the row is locked, and looked at again once the lock   *)
(* is granted.  A row that was committed after the snapshot is not found.  *)
(*                                                                         *)
(* Passwords are "chosen" by their owner or "issued" as a one-time         *)
(* credential; that a presented one is right is an input.  INSERTs with a  *)
(* foreign key to users do not conflict with UPDATEs of its other columns, *)
(* so Register, Login and Provision, which lock and change no row that     *)
(* exists, are one step.                                                   *)
(***************************************************************************)
EXTENDS FiniteSets, Naturals

CONSTANTS
    Users,      \* the people with, or without yet, a user row
    Sessions,   \* sessions ever created: the bound of every run
    Requests,   \* requests in flight at a time
    NoUser, NoSession

ASSUME SentinelAssumption == NoUser \notin Users /\ NoSession \notin Sessions

VARIABLES
    session,     \* the sessions table
    password,    \* users.password_hash: whose the password is
    mustChange,  \* users.must_change_password
    request      \* the requests in flight

rows == <<session, password, mustChange>>
vars == <<session, password, mustChange, request>>

SessionRow ==
    [status : {"none", "active", "revoked"},
     user   : Users \cup {NoUser},
     family : Sessions \cup {NoSession}]  \* the session its lineage began with

NoRow == [status |-> "none", user |-> NoUser, family |-> NoSession]

Operations ==
    {"none", "refresh", "reuse", "logout", "logoutAll", "change", "reset"}

\* The operations that revoke more than the session of their token.
Revocations == {"reuse", "logoutAll", "change", "reset"}

Statements ==
    {"idle",
     "token",     \* SELECT ... WHERE token_lookup_hash FOR UPDATE waits
     "password",  \* UpdatePasswordHash waits, outside the transaction
     "user",      \* UPDATE users waits
     "revoke",    \* the UPDATE of sessions is next
     "row",       \* the UPDATE of sessions waits for one of its rows
     "commit"}

RequestState ==
    [op     : Operations,
     at     : Statements,
     user   : Users \cup {NoUser},
     token  : Sessions \cup {NoSession},  \* of the cookie or the access token
     wants  : Sessions \cup {NoSession},  \* the session row it waits for
     todo   : SUBSET Sessions,            \* rows its UPDATE has still to visit
     locked : SUBSET Sessions,            \* session rows it has locked
     due    : SUBSET Sessions]            \* history: see Promised

TypeOK ==
    /\ session \in [Sessions -> SessionRow]
    /\ password \in [Users -> {"none", "chosen", "issued"}]
    /\ mustChange \in [Users -> BOOLEAN]
    /\ request \in [Requests -> RequestState]

Idle ==
    [op |-> "none", at |-> "idle", user |-> NoUser, token |-> NoSession,
     wants |-> NoSession, todo |-> {}, locked |-> {}, due |-> {}]

Exists(s) == session[s].status # "none"
Active(s) == session[s].status = "active"
SameLineage(s, t) == session[s].family = session[t].family

-----------------------------------------------------------------------------
(* Locks *)

\* Mutant: the token's session is read without FOR UPDATE.
HoldsOnlyUpdatedRows(r, s) == s \in request[r].locked \ {request[r].token}

HoldsSession(r, s) == s \in request[r].locked

\* UPDATE users in the transaction: RotateCredential, or the one that lifts
\* the gate.
HoldsUser(r, u) ==
    /\ request[r].op \in {"change", "reset"}
    /\ request[r].user = u
    /\ request[r].at \in {"revoke", "row", "commit"}

\* The requests whose end the statement of r waits for.
WaitsFor(r) ==
    {q \in Requests \ {r} :
        \/ request[r].at \in {"token", "row"} /\ HoldsSession(q, request[r].wants)
        \/ request[r].at \in {"password", "user"} /\ HoldsUser(q, request[r].user)}

\* A set of requests none of which can go on before another of them ends.
DeadlockedSet(S) ==
    /\ S # {}
    /\ \A r \in S : WaitsFor(r) \cap S # {}

-----------------------------------------------------------------------------
(* Which sessions an operation is about *)

\* Mutant: logout-all revokes the lineage of its session only.
ScopeWithinLineage(q) ==
    {s \in Sessions :
        /\ Exists(s)
        /\ \/ q.op \in {"refresh", "logout"} /\ s = q.token
           \/ q.op \in {"reuse", "logoutAll"} /\ SameLineage(s, q.token)
           \/ q.op \in {"change", "reset"} /\ session[s].user = q.user
           /\ ~(q.op = "change" /\ s = q.token)}

\* Mutant: a logout-all revokes the sessions of everybody.
ScopeOfEverybody(q) ==
    {s \in Sessions :
        /\ Exists(s)
        /\ \/ q.op \in {"refresh", "logout"} /\ s = q.token
           \/ q.op = "reuse" /\ SameLineage(s, q.token)
           \/ q.op = "logoutAll"
           \/ q.op \in {"change", "reset"} /\ session[s].user = q.user /\ s # q.token}

\* The WHERE clause of the operation's UPDATE, without revoked = false.
Scope(q) ==
    {s \in Sessions :
        /\ Exists(s)
        /\ \/ q.op \in {"refresh", "logout"} /\ s = q.token
           \/ q.op = "reuse" /\ SameLineage(s, q.token)
           \/ q.op \in {"logoutAll", "reset"} /\ session[s].user = q.user
           \/ q.op = "change" /\ session[s].user = q.user /\ s # q.token}

\* Mutant: the UPDATE visits revoked sessions, too.
EveryRow(q) == Scope(q)

RowsToUpdate(q) == {s \in Scope(q) : Active(s)}

\* What a revocation is expected to revoke: the sessions that are active when
\* it holds its token or its user row.
Promised(op, u, s) ==
    {t \in Sessions :
        /\ Active(t)
        /\ CASE op = "reuse" -> SameLineage(t, s)
             [] op = "change" -> session[t].user = u /\ t # s
             [] op \in {"logoutAll", "reset"} -> session[t].user = u}

-----------------------------------------------------------------------------
Init ==
    /\ session = [s \in Sessions |-> NoRow]
    /\ password = [u \in Users |-> "none"]
    /\ mustChange = [u \in Users |-> FALSE]
    /\ request = [r \in Requests |-> Idle]

Go(r, q) ==
    /\ request' = [request EXCEPT ![r] = q]
    /\ UNCHANGED rows

\* A request that is rejected, or has nothing to do, releases its locks.
Reject(r) == Go(r, Idle)

-----------------------------------------------------------------------------
(* Operations of one step *)

\* createSession: a lineage of its own.
CreateSession(s, u) ==
    /\ ~Exists(s)
    /\ session' = [session EXCEPT ![s] =
            [status |-> "active", user |-> u, family |-> s]]

Register(u, s) ==
    /\ password[u] = "none"
    /\ password' = [password EXCEPT ![u] = "chosen"]
    /\ CreateSession(s, u)
    /\ UNCHANGED <<mustChange, request>>

\* The one-time credential of a new client: no session yet.
Provision(u) ==
    /\ password[u] = "none"
    /\ password' = [password EXCEPT ![u] = "issued"]
    /\ mustChange' = [mustChange EXCEPT ![u] = TRUE]
    /\ UNCHANGED <<session, request>>

Login(u, s) ==
    /\ password[u] # "none"
    /\ CreateSession(s, u)
    /\ UNCHANGED <<password, mustChange, request>>

-----------------------------------------------------------------------------
(* Requests begin *)

Begin(r, op, statement, u, s) ==
    /\ request[r].at = "idle"
    /\ Go(r, [Idle EXCEPT
            !.op = op, !.at = statement, !.user = u, !.token = s,
            !.wants = IF statement = "token" THEN s ELSE NoSession])

\* The cookie-authenticated routes: whoever has the token may present it, any
\* number of times.
BeginWithToken(r, op, s) ==
    /\ op \in {"refresh", "logout", "logoutAll"}
    /\ Exists(s)
    /\ Begin(r, op, "token", session[s].user, s)

\* RequireAuth and GetPasswordHash have been passed.
BeginChange(r, s) ==
    /\ Active(s)
    /\ Begin(r, "change", "password", session[s].user, s)

\* GetClientUser has found the user.
BeginReset(r, u) ==
    /\ password[u] # "none"
    /\ Begin(r, "reset", "user", u, NoSession)

-----------------------------------------------------------------------------
(* Statements *)

StartRevocation(r, q) ==
    Go(r, [q EXCEPT !.at = "revoke", !.due = Promised(q.op, q.user, q.token)])

\* Mutant: a revoked token is only noticed if it has expired as well.
ReusedAndExpired(s, expired) == ~Active(s) /\ expired

Reused(s, expired) == ~Active(s)

\* The lookup of the token's session returns.  Time is an input: the session
\* may have expired, which the reuse of a revoked token does not ask.
GrantToken(r, expired) ==
    LET q == [request[r] EXCEPT !.locked = {request[r].token}, !.wants = NoSession]
        reused == Reused(q.token, expired)
    IN
    /\ q.at = "token"
    /\ WaitsFor(r) = {}
    /\ \/ /\ reused /\ q.op = "refresh"
          /\ StartRevocation(r, [q EXCEPT !.op = "reuse"])
       \/ /\ ~reused /\ ~expired /\ q.op \in {"refresh", "logout"}
          /\ Go(r, [q EXCEPT !.at = "commit"])
       \/ /\ ~reused /\ ~expired /\ q.op = "logoutAll"
          /\ StartRevocation(r, q)
       \/ /\ IF reused THEN q.op # "refresh" ELSE expired
          /\ Reject(r)

\* UpdatePasswordHash runs on a connection of its own: it commits at once.
UpdatePasswordHash(r) ==
    /\ request[r].at = "password"
    /\ WaitsFor(r) = {}
    /\ password' = [password EXCEPT ![request[r].user] = "chosen"]
    /\ request' = [request EXCEPT ![r].at = "user"]
    /\ UNCHANGED <<session, mustChange>>

UpdateUser(r) ==
    /\ request[r].at = "user"
    /\ WaitsFor(r) = {}
    /\ StartRevocation(r, request[r])

\* The UPDATE of sessions goes on to one of the rows it has left.
Visit(r, q, left) ==
    IF left = {}
    THEN Go(r, [q EXCEPT !.at = "commit", !.wants = NoSession, !.todo = {}])
    ELSE \E s \in left :
            Go(r, [q EXCEPT !.at = "row", !.wants = s, !.todo = left \ {s}])

RevokeSessions(r) ==
    /\ request[r].at = "revoke"
    /\ Visit(r, request[r], RowsToUpdate(request[r]))

GrantRow(r) ==
    LET q == request[r] IN
    /\ q.at = "row"
    /\ WaitsFor(r) = {}
    /\ Visit(r, [q EXCEPT !.locked = @ \cup {q.wants}], q.todo)

\* The sessions table with the updates of q: rows it has locked that still
\* answer the WHERE clause.
Revoked(q) ==
    [s \in Sessions |->
        IF s \in q.locked \cap Scope(q) /\ Active(s)
        THEN [session[s] EXCEPT !.status = "revoked"]
        ELSE session[s]]

Commit(r) ==
    LET q == request[r] IN
    /\ q.at = "commit"
    /\ IF q.op = "refresh"
       THEN \E s \in Sessions :
                /\ ~Exists(s)
                /\ session' = [Revoked(q) EXCEPT ![s] =
                        [status |-> "active", user |-> q.user,
                         family |-> session[q.token].family]]
       ELSE session' = Revoked(q)
    /\ password' = IF q.op = "reset"
                   THEN [password EXCEPT ![q.user] = "issued"] ELSE password
    /\ mustChange' = IF q.op \in {"change", "reset"}
                     THEN [mustChange EXCEPT ![q.user] = (q.op = "reset")]
                     ELSE mustChange
    /\ request' = [request EXCEPT ![r] = Idle]

\* A lost connection, the timeout of WithDBTimeout, the deadlock detector, or
\* an error of the audit INSERT: the transaction rolls back.
Abort(r) ==
    /\ request[r].at # "idle"
    /\ Reject(r)

-----------------------------------------------------------------------------
RequestBegins(r) ==
    \/ \E op \in Operations, s \in Sessions : BeginWithToken(r, op, s)
    \/ \E s \in Sessions : BeginChange(r, s)
    \/ \E u \in Users : BeginReset(r, u)

Proceeds(r) ==
    \/ \E expired \in BOOLEAN : GrantToken(r, expired)
    \/ UpdatePasswordHash(r)
    \/ UpdateUser(r)
    \/ RevokeSessions(r)
    \/ GrantRow(r)
    \/ Commit(r)

Next ==
    \/ \E u \in Users :
        \/ Provision(u)
        \/ \E s \in Sessions : Register(u, s) \/ Login(u, s)
    \/ \E r \in Requests : RequestBegins(r) \/ Proceeds(r) \/ Abort(r)

Spec == Init /\ [][Next]_vars

-----------------------------------------------------------------------------
(* Properties *)

\* However many refreshes, retries and revocations of a lineage run at once, at
\* most one of its sessions is active: rotation revokes the session it replaces
\* in one transaction, and the row lock lets one of two rotations see the other.
OneActivePerLineage ==
    \A s, t \in Sessions :
        Active(s) /\ Active(t) /\ SameLineage(s, t) => s = t

\* The lineage of s has been logged out or revoked.
Ended(s) ==
    /\ Exists(s)
    /\ \A t \in Sessions : SameLineage(s, t) => ~Active(t)

\* A lineage that has been logged out or revoked is never revived, not even by
\* a refresh that was in flight.
EndedLineageStaysEnded ==
    [][\A s \in Sessions :
        Ended(s) => \A t \in Sessions : SameLineage(s, t)' => ~Active(t)']_vars

\* Reuse detection, logout-all, password change and credential reset revoke
\* every session in their scope that was active when they started, although the
\* rows are locked one by one while others rotate or revoke them.
RevocationIsComplete ==
    [][\A r \in Requests :
        Commit(r) /\ request[r].op \in Revocations
        => \A s \in request[r].due : ~Active(s)']_vars

\* What SessionLineages sees of the rows: a lineage is named by the session that
\* is its own family.
Lineage ==
    INSTANCE SessionLineages WITH
        owner <- [f \in Sessions |->
            IF session[f].family = f THEN session[f].user ELSE NoUser],
        live  <- [f \in Sessions |->
            {s \in Sessions : Active(s) /\ session[s].family = f}],
        used  <- {s \in Sessions : Exists(s)}

\* The requests implement SessionLineages: although a revocation visits its rows
\* one by one among rotations, logins and other revocations, it takes effect in
\* one step, on lineages of its own user only; and a rotation carries the user
\* and the lineage of its token over to a session that never existed before.
ImplementsLineages == Lineage!Spec

\* Rotation and logout never close a cycle of waits, reuse detection only where
\* a logout-all does, and of password changes and resets no two do: at the core
\* of every deadlock is a logout-all, which revokes the other sessions while it
\* holds its own.
DeadlocksAreLogoutAlls ==
    \A S \in SUBSET Requests :
        DeadlockedSet(S) =>
            \E T \in SUBSET S :
                /\ DeadlockedSet(T)
                /\ \A r \in T :
                    /\ request[r].at = "row"
                    /\ request[r].op \in Revocations
                /\ \E r \in T : request[r].op = "logoutAll"
                /\ Cardinality({r \in T : request[r].op \in {"change", "reset"}}) <= 1

\* What the comment on ChangePassword says ("All other sessions are revoked on
\* success"): no lineage of another session goes on after the commit.
OtherSessionsEnd ==
    [][\A r \in Requests :
        Commit(r) /\ request[r].op = "change"
        => \A s \in request[r].due, own \in {request[r].token}, t \in Sessions :
            Active(t)' /\ SameLineage(s, t)' => SameLineage(own, t)']_vars

\* What the comment in RefreshToken says ("revoke the whole family"): when the
\* reuse of a revoked token has been answered, no session of its lineage is
\* active.
ReuseEndsLineage ==
    [][\A r \in Requests :
        Commit(r) /\ request[r].op = "reuse"
        => \A own \in {request[r].token}, t \in Sessions :
            SameLineage(own, t)' => ~Active(t)']_vars

\* What the documentation says of the gate: it is down only while the password
\* is one its owner has chosen.
GateCoversIssuedCredential ==
    \A u \in Users : password[u] = "issued" => mustChange[u]
=============================================================================
