--------------------------- MODULE SessionsProofs ---------------------------
(* Theorems about Sessions, for every value of its constants. *)
EXTENDS Sessions, TLAPS

-----------------------------------------------------------------------------
(* Type correctness *)

LEMMA InitTypeOK == Init => TypeOK
  BY DEF Init, TypeOK, SessionRow, NoRow, RequestState, Idle, Operations, Statements

LEMMA IdleType == Idle \in RequestState
  BY DEF Idle, RequestState, Operations, Statements

LEMMA PromisedType == \A op, u, s : Promised(op, u, s) \subseteq Sessions
  BY DEF Promised

\* Replacing a request by a well-typed one keeps the types.
LEMMA GoType ==
    ASSUME TypeOK, NEW r \in Requests, NEW q \in RequestState, Go(r, q)
    PROVE  TypeOK'
  BY DEF Go, rows, TypeOK

LEMMA StartRevocationType ==
    ASSUME TypeOK, NEW r \in Requests, NEW q \in RequestState,
           StartRevocation(r, q)
    PROVE  TypeOK'
<1>1. [q EXCEPT !.at = "revoke", !.due = Promised(q.op, q.user, q.token)]
        \in RequestState
  BY PromisedType DEF RequestState, Statements
<1> QED
  BY <1>1, GoType DEF StartRevocation

LEMMA VisitType ==
    ASSUME TypeOK, NEW r \in Requests, NEW q \in RequestState,
           NEW left \in SUBSET Sessions, Visit(r, q, left)
    PROVE  TypeOK'
<1>1. CASE left = {}
  <2>1. [q EXCEPT !.at = "commit", !.wants = NoSession, !.todo = {}] \in RequestState
    BY DEF RequestState, Statements
  <2> QED
    BY <1>1, <2>1, GoType DEF Visit
<1>2. CASE left # {}
  <2>1. PICK s \in left :
            Go(r, [q EXCEPT !.at = "row", !.wants = s, !.todo = left \ {s}])
    BY <1>2 DEF Visit
  <2>2. [q EXCEPT !.at = "row", !.wants = s, !.todo = left \ {s}] \in RequestState
    BY DEF RequestState, Statements
  <2> QED
    BY <2>1, <2>2, GoType
<1> QED
  BY <1>1, <1>2

LEMMA GrantTokenType ==
    ASSUME TypeOK, NEW r \in Requests, NEW expired \in BOOLEAN,
           GrantToken(r, expired), request[r].token \in Sessions
    PROVE  TypeOK'
<1> DEFINE q == [request[r] EXCEPT !.locked = {request[r].token}, !.wants = NoSession]
<1>1. q \in RequestState
  BY DEF TypeOK, RequestState
<1>2. [q EXCEPT !.op = "reuse"] \in RequestState
  BY <1>1 DEF RequestState, Operations
<1>3. [q EXCEPT !.at = "commit"] \in RequestState
  BY <1>1 DEF RequestState, Statements
<1>4. \/ StartRevocation(r, [q EXCEPT !.op = "reuse"])
      \/ StartRevocation(r, q)
      \/ Go(r, [q EXCEPT !.at = "commit"])
      \/ Go(r, Idle)
  BY DEF GrantToken, Reject
<1> HIDE DEF q
<1> QED
  BY <1>1, <1>2, <1>3, <1>4, IdleType, GoType, StartRevocationType

LEMMA UpdatePasswordHashType ==
    ASSUME TypeOK, NEW r \in Requests, UpdatePasswordHash(r)
    PROVE  TypeOK'
<1>1. [request[r] EXCEPT !.at = "user"] \in RequestState
  BY DEF TypeOK, RequestState, Statements
<1>2. request' = [request EXCEPT ![r] = [request[r] EXCEPT !.at = "user"]]
  BY DEF UpdatePasswordHash
<1> QED
  BY <1>1, <1>2 DEF UpdatePasswordHash, TypeOK

\* The updates of a transaction only turn active sessions into revoked ones.
LEMMA RevokedRows ==
    ASSUME TypeOK, NEW q
    PROVE  /\ Revoked(q) \in [Sessions -> SessionRow]
           /\ \A s \in Sessions :
                /\ Revoked(q)[s].user = session[s].user
                /\ Revoked(q)[s].family = session[s].family
                /\ (Revoked(q)[s].status = "none") <=> ~Exists(s)
                /\ (Revoked(q)[s].status = "active") <=>
                        Active(s) /\ s \notin q.locked \cap Scope(q)
  BY DEF TypeOK, Revoked, SessionRow, Exists, Active

LEMMA CommitType ==
    ASSUME TypeOK, NEW r \in Requests, Commit(r),
           request[r].op = "refresh" => request[r].token \in Sessions
    PROVE  TypeOK'
<1>1. session' \in [Sessions -> SessionRow]
  <2>1. CASE request[r].op = "refresh"
    <3>1. PICK s \in Sessions :
              session' = [Revoked(request[r]) EXCEPT ![s] =
                    [status |-> "active", user |-> request[r].user,
                     family |-> session[request[r].token].family]]
      BY <2>1 DEF Commit
    <3>2. [status |-> "active", user |-> request[r].user,
           family |-> session[request[r].token].family] \in SessionRow
      BY <2>1 DEF TypeOK, RequestState, SessionRow
    <3> QED
      BY <3>1, <3>2, RevokedRows
  <2>2. CASE request[r].op # "refresh"
    BY <2>2, RevokedRows DEF Commit
  <2> QED
    BY <2>1, <2>2
<1>2. request' \in [Requests -> RequestState]
  BY IdleType DEF Commit, TypeOK
<1>3. /\ password' \in [Users -> {"none", "chosen", "issued"}]
      /\ mustChange' \in [Users -> BOOLEAN]
  BY DEF Commit, TypeOK
<1> QED
  BY <1>1, <1>2, <1>3 DEF TypeOK

LEMMA AccountType ==
    ASSUME TypeOK, NEW u \in Users,
           \/ Provision(u)
           \/ \E s \in Sessions : Register(u, s) \/ Login(u, s)
    PROVE  TypeOK'
<1>1. ASSUME NEW s \in Sessions, CreateSession(s, u)
      PROVE  session' \in [Sessions -> SessionRow]
  <2>1. [status |-> "active", user |-> u, family |-> s] \in SessionRow
    BY DEF SessionRow
  <2> QED
    BY <1>1, <2>1 DEF CreateSession, TypeOK
<1>2. CASE Provision(u)
  BY <1>2 DEF Provision, TypeOK
<1>3. ASSUME NEW s \in Sessions, Register(u, s)
      PROVE  TypeOK'
  BY <1>1, <1>3 DEF Register, TypeOK
<1>4. ASSUME NEW s \in Sessions, Login(u, s)
      PROVE  TypeOK'
  BY <1>1, <1>4 DEF Login, TypeOK
<1> QED
  BY <1>2, <1>3, <1>4

LEMMA BeginType ==
    ASSUME TypeOK, NEW r \in Requests, RequestBegins(r)
    PROVE  TypeOK'
<1>1. ASSUME NEW op \in Operations, NEW statement \in {"token", "password", "user"},
             NEW u \in Users \cup {NoUser}, NEW s \in Sessions \cup {NoSession},
             Begin(r, op, statement, u, s)
      PROVE  TypeOK'
  <2> DEFINE wants == IF statement = "token" THEN s ELSE NoSession
             q == [Idle EXCEPT !.op = op, !.at = statement, !.user = u,
                               !.token = s, !.wants = wants]
  <2>1. wants \in Sessions \cup {NoSession}
    OBVIOUS
  <2> HIDE DEF wants
  <2>2. q \in RequestState
    BY <2>1 DEF Idle, RequestState, Statements
  <2>3. Go(r, q)
    BY <1>1 DEF Begin, wants
  <2> QED
    BY <2>2, <2>3, GoType
<1>2. ASSUME NEW op \in Operations, NEW s \in Sessions, BeginWithToken(r, op, s)
      PROVE  TypeOK'
  BY <1>1, <1>2 DEF BeginWithToken, TypeOK, SessionRow
<1>3. ASSUME NEW s \in Sessions, BeginChange(r, s)
      PROVE  TypeOK'
  BY <1>1, <1>3 DEF BeginChange, TypeOK, SessionRow, Operations
<1>4. ASSUME NEW u \in Users, BeginReset(r, u)
      PROVE  TypeOK'
  BY <1>1, <1>4 DEF BeginReset, Operations
<1> QED
  BY <1>2, <1>3, <1>4 DEF RequestBegins

-----------------------------------------------------------------------------
(* The inductive invariant *)

\* The session a lineage began with exists as long as the lineage does: a new
\* session's own lineage is new.
Lineages ==
    \A s \in Sessions :
        Exists(s) => /\ session[s].family \in Sessions
                     /\ Exists(session[s].family)

LocksExclude ==
    \A q, r \in Requests :
        q # r => request[q].locked \cap request[r].locked = {}

\* What a request has learnt and locked by the statement it has reached.
RequestInv(q) ==
    /\ q.op \in {"refresh", "reuse", "logout", "logoutAll", "change"} =>
            q.token \in Sessions /\ Exists(q.token)
    /\ q.at = "token" =>
            q.wants = q.token /\ q.op \in {"refresh", "logout", "logoutAll"}
    /\ q.at \in {"password", "user"} => q.op \in {"change", "reset"}
    /\ q.at \in {"revoke", "row"} => q.op \in Revocations
    /\ q.at = "row" => q.wants \in Sessions

\* The token of a rotation about to commit is locked and active.
RotationInv(q) ==
    q.op = "refresh" /\ q.at = "commit" => q.token \in q.locked /\ Active(q.token)

\* What a revocation is expected to revoke it has locked, has still to visit,
\* or has been revoked by another.
RevocationInv(q) ==
    q.op \in Revocations /\ q.at \in {"revoke", "row", "commit"} =>
        /\ q.due \subseteq Scope(q)
        /\ q.at = "row" =>
            \A s \in q.due : Active(s) => s \in q.todo \cup {q.wants} \cup q.locked
        /\ q.at = "commit" =>
            \A s \in q.due : Active(s) => s \in q.locked

IInv ==
    /\ TypeOK
    /\ Lineages
    /\ LocksExclude
    /\ OneActivePerLineage
    /\ \A r \in Requests :
        /\ RequestInv(request[r])
        /\ RotationInv(request[r])
        /\ RevocationInv(request[r])

\* Every step keeps the types when the invariant holds.
LEMMA StepTypeOK ==
    ASSUME IInv, [Next]_vars
    PROVE  TypeOK'
<1> USE DEF IInv
<1>1. CASE UNCHANGED vars
  BY <1>1 DEF vars, TypeOK
<1>2. ASSUME NEW r \in Requests, NEW expired \in BOOLEAN, GrantToken(r, expired)
      PROVE  TypeOK'
  <2>1. request[r].token \in Sessions
    BY <1>2 DEF GrantToken, RequestInv, TypeOK, RequestState
  <2> QED
    BY <1>2, <2>1, GrantTokenType
<1>3. ASSUME NEW r \in Requests, UpdateUser(r) \/ RevokeSessions(r) \/ GrantRow(r)
      PROVE  TypeOK'
  <2>1. request[r] \in RequestState
    BY DEF TypeOK
  <2>2. CASE UpdateUser(r)
    BY <2>1, <2>2, StartRevocationType DEF UpdateUser
  <2>3. CASE RevokeSessions(r)
    <3>1. RowsToUpdate(request[r]) \in SUBSET Sessions
      BY DEF RowsToUpdate, Scope
    <3> QED
      BY <2>1, <2>3, <3>1, VisitType DEF RevokeSessions
  <2>4. CASE GrantRow(r)
    <3> DEFINE q == [request[r] EXCEPT !.locked = @ \cup {request[r].wants}]
    <3>1. request[r].wants \in Sessions
      BY <2>4 DEF GrantRow, RequestInv
    <3>2. q \in RequestState /\ request[r].todo \in SUBSET Sessions
      BY <2>1, <3>1 DEF RequestState
    <3>3. Visit(r, q, request[r].todo)
      BY <2>4 DEF GrantRow
    <3> HIDE DEF q
    <3> QED
      BY <3>2, <3>3, VisitType
  <2> QED
    BY <1>3, <2>2, <2>3, <2>4
<1>4. ASSUME NEW r \in Requests, Commit(r)
      PROVE  TypeOK'
  BY <1>4, CommitType DEF RequestInv
<1>5. ASSUME NEW r \in Requests, Abort(r)
      PROVE  TypeOK'
  BY <1>5, GoType, IdleType DEF Abort, Reject
<1> QED
  BY <1>1, <1>2, <1>3, <1>4, <1>5, BeginType, UpdatePasswordHashType, AccountType
  DEF Next, Proceeds

-----------------------------------------------------------------------------
(* Every step preserves the invariant *)

LEMMA InitIInv == Init => IInv
<1> SUFFICES ASSUME Init PROVE IInv
  OBVIOUS
<1>1. \A s \in Sessions : ~Exists(s) /\ ~Active(s)
  BY DEF Init, Exists, Active, NoRow
<1>2. \A r \in Requests : request[r] = Idle
  BY DEF Init
<1>3. /\ RequestInv(Idle)
      /\ RotationInv(Idle)
      /\ RevocationInv(Idle)
  BY DEF RequestInv, RotationInv, RevocationInv, Idle, Revocations
<1>4. Idle.locked = {}
  BY DEF Idle
<1> QED
  BY <1>1, <1>2, <1>3, <1>4, InitTypeOK
  DEF IInv, Lineages, LocksExclude, OneActivePerLineage

\* Rows are never removed, keep their user and lineage, and are not made active
\* again.
RowsKept ==
    \A s \in Sessions :
        Exists(s) =>
            /\ Exists(s)'
            /\ session[s].user = session'[s].user
            /\ session[s].family = session'[s].family
            /\ Active(s)' => Active(s)

\* The rows are kept, too, when a request other than q commits.
LEMMA RequestKept ==
    ASSUME TypeOK, RowsKept, NEW q \in RequestState,
           RequestInv(q), RotationInv(q), RevocationInv(q),
           q.op = "refresh" /\ q.token \in q.locked /\ Active(q.token) => Active(q.token)'
    PROVE  RequestInv(q)' /\ RotationInv(q)' /\ RevocationInv(q)'
<1>1. RequestInv(q)'
  BY DEF RowsKept, RequestInv
<1>2. RotationInv(q)'
  BY DEF RotationInv
<1>3. RevocationInv(q)'
  <2>1. \A s \in Scope(q) : s \in Scope(q)'
    BY DEF Scope, RowsKept, SameLineage, RequestInv
  <2>2. \A s \in Scope(q) : Active(s)' => Active(s)
    BY DEF Scope, RowsKept
  <2> QED
    BY <2>1, <2>2 DEF RevocationInv
<1> QED
  BY <1>1, <1>2, <1>3

\* A request goes on from one statement to the next and no row changes.
LEMMA GoInv ==
    ASSUME IInv, TypeOK', NEW r \in Requests, NEW n \in RequestState,
           UNCHANGED session, request' = [request EXCEPT ![r] = n],
           RequestInv(n), RotationInv(n), RevocationInv(n),
           \A q \in Requests \ {r} : request[q].locked \cap n.locked = {}
    PROVE  IInv'
<1> USE DEF IInv
<1>1. \A s \in Sessions : (Exists(s)' <=> Exists(s)) /\ (Active(s)' <=> Active(s))
  BY DEF Exists, Active
<1>2. Lineages' /\ OneActivePerLineage'
  BY <1>1 DEF Lineages, OneActivePerLineage, SameLineage
<1>3. request \in [Requests -> RequestState]
  BY DEF TypeOK
<1>4. LocksExclude'
  BY <1>3 DEF LocksExclude
<1>5. ASSUME NEW q \in RequestState, RequestInv(q), RotationInv(q), RevocationInv(q)
      PROVE  RequestInv(q)' /\ RotationInv(q)' /\ RevocationInv(q)'
  <2>1. RowsKept
    BY <1>1 DEF RowsKept
  <2>2. q.op = "refresh" /\ q.token \in q.locked /\ Active(q.token) => Active(q.token)'
    BY DEF Active
  <2> QED
    BY <1>5, <2>1, <2>2, RequestKept
<1>6. ASSUME NEW q \in Requests
      PROVE  RequestInv(request[q])' /\ RotationInv(request[q])' /\ RevocationInv(request[q])'
  <2>1. PICK m \in RequestState : m = request'[q]
    BY DEF TypeOK
  <2>2. RequestInv(m) /\ RotationInv(m) /\ RevocationInv(m)
    BY <1>3, <2>1
  <2> QED
    BY <1>5, <2>1, <2>2 DEF RequestInv, RotationInv, RevocationInv, Scope, Active, Exists, SameLineage
<1> QED
  BY <1>2, <1>4, <1>6

LEMMA GoStepInv ==
    ASSUME IInv, TypeOK', NEW r \in Requests, NEW n \in RequestState, Go(r, n),
           RequestInv(n), RotationInv(n), RevocationInv(n),
           \A q \in Requests \ {r} : request[q].locked \cap n.locked = {}
    PROVE  IInv'
  BY GoInv DEF Go, rows

LEMMA IdleInv == RequestInv(Idle) /\ RotationInv(Idle) /\ RevocationInv(Idle)
  BY DEF RequestInv, RotationInv, RevocationInv, Idle, Revocations

LEMMA RejectStep ==
    ASSUME IInv, TypeOK', NEW r \in Requests, Go(r, Idle)
    PROVE  IInv'
<1>1. Idle.locked = {}
  BY DEF Idle
<1> QED
  BY <1>1, IdleInv, IdleType, GoStepInv

LEMMA BeginStep ==
    ASSUME IInv, TypeOK', NEW r \in Requests, RequestBegins(r)
    PROVE  IInv'
<1>1. ASSUME NEW op \in Operations, NEW statement \in {"token", "password", "user"},
             NEW u \in Users \cup {NoUser}, NEW s \in Sessions \cup {NoSession},
             Begin(r, op, statement, u, s),
             op \in {"refresh", "reuse", "logout", "logoutAll", "change"} =>
                s \in Sessions /\ Exists(s),
             statement = "token" => op \in {"refresh", "logout", "logoutAll"},
             statement \in {"password", "user"} => op \in {"change", "reset"}
      PROVE  IInv'
  <2> DEFINE wants == IF statement = "token" THEN s ELSE NoSession
             n == [Idle EXCEPT !.op = op, !.at = statement, !.user = u,
                               !.token = s, !.wants = wants]
  <2>1. wants \in Sessions \cup {NoSession} /\ (statement = "token" => wants = s)
    OBVIOUS
  <2>2. Go(r, n)
    BY <1>1 DEF Begin
  <2> HIDE DEF wants
  <2>3. /\ n \in RequestState
        /\ n.op = op /\ n.at = statement /\ n.token = s /\ n.wants = wants
        /\ n.locked = {}
    BY <2>1 DEF Idle, RequestState, Statements
  <2> HIDE DEF n
  <2>4. RequestInv(n) /\ RotationInv(n) /\ RevocationInv(n)
    BY <1>1, <2>1, <2>3 DEF RequestInv, RotationInv, RevocationInv
  <2> QED
    BY <2>2, <2>3, <2>4, GoStepInv
<1> USE DEF IInv
<1>2. ASSUME NEW op \in Operations, NEW s \in Sessions, BeginWithToken(r, op, s)
      PROVE  IInv'
  BY <1>1, <1>2 DEF BeginWithToken, TypeOK, SessionRow
<1>3. ASSUME NEW s \in Sessions, BeginChange(r, s)
      PROVE  IInv'
  BY <1>1, <1>3 DEF BeginChange, TypeOK, SessionRow, Operations, Active, Exists
<1>4. ASSUME NEW u \in Users, BeginReset(r, u)
      PROVE  IInv'
  BY <1>1, <1>4 DEF BeginReset, Operations
<1> QED
  BY <1>2, <1>3, <1>4 DEF RequestBegins

\* What a revocation is expected to revoke is in the scope of its UPDATE.
LEMMA PromisedInScope ==
    ASSUME NEW q \in RequestState, q.op \in Revocations
    PROVE  Promised(q.op, q.user, q.token) \subseteq Scope(q)
  BY DEF Promised, Scope, Revocations, Active, Exists, SameLineage

\* A request goes on to its UPDATE of sessions.
LEMMA StartStep ==
    ASSUME IInv, TypeOK', NEW r \in Requests, NEW q \in RequestState,
           StartRevocation(r, q), q.op \in Revocations,
           q.op # "reset" => q.token \in Sessions /\ Exists(q.token),
           \A p \in Requests \ {r} : request[p].locked \cap q.locked = {}
    PROVE  IInv'
<1> DEFINE n == [q EXCEPT !.at = "revoke", !.due = Promised(q.op, q.user, q.token)]
<1>1. Go(r, n)
  BY DEF StartRevocation
<1>2. /\ n \in RequestState
      /\ n.at = "revoke" /\ n.due = Promised(q.op, q.user, q.token)
      /\ n.op = q.op /\ n.user = q.user /\ n.token = q.token /\ n.locked = q.locked
  BY PromisedType DEF RequestState, Statements
<1> HIDE DEF n
<1>3. n.due \subseteq Scope(n)
  BY <1>2, PromisedInScope
<1>4. RequestInv(n) /\ RotationInv(n) /\ RevocationInv(n)
  BY <1>2, <1>3 DEF RequestInv, RotationInv, RevocationInv, Revocations
<1> QED
  BY <1>1, <1>2, <1>4, GoStepInv

LEMMA GrantTokenStep ==
    ASSUME IInv, TypeOK', NEW r \in Requests, NEW expired \in BOOLEAN,
           GrantToken(r, expired)
    PROVE  IInv'
<1> DEFINE q == [request[r] EXCEPT !.locked = {request[r].token}, !.wants = NoSession]
<1>1. /\ request[r] \in RequestState /\ RequestInv(request[r])
      /\ request[r].at = "token" /\ WaitsFor(r) = {}
  BY DEF IInv, TypeOK, GrantToken
<1>2. /\ request[r].wants = request[r].token
      /\ request[r].token \in Sessions /\ Exists(request[r].token)
      /\ request[r].op \in {"refresh", "logout", "logoutAll"}
  BY <1>1 DEF RequestInv
<1>3. /\ q \in RequestState
      /\ q.op = request[r].op /\ q.token = request[r].token
      /\ q.locked = {request[r].token}
  BY <1>1, <1>2 DEF RequestState
<1>4. \A p \in Requests \ {r} : request[p].locked \cap q.locked = {}
  BY <1>1, <1>2, <1>3 DEF WaitsFor, HoldsSession
<1>5. \/ q.op = "refresh" /\ StartRevocation(r, [q EXCEPT !.op = "reuse"])
      \/ q.op = "logoutAll" /\ StartRevocation(r, q)
      \/ /\ q.op \in {"refresh", "logout"} /\ Active(q.token)
         /\ Go(r, [q EXCEPT !.at = "commit"])
      \/ Go(r, Idle)
  BY DEF GrantToken, Reject, Reused
<1> HIDE DEF q
<1>6. CASE q.op = "refresh" /\ StartRevocation(r, [q EXCEPT !.op = "reuse"])
  <2> DEFINE n == [q EXCEPT !.op = "reuse"]
  <2>1. /\ n \in RequestState /\ n.op = "reuse"
        /\ n.token = q.token /\ n.locked = q.locked
    BY <1>3 DEF RequestState, Operations
  <2>2. StartRevocation(r, n)
    BY <1>6
  <2> HIDE DEF n
  <2> QED
    BY <1>2, <1>3, <1>4, <2>1, <2>2, StartStep DEF Revocations
<1>7. CASE q.op = "logoutAll" /\ StartRevocation(r, q)
  BY <1>2, <1>3, <1>4, <1>7, StartStep DEF Revocations
<1>8. CASE /\ q.op \in {"refresh", "logout"} /\ Active(q.token)
           /\ Go(r, [q EXCEPT !.at = "commit"])
  <2> DEFINE n == [q EXCEPT !.at = "commit"]
  <2>1. /\ n \in RequestState /\ n.at = "commit" /\ n.op = q.op
        /\ n.token = q.token /\ n.locked = q.locked
    BY <1>3 DEF RequestState, Statements
  <2>2. n.op \in {"refresh", "logout"}
    BY <1>8, <2>1
  <2>3. Go(r, n)
    BY <1>8
  <2> HIDE DEF n
  <2>4. RequestInv(n) /\ RotationInv(n) /\ RevocationInv(n)
    BY <1>2, <1>3, <1>8, <2>1, <2>2
    DEF RequestInv, RotationInv, RevocationInv, Revocations
  <2> QED
    BY <1>4, <2>1, <2>3, <2>4, GoStepInv
<1> QED
  BY <1>5, <1>6, <1>7, <1>8, RejectStep

\* The UPDATE of sessions goes on to a row it has left, or is done.
LEMMA VisitStep ==
    ASSUME IInv, TypeOK', NEW r \in Requests, NEW q \in RequestState,
           NEW left \in SUBSET Sessions, Visit(r, q, left),
           q.op \in Revocations,
           q.op # "reset" => q.token \in Sessions /\ Exists(q.token),
           q.due \subseteq Scope(q),
           \A s \in q.due : Active(s) => s \in left \cup q.locked,
           \A p \in Requests \ {r} : request[p].locked \cap q.locked = {}
    PROVE  IInv'
<1>1. CASE left = {}
  <2> DEFINE n == [q EXCEPT !.at = "commit", !.wants = NoSession, !.todo = {}]
  <2>1. /\ n \in RequestState /\ n.at = "commit"
        /\ n.op = q.op /\ n.user = q.user /\ n.token = q.token
        /\ n.locked = q.locked /\ n.due = q.due
    BY DEF RequestState, Statements
  <2>2. Go(r, n)
    BY <1>1 DEF Visit
  <2> HIDE DEF n
  <2>3. n.due \subseteq Scope(n)
    BY <2>1 DEF Scope
  <2>4. RequestInv(n) /\ RotationInv(n) /\ RevocationInv(n)
    BY <1>1, <2>1, <2>3 DEF RequestInv, RotationInv, RevocationInv, Revocations
  <2> QED
    BY <2>1, <2>2, <2>4, GoStepInv
<1>2. CASE left # {}
  <2>1. PICK s \in left :
            Go(r, [q EXCEPT !.at = "row", !.wants = s, !.todo = left \ {s}])
    BY <1>2 DEF Visit
  <2> DEFINE n == [q EXCEPT !.at = "row", !.wants = s, !.todo = left \ {s}]
  <2>2. /\ n \in RequestState /\ n.at = "row"
        /\ n.op = q.op /\ n.user = q.user /\ n.token = q.token
        /\ n.wants = s /\ n.todo = left \ {s}
        /\ n.locked = q.locked /\ n.due = q.due
    BY DEF RequestState, Statements
  <2>3. Go(r, n)
    BY <2>1
  <2> HIDE DEF n
  <2>4. n.due \subseteq Scope(n)
    BY <2>2 DEF Scope
  <2>5. RequestInv(n) /\ RotationInv(n) /\ RevocationInv(n)
    BY <2>2, <2>4 DEF RequestInv, RotationInv, RevocationInv, Revocations
  <2> QED
    BY <2>2, <2>3, <2>5, GoStepInv
<1> QED
  BY <1>1, <1>2

LEMMA StatementStep ==
    ASSUME IInv, TypeOK', NEW r \in Requests,
           UpdatePasswordHash(r) \/ UpdateUser(r) \/ RevokeSessions(r) \/ GrantRow(r)
    PROVE  IInv'
<1> DEFINE q == request[r]
<1>1. /\ q \in RequestState
      /\ RequestInv(q) /\ RotationInv(q) /\ RevocationInv(q)
      /\ \A p \in Requests \ {r} : request[p].locked \cap q.locked = {}
  BY DEF IInv, TypeOK, LocksExclude
<1>2. CASE UpdatePasswordHash(r)
  <2> DEFINE n == [q EXCEPT !.at = "user"]
  <2>1. q.at = "password"
    BY <1>2 DEF UpdatePasswordHash
  <2>2. /\ n \in RequestState /\ n.at = "user"
        /\ n.op = q.op /\ n.token = q.token /\ n.locked = q.locked
    BY <1>1 DEF RequestState, Statements
  <2>3. UNCHANGED session /\ request' = [request EXCEPT ![r] = n]
    BY <1>2 DEF UpdatePasswordHash
  <2> HIDE DEF n, q
  <2>4. RequestInv(n) /\ RotationInv(n) /\ RevocationInv(n)
    BY <1>1, <2>1, <2>2 DEF RequestInv, RotationInv, RevocationInv
  <2> QED
    BY <1>1, <2>2, <2>3, <2>4, GoInv
<1>3. CASE UpdateUser(r)
  <2>1. q.op \in {"change", "reset"} /\ StartRevocation(r, q)
    BY <1>1, <1>3 DEF UpdateUser, RequestInv
  <2> HIDE DEF q
  <2> QED
    BY <1>1, <2>1, StartStep DEF RequestInv, Revocations
<1>4. CASE RevokeSessions(r)
  <2>1. q.at = "revoke" /\ Visit(r, q, RowsToUpdate(q))
    BY <1>4 DEF RevokeSessions
  <2> HIDE DEF q
  <2>2. /\ q.op \in Revocations
        /\ q.op # "reset" => q.token \in Sessions /\ Exists(q.token)
        /\ q.due \subseteq Scope(q)
    BY <1>1, <2>1 DEF RequestInv, RevocationInv, Revocations
  <2>3. RowsToUpdate(q) \in SUBSET Sessions
    BY DEF RowsToUpdate, Scope
  <2>4. \A s \in q.due : Active(s) => s \in RowsToUpdate(q) \cup q.locked
    BY <2>2 DEF RowsToUpdate
  <2> QED
    BY <1>1, <2>1, <2>2, <2>3, <2>4, VisitStep
<1>5. CASE GrantRow(r)
  <2> DEFINE n == [q EXCEPT !.locked = @ \cup {q.wants}]
  <2>1. q.at = "row" /\ WaitsFor(r) = {} /\ Visit(r, n, q.todo)
    BY <1>5 DEF GrantRow
  <2>2. \A p \in Requests \ {r} : q.wants \notin request[p].locked
    BY <2>1 DEF WaitsFor, HoldsSession
  <2> HIDE DEF q
  <2>3. q.wants \in Sessions
    BY <1>1, <2>1 DEF RequestInv
  <2>4. /\ n \in RequestState /\ q.todo \in SUBSET Sessions
        /\ n.op = q.op /\ n.user = q.user /\ n.token = q.token /\ n.due = q.due
        /\ n.locked = q.locked \cup {q.wants}
    BY <1>1, <2>3 DEF RequestState
  <2> HIDE DEF n
  <2>5. /\ n.op \in Revocations
        /\ n.op # "reset" => n.token \in Sessions /\ Exists(n.token)
    BY <1>1, <2>1, <2>4 DEF RequestInv, Revocations
  <2>6. n.due \subseteq Scope(n)
    BY <1>1, <2>1, <2>4, <2>5 DEF RevocationInv, Scope
  <2>7. \A s \in n.due : Active(s) => s \in q.todo \cup n.locked
    BY <1>1, <2>1, <2>4, <2>5 DEF RevocationInv
  <2>8. \A p \in Requests \ {r} : request[p].locked \cap n.locked = {}
    BY <1>1, <2>2, <2>4
  <2> QED
    BY <2>1, <2>4, <2>5, <2>6, <2>7, <2>8, VisitStep
<1> QED
  BY <1>2, <1>3, <1>4, <1>5

\* Rows change, and requests stay as they are or end.
LEMMA RowStep ==
    ASSUME IInv, TypeOK', RowsKept, Lineages', OneActivePerLineage',
           \A q \in Requests :
                \/ request'[q] = Idle
                \/ /\ request'[q] = request[q]
                   /\ /\ request[q].op = "refresh"
                      /\ request[q].token \in request[q].locked
                      /\ Active(request[q].token)
                      => Active(request[q].token)'
    PROVE  IInv'
<1> USE DEF IInv
<1>1. LocksExclude'
  <2>1. Idle.locked = {}
    BY DEF Idle
  <2> QED
    BY <2>1 DEF LocksExclude
<1>2. ASSUME NEW q \in Requests
      PROVE  RequestInv(request[q])' /\ RotationInv(request[q])' /\ RevocationInv(request[q])'
  <2>1. CASE request'[q] = Idle
    <3>2. Idle.op = "none" /\ Idle.at = "idle"
      BY DEF Idle
    <3> QED
      BY <2>1, <3>2 DEF RequestInv, RotationInv, RevocationInv, Revocations
  <2>2. CASE request'[q] # Idle
    <3>1. PICK m \in RequestState : m = request[q]
      BY DEF TypeOK
    <3>2. request'[q] = m
      BY <2>2, <3>1
    <3>3. RequestInv(m) /\ RotationInv(m) /\ RevocationInv(m)
      BY <3>1
    <3>4. m.op = "refresh" /\ m.token \in m.locked /\ Active(m.token) => Active(m.token)'
      BY <2>2, <3>1, <3>3
    <3>5. RequestInv(m)' /\ RotationInv(m)' /\ RevocationInv(m)'
      BY <3>3, <3>4, RequestKept
    <3> QED
      BY <3>2, <3>5
      DEF RequestInv, RotationInv, RevocationInv, Scope, Active, Exists, SameLineage
  <2> QED
    BY <2>1, <2>2
<1> QED
  BY <1>1, <1>2

\* A new lineage.
LEMMA CreateSessionStep ==
    ASSUME IInv, TypeOK', NEW u \in Users, NEW s \in Sessions,
           CreateSession(s, u), UNCHANGED request
    PROVE  IInv'
<1> USE DEF IInv
<1>1. /\ ~Exists(s) /\ ~Active(s)
      /\ session'[s].family = s /\ Exists(s)' /\ Active(s)'
      /\ \A t \in Sessions \ {s} : session'[t] = session[t]
  BY DEF CreateSession, TypeOK, Exists, Active
<1>2. \A t \in Sessions \ {s} : (Exists(t)' <=> Exists(t)) /\ (Active(t)' <=> Active(t))
  BY <1>1 DEF Exists, Active
<1>3. RowsKept
  BY <1>1, <1>2 DEF RowsKept
<1>4. Lineages'
  BY <1>1, <1>2 DEF Lineages
<1>5. \A t \in Sessions \ {s} : Active(t)' => session'[t].family # s
  BY <1>1, <1>2 DEF Lineages, Active, Exists
<1>6. OneActivePerLineage'
  BY <1>1, <1>2, <1>5 DEF OneActivePerLineage, SameLineage
<1>7. \A q \in Requests :
        /\ request[q].op = "refresh"
        /\ request[q].token \in request[q].locked
        /\ Active(request[q].token)
        => Active(request[q].token)'
  BY <1>1, <1>2 DEF TypeOK, RequestState
<1> HIDE DEF IInv
<1> QED
  BY <1>3, <1>4, <1>6, <1>7, RowStep

LEMMA AccountStep ==
    ASSUME IInv, TypeOK', NEW u \in Users,
           \/ Provision(u)
           \/ \E s \in Sessions : Register(u, s) \/ Login(u, s)
    PROVE  IInv'
<1>1. CASE Provision(u)
  <2>1. UNCHANGED <<session, request>>
    BY <1>1 DEF Provision
  <2> QED
    BY <2>1 DEF IInv, Lineages, LocksExclude, OneActivePerLineage, RequestInv,
                RotationInv, RevocationInv, Scope, Active, Exists, SameLineage
<1>2. ASSUME NEW s \in Sessions, Register(u, s) \/ Login(u, s)
      PROVE  IInv'
  BY <1>2, CreateSessionStep DEF Register, Login
<1> QED
  BY <1>1, <1>2

\* What a commit does to the sessions: a rotation's new session is s.
LEMMA CommitRows ==
    ASSUME IInv, TypeOK', NEW r \in Requests, Commit(r)
    PROVE  \/ /\ session' = Revoked(request[r])
              /\ request[r].op # "refresh"
           \/ /\ request[r].op = "refresh"
              /\ \E s \in Sessions :
                    /\ ~Exists(s) /\ s # request[r].token
                    /\ session'[s].family = session[request[r].token].family
                    /\ Exists(s)' /\ Active(s)'
                    /\ \A t \in Sessions \ {s} : session'[t] = Revoked(request[r])[t]
<1> USE DEF IInv
<1>1. CASE request[r].op = "refresh"
  <2>1. PICK s \in Sessions :
            /\ ~Exists(s)
            /\ session' = [Revoked(request[r]) EXCEPT ![s] =
                    [status |-> "active", user |-> request[r].user,
                     family |-> session[request[r].token].family]]
    BY <1>1 DEF Commit
  <2>2. s # request[r].token
    BY <1>1, <2>1 DEF RequestInv
  <2>3. /\ session'[s].family = session[request[r].token].family
        /\ session'[s].status = "active"
        /\ \A t \in Sessions \ {s} : session'[t] = Revoked(request[r])[t]
    BY <2>1, RevokedRows
  <2> QED
    BY <1>1, <2>1, <2>2, <2>3 DEF Exists, Active
<1>2. CASE request[r].op # "refresh"
  BY <1>2 DEF Commit
<1> QED
  BY <1>1, <1>2

\* The token of a rotation is revoked by its commit.
LEMMA RotationRevokesToken ==
    ASSUME IInv, NEW r \in Requests, Commit(r), request[r].op = "refresh"
    PROVE  /\ request[r].token \in Sessions
           /\ Active(request[r].token)
           /\ request[r].token \in request[r].locked \cap Scope(request[r])
  BY DEF IInv, RequestInv, RotationInv, Commit, Scope

LEMMA CommitStep ==
    ASSUME IInv, TypeOK', NEW r \in Requests, Commit(r)
    PROVE  IInv' /\ RowsKept
<1> DEFINE q == request[r]
<1>1. \A s \in Sessions :
        /\ Revoked(q)[s].user = session[s].user
        /\ Revoked(q)[s].family = session[s].family
        /\ (Revoked(q)[s].status = "none") <=> ~Exists(s)
        /\ (Revoked(q)[s].status = "active") <=>
                Active(s) /\ s \notin q.locked \cap Scope(q)
  BY RevokedRows DEF IInv
<1> HIDE DEF q
<1>2. ASSUME NEW s \in Sessions, session'[s] = Revoked(q)[s]
      PROVE  /\ session'[s].user = session[s].user
             /\ session'[s].family = session[s].family
             /\ Exists(s)' <=> Exists(s)
             /\ Active(s)' <=> Active(s) /\ s \notin q.locked \cap Scope(q)
  BY <1>1, <1>2 DEF Exists, Active
<1>3. \A p \in Requests \ {r} : request[p].locked \cap q.locked = {}
  BY DEF IInv, LocksExclude, q
<1>4. request'[r] = Idle /\ \A p \in Requests \ {r} : request'[p] = request[p]
  BY DEF IInv, TypeOK, Commit
<1>5. CASE session' = Revoked(q)
  <2>1. RowsKept
    BY <1>2, <1>5 DEF RowsKept
  <2>2. Lineages'
    BY <1>2, <1>5 DEF IInv, Lineages
  <2>3. OneActivePerLineage'
    BY <1>2, <1>5 DEF IInv, OneActivePerLineage, SameLineage
  <2>4. ASSUME NEW p \in Requests \ {r}, request[p].op = "refresh",
               request[p].token \in request[p].locked, Active(request[p].token)
        PROVE  Active(request[p].token)'
    <3>1. request[p].token \in Sessions
      BY <2>4 DEF IInv, RequestInv
    <3>2. request[p].token \notin q.locked
      BY <1>3, <2>4
    <3> QED
      BY <1>2, <1>4, <1>5, <2>4, <3>1, <3>2 DEF Active
  <2> QED
    BY <1>4, <2>1, <2>2, <2>3, <2>4, RowStep
<1>6. ASSUME q.op = "refresh", NEW s \in Sessions, ~Exists(s), s # q.token,
             session'[s].family = session[q.token].family, Exists(s)', Active(s)',
             \A t \in Sessions \ {s} : session'[t] = Revoked(q)[t]
      PROVE  IInv' /\ RowsKept
  <2>1. /\ q.token \in Sessions /\ Active(q.token) /\ Exists(q.token)
        /\ q.token \in q.locked \cap Scope(q)
    BY <1>6, RotationRevokesToken DEF q, Active, Exists
  <2>2. RowsKept
    BY <1>2, <1>6 DEF RowsKept
  <2>3. Lineages'
    <3>1. \A t \in Sessions \ {s} : Exists(t)' => Exists(t)
                /\ session'[t].family = session[t].family
      BY <1>2, <1>6
    <3>2. \A t \in Sessions : Exists(t) => Exists(t)'
      BY <2>2 DEF RowsKept
    <3> QED
      BY <1>6, <2>1, <3>1, <3>2 DEF IInv, Lineages
  <2>4. OneActivePerLineage'
    <3>1. ASSUME NEW t \in Sessions \ {s}, Active(t)',
                 session'[t].family = session'[s].family
          PROVE  FALSE
      <4>1. Active(t) /\ t \notin q.locked \cap Scope(q)
                /\ session[t].family = session[q.token].family
        BY <1>2, <1>6, <3>1
      <4>2. t = q.token
        BY <2>1, <4>1 DEF IInv, OneActivePerLineage, SameLineage
      <4> QED
        BY <2>1, <4>1, <4>2
    <3>2. ASSUME NEW t \in Sessions \ {s}, NEW v \in Sessions \ {s},
                 Active(t)', Active(v)', session'[t].family = session'[v].family
          PROVE  t = v
      BY <1>2, <1>6, <3>2 DEF IInv, OneActivePerLineage, SameLineage
    <3> QED
      BY <3>1, <3>2 DEF OneActivePerLineage, SameLineage
  <2>5. ASSUME NEW p \in Requests \ {r}, request[p].op = "refresh",
               request[p].token \in request[p].locked, Active(request[p].token)
        PROVE  Active(request[p].token)'
    <3>1. request[p].token \in Sessions /\ request[p].token # s
      BY <1>6, <2>5 DEF IInv, RequestInv
    <3>2. request[p].token \notin q.locked
      BY <1>3, <2>5
    <3> QED
      BY <1>2, <1>4, <1>6, <2>5, <3>1, <3>2 DEF Active
  <2> QED
    BY <1>4, <2>2, <2>3, <2>4, <2>5, RowStep
<1>7. \/ session' = Revoked(q)
      \/ /\ q.op = "refresh"
         /\ \E s \in Sessions :
                /\ ~Exists(s) /\ s # q.token
                /\ session'[s].family = session[q.token].family
                /\ Exists(s)' /\ Active(s)'
                /\ \A t \in Sessions \ {s} : session'[t] = Revoked(q)[t]
  BY CommitRows DEF q
<1>8. session' = Revoked(q) => RowsKept
  BY <1>2 DEF RowsKept
<1> QED
  BY <1>5, <1>6, <1>7, <1>8

LEMMA StepIInv == IInv /\ [Next]_vars => IInv'
<1> SUFFICES ASSUME IInv, [Next]_vars PROVE IInv'
  OBVIOUS
<1>1. TypeOK'
  BY StepTypeOK
<1>2. CASE UNCHANGED vars
  BY <1>1, <1>2
  DEF vars, rows, IInv, Lineages, LocksExclude, OneActivePerLineage, RequestInv,
      RotationInv, RevocationInv, Scope, Active, Exists, SameLineage
<1>3. ASSUME NEW u \in Users,
             \/ Provision(u)
             \/ \E s \in Sessions : Register(u, s) \/ Login(u, s)
      PROVE  IInv'
  BY <1>1, <1>3, AccountStep
<1>4. ASSUME NEW r \in Requests, RequestBegins(r)
      PROVE  IInv'
  BY <1>1, <1>4, BeginStep
<1>5. ASSUME NEW r \in Requests, Proceeds(r)
      PROVE  IInv'
  BY <1>1, <1>5, GrantTokenStep, StatementStep, CommitStep DEF Proceeds
<1>6. ASSUME NEW r \in Requests, Abort(r)
      PROVE  IInv'
  BY <1>1, <1>6, RejectStep DEF Abort, Reject
<1> QED
  BY <1>2, <1>3, <1>4, <1>5, <1>6 DEF Next

-----------------------------------------------------------------------------
(* What a step does to the rows *)

\* A new session begins a lineage or continues one that is alive.
NewRows ==
    \A t \in Sessions :
        ~Exists(t) /\ Active(t)' =>
            \/ session'[t].family = t
            \/ \E v \in Sessions :
                    Active(v) /\ session'[t].family = session[v].family

LEMMA SameRows == session' = session => RowsKept /\ NewRows
  BY DEF RowsKept, NewRows, Exists, Active

LEMMA CreatedRow ==
    ASSUME TypeOK, NEW u \in Users, NEW s \in Sessions, CreateSession(s, u)
    PROVE  RowsKept /\ NewRows
<1>1. /\ ~Exists(s)
      /\ session'[s].family = s
      /\ \A t \in Sessions \ {s} : session'[t] = session[t]
  BY DEF CreateSession, TypeOK
<1>2. \A t \in Sessions \ {s} : (Exists(t)' <=> Exists(t)) /\ (Active(t)' <=> Active(t))
  BY <1>1 DEF Exists, Active
<1>3. \A t \in Sessions : Active(t) => Exists(t)
  BY DEF Active, Exists
<1> QED
  BY <1>1, <1>2, <1>3 DEF RowsKept, NewRows

LEMMA CommittedRows ==
    ASSUME IInv, TypeOK', NEW r \in Requests, Commit(r)
    PROVE  RowsKept /\ NewRows
<1>1. RowsKept
  BY CommitStep
<1>2. ASSUME NEW t \in Sessions, session'[t] = Revoked(request[r])[t]
      PROVE  Active(t)' => Exists(t)
  <2>1. Revoked(request[r])[t].status = "active" => Active(t)
    BY RevokedRows DEF IInv
  <2> QED
    BY <1>2, <2>1 DEF Active, Exists
<1>3. CASE session' = Revoked(request[r])
  BY <1>1, <1>2, <1>3 DEF NewRows
<1>4. CASE request[r].op = "refresh"
  <2>1. /\ request[r].token \in Sessions
        /\ Active(request[r].token)
    BY <1>4, RotationRevokesToken
  <2>2. PICK s \in Sessions :
            /\ session'[s].family = session[request[r].token].family
            /\ \A t \in Sessions \ {s} : session'[t] = Revoked(request[r])[t]
    BY <1>4, CommitRows
  <2> QED
    BY <1>1, <1>2, <2>1, <2>2 DEF NewRows
<1> QED
  BY <1>3, <1>4, CommitRows

LEMMA StepRows ==
    ASSUME IInv, [Next]_vars
    PROVE  RowsKept /\ NewRows
<1>1. CASE UNCHANGED vars
  BY <1>1, SameRows DEF vars
<1>2. ASSUME NEW u \in Users, Provision(u)
      PROVE  RowsKept /\ NewRows
  BY <1>2, SameRows DEF Provision
<1>3. ASSUME NEW u \in Users, NEW s \in Sessions, Register(u, s) \/ Login(u, s)
      PROVE  RowsKept /\ NewRows
  BY <1>3, CreatedRow DEF Register, Login, IInv
<1>4. ASSUME NEW r \in Requests, NEW q, Go(r, q)
      PROVE  RowsKept /\ NewRows
  BY <1>4, SameRows DEF Go, rows
<1>5. ASSUME NEW r \in Requests, RequestBegins(r)
      PROVE  RowsKept /\ NewRows
  BY <1>4, <1>5 DEF RequestBegins, BeginWithToken, BeginChange, BeginReset, Begin
<1>6. ASSUME NEW r \in Requests, NEW q, NEW left, Visit(r, q, left)
      PROVE  RowsKept /\ NewRows
  BY <1>4, <1>6 DEF Visit
<1>7. ASSUME NEW r \in Requests, NEW expired \in BOOLEAN, GrantToken(r, expired)
      PROVE  RowsKept /\ NewRows
  BY <1>4, <1>7 DEF GrantToken, StartRevocation, Reject
<1>8. ASSUME NEW r \in Requests, UpdatePasswordHash(r)
      PROVE  RowsKept /\ NewRows
  BY <1>8, SameRows DEF UpdatePasswordHash
<1>9. ASSUME NEW r \in Requests, UpdateUser(r) \/ RevokeSessions(r) \/ GrantRow(r)
      PROVE  RowsKept /\ NewRows
  BY <1>4, <1>6, <1>9 DEF UpdateUser, StartRevocation, RevokeSessions, GrantRow
<1>10. ASSUME NEW r \in Requests, Commit(r)
       PROVE  RowsKept /\ NewRows
  BY <1>10, StepTypeOK, CommittedRows
<1>11. ASSUME NEW r \in Requests, Abort(r)
       PROVE  RowsKept /\ NewRows
  BY <1>4, <1>11 DEF Abort, Reject
<1> QED
  BY <1>1, <1>2, <1>3, <1>5, <1>7, <1>8, <1>9, <1>10, <1>11 DEF Next, Proceeds

-----------------------------------------------------------------------------
(* Theorems *)

THEOREM InductiveInvariant == Spec => []IInv
  BY InitIInv, StepIInv, PTL DEF Spec

\* Every reachable state is well typed.
THEOREM TypeCorrect == Spec => []TypeOK
<1>1. IInv => TypeOK
  BY DEF IInv
<1> QED
  BY <1>1, InductiveInvariant, PTL

\* Of a lineage at most one session is active, whatever refreshes, retries and
\* revocations of it run at once.
THEOREM OneActivePerLineageCorrect == Spec => []OneActivePerLineage
<1>1. IInv => OneActivePerLineage
  BY DEF IInv
<1> QED
  BY <1>1, InductiveInvariant, PTL

\* A lineage without an active session never has one again: a session is only
\* added to a lineage by a rotation, which holds its active token.
THEOREM EndedLineageStaysEndedCorrect == Spec => EndedLineageStaysEnded
<1>1. ASSUME IInv, [Next]_vars, NEW s \in Sessions, Ended(s), NEW t \in Sessions,
             session'[s].family = session'[t].family, Active(t)'
      PROVE  FALSE
  <2>1. RowsKept /\ NewRows
    BY <1>1, StepRows
  <2>2. session'[s].family = session[s].family
    BY <1>1, <2>1 DEF RowsKept, Ended
  <2>3. CASE Exists(t)
    <3>1. Active(t) /\ session[t].family = session[s].family
      BY <1>1, <2>1, <2>2, <2>3 DEF RowsKept
    <3> QED
      BY <1>1, <3>1 DEF Ended, SameLineage
  <2>4. CASE ~Exists(t)
    <3>1. CASE session'[t].family = t
      <4>1. session[s].family = t
        BY <1>1, <2>2, <3>1
      <4> QED
        BY <1>1, <2>4, <4>1 DEF IInv, Lineages, Ended
    <3>2. CASE \E v \in Sessions :
                    Active(v) /\ session'[t].family = session[v].family
      BY <1>1, <2>2, <3>2 DEF Ended, SameLineage
    <3> QED
      BY <1>1, <2>1, <2>4, <3>1, <3>2 DEF NewRows
  <2> QED
    BY <2>3, <2>4
<1>2. IInv /\ [Next]_vars =>
        [\A s \in Sessions :
            Ended(s) => \A t \in Sessions : SameLineage(s, t)' => ~Active(t)']_vars
  BY <1>1 DEF SameLineage
<1> QED
  BY <1>2, InductiveInvariant, PTL DEF Spec, EndedLineageStaysEnded

\* Reuse detection, logout-all, password change and credential reset miss none
\* of the sessions that were active when they started.
THEOREM RevocationIsCompleteCorrect == Spec => RevocationIsComplete
<1>1. ASSUME IInv, [Next]_vars, NEW r \in Requests, Commit(r),
             request[r].op \in Revocations, NEW s \in request[r].due
      PROVE  ~Active(s)'
  <2>1. /\ request[r].due \subseteq Scope(request[r])
        /\ Active(s) => s \in request[r].locked
    BY <1>1 DEF IInv, RevocationInv, Commit
  <2>2. s \in Sessions /\ Exists(s) /\ s \in Scope(request[r])
    BY <2>1 DEF Scope
  <2>3. CASE Active(s)
    <3>1. session' = Revoked(request[r])
      BY <1>1 DEF Commit, Revocations
    <3>2. Revoked(request[r])[s].status # "active"
      BY <1>1, <2>1, <2>2, <2>3, RevokedRows DEF IInv
    <3> QED
      BY <3>1, <3>2 DEF Active
  <2>4. CASE ~Active(s)
    BY <1>1, <2>2, <2>4, StepRows DEF RowsKept
  <2> QED
    BY <2>3, <2>4
<1>2. IInv /\ [Next]_vars =>
        [\A r \in Requests :
            Commit(r) /\ request[r].op \in Revocations
            => \A s \in request[r].due : ~Active(s)']_vars
  BY <1>1
<1> QED
  BY <1>2, InductiveInvariant, PTL DEF Spec, RevocationIsComplete
=============================================================================
