------------------------ MODULE SessionDeadlockProofs ------------------------
(***************************************************************************)
(* What can deadlock among the operations on sessions, for any number of   *)
(* users, sessions and requests.                                           *)
(***************************************************************************)
EXTENDS SessionsProofs, FiniteSetTheorems

-----------------------------------------------------------------------------
(* The inductive invariant *)

\* A lineage is of one user.
LineageUser ==
    \A s, t \in Sessions :
        Exists(s) /\ Exists(t) /\ SameLineage(s, t) =>
            session[s].user = session[t].user

\* The rows an UPDATE has locked or is going to lock.
Visits(q) == q.locked \cup q.todo \cup ({q.wants} \cap Sessions)

\* All rows a request locks are of its user; those of a reuse detection are its
\* token, which is revoked, and the one session of the lineage that was active
\* at its snapshot; a change or reset holds nothing before, and its snapshot
\* has one session of a lineage at most.
VisitsOK(q) ==
    /\ \A s \in Visits(q) : Exists(s) /\ session[s].user = q.user
    /\ q.at \in {"idle", "token", "password", "user"} => q.locked = {}
    /\ q.at # "row" => q.todo = {}
    /\ q.op \in {"refresh", "reuse", "logout", "logoutAll", "change"} =>
        session[q.token].user = q.user
    /\ q.op = "reuse" /\ q.at \in {"revoke", "row"} =>
        /\ ~Active(q.token)
        /\ q.locked = {q.token}
        /\ q.at = "row" => SameLineage(q.wants, q.token) /\ q.todo = {}
    /\ q.op \in {"change", "reset"} =>
        /\ q.at = "revoke" => q.locked = {}
        /\ q.at = "row" =>
            /\ q.wants \notin q.locked \cup q.todo
            /\ q.locked \cap q.todo = {}
            /\ \A s, t \in Visits(q) : SameLineage(s, t) => s = t

\* The transaction of q has an uncommitted UPDATE of its user row.
LocksUser(q) == q.op \in {"change", "reset"} /\ q.at \in {"revoke", "row", "commit"}

\* Two transactions never hold one user row.
UserLocksExclude ==
    \A q, r \in Requests :
        /\ LocksUser(request[q])
        /\ LocksUser(request[r])
        /\ request[q].user = request[r].user
        => q = r

ReuseWaits(r) == request[r].op = "reuse" /\ request[r].at = "row"

\* Reuse detections do not wait for each other in a circle: what one waits for
\* was active at its snapshot, and no token of an earlier one.
ReuseAcyclic ==
    \A S \in SUBSET {r \in Requests : ReuseWaits(r)} :
        S # {} =>
            \E r \in S : \A q \in S \ {r} : request[r].wants # request[q].token

DInv ==
    /\ LineageUser
    /\ UserLocksExclude
    /\ ReuseAcyclic
    /\ \A r \in Requests : VisitsOK(request[r])

-----------------------------------------------------------------------------
(* Steps of one request that change no session *)

LEMMA GoDInv ==
    ASSUME IInv, DInv, NEW r \in Requests, NEW n \in RequestState,
           UNCHANGED session, request' = [request EXCEPT ![r] = n],
           VisitsOK(n),
           LocksUser(n) =>
               \A q \in Requests \ {r} :
                    LocksUser(request[q]) => request[q].user # n.user,
           n.op = "reuse" /\ n.at = "row" => Active(n.wants)
    PROVE  DInv'
<1> USE DEF DInv
<1>1. /\ request'[r] = n
      /\ \A q \in Requests \ {r} : request'[q] = request[q]
  BY DEF IInv, TypeOK
<1>2. LineageUser'
  BY DEF LineageUser, Exists, SameLineage
<1>3. UserLocksExclude'
  BY <1>1 DEF UserLocksExclude, LocksUser
<1>4. ASSUME NEW q \in Requests
      PROVE  VisitsOK(request[q])'
  <2>1. PICK m \in RequestState : m = request'[q] /\ VisitsOK(m)
    BY <1>1 DEF IInv, TypeOK
  <2>2. VisitsOK(m)'
    BY <2>1 DEF VisitsOK, Visits, Exists, Active, SameLineage
  <2> QED
    BY <2>1, <2>2 DEF VisitsOK, Visits, Exists, Active, SameLineage
<1>5. ReuseAcyclic'
  <2> SUFFICES ASSUME NEW S \in SUBSET {q \in Requests : ReuseWaits(q)'}, S # {}
               PROVE  \E p \in S : \A q \in S \ {p} :
                            request'[p].wants # request'[q].token
    BY DEF ReuseAcyclic
  <2>1. CASE r \in S
    <3>1. n.op = "reuse" /\ n.at = "row" /\ Active(n.wants)
      BY <1>1, <2>1 DEF ReuseWaits
    <3>2. \A q \in S \ {r} : ~Active(request[q].token)
      BY <1>1 DEF ReuseWaits, VisitsOK
    <3> QED
      BY <1>1, <2>1, <3>1, <3>2
  <2>2. CASE r \notin S
    <3>1. S \in SUBSET {q \in Requests : ReuseWaits(q)}
      BY <1>1, <2>2 DEF ReuseWaits
    <3>2. PICK p \in S : \A q \in S \ {p} : request[p].wants # request[q].token
      BY <3>1 DEF ReuseAcyclic
    <3> QED
      BY <1>1, <2>2, <3>2
  <2> QED
    BY <2>1, <2>2
<1> QED
  BY <1>2, <1>3, <1>4, <1>5

\* Sessions change, and requests stay as they are or end.
LEMMA RowDInv ==
    ASSUME IInv, DInv, RowsKept, LineageUser',
           \A q \in Requests : request'[q] \in {request[q], Idle}
    PROVE  DInv'
<1> USE DEF DInv
<1>1. UserLocksExclude'
  BY DEF UserLocksExclude, LocksUser, Idle
<1>2. ASSUME NEW q \in RequestState, VisitsOK(q), RequestInv(q)
      PROVE  VisitsOK(q)'
  <2>1. \A s \in Visits(q) : s \in Sessions
    BY DEF Visits, RequestState
  <2>2. \A s \in Visits(q) : /\ Exists(s) /\ Exists(s)'
                             /\ session'[s].user = session[s].user
                             /\ session'[s].family = session[s].family
    BY <1>2, <2>1 DEF RowsKept, VisitsOK
  <2>3. q.op \in {"refresh", "reuse", "logout", "logoutAll", "change"} =>
          /\ session'[q.token].user = session[q.token].user
          /\ session'[q.token].family = session[q.token].family
          /\ Active(q.token)' => Active(q.token)
    BY <1>2 DEF RowsKept, RequestInv
  <2>4. q.at = "row" => q.wants \in Visits(q)
    BY <1>2 DEF RequestInv, Revocations, Visits
  <2> QED
    BY <1>2, <2>2, <2>3, <2>4 DEF VisitsOK, SameLineage, Visits
<1>3. ASSUME NEW q \in Requests
      PROVE  VisitsOK(request[q])'
  <2>1. PICK m \in RequestState :
            m = request'[q] /\ VisitsOK(m) /\ RequestInv(m)
    <3>1. CASE request'[q] = request[q]
      BY <3>1 DEF IInv, TypeOK
    <3>2. CASE request'[q] = Idle
      BY <3>2, IdleType, SentinelAssumption
      DEF Idle, VisitsOK, Visits, RequestInv, Revocations
    <3> QED
      BY <3>1, <3>2
  <2>2. VisitsOK(m)'
    BY <1>2, <2>1
  <2> QED
    BY <2>1, <2>2 DEF VisitsOK, Visits, Exists, Active, SameLineage
<1>4. ReuseAcyclic'
  <2>1. \A q \in Requests : ReuseWaits(q)' => ReuseWaits(q) /\ request'[q] = request[q]
    BY DEF ReuseWaits, Idle
  <2> SUFFICES ASSUME NEW S \in SUBSET {q \in Requests : ReuseWaits(q)'}, S # {}
               PROVE  \E p \in S : \A q \in S \ {p} :
                            request'[p].wants # request'[q].token
    BY DEF ReuseAcyclic
  <2>2. S \in SUBSET {q \in Requests : ReuseWaits(q)}
    BY <2>1
  <2>3. PICK p \in S : \A q \in S \ {p} : request[p].wants # request[q].token
    BY <2>2 DEF ReuseAcyclic
  <2> QED
    BY <2>1, <2>3
<1> QED
  BY <1>1, <1>3, <1>4

-----------------------------------------------------------------------------
(* The statements *)

\* What the invariants say of a request.
LEMMA RequestFacts ==
    ASSUME IInv, DInv, NEW r \in Requests
    PROVE  /\ request[r] \in RequestState
           /\ RequestInv(request[r])
           /\ VisitsOK(request[r])
           /\ LocksUser(request[r]) =>
                \A q \in Requests \ {r} :
                    LocksUser(request[q]) => request[q].user # request[r].user
  BY DEF IInv, TypeOK, DInv, UserLocksExclude

LEMMA IdleVisitsOK == VisitsOK(Idle) /\ ~LocksUser(Idle) /\ Idle.op # "reuse"
  BY SentinelAssumption DEF Idle, VisitsOK, Visits, LocksUser

LEMMA EndDInv ==
    ASSUME IInv, DInv, NEW r \in Requests, Go(r, Idle)
    PROVE  DInv'
  BY IdleType, IdleVisitsOK, GoDInv DEF Go, rows

LEMMA BeginDInv ==
    ASSUME IInv, DInv, NEW r \in Requests, RequestBegins(r)
    PROVE  DInv'
<1>1. ASSUME NEW op \in Operations, NEW at \in {"token", "password", "user"},
             NEW u \in Users \cup {NoUser}, NEW s \in Sessions \cup {NoSession},
             op # "reuse", Begin(r, op, at, u, s),
             s \in Sessions => Exists(s) /\ session[s].user = u,
             s = NoSession => op = "reset" /\ at = "user"
      PROVE  DInv'
  <2> DEFINE n == [Idle EXCEPT
                      !.op = op, !.at = at, !.user = u, !.token = s,
                      !.wants = IF at = "token" THEN s ELSE NoSession]
  <2>1. /\ n \in RequestState
        /\ n.op = op /\ n.at = at /\ n.user = u /\ n.token = s
        /\ n.wants \in {s, NoSession} /\ n.locked = {} /\ n.todo = {}
    BY IdleType DEF RequestState, Statements, Idle
  <2>2. Go(r, n)
    BY <1>1 DEF Begin
  <2> HIDE DEF n
  <2>3. VisitsOK(n)
    BY <1>1, <2>1, SentinelAssumption DEF VisitsOK, Visits
  <2>4. ~LocksUser(n) /\ n.op # "reuse"
    BY <1>1, <2>1 DEF LocksUser
  <2> QED
    BY <2>1, <2>2, <2>3, <2>4, GoDInv DEF Go, rows
<1>2. \A s \in Sessions : session[s].user \in Users \cup {NoUser}
  BY DEF IInv, TypeOK, SessionRow
<1>3. ASSUME NEW op \in Operations, NEW s \in Sessions, BeginWithToken(r, op, s)
      PROVE  DInv'
  BY <1>1, <1>2, <1>3, SentinelAssumption DEF BeginWithToken
<1>4. ASSUME NEW s \in Sessions, BeginChange(r, s)
      PROVE  DInv'
  <2>1. Exists(s)
    BY <1>4 DEF BeginChange, Active, Exists
  <2> QED
    BY <1>1, <1>2, <1>4, <2>1, SentinelAssumption DEF BeginChange, Operations
<1>5. ASSUME NEW u \in Users, BeginReset(r, u)
      PROVE  DInv'
  BY <1>1, <1>5, SentinelAssumption DEF BeginReset, Operations
<1> QED
  BY <1>3, <1>4, <1>5 DEF RequestBegins

LEMMA StartDInv ==
    ASSUME IInv, DInv, NEW r \in Requests, NEW q \in RequestState,
           StartRevocation(r, q), VisitsOK([q EXCEPT !.at = "revoke"]),
           q.op \in {"change", "reset"} =>
               \A p \in Requests \ {r} :
                    LocksUser(request[p]) => request[p].user # q.user
    PROVE  DInv'
<1> DEFINE n == [q EXCEPT !.at = "revoke", !.due = Promised(q.op, q.user, q.token)]
<1> DEFINE m == [q EXCEPT !.at = "revoke"]
<1>1. Go(r, n)
  BY DEF StartRevocation
<1>2. /\ n \in RequestState /\ n.at = "revoke" /\ m.at = "revoke"
      /\ n.op = q.op /\ n.user = q.user /\ n.token = q.token
      /\ n.wants = q.wants /\ n.locked = q.locked /\ n.todo = q.todo
      /\ m.op = q.op /\ m.user = q.user /\ m.token = q.token
      /\ m.wants = q.wants /\ m.locked = q.locked /\ m.todo = q.todo
  BY PromisedType DEF RequestState, Statements
<1>3. VisitsOK(m)
  OBVIOUS
<1> HIDE DEF n, m
<1>4. VisitsOK(n)
  BY <1>2, <1>3 DEF VisitsOK, Visits
<1> QED
  BY <1>1, <1>2, <1>4, GoDInv DEF Go, rows, LocksUser

LEMMA GrantTokenDInv ==
    ASSUME IInv, DInv, NEW r \in Requests, NEW expired \in BOOLEAN,
           GrantToken(r, expired)
    PROVE  DInv'
<1> DEFINE q == [request[r] EXCEPT !.locked = {request[r].token}, !.wants = NoSession]
<1>1. /\ request[r] \in RequestState /\ RequestInv(request[r])
      /\ VisitsOK(request[r]) /\ request[r].at = "token"
  BY RequestFacts DEF GrantToken
<1>2. /\ request[r].token \in Sessions /\ Exists(request[r].token)
      /\ request[r].op \in {"refresh", "logout", "logoutAll"}
      /\ request[r].todo = {}
      /\ session[request[r].token].user = request[r].user
  BY <1>1 DEF RequestInv, VisitsOK
<1>3. /\ q \in RequestState
      /\ q.op = request[r].op /\ q.token = request[r].token
      /\ q.user = request[r].user /\ q.todo = {}
      /\ q.wants = NoSession /\ q.locked = {request[r].token}
  BY <1>1, <1>2 DEF RequestState
<1>4. \/ q.op = "refresh" /\ ~Active(q.token)
         /\ StartRevocation(r, [q EXCEPT !.op = "reuse"])
      \/ q.op = "logoutAll" /\ StartRevocation(r, q)
      \/ q.op \in {"refresh", "logout"} /\ Go(r, [q EXCEPT !.at = "commit"])
      \/ Go(r, Idle)
  BY DEF GrantToken, Reject, Reused
<1> HIDE DEF q
<1>5. CASE q.op = "refresh" /\ ~Active(q.token)
           /\ StartRevocation(r, [q EXCEPT !.op = "reuse"])
  <2> DEFINE n == [q EXCEPT !.op = "reuse"]
  <2> DEFINE m == [n EXCEPT !.at = "revoke"]
  <2>1. n \in RequestState /\ n.op = "reuse"
    BY <1>3 DEF RequestState, Operations
  <2>2. /\ m.op = "reuse" /\ m.at = "revoke" /\ m.token = q.token
        /\ m.user = q.user /\ m.todo = {} /\ m.wants = NoSession
        /\ m.locked = {q.token}
    BY <1>3 DEF RequestState
  <2>3. StartRevocation(r, n)
    BY <1>5
  <2> HIDE DEF m
  <2>4. VisitsOK(m)
    BY <1>2, <1>3, <1>5, <2>2, SentinelAssumption DEF VisitsOK, Visits
  <2> USE DEF m
  <2> HIDE DEF n
  <2> QED
    BY <2>1, <2>3, <2>4, StartDInv
<1>6. CASE q.op = "logoutAll" /\ StartRevocation(r, q)
  <2> DEFINE m == [q EXCEPT !.at = "revoke"]
  <2>1. /\ m.op = "logoutAll" /\ m.at = "revoke" /\ m.token = q.token
        /\ m.user = q.user /\ m.todo = {} /\ m.wants = NoSession
        /\ m.locked = {q.token}
    BY <1>3, <1>6 DEF RequestState
  <2> HIDE DEF m
  <2>2. VisitsOK(m)
    BY <1>2, <1>3, <2>1, SentinelAssumption DEF VisitsOK, Visits
  <2> QED
    BY <1>3, <1>6, <2>2, StartDInv DEF m
<1>7. CASE q.op \in {"refresh", "logout"} /\ Go(r, [q EXCEPT !.at = "commit"])
  <2> DEFINE n == [q EXCEPT !.at = "commit"]
  <2>1. /\ n \in RequestState /\ n.op = q.op /\ n.at = "commit"
        /\ n.token = q.token /\ n.user = q.user /\ n.todo = {}
        /\ n.wants = NoSession /\ n.locked = {q.token}
    BY <1>3 DEF RequestState, Statements
  <2>2. Go(r, n)
    BY <1>7
  <2> HIDE DEF n
  <2>3. VisitsOK(n)
    BY <1>2, <1>3, <1>7, <2>1, SentinelAssumption DEF VisitsOK, Visits
  <2>4. ~LocksUser(n) /\ n.op # "reuse"
    BY <1>7, <2>1 DEF LocksUser
  <2> QED
    BY <2>1, <2>2, <2>3, <2>4, GoDInv DEF Go, rows
<1> QED
  BY <1>4, <1>5, <1>6, <1>7, EndDInv

LEMMA UserDInv ==
    ASSUME IInv, DInv, NEW r \in Requests, UpdatePasswordHash(r) \/ UpdateUser(r)
    PROVE  DInv'
<1> DEFINE q == request[r]
<1>1. /\ q \in RequestState /\ RequestInv(q) /\ VisitsOK(q)
      /\ q.at \in {"password", "user"}
  BY RequestFacts DEF UpdatePasswordHash, UpdateUser
<1>2. q.op \in {"change", "reset"} /\ q.locked = {} /\ q.todo = {}
  BY <1>1 DEF RequestInv, VisitsOK
<1>3. CASE UpdatePasswordHash(r)
  <2> DEFINE n == [q EXCEPT !.at = "user"]
  <2>1. /\ n \in RequestState /\ n.op = q.op /\ n.at = "user"
        /\ n.token = q.token /\ n.user = q.user /\ n.todo = q.todo
        /\ n.wants = q.wants /\ n.locked = q.locked
    BY <1>1 DEF RequestState, Statements
  <2>2. UNCHANGED session /\ request' = [request EXCEPT ![r] = n]
    BY <1>3 DEF UpdatePasswordHash
  <2> HIDE DEF n, q
  <2>3. VisitsOK(n)
    BY <1>1, <1>2, <2>1 DEF VisitsOK, Visits
  <2>4. ~LocksUser(n) /\ n.op # "reuse"
    BY <1>2, <2>1 DEF LocksUser
  <2> QED
    BY <2>1, <2>2, <2>3, <2>4, GoDInv
<1>4. CASE UpdateUser(r)
  <2> DEFINE m == [q EXCEPT !.at = "revoke"]
  <2>1. \A p \in Requests \ {r} :
            LocksUser(request[p]) => request[p].user # q.user
    BY <1>4 DEF UpdateUser, WaitsFor, HoldsUser, LocksUser
  <2>2. StartRevocation(r, q)
    BY <1>4 DEF UpdateUser
  <2>3. /\ m.op = q.op /\ m.at = "revoke" /\ m.token = q.token
        /\ m.user = q.user /\ m.todo = q.todo
        /\ m.wants = q.wants /\ m.locked = q.locked
    BY <1>1 DEF RequestState
  <2> HIDE DEF m, q
  <2>4. VisitsOK(m)
    BY <1>1, <1>2, <2>3 DEF VisitsOK, Visits
  <2> USE DEF m
  <2> QED
    BY <1>1, <2>1, <2>2, <2>4, StartDInv
<1> QED
  BY <1>3, <1>4

\* The UPDATE of sessions goes on with left, or is done.
LEMMA VisitDInv ==
    ASSUME IInv, DInv, NEW r \in Requests, NEW q \in RequestState,
           NEW left \in SUBSET Sessions, Visit(r, q, left),
           q.op \in Revocations,
           \A s \in q.locked \cup left : Exists(s) /\ session[s].user = q.user,
           q.op # "reset" => session[q.token].user = q.user,
           q.op = "reuse" =>
                /\ left = {} \/ (q.locked = {q.token} /\ ~Active(q.token))
                /\ \A s, t \in left : s = t
                /\ \A s \in left : SameLineage(s, q.token) /\ Active(s),
           q.op \in {"change", "reset"} =>
                /\ q.locked \cap left = {}
                /\ \A s, t \in q.locked \cup left : SameLineage(s, t) => s = t
                /\ \A p \in Requests \ {r} :
                    LocksUser(request[p]) => request[p].user # q.user
    PROVE  DInv'
<1>1. CASE left = {}
  <2> DEFINE n == [q EXCEPT !.at = "commit", !.wants = NoSession, !.todo = {}]
  <2>1. /\ n \in RequestState /\ n.at = "commit"
        /\ n.op = q.op /\ n.user = q.user /\ n.token = q.token
        /\ n.wants = NoSession /\ n.todo = {} /\ n.locked = q.locked
    BY DEF RequestState, Statements
  <2>2. Go(r, n)
    BY <1>1 DEF Visit
  <2> HIDE DEF n
  <2>3. VisitsOK(n)
    BY <1>1, <2>1, SentinelAssumption DEF VisitsOK, Visits, Revocations
  <2> QED
    BY <2>1, <2>2, <2>3, GoDInv DEF Go, rows, LocksUser
<1>2. CASE left # {}
  <2>1. PICK s \in left :
            Go(r, [q EXCEPT !.at = "row", !.wants = s, !.todo = left \ {s}])
    BY <1>2 DEF Visit
  <2> DEFINE n == [q EXCEPT !.at = "row", !.wants = s, !.todo = left \ {s}]
  <2>2. /\ n \in RequestState /\ n.at = "row"
        /\ n.op = q.op /\ n.user = q.user /\ n.token = q.token
        /\ n.wants = s /\ n.todo = left \ {s} /\ n.locked = q.locked
    BY DEF RequestState, Statements
  <2>3. Go(r, n)
    BY <2>1
  <2> HIDE DEF n
  <2>4. Visits(n) = q.locked \cup left
    BY <2>2 DEF Visits
  <2>5. CASE q.op \in {"change", "reset"}
    <3>1. VisitsOK(n)
      BY <2>2, <2>4, <2>5 DEF VisitsOK
    <3> QED
      BY <2>2, <2>3, <2>5, <3>1, GoDInv DEF Go, rows
  <2>6. CASE q.op \notin {"change", "reset"}
    <3>1. VisitsOK(n)
      BY <1>2, <2>2, <2>4, <2>6 DEF VisitsOK, Revocations
    <3>2. ~LocksUser(n)
      BY <2>2, <2>6 DEF LocksUser
    <3> QED
      BY <2>2, <2>3, <3>1, <3>2, GoDInv DEF Go, rows
  <2> QED
    BY <2>5, <2>6
<1> QED
  BY <1>1, <1>2

LEMMA RevokeDInv ==
    ASSUME IInv, DInv, NEW r \in Requests, RevokeSessions(r)
    PROVE  DInv'
<1> DEFINE q == request[r]
<1> DEFINE left == RowsToUpdate(q)
<1>1. /\ q \in RequestState /\ RequestInv(q) /\ VisitsOK(q)
      /\ q.at = "revoke" /\ Visit(r, q, left)
      /\ LocksUser(q) => \A p \in Requests \ {r} :
                            LocksUser(request[p]) => request[p].user # q.user
  BY RequestFacts DEF RevokeSessions
<1> HIDE DEF q
<1>2. /\ q.op \in Revocations
      /\ q.op # "reset" => /\ q.token \in Sessions /\ Exists(q.token)
                           /\ session[q.token].user = q.user
      /\ q.op \in {"change", "reset"} => q.locked = {} /\ LocksUser(q)
      /\ q.op = "reuse" => q.locked = {q.token} /\ ~Active(q.token)
      /\ \A s \in q.locked : Exists(s) /\ session[s].user = q.user
  BY <1>1 DEF RequestInv, Revocations, VisitsOK, Visits, LocksUser
<1>3. left \in SUBSET Sessions /\ \A s \in left : Exists(s) /\ Active(s)
  BY DEF RowsToUpdate, Scope
<1>4. q.op = "reuse" => \A s \in left : SameLineage(s, q.token)
  BY DEF RowsToUpdate, Scope
<1>5. ASSUME NEW s \in left PROVE session[s].user = q.user
  <2>1. CASE q.op = "reuse"
    BY <1>2, <1>3, <1>4, <2>1 DEF DInv, LineageUser
  <2>2. CASE q.op # "reuse"
    BY <1>2, <2>2 DEF RowsToUpdate, Scope, Revocations
  <2> QED
    BY <2>1, <2>2
<1>6. \A s, t \in left : SameLineage(s, t) => s = t
  BY <1>3 DEF IInv, OneActivePerLineage
<1>7. q.op = "reuse" => \A s, t \in left : s = t
  BY <1>4, <1>6 DEF SameLineage
<1> HIDE DEF left
<1> QED
  BY <1>1, <1>2, <1>3, <1>4, <1>5, <1>6, <1>7, VisitDInv

LEMMA GrantRowDInv ==
    ASSUME IInv, DInv, NEW r \in Requests, GrantRow(r)
    PROVE  DInv'
<1> DEFINE q == request[r]
<1> DEFINE n == [q EXCEPT !.locked = @ \cup {q.wants}]
<1>1. /\ q \in RequestState /\ RequestInv(q) /\ VisitsOK(q)
      /\ q.at = "row" /\ Visit(r, n, q.todo)
      /\ LocksUser(q) => \A p \in Requests \ {r} :
                            LocksUser(request[p]) => request[p].user # q.user
  BY RequestFacts DEF GrantRow
<1> HIDE DEF q
<1>2. /\ q.op \in Revocations /\ q.wants \in Sessions
      /\ q.op # "reset" => session[q.token].user = q.user
      /\ q.op = "reuse" => q.todo = {}
      /\ q.op \in {"change", "reset"} => LocksUser(q)
  BY <1>1 DEF RequestInv, VisitsOK, LocksUser, Revocations
<1>3. /\ n \in RequestState /\ q.todo \in SUBSET Sessions
      /\ n.op = q.op /\ n.user = q.user /\ n.token = q.token
      /\ n.locked = q.locked \cup {q.wants}
  BY <1>1, <1>2 DEF RequestState
<1> HIDE DEF n
<1>4. n.locked \cup q.todo = Visits(q)
  BY <1>2, <1>3 DEF Visits
<1>5. q.op \in {"change", "reset"} =>
        /\ n.locked \cap q.todo = {}
        /\ \A s, t \in Visits(q) : SameLineage(s, t) => s = t
  BY <1>1, <1>3 DEF VisitsOK
<1>6. \A s \in Visits(q) : Exists(s) /\ session[s].user = q.user
  BY <1>1 DEF VisitsOK
<1> QED
  BY <1>1, <1>2, <1>3, <1>4, <1>5, <1>6, VisitDInv

-----------------------------------------------------------------------------
(* Commits and new lineages *)

LEMMA CreateSessionDInv ==
    ASSUME IInv, IInv', DInv, NEW u \in Users, NEW s \in Sessions,
           CreateSession(s, u), UNCHANGED request
    PROVE  DInv'
<1>1. /\ ~Exists(s) /\ session'[s].family = s
      /\ \A t \in Sessions \ {s} : session'[t] = session[t]
  BY DEF CreateSession, IInv, TypeOK
<1>2. \A t \in Sessions \ {s} : Exists(t)' => Exists(t) /\ session'[t].family # s
  BY <1>1 DEF IInv, Lineages, Exists
<1>3. LineageUser'
  BY <1>1, <1>2 DEF DInv, LineageUser, SameLineage
<1>4. RowsKept
  BY CreatedRow DEF IInv
<1> QED
  BY <1>3, <1>4, RowDInv

LEMMA CommitDInv ==
    ASSUME IInv, IInv', DInv, NEW r \in Requests, Commit(r)
    PROVE  DInv'
<1> DEFINE q == request[r]
<1>1. RowsKept
  BY CommitStep DEF IInv
<1>2. \A p \in Requests : request'[p] \in {request[p], Idle}
  BY DEF Commit, IInv, TypeOK
<1>3. \A t \in Sessions :
        /\ Revoked(q)[t].user = session[t].user
        /\ Revoked(q)[t].family = session[t].family
        /\ (Revoked(q)[t].status = "none") <=> ~Exists(t)
  BY RevokedRows DEF IInv
<1>4. ASSUME NEW t \in Sessions, session'[t] = Revoked(q)[t]
      PROVE  /\ session'[t].user = session[t].user
             /\ session'[t].family = session[t].family
             /\ Exists(t)' => Exists(t)
  BY <1>3, <1>4 DEF Exists
<1>5. ASSUME session' = Revoked(q) PROVE LineageUser'
  BY <1>4, <1>5 DEF DInv, LineageUser, SameLineage
<1>6. ASSUME q.op = "refresh" PROVE LineageUser'
  <2>1. /\ q.token \in Sessions /\ Exists(q.token)
        /\ session[q.token].user = q.user
    BY <1>6, RequestFacts DEF RequestInv, VisitsOK
  <2>2. PICK s \in Sessions :
            session' = [Revoked(q) EXCEPT ![s] =
                    [status |-> "active", user |-> q.user,
                     family |-> session[q.token].family]]
    BY <1>6 DEF Commit
  <2>3. Revoked(q) \in [Sessions -> SessionRow]
    BY RevokedRows DEF IInv
  <2> HIDE DEF q
  <2>4. /\ session'[s].user = q.user
        /\ session'[s].family = session[q.token].family
        /\ \A t \in Sessions \ {s} : session'[t] = Revoked(q)[t]
    BY <2>2, <2>3
  <2>5. \A t \in Sessions \ {s} :
            /\ session'[t].user = session[t].user
            /\ session'[t].family = session[t].family
            /\ Exists(t)' => Exists(t)
    BY <1>4, <2>4
  <2> QED
    BY <2>1, <2>4, <2>5 DEF DInv, LineageUser, SameLineage
<1>7. LineageUser'
  BY <1>5, <1>6 DEF Commit
<1> QED
  BY <1>1, <1>2, <1>7, RowDInv

LEMMA StepDInv == IInv /\ IInv' /\ DInv /\ [Next]_vars => DInv'
<1> SUFFICES ASSUME IInv, IInv', DInv, [Next]_vars PROVE DInv'
  OBVIOUS
<1>1. ASSUME UNCHANGED <<session, request>> PROVE DInv'
  <2>1. RowsKept /\ LineageUser'
    BY <1>1, SameRows DEF DInv, LineageUser, Exists, SameLineage
  <2> QED
    BY <1>1, <2>1, RowDInv
<1>2. ASSUME NEW u \in Users, NEW s \in Sessions, Register(u, s) \/ Login(u, s)
      PROVE  DInv'
  BY <1>2, CreateSessionDInv DEF Register, Login
<1>3. ASSUME NEW r \in Requests, Proceeds(r) PROVE DInv'
  BY <1>3, GrantTokenDInv, UserDInv, RevokeDInv, GrantRowDInv, CommitDInv
  DEF Proceeds
<1>4. ASSUME NEW r \in Requests, Abort(r) PROVE DInv'
  BY <1>4, EndDInv DEF Abort, Reject
<1> QED
  BY <1>1, <1>2, <1>3, <1>4, BeginDInv DEF Next, Provision, vars, rows

LEMMA DInvCorrect == Spec => []DInv
<1>1. ASSUME Init PROVE DInv
  <2>1. /\ \A s \in Sessions : ~Exists(s)
        /\ \A r \in Requests : request[r] = Idle
    BY <1>1 DEF Init, Exists, NoRow
  <2>2. \A r \in Requests : ~ReuseWaits(r)
    BY <2>1, IdleVisitsOK DEF ReuseWaits
  <2>3. ReuseAcyclic
    BY <2>2 DEF ReuseAcyclic
  <2> QED
    BY <2>1, <2>3, IdleVisitsOK DEF DInv, LineageUser, UserLocksExclude
<1> QED
  BY <1>1, StepDInv, InductiveInvariant, PTL DEF Spec

-----------------------------------------------------------------------------
(* Deadlocks *)

\* In a deadlocked set somebody waits for a row of sessions, and for such a
\* request there is another that has locked its row and waits likewise.
LEMMA RowWaits ==
    ASSUME IInv, DInv, NEW S \in SUBSET Requests, DeadlockedSet(S)
    PROVE  /\ \E r \in S : request[r].at = "row"
           /\ \A r \in S : request[r].at = "row" =>
                \E q \in S : /\ q # r /\ request[q].at = "row"
                             /\ request[r].wants \in request[q].locked
<1>1. ASSUME NEW r \in S
      PROVE  /\ request[r].at \in {"token", "row", "password", "user"}
             /\ request[r].at # "row" => request[r].locked = {} /\ ~LocksUser(request[r])
  <2>1. request[r].at \in {"token", "row", "password", "user"}
    BY DEF DeadlockedSet, WaitsFor
  <2> QED
    BY <2>1, RequestFacts DEF VisitsOK, LocksUser
<1>2. ASSUME NEW r \in S
      PROVE  \E q \in S : /\ q # r /\ request[q].at = "row"
                          /\ request[r].at = "row" =>
                                request[r].wants \in request[q].locked
  <2>1. PICK q \in S : q \in WaitsFor(r)
    BY DEF DeadlockedSet
  <2>2. q # r /\ (request[q].locked # {} \/ LocksUser(request[q]))
    BY <2>1 DEF WaitsFor, HoldsSession, HoldsUser, LocksUser
  <2> QED
    BY <1>1, <2>1, <2>2 DEF WaitsFor, HoldsSession
<1> QED
  BY <1>2 DEF DeadlockedSet

\* The core of a deadlock: the requests of one user that wait for a row.
THEOREM DeadlocksAreLogoutAllsCorrect == Spec => []DeadlocksAreLogoutAlls
<1>1. ASSUME IInv, DInv, NEW S \in SUBSET Requests, DeadlockedSet(S)
      PROVE  \E T \in SUBSET S :
                /\ DeadlockedSet(T)
                /\ \A r \in T :
                    /\ request[r].at = "row"
                    /\ request[r].op \in Revocations
                /\ \E r \in T : request[r].op = "logoutAll"
                /\ Cardinality({r \in T : request[r].op \in {"change", "reset"}}) <= 1
  <2>1. PICK r0 \in S : request[r0].at = "row"
    BY <1>1, RowWaits
  <2> DEFINE T == {r \in S : /\ request[r].at = "row"
                             /\ request[r].user = request[r0].user}
  <2> DEFINE C == {r \in T : request[r].op \in {"change", "reset"}}
  <2>2. ASSUME NEW r \in T
        PROVE  /\ request[r].op \in Revocations /\ request[r].wants \in Sessions
               /\ request[r].wants \in Visits(request[r])
               /\ VisitsOK(request[r])
    BY <1>1, <2>2, RequestFacts DEF RequestInv, Visits
  <2>3. ASSUME NEW r \in T
        PROVE  \E q \in T : q # r /\ request[r].wants \in request[q].locked
    <3>1. PICK q \in S : /\ q # r /\ request[q].at = "row"
                         /\ request[r].wants \in request[q].locked
      BY <1>1, <2>3, RowWaits
    <3>2. session[request[r].wants].user = request[r].user
      BY <2>2 DEF VisitsOK
    <3>3. session[request[r].wants].user = request[q].user
      BY <1>1, <3>1, RequestFacts DEF VisitsOK, Visits
    <3> QED
      BY <3>1, <3>2, <3>3
  <2>4. DeadlockedSet(T)
    BY <2>1, <2>3 DEF DeadlockedSet, WaitsFor, HoldsSession
  <2>5. \A a, b \in C : a = b
    BY <1>1 DEF DInv, UserLocksExclude, LocksUser
  <2>6. Cardinality(C) <= 1
    <3> HIDE DEF C
    <3>1. CASE C = {}
      BY <3>1, FS_EmptySet
    <3>2. CASE C # {}
      <4>1. PICK c \in C : TRUE
        BY <3>2
      <4>2. C = {c}
        BY <2>5, <4>1
      <4>3. Cardinality({c}) = 1
        BY FS_Singleton
      <4> QED
        BY <4>2, <4>3
    <3> QED
      BY <3>1, <3>2
  <2>7. \E r \in T : request[r].op = "logoutAll"
    <3> SUFFICES ASSUME \A r \in T : request[r].op # "logoutAll" PROVE FALSE
      OBVIOUS
    <3> DEFINE R == {r \in T : request[r].op = "reuse"}
    <3>1. \A r \in T : r \in R \/ r \in C
      BY <2>2 DEF Revocations
    <3>2. \A r \in R : ReuseWaits(r) /\ request[r].locked = {request[r].token}
      BY <2>2 DEF ReuseWaits, VisitsOK
    <3>3. ASSUME NEW L \in SUBSET R, L # {}
          PROVE  \E r \in L : \A q \in L \ {r} : request[r].wants # request[q].token
      <4>1. L \in SUBSET {r \in Requests : ReuseWaits(r)}
        BY <3>2
      <4> QED
        BY <1>1, <3>3, <4>1 DEF DInv, ReuseAcyclic
    <3>4. CASE C = {}
      <4>1. R # {} /\ R = T
        BY <2>1, <3>1, <3>4
      <4>2. PICK r \in R : \A q \in R \ {r} : request[r].wants # request[q].token
        BY <3>3, <4>1
      <4> QED
        BY <2>3, <3>2, <4>1, <4>2
    <3>5. ASSUME NEW c \in C PROVE FALSE
      <4>1. PICK q1 \in T : q1 # c /\ request[c].wants \in request[q1].locked
        BY <2>3
      <4>2. q1 \in R /\ request[c].wants = request[q1].token
        BY <2>5, <3>1, <3>2, <4>1
      <4> DEFINE L == {r \in R : SameLineage(request[r].token, request[c].wants)}
      <4>3. L \in SUBSET R /\ q1 \in L
        BY <4>2 DEF SameLineage
      <4> HIDE DEF L
      <4>4. PICK r \in L : \A q \in L \ {r} : request[r].wants # request[q].token
        BY <3>3, <4>3
      <4> USE DEF L
      <4>5. PICK q \in T : q # r /\ request[r].wants \in request[q].locked
        BY <2>3
      <4>6. SameLineage(request[r].wants, request[c].wants)
        BY <2>2, <4>4 DEF VisitsOK, SameLineage
      <4>7. CASE q \in R
        <5>1. request[r].wants = request[q].token
          BY <3>2, <4>5, <4>7
        <5> QED
          BY <4>4, <4>5, <4>6, <4>7, <5>1
      <4>8. CASE q \in C
        <5>1. q = c
          BY <2>5, <4>8
        <5>2. request[r].wants \in Visits(request[c])
          BY <4>5, <5>1 DEF Visits
        <5> QED
          BY <2>2, <4>5, <4>6, <5>1, <5>2 DEF VisitsOK
      <4> QED
        BY <3>1, <4>7, <4>8
    <3> QED
      BY <3>4, <3>5
  <2> QED
    BY <2>2, <2>4, <2>6, <2>7
<1>2. IInv /\ DInv => DeadlocksAreLogoutAlls
  BY <1>1 DEF DeadlocksAreLogoutAlls
<1> QED
  BY <1>2, InductiveInvariant, DInvCorrect, PTL
=============================================================================
