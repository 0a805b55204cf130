----------------------- MODULE SessionLineagesProofs -----------------------
(***************************************************************************)
(* Sessions implements SessionLineages, for any number of users, sessions  *)
(* and requests.                                                           *)
(***************************************************************************)
EXTENDS SessionDeadlockProofs

-----------------------------------------------------------------------------
(* The inductive invariant *)

\* A session is of a user, the session its lineage is named by is of the lineage,
\* and a session that is not created is of none.
LineageNames ==
    \A s \in Sessions :
        /\ Exists(s) => /\ session[s].user \in Users
                        /\ session[session[s].family].family = session[s].family
        /\ ~Exists(s) => session[s].family = NoSession

\* What SessionLineages sees of the rows.
Owner(f) == IF session[f].family = f THEN session[f].user ELSE NoUser
Live(f) == {s \in Sessions : Active(s) /\ session[s].family = f}
Used == {s \in Sessions : Exists(s)}

LEMMA BeginSeen ==
    ASSUME NEW u, NEW s,
           s \notin Used, Used' = Used \cup {s},
           \A f \in Sessions : Owner(f)' = IF f = s THEN u ELSE Owner(f),
           \A f \in Sessions : Live(f)' = IF f = s THEN {s} ELSE Live(f)
    PROVE  Lineage!Begin(u, s)
  BY DEF Lineage!Begin, Lineage!Create, Owner, Live, Used

LEMMA RotateSeen ==
    ASSUME NEW f \in Sessions, NEW s, NEW t,
           Live(f) = {s}, t \notin Used, Used' = Used \cup {t},
           \A g \in Sessions : Owner(g)' = Owner(g),
           \A g \in Sessions : Live(g)' = IF g = f THEN {t} ELSE Live(g)
    PROVE  Lineage!Rotate(f, s, t)
  BY DEF Lineage!Rotate, Lineage!Create, Owner, Live, Used

LEMMA EndSeen ==
    ASSUME NEW u, NEW lineages \in SUBSET Sessions,
           Used' = Used,
           \A f \in Sessions : Owner(f)' = Owner(f),
           \A f \in lineages : Owner(f) = u,
           \A f \in Sessions : Live(f)' = IF f \in lineages THEN {} ELSE Live(f)
    PROVE  Lineage!End(u, lineages)
  BY DEF Lineage!End, Owner, Live, Used

-----------------------------------------------------------------------------
(* The steps that change sessions *)

\* A session is created, a request commits, or no session changes.
LEMMA SessionSteps ==
    ASSUME [Next]_vars
    PROVE  \/ session' = session
           \/ \E u \in Users, s \in Sessions : CreateSession(s, u)
           \/ \E r \in Requests : Commit(r)
<1>1. ASSUME NEW r, NEW q, Go(r, q) PROVE session' = session
  BY <1>1 DEF Go, rows
<1>2. ASSUME NEW r, NEW q, NEW left, Visit(r, q, left) PROVE session' = session
  BY <1>1, <1>2 DEF Visit
<1>3. ASSUME NEW r \in Requests, RequestBegins(r) PROVE session' = session
  BY <1>1, <1>3 DEF RequestBegins, BeginWithToken, BeginChange, BeginReset, Begin
<1>4. ASSUME NEW r \in Requests, NEW expired \in BOOLEAN, GrantToken(r, expired)
      PROVE  session' = session
  BY <1>1, <1>4 DEF GrantToken, StartRevocation, Reject
<1>5. ASSUME NEW r \in Requests,
             UpdatePasswordHash(r) \/ UpdateUser(r) \/ RevokeSessions(r) \/ GrantRow(r)
      PROVE  session' = session
  BY <1>1, <1>2, <1>5
  DEF UpdatePasswordHash, UpdateUser, StartRevocation, RevokeSessions, GrantRow
<1>6. ASSUME NEW r \in Requests, Abort(r) PROVE session' = session
  BY <1>1, <1>6 DEF Abort, Reject
<1>7. ASSUME NEW u \in Users, Provision(u) PROVE session' = session
  BY <1>7 DEF Provision
<1>8. ASSUME NEW u \in Users, NEW s \in Sessions, Register(u, s) \/ Login(u, s)
      PROVE  CreateSession(s, u)
  BY <1>8 DEF Register, Login
<1> QED
  BY <1>3, <1>4, <1>5, <1>6, <1>7, <1>8 DEF Next, Proceeds, vars

\* A commit revokes the rows it has locked that its UPDATE asks for.
LEMMA CommittedRow ==
    ASSUME IInv, NEW q, NEW s \in Sessions, session'[s] = Revoked(q)[s]
    PROVE  /\ session'[s].user = session[s].user
           /\ session'[s].family = session[s].family
           /\ Exists(s)' <=> Exists(s)
           /\ Active(s)' <=> Active(s) /\ s \notin q.locked \cap Scope(q)
<1>1. /\ Revoked(q)[s].user = session[s].user
      /\ Revoked(q)[s].family = session[s].family
      /\ (Revoked(q)[s].status = "none") <=> ~Exists(s)
      /\ (Revoked(q)[s].status = "active") <=>
              Active(s) /\ s \notin q.locked \cap Scope(q)
  BY RevokedRows DEF IInv
<1> QED
  BY <1>1 DEF Exists, Active

\* The rows a rotation leaves behind.
LEMMA RotatedRows ==
    ASSUME IInv, NEW r \in Requests, Commit(r), request[r].op = "refresh"
    PROVE  \E t \in Sessions :
              /\ ~Exists(t)
              /\ session'[t].status = "active"
              /\ session'[t].user = request[r].user
              /\ session'[t].family = session[request[r].token].family
              /\ \A s \in Sessions \ {t} : session'[s] = Revoked(request[r])[s]
<1>1. PICK t \in Sessions :
          /\ ~Exists(t)
          /\ session' = [Revoked(request[r]) EXCEPT ![t] =
                [status |-> "active", user |-> request[r].user,
                 family |-> session[request[r].token].family]]
  BY DEF Commit
<1>2. Revoked(request[r]) \in [Sessions -> SessionRow]
  BY RevokedRows DEF IInv
<1> QED
  BY <1>1, <1>2

-----------------------------------------------------------------------------
(* The invariant is kept *)

LEMMA NamesKept ==
    ASSUME IInv, DInv, LineageNames, [Next]_vars
    PROVE  LineageNames'
<1>1. RowsKept
  BY StepRows
<1>2. ASSUME NEW s \in Sessions, Exists(s)
      PROVE  /\ session'[s].user \in Users
             /\ session'[session'[s].family].family = session'[s].family
  <2>1. session[s].family \in Sessions /\ Exists(session[s].family)
    BY <1>2 DEF IInv, Lineages
  <2> QED
    BY <1>1, <1>2, <2>1 DEF RowsKept, LineageNames
\* The rows that were there, or were not, need only stay so.
<1>3. ASSUME NEW s \in Sessions, session'[s].family = session[s].family,
             Exists(s)' <=> Exists(s)
      PROVE  /\ Exists(s)' => /\ session'[s].user \in Users
                              /\ session'[session'[s].family].family = session'[s].family
             /\ ~Exists(s)' => session'[s].family = NoSession
  BY <1>2, <1>3 DEF LineageNames
<1>4. ASSUME session' = session PROVE LineageNames'
  BY <1>3, <1>4 DEF LineageNames, Exists
<1>5. ASSUME NEW u \in Users, NEW s \in Sessions, CreateSession(s, u)
      PROVE  LineageNames'
  <2>1. /\ session'[s].user = u /\ session'[s].family = s /\ Exists(s)'
        /\ \A t \in Sessions \ {s} : session'[t] = session[t]
    BY <1>5 DEF CreateSession, IInv, TypeOK, Exists
  <2>2. \A t \in Sessions \ {s} : Exists(t)' <=> Exists(t)
    BY <2>1 DEF Exists
  <2> QED
    BY <1>3, <2>1, <2>2 DEF LineageNames
<1>6. ASSUME NEW r \in Requests, Commit(r), request[r].op = "refresh"
      PROVE  LineageNames'
  <2>1. /\ request[r].token \in Sessions /\ Exists(request[r].token)
        /\ session[request[r].token].user = request[r].user
    BY <1>6, RequestFacts DEF RequestInv, VisitsOK
  <2>2. PICK t \in Sessions :
            /\ session'[t].status = "active"
            /\ session'[t].user = request[r].user
            /\ session'[t].family = session[request[r].token].family
            /\ \A s \in Sessions \ {t} : session'[s] = Revoked(request[r])[s]
    BY <1>6, RotatedRows
  <2>3. \A s \in Sessions \ {t} : /\ session'[s].family = session[s].family
                                  /\ Exists(s)' <=> Exists(s)
    BY <2>2, CommittedRow
  <2>4. /\ session'[t].family = session'[request[r].token].family
        /\ session'[t].user \in Users
        /\ Exists(t)'
    BY <1>1, <2>1, <2>2 DEF RowsKept, LineageNames, Exists
  <2>5. session'[session'[t].family].family = session'[t].family
    BY <1>2, <2>1, <2>4
  <2> QED
    BY <1>3, <2>3, <2>4, <2>5 DEF LineageNames
<1>7. ASSUME NEW r \in Requests, Commit(r), request[r].op # "refresh"
      PROVE  LineageNames'
  <2>1. session' = Revoked(request[r])
    BY <1>7 DEF Commit
  <2> QED
    BY <1>3, <2>1, CommittedRow DEF LineageNames
<1> QED
  BY <1>4, <1>5, <1>6, <1>7, SessionSteps

-----------------------------------------------------------------------------
(* Every step is one of SessionLineages *)

LEMMA CreateRefines ==
    ASSUME IInv, NEW u \in Users, NEW s \in Sessions, CreateSession(s, u)
    PROVE  Lineage!Begin(u, s)
<1>1. /\ ~Exists(s) /\ Exists(s)' /\ Active(s)'
      /\ session'[s].user = u /\ session'[s].family = s
      /\ \A t \in Sessions \ {s} : session'[t] = session[t]
  BY DEF CreateSession, IInv, TypeOK, Exists, Active
<1>2. \A t \in Sessions \ {s} :
        /\ Exists(t)' <=> Exists(t)
        /\ Active(t)' <=> Active(t)
        /\ Active(t) => session[t].family # s
  BY <1>1 DEF IInv, Lineages, Exists, Active
<1>3. s \notin Used /\ Used' = Used \cup {s}
  BY <1>1, <1>2 DEF Used
<1>4. \A f \in Sessions : Owner(f)' = IF f = s THEN u ELSE Owner(f)
  BY <1>1 DEF Owner
<1>5. ~Active(s)
  BY <1>1 DEF Exists, Active
<1>6. \A f \in Sessions : Live(f)' = IF f = s THEN {s} ELSE Live(f)
  BY <1>1, <1>2, <1>5 DEF Live
<1> QED
  BY <1>3, <1>4, <1>6, BeginSeen

LEMMA RotationRefines ==
    ASSUME IInv, DInv, LineageNames,
           NEW r \in Requests, Commit(r), request[r].op = "refresh"
    PROVE  \E f, s, t \in Sessions : Lineage!Rotate(f, s, t)
<1> DEFINE q == request[r]
<1>1. /\ q.token \in Sessions /\ Active(q.token) /\ Exists(q.token)
      /\ q.token \in q.locked \cap Scope(q)
      /\ Scope(q) \subseteq {q.token}
  BY RotationRevokesToken DEF Active, Exists, Scope
<1>2. PICK t \in Sessions :
          /\ ~Exists(t)
          /\ session'[t].status = "active"
          /\ session'[t].family = session[q.token].family
          /\ \A s \in Sessions \ {t} : session'[s] = Revoked(q)[s]
  BY RotatedRows
<1> DEFINE f == session[q.token].family
<1>3. f \in Sessions /\ Exists(f) /\ f # t
  BY <1>1, <1>2 DEF IInv, Lineages
<1>4. \A s \in Sessions \ {t} :
        /\ session'[s].user = session[s].user
        /\ session'[s].family = session[s].family
        /\ Exists(s)' <=> Exists(s)
        /\ Active(s)' <=> Active(s) /\ s \notin q.locked \cap Scope(q)
  BY <1>2, CommittedRow
<1> HIDE DEF q
<1>5. Exists(t)' /\ Active(t)' /\ ~Active(t)
  BY <1>2 DEF Exists, Active
<1>6. Used' = Used \cup {t} /\ t \notin Used
  BY <1>2, <1>4, <1>5 DEF Used
<1>7. ASSUME NEW g \in Sessions PROVE Owner(g)' = Owner(g)
  <2>1. CASE g = t
    BY <1>2, <1>3, <2>1, SentinelAssumption DEF Owner, LineageNames
  <2>2. CASE g # t
    BY <1>4, <2>2 DEF Owner
  <2> QED
    BY <2>1, <2>2
<1>8. Live(f) = {q.token}
  BY <1>1 DEF Live, IInv, OneActivePerLineage, SameLineage
<1>9. ASSUME NEW g \in Sessions
      PROVE  Live(g)' = IF g = f THEN {t} ELSE Live(g)
  <2>1. CASE g = f
    <3>1. \A s \in Sessions \ {t} : ~(Active(s)' /\ session'[s].family = f)
      BY <1>1, <1>4, <1>8 DEF Live
    <3> QED
      BY <1>2, <1>5, <2>1, <3>1 DEF Live
  <2>2. CASE g # f
    <3>1. \A s \in Sessions \ {t} :
              session[s].family = g => (Active(s)' <=> Active(s))
      BY <1>1, <1>4, <2>2
    <3> QED
      BY <1>2, <1>4, <1>5, <2>2, <3>1 DEF Live
  <2> QED
    BY <2>1, <2>2
<1> HIDE DEF f
<1>10. PICK h \in Sessions, s \in Sessions : h = f /\ s = q.token
  BY <1>1, <1>3
<1>11. Lineage!Rotate(h, s, t)
  BY <1>6, <1>7, <1>8, <1>9, <1>10, RotateSeen
<1> QED
  BY <1>11

\* A commit that revokes nothing changes no session.
LEMMA RevocationRefines ==
    ASSUME IInv, DInv, LineageNames,
           NEW r \in Requests, Commit(r), request[r].op # "refresh"
    PROVE  \/ session' = session
           \/ \E u \in Users, lineages \in SUBSET Sessions : Lineage!End(u, lineages)
<1> DEFINE q == request[r]
           ended == {s \in q.locked \cap Scope(q) : Active(s)}
           lineages == {session[s].family : s \in ended}
<1>1. session' = Revoked(q)
  BY DEF Commit
<1>2. CASE ended = {}
  BY <1>1, <1>2 DEF Revoked, IInv, TypeOK
<1>3. CASE ended # {}
  <2>1. \A s \in Sessions :
          /\ session'[s].user = session[s].user
          /\ session'[s].family = session[s].family
          /\ Exists(s)' <=> Exists(s)
          /\ Active(s)' <=> Active(s) /\ s \notin ended
    BY <1>1, CommittedRow
  <2>2. \A s \in ended :
          /\ s \in Sessions /\ Active(s) /\ Exists(s)
          /\ session[s].user = q.user /\ q.user \in Users
    BY RequestFacts DEF Scope, VisitsOK, Visits, LineageNames
  <2>3. \A f \in lineages : f \in Sessions /\ Owner(f) = q.user
    <3>1. ASSUME NEW s \in ended
          PROVE  /\ session[s].family \in Sessions
                 /\ Owner(session[s].family) = q.user
      <4>1. /\ session[s].family \in Sessions /\ Exists(session[s].family)
            /\ session[session[s].family].family = session[s].family
        BY <2>2 DEF IInv, Lineages, LineageNames
      <4>2. session[session[s].family].user = session[s].user
        BY <2>2, <4>1 DEF DInv, LineageUser, SameLineage
      <4> QED
        BY <2>2, <4>1, <4>2 DEF Owner
    <3> QED
      BY <3>1
  <2>4. Used' = Used
    BY <2>1 DEF Used
  <2>5. \A f \in Sessions : Owner(f)' = Owner(f)
    BY <2>1 DEF Owner
  <2>6. ASSUME NEW f \in Sessions
        PROVE  Live(f)' = IF f \in lineages THEN {} ELSE Live(f)
    <3>1. CASE f \in lineages
      <4>1. PICK s \in ended : session[s].family = f
        BY <3>1
      <4>2. \A t \in Sessions : Active(t) /\ session[t].family = f => t = s
        BY <2>2, <4>1 DEF IInv, OneActivePerLineage, SameLineage
      <4> QED
        BY <2>1, <3>1, <4>2 DEF Live
    <3>2. CASE f \notin lineages
      BY <2>1, <3>2 DEF Live
    <3> QED
      BY <3>1, <3>2
  <2> HIDE DEF ended
  <2>7. lineages \in SUBSET Sessions /\ q.user \in Users
    BY <1>3, <2>2, <2>3
  <2> HIDE DEF q, lineages
  <2>8. PICK u \in Users, L \in SUBSET Sessions : u = q.user /\ L = lineages
    BY <2>7
  <2>9. Lineage!End(u, L)
    BY <2>3, <2>4, <2>5, <2>6, <2>8, EndSeen
  <2> QED
    BY <2>9
<1> QED
  BY <1>2, <1>3

LEMMA LineageStep ==
    ASSUME IInv, DInv, LineageNames, [Next]_vars
    PROVE  [Lineage!Next]_Lineage!vars
<1>1. ASSUME session' = session PROVE UNCHANGED Lineage!vars
  BY <1>1 DEF Lineage!vars, Exists, Active
<1>2. ASSUME NEW u \in Users, NEW s \in Sessions, CreateSession(s, u)
      PROVE  Lineage!Next
  BY <1>2, CreateRefines DEF Lineage!Next
<1>3. ASSUME NEW r \in Requests, Commit(r), request[r].op = "refresh"
      PROVE  Lineage!Next
  BY <1>3, RotationRefines DEF Lineage!Next
<1>4. ASSUME NEW r \in Requests, Commit(r), request[r].op # "refresh"
      PROVE  [Lineage!Next]_Lineage!vars
  BY <1>1, <1>4, RevocationRefines DEF Lineage!Next
<1> QED
  BY <1>1, <1>2, <1>3, <1>4, SessionSteps

LEMMA LineageInit == Init => Lineage!Init /\ LineageNames
<1> SUFFICES ASSUME Init PROVE Lineage!Init /\ LineageNames
  OBVIOUS
<1>1. \A s \in Sessions : /\ ~Exists(s) /\ ~Active(s)
                          /\ session[s].family = NoSession
  BY DEF Init, Exists, Active, NoRow
<1> QED
  BY <1>1, SentinelAssumption DEF Lineage!Init, LineageNames

-----------------------------------------------------------------------------
(* Theorem *)

\* Logins, refreshes, logouts and revocations, whose statements interleave, take
\* effect as if each were one step on lineages of one user.
THEOREM ImplementsLineagesCorrect == Spec => ImplementsLineages
<1>1. IInv /\ DInv /\ LineageNames /\ [Next]_vars => LineageNames'
  BY NamesKept
<1>2. IInv /\ DInv /\ LineageNames /\ [Next]_vars => [Lineage!Next]_Lineage!vars
  BY LineageStep
<1> QED
  BY <1>1, <1>2, LineageInit, InductiveInvariant, DInvCorrect, PTL
  DEF Spec, ImplementsLineages, Lineage!Spec
=============================================================================
