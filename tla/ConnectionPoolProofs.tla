------------------------ MODULE ConnectionPoolProofs ------------------------
(* Theorems about ConnectionPool, for every pool and every finite load. *)
EXTENDS ConnectionPool, FiniteSetTheorems, TLAPS

-----------------------------------------------------------------------------
(* The inductive invariant *)

\* A transaction that is past its first statement keeps its connection, so the
\* statements before its commit have what they need.
CommitHasConnection == \A r \in Requests : at[r] = "commit" => conn[r] = 1

IInv == TypeOK /\ CommitHasConnection

\* Only so many pairs are connections: the sets of them are finite.
LEMMA PairsFinite == IsFiniteSet(Requests \X {1, 2})
<1>1. IsFiniteSet({1, 2})
  <2>1. IsFiniteSet({1}) /\ {1, 2} = {1} \cup {2}
    BY FS_Singleton
  <2> QED
    BY <2>1, FS_AddElement
<1> QED
  BY <1>1, RequestsAssumption, FS_Product

LEMMA ConnectionsFinite ==
    /\ IsFiniteSet(Connections)
    /\ InUse \in Nat
<1>1. Connections \subseteq Requests \X {1, 2}
  BY DEF Connections
<1>2. IsFiniteSet(Connections)
  BY <1>1, PairsFinite, FS_Subset
<1> QED
  BY <1>2, FS_CardinalityType DEF InUse

LEMMA NeedsType == \A s : Needs(s) \in 0 .. 2
  BY DEF Needs

LEMMA InitIInv == Init => IInv
<1> SUFFICES ASSUME Init PROVE IInv
  OBVIOUS
<1>1. Connections = {}
  BY DEF Init, Connections
<1>2. InUse <= MaxOpen
  BY <1>1, FS_EmptySet, MaxOpenAssumption DEF InUse
<1>3. \A r \in Requests : conn[r] <= Needs(at[r])
  BY DEF Init, Needs
<1> QED
  BY <1>2, <1>3 DEF Init, IInv, TypeOK, CommitHasConnection

-----------------------------------------------------------------------------
(* The steps *)

\* A statement that takes over connections of the one before it.
LEMMA GotoStep ==
    ASSUME IInv, NEW r \in Requests,
           NEW s \in Statements \cup {"idle"}, NEW c \in 0 .. 2,
           Goto(r, s, c), c <= conn[r], c <= Needs(s), s = "commit" => c = 1,
           kind' \in [Requests -> Kinds \cup {"none"}],
           project' \in [Requests -> Projects \cup {NoProject}]
    PROVE  IInv'
<1> USE DEF IInv, TypeOK
<1>1. /\ at' \in [Requests -> Statements \cup {"idle"}]
      /\ conn' \in [Requests -> 0 .. 2]
      /\ \A q \in Requests : conn'[q] <= Needs(at'[q])
  BY DEF Goto
<1>2. InUse' <= MaxOpen
  <2>1. Connections' \subseteq Connections
    BY DEF Connections, Goto
  <2>2. InUse' <= InUse
    BY <2>1, ConnectionsFinite, FS_Subset DEF InUse
  <2>3. InUse' \in Nat
    BY <2>1, ConnectionsFinite, FS_Subset, FS_CardinalityType DEF InUse
  <2> QED
    BY <2>2, <2>3, ConnectionsFinite, MaxOpenAssumption
<1>3. CommitHasConnection'
  BY DEF CommitHasConnection, Goto
<1> QED
  BY <1>1, <1>2, <1>3

LEMMA EndStep ==
    ASSUME IInv, NEW r \in Requests, End(r)
    PROVE  IInv'
<1>1. 0 <= conn[r] /\ 0 <= Needs("idle")
  BY DEF IInv, TypeOK, Needs
<1> QED
  BY <1>1, GotoStep DEF End, IInv, TypeOK

LEMMA NextGateStep ==
    ASSUME IInv, NEW r \in Requests, NEW s \in Gates, NextGate(r, s)
    PROVE  IInv'
<1>1. 0 <= conn[r] /\ 0 <= Needs(s) /\ s \in Statements /\ s # "commit"
  BY DEF IInv, TypeOK, Needs, Gates, Statements
<1> QED
  BY <1>1, GotoStep DEF NextGate, IInv, TypeOK

LEMMA HandleStep ==
    ASSUME IInv, NEW r \in Requests, Handle(r)
    PROVE  IInv'
<1>1. PICK s \in {"lock", "query", "nested"} : Goto(r, s, 0)
  BY DEF Handle
<1>2. /\ kind' \in [Requests -> Kinds \cup {"none"}]
      /\ project' \in [Requests -> Projects \cup {NoProject}]
  BY DEF Handle, LocksRow, Kinds, IInv, TypeOK
<1>3. 0 <= conn[r] /\ 0 <= Needs(s) /\ s \in Statements
  BY <1>1 DEF IInv, TypeOK, Needs, Statements
<1> QED
  BY <1>1, <1>2, <1>3, GotoStep

\* The pool has room for the connection that it gives.
LEMMA AcquireStep ==
    ASSUME IInv, NEW r \in Requests, Acquire(r)
    PROVE  IInv'
<1> USE DEF IInv, TypeOK
<1>1. /\ conn' \in [Requests -> 0 .. 2]
      /\ \A q \in Requests : conn'[q] <= Needs(at'[q])
  BY NeedsType DEF Acquire
<1>2. InUse' <= MaxOpen
  <2> DEFINE c == <<r, conn[r] + 1>>
  <2>1. c \notin Connections
    BY DEF Connections
  <2>2. Connections' = Connections \cup {c}
    BY <1>1, NeedsType DEF Connections, Acquire
  <2>3. Cardinality(Connections') = Cardinality(Connections) + 1
    BY <2>1, <2>2, ConnectionsFinite, FS_AddElement
  <2> QED
    BY <2>3, ConnectionsFinite, MaxOpenAssumption DEF InUse, Acquire
<1>3. CommitHasConnection'
  BY DEF CommitHasConnection, Acquire, Needs
<1> QED
  BY <1>1, <1>2, <1>3 DEF Acquire

LEMMA GateStep ==
    ASSUME IInv, NEW r \in Requests,
           \/ RequireAuth(r) \/ LoadOrg(r) \/ RequireMembership(r)
           \/ RequirePermission(r) \/ RecordDecision(r) \/ Arrive(r)
    PROVE  IInv'
<1>1. \/ \E s \in Gates : NextGate(r, s)
      \/ Handle(r)
      \/ End(r)
  BY DEF RequireAuth, LoadOrg, RequireMembership, RequirePermission,
         RecordDecision, Arrive, Gates
<1> QED
  BY <1>1, NextGateStep, HandleStep, EndStep

LEMMA HandlerStep ==
    ASSUME IInv, NEW r \in Requests,
           Query(r) \/ LockProject(r) \/ Nested(r) \/ Commit(r)
    PROVE  IInv'
<1> USE DEF IInv, TypeOK
<1>1. \/ End(r)
      \/ /\ \/ \E s \in {"nested", "query"} : Goto(r, s, 0)
            \/ conn[r] >= 1 /\ \E s \in {"nested", "commit"} : Goto(r, s, 1)
         /\ kind' \in [Requests -> Kinds \cup {"none"}]
         /\ project' \in [Requests -> Projects \cup {NoProject}]
  BY DEF Query, LockProject, Nested, Commit, Runs, Needs, Kinds
<1>2. {"nested", "query", "commit"} \subseteq Statements
  BY DEF Statements
<1>3. /\ 0 <= conn[r]
      /\ \A s : 0 <= Needs(s)
      /\ \A s \in {"nested", "commit"} : 1 <= Needs(s)
  BY DEF Needs
<1> QED
  BY <1>1, <1>2, <1>3, EndStep, GotoStep

LEMMA StepIInv == IInv /\ [Next]_vars => IInv'
<1> SUFFICES ASSUME IInv, [Next]_vars PROVE IInv'
  OBVIOUS
<1>1. CASE UNCHANGED vars
  BY <1>1 DEF vars, IInv, TypeOK, CommitHasConnection, InUse, Connections
<1>2. ASSUME NEW r \in Requests, Proceed(r) \/ Arrive(r)
      PROVE  IInv'
  BY <1>2, GateStep, HandlerStep DEF Proceed
<1>3. ASSUME NEW r \in Requests, IsGranted(r)
      PROVE  IInv'
  BY <1>3, AcquireStep, HandlerStep DEF IsGranted
<1>4. ASSUME NEW r \in Requests, Timeout(r) \/ Disconnect(r)
      PROVE  IInv'
  BY <1>4, EndStep DEF Timeout, Disconnect
<1> QED
  BY <1>1, <1>2, <1>3, <1>4 DEF Next

-----------------------------------------------------------------------------
(* What follows *)

\* Every reachable state is well typed; in particular the pool never opens more
\* than MaxOpen connections.
THEOREM TypeCorrect == Spec => []TypeOK
<1>1. IInv => TypeOK
  BY DEF IInv
<1> QED
  BY <1>1, InitIInv, StepIInv, PTL DEF Spec

\* In a stall, whoever has a connection waits for its second one, or for the row
\* of a transaction that does.
LEMMA StalledHolders ==
    ASSUME IInv, Stalled, NEW r \in Requests, conn[r] > 0
    PROVE  \/ at[r] = "nested"
           \/ /\ at[r] = "lock"
              /\ \E q \in Requests : at[q] = "nested" /\ HoldsRow(q, project[r])
<1> USE DEF IInv, TypeOK
<1>1. at[r] # "idle"
  BY DEF Needs
<1>2. CASE AwaitsConnection(r)
  BY <1>2 DEF AwaitsConnection, Needs
<1>3. CASE AwaitsRow(r)
  <2>1. PICK q \in Requests : HoldsRow(q, project[r])
    BY <1>3 DEF AwaitsRow, RowFree
  <2>2. at[q] # "commit"
    BY DEF Stalled, AwaitsConnection, AwaitsRow, Runs, Needs, CommitHasConnection
  <2> QED
    BY <1>3, <2>1, <2>2 DEF HoldsRow, AwaitsRow, Runs
<1> QED
  BY <1>1, <1>2, <1>3 DEF Stalled

LEMMA NestingInAStall ==
    ASSUME IInv, Stalled
    PROVE  \E r \in Requests : at[r] = "nested"
<1>1. PICK r \in Requests :
          at[r] # "idle" /\ (AwaitsConnection(r) \/ AwaitsRow(r))
  BY DEF Stalled
<1>2. \E q \in Requests : conn[q] > 0
  <2>1. CASE AwaitsConnection(r)
    <3>1. Connections # {}
      BY <2>1, ConnectionsFinite, FS_EmptySet, MaxOpenAssumption
      DEF AwaitsConnection, InUse
    <3> QED
      BY <3>1 DEF Connections, IInv, TypeOK
  <2>2. CASE AwaitsRow(r)
    BY <2>2 DEF AwaitsRow, Runs, Needs
  <2> QED
    BY <1>1, <2>1, <2>2
<1> QED
  BY <1>2, StalledHolders

\* A server whose transactions do not query the pool never stalls, whatever the
\* size of its pool and the load.
THEOREM StallsNeedNestingCorrect == Spec => []StallsNeedNesting
<1>1. IInv => StallsNeedNesting
  BY NestingInAStall, StalledHolders DEF StallsNeedNesting
<1> QED
  BY <1>1, InitIInv, StepIInv, PTL DEF Spec

\* A request of a stalled server that has a connection has one and no more, so
\* that each connection is with another of them.
THEOREM StallsTakeTheWholePoolCorrect == Spec => []StallsTakeTheWholePool
<1>1. ASSUME IInv, Stalled
      PROVE  Cardinality({r \in Requests : at[r] # "idle" /\ conn[r] > 0}) = MaxOpen
  <2> DEFINE holders == {r \in Requests : at[r] # "idle" /\ conn[r] > 0}
             first == [r \in holders |-> <<r, 1>>]
  <2>1. \A r \in Requests : conn[r] \in {0, 1}
    <3> SUFFICES ASSUME NEW r \in Requests, conn[r] = 2 PROVE FALSE
      BY <1>1 DEF IInv, TypeOK
    <3>1. Needs(at[r]) = 2 /\ at[r] = "nested"
      BY <1>1 DEF IInv, TypeOK, Needs
    <3> QED
      BY <1>1, <3>1 DEF Stalled, AwaitsConnection, AwaitsRow, Runs
  <2>2. Connections = {<<r, 1>> : r \in holders}
    BY <1>1, <2>1 DEF Connections, IInv, TypeOK, Needs
  <2>3. first \in Bijection(holders, Connections)
    <3>1. first \in [holders -> Connections]
      BY <2>2
    <3>2. \A q, r \in holders : first[q] = first[r] => q = r
      OBVIOUS
    <3>3. \A c \in Connections : \E r \in holders : first[r] = c
      BY <2>2
    <3> HIDE DEF holders, first
    <3> QED
      BY <3>1, <3>2, <3>3 DEF Bijection, Injection, Surjection, IsInjective
  <2>4. Cardinality(holders) = InUse
    <3>1. IsFiniteSet(holders)
      BY RequestsAssumption, FS_Subset
    <3> HIDE DEF holders, first
    <3> QED
      BY <2>3, <3>1, FS_Bijection DEF InUse, ExistsBijection
  <2>5. InUse = MaxOpen
    <3>1. PICK q \in Requests : at[q] = "nested"
      BY <1>1, NestingInAStall
    <3>2. AwaitsConnection(q)
      BY <1>1, <3>1 DEF Stalled, AwaitsRow, Runs
    <3> QED
      BY <1>1, <3>2, ConnectionsFinite, MaxOpenAssumption
      DEF AwaitsConnection, IInv, TypeOK
  <2> QED
    BY <2>4, <2>5
<1>2. IInv => StallsTakeTheWholePool
  BY <1>1 DEF StallsTakeTheWholePool
<1> QED
  BY <1>2, InitIInv, StepIInv, PTL DEF Spec
=============================================================================
