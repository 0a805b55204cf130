----------------------- MODULE ProjectLifecycleSteps -----------------------
(***************************************************************************)
(* Theorems about the steps of ProjectLifecycle, for every value of its    *)
(* constants: what a step may never do, and the refinements of             *)
(* ClientAccess and of ApprovalProtocol.                                   *)
(***************************************************************************)
EXTENDS ProjectLifecycleProofs

-----------------------------------------------------------------------------
(* Rows *)

\* A project that was not created has neither a client nor a deletion.
NotCreatedIsUnused ==
    \A p \in Projects :
        project[p].status = "none" =>
            ~project[p].deleted /\ project[p].client = NoUser

\* A handler of a project leaves a created row of that project.
LEMMA ProjectRowStep ==
    ASSUME TypeOK, NEW p \in Projects, ProjectNext(p)
    PROVE  /\ project'[p] \in ProjectRow
           /\ project'[p].status # "none"
           /\ \A q \in Projects \ {p} : project'[q] = project[q]
<1> USE DEF TypeOK
<1>1. TypeOK'
  BY ProjectTypeOK
<1>2. ASSUME NEW d \in Details, CreateProject(p, d)
      PROVE  project' = [project EXCEPT ![p] = NewProject(d)]
  BY <1>2 DEF CreateProject
<1>3. ASSUME NEW next \in ProjectStatus, NEW d \in Details, UpdateProject(p, next, d)
      PROVE  project'[p].status = next
  BY <1>3 DEF UpdateProject, ProjectRow
<1>4. ASSUME \/ RestoreProject(p) \/ DeleteProject(p)
             \/ \E l \in Limits \cup {NoLimit} : SetProjectRevisionLimit(p, l)
             \/ \E u \in Users : AssignClient(p, u)
             \/ UnassignClient(p)
      PROVE  project'[p].status # "none"
  BY <1>4
  DEF RestoreProject, DeleteProject, SetProjectRevisionLimit, AssignClient,
      UnassignClient, Mutable, Live, ProjectRow
<1>5. project'[p].status # "none"
  BY <1>2, <1>3, <1>4 DEF ProjectNext, NewProject, ProjectStatus
<1>6. \A q \in Projects \ {p} : project'[q] = project[q]
  BY DEF ProjectNext, CreateProject, UpdateProject, RestoreProject,
         DeleteProject, SetProjectRevisionLimit, AssignClient, UnassignClient
<1> QED
  BY <1>1, <1>5, <1>6

\* The other handlers leave the projects table alone.
LEMMA OthersKeepProjects ==
    ASSUME \/ \E m \in Milestones : MilestoneNext(m)
           \/ \E u \in Users : ClientNext(u)
    PROVE  /\ project' = project
           /\ (\E m \in Milestones : MilestoneNext(m)) => members' = members
  BY DEF ClientNext, ProvisionClient, RemoveClient, MilestoneNext,
         CreateMilestone, UpdateMilestone, UpdateMilestoneStatus,
         SubmitMilestone, ApproveMilestone, RequestMilestoneChanges, Decide,
         CreateDeliverable, DeleteDeliverable, UpdateMilestonePaymentStatus,
         SetMilestoneRevisionLimit, milestoneTables

LEMMA UnusedStep ==
    ASSUME TypeOK, NotCreatedIsUnused, [Next]_vars
    PROVE  NotCreatedIsUnused'
<1>1. CASE project' = project
  BY <1>1 DEF NotCreatedIsUnused
<1>2. ASSUME NEW p \in Projects, ProjectNext(p)
      PROVE  NotCreatedIsUnused'
  BY <1>2, ProjectRowStep DEF NotCreatedIsUnused
<1> QED
  BY <1>1, <1>2, OthersKeepProjects DEF Next, vars

LEMMA UnusedCorrect == Spec => []NotCreatedIsUnused
<1>1. Init => NotCreatedIsUnused
  BY DEF Init, NewProject, NotCreatedIsUnused
<1> QED
  BY <1>1, UnusedStep, TypeCorrect, PTL DEF Spec

-----------------------------------------------------------------------------
(* Closed projects and milestones *)

\* A handler of a milestone finds its project open and keeps to its own rows; a
\* milestone that it creates is in an open project.
LEMMA MilestoneFrame ==
    ASSUME TypeOK, NEW m \in Milestones, MilestoneNext(m)
    PROVE  /\ project' = project
           /\ \A k \in Milestones \ {m} :
                /\ milestone'[k] = milestone[k]
                /\ deliverables'[k] = deliverables[k]
                /\ revisions'[k] = revisions[k]
                /\ verdicts'[k] = verdicts[k]
           /\ \/ /\ MutableMilestone(m)
                 /\ milestone'[m].project = milestone[m].project
              \/ /\ milestone[m].project = NoProject
                 /\ Mutable(milestone'[m].project)
<1>1. /\ milestone \in [Milestones -> MilestoneRow]
      /\ milestone[m] \in MilestoneRow
  BY DEF TypeOK
<1>2. ASSUME NEW p \in Projects, NEW d \in Details, CreateMilestone(m, p, d)
      PROVE  /\ milestone'[m].project = p
             /\ milestone[m].project = NoProject
             /\ Mutable(p)
  BY <1>1, <1>2 DEF CreateMilestone, NewMilestone
<1>3. ASSUME \/ SubmitMilestone(m)
             \/ \E next \in MilestoneStatus : UpdateMilestoneStatus(m, next)
      PROVE  MutableMilestone(m) /\ milestone'[m].project = milestone[m].project
  <2>1. MutableMilestone(m)
    BY <1>3, Zenon DEF SubmitMilestone, UpdateMilestoneStatus
  <2>2. ASSUME NEW st, NEW n,
               milestone' = [milestone EXCEPT ![m] =
                    [milestone[m] EXCEPT !.status = st, !.revisionCount = n]]
        PROVE  milestone'[m].project = milestone[m].project
    BY <1>1, <2>2 DEF MilestoneRow
  <2>3. ASSUME NEW st, NEW at,
               milestone' = [milestone EXCEPT ![m] =
                    [milestone[m] EXCEPT !.status = st, !.completedAt = at]]
        PROVE  milestone'[m].project = milestone[m].project
    BY <1>1, <2>3 DEF MilestoneRow
  <2> QED
    BY <1>3, <2>1, <2>2, <2>3, Zenon DEF SubmitMilestone, UpdateMilestoneStatus
<1>4. ASSUME NEW u \in Users, ApproveMilestone(m, u) \/ RequestMilestoneChanges(m, u)
      PROVE  MutableMilestone(m) /\ milestone'[m].project = milestone[m].project
  BY <1>1, <1>4
  DEF ApproveMilestone, RequestMilestoneChanges, Decide, MilestoneRow
<1>5. ASSUME NEW d \in Deliverables, CreateDeliverable(m, d) \/ DeleteDeliverable(m, d)
      PROVE  MutableMilestone(m) /\ milestone'[m].project = milestone[m].project
  BY <1>5 DEF CreateDeliverable, DeleteDeliverable, DeliverablesOpen
<1>6. ASSUME \/ \E d \in Details : UpdateMilestone(m, d)
             \/ \E next \in PaymentStatus : UpdateMilestonePaymentStatus(m, next)
             \/ \E l \in Limits \cup {NoLimit} : SetMilestoneRevisionLimit(m, l)
      PROVE  MutableMilestone(m) /\ milestone'[m].project = milestone[m].project
  BY <1>1, <1>6
  DEF UpdateMilestone, UpdateMilestonePaymentStatus,
      SetMilestoneRevisionLimit, MilestoneRow
<1>7. \A k \in Milestones \ {m} :
        /\ milestone'[k] = milestone[k]
        /\ deliverables'[k] = deliverables[k]
        /\ revisions'[k] = revisions[k]
        /\ verdicts'[k] = verdicts[k]
  BY DEF TypeOK, MilestoneNext, CreateMilestone, UpdateMilestone,
      UpdateMilestoneStatus, SubmitMilestone, ApproveMilestone,
      RequestMilestoneChanges, Decide, CreateDeliverable, DeleteDeliverable,
      UpdateMilestonePaymentStatus, SetMilestoneRevisionLimit
<1> QED
  BY <1>2, <1>3, <1>4, <1>5, <1>6, <1>7, OthersKeepProjects DEF MilestoneNext

LEMMA OthersKeepMilestones ==
    ASSUME \/ \E p \in Projects : ProjectNext(p)
           \/ \E u \in Users : ClientNext(u)
    PROVE  UNCHANGED milestoneTables
  BY DEF ProjectNext, CreateProject, UpdateProject, RestoreProject,
         DeleteProject, SetProjectRevisionLimit, AssignClient, UnassignClient,
         ClientNext, ProvisionClient, RemoveClient, milestoneTables

\* A handler of a closed project restores it or deletes it.
LEMMA ClosedProjectStep ==
    ASSUME TypeOK, NotCreatedIsUnused, NEW p \in Projects,
           project[p].deleted \/ Frozen(p), ProjectNext(p)
    PROVE  project'[p] \in ClosedSuccessors(p)
<1>1. ~Mutable(p)
  BY DEF Mutable, Live
<1>2. project[p].status # "none"
  BY DEF NotCreatedIsUnused, Frozen
<1>3. CASE RestoreProject(p)
  BY <1>3 DEF RestoreProject, Live, ClosedSuccessors, TypeOK, ProjectRow
<1>4. CASE DeleteProject(p)
  BY <1>4 DEF DeleteProject, Live, ClosedSuccessors, TypeOK, ProjectRow
<1> QED
  BY <1>1, <1>2, <1>3, <1>4
  DEF ProjectNext, CreateProject, UpdateProject, SetProjectRevisionLimit,
      AssignClient, UnassignClient

\* Nothing under an archived, cancelled or deleted project changes, and the
\* project only by its restore or its deletion: no handler misses the freeze.
THEOREM ClosedProjectCorrect == Spec => ClosedProjectIsReadOnly
<1> DEFINE Kept(m) ==
        /\ milestone'[m] = milestone[m]
        /\ deliverables'[m] = deliverables[m]
        /\ revisions'[m] = revisions[m]
        /\ verdicts'[m] = verdicts[m]
<1>1. ASSUME TypeOK, NotCreatedIsUnused, Next, NEW p \in Projects,
             project[p].deleted \/ Frozen(p)
      PROVE  /\ project'[p] \in ClosedSuccessors(p)
             /\ \A m \in Milestones :
                    milestone[m].project = p \/ milestone'[m].project = p => Kept(m)
  <2>1. project[p] \in ClosedSuccessors(p) /\ ~Mutable(p)
    BY <1>1 DEF ClosedSuccessors, Mutable, Live
  <2>2. ASSUME NEW q \in Projects, ProjectNext(q)
        PROVE  project'[p] \in ClosedSuccessors(p)
    BY <1>1, <2>1, <2>2, ClosedProjectStep, ProjectRowStep
  <2>3. ASSUME NEW k \in Milestones, MilestoneNext(k), NEW m \in Milestones,
               milestone[m].project = p \/ milestone'[m].project = p
        PROVE  Kept(m)
    BY <1>1, <2>1, <2>3, MilestoneFrame, SentinelAssumption DEF MutableMilestone
  <2> QED
    BY <1>1, <2>1, <2>2, <2>3, OthersKeepProjects, OthersKeepMilestones
    DEF Next, milestoneTables
<1>2. TypeOK /\ NotCreatedIsUnused /\ [Next]_vars =>
        [\A p \in Projects :
            project[p].deleted \/ Frozen(p) =>
                /\ project'[p] \in ClosedSuccessors(p)
                /\ \A m \in Milestones :
                    milestone[m].project = p \/ milestone'[m].project = p =>
                        Kept(m)]_vars
  BY <1>1
<1> QED
  BY <1>2, UnusedCorrect, TypeCorrect, PTL DEF Spec, ClosedProjectIsReadOnly

\* A completed or cancelled milestone keeps its status, its deliverables, its
\* rounds and their verdicts; an approved one can only be completed.
THEOREM TerminalMilestoneCorrect == Spec => TerminalMilestoneIsClosed
<1> DEFINE Closed(m) ==
        /\ milestone[m].status \in {"completed", "cancelled"} =>
            /\ milestone'[m].status = milestone[m].status
            /\ deliverables'[m] = deliverables[m]
            /\ revisions'[m] = revisions[m]
            /\ verdicts'[m] = verdicts[m]
        /\ milestone[m].status = "approved" =>
            milestone'[m].status \in {"approved", "completed"}
<1>1. ASSUME TypeOK, ApprovalInv, NEW m \in Milestones, MilestoneNext(m)
      PROVE  Closed(m)
  <2> USE <1>1 DEF TypeOK
  <2>1. milestone[m] \in MilestoneRow
    OBVIOUS
  <2>2. ASSUME NEW p \in Projects, NEW d \in Details, CreateMilestone(m, p, d)
        PROVE  Closed(m)
    BY <2>2 DEF CreateMilestone, ApprovalInv, NotCreatedIsPristine
  <2>3. ASSUME NEW next \in MilestoneStatus, UpdateMilestoneStatus(m, next)
        PROVE  Closed(m)
    <3>1. /\ milestone[m].status \notin {"completed", "cancelled"}
          /\ milestone[m].status = "approved" => next = "completed"
      BY <2>3 DEF UpdateMilestoneStatus, MilestoneTransitions
    <3>2. milestone'[m].status = next
      BY <2>1, <2>3 DEF UpdateMilestoneStatus, MilestoneRow
    <3> QED
      BY <3>1, <3>2
  <2>4. ASSUME \/ SubmitMilestone(m)
               \/ \E u \in Users : ApproveMilestone(m, u)
               \/ \E u \in Users : RequestMilestoneChanges(m, u)
        PROVE  Closed(m)
    BY <2>4 DEF SubmitMilestone, ApproveMilestone, RequestMilestoneChanges,
                Decide, AwaitsDecision
  <2>5. ASSUME \/ \E d \in Deliverables : CreateDeliverable(m, d)
               \/ \E d \in Deliverables : DeleteDeliverable(m, d)
        PROVE  Closed(m)
    BY <2>5 DEF CreateDeliverable, DeleteDeliverable, DeliverablesOpen
  <2>6. ASSUME \/ \E d \in Details : UpdateMilestone(m, d)
               \/ \E next \in PaymentStatus : UpdateMilestonePaymentStatus(m, next)
               \/ \E l \in Limits \cup {NoLimit} : SetMilestoneRevisionLimit(m, l)
        PROVE  Closed(m)
    BY <2>1, <2>6 DEF UpdateMilestone, UpdateMilestonePaymentStatus,
                      SetMilestoneRevisionLimit, MilestoneRow
  <2> QED
    BY <2>2, <2>3, <2>4, <2>5, <2>6 DEF MilestoneNext
<1>2. ASSUME TypeOK, ApprovalInv, Next, NEW m \in Milestones
      PROVE  Closed(m)
  <2>1. ASSUME NEW k \in Milestones, MilestoneNext(k)
        PROVE  Closed(m)
    BY <1>1, <1>2, <2>1, MilestoneFrame
  <2> QED
    BY <1>2, <2>1, OthersKeepMilestones DEF Next, milestoneTables
<1>3. TypeOK /\ ApprovalInv /\ [Next]_vars => [\A m \in Milestones : Closed(m)]_vars
  BY <1>2
<1> QED
  BY <1>3, ApprovalCorrect, TypeCorrect, PTL DEF Spec, TerminalMilestoneIsClosed

-----------------------------------------------------------------------------
(* The prune *)

\* A displaced client keeps the membership exactly when another live project
\* still names them, whatever became of the projects before.
THEOREM DisplacedClientCorrect == Spec => DisplacedClientIsPruned
<1>1. ASSUME TypeOK, NotCreatedIsUnused, ClientIsMember, Next,
             NEW p \in Projects, NEW u \in Users, project[p].client = u,
             project'[p].client # u
      PROVE  u \in members' <=> ClientHasProjects(u)'
  <2>1. ProjectNext(p)
    <3>1. ASSUME NEW q \in Projects, ProjectNext(q), q # p
          PROVE  FALSE
      BY <1>1, <3>1, ProjectRowStep
    <3> QED
      BY <1>1, <3>1, OthersKeepProjects DEF Next
  <2>2. \/ \E d \in Details : CreateProject(p, d)
        \/ members' = MembersAfterPrune(u, p)
    <3>1. project[p] \in ProjectRow /\ u # NoUser
      BY <1>1, SentinelAssumption DEF TypeOK
    <3>2. ASSUME \/ \E next \in ProjectStatus, d \in Details : UpdateProject(p, next, d)
                 \/ RestoreProject(p)
                 \/ DeleteProject(p)
                 \/ \E l \in Limits \cup {NoLimit} : SetProjectRevisionLimit(p, l)
          PROVE  project'[p].client = project[p].client
      BY <1>1, <3>1, <3>2
      DEF UpdateProject, RestoreProject, DeleteProject,
          SetProjectRevisionLimit, TypeOK, ProjectRow
    <3>3. ASSUME \/ \E v \in Users : AssignClient(p, v)
                 \/ UnassignClient(p)
          PROVE  members' = MembersAfterPrune(u, p)
      BY <1>1, <3>1, <3>3 DEF AssignClient, UnassignClient
    <3> QED
      BY <1>1, <2>1, <3>2, <3>3 DEF ProjectNext
  <2>3. ~\E d \in Details : CreateProject(p, d)
    BY <1>1, SentinelAssumption DEF CreateProject, NotCreatedIsUnused
  <2>4. ClientHasProjects(u)' <=> AttachedElsewhere(u, p)
    BY <1>1, <2>1, ProjectRowStep DEF ClientHasProjects, AttachedElsewhere, Live
  <2>5. AttachedElsewhere(u, p) => u \in members
    BY <1>1, SentinelAssumption DEF AttachedElsewhere, ClientIsMember
  <2> QED
    BY <2>2, <2>3, <2>4, <2>5 DEF MembersAfterPrune
<1>2. TypeOK /\ NotCreatedIsUnused /\ ClientIsMember /\ [Next]_vars =>
        [\A p \in Projects, u \in Users :
            project[p].client = u /\ project'[p].client # u =>
                (u \in members' <=> ClientHasProjects(u)')]_vars
  BY <1>1
<1> QED
  BY <1>2, UnusedCorrect, ClientIsMemberCorrect, TypeCorrect, PTL
  DEF Spec, DisplacedClientIsPruned

-----------------------------------------------------------------------------
(* The refinement of ClientAccess *)

LEMMA InitRefines == Init => Access!Init
<1> SUFFICES ASSUME Init PROVE Access!Init
  OBVIOUS
<1>1. \A p \in Projects :
        /\ project[p].status = "none"
        /\ project[p].deleted = FALSE
        /\ project[p].client = NoUser
  <2>1. PICK d \in Details :
            project = [p \in Projects |-> [NewProject(d) EXCEPT !.status = "none"]]
    BY Zenon DEF Init
  <2> QED
    BY <2>1 DEF NewProject
<1>2. \A p \in Projects : Phase(p) = "open"
  BY <1>1 DEF Phase, Frozen
<1> QED
  BY <1>1, <1>2 DEF Access!Init, Init

\* The phases of rows.
LEMMA Phases ==
    ASSUME TypeOK, NEW p \in Projects
    PROVE  /\ Mutable(p) => Phase(p) = "open"
           /\ Live(p) => Phase(p) \in {"open", "archived", "cancelled"}
           /\ Live(p) /\ project[p].status = "archived" => Phase(p) = "archived"
  BY DEF Mutable, Live, Frozen, Phase

\* Who is attached to a project is so to ClientAccess.
LEMMA AttachedMeansNamed ==
    ASSUME TypeOK, NotCreatedIsUnused, NEW u \in Users, NEW p \in Projects
    PROVE  /\ Access!Attached(u, {p}) <=> AttachedElsewhere(u, p)
           /\ Access!Attached(u, {}) <=> ClientHasProjects(u)
           /\ AttachedElsewhere(u, p) =>
                \E q \in Projects \ {p} : project[q].client = u
<1>1. \A q \in Projects : Phase(q) = "deleted" <=> project[q].deleted
  BY DEF TypeOK, ProjectRow, Phase, Frozen
<1>2. \A q \in Projects : project[q].client = u => project[q].status # "none"
  BY SentinelAssumption DEF NotCreatedIsUnused
<1> QED
  BY <1>1, <1>2
  DEF Access!Attached, Access!Live, AttachedElsewhere, ClientHasProjects, Live

\* A step that changes one project changes the phase of no other.
LEMMA PhasesKept ==
    ASSUME NEW p \in Projects, NEW x,
           \A q \in Projects \ {p} : project'[q] = project[q], Phase(p)' = x
    PROVE  [q \in Projects |-> Phase(q)]' =
                [[q \in Projects |-> Phase(q)] EXCEPT ![p] = x]
<1>1. \A q \in Projects \ {p} : Phase(q)' = Phase(q)
  BY DEF Phase, Frozen
<1> QED
  BY <1>1

LEMMA ClientsKept ==
    ASSUME NEW p \in Projects, NEW u,
           \A q \in Projects \ {p} : project'[q] = project[q],
           project'[p].client = u
    PROVE  [q \in Projects |-> project[q].client]' =
                [[q \in Projects |-> project[q].client] EXCEPT ![p] = u]
  OBVIOUS

\* A handler that leaves the client alone changes the phase, or nothing that
\* ClientAccess sees.
LEMMA LifecycleRefines ==
    ASSUME TypeOK, NotCreatedIsUnused, NEW p \in Projects, ProjectNext(p),
           project'[p].client = project[p].client, members' = members,
           \/ Phase(p)' = Phase(p)
           \/ Phase(p)' \in Access!PhaseTransitions[Phase(p)]
    PROVE  [Access!Next]_(Access!vars)
<1>1. [q \in Projects |-> project[q].client]' = [q \in Projects |-> project[q].client]
  BY ProjectRowStep
<1>2. CASE Phase(p)' = Phase(p)
  <2>1. [q \in Projects |-> Phase(q)]' = [q \in Projects |-> Phase(q)]
    BY <1>2, PhasesKept, ProjectRowStep
  <2> QED
    BY <1>1, <2>1 DEF Access!vars
<1>3. CASE Phase(p)' \in Access!PhaseTransitions[Phase(p)]
  <2>1. PICK next \in Access!Phases : next = Phase(p)'
    BY <1>3 DEF Access!PhaseTransitions, Access!Phases, Phase, Frozen
  <2>2. [q \in Projects |-> Phase(q)]' =
            [[q \in Projects |-> Phase(q)] EXCEPT ![p] = next]
    BY <2>1, PhasesKept, ProjectRowStep
  <2>3. Access!ChangePhase(p, next)
    BY <1>1, <1>3, <2>1, <2>2 DEF Access!ChangePhase
  <2> QED
    BY <2>3 DEF Access!Next
<1> QED
  BY <1>2, <1>3

\* The client endpoint is ChangeClient.
LEMMA ClientRefines ==
    ASSUME TypeOK, NotCreatedIsUnused, NEW p \in Projects,
           NEW u \in Users \cup {NoUser}, u \in members \cup {NoUser},
           Mutable(p), project[p].client # u,
           project' = [project EXCEPT ![p].client = u],
           members' = IF project[p].client = NoUser THEN members
                      ELSE MembersAfterPrune(project[p].client, p)
    PROVE  Access!ChangeClient(p, u)
<1> DEFINE old == project[p].client
<1>1. /\ project[p] \in ProjectRow
      /\ project'[p] = [project[p] EXCEPT !.client = u]
      /\ \A q \in Projects \ {p} : project'[q] = project[q]
  BY DEF TypeOK
<1>2. /\ project'[p].client = u
      /\ project'[p].status = project[p].status
      /\ project'[p].deleted = project[p].deleted
  BY <1>1 DEF ProjectRow
<1>3. [q \in Projects |-> project[q].client]' =
          [[q \in Projects |-> project[q].client] EXCEPT ![p] = u]
  BY <1>1, <1>2, ClientsKept
<1>4. [q \in Projects |-> Phase(q)]' = [q \in Projects |-> Phase(q)]
  BY <1>1, <1>2 DEF Phase, Frozen
<1>5. \/ members' = members /\ (old = NoUser \/ \E q \in Projects \ {p} : project[q].client = old)
      \/ members' = members \ {old} /\ old # NoUser /\ ~Access!Attached(old, {p})
  <2>1. CASE old = NoUser
    BY <2>1
  <2>2. CASE old # NoUser
    <3>1. old \in Users
      BY <1>1, <2>2 DEF ProjectRow
    <3> QED
      BY <2>2, <3>1, AttachedMeansNamed DEF MembersAfterPrune
  <2> QED
    BY <2>1, <2>2
<1>6. Phase(p) = "open"
  BY Phases
<1>7. [q \in Projects |-> project[q].client][p] = old
  OBVIOUS
<1> HIDE DEF old
<1> QED
  BY <1>3, <1>4, <1>5, <1>6, <1>7 DEF Access!ChangeClient, old

LEMMA ProjectRefines ==
    ASSUME TypeOK, NotCreatedIsUnused, NEW p \in Projects, ProjectNext(p)
    PROVE  [Access!Next]_(Access!vars)
<1>1. project[p] \in ProjectRow
  BY DEF TypeOK
<1>2. ASSUME NEW d \in Details, CreateProject(p, d)
      PROVE  [Access!Next]_(Access!vars)
  <2>1. /\ project[p].status = "none" /\ ~project[p].deleted
        /\ project[p].client = NoUser
        /\ project'[p] = NewProject(d)
        /\ members' = members
    BY <1>2 DEF CreateProject, NotCreatedIsUnused, TypeOK
  <2>2. Phase(p)' = Phase(p) /\ project'[p].client = project[p].client
    BY <2>1 DEF Phase, Frozen, NewProject
  <2> QED
    BY <2>1, <2>2, LifecycleRefines
<1>3. ASSUME NEW next \in ProjectStatus, NEW d \in Details, UpdateProject(p, next, d)
      PROVE  [Access!Next]_(Access!vars)
  <2>1. /\ project'[p] = [project[p] EXCEPT !.status = next, !.details = d]
        /\ members' = members
        /\ Mutable(p)
    BY <1>3 DEF UpdateProject, TypeOK
  <2>2. /\ project'[p].status = next
        /\ ~project'[p].deleted
        /\ project'[p].client = project[p].client
    BY <1>1, <2>1 DEF ProjectRow, Mutable, Live
  <2>3. Phase(p) = "open" /\ Phase(p)' \in {"open", "archived", "cancelled"}
    BY <2>1, <2>2, Phases DEF Phase, Frozen
  <2>4. Phase(p)' = Phase(p) \/ Phase(p)' \in Access!PhaseTransitions[Phase(p)]
    BY <2>3 DEF Access!PhaseTransitions
  <2> QED
    BY <2>1, <2>2, <2>4, LifecycleRefines
<1>4. ASSUME RestoreProject(p) PROVE [Access!Next]_(Access!vars)
  <2>1. /\ project'[p] = [project[p] EXCEPT !.status = "active"]
        /\ members' = members
        /\ Live(p)
        /\ Phase(p) = "archived"
    BY <1>4, Phases DEF RestoreProject, TypeOK
  <2>2. Phase(p)' = "open" /\ project'[p].client = project[p].client
    BY <1>1, <2>1 DEF Phase, Frozen, Live, ProjectRow
  <2>3. Phase(p)' = Phase(p) \/ Phase(p)' \in Access!PhaseTransitions[Phase(p)]
    BY <2>1, <2>2 DEF Access!PhaseTransitions
  <2> QED
    BY <2>1, <2>2, <2>3, LifecycleRefines
<1>5. ASSUME DeleteProject(p) PROVE [Access!Next]_(Access!vars)
  <2>1. /\ project'[p] = [project[p] EXCEPT !.deleted = TRUE]
        /\ members' = members
        /\ Phase(p) \in {"open", "archived", "cancelled"}
    BY <1>5, Phases DEF DeleteProject, TypeOK
  <2>2. Phase(p)' = "deleted" /\ project'[p].client = project[p].client
    BY <1>1, <2>1 DEF Phase, ProjectRow
  <2>3. Phase(p)' = Phase(p) \/ Phase(p)' \in Access!PhaseTransitions[Phase(p)]
    BY <2>1, <2>2 DEF Access!PhaseTransitions
  <2> QED
    BY <2>1, <2>2, <2>3, LifecycleRefines
<1>6. ASSUME NEW l \in Limits \cup {NoLimit}, SetProjectRevisionLimit(p, l)
      PROVE  [Access!Next]_(Access!vars)
  <2>1. /\ project'[p] = [project[p] EXCEPT !.limit = l]
        /\ members' = members
    BY <1>6 DEF SetProjectRevisionLimit, TypeOK
  <2>2. Phase(p)' = Phase(p) /\ project'[p].client = project[p].client
    BY <1>1, <2>1 DEF Phase, Frozen, ProjectRow
  <2> QED
    BY <2>1, <2>2, LifecycleRefines
<1>7. ASSUME NEW u \in Users \cup {NoUser}, Access!ChangeClient(p, u)
      PROVE  [Access!Next]_(Access!vars)
  BY <1>7 DEF Access!Next
<1>8. ASSUME NEW u \in Users, AssignClient(p, u)
      PROVE  [Access!Next]_(Access!vars)
  BY <1>7, <1>8, ClientRefines DEF AssignClient
<1>9. ASSUME UnassignClient(p) PROVE [Access!Next]_(Access!vars)
  BY <1>7, <1>9, ClientRefines DEF UnassignClient
<1> QED
  BY <1>2, <1>3, <1>4, <1>5, <1>6, <1>8, <1>9 DEF ProjectNext

LEMMA MembershipRefines ==
    ASSUME TypeOK, NotCreatedIsUnused, NEW u \in Users, ClientNext(u)
    PROVE  Access!Next
<1>1. project' = project
  BY OthersKeepProjects
<1>2. /\ [q \in Projects |-> Phase(q)]' = [q \in Projects |-> Phase(q)]
      /\ [q \in Projects |-> project[q].client]' = [q \in Projects |-> project[q].client]
  BY <1>1 DEF Phase, Frozen
<1>3. CASE ProvisionClient(u)
  BY <1>2, <1>3 DEF ProvisionClient, Access!Provision, Access!Next
<1>4. CASE RemoveClient(u)
  <2>1. Access!Attached(u, {}) => ClientHasProjects(u)
    BY AttachedMeansNamed DEF Access!Attached
  <2> QED
    BY <1>2, <1>4, <2>1 DEF RemoveClient, Access!Remove, Access!Next
<1> QED
  BY <1>3, <1>4 DEF ClientNext

\* Every step of a handler is a step of ClientAccess or changes nothing that it
\* sees.
LEMMA StepRefines ==
    ASSUME TypeOK, NotCreatedIsUnused, [Next]_vars
    PROVE  [Access!Next]_(Access!vars)
<1>1. CASE project' = project /\ members' = members
  BY <1>1 DEF Access!vars, Phase, Frozen
<1> QED
  BY <1>1, ProjectRefines, MembershipRefines, OthersKeepProjects DEF Next, vars

\* The project and client endpoints implement ClientAccess: what the promise is
\* about changes by its operations only.
THEOREM ImplementsAccessCorrect == Spec => ImplementsAccess
  BY InitRefines, StepRefines, UnusedCorrect, TypeCorrect, PTL
  DEF Spec, ImplementsAccess, Access!Spec

-----------------------------------------------------------------------------
(* The refinement of ApprovalProtocol *)

\* What the protocol sees of each milestone.
OpenOf == [m \in Milestones |-> Open(m)]
ClientsOf == [m \in Milestones |-> ClientOf(m)]
StageOf == [m \in Milestones |-> Stage(m)]

RoundsOn(m) == [i \in DOMAIN revisions[m] |-> DecisionsOn(m, revisions[m][i])]
RoundsOf == [m \in Milestones |-> RoundsOn(m)]

LEMMA ApprovalInit == Init => Approval!Init
<1> SUFFICES ASSUME Init PROVE Approval!Init
  OBVIOUS
<1>1. PICK d \in Details :
        milestone = [m \in Milestones |-> NewMilestone(NoProject, d)]
  BY Zenon DEF Init
<1>2. ASSUME NEW m \in Milestones
      PROVE  /\ Open(m) = FALSE
             /\ ClientOf(m) = NoUser
             /\ Stage(m) = "work"
             /\ RoundsOn(m) = <<>>
  <2>1. milestone[m].project = NoProject /\ milestone[m].status = "pending"
    BY <1>1 DEF NewMilestone
  <2>2. revisions[m] = <<>>
    BY DEF Init
  <2> QED
    BY <2>1, <2>2 DEF Open, ClientOf, Stage, RoundsOn
<1> QED
  BY <1>2 DEF Approval!Init, RoundsOn

\* A step that leaves the stage and the rounds of every milestone is one of the
\* projects, to the protocol.
LEMMA QuietStep ==
    ASSUME TypeOK', \A m \in Milestones : Stage(m)' = Stage(m) /\ RoundsOn(m)' = RoundsOn(m)
    PROVE  Approval!Next
<1>1. /\ OpenOf' \in [Milestones -> BOOLEAN]
      /\ ClientsOf' \in [Milestones -> Users \cup {NoUser}]
  <2>1. \A m \in Milestones : ClientOf(m)' \in Users \cup {NoUser}
    BY DEF TypeOK, ClientOf, MilestoneRow, ProjectRow
  <2>2. \A m \in Milestones : Open(m)' \in BOOLEAN
    BY DEF Open
  <2> QED
    BY <2>1, <2>2, Zenon DEF OpenOf, ClientsOf
<1>2. StageOf' = StageOf /\ RoundsOf' = RoundsOf
  BY DEF StageOf, RoundsOf
<1> QED
  BY <1>1, <1>2
  DEF Approval!Next, Approval!ChangeProjects, OpenOf, ClientsOf, StageOf, RoundsOf, RoundsOn

\* A handler of a milestone that exists leaves the projects and what the protocol
\* sees of the other milestones.
LEMMA MilestoneViews ==
    ASSUME TypeOK, NEW m \in Milestones, MilestoneNext(m),
           milestone'[m].project = milestone[m].project
    PROVE  /\ OpenOf' = OpenOf
           /\ ClientsOf' = ClientsOf
           /\ \A k \in Milestones \ {m} :
                Stage(k)' = Stage(k) /\ RoundsOn(k)' = RoundsOn(k)
<1>1. /\ project' = project
      /\ \A k \in Milestones : milestone'[k].project = milestone[k].project
  BY MilestoneFrame
<1>2. \A k \in Milestones \ {m} : milestone'[k] = milestone[k]
                               /\ revisions'[k] = revisions[k]
                               /\ verdicts'[k] = verdicts[k]
  BY MilestoneFrame
<1>3. OpenOf' = OpenOf /\ ClientsOf' = ClientsOf
  BY <1>1 DEF OpenOf, ClientsOf, Open, ClientOf, Phase, Frozen
<1>4. \A k \in Milestones \ {m} : Stage(k)' = Stage(k)
  BY <1>2 DEF Stage
<1>5. \A k \in Milestones \ {m} : RoundsOn(k)' = RoundsOn(k)
  BY <1>2 DEF RoundsOn, DecisionsOn
<1> QED
  BY <1>3, <1>4, <1>5

\* The milestone of a handler, as the protocol has to find it.
LEMMA MilestoneIsOpen ==
    ASSUME NEW m \in Milestones, MutableMilestone(m)
    PROVE  Open(m) /\ OpenOf[m]
  BY DEF MutableMilestone, Mutable, Live, Open, Phase, OpenOf

LEMMA Moves ==
    ASSUME NEW m \in Milestones, NEW from, NEW to,
           MutableMilestone(m), Stage(m) \in from, Stage(m)' = to,
           \A k \in Milestones \ {m} : Stage(k)' = Stage(k)
    PROVE  Approval!Move(m, from, to)
<1>1. StageOf' = [StageOf EXCEPT ![m] = to]
  BY DEF StageOf
<1> QED
  BY <1>1, MilestoneIsOpen DEF Approval!Move, StageOf, OpenOf

LEMMA SubmitRefines ==
    ASSUME TypeOK, ApprovalInv, NEW m \in Milestones, SubmitMilestone(m)
    PROVE  Approval!Submit(m)
<1>1. MilestoneNext(m) /\ MutableMilestone(m)
  BY DEF MilestoneNext, SubmitMilestone
<1>2. /\ milestone[m] \in MilestoneRow
      /\ revisions[m] \in Seq(Nat)
      /\ milestone[m].revisionCount \in Nat
  BY DEF TypeOK, MilestoneRow
<1>3. MilestoneInv(m)
  BY ApprovalInvByMilestone
<1>4. /\ milestone'[m].project = milestone[m].project
      /\ milestone'[m].status = "awaiting_approval"
      /\ milestone[m].status \in {"in_progress", "changes_requested"}
      /\ revisions'[m] = Append(revisions[m], NewRevision(m))
      /\ verdicts' = verdicts
  BY <1>2 DEF SubmitMilestone, MilestoneRow, TypeOK
<1>5. Approval!Move(m, {"work", "sentBack"}, "review")
  <2>1. Stage(m) \in {"work", "sentBack"} /\ Stage(m)' = "review"
    BY <1>4 DEF Stage
  <2>2. \A k \in Milestones \ {m} : Stage(k)' = Stage(k)
    BY <1>1, <1>4, MilestoneViews
  <2> QED
    BY <1>1, <2>1, <2>2, Moves
<1>6. RoundsOn(m)' = Append(RoundsOn(m), {})
  <2> DEFINE n == Len(revisions[m])
  <2>1. /\ n \in Nat
        /\ DOMAIN revisions[m] = 1 .. n
        /\ DOMAIN revisions'[m] = 1 .. n + 1
        /\ revisions'[m][n + 1] = n + 1
        /\ \A i \in 1 .. n : revisions'[m][i] = revisions[m][i]
    BY <1>2, <1>3, <1>4 DEF MilestoneInv, NewRevision
  <2>2. DecisionsOn(m, n + 1) = {}
    BY <1>2, <1>3, <2>1 DEF MilestoneInv, DecisionsOn
  <2>3. \A i : DecisionsOn(m, i)' = DecisionsOn(m, i)
    BY <1>4 DEF DecisionsOn
  <2>4. RoundsOn(m)' = [i \in 1 .. n + 1 |-> DecisionsOn(m, revisions'[m][i])]
    BY <2>1, <2>3 DEF RoundsOn
  <2>5. RoundsOn(m) = [i \in 1 .. n |-> DecisionsOn(m, revisions[m][i])]
    BY <2>1 DEF RoundsOn
  <2> HIDE DEF n
  <2> QED
    BY <2>1, <2>2, <2>4, <2>5
<1>7. RoundsOf' = [RoundsOf EXCEPT ![m] = Append(RoundsOf[m], {})]
  BY <1>1, <1>4, <1>6, MilestoneViews DEF RoundsOf
<1>8. ClientsOf[m] # NoUser
  BY <1>1 DEF SubmitMilestone, ClientsOf, ClientOf, MutableMilestone
<1>9. OpenOf' = OpenOf /\ ClientsOf' = ClientsOf
  BY <1>1, <1>4, MilestoneViews
<1> QED
  BY <1>5, <1>7, <1>8, <1>9
  DEF Approval!Submit, OpenOf, ClientsOf, RoundsOf, RoundsOn

LEMMA DecideRefines ==
    ASSUME TypeOK, ApprovalInv, NEW m \in Milestones, NEW u \in Users,
           NEW kind \in {"approved", "changes_requested"}, Decide(m, u, kind),
           MilestoneNext(m)
    PROVE  Approval!Decide(m, kind)
<1>1. MutableMilestone(m) /\ AwaitsDecision(m)
  BY DEF Decide
<1>2. /\ milestone[m] \in MilestoneRow
      /\ revisions[m] \in Seq(Nat)
      /\ milestone[m].revisionCount \in Nat
  BY DEF TypeOK, MilestoneRow
<1>3. MilestoneInv(m)
  BY ApprovalInvByMilestone
<1>4. /\ milestone'[m].project = milestone[m].project
      /\ milestone'[m].status = kind
      /\ revisions' = revisions
      /\ verdicts'[m] = verdicts[m] \cup
            {[round |-> milestone[m].revisionCount, kind |-> kind, by |-> u]}
  BY <1>2 DEF Decide, MilestoneRow, TypeOK
<1>5. Approval!Move(m, {"review"}, IF kind = "approved" THEN "approved" ELSE "sentBack")
  <2>1. Stage(m) = "review"
    BY <1>1 DEF Stage, AwaitsDecision
  <2>2. Stage(m)' = IF kind = "approved" THEN "approved" ELSE "sentBack"
    BY <1>4 DEF Stage
  <2>3. \A k \in Milestones \ {m} : Stage(k)' = Stage(k)
    BY <1>1, <1>4, MilestoneViews
  <2> QED
    BY <1>1, <2>1, <2>2, <2>3, Moves
<1>6. ClientsOf[m] = u
  BY <1>1 DEF Decide, MayDecide, ClientsOf, ClientOf, MutableMilestone
<1>n. PICK n \in Nat : n = milestone[m].revisionCount
  BY <1>2
<1>7. /\ n # 0
      /\ DOMAIN revisions[m] = 1 .. n
      /\ \A i \in 1 .. n : revisions[m][i] = i
  BY <1>n, <1>1, <1>2, <1>3 DEF MilestoneInv
<1>8. RoundsOn(m) = [i \in 1 .. n |-> DecisionsOn(m, i)]
  BY <1>7 DEF RoundsOn
<1>9. RoundsOn(m)' = [i \in 1 .. n |-> DecisionsOn(m, i)']
  BY <1>4, <1>7 DEF RoundsOn
<1>10. DecisionsOn(m, n) = {}
  BY <1>n, <1>1, <1>3 DEF MilestoneInv, DecisionsOn
<1>11. DecisionsOn(m, n)' = {[kind |-> kind, by |-> u]}
  <2>1. PICK new : new = [round |-> n, kind |-> kind, by |-> u]
    OBVIOUS
  <2>2. new.round = n /\ new.kind = kind /\ new.by = u
    BY <2>1
  <2>3. \A w \in verdicts[m] : w.round # n
    BY <1>n, <1>1, <1>3 DEF MilestoneInv
  <2>4. verdicts'[m] = verdicts[m] \cup {new}
    BY <1>n, <1>4, <2>1
  <2>5. {w \in verdicts'[m] : w.round = n} = {new}
    BY <2>2, <2>3, <2>4
  <2>6. DecisionsOn(m, n)' = {[kind |-> v.kind, by |-> v.by] : v \in {new}}
    BY <2>5 DEF DecisionsOn
  <2> QED
    BY <2>2, <2>6
<1>12. \A i \in 1 .. n : i # n => DecisionsOn(m, i)' = DecisionsOn(m, i)
  BY <1>n, <1>4 DEF DecisionsOn
<1>13. /\ Len(RoundsOn(m)) = n
       /\ RoundsOn(m) # <<>>
       /\ RoundsOn(m)[n] = {}
       /\ RoundsOn(m)' = [RoundsOn(m) EXCEPT ![n] = {[kind |-> kind, by |-> u]}]
  <2>1. RoundsOn(m) \in Seq({DecisionsOn(m, i) : i \in 1 .. n})
    BY <1>8
  <2>2. Len(RoundsOn(m)) = n /\ RoundsOn(m) # <<>>
    BY <1>7, <1>8, <2>1
  <2>3. RoundsOn(m)[n] = {}
    BY <1>7, <1>8, <1>10
  <2>4. RoundsOn(m)' = [i \in 1 .. n |->
            IF i = n THEN {[kind |-> kind, by |-> u]} ELSE DecisionsOn(m, i)]
    BY <1>9, <1>11, <1>12
  <2> QED
    BY <1>8, <2>2, <2>3, <2>4
<1>14. RoundsOf' = [RoundsOf EXCEPT ![m][n] = {[kind |-> kind, by |-> u]}]
  <2>1. \A k \in Milestones \ {m} : RoundsOn(k)' = RoundsOn(k)
    BY <1>4, MilestoneViews
  <2> QED
    BY <1>13, <2>1 DEF RoundsOf
<1>15. OpenOf' = OpenOf /\ ClientsOf' = ClientsOf
  BY <1>4, MilestoneViews
<1>16. RoundsOf[m] = RoundsOn(m) /\ u # NoUser
  BY SentinelAssumption DEF RoundsOf
<1> QED
  BY <1>5, <1>6, <1>13, <1>14, <1>15, <1>16
  DEF Approval!Decide, OpenOf, ClientsOf, RoundsOf, RoundsOn

\* Staff's status changes.
LEMMA StaffRefines ==
    ASSUME TypeOK, TypeOK', NEW m \in Milestones, NEW next \in MilestoneStatus,
           UpdateMilestoneStatus(m, next)
    PROVE  Approval!Next
<1>1. MilestoneNext(m) /\ MutableMilestone(m)
  BY DEF MilestoneNext, UpdateMilestoneStatus
<1>2. /\ milestone'[m].project = milestone[m].project
      /\ milestone'[m].status = next
      /\ revisions' = revisions /\ verdicts' = verdicts
  BY DEF UpdateMilestoneStatus, TypeOK, MilestoneRow
<1>3. /\ OpenOf' = OpenOf
      /\ ClientsOf' = ClientsOf
      /\ \A k \in Milestones \ {m} : Stage(k)' = Stage(k)
  BY <1>1, <1>2, MilestoneViews
<1>4. \A k \in Milestones : RoundsOn(k)' = RoundsOn(k)
  BY <1>2 DEF RoundsOn, DecisionsOn
<1>5. RoundsOf' = RoundsOf
  BY <1>4 DEF RoundsOf
<1>6. /\ next \in MilestoneTransitions[milestone[m].status]
      /\ next \notin ActionOnlyStatuses
      /\ milestone[m].status \in MilestoneStatus
  BY DEF UpdateMilestoneStatus, TypeOK, MilestoneRow
<1>7. \/ Stage(m)' = Stage(m)
      \/ Stage(m) \in {"review", "sentBack"} /\ Stage(m)' = "work"
      \/ Stage(m) = "approved" /\ Stage(m)' = "completed"
      \/ Stage(m) \in {"work", "review", "sentBack"} /\ Stage(m)' = "cancelled"
  BY <1>2, <1>6 DEF MilestoneTransitions, ActionOnlyStatuses, MilestoneStatus, Stage
<1>8. CASE Stage(m)' = Stage(m)
  BY <1>3, <1>4, <1>8, QuietStep
<1>9. CASE Stage(m) \in {"review", "sentBack"} /\ Stage(m)' = "work"
  <2>1. Approval!Move(m, {"review", "sentBack"}, "work")
    BY <1>1, <1>3, <1>9, Moves
  <2>2. Approval!Resume(m)
    BY <1>3, <1>5, <2>1
    DEF Approval!Resume, OpenOf, ClientsOf, RoundsOf, RoundsOn
  <2> QED
    BY <2>2 DEF Approval!Next
<1>10. CASE Stage(m) = "approved" /\ Stage(m)' = "completed"
  <2>1. Approval!Move(m, {"approved"}, "completed")
    BY <1>1, <1>3, <1>10, Moves
  <2>2. Approval!Complete(m)
    BY <1>3, <1>5, <2>1
    DEF Approval!Complete, OpenOf, ClientsOf, RoundsOf, RoundsOn
  <2> QED
    BY <2>2 DEF Approval!Next
<1>11. CASE Stage(m) \in {"work", "review", "sentBack"} /\ Stage(m)' = "cancelled"
  <2>1. Approval!Move(m, {"work", "review", "sentBack"}, "cancelled")
    BY <1>1, <1>3, <1>11, Moves
  <2>2. Approval!Cancel(m)
    BY <1>3, <1>5, <2>1
    DEF Approval!Cancel, OpenOf, ClientsOf, RoundsOf, RoundsOn
  <2> QED
    BY <2>2 DEF Approval!Next
<1> QED
  BY <1>7, <1>8, <1>9, <1>10, <1>11

LEMMA MilestoneRefines ==
    ASSUME TypeOK, TypeOK', ApprovalInv, NEW m \in Milestones, MilestoneNext(m)
    PROVE  Approval!Next
<1>1. ASSUME NEW p \in Projects, NEW d \in Details, CreateMilestone(m, p, d)
      PROVE  Approval!Next
  <2>1. milestone[m].status = "pending" /\ milestone'[m].status = "pending"
    BY <1>1
    DEF CreateMilestone, NewMilestone, ApprovalInv, NotCreatedIsPristine, TypeOK
  <2>2. Stage(m)' = Stage(m)
    BY <2>1 DEF Stage
  <2>3. \A k \in Milestones \ {m} : Stage(k)' = Stage(k)
    BY MilestoneFrame DEF Stage
  <2>4. \A k \in Milestones : RoundsOn(k)' = RoundsOn(k)
    BY <1>1 DEF CreateMilestone, RoundsOn, DecisionsOn
  <2> QED
    BY <2>2, <2>3, <2>4, QuietStep
<1>2. ASSUME \/ \E d \in Details : UpdateMilestone(m, d)
             \/ \E d \in Deliverables : CreateDeliverable(m, d) \/ DeleteDeliverable(m, d)
             \/ \E next \in PaymentStatus : UpdateMilestonePaymentStatus(m, next)
             \/ \E l \in Limits \cup {NoLimit} : SetMilestoneRevisionLimit(m, l)
      PROVE  Approval!Next
  <2>1. \A k \in Milestones : milestone'[k].status = milestone[k].status
    <3>1. milestone \in [Milestones -> MilestoneRow] /\ milestone[m] \in MilestoneRow
      BY DEF TypeOK
    <3>2. milestone'[m].status = milestone[m].status
      BY <1>2, <3>1
      DEF UpdateMilestone, CreateDeliverable, DeleteDeliverable,
          UpdateMilestonePaymentStatus, SetMilestoneRevisionLimit, MilestoneRow
    <3> QED
      BY <3>2, MilestoneFrame
  <2>2. revisions' = revisions /\ verdicts' = verdicts
    BY <1>2 DEF UpdateMilestone, CreateDeliverable, DeleteDeliverable,
                UpdateMilestonePaymentStatus, SetMilestoneRevisionLimit
  <2>3. \A k \in Milestones : Stage(k)' = Stage(k) /\ RoundsOn(k)' = RoundsOn(k)
    BY <2>1, <2>2 DEF Stage, RoundsOn, DecisionsOn
  <2> QED
    BY <2>3, QuietStep
<1>3. ASSUME NEW u \in Users, ApproveMilestone(m, u) \/ RequestMilestoneChanges(m, u)
      PROVE  Approval!Next
  <2>1. PICK kind \in {"approved", "changes_requested"} : Decide(m, u, kind)
    BY <1>3 DEF ApproveMilestone, RequestMilestoneChanges
  <2> QED
    BY <2>1, DecideRefines DEF Approval!Next
<1>4. CASE SubmitMilestone(m)
  BY <1>4, SubmitRefines DEF Approval!Next
<1> QED
  BY <1>1, <1>2, <1>3, <1>4, StaffRefines DEF MilestoneNext

LEMMA ApprovalStep ==
    ASSUME TypeOK, TypeOK', ApprovalInv, [Next]_vars
    PROVE  [Approval!Next]_(Approval!vars)
<1>1. CASE UNCHANGED <<milestone, revisions, verdicts>>
  <2>1. \A m \in Milestones : Stage(m)' = Stage(m) /\ RoundsOn(m)' = RoundsOn(m)
    BY <1>1 DEF Stage, RoundsOn, DecisionsOn
  <2> QED
    BY <2>1, QuietStep
<1> QED
  BY <1>1, MilestoneRefines, OthersKeepMilestones DEF Next, vars, milestoneTables

\* The handlers of projects and milestones, the columns, history rows and audit
\* rows that they write, implement ApprovalProtocol, for any number of projects,
\* milestones, clients and rounds.
THEOREM ImplementsApprovalCorrect == Spec => ImplementsApproval
  BY ApprovalInit, ApprovalStep, ApprovalCorrect, TypeCorrect, PTL
  DEF Spec, ImplementsApproval, Approval!Spec
=============================================================================
