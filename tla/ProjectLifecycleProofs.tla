----------------------- MODULE ProjectLifecycleProofs -----------------------
(* Theorems about ProjectLifecycle, for every value of its constants. *)
EXTENDS ProjectLifecycle, TLAPS

-----------------------------------------------------------------------------
(* Type correctness *)

\* The transition tables lead from statuses to statuses.
LEMMA TransitionTypes ==
    /\ \A s \in ProjectStatus : ProjectTransitions[s] \subseteq ProjectStatus
    /\ \A s \in MilestoneStatus :
            MilestoneTransitions[s] \subseteq MilestoneStatus
  BY DEF ProjectTransitions, ProjectStatus, MilestoneTransitions, MilestoneStatus

\* The rows of a fresh project and of a fresh milestone are well typed.
LEMMA NewRowTypes ==
    ASSUME NEW d \in Details, NEW p \in Projects \cup {NoProject}
    PROVE  /\ NewProject(d) \in ProjectRow
           /\ [NewProject(d) EXCEPT !.status = "none"] \in ProjectRow
           /\ NewMilestone(p, d) \in MilestoneRow
  BY DEF NewProject, NewMilestone, ProjectRow, MilestoneRow, ProjectStatus,
         MilestoneStatus, PaymentStatus

LEMMA InitTypeOK == Init => TypeOK
  BY NewRowTypes DEF Init, TypeOK

\* A step of a project, of a client membership or of a milestone keeps the
\* types.
LEMMA ProjectTypeOK ==
    ASSUME TypeOK, NEW p \in Projects, ProjectNext(p)
    PROVE  TypeOK'
<1> USE DEF TypeOK, milestoneTables
<1>1. ASSUME NEW d \in Details, CreateProject(p, d) PROVE TypeOK'
  BY <1>1, NewRowTypes DEF CreateProject
<1>2. ASSUME NEW next \in ProjectStatus, NEW d \in Details,
             UpdateProject(p, next, d)
      PROVE TypeOK'
  BY <1>2 DEF UpdateProject, ProjectRow
<1>3. ASSUME RestoreProject(p) PROVE TypeOK'
  BY <1>3 DEF RestoreProject, ProjectRow, ProjectStatus
<1>4. ASSUME DeleteProject(p) PROVE TypeOK'
  BY <1>4 DEF DeleteProject, ProjectRow
<1>5. ASSUME NEW l \in Limits \cup {NoLimit}, SetProjectRevisionLimit(p, l)
      PROVE TypeOK'
  BY <1>5 DEF SetProjectRevisionLimit, ProjectRow
<1>6. ASSUME NEW u \in Users, AssignClient(p, u) PROVE TypeOK'
  BY <1>6 DEF AssignClient, MembersAfterPrune, ProjectRow
<1>7. ASSUME UnassignClient(p) PROVE TypeOK'
  BY <1>7 DEF UnassignClient, MembersAfterPrune, ProjectRow
<1> QED
  BY <1>1, <1>2, <1>3, <1>4, <1>5, <1>6, <1>7 DEF ProjectNext

LEMMA ClientTypeOK ==
    ASSUME TypeOK, NEW u \in Users, ClientNext(u)
    PROVE  TypeOK'
  BY DEF ClientNext, ProvisionClient, RemoveClient, TypeOK, milestoneTables

LEMMA MilestoneTypeOK ==
    ASSUME TypeOK, NEW m \in Milestones, MilestoneNext(m)
    PROVE  TypeOK'
<1> USE DEF TypeOK
<1>1. ASSUME NEW p \in Projects, NEW d \in Details, CreateMilestone(m, p, d)
      PROVE TypeOK'
  BY <1>1, NewRowTypes DEF CreateMilestone
<1>2. ASSUME NEW d \in Details, UpdateMilestone(m, d) PROVE TypeOK'
  BY <1>2 DEF UpdateMilestone, MilestoneRow
<1>3. ASSUME NEW next \in MilestoneStatus, UpdateMilestoneStatus(m, next)
      PROVE TypeOK'
  <2> DEFINE stamp == IF next = "completed" THEN TRUE
                      ELSE milestone[m].completedAt
             row == [milestone[m] EXCEPT !.status = next, !.completedAt = stamp]
  <2>1. stamp \in BOOLEAN
    BY DEF MilestoneRow
  <2>2. row \in MilestoneRow
    BY <2>1 DEF MilestoneRow
  <2>3. milestone' = [milestone EXCEPT ![m] = row]
    BY <1>3 DEF UpdateMilestoneStatus
  <2> HIDE DEF row, stamp
  <2> QED
    BY <1>3, <2>2, <2>3 DEF UpdateMilestoneStatus
<1>4. ASSUME SubmitMilestone(m) PROVE TypeOK'
  <2>0. milestone[m].revisionCount \in Nat
    BY DEF MilestoneRow
  <2>1. RoundAfterSubmit(m) \in Nat /\ NewRevision(m) \in Nat
    BY <2>0 DEF NewRevision, RoundAfterSubmit
  <2>2. milestone' \in [Milestones -> MilestoneRow]
    <3> DEFINE row == [milestone[m] EXCEPT
                          !.status = "awaiting_approval",
                          !.revisionCount = RoundAfterSubmit(m)]
    <3>0. "awaiting_approval" \in MilestoneStatus
      BY DEF MilestoneStatus
    <3>1. row \in MilestoneRow
      BY <3>0, <2>1 DEF MilestoneRow
    <3>2. milestone' = [milestone EXCEPT ![m] = row]
      BY <1>4 DEF SubmitMilestone
    <3> HIDE DEF row
    <3> QED
      BY <3>1, <3>2
  <2>3. revisions' \in [Milestones -> Seq(Nat)]
    BY <1>4, <2>1 DEF SubmitMilestone
  <2> QED
    BY <1>4, <2>2, <2>3 DEF SubmitMilestone
<1>5. ASSUME NEW u \in Users, NEW kind \in {"approved", "changes_requested"},
             Decide(m, u, kind)
      PROVE TypeOK'
  <2>1. milestone' \in [Milestones -> MilestoneRow]
    BY <1>5 DEF Decide, MilestoneRow, MilestoneStatus
  <2>2. [round |-> milestone[m].revisionCount, kind |-> kind, by |-> u] \in Verdict
    BY DEF Verdict, MilestoneRow
  <2>3. verdicts' \in [Milestones -> SUBSET Verdict]
    BY <1>5, <2>2 DEF Decide
  <2> QED
    BY <1>5, <2>1, <2>3 DEF Decide
<1>6. ASSUME NEW d \in Deliverables,
             CreateDeliverable(m, d) \/ DeleteDeliverable(m, d)
      PROVE TypeOK'
  BY <1>6 DEF CreateDeliverable, DeleteDeliverable
<1>7. ASSUME NEW next \in PaymentStatus, UpdateMilestonePaymentStatus(m, next)
      PROVE TypeOK'
  BY <1>7 DEF UpdateMilestonePaymentStatus, MilestoneRow
<1>8. ASSUME NEW l \in Limits \cup {NoLimit}, SetMilestoneRevisionLimit(m, l)
      PROVE TypeOK'
  BY <1>8 DEF SetMilestoneRevisionLimit, MilestoneRow
<1> QED
  BY <1>1, <1>2, <1>3, <1>4, <1>5, <1>6, <1>7, <1>8
     DEF MilestoneNext, ApproveMilestone, RequestMilestoneChanges

\* Every reachable state is well typed.
THEOREM TypeCorrect == Spec => []TypeOK
<1>1. TypeOK /\ [Next]_vars => TypeOK'
  <2> SUFFICES ASSUME TypeOK, [Next]_vars PROVE TypeOK'
    OBVIOUS
  <2>1. CASE Next
    BY <2>1, ProjectTypeOK, ClientTypeOK, MilestoneTypeOK DEF Next
  <2>2. CASE UNCHANGED vars
    BY <2>2 DEF vars, TypeOK
  <2> QED
    BY <2>1, <2>2
<1> QED
  BY InitTypeOK, <1>1, PTL DEF Spec

-----------------------------------------------------------------------------
(* The approval workflow *)

\* ApprovalInv, read for one milestone.
MilestoneInv(m) ==
    /\ Len(revisions[m]) = milestone[m].revisionCount
    /\ \A i \in 1 .. Len(revisions[m]) : revisions[m][i] = i
    /\ AwaitsDecision(m) => milestone[m].revisionCount > 0
    /\ \A v \in verdicts[m] :
        /\ v.round \in 1 .. milestone[m].revisionCount
        /\ AwaitsDecision(m) => v.round # milestone[m].revisionCount
    /\ \A v, w \in verdicts[m] : v.round = w.round => v = w
    /\ milestone[m].status \in {"approved", "completed"} <=>
            \E v \in verdicts[m] : /\ v.kind = "approved"
                                   /\ v.round = milestone[m].revisionCount
    /\ milestone[m].completedAt <=> milestone[m].status = "completed"
    /\ milestone[m].project = NoProject =>
            /\ milestone[m].status = "pending"
            /\ milestone[m].revisionCount = 0
            /\ ~milestone[m].completedAt

\* The rows the approval workflow of k depends on stay as they are.
Untouched(k) ==
    /\ milestone'[k].project = milestone[k].project
    /\ milestone'[k].status = milestone[k].status
    /\ milestone'[k].revisionCount = milestone[k].revisionCount
    /\ milestone'[k].completedAt = milestone[k].completedAt
    /\ revisions'[k] = revisions[k]
    /\ verdicts'[k] = verdicts[k]

LEMMA ApprovalInvByMilestone ==
    ApprovalInv <=> \A m \in Milestones : MilestoneInv(m)
  BY DEF ApprovalInv, MilestoneInv, RevisionLedger, VerdictsAnswerSubmissions,
         OneVerdictPerRound, SignedOff, CompletedStamp, NotCreatedIsPristine

LEMMA UntouchedKeepsInv ==
    ASSUME NEW k \in Milestones, MilestoneInv(k), Untouched(k)
    PROVE  MilestoneInv(k)'
  BY DEF MilestoneInv, Untouched, AwaitsDecision

LEMMA InitApprovalInv == Init => ApprovalInv
<1> SUFFICES ASSUME Init, NEW m \in Milestones PROVE MilestoneInv(m)
  BY ApprovalInvByMilestone
<1> QED
  BY DEF Init, NewMilestone, MilestoneInv, AwaitsDecision

\* Handlers that leave the workflow columns of every milestone alone.
LEMMA ProjectKeepsApproval ==
    ASSUME NEW p \in Projects, ProjectNext(p)
    PROVE  UNCHANGED <<milestone, revisions, verdicts>>
  BY DEF ProjectNext, CreateProject, UpdateProject, RestoreProject,
         DeleteProject, SetProjectRevisionLimit, AssignClient, UnassignClient,
         milestoneTables

LEMMA ClientKeepsApproval ==
    ASSUME NEW u \in Users, ClientNext(u)
    PROVE  UNCHANGED <<milestone, revisions, verdicts>>
  BY DEF ClientNext, ProvisionClient, RemoveClient, milestoneTables

\* What the staff transition table says of approval: completed is reached
\* from approved and only from there, approved leads nowhere else, and the
\* table has no way out of completed.
LEMMA StaffTransitions ==
    ASSUME NEW s \in MilestoneStatus, NEW next \in MilestoneTransitions[s],
           next \notin ActionOnlyStatuses
    PROVE  /\ s # "completed"
           /\ next = "completed" <=> s = "approved"
           /\ next \notin {"approved", "awaiting_approval"}
<1>1. next \notin {"approved", "awaiting_approval"}
  BY DEF ActionOnlyStatuses
<1>2. CASE s \in {"pending", "in_progress", "blocked", "changes_requested"}
  BY <1>1, <1>2 DEF MilestoneTransitions
<1>3. CASE s \in {"awaiting_approval", "approved", "completed", "cancelled"}
  BY <1>1, <1>3 DEF MilestoneTransitions
<1> QED
  BY <1>2, <1>3 DEF MilestoneStatus

LEMMA MilestoneStepKeepsApproval ==
    ASSUME TypeOK, ApprovalInv, NEW m \in Milestones, MilestoneNext(m),
           NEW k \in Milestones
    PROVE  MilestoneInv(k)'
<1> USE DEF TypeOK
<1>k. MilestoneInv(k) /\ MilestoneInv(m)
  BY ApprovalInvByMilestone
<1>t. milestone[m] \in MilestoneRow /\ milestone[m].revisionCount \in Nat
  BY DEF MilestoneRow
<1>1. ASSUME NEW p \in Projects, NEW d \in Details, CreateMilestone(m, p, d)
      PROVE  MilestoneInv(k)'
  <2>1. CASE k # m
    BY <1>1, <1>k, <2>1, UntouchedKeepsInv DEF CreateMilestone, Untouched
  <2>2. CASE k = m
    <3>1. milestone[m].project = NoProject
      BY <1>1 DEF CreateMilestone
    <3>2. milestone'[m] = NewMilestone(p, d) /\ UNCHANGED <<revisions, verdicts>>
      BY <1>1 DEF CreateMilestone
    <3>3. Len(revisions[m]) = 0 /\ verdicts[m] = {}
      <4>1. /\ milestone[m].revisionCount = 0
            /\ Len(revisions[m]) = milestone[m].revisionCount
            /\ \A v \in verdicts[m] : v.round \in 1 .. milestone[m].revisionCount
        BY <1>k, <3>1 DEF MilestoneInv
      <4>2. \A v \in verdicts[m] : FALSE
        BY <4>1
      <4> QED
        BY <4>1, <4>2
    <3>4. p # NoProject
      BY SentinelAssumption
    <3>5. /\ milestone'[m].project # NoProject
          /\ milestone'[m].status = "pending"
          /\ milestone'[m].revisionCount = 0
          /\ milestone'[m].completedAt = FALSE
      BY <3>2, <3>4 DEF NewMilestone
    <3>6. Len(revisions'[m]) = 0 /\ verdicts'[m] = {}
      BY <3>2, <3>3
    <3> QED
      BY <2>2, <3>5, <3>6 DEF MilestoneInv, AwaitsDecision
  <2> QED
    BY <2>1, <2>2
<1>2. ASSUME NEW d \in Details, UpdateMilestone(m, d)
      PROVE  MilestoneInv(k)'
  <2>1. Untouched(k)
    BY <1>2, <1>t DEF UpdateMilestone, Untouched, MilestoneRow
  <2> QED
    BY <1>k, <2>1, UntouchedKeepsInv
<1>7. ASSUME NEW next \in PaymentStatus, UpdateMilestonePaymentStatus(m, next)
      PROVE  MilestoneInv(k)'
  <2>1. Untouched(k)
    BY <1>7, <1>t DEF UpdateMilestonePaymentStatus, Untouched, MilestoneRow
  <2> QED
    BY <1>k, <2>1, UntouchedKeepsInv
<1>8. ASSUME NEW l \in Limits \cup {NoLimit}, SetMilestoneRevisionLimit(m, l)
      PROVE  MilestoneInv(k)'
  <2>1. Untouched(k)
    BY <1>8, <1>t DEF SetMilestoneRevisionLimit, Untouched, MilestoneRow
  <2> QED
    BY <1>k, <2>1, UntouchedKeepsInv
<1>3. ASSUME NEW d \in Deliverables,
             CreateDeliverable(m, d) \/ DeleteDeliverable(m, d)
      PROVE  MilestoneInv(k)'
  BY <1>3, <1>k, UntouchedKeepsInv
     DEF CreateDeliverable, DeleteDeliverable, Untouched
<1>4. ASSUME NEW next \in MilestoneStatus, UpdateMilestoneStatus(m, next)
      PROVE  MilestoneInv(k)'
  <2>1. CASE k # m
    BY <1>4, <1>k, <2>1, UntouchedKeepsInv DEF UpdateMilestoneStatus, Untouched
  <2>2. CASE k = m
    <3>1. /\ milestone'[m].project = milestone[m].project
          /\ milestone'[m].revisionCount = milestone[m].revisionCount
          /\ milestone'[m].status = next
          /\ milestone'[m].completedAt = IF next = "completed" THEN TRUE
                                         ELSE milestone[m].completedAt
          /\ UNCHANGED <<revisions, verdicts>>
      BY <1>4, <1>t DEF UpdateMilestoneStatus, MilestoneRow
    <3>2. /\ next \notin ActionOnlyStatuses
          /\ next \in MilestoneTransitions[milestone[m].status]
          /\ milestone[m].project # NoProject
          /\ milestone[m].status \in MilestoneStatus
      BY <1>4, <1>t DEF UpdateMilestoneStatus, MutableMilestone, MilestoneRow
    <3>3. /\ milestone[m].status # "completed"
          /\ next = "completed" <=> milestone[m].status = "approved"
          /\ next \notin {"approved", "awaiting_approval"}
      BY <3>2, StaffTransitions
    <3> QED
      BY <1>k, <2>2, <3>1, <3>2, <3>3 DEF MilestoneInv, AwaitsDecision
  <2> QED
    BY <2>1, <2>2
<1>5. ASSUME SubmitMilestone(m) PROVE MilestoneInv(k)'
  <2>1. CASE k # m
    BY <1>5, <1>k, <2>1, UntouchedKeepsInv DEF SubmitMilestone, Untouched
  <2>2. CASE k = m
    <3> DEFINE n == milestone[m].revisionCount
    <3>1. /\ milestone'[m].project = milestone[m].project
          /\ milestone'[m].revisionCount = n + 1
          /\ milestone'[m].status = "awaiting_approval"
          /\ milestone'[m].completedAt = milestone[m].completedAt
          /\ revisions'[m] = Append(revisions[m], n + 1)
          /\ verdicts' = verdicts
      BY <1>5, <1>t DEF SubmitMilestone, MilestoneRow, RoundAfterSubmit,
                        NewRevision
    <3>2. /\ milestone[m].project # NoProject
          /\ milestone[m].status \notin {"approved", "completed"}
      BY <1>5 DEF SubmitMilestone, MutableMilestone
    <3>3. /\ Len(revisions'[m]) = n + 1
          /\ \A i \in 1 .. n + 1 : revisions'[m][i] = i
      <4>1. Len(revisions[m]) = n /\ \A i \in 1 .. n : revisions[m][i] = i
        BY <1>k DEF MilestoneInv
      <4>2. revisions[m] \in Seq(Nat) /\ n \in Nat
        BY <1>t
      <4> HIDE DEF n
      <4>3. /\ Len(Append(revisions[m], n + 1)) = n + 1
            /\ Append(revisions[m], n + 1)[n + 1] = n + 1
            /\ \A i \in 1 .. n : Append(revisions[m], n + 1)[i] = revisions[m][i]
        BY <4>1, <4>2
      <4>4. \A i \in 1 .. n + 1 : i \in 1 .. n \/ i = n + 1
        BY <4>2
      <4> QED
        BY <3>1, <4>1, <4>3, <4>4
    <3>4. \A v \in verdicts[m] : v.round \in 1 .. n
      BY <1>k DEF MilestoneInv
    <3>5. \A v \in verdicts[m] : v.round \in 1 .. n + 1 /\ v.round # n + 1
      BY <1>t, <3>4
    <3>6. \A v, w \in verdicts[m] : v.round = w.round => v = w
      BY <1>k DEF MilestoneInv
    <3>7. ~milestone[m].completedAt
      BY <1>k, <3>2 DEF MilestoneInv
    <3>n. n + 1 > 0
      BY <1>t
    <3> HIDE DEF n
    <3> QED
      BY <1>t, <2>2, <3>1, <3>2, <3>3, <3>5, <3>6, <3>7, <3>n DEF MilestoneInv
  <2> QED
    BY <2>1, <2>2
<1>6. ASSUME NEW u \in Users, NEW kind \in {"approved", "changes_requested"},
             Decide(m, u, kind)
      PROVE  MilestoneInv(k)'
  <2>1. CASE k # m
    BY <1>6, <1>k, <2>1, UntouchedKeepsInv DEF Decide, Untouched
  <2>2. CASE k = m
    <3> DEFINE n == milestone[m].revisionCount
               new == [round |-> n, kind |-> kind, by |-> u]
    <3>1. /\ milestone'[m].project = milestone[m].project
          /\ milestone'[m].revisionCount = n
          /\ milestone'[m].status = kind
          /\ milestone'[m].completedAt = milestone[m].completedAt
          /\ revisions' = revisions
          /\ verdicts'[m] = verdicts[m] \cup {new}
      BY <1>6, <1>t DEF Decide, MilestoneRow
    <3>2. /\ milestone[m].project # NoProject
          /\ milestone[m].status = "awaiting_approval"
          /\ \A v \in verdicts[m] : v.round \in 1 .. n /\ v.round # n
      BY <1>6, <1>k DEF Decide, MutableMilestone, AwaitsDecision, MilestoneInv
    <3>3. n \in 1 .. n
      <4>1. n > 0
        BY <1>k, <3>2 DEF MilestoneInv, AwaitsDecision
      <4> QED
        BY <1>t, <4>1
    <3>4. \A v \in verdicts'[m] : v = new \/ v \in verdicts[m]
      BY <3>1
    <3>6. new \in verdicts'[m] /\ new.round = n /\ new.kind = kind
      BY <3>1
    <3>7. \A v \in verdicts'[m] : v.round \in 1 .. n
      BY <3>2, <3>3, <3>4, <3>6
    <3>8. \A v, w \in verdicts'[m] : v.round = w.round => v = w
      <4>1. \A v, w \in verdicts[m] : v.round = w.round => v = w
        BY <1>k DEF MilestoneInv
      <4> QED
        BY <3>2, <3>4, <3>6, <4>1
    <3>9. kind = "approved" <=> \E v \in verdicts'[m] :
                                    v.kind = "approved" /\ v.round = n
      BY <3>2, <3>4, <3>6
    <3>5. ~milestone[m].completedAt
      BY <1>k, <3>2 DEF MilestoneInv
    <3>10. /\ Len(revisions[m]) = n
           /\ \A i \in 1 .. Len(revisions[m]) : revisions[m][i] = i
      BY <1>k DEF MilestoneInv
    <3> HIDE DEF n, new
    <3> QED
      BY <2>2, <3>1, <3>2, <3>5, <3>7, <3>8, <3>9, <3>10
         DEF MilestoneInv, AwaitsDecision
  <2> QED
    BY <2>1, <2>2
<1> QED
  BY <1>1, <1>2, <1>3, <1>4, <1>5, <1>6, <1>7, <1>8
     DEF MilestoneNext, ApproveMilestone, RequestMilestoneChanges

\* ApprovalInv is inductive, given the types.
LEMMA StepKeepsApproval ==
    ASSUME TypeOK, ApprovalInv, [Next]_vars
    PROVE  ApprovalInv'
<1>1. ASSUME UNCHANGED <<milestone, revisions, verdicts>> PROVE ApprovalInv'
  BY <1>1 DEF ApprovalInv, RevisionLedger, VerdictsAnswerSubmissions,
              OneVerdictPerRound, SignedOff, CompletedStamp, NotCreatedIsPristine,
              AwaitsDecision
<1>2. CASE \E p \in Projects : ProjectNext(p)
  BY <1>1, <1>2, ProjectKeepsApproval
<1>3. CASE \E u \in Users : ClientNext(u)
  BY <1>1, <1>3, ClientKeepsApproval
<1>4. CASE \E m \in Milestones : MilestoneNext(m)
  <2>1. PICK m \in Milestones : MilestoneNext(m)
    BY <1>4
  <2>2. \A k \in Milestones : MilestoneInv(k)'
    BY <2>1, MilestoneStepKeepsApproval
  <2> QED
    BY <2>2 DEF ApprovalInv, MilestoneInv, RevisionLedger,
                VerdictsAnswerSubmissions, OneVerdictPerRound, SignedOff,
                CompletedStamp, NotCreatedIsPristine
<1>5. CASE UNCHANGED vars
  BY <1>1, <1>5 DEF vars
<1> QED
  BY <1>2, <1>3, <1>4, <1>5 DEF Next

LEMMA ApprovalCorrect == Spec => []ApprovalInv
<1>1. TypeOK /\ ApprovalInv /\ [Next]_vars => ApprovalInv'
  BY StepKeepsApproval
<1> QED
  BY <1>1, InitApprovalInv, TypeCorrect, PTL DEF Spec

\* The rows of milestone_revisions are the rounds 1 to revision_count, however
\* SubmitMilestone, the decisions and staff's status changes interleave.
THEOREM RevisionLedgerCorrect == Spec => []RevisionLedger
<1>1. ApprovalInv => RevisionLedger
  BY DEF ApprovalInv
<1> QED
  BY <1>1, ApprovalCorrect, PTL

\* Every verdict of ApproveMilestone and RequestMilestoneChanges answers a
\* submission, and a milestone that awaits a decision awaits it on a round that
\* has none.
THEOREM VerdictsCorrect == Spec => []VerdictsAnswerSubmissions
<1>1. ApprovalInv => VerdictsAnswerSubmissions
  BY DEF ApprovalInv
<1> QED
  BY <1>1, ApprovalCorrect, PTL

\* No submission is decided twice, whoever the project's clients were.
THEOREM OneVerdictCorrect == Spec => []OneVerdictPerRound
<1>1. ApprovalInv => OneVerdictPerRound
  BY DEF ApprovalInv
<1> QED
  BY <1>1, ApprovalCorrect, PTL

\* A milestone is approved or completed exactly when a client approved its
\* latest submission: neither staff's PATCH /status nor a resubmission goes
\* round the client.
THEOREM SignOffCorrect == Spec => []SignedOff
<1>1. ApprovalInv => SignedOff
  BY DEF ApprovalInv
<1> QED
  BY <1>1, ApprovalCorrect, PTL

\* completed_at is set exactly on completed milestones, although the UPDATE only
\* ever sets it: completed has no way out.
THEOREM CompletedStampCorrect == Spec => []CompletedStamp
<1>1. ApprovalInv => CompletedStamp
  BY DEF ApprovalInv
<1> QED
  BY <1>1, ApprovalCorrect, PTL

-----------------------------------------------------------------------------
(* Clients *)

\* No handler leaves a live project with a client who lost the membership.
LEMMA ProjectKeepsClients ==
    ASSUME TypeOK, ClientIsMember, NEW p \in Projects, ProjectNext(p)
    PROVE  ClientIsMember'
<1> USE DEF TypeOK, ClientIsMember, Live
<1>t. project[p] \in ProjectRow
  OBVIOUS
<1>1. ASSUME NEW d \in Details, CreateProject(p, d) PROVE ClientIsMember'
  BY <1>1 DEF CreateProject, NewProject
<1>2. ASSUME NEW next \in ProjectStatus, NEW d \in Details,
             UpdateProject(p, next, d)
      PROVE ClientIsMember'
  BY <1>2, <1>t DEF UpdateProject, Mutable, ProjectRow
<1>3. ASSUME RestoreProject(p) PROVE ClientIsMember'
  BY <1>3, <1>t DEF RestoreProject, ProjectRow
<1>4. ASSUME DeleteProject(p) PROVE ClientIsMember'
  BY <1>4, <1>t DEF DeleteProject, ProjectRow
<1>5. ASSUME NEW l \in Limits \cup {NoLimit}, SetProjectRevisionLimit(p, l)
      PROVE ClientIsMember'
  BY <1>5, <1>t DEF SetProjectRevisionLimit, ProjectRow
<1>6. ASSUME NEW u \in Users, AssignClient(p, u) PROVE ClientIsMember'
  <2>1. /\ project' = [project EXCEPT ![p].client = u]
        /\ project[p].client # u
        /\ u \in members
        /\ Mutable(p)
    BY <1>6 DEF AssignClient
  <2>2. project'[p].client = u /\ \A q \in Projects \ {p} : project'[q] = project[q]
    BY <2>1, <1>t DEF ProjectRow
  <2>3. members' = members \/ (/\ members' = members \ {project[p].client}
                              /\ ~AttachedElsewhere(project[p].client, p))
    BY <1>6 DEF AssignClient, MembersAfterPrune
  <2>4. CASE members' = members
    BY <2>1, <2>2, <2>4
  <2>5. CASE /\ members' = members \ {project[p].client}
             /\ ~AttachedElsewhere(project[p].client, p)
    BY <2>1, <2>2, <2>5 DEF AttachedElsewhere
  <2> QED
    BY <2>3, <2>4, <2>5
<1>7. ASSUME UnassignClient(p) PROVE ClientIsMember'
  <2>1. project' = [project EXCEPT ![p].client = NoUser]
    BY <1>7 DEF UnassignClient
  <2>2. /\ project'[p].client = NoUser
        /\ \A q \in Projects \ {p} : project'[q] = project[q]
    BY <2>1, <1>t DEF ProjectRow
  <2>3. members' = members \/ (/\ members' = members \ {project[p].client}
                              /\ ~AttachedElsewhere(project[p].client, p))
    BY <1>7 DEF UnassignClient, MembersAfterPrune
  <2> QED
    BY <2>2, <2>3 DEF AttachedElsewhere
<1> QED
  BY <1>1, <1>2, <1>3, <1>4, <1>5, <1>6, <1>7 DEF ProjectNext

LEMMA OthersKeepClients ==
    ASSUME ClientIsMember,
           \/ \E u \in Users : ClientNext(u)
           \/ \E m \in Milestones : MilestoneNext(m)
    PROVE  ClientIsMember'
<1>1. ASSUME NEW u \in Users, ClientNext(u) PROVE ClientIsMember'
  BY <1>1 DEF ClientNext, ProvisionClient, RemoveClient, ClientHasProjects,
              ClientIsMember, Live
<1>2. ASSUME NEW m \in Milestones, MilestoneNext(m) PROVE ClientIsMember'
  <2>1. UNCHANGED <<project, members>>
    BY <1>2 DEF MilestoneNext, CreateMilestone, UpdateMilestone,
        UpdateMilestoneStatus, SubmitMilestone, ApproveMilestone,
        RequestMilestoneChanges, Decide, CreateDeliverable, DeleteDeliverable,
        UpdateMilestonePaymentStatus, SetMilestoneRevisionLimit
  <2> QED
    BY <2>1 DEF ClientIsMember, Live
<1> QED
  BY <1>1, <1>2

\* The client of a live project is a member: assignment checks it, the prune
\* and RemoveClient look at every other live project first, and a deleted
\* project, whose client may lose the membership, never comes back.
THEOREM ClientIsMemberCorrect == Spec => []ClientIsMember
<1>1. Init => ClientIsMember
  BY DEF Init, NewProject, ClientIsMember, Live
<1>2. TypeOK /\ ClientIsMember /\ [Next]_vars => ClientIsMember'
  <2> SUFFICES ASSUME TypeOK, ClientIsMember, [Next]_vars PROVE ClientIsMember'
    OBVIOUS
  <2>1. CASE Next
    BY <2>1, ProjectKeepsClients, OthersKeepClients DEF Next
  <2>2. CASE UNCHANGED vars
    BY <2>2 DEF vars, ClientIsMember, Live
  <2> QED
    BY <2>1, <2>2
<1> QED
  BY <1>1, <1>2, TypeCorrect, PTL DEF Spec
=============================================================================
