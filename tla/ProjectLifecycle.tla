-------------------------- MODULE ProjectLifecycle --------------------------
(***************************************************************************)
(* The projects of one organization, their milestones, deliverables and    *)
(* revision history, and the client memberships that projects refer to:    *)
(* internal/project/service.go with its repository, and the membership     *)
(* half of internal/client/service.go.                                     *)
(*                                                                         *)
(* Every mutation of the service runs in one transaction that starts with  *)
(* SELECT ... FOR UPDATE on the project row, so here a request that        *)
(* commits is one step and a request that is rejected is no step.  What    *)
(* happens between the statements of concurrent transactions is the        *)
(* subject of ClientAssignment.                                            *)
(*                                                                         *)
(* Free-text columns (name, description, priority, title, position, due    *)
(* date) are one value of Details per row.  Staff identities, audit_logs   *)
(* and activities rows are left out, except the two kinds of audit row     *)
(* that record a client's decision.                                        *)
(***************************************************************************)
EXTENDS Integers, Sequences

CONSTANTS
    Projects,      \* identifiers of projects that may be created
    Milestones,    \* identifiers of milestones that may be created
    Users,         \* the people who may become clients
    Deliverables,  \* identifiers of deliverables
    Details,       \* values of the free-text columns
    Limits,        \* revision limits a request may set
    MaxRevisions,  \* bound: submissions of one milestone
    NoProject, NoUser, NoLimit

ASSUME SentinelAssumption ==
    /\ NoProject \notin Projects
    /\ NoUser \notin Users
    /\ NoLimit \notin Limits

\* UpdateRevisionLimitRequest rejects values below 1.
ASSUME LimitsAssumption == Limits \subseteq Nat \ {0}

ASSUME MaxRevisionsAssumption == MaxRevisions \in Nat

VARIABLES
    project,       \* the projects table
    milestone,     \* the milestones table
    deliverables,  \* milestone_deliverables: identifiers, by milestone
    revisions,     \* milestone_revisions: revision numbers in insertion order
    verdicts,      \* the milestone.approved and milestone.changes_requested
                   \* audit rows, each with the submission it answers
    members        \* users with an active client membership

vars == <<project, milestone, deliverables, revisions, verdicts, members>>
milestoneTables == <<milestone, deliverables, revisions, verdicts>>

-----------------------------------------------------------------------------
(* Rows *)

ProjectStatus == {"draft", "active", "completed", "archived", "cancelled"}

MilestoneStatus ==
    {"pending", "in_progress", "awaiting_approval", "completed", "blocked",
     "cancelled", "approved", "changes_requested"}

PaymentStatus == {"unpaid", "partial", "paid"}

ProjectRow ==
    [status  : ProjectStatus \cup {"none"},   \* "none": not created
     deleted : BOOLEAN,                       \* deleted_at IS NOT NULL
     client  : Users \cup {NoUser},
     limit   : Limits \cup {NoLimit},
     details : Details]

MilestoneRow ==
    [project       : Projects \cup {NoProject},   \* NoProject: not created
     status        : MilestoneStatus,
     revisionCount : Nat,
     completedAt   : BOOLEAN,                     \* completed_at IS NOT NULL
     payment       : PaymentStatus,
     limit         : Limits \cup {NoLimit},
     details       : Details]

Verdict == [round : Nat, kind : {"approved", "changes_requested"}, by : Users]

TypeOK ==
    /\ project \in [Projects -> ProjectRow]
    /\ milestone \in [Milestones -> MilestoneRow]
    /\ deliverables \in [Milestones -> SUBSET Deliverables]
    /\ revisions \in [Milestones -> Seq(Nat)]
    /\ verdicts \in [Milestones -> SUBSET Verdict]
    /\ members \in SUBSET Users

NewProject(d) ==
    [status |-> "draft", deleted |-> FALSE, client |-> NoUser,
     limit |-> NoLimit, details |-> d]

\* Mutant: no default for payment_status, which the INSERT does not list.
NewMilestoneUnsetPayment(p, d) ==
    [project |-> p, status |-> "pending", revisionCount |-> 0,
     completedAt |-> FALSE, payment |-> "", limit |-> NoLimit,
     details |-> d]

NewMilestone(p, d) ==
    [project |-> p, status |-> "pending", revisionCount |-> 0,
     completedAt |-> FALSE, payment |-> "unpaid", limit |-> NoLimit,
     details |-> d]

-----------------------------------------------------------------------------
(* Guards shared by the handlers *)

\* GetProjectByIDAndOrganizationIDForUpdate finds the row.
Live(p) == project[p].status # "none" /\ ~project[p].deleted

Frozen(p) == project[p].status \in {"archived", "cancelled"}

\* Mutant: the freeze forgets archived projects.
MutableWhenArchived(p) == Live(p) /\ project[p].status # "cancelled"

\* assertProjectNotFrozen: the gate of every mutation but Delete and the
\* restore.
Mutable(p) == Live(p) /\ ~Frozen(p)

MutableMilestone(m) ==
    /\ milestone[m].project # NoProject
    /\ Mutable(milestone[m].project)

\* Mutant: a project that was deleted still counts.
AttachedToAnyRow(u, p) ==
    \E q \in Projects \ {p} : project[q].client = u

\* IsClientOnAnyOtherProject (ClientHasProjects is the same with no exception).
AttachedElsewhere(u, p) ==
    \E q \in Projects \ {p} : Live(q) /\ project[q].client = u

ClientHasProjects(u) == \E q \in Projects : Live(q) /\ project[q].client = u

\* Mutant: the prune does not look at the other projects.
MembersWithout(u, p) == members \ {u}

\* The memberships that remain when u stops being the client of p.
MembersAfterPrune(u, p) ==
    IF AttachedElsewhere(u, p) THEN members ELSE members \ {u}

\* validateProjectStatusTransition, the current status included.
ProjectTransitions ==
    [draft     |-> {"draft", "active", "archived", "cancelled"},
     active    |-> {"active", "completed", "archived", "cancelled"},
     completed |-> {"completed", "archived"},
     archived  |-> {"archived", "active"},
     cancelled |-> {"cancelled"}]

\* Mutant: staff may complete a milestone that awaits the client's approval.
TransitionsWithBypass ==
    [pending           |-> {"in_progress", "cancelled"},
     in_progress       |-> {"pending", "blocked", "cancelled"},
     blocked           |-> {"in_progress", "cancelled"},
     awaiting_approval |-> {"blocked", "cancelled", "completed"},
     changes_requested |-> {"in_progress", "blocked", "cancelled"},
     approved          |-> {"completed"},
     completed         |-> {},
     cancelled         |-> {}]

\* Mutant: a completed milestone can be reopened.
TransitionsWithReopen ==
    [pending           |-> {"in_progress", "cancelled"},
     in_progress       |-> {"pending", "blocked", "cancelled"},
     blocked           |-> {"in_progress", "cancelled"},
     awaiting_approval |-> {"blocked", "cancelled"},
     changes_requested |-> {"in_progress", "blocked", "cancelled"},
     approved          |-> {"completed"},
     completed         |-> {"in_progress"},
     cancelled         |-> {}]

\* validateMilestoneStatusTransition, without the same-state case.
MilestoneTransitions ==
    [pending           |-> {"in_progress", "cancelled"},
     in_progress       |-> {"pending", "blocked", "cancelled"},
     blocked           |-> {"in_progress", "cancelled"},
     awaiting_approval |-> {"blocked", "cancelled"},
     changes_requested |-> {"in_progress", "blocked", "cancelled"},
     approved          |-> {"completed"},
     completed         |-> {},
     cancelled         |-> {}]

\* Reached only through submit, approve and changes-requested.
ActionOnlyStatuses == {"awaiting_approval", "approved", "changes_requested"}

\* Mutant: a cancelled milestone still accepts deliverables.
DeliverablesOpenUntilCompleted(m) ==
    MutableMilestone(m) /\ milestone[m].status # "completed"

\* The gate of the deliverable handlers.
DeliverablesOpen(m) ==
    /\ MutableMilestone(m)
    /\ milestone[m].status \notin {"completed", "cancelled"}

\* Mutant: the number of the revision row is read after the increment.
PreviousRevision(m) == milestone[m].revisionCount

\* The number of the milestone_revisions row a submission inserts.
NewRevision(m) == milestone[m].revisionCount + 1

\* Mutant: a resubmission after a change request stays in its round.
RoundReusedAfterChanges(m) ==
    IF milestone[m].status = "changes_requested"
    THEN milestone[m].revisionCount ELSE milestone[m].revisionCount + 1

\* revision_count after a submission: revision_count + 1 in the UPDATE.
RoundAfterSubmit(m) == milestone[m].revisionCount + 1

\* Mutant: a client may still decide after asking for changes.
UndecidedOrSentBack(m) ==
    milestone[m].status \in {"awaiting_approval", "changes_requested"}

AwaitsDecision(m) == milestone[m].status = "awaiting_approval"

\* Mutant: any client of the organization may decide.
AnyClientDecides(m, u) == u \in members

\* ensureActorProjectAccessInTx: a client decides on the projects they are the
\* client of.
MayDecide(m, u) == project[milestone[m].project].client = u

-----------------------------------------------------------------------------
Init ==
    /\ \E d \in Details :
        /\ project = [p \in Projects |-> [NewProject(d) EXCEPT !.status = "none"]]
        /\ milestone = [m \in Milestones |-> NewMilestone(NoProject, d)]
    /\ deliverables = [m \in Milestones |-> {}]
    /\ revisions = [m \in Milestones |-> <<>>]
    /\ verdicts = [m \in Milestones |-> {}]
    /\ members = {}

(* Projects *)

CreateProject(p, d) ==
    /\ project[p].status = "none"
    /\ project' = [project EXCEPT ![p] = NewProject(d)]
    /\ UNCHANGED <<milestoneTables, members>>

\* PATCH of a project that is not frozen: details, status, or both.
UpdateProject(p, next, d) ==
    /\ Mutable(p)
    /\ next \in ProjectTransitions[project[p].status]
    /\ project' = 
        [project EXCEPT ![p] = [project[p] EXCEPT !.status = next, !.details = d]]
    /\ UNCHANGED <<milestoneTables, members>>

\* PATCH {status: "active"} with no other field, on an archived project.
RestoreProject(p) ==
    /\ Live(p)
    /\ project[p].status = "archived"
    /\ project' = [project EXCEPT ![p].status = "active"]
    /\ UNCHANGED <<milestoneTables, members>>

\* Soft delete, in every status; client_id and the membership stay.
DeleteProject(p) ==
    /\ Live(p)
    /\ project' = [project EXCEPT ![p].deleted = TRUE]
    /\ UNCHANGED <<milestoneTables, members>>

SetProjectRevisionLimit(p, l) ==
    /\ Mutable(p)
    /\ project' = [project EXCEPT ![p].limit = l]
    /\ UNCHANGED <<milestoneTables, members>>

\* PUT .../client with a user: the displaced client is pruned.
AssignClient(p, u) ==
    /\ Mutable(p)
    /\ project[p].client # u
    /\ u \in members
    /\ project' = [project EXCEPT ![p].client = u]
    /\ members' = IF project[p].client = NoUser THEN members
                  ELSE MembersAfterPrune(project[p].client, p)
    /\ UNCHANGED milestoneTables

\* PUT .../client with null.
UnassignClient(p) ==
    /\ Mutable(p)
    /\ project[p].client # NoUser
    /\ project' = [project EXCEPT ![p].client = NoUser]
    /\ members' = MembersAfterPrune(project[p].client, p)
    /\ UNCHANGED milestoneTables

(* Client memberships *)

ProvisionClient(u) ==
    /\ u \notin members
    /\ members' = members \cup {u}
    /\ UNCHANGED <<project, milestoneTables>>

RemoveClient(u) ==
    /\ u \in members
    /\ ~ClientHasProjects(u)
    /\ members' = members \ {u}
    /\ UNCHANGED <<project, milestoneTables>>

(* Milestones *)

CreateMilestone(m, p, d) ==
    /\ milestone[m].project = NoProject
    /\ Mutable(p)
    /\ milestone' = [milestone EXCEPT ![m] = NewMilestone(p, d)]
    /\ UNCHANGED <<project, deliverables, revisions, verdicts, members>>

UpdateMilestone(m, d) ==
    /\ MutableMilestone(m)
    /\ milestone' = [milestone EXCEPT ![m].details = d]
    /\ UNCHANGED <<project, deliverables, revisions, verdicts, members>>

\* The generic PATCH /status of staff.
UpdateMilestoneStatus(m, next) ==
    /\ MutableMilestone(m)
    /\ next \notin ActionOnlyStatuses
    /\ next \in MilestoneTransitions[milestone[m].status]
    /\ milestone' =
        [milestone EXCEPT ![m] =
            [milestone[m] EXCEPT
                !.status = next,
                !.completedAt = IF next = "completed" THEN TRUE
                                ELSE milestone[m].completedAt]]
    /\ UNCHANGED <<project, deliverables, revisions, verdicts, members>>

\* A submission opens a round: the UPDATE increments the counter and the
\* INSERT adds the history row, under the unique index on
\* (milestone_id, revision_number).
SubmitMilestone(m) ==
    /\ MutableMilestone(m)
    /\ milestone[m].status \in {"in_progress", "changes_requested"}
    /\ project[milestone[m].project].client # NoUser
    /\ deliverables[m] # {}
    /\ \A i \in DOMAIN revisions[m] : revisions[m][i] # NewRevision(m)
    /\ milestone[m].revisionCount < MaxRevisions
    /\ milestone' =
        [milestone EXCEPT ![m] =
            [milestone[m] EXCEPT
                !.status = "awaiting_approval",
                !.revisionCount = RoundAfterSubmit(m)]]
    /\ revisions' = [revisions EXCEPT ![m] = Append(@, NewRevision(m))]
    /\ UNCHANGED <<project, deliverables, verdicts, members>>

\* What approve and changes-requested share: only the project's client may
\* decide, and only on a milestone that awaits a decision.
Decide(m, u, kind) ==
    /\ MutableMilestone(m)
    /\ MayDecide(m, u)
    /\ AwaitsDecision(m)
    /\ milestone' = [milestone EXCEPT ![m].status = kind]
    /\ verdicts' = [verdicts EXCEPT ![m] = @ \cup
            {[round |-> milestone[m].revisionCount, kind |-> kind, by |-> u]}]
    /\ UNCHANGED <<project, deliverables, revisions, members>>

ApproveMilestone(m, u) == Decide(m, u, "approved")

RequestMilestoneChanges(m, u) == Decide(m, u, "changes_requested")

CreateDeliverable(m, d) ==
    /\ DeliverablesOpen(m)
    /\ d \notin deliverables[m]
    /\ deliverables' = [deliverables EXCEPT ![m] = @ \cup {d}]
    /\ UNCHANGED <<project, milestone, revisions, verdicts, members>>

DeleteDeliverable(m, d) ==
    /\ DeliverablesOpen(m)
    /\ d \in deliverables[m]
    /\ deliverables' = [deliverables EXCEPT ![m] = @ \ {d}]
    /\ UNCHANGED <<project, milestone, revisions, verdicts, members>>

\* Any transition, in every milestone status.
UpdateMilestonePaymentStatus(m, next) ==
    /\ MutableMilestone(m)
    /\ milestone[m].payment # next
    /\ milestone' = [milestone EXCEPT ![m].payment = next]
    /\ UNCHANGED <<project, deliverables, revisions, verdicts, members>>

SetMilestoneRevisionLimit(m, l) ==
    /\ MutableMilestone(m)
    /\ milestone' = [milestone EXCEPT ![m].limit = l]
    /\ UNCHANGED <<project, deliverables, revisions, verdicts, members>>

-----------------------------------------------------------------------------
ProjectNext(p) ==
    \/ \E d \in Details : CreateProject(p, d)
    \/ \E next \in ProjectStatus, d \in Details : UpdateProject(p, next, d)
    \/ RestoreProject(p)
    \/ DeleteProject(p)
    \/ \E l \in Limits \cup {NoLimit} : SetProjectRevisionLimit(p, l)
    \/ \E u \in Users : AssignClient(p, u)
    \/ UnassignClient(p)

ClientNext(u) == ProvisionClient(u) \/ RemoveClient(u)

MilestoneNext(m) ==
    \/ \E p \in Projects, d \in Details : CreateMilestone(m, p, d)
    \/ \E d \in Details : UpdateMilestone(m, d)
    \/ \E next \in MilestoneStatus : UpdateMilestoneStatus(m, next)
    \/ SubmitMilestone(m)
    \/ \E u \in Users : ApproveMilestone(m, u)
    \/ \E u \in Users : RequestMilestoneChanges(m, u)
    \/ \E d \in Deliverables : CreateDeliverable(m, d)
    \/ \E d \in Deliverables : DeleteDeliverable(m, d)
    \/ \E next \in PaymentStatus : UpdateMilestonePaymentStatus(m, next)
    \/ \E l \in Limits \cup {NoLimit} : SetMilestoneRevisionLimit(m, l)

Next ==
    \/ \E p \in Projects : ProjectNext(p)
    \/ \E u \in Users : ClientNext(u)
    \/ \E m \in Milestones : MilestoneNext(m)

Spec == Init /\ [][Next]_vars

-----------------------------------------------------------------------------
(* Invariants *)

\* The revision history of a milestone is exactly the rounds 1, 2, ...,
\* revision_count: the counter of milestones and the rows of
\* milestone_revisions, written by two statements of SubmitMilestone, never
\* disagree, whatever blocks, withdrawals and change requests lie between.
RevisionLedger ==
    \A m \in Milestones :
        /\ Len(revisions[m]) = milestone[m].revisionCount
        /\ \A i \in 1 .. Len(revisions[m]) : revisions[m][i] = i

\* A client decides on submissions only: a milestone that awaits a decision
\* awaits it on a round that was opened and has no verdict yet, and each verdict
\* answers an opened round.
VerdictsAnswerSubmissions ==
    \A m \in Milestones :
        /\ AwaitsDecision(m) => milestone[m].revisionCount > 0
        /\ \A v \in verdicts[m] :
            /\ v.round \in 1 .. milestone[m].revisionCount
            /\ AwaitsDecision(m) => v.round # milestone[m].revisionCount

\* A round is decided at most once: no submission is both approved and sent
\* back, nor decided by two clients, across reassignments of the client and
\* staff's generic status changes.
OneVerdictPerRound ==
    \A m \in Milestones : \A v, w \in verdicts[m] :
        v.round = w.round => v = w

\* The client's sign-off cannot be bypassed or lost: a milestone is approved
\* or completed exactly when its latest submission carries an approval.
SignedOff ==
    \A m \in Milestones :
        milestone[m].status \in {"approved", "completed"} <=>
            \E v \in verdicts[m] : /\ v.kind = "approved"
                                   /\ v.round = milestone[m].revisionCount

\* completed_at is stamped by the transition to completed and by no other.
CompletedStamp ==
    \A m \in Milestones :
        milestone[m].completedAt <=> milestone[m].status = "completed"

\* A milestone that was not created is as CreateMilestone will make it.
NotCreatedIsPristine ==
    \A m \in Milestones :
        milestone[m].project = NoProject =>
            /\ milestone[m].status = "pending"
            /\ milestone[m].revisionCount = 0
            /\ ~milestone[m].completedAt

\* The client of a live project holds an active client membership, so no
\* assignment, prune, removal or restore strands projects.client_id.
ClientIsMember ==
    \A p \in Projects :
        Live(p) /\ project[p].client # NoUser => project[p].client \in members

\* The inductive invariant behind the theorems of ProjectLifecycleProofs.
ApprovalInv ==
    /\ RevisionLedger
    /\ VerdictsAnswerSubmissions
    /\ OneVerdictPerRound
    /\ SignedOff
    /\ CompletedStamp
    /\ NotCreatedIsPristine

(* Action properties *)

\* The rows a step may leave in place of the row of a closed project.
ClosedSuccessors(p) ==
    {project[p]}
        \cup (IF project[p].deleted THEN {}
              ELSE {[project[p] EXCEPT !.deleted = TRUE]})
        \cup (IF project[p].deleted \/ project[p].status # "archived" THEN {}
              ELSE {[project[p] EXCEPT !.status = "active"]})

\* An archived, cancelled or deleted project is read-only with everything
\* under it; the only ways on are the restore of an archived one and the
\* delete of a live one, and neither changes anything else.
ClosedProjectIsReadOnly ==
    [][\A p \in Projects :
        project[p].deleted \/ Frozen(p) =>
            /\ project'[p] \in ClosedSuccessors(p)
            /\ \A m \in Milestones :
                milestone[m].project = p \/ milestone'[m].project = p =>
                    /\ milestone'[m] = milestone[m]
                    /\ deliverables'[m] = deliverables[m]
                    /\ revisions'[m] = revisions[m]
                    /\ verdicts'[m] = verdicts[m]]_vars

\* A milestone that is completed or cancelled is closed for good, with its
\* deliverables, its rounds and their verdicts; approved leads only to
\* completed.
TerminalMilestoneIsClosed ==
    [][\A m \in Milestones :
        /\ milestone[m].status \in {"completed", "cancelled"} =>
            /\ milestone'[m].status = milestone[m].status
            /\ deliverables'[m] = deliverables[m]
            /\ revisions'[m] = revisions[m]
            /\ verdicts'[m] = verdicts[m]
        /\ milestone[m].status = "approved" =>
            milestone'[m].status \in {"approved", "completed"}]_vars

\* A client displaced from a project keeps the membership exactly when another
\* live project still names them.
DisplacedClientIsPruned ==
    [][\A p \in Projects, u \in Users :
        project[p].client = u /\ project'[p].client # u =>
            (u \in members' <=> ClientHasProjects(u)')]_vars

\* What ClientAccess sees of a project.  A project not created yet is, to it,
\* an open one without a client.
Phase(p) ==
    IF project[p].deleted THEN "deleted"
    ELSE IF Frozen(p) THEN project[p].status
    ELSE "open"

Access ==
    INSTANCE ClientAccess WITH
        phase  <- [p \in Projects |-> Phase(p)],
        client <- [p \in Projects |-> project[p].client]

\* The project and client endpoints implement ClientAccess, as the transactions
\* of ClientAssignment do: whatever a staff edit, a milestone operation or a
\* lifecycle change does, it changes a project's client, its phase and the
\* client memberships only the way the abstract operations allow.
ImplementsAccess == Access!Spec

\* What ApprovalProtocol sees of a milestone.  Staff's statuses before a
\* submission are one stage to it; a round is a row of the revision history, with
\* the decisions that the audit rows record for it.
Stage(m) ==
    LET stages ==
        [pending           |-> "work",
         in_progress       |-> "work",
         blocked           |-> "work",
         awaiting_approval |-> "review",
         changes_requested |-> "sentBack",
         approved          |-> "approved",
         completed         |-> "completed",
         cancelled         |-> "cancelled"]
    IN  stages[milestone[m].status]

Open(m) ==
    /\ milestone[m].project # NoProject
    /\ Phase(milestone[m].project) = "open"

ClientOf(m) ==
    IF milestone[m].project = NoProject THEN NoUser
    ELSE project[milestone[m].project].client

DecisionsOn(m, n) ==
    {[kind |-> v.kind, by |-> v.by] : v \in {w \in verdicts[m] : w.round = n}}

Approval ==
    INSTANCE ApprovalProtocol WITH
        open   <- [m \in Milestones |-> Open(m)],
        client <- [m \in Milestones |-> ClientOf(m)],
        stage  <- [m \in Milestones |-> Stage(m)],
        rounds <- [m \in Milestones |->
            [i \in DOMAIN revisions[m] |-> DecisionsOn(m, revisions[m][i])]]

\* The milestone endpoints implement ApprovalProtocol: the status column, the
\* counter, the history rows and the audit rows, written by different handlers and
\* by staff's generic status change, are together a protocol of rounds, each
\* decided at most once and only by the client of an open project, of which
\* nothing but an approval leads to completion.
ImplementsApproval == Approval!Spec

(* What the comment above validateMilestoneStatusTransition says *)

\* "Cancellation is the escape hatch and must exist from every non-terminal
\* state": staff can cancel any milestone of an open project that is neither
\* completed nor cancelled.
CancellableUntilTerminal ==
    \A m \in Milestones :
        /\ MutableMilestone(m)
        /\ milestone[m].status \notin {"completed", "cancelled"}
        => ENABLED UpdateMilestoneStatus(m, "cancelled")
=============================================================================
