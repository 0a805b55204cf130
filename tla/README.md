# Verification of egentop-core

egentop-core is the backend of an agency's client portal: organizations run
projects, projects have milestones with deliverables, and the client of a project
approves each milestone or sends it back. It is a stateless Go HTTP server; all
state is in PostgreSQL, every mutation is one transaction at READ COMMITTED with a
5 second timeout, and the code's correctness rests on which rows a transaction
locks, and in what order, before it reads and writes.

## Inventory

| Component | State | Operations | Interacts with |
|---|---|---|---|
| Projects (`internal/project`) | `projects`: status, deleted_at, client_id, revision_limit | Create, Update (PATCH and restore), Delete (soft), AssignClient, SetProjectRevisionLimit | memberships (prune), milestones (freeze) |
| Milestones (`internal/project`) | `milestones`, `milestone_revisions`, `milestone_deliverables` | CreateMilestone, UpdateMilestone, UpdateMilestoneStatus, SubmitMilestone, ApproveMilestone, RequestMilestoneChanges, CreateDeliverable, DeleteDeliverable, UpdateMilestonePaymentStatus, SetMilestoneRevisionLimit | the project row is locked first by all of them |
| Clients (`internal/client`) | client rows of `memberships`, `users` | Provision, ResetCredential, Remove, List | projects (attachment check), sessions (revocation) |
| Memberships (`internal/membership`) | staff rows of `memberships` | InviteOrgMember, AddOrgMember, RemoveOrgMember, UpdateOrgMemberRole | clients share the table |
| Sessions (`internal/auth`, `internal/user`) | `sessions`, `users.password_hash`, `users.must_change_password` | Register, Login, RefreshToken, Logout, LogoutAllDevices, ChangePassword | the request gates read them |
| Organizations (`internal/organization`, `internal/slug`) | `organizations` | Create, CreateTx, Update | memberships (owner) |
| Assignments (`internal/assignment`) | `assignments` | Create, Update, Delete | `project.LockForMutation`, memberships |
| Audit and activity (`internal/audit`, `internal/activity`) | append-only `audit_logs`, `activities`, `authz_decisions` | Log, RecordDecision | written by everything above |
| Request gates (`internal/middleware`) | none but the rate limiter's map | authentication, password gate, organization, membership, permission, rate limit | read before the handler's transaction |
| Database (`pkg/db`) | pool of 25 connections | WithTransaction, WithDBTimeout | all |

The behaviours that are hard here: transactions that read a row another one is
about to change (the membership of a client being assigned, the other projects of
a client being pruned, the sessions being revoked); locks taken in different
orders; deletes and re-inserts of the same membership while a statement waits for
it; a role that is read without a lock and written by user id; a second connection
taken inside a transaction while the pool is bounded; and long histories of legal
calls on one milestone. The hazards, each with its line, are in PROJECT.json.

What makes each component correct:

- Milestones: the revision history and the counter agree, each submission is
  decided at most once and by the client of the project at that time, approval
  cannot be bypassed or lost, closed things stay closed.
- Clients and projects: the client of a live project is always a member; a client
  displaced from the last live project is not; requests in flight end when no more
  come.
- Memberships: only owners make owners, the founder stays one, and only a reassignment
  that meets stale roles deadlocks. That owners and clients are never removed or re-roled by staff
  operations is what the comments say, and it does not hold under stale reads.
- Sessions: one active session per lineage; what a revocation promises to revoke
  is revoked; a password change and its revocations happen together.
- Organizations: a slug is unique, an organization has an owner from the start.
- Assignments: only on open projects, to active staff, one for a project.
- Database: the pool never opens more than its limit, a server stalls only through
  queries on the pool inside a transaction, and every request is answered.
- Rate limiter: counts, windows and forgets as documented.

## Modules

Written:

| Module | What it is |
|---|---|
| `ProjectLifecycle` | the tables of projects, milestones, deliverables, revisions and decisions and the set of client memberships; one action per mutation |
| `ProjectLifecycleMC` | symmetry for its three runs |
| `ProjectLifecycleProofs` | its invariants, proved |
| `ProjectLifecycleSteps` | its action properties and its refinements of `ClientAccess` and `ApprovalProtocol`, proved |
| `ApprovalProtocol` | abstract specification: the sign-off of a milestone as rounds of submission and decision |
| `ClientAccess` | abstract specification: changing a project's client, provisioning and removing clients as single steps |
| `ClientAssignment` | the same requests statement by statement, with row locks, aborts and deadlocks; implements `ClientAccess` |
| `ClientAssignmentMC` | its instance |
| `ClientAssignmentProofs` | its inductive invariant, its refinement and its deadlocks, proved |
| `Membership` | the membership rows of one organization under staff, client and assignment requests, with the locks some of them take |
| `MembershipMC` | symmetry for its two runs |
| `MembershipProofs` | theorems about it |
| `ConnectionPool` | requests, the bounded pool of connections, the row lock of a project, timeouts and disconnects |
| `ConnectionPoolMC` | its instance |
| `ConnectionPoolProofs` | theorems about it |
| `Sessions` | sessions and credentials of users, statement by statement, with row locks and aborts |
| `SessionsMC` | symmetry and a view for its five runs |
| `SessionsProofs` | theorems about it |
| `SessionDeadlockProofs` | what can deadlock in it, proved |
| `SessionLineages` | abstract specification: logins start lineages of sessions, refreshes rotate them, revocations end those of one user |
| `SessionLineagesProofs` | the refinement of it, proved |

### ProjectLifecycle

All mutations of `project.Service` begin with `SELECT ... FOR UPDATE` on the
project row and hold it until they commit, so two of them on one project never
overlap, and a request that commits is one step. A request that is rejected leaves
no trace (the transaction rolls back) and is no step, and so is one that finds
nothing to do: submitting a submitted milestone, approving an approved one,
setting a status to itself.

`project[p]` and `milestone[m]` are rows; `status = "none"` and
`project = NoProject` are rows that do not exist yet. `deliverables[m]` is the set
of deliverables, `revisions[m]` the sequence of `revision_number` in insertion
order. `verdicts[m]` holds the `milestone.approved` and
`milestone.changes_requested` audit rows, each with the value of `revision_count`
it was written at: the audit log is the only record of decisions the system has.
`members` is the set of users with an active client membership. Free-text columns
are one value per row; no property looks into them. An action's guard joins the
handler's checks in their order; `SubmitMilestone` includes the unique index on
`(milestone_id, revision_number)` as a guard, since a violation fails the request.

`ProjectLifecycle` implements `ClientAccess`, too (`ImplementsAccess`): the phase of a
project is a function of its row (`Phase`), a project that is not created yet is an
open one without a client, and everything else about projects and milestones is
hidden. `ClientAccess` is weaker than `DisplacedClientIsPruned` in the point described
below, so this refinement adds to that property and does not replace it.

`ApprovalProtocol` is what an organization and its client are promised about a
milestone: submissions open rounds, the client of the project at that moment decides
the round under review, at most once, an approval ends the rounds, and nothing moves
under a closed project. `ImplementsApproval` says that the ten milestone endpoints
together are that protocol. The mapping joins what they write in four places: a stage
is a class of statuses (`pending`, `in_progress` and `blocked` are one, since staff move
between them as they like), a round is a row of the revision history, its decisions are
the audit rows written at its number, and open and client are those of the project's
row. So the refinement breaks when a counter, a history row and an audit row disagree,
when staff's status change reaches a stage by itself, and when somebody else decides. The
abstract `ChangeProjects` lets projects close, open and change clients at will: what they
may do is the business of `ClientAccess`.

The one thing an action of this module does *not* show is what happens between the
statements of transactions on different projects that share a client. That is:

### ClientAssignment

`phase`, `client` and `members` are the committed rows. `request[r]` is a
transaction: the statement it has reached (`at`), the project, the new client, the
displaced client and what the prune has decided. Locks are not variables: they
follow from `at` (`HoldsProject`, `HoldsShare`, `HoldsUpdate`), and `WaitsFor(r)`
is the set of transactions the current statement of `r` is blocked by. A locking
read is two steps, because a row that is deleted between the start of the
statement and the grant of the lock is not found even if it was inserted again
(`AfterDelete`). Writes are published by `Commit`. `Abort` may strike a request at
any statement: it stands for the timeout of `WithDBTimeout`, a lost connection, an
error of an audit or activity INSERT and the deadlock detector. Requests take
over each other's identifiers when they end, so a run has no bound on the number
of requests, only on how many are in flight.

`client.Remove` shares the prune's statements, because its lock, its attachment
check and its delete are the same queries; where the two differ (`404` against
skipping, `409` against keeping) the action says so.

`ClientAccess` is what a client of the API is promised. It is deliberately weaker
than `DisplacedClientIsPruned` of `ProjectLifecycle` in one point: the membership of
a displaced client may be kept because of a project that was deleted while the
request ran, between its look at the other projects and its commit (`Delete` takes
no membership lock). The reverse, pruning a client a live project names, never
happens. `ClientAssignment` uses the variables of `ClientAccess` for its committed
rows, so the refinement mapping is the identity on them and `request` is hidden.

The prune that finds no membership row (`WithoutRow` for an assignment) is in the
code and in the model but no run reaches it: without the staff operations of
`internal/membership` the row of a project's client is always there. What those
operations can do to it is the subject of `Membership`.

### Sessions

`session`, `password` and `mustChange` are the committed rows. A session is none,
active or revoked and names the first session of its lineage as its `family`
(`token_family_id`); rotation revokes one and creates the next. A password is
`"chosen"` by its owner or `"issued"` as a one-time credential; whether the one
presented is right, and whether a token has expired, are inputs. Deleting users is no
operation of the code, and no operation deletes a session.

`request[r]` is a request in flight: its operation, the statement it has reached, the
user and the token it is about, and the session rows it has locked. `Register`,
`Login` and `Provision` insert rows and change none, so they are one step. The others
go through the statements of their handlers:

| Operation | Steps |
|---|---|
| RefreshToken | `BeginWithToken`, `GrantToken` (`FOR UPDATE` on the token's session returns), `Commit` (revoke, insert the successor) |
| RefreshToken with a revoked token | as above, but `GrantToken` turns it into `"reuse"`: `RevokeSessions`, `GrantRow` per row, `Commit` |
| Logout | `BeginWithToken`, `GrantToken`, `Commit` |
| LogoutAllDevices | `BeginWithToken`, `GrantToken`, `RevokeSessions`, `GrantRow` per row, `Commit` |
| ChangePassword | `BeginChange` (RequireAuth and the password check), `UpdatePasswordHash`, `UpdateUser`, `RevokeSessions`, `GrantRow` per row, `Commit` |
| ResetCredential | `BeginReset`, `UpdateUser`, `RevokeSessions`, `GrantRow` per row, `Commit` |

Two things decide what these operations can promise. An `UPDATE sessions ... WHERE
revoked = false` takes its snapshot once (`RevokeSessions`), then locks the rows one
after the other in an order the planner chooses, and looks at each again when it
has the lock: a row that was revoked meanwhile is left alone (`Revoked`), and one that
was inserted meanwhile is not found. And `UpdatePasswordHash` runs on the pool, not on
the transaction: it is committed at once, and an `Abort` afterwards does not undo it.

`due` is a history field: what the revocation is expected to revoke, taken when it
holds its token or its user row. No action reads it; `RevocationIsComplete` and
`OtherSessionsEnd` do.

`SessionLineages` is the same component with every request one step: a login starts a
lineage, a refresh replaces its only session by one that never existed before, and
everything that logs out or revokes ends some lineages of one user. A lineage is named by
its first session, so the mapping needs the committed rows only: the owner of a lineage is
the user of that session, and its live sessions are the active rows of the family.
`ImplementsLineages` says that the requests, which visit their rows one by one among
others, take effect like that: none of them ever rotates what another has ended, crosses
to another user, or gives a successor another user or family than its token's. Which
lineages a revocation has to end is left open there; that is `RevocationIsComplete`, and,
for the successors it misses, the two refuted properties.

### Membership

One organization and one of its projects. `member[u]` is a row of `memberships`: its
role (owner, staff, client; administrators, members and viewers differ only for the
permission gate) and its status. An invited row is never activated: the comment in
`membership/service.go:81-82` says that it becomes active when the invitation is
accepted, but no operation accepts one. `project`, `client` and `assignee` are the
project's state, its client and its assignment.

Several services write the same row, and each writes it by user id after its own look
at the role. `RemoveOrgMember` and `UpdateOrgMemberRole` look without a lock
(`SeesStaff`), `requireOwnerToGrantOwner` looks at its actor's row `FOR UPDATE`,
`client.Remove` looks without a lock and then locks, `EnsureActiveMember` locks the
assignee's row, `IsActiveClientMember` the new client's. Each transaction is split where
another may run between its look and its write, and where it waits for a row with
another one locked; `request[r]` says which statement is next, and the locks follow from
it (`HoldsMember`, `ProjectFree`):

| Operation | Steps |
|---|---|
| InviteOrgMember, AddOrgMember of an owner | `GrantOwner` (locks the actor), `InsertOwner` |
| the same of another role | `InviteOrgMember`, `AddOrgMember` in one step: they look at nothing that they write by |
| UpdateOrgMemberRole to owner | `GrantOwner`, `ReadTarget`, `UpdateRole` |
| UpdateOrgMemberRole to another role | `BeginUpdateRole`, `UpdateRole` |
| RemoveOrgMember | `BeginRemove`, `DeleteMember` |
| client.Remove | `BeginRemoveClient`, `DeleteClient` |
| project.AssignClient | `BeginAssignClient` (locks the project), `IsActiveClientMember` (locks the new client; not for an unassignment), `AssignClient` (locks and prunes the displaced client, if there is one, and commits) |
| assignment.Create, Update | `BeginAssignment` (`LockForMutation`), `EnsureActiveMember`, `CreateAssignment` or `UpdateAssignment` |

Creation of the organization, provisioning of a client and deletion of an assignment
take one lock at most, wait for it with nothing held, and are one step. There is one
project, so one client assignment at a time holds it, and the `FOR SHARE` on the new
client's row never meets another; how assignments of several projects interleave and
deadlock is in `ClientAssignment`, which has no staff operations. A statement that waits
for a row looks at it when it gets it; what it finds of a row that was deleted and
inserted again meanwhile is in `ClientAssignment` too. The permission gate runs before the transaction, on another connection, and is not
trusted: any operation may come at any time, from anyone the service itself accepts.
So nothing that is shown rests on the gate, and what the gate rules out for callers
without permission is not claimed.

### ConnectionPool

`at[r]` is what a request executes next, `conn[r]` how many connections it has. A
statement needs one connection, and a statement on the pool inside a transaction needs
a second one (`Needs`). `Acquire` is the pool giving a connection to one of those that
wait. The middlewares come in the order of the routes, `RequireAuth`, `LoadOrg`,
`RequireMembership`, `RequirePermission` and the record of its decision, each on a
connection that it gives back; they wait on the request's context, without
`WithDBTimeout`. A handler is one of five kinds (`Kinds`), by what it does with
connections:

- statements on the pool, one after the other: the reads;
- a transaction that locks the project row first: the mutations of projects,
  milestones, deliverables and assignments;
- the same with a read on the pool after the commit: `Update`, `UpdateMilestone`,
  `SetProjectRevisionLimit`;
- the same with a query on the pool *inside* the transaction: `UpdateMilestone`, and the
  denied decisions of `ensureActorProjectAccessInTx`;
- a transaction without a project row and with such a query: `assignment.GetByID` and
  `ChangePassword`, which reads the password hash on the pool first.

Which rows are read, and locks on anything but the project row, are left out. A
`Timeout` of `WithDBTimeout` may come at any statement of a service, a `Disconnect`
at any statement at all.

## Runs

| Run | Question | Instance | Distinct states |
|---|---|---|---|
| `milestone_approval` | Is the approval workflow sound over rounds, clients, freezes and staff's status changes, and is it the protocol that both sides are promised (`ApprovalProtocol`)? | 1 project, 1 milestone, 2 users, 1 deliverable, 1 limit, 2 rounds | 99 thousand |
| `project_clients` | Do projects that share clients ever strand or leak a membership, and are they what a client of the API is promised (`ClientAccess`)? | 2 projects, 1 milestone, 2 users, 1 round | 190 thousand |
| `cancel_milestone` | Can every milestone that is not terminal be cancelled? (no) | 1 of each | stops at the violation |
| `client_assignment` | Do concurrent assignments, prunes, removals and provisions behave like single steps, what can deadlock, and do the requests in flight end when no more come? | 2 projects, 2 users, 2 requests in flight | 105 thousand, no symmetry |
| `session_revocation` | Can a lineage fork or revive, or a revocation miss a session, and do requests take effect as single steps (`SessionLineages`)? | 2 users, 3 sessions, 2 requests in flight | 404 thousand |
| `session_deadlocks` | What can deadlock? | 1 user, 3 sessions, 3 requests in flight, view without `due` | 902 thousand |
| `password_change_revokes` | Do all other sessions end with a password change? (no) | 1 user, 3 sessions, 2 requests in flight | stops at the violation |
| `reuse_revokes` | Does the reuse of a revoked token end its lineage? (no) | 1 user, 3 sessions, 2 requests in flight | stops at the violation |
| `credential_gate` | Is an issued credential always behind the gate? (no) | 1 user, 2 sessions, 2 requests in flight | stops at the violation |
| `membership` | Who can become an owner, can the founder cease to be one, who is assigned, and can these requests deadlock? | 3 users, 3 requests in flight | 514 thousand |
| `protected_members` | Are owners and clients out of reach of staff operations? (no) | 3 users, 2 requests in flight | stops at the violation |
| `connection_pool` | What can stall the server, and is every request answered nevertheless? | 3 requests, 2 projects, 2 connections | 43 thousand, no symmetry |

Why these bounds are enough to be interesting: two rounds are the fewest in which a
verdict can be attached to the wrong round, a resubmission can repeat a number and
a client can be replaced between submission and decision. `MaxRevisions` only stops
the counter; no property mentions it, and the theorems hold for every value. Two
projects and two users are the fewest in which a prune has another project to look
at and clients can be exchanged. In `client_assignment` two requests are the fewest that
deadlock and that interleave a prune with every other operation; what three or more
can do is left to the theorems, which cover every property of that run but `Drains`.
`Drains` does not depend on their number: after the last request has begun each has a
bounded number of statements left, and when none can take its next one, some of them wait
for each other and the deadlock detector ends one.

Three sessions are the fewest with a lineage of two and another lineage next to it;
two users separate the scope of a user from that of a lineage. The number of sessions
bounds a run, not the model: it is how many are ever created. A third request is
needed for the deadlocks: with two, none of the cycles contains a reuse detection. The
runs of properties that read `due` keep it; the deadlock run drops it by a VIEW,
which is sound because neither an action nor that invariant reads it.

Three users and three requests in `membership` let one grant make an owner while two
others are between their look and their write, and let a grant by the displaced client
and a reassignment wait for each other with a removal between them. A longer chain of
grants in such a deadlock takes a fourth user, and is left to the theorem. Two connections stand for the 25 of
`pkg/db`: with three requests the pool can be exhausted by transactions that need a
second one, which takes as many of them as there are connections. Two projects let two
such transactions run at once; with one they would queue on the project row.

`cancel_milestone` documents a divergence: the comment above
`validateMilestoneStatusTransition` and a test promise cancellation from every
non-terminal state, and call only completed and cancelled terminal, but an approved
milestone can only be completed.

`DeadlocksAreSwaps` says exactly what the remaining deadlock is. A reassignment
holds the new client's membership FOR SHARE when it asks for the displaced client's
FOR UPDATE, so two reassignments that exchange clients between two projects wait
for each other (three that rotate them likewise); nothing else does. PostgreSQL
aborts one of them.

`DeadlocksAreReassignments` says what the staff operations add. A grant of the owner role
holds its actor's row while it waits for its target's, but grants alone never wait for
each other in a circle: each has seen that its target is no owner, and its actor is one.
A reassignment can close the circle when two roles have changed under an unlocked look.
Somebody who was seen as staff, was removed and came back as the project's client is made
an owner by the late UPDATE; this owner grants the role to a staff member, who is removed
and provisioned as a client before the write. A reassignment from the one to the other
then holds the row that the grant waits for and waits for the row that the grant holds.
PostgreSQL aborts one of them.

`DeadlocksAreLogoutAlls` says the same of sessions: rotation and logout lock one row
each and never close a cycle; a logout-all holds the row of its own token while it
visits the others, so two of them from different devices, or one and a password
change or reuse detection, can wait for each other. PostgreSQL rolls one back, which
then answers with a database error and has logged nobody out.

`password_change_revokes`, `reuse_revokes` and `credential_gate` document three more
disagreements of the code with what is written about it:

- ChangePassword's UPDATE waits for a session that a refresh is replacing. When the
  refresh commits, PostgreSQL shows the UPDATE the row it waited for, now revoked, and
  nothing else: the successor survives, although the comment and `docs/api.md` say
  all other sessions are revoked. `RevocationIsComplete` is what does hold: every
  session that was active when the revocation started is revoked. The two differ by
  the successors of such sessions.
- The reuse of a revoked token takes a lock on the row of that token only, not on the
  family. While its UPDATE waits for the family's active session, which a refresh is
  replacing, the same thing happens: the refresh commits, the UPDATE finds its row
  revoked, and the successor goes on in the family that the comment and
  `docs/security.md` say is revoked. The next presentation of a revoked token would
  revoke it; until then the theft signal has had no effect.
- ChangePassword commits the new hash before the statement that lifts the gate. A
  ResetCredential that commits in between issues a new one-time credential and arms
  the gate; ChangePassword then takes its lock and lifts it.

`protected_members` documents one more. RemoveOrgMember's comment says that the owner
can never be removed, UpdateOrgMemberRole's that a client membership can never be
re-roled. Both look at the role on a row they do not lock and then write by user id. A
staff member who is made an owner between the two is removed or demoted as an owner; a
member who is removed and provisioned as a client in between has the client row
removed or re-roled, under a project that may already name them. What does hold is
weaker: `FounderStaysOwner`, since the founder was never anything else, and
`OnlyOwnersGrantOwner`, which the lock on the actor's row buys.

`StallsNeedNesting` says what the pool's danger is. Requests that hold one
connection at a time always make room for each other. When every connection is with a
transaction that asks for another one, or waits for the project row of one that does,
nothing goes on until `WithDBTimeout` ends one of them; meanwhile every other request,
in whichever middleware, waits as well. `StallsTakeTheWholePool` is the sizing rule that
follows: a stall has exactly as many transactions as the pool has connections, since a
request that holds a second one is always able to go on, so a server that runs fewer of
its transactions at once than its limit of 25 never depends on the timeout. `RequestsEnd` says that the timeout is enough:
all are answered.

### Fairness

`client_assignment` and `connection_pool` assume some.

In `client_assignment`, weak fairness only: a statement that waits for nothing is taken,
because a server goroutine goes on; a statement whose lock is free from some point on is
granted it; and the deadlock detector runs after `deadlock_timeout` (`BreakDeadlock`).
Neither a new request nor `Abort` is assumed to happen, so `Drains` does not rest on the 5
second timeout. It says that the requests in flight end once no more begin, as in the
shutdown of the server (`cmd/api/main.go:150-159`), which gives them 10 seconds.

It does not say that a request ends while others keep coming, and that would not be true.
PostgreSQL grants a `FOR SHARE` on a row that is share-locked already, past a `FOR UPDATE`
that waits for it. So assignments of one client to two projects that overlap again and
again, which takes three requests, keep a `client.Remove` or a prune of that client waiting
for as long as they go on. Only the timeout of `WithDBTimeout` ends such a wait.

In `connection_pool`: weak fairness of statements that have all they need. Strong
fairness of `Acquire` and of the project row lock: `database/sql` hands a free
connection to one of those that wait for it, and PostgreSQL queues the waiters of a
row. Weak fairness of `Timeout`: it is a timer of the Go runtime, and it is needed,
since a stalled server has no other way out. No request is assumed to arrive and no
client to go away.

## Theorems

`ProjectLifecycleProofs` proves, for any sets of projects, milestones, users and
limits and any `MaxRevisions`, from the three named assumptions of
`ProjectLifecycle` (the sentinels are not values, limits are positive, the bound is
a number):

- `TypeCorrect`: `TypeOK` is invariant. Every theorem below rests on it.
- `RevisionLedgerCorrect`, `VerdictsCorrect`, `OneVerdictCorrect`, `SignOffCorrect`: the
  approval workflow. None of the four properties is inductive alone. That a round is
  decided once needs that an awaiting milestone has no verdict on its round; that
  needs that verdicts never run ahead of the counter; the counter's agreement with the
  history needs that a milestone which does not exist yet has no history. `ApprovalInv`
  joins them with the completion stamp and is inductive. The proof reads it for one
  milestone at a time (`MilestoneInv`): a step of one milestone leaves the rows of the
  others `Untouched`, steps of projects and of memberships leave all of them, and
  `StaffTransitions` is the one fact needed of the transition table.
- `ClientIsMemberCorrect`: the client of a live project is a member. It is inductive with
  the types: assignment requires the membership, and the prune and the removal look at
  every live project that still names the user.

`SessionsProofs` proves, for any sets of users, sessions and requests, from
`SentinelAssumption` alone:

- `TypeCorrect` and `OneActivePerLineageCorrect`, from the inductive invariant `IInv`. That a
  lineage has one active session is not inductive: a rotation about to commit must
  still hold the session it replaces, and that session must still be active
  (`RotationInv`), which is so because nobody else commits to a row it has locked
  (`LocksExclude`).
- `EndedLineageStaysEndedCorrect`: the only step that creates a session in an existing
  lineage is the commit of a rotation, and by `RotationInv` its lineage has not ended.
- `RevocationIsCompleteCorrect`, from `RevocationInv`: at every statement of a revocation,
  each active session that is due is locked by it, wanted by it or still to be
  visited; at its commit only the first is left.

`ProjectLifecycleProofs` also proves `CompletedStampCorrect`, a part of `ApprovalInv`.
`ProjectLifecycleSteps` proves the action properties from the types, from
`NotCreatedIsUnused` (the row of a project that does not exist has no client and is not
deleted) and from `ClientIsMember`:

- `ClosedProjectCorrect`: a milestone's handler finds its project open and keeps to its own
  rows (`MilestoneFrame`), and the handlers of a closed project restore or delete it.
- `TerminalMilestoneCorrect`: from the transition table and the guards of the decisions.
- `DisplacedClientCorrect`: the set of members after a prune is right because the prune asks
  for the other live projects and holds what it reads.
- `ImplementsAccessCorrect`: the initial rows are those of `ClientAccess`, and each handler
  is one of its steps or a stutter.
- `ImplementsApprovalCorrect`: likewise for `ApprovalProtocol`, one milestone at a time
  (`MilestoneRefines`); a step of another milestone, a project or a membership leaves its
  stage and rounds alone (`QuietStep`). Most of it is in `ApprovalInv`: by the ledger the row
  of a submission is the next round, by `VerdictsAnswerSubmissions` a round that opens has
  no decision yet and the round under review has none either, and by the transition table
  staff's own statuses are moves that the protocol has.

`ClientAssignmentProofs` proves, for any number of projects, users and requests in
flight, from `SentinelAssumption`:

- `TypeCorrect`, `ClientIsMemberCorrect`, from the inductive invariant `IInv`. It ties each
  statement of a transaction to the lock that protects what it has read: an assignment
  with the project row knows that the project is open and who its client is; with the
  share lock, that the new client is a member (`AssignOK`); a prune with the update lock,
  that the displaced client is one, and what it has decided stays right until it commits
  (`DisplacedOK`); and two transactions never have locks that exclude each other
  (`LocksExclude`).
- `ImplementsAccessCorrect`: only a commit changes rows, and by `IInv` it is a step of
  `ClientAccess`.
- `DeadlocksAreSwapsCorrect`: in a deadlocked set nobody is past the update lock, so those
  who wait for a displaced client wait for assignments that have him share-locked and
  wait for theirs. These form a deadlocked set of their own.

`SessionDeadlockProofs` proves `DeadlocksAreLogoutAllsCorrect` for any number of users,
sessions and requests. The core of a deadlock is its requests of one user that wait for
a row, since all rows a request visits are of its user (`VisitsOK`). At most one of them
is a change or reset, which exclude each other by the user row (`UserLocksExclude`). If
none were a logout-all: reuse detections do not wait for each other in a circle, because
what one waits for was active when it took its snapshot, and the token of none before it
(`ReuseAcyclic`, an invariant of its own); and a change takes part in no circle with them,
because of each lineage it visits one session only and cannot hold one and want another.

`SessionLineagesProofs` proves `ImplementsLineagesCorrect` from `IInv`, from the invariant of
the deadlock proof (`DInv`), which has that a lineage is of one user and that a request
locks rows of its own user only, and from `LineageNames`: the session that names a lineage
is of it. Only a login and a commit change sessions (`SessionSteps`). The commit of a
rotation revokes its token, by `RotationInv` still the only active session of the lineage;
that of a revocation ends the lineages of the rows it has locked and finds active, each of
which has no other active session.

`MembershipProofs` proves, for any users and any number of requests, from
`SentinelAssumption`:

- `TypeCorrect`, `FounderStaysOwnerCorrect`: a pending removal or role change names
  somebody who was seen not to be an owner (`RequestOK`), so never the founder, who has
  been one since the organization exists; and the founder is never the project's client
  (`FounderInv`), so no prune reaches the row.
- `OnlyOwnersGrantOwnerCorrect`: the actor of a pending grant is an active owner as long as
  the grant holds the row, because every other write of a row waits for its lock.
- `AssigneeIsStaffCorrect`: likewise for the assignee's row and the project row.
- `DeadlocksAreReassignmentsCorrect`: the requests of a deadlocked set that others of it
  wait for are grants and at most one reassignment, which has the project row to itself
  (`ProjectInv`). Grants alone do not wait for each other in a circle (`GrantInv`, an
  invariant of its own): the one that looked last saw no owner. So the grant in the set that
  has no other ahead of it waits for the reassignment's new client, and the reassignment
  waits for a grant by the client it displaces, whose actor is an owner.

`ConnectionPoolProofs` proves, for any number of requests and projects and any pool of at
least two connections (`MaxOpenAssumption`; with one, a nested query could never run):
`TypeCorrect`, which contains that the pool's limit is respected,
`StallsNeedNestingCorrect`, which is a fact about the states of the right type: a request
that has all its connections and waits only for a row waits for one that holds it, and
`StallsTakeTheWholePoolCorrect`, in which those who hold connections in a stall are shown to
hold one each, and the connections to be all in use.

Model-checked only: the liveness of `ClientAssignment` and of `ConnectionPool`, since
liveness and `ENABLED` are outside what the proof system handles. The five properties
that runs refute have no theorem, of course. Every other property of the
runs is proved as well: the invariants, the action properties and the four refinements.

## Plan

What is left, most important first:

1. Which password a login has read the hash of, against a change or a reset that
   commits before its session is inserted: `Login` of `Sessions` in two steps.
2. The reads of a client against unassignment (`GetApprovalView` and the scoped lists check
   in one query and read in others), and the responses of updates that re-read after the
   commit, in an extension of `ProjectLifecycle`.
3. `RateLimiter`: counter, idle window and cleanup under one mutex.
4. The slug attempts of organization creation behind savepoints.

## Not modelled

Beside the plan above: HTTP decoding and encoding, validation of single fields,
pagination, logging, configuration and the request plumbing keep no state. Token
and password cryptography is taken as given. Staff identities, activities and most
audit rows are append-only records that no operation reads back.
