SPECIFICATION Spec
CONSTANTS
    Projects = {p1}
    Milestones = {m1}
    Users = {u1, u2}
    Deliverables = {d1}
    Details = {text}
    Limits = {1}
    MaxRevisions = 2
    NoProject = NoProject
    NoUser = NoUser
    NoLimit = NoLimit
SYMMETRY Symmetry
INVARIANT RevisionLedger
INVARIANT VerdictsAnswerSubmissions
INVARIANT OneVerdictPerRound
INVARIANT SignedOff
INVARIANT CompletedStamp
PROPERTY TerminalMilestoneIsClosed
PROPERTY ClosedProjectIsReadOnly
PROPERTY ImplementsApproval
