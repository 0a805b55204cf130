SPECIFICATION Spec
CONSTANTS
    Projects = {p1}
    Milestones = {m1}
    Users = {u1}
    Deliverables = {d1}
    Details = {text}
    Limits = {}
    MaxRevisions = 1
    NoProject = NoProject
    NoUser = NoUser
    NoLimit = NoLimit
INVARIANT CancellableUntilTerminal
