SPECIFICATION Spec
CONSTANTS
    Projects = {p1, p2}
    Milestones = {m1}
    Users = {u1, u2}
    Deliverables = {d1}
    Details = {text}
    Limits = {}
    MaxRevisions = 1
    NoProject = NoProject
    NoUser = NoUser
    NoLimit = NoLimit
SYMMETRY Symmetry
INVARIANT TypeOK
INVARIANT ClientIsMember
PROPERTY DisplacedClientIsPruned
PROPERTY ImplementsAccess
