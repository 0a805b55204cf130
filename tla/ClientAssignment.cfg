SPECIFICATION FairSpec
CONSTANTS
    Projects = {p1, p2}
    Users = {u1, u2}
    Requests = {r1, r2}
    NoProject = NoProject
    NoUser = NoUser
INVARIANT ClientIsMember
INVARIANT DeadlocksAreSwaps
PROPERTY ImplementsAccess
PROPERTY Drains
