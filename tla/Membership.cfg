SPECIFICATION Spec
CONSTANTS
    Users = {u1, u2, u3}
    Requests = {r1, r2, r3}
    NoUser = NoUser
SYMMETRY Symmetry
INVARIANT TypeOK
INVARIANT FounderStaysOwner
INVARIANT DeadlocksAreReassignments
PROPERTY OnlyOwnersGrantOwner
PROPERTY AssigneeIsStaff
