SPECIFICATION Spec
CONSTANTS
    Users = {u1, u2}
    Sessions = {s1, s2, s3}
    Requests = {r1, r2}
    NoUser = NoUser
    NoSession = NoSession
SYMMETRY Symmetry
INVARIANT OneActivePerLineage
PROPERTY EndedLineageStaysEnded
PROPERTY RevocationIsComplete
PROPERTY ImplementsLineages
