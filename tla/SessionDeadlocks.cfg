SPECIFICATION Spec
CONSTANTS
    Users = {u1}
    Sessions = {s1, s2, s3}
    Requests = {r1, r2, r3}
    NoUser = NoUser
    NoSession = NoSession
SYMMETRY Symmetry
VIEW WithoutHistory
INVARIANT DeadlocksAreLogoutAlls
