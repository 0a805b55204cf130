SPECIFICATION FairSpec
CONSTANTS
    Requests = {r1, r2, r3}
    Projects = {p1, p2}
    MaxOpen = 2
    NoProject = NoProject
INVARIANT TypeOK
INVARIANT StallsNeedNesting
INVARIANT StallsTakeTheWholePool
PROPERTY RequestsEnd
