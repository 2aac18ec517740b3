\* One request at a time beside the collector's pass, with a rename on GitHub.
SPECIFICATION FairSpec
CONSTANTS
    u1 = u1
    r1 = r1
    r2 = r2
    p1 = p1
    NoRepo = NoRepo
    NoUser = NoUser
    User = {u1}
    Repo = {r1, r2}
    Upstream = {r1}
    Proc = {p1}
    Limit = 1
    MaxDay = 1
    AllowRename = TRUE
    Batches <- StarsOnly
    IndexedBoards <- TwoBoards
INVARIANTS
    TypeOK
    RefIntegrity
    ScanCovers
    ExitHonest
PROPERTY
    PendingEnds
CHECK_DEADLOCK FALSE
