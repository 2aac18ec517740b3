\* The documented limit under two concurrent requests.
SPECIFICATION SpecNoPass
CONSTANTS
    u1 = u1
    r1 = r1
    r2 = r2
    p1 = p1
    p2 = p2
    NoRepo = NoRepo
    NoUser = NoUser
    User = {u1}
    Repo = {r1, r2}
    Upstream = {r1, r2}
    Proc = {p1, p2}
    Limit = 1
    MaxDay = 1
    AllowRename = FALSE
    Batches <- NoBatches
    IndexedBoards <- TwoBoards
INVARIANT CapRespected
CHECK_DEADLOCK FALSE
