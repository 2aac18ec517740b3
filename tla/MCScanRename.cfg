\* The promise of scan_tracked_repos when a tracked repository is renamed.
SPECIFICATION Spec
CONSTANTS
    u1 = u1
    r1 = r1
    r2 = r2
    p1 = p1
    NoRepo = NoRepo
    NoUser = NoUser
    User = {u1}
    Repo = {r1, r2}
    Upstream = {r1}
    Proc = {p1}
    Limit = 1
    MaxDay = 1
    AllowRename = TRUE
    Batches <- NoBatches
    IndexedBoards <- TwoBoards
INVARIANT ScanCoversAll
CHECK_DEADLOCK FALSE
