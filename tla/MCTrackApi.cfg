\* Two concurrent requests of one user over two repositories and a midnight,
\* between two passes of the collector.
SPECIFICATION SpecNoPass
CONSTANTS
    u1 = u1
    r1 = r1
    r2 = r2
    p1 = p1
    p2 = p2
    NoRepo = NoRepo
    NoUser = NoUser
    User = {u1}
    Repo = {r1, r2}
    Upstream = {r1, r2}
    Proc = {p1, p2}
    Limit = 1
    MaxDay = 2
    AllowRename = FALSE
    Batches <- NoBatches
    IndexedBoards <- TwoBoards
SYMMETRY Symmetry
INVARIANTS
    CapInv
    RefusedWritesNothing
    AnswerHonest
    IndexedIsOnBoard
CHECK_DEADLOCK FALSE
