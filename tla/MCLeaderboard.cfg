\* Two callers, two repositories of which yesterday's crawl found one, two crawled boards of
\* one row each, at most two changes of the tables during or between requests, two days.
SPECIFICATION Spec
CONSTANTS
    u1 = u1
    u2 = u2
    NoUser = NoUser
    User = {u1, u2}
    Repo = {1, 2}
    MaxDay = 2
    MaxWrites = 2
    Limit = 1
    CrawlBoard = {"top_stars", "trending_daily"}
    IndexBoard = {"tracked_daily", "top_stars"}
    Metrics <- MCMetrics
    Facts <- MCFacts
    Query <- MCQuery
    Days <- MCDays
    Archive <- MCArchive
SYMMETRY Symmetry
INVARIANTS
    TypeOK
    TrackedShown
    TopOfBoard
    OwnTracksOnly
    MarkHonest
    MetaCoherent
    NeverPendingAgain
CHECK_DEADLOCK FALSE
