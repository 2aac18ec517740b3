\* Two overlapping requests, two users of one browser, a token and its successor.  No
\* symmetry: the run checks liveness too.
SPECIFICATION FairSpec
CONSTANTS
    u1 = u1
    u2 = u2
    b1 = b1
    h1 = h1
    h2 = h2
    NoUser = NoUser
    NoBrowser = NoBrowser
    NoHandler = NoHandler
    User = {u1, u2}
    Browser = {b1}
    Handler = {h1, h2}
    MaxToken = 2
INVARIANTS
    TypeOK
    OneHeir
    NoFalseAlarm
    ReuseRevokes
PROPERTIES
    NoCollateralLoss
    ImplementsLineage
    EveryRequestEnds
CHECK_DEADLOCK FALSE
