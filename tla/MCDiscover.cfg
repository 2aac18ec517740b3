\* Two users, two searches in flight, a window of two seconds of two ticks each; the
\* clock runs for ever.
SPECIFICATION Spec
CONSTANTS
    u1 = u1
    u2 = u2
    s1 = s1
    s2 = s2
    NoUser = NoUser
    User = {u1, u2}
    Search = {s1, s2}
    SharedToken = TRUE
    GlobalLimit = 2
    UserLimit = 1
    TokenLimit = 1
    Window = 4
    Second = 2
SYMMETRY Symmetry
INVARIANTS
    TypeOK
    Budget
PROPERTIES
    FairRefusal
    RetryHonest
CHECK_DEADLOCK FALSE
