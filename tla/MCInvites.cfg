\* Two registrations at a time, two codes for one or two users, three usernames.
SPECIFICATION FairSpec
CONSTANTS
    n1 = n1
    n2 = n2
    n3 = n3
    c1 = c1
    c2 = c2
    h1 = h1
    h2 = h2
    NoHandler = NoHandler
    NoName = NoName
    NoInvite = NoInvite
    Bootstrap = Bootstrap
    Name = {n1, n2, n3}
    Invite = {c1, c2}
    MaxUses = 2
    Handler = {h1, h2}
INVARIANTS
    TypeOK
    InviteHonest
PROPERTIES
    RevokedIsClosed
    ImplementsAdmission
    EveryRegistrationEnds
CHECK_DEADLOCK FALSE
