\* One public board, two filters, one repository, one typed field, two calls in flight.
SPECIFICATION Spec
CONSTANTS
    c1 = c1
    c2 = c2
    r1 = r1
    None = None
    Empty = Empty
    Public = {"top"}
    Filter = {1, 2}
    Match <- MCMatch
    Repo = {r1}
    Field = {"q"}
    Text = {"rust", "go"}
    MaxRetry = 1
    Call = {c1, c2}
SYMMETRY Symmetry
INVARIANTS
    TypeOK
    PageHonest
    PanelHonest
CHECK_DEADLOCK FALSE
