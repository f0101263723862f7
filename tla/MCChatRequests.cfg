SPECIFICATION Spec
CONSTANTS
    u = u
    v = v
    r1 = r1
    r2 = r2
    c1 = c1
    c2 = c2
    Users = {u, v}
    Requests = {r1, r2}
    Ends <- MCEnds
    Calls = {c1, c2}
    NoRequest = NoRequest
    NoUser = NoUser
INVARIANTS TypeOK OnePendingButForRivals AnswersTrue SavedIsAccepted
PROPERTY Lifecycle
SYMMETRY MCSymmetry
CHECK_DEADLOCK FALSE
