SPECIFICATION Spec
CONSTANTS
    Keys = {k1,k2}
    Limit = 1
    MaxCeremonies = 3
    MaxCounter = 1
    MaxInserts = 2
    Calls = {c1, c2}
    NoRow = NoRow
    NoKey = NoKey
INVARIANTS TypeOK ChallengeUsedOnce
PROPERTIES NeverBack
SYMMETRY MCSymmetry
CHECK_DEADLOCK FALSE
