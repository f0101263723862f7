SPECIFICATION Spec
CONSTANTS
    a1 = a1
    r1 = r1
    d1 = d1
    c1 = c1
    c2 = c2
    Links = {a1, r1, d1}
    Kind <- MCKind
    NoLink = NoLink
    First = a1
    Calls = {c1, c2}
    MaxVersion = 2
INVARIANTS TypeOK OneValidToken LinkOnce
SYMMETRY MCSymmetry
CHECK_DEADLOCK FALSE
