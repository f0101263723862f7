SPECIFICATION PushSpec
CONSTANTS
    Recipients = {u1, u2}
    Tokens = {t1, t2}
    Rows = {r1, r2, r3}
    NoRow = NoRow
    NoToken = NoToken
    Unsure = Unsure
    Calls = {c1, c2}
INVARIANTS PushTypeOK RegistrationStands
SYMMETRY MCSymmetry
CHECK_DEADLOCK FALSE
