SPECIFICATION Spec
CONSTANTS
    w1 = w1
    w2 = w2
    w3 = w3
    r1 = r1
    r2 = r2
    Ops = {w1, w2, w3, r1, r2}
    Process <- MCProcess
    Restores = {r1, r2}
    Keep = 1
    MaxBackups = 3
INVARIANTS TypeOK Recoverable NewestKept
SYMMETRY MCSymmetry
CHECK_DEADLOCK FALSE
