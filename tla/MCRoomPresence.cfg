SPECIFICATION PresenceSpec
CONSTANTS
    ua = ua
    ub = ub
    a1 = a1
    a2 = a2
    b1 = b1
    Pair = {ua, ub}
    Sockets = {a1, a2, b1}
    Owner <- MCOwner
    NoSocket = NoSocket
    MaxDisruptions = 1
    MaxJoins = 3
    MaxJoining = 2
    MaxInbox = 2
INVARIANTS PresenceTypeOK  
SYMMETRY MCSymmetry
CHECK_DEADLOCK FALSE
