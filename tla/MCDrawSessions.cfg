SPECIFICATION FairSpec
CONSTANTS
    u1 = u1
    s1 = s1
    s2 = s2
    Users = {u1}
    Sockets = {s1, s2}
    Owner <- MCOwner
    NoSocket = NoSocket
    MaxCrashes = 1
INVARIANTS TypeOK SingleSessionButForRaces SessionRoutable 
PROPERTIES SweepSparesLive EventuallyOneSession
CHECK_DEADLOCK FALSE
