SPECIFICATION Spec
CONSTANTS
    g1 = g1
    i1 = i1
    c1 = c1
    c2 = c2
    Purchases = {g1, i1}
    Platform <- MCPlatform
    NoRow = NoRow
    Calls = {c1, c2}
    MaxNotes = 2
    MaxTime = 1
    LastSale = 0
    MaxEnd = 3
INVARIANTS TypeOK TakenOnce EndedByOwnPurchase
PROPERTY EndNeverGoesBack
SYMMETRY MCSymmetry
CHECK_DEADLOCK FALSE
