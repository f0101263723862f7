SPECIFICATION RateSpec
CONSTANTS
    Limit = 2
    Window = 3
    MaxNow = 9
    MaxCount = 4
INVARIANTS RateTypeOK SlidingBound
PROPERTY QuotaSpec
CHECK_DEADLOCK FALSE
