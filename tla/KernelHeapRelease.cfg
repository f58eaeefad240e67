CONSTANTS
    NumPages = 4
    PageWords = 6
    Buckets <- Smaller
    LowPages = 8
    MaxRun = 1
SPECIFICATION Spec
INVARIANT OnOwnPages
CHECK_DEADLOCK FALSE
