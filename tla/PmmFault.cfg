CONSTANTS
    NumPages = 4
    Regions <- OneRegion
    MaxCount = 1
    Null = Null
    Unknown = Unknown
SPECIFICATION Spec
INVARIANT NoListFault
CHECK_DEADLOCK FALSE
