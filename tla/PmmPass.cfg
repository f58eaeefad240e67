CONSTANTS
    NumPages = 9
    Regions <- ThreeRegions
    MaxCount = 3
    Null = Null
    Unknown = Unknown
SPECIFICATION Spec
CONSTRAINT StillSound
INVARIANTS TypeOK ListWellFormed PagesConserved NullOnlyWhenFull
PROPERTIES TakesOrGivesRuns
