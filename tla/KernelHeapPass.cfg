CONSTANTS
    NumPages = 6
    PageWords = 6
    Buckets <- Smaller
    LowPages = 4
    MaxRun = 1
SPECIFICATION Spec
CONSTRAINT NothingGivenBack
INVARIANTS TypeOK BlocksApart  UsedAdds NullIsNotFinal
PROPERTIES OnlyPastEndIsDamaged
