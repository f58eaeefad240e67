CONSTANTS
    Threads = {t1, t2, t3}
    NumBuckets = 2
    Pages = {p1, p2}
    Capacity = 2
    None = None
SPECIFICATION Spec
SYMMETRY Symmetry
CONSTRAINT NoReleaseYet
INVARIANTS TypeOK BlockInOnePlace UsedIsExact
PROPERTIES ReleasedIsUnused PoolUntilRelease
