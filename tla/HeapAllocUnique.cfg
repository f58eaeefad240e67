CONSTANTS
    Threads = {t1, t2}
    NumBuckets = 1
    Pages = {p1, p2}
    Capacity = 2
    None = None
SPECIFICATION Spec
SYMMETRY Symmetry
INVARIANT NoDoubleHandout
