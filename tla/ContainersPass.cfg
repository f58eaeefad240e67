CONSTANTS
    Blocks = {x1, x2, x3}
    NoBlock = null
    ObjSize = 2
    Raw = raw
    Vecs = {a, b}
    Elements = {0, 1}
    Default = 0
    FirstCap = 2
    VecSizes = {0, 2}
    MaxVec = 3

    Objects = {a, b}
    Data <- Bit
    One = 1
    Changes <- Flips
    Moved = moved
    NoData = nodata

    Maps = {a, b}
    Keys <- Key
    Vals = {0, 1}
    ValDefault = 0
    Hashes <- HashFns
    FirstBuckets = 2
    MaxNodes = 3
    NoKey = nokey

    Strs = {a, b}
    Letters = {0, 1}
    Zero = 0
    SmallCap = 2
    BigCap = 4
    CapLimit = 6
    MaxText = 4

    Rings = {a, b, vmap}
    VmapList = vmap
    Links = {x1, x2, x3}
    MaxCount = 3

    Chains = {a, b}
    Knots = {x1, x2, x3}
    NoKnot = null

    Word = 64
    PageSize = 16
    MaxSmallSize = 4
    Granularity = 2
    HeaderSize = 3
    NoRegion = null

    StreamSize = 3
    Bits = 3
    Letter = "L"
    Templates <- SomeTemplates
    Args <- SomeArgs

SYMMETRY Sym
SPECIFICATION Spec
INVARIANTS
    ContainersTypeOK
    VectorsHoldTheirContents
    
    MapIsDictionary
    
    AllListsAreLinked
    SizesAreServed
    LogIsWhole
CHECK_DEADLOCK FALSE
