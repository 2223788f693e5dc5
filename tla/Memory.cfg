\* The heap, weak references, interned strings and finalizers.
CONSTANTS
    None = None
    w1 = w1
    w2 = w2
    w3 = w3
    x1 = x1
    s1 = s1
    s2 = s2
    s3 = s3
    k1 = k1
    k2 = k2
    k3 = k3
    f1 = f1
    f2 = f2
    f3 = f3
    Ref <- MCRef
    Obj <- MCObj
    CanClear = TRUE
    MaxCollections = 3
    Str <- MCStr
    Content <- MCContent
    Hash <- MCHash
    InitCapacity = 2
    Load = 1
    FObj <- MCFObj
    Words = 7
    InitWords = 3
    BinEntries = 2
    MaxRefs = 1
    MaxData = 1
SPECIFICATION FairSpec
CHECK_DEADLOCK FALSE
INVARIANTS ChainedSound Placed Canonical Registered Tiled SweepFindsHeaders BitmapExact
PROPERTY FinalizersRun
