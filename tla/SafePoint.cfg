\* Two threads block in socket natives; every thread reads and writes its flags out of order.
CONSTANTS
    main = main
    t1 = t1
    t2 = t2
    nobody = nobody
    Thread <- MCThread
    Main <- main
    Nobody <- nobody
    Natives <- MCNative
    MaxDepth = 2
    MaxCollections = 2
SPECIFICATION FairSpec
INVARIANTS
    IInv
    SafeCollection
PROPERTIES
    StopGranted
