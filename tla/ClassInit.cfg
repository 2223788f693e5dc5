\* Two threads, three classes in a line, errors, class monitors and a main that
\* is called again while it is being linked.
CONSTANTS
    t1 = t1
    t2 = t2
    object = object
    base = base
    derived = derived
    call = call
    get = get
    new = new
    main = main
    field = field
    None = None
    Thread <- MCThread
    Class <- MCClass
    Super <- MCSuper
    Site <- MCSite
    Target <- MCTarget
    Entry <- MCEntry
    Main = main
    Tested = {get, new, main}
    Sync = {base}
    Calls = {"throw", "main"}
SPECIFICATION FairSpec
CHECK_DEADLOCK FALSE
INVARIANTS IInv SuperFirst InitializerLive
PROPERTIES InitReturns
