\* Two objects, entered up to twice; threads wait, notify, sleep, and misuse wait().
CONSTANTS
    t1 = t1
    t2 = t2
    t3 = t3
    o1 = o1
    o2 = o2
    c1 = c1
    c2 = c2
    c3 = c3
    c4 = c4
    c5 = c5
    Thread <- MCThread
    Object <- MCObject
    None = None
    Condition <- MCCondition
    Calls <- MCSafeCalls
    MaxCount = 2
CHECK_DEADLOCK FALSE
SPECIFICATION Spec
INVARIANTS IInv MutualExclusion
PROPERTY NotifyWakes
SYMMETRY MCSymmetry
