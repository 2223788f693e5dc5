\* A monitor whose chain tm_purge() breaks is entered twice.
CONSTANTS
    t1 = t1
    t2 = t2
    r1 = r1
    r2 = r2
    r3 = r3
    Thread <- MCThread
    Ref <- MCRef
    NoThread = NoThread
    NoRef = NoRef
    HashValues <- MCHashValues
    Capacities <- MCCapacities
    MaxCapacity = 8
    MaxCount = 1
SPECIFICATION Spec
INVARIANT MutualExclusion

SYMMETRY MCSymmetry
