\* One object; threads wait, notify, interrupt, join, die, and misuse wait().
CONSTANTS
    t1 = t1
    t2 = t2
    t3 = t3
    o1 = o1
    o2 = o2
    c1 = c1
    c2 = c2
    c3 = c3
    c4 = c4
    c5 = c5
    Thread <- MCThread
    Object <- MCOneObject
    None = None
    Condition <- MCTwoConditions
    Calls <- MCFairCalls
    MaxCount = 1
CHECK_DEADLOCK FALSE
SPECIFICATION FairSpec
PROPERTIES WaitRestores WokenReturns InterruptReturns
