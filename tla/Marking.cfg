CONSTANTS
  o1 = o1
  o2 = o2
  o3 = o3
  word = word
  null = null
  Objects <- MCObjects
  Others <- MCOthers
  Null = null
  Starts <- MCStarts
  MaxRefs <- MCMaxRefs
SPECIFICATION Spec
INVARIANTS IInv MarkedExactly Restored
CHECK_DEADLOCK FALSE
