CONSTANTS
  Methods <- MCMethods
  Valid <- MCValid
  Super <- MCSuper
  Interfaces <- MCInterfaces
  Implements <- MCImplements
  Concrete <- MCConcrete
  MaxObjects = 3
SPECIFICATION Spec
INVARIANTS Conforms SafeUse ValidAccepted
CHECK_DEADLOCK FALSE
