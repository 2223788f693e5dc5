CONSTANTS
  Methods <- MCMethods
  Main = "main"
  Halt = "halt_method"
  Info <- MCInfo
  Nested <- MCNested
  StackSize = 8
  FrameWords = 1
SPECIFICATION Spec
INVARIANTS Registers 
PROPERTIES Resumes
