\* The class loader over hierarchies with mistakes, methods and fields.
CONSTANTS
    None = None
    Object = Object
    NotFound = NotFound
    JavaClass = JavaClass
    Reference = Reference
    A = A
    B = B
    C = C
    I = I
    J = J
    Chars = Chars
    Bs = Bs
    Bss = Bss
    Class <- MCClass
    Array <- MCArray
    Elem <- MCElem
    Preloaded <- MCPreloaded
    Bootstrap <- MCBootstrap
    World <- MCWorld
    Requests <- MCRequests
    Word = 8
    MaxNref = 24
    MaxBits = 248
    MaxRefs = 4
    MaxCalls = 2
SPECIFICATION Spec
INVARIANTS
    Answered
    IInv
    Dispatches
    FieldsFound
CHECK_DEADLOCK FALSE
