\* The translation, the linking and the execution of one method by two threads.
CONSTANTS
    T1 = T1
    T2 = T2
    Garbled = Garbled
    Debug = FALSE
    Thread <- MCThread
    Malformed <- MCMalformed
    Classes <- MCClasses
    Fields <- MCFields
    Methods <- MCMethods
    ArrayId <- MCArrayId
    ClassFile <- MCClassFile
    Program <- MCProgram
SPECIFICATION Spec
INVARIANTS
    Translated
    RunsAsWritten
    PoolFaithful
