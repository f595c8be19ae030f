CONSTANTS
    ByteBits = 2
    IntLiterals <- MCIntLiterals
    LongLiterals <- MCLongLiterals
    ArrayLiterals <- MCArrayLiterals
    Increments <- MCIncrements
    StackWords = 6
    ConstantWords = 4
    HeapBytes = 16
    MaxArrays = 1
    Budget = 3
SPECIFICATION Spec
INVARIANT TypeOK
INVARIANT ReferencesRight
INVARIANT BlocksFit
INVARIANT UndefinedOnlyInDivision
PROPERTY ImplementsJavaValues
