CONSTANTS
    Classes <- MCClasses
    MainClass = 101
    MethodsOf <- MCMethodsOf
    PoolOf <- MCPoolOf
    Fields <- MCFields
    FieldWords <- MCFieldWords
    Code <- MCCode
    Owner <- MCOwner
    Depth <- MCDepth
    ImpdepPc = 9999
    StackWords = 28
    Data <- MCData
SPECIFICATION FairSpec
INVARIANT TypeOK
INVARIANT FramesLinked
INVARIANT StackMapExact
INVARIANT ConstructorOnce
PROPERTY ImplementsFrameMachine
PROPERTY Termination
