CONSTANTS
    Classes <- MCClasses
    MainClass = 101
    MethodsOf <- MCMethodsOf
    PoolOf <- MCPoolOf
    Fields <- MCFields
    FieldWords <- MCFieldWords
    Code <- MCCode
    Owner <- MCOwner
    Depth <- MCDepth
    ImpdepPc = 9999
    StackWords = 22
    Data <- MCData
SPECIFICATION Spec
PROPERTY OnlyConstructorsStarted
