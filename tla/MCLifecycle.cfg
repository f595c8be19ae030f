CONSTANTS
    Signatures <- MCSignatures
    Text <- MCText
    Descriptors <- MCDescriptors
    Dims <- MCDims
    Base <- MCBase
    StartOf <- MCStartOf
    WordsBefore <- MCWordsBefore
    U1Values = 32
    ByteValues = 32
    MAGIC = 414703
    Utf8 <- MCUtf8
    Code = "Code"
    ConstantValue = "ConstantValue"
    ClassNames <- MCClassNames
    Classpaths <- MCClasspaths
    Content <- MCContent
    Written <- MCWritten
    Places <- MCPlaces
    Main = "main"
    MainSignature = "([LS;)V"
    MaxPrograms = 2
    MaxInstrs = 3
    MaxClasses = 3
SPECIFICATION Spec
INVARIANT TypeOK
INVARIANT NargsRight
INVARIANT ParsedAsWritten
INVARIANT CodeOfItsOwn
INVARIANT NamesComparable
INVARIANT NothingLeftOver
INVARIANT StopsAfterAsked
INVARIANT CallsFit
