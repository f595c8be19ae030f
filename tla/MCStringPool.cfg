CONSTANTS
    Texts <- MCTexts
    Heap = {1, 2, 3}
    Literals = {11, 12}
    LiteralText <- MCLiteralText
    NrBuckets = 2
    BucketOf <- MCBucketOf
    Null = 0
    Freed = "freed"
SPECIFICATION FairSpec
INVARIANT TypeOK
INVARIANT PointersDecide
INVARIANT OneNodePerText
PROPERTY ImplementsInterning
