CONSTANTS
    Names <- MCNames
    Main = 101
    FileOf <- MCFileOf
    MembersOf <- MCMembersOf
    Cells <- MCCells
    MainCell = 1
    None = 0
SPECIFICATION FairSpec
INVARIANT TypeOK
INVARIANT RingWhole
INVARIANT OneClassPerName
INVARIANT BindingsRight
INVARIANT ResolvedOnce
INVARIANT FreedOnce
PROPERTY WorkEnds
