CONSTANTS
    Switches <- MCSwitches
    Values <- MCValues
    CodeBase = 64
SPECIFICATION Spec
INVARIANT TypeOK
INVARIANT ProbesInside
INVARIANT NeverAnotherCase
PROPERTY Decided
