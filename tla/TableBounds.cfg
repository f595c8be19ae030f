CONSTANTS
    Switches <- MCSwitches
    Values <- MCValues
    CodeBase = 64
SPECIFICATION Spec
INVARIANT TableCovered
