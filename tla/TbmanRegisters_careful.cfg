SPECIFICATION CarefulSpec
CONSTANTS
    Adapters = {1}
    AdapterSpaces = {"adapter", "path"}
    Values = {0, 1}
    ReadMayFail = TRUE
    WriteMayFail = TRUE
INVARIANT RegistersTypeOK
INVARIANT WritesAreEntered
PROPERTY EnteredGetsWritten
