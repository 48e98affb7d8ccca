SPECIFICATION RegistersSpec
CONSTANTS
    Adapters = {1}
    AdapterSpaces = {"adapter"}
    Values = {0, 1}
    ReadMayFail = TRUE
    WriteMayFail = FALSE
INVARIANT WritesAreEntered
