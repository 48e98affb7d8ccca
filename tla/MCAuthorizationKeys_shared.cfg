SPECIFICATION KeySpec
CONSTANTS
    Depth = 2
    Tools = {a, b}
    Values = {0, 1, 2}
    WithKey = {2}
    MaxKeys = 2
INVARIANT TypeOK
INVARIANT OkMeansDone
INVARIANT UndisturbedSucceeds
INVARIANT KeyFileFits
SYMMETRY Symmetry
