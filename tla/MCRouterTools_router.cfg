SPECIFICATION FairSpec
CONSTANTS
    Width = 3
    t1 = t1
    t2 = t2
    Tools <- MCTools
    Registers <- MCRegisters
    SpaceOf <- MCSpaceOf
    Named = {1, 2, 3}
    MaxAdapter = 2
    NumAdapters = 1
    Volatile = {2}
    Contents <- MCContents
    Lane1 = FALSE
    Droms <- MCDroms
    Commands <- MCCommands
    MaxEvents = 1
INVARIANT TypeOK
INVARIANT HardwareAsTold
INVARIANT PrintedOnce
PROPERTY OthersKept
PROPERTY EachToolEnds
\* The tools may all have ended.
CHECK_DEADLOCK FALSE
