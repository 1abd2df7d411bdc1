SPECIFICATION FairSpec
CONSTANTS
    v1 = v1
    v2 = v2
    Session = {v1, v2}
    Ops = {"save", "promote", "start"}
    Faults = {"writer", "cleanup", "throw", "crash"}
    MaxIndex = 5
    Configured = FALSE
    MaxWrites = 2
    MaxDirs = 3
INVARIANTS
    IInv
PROPERTIES
    EveryWriteSettles
CHECK_DEADLOCK FALSE
