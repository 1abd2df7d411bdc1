SPECIFICATION Spec
CONSTANTS
    v1 = v1
    v2 = v2
    Session = {v1}
    Ops = {"save", "promote", "start", "start-reference", "materialize", "approve"}
    Faults = {"writer", "cleanup", "throw", "crash"}
    MaxIndex = 5
    Configured = TRUE
    MaxWrites = 3
    MaxDirs = 4
INVARIANTS
    ListedComplete
    SelectedContractListed
PROPERTIES
    LogSpec
CHECK_DEADLOCK FALSE
