SPECIFICATION Spec
CONSTANTS
    None = None
    Cases = 1
    Repetitions = 2
    Modes <- MCModes
    CallLists <- MCCallLists
    Turns = 2
    MaxModelCalls = 4
    MaxConcurrent = 2
    MaxSessions = 2
    MaxStray = 1
INVARIANTS
    EveryCellOnce
    SpendingIsBounded
    CallsKeepTheirOrder
CHECK_DEADLOCK FALSE
