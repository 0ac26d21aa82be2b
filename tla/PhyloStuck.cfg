SPECIFICATION Spec
CONSTANTS
    MAX_PHIL = 5
    MIN_PHIL = 3
    ID_RANGE = 256
    MaxStarted = 4
    Sessions <- AddAndRemove
    Unbroken <- Calls
INVARIANTS
    TableNeverStuck
CHECK_DEADLOCK FALSE
