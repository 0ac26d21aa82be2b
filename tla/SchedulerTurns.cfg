SPECIFICATION Spec
CONSTANTS
    MaxPid = 4
    PRIORITY_COUNT = 2
    PPID_RANGE = 256
    Calls <- Turns
INVARIANTS
    RunListsExact
    SchedulerNeverHangs
