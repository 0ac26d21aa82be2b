SPECIFICATION FairSpec
CONSTANTS
    MaxPid = 4
    PRIORITY_COUNT = 2
    PPID_RANGE = 256
    Calls <- RoundRobin
PROPERTIES
    EventuallyRuns
    OrphansReaped
