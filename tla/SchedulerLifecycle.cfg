SPECIFICATION Spec
CONSTANTS
    MaxPid = 4
    PRIORITY_COUNT = 2
    PPID_RANGE = 256
    Calls <- Lifecycle
INVARIANTS
    TypeOK
    NoLostWakeup
    FamilyExact
    IndInv
    DeathListLive
PROPERTIES
    DeadStaysDead
    FreesOnlyTheDead
    ImplementsProcessFamily
