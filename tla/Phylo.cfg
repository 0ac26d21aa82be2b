SPECIFICATION FairSpec
CONSTANTS
    MAX_PHIL = 5
    MIN_PHIL = 3
    ID_RANGE = 256
    MaxStarted = 4
    Sessions <- OneKey
    Unbroken <- Brief
INVARIANTS
    NeighboursNeverEat
PROPERTIES
    EverybodyEats
CHECK_DEADLOCK FALSE
