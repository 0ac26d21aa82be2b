SPECIFICATION Spec
CONSTANTS
    MEM_SIZE = 37
    Requests <- Sizes
    MAX_BLOCKS = 6
    BLOCK_SIZE = 4
    BASE_SIZE = 3
    MIN_SIZE = 4
    MAX_DIVISIONS = 27
    MaxNode = 3
    Elem = {1, 2}
    Sleeper = {1}
    MaxSleep = 2
    Instants <- Borders
    TimeZones <- Zones
    MaxSeconds = 1
    BUFFER_DIM = 2
    KeySets <- Typists
    MaxUnread = 3
    WIDTH = 3
    HEIGHT = 2
    LINE_DIM = 4
    Colors <- Pairs
INVARIANTS
    RefusesOnlyWhenFull
    ReportsExact
    DateExact
    NoKeyWaits
    ModifiersExact
    ScreenShowsLine
PROPERTIES
    ImplementsAllocator
    ImplementsList
CHECK_DEADLOCK FALSE
