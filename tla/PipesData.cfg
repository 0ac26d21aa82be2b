SPECIFICATION Spec
CONSTANTS
    init = init
    shell = shell
    p1 = p1
    p2 = p2
    n1 = n1
    Process <- Four
    InitPid = init
    Shell = shell
    Foreground = {p1, p2}
    Calls <- Data
    Name <- OneName
    NoName = NoName
    FromThird <- NoTails
    MAX_PIPE_BUFFER_SIZE = 3
    MAX_FD_COUNT = 5
    MaxFileId = 3
    MaxIndex = 4
    DupSource = {4}
    DupTarget = {0, 1}
    MaxDups = 1
    Char = {"a", "b"}
    Text <- Short
    MaxRead = 2
INVARIANTS
    WritersSleepRightly
PROPERTIES
    ImplementsPipeQueue
SYMMETRY Same
CHECK_DEADLOCK FALSE
