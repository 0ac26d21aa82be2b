SPECIFICATION FairShellSpec
CONSTANTS
    init = init
    shell = shell
    p1 = p1
    p2 = p2
    p3 = p3
    Process <- Four
    InitPid = init
    Shell = shell
    Foreground = {}
    Calls <- ShellCalls
    Name <- Numbers
    NoName = 0
    FromThird <- NoTails
    MAX_PIPE_BUFFER_SIZE = 2
    MAX_FD_COUNT = 5
    MaxFileId = 3
    MaxIndex = 2
    DupSource = {}
    DupTarget = {}
    MaxDups = 2
    Char = {"a"}
    Text <- Single
    MaxRead = 1
    Lines <- AllLines
INVARIANTS
    PromptHasStandardFiles
    OnlyTheirOwnEnds
PROPERTIES
    PromptReturns
    ReadersMoveOn
CHECK_DEADLOCK FALSE
