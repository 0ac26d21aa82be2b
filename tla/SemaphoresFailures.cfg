SPECIFICATION Spec
CONSTANTS
    init = init
    p1 = p1
    p2 = p2
    p3 = p3
    p4 = p4
    n1 = n1
    n2 = n2
    Process <- Four
    Foreground <- FirstTwo
    Calls <- Failures
    Name <- TwoNames
    MaxSemId = 2
    MaxValue = 1
    InitPid = init
    NoName = NoName
    InitialValue = 1
INVARIANTS
    NoIdleToken
    SemInv
    WaitersListed
CHECK_DEADLOCK FALSE
