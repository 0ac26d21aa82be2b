SPECIFICATION FairSpec
CONSTANTS
    init = init
    p1 = p1
    p2 = p2
    p3 = p3
    p4 = p4
    n1 = n1
    n2 = n2
    Process <- Five
    Foreground <- None
    Calls <- Forever
    Name <- OneName
    MaxSemId = 1
    MaxValue = 2
    InitPid = init
    NoName = NoName
    InitialValue = 1
INVARIANTS
    TokensConserved
PROPERTIES
    ImplementsFifo
    EventuallyGranted
