SPECIFICATION FairSpec
CONSTANTS
    n1 = n1
    n2 = n2
    Nodes = {n1, n2}
    Runs <- TwoAndOne
    None = None
INVARIANTS
    LeftRunning
    ResultFindsHandle
PROPERTIES
    OwnResult
    CancelsItsOwn
    RunsEnd
CHECK_DEADLOCK FALSE
