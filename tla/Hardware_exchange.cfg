SPECIFICATION FairSpec
CONSTANTS
    Fds = {3}
    Symbols <- Pieces
    Opens <- Openings
    Whole <- Objects
    Text <- Counting
    Vmin = 1
    Cap = 3
    OutCap = 1
    LineCap = 2
    MaxTime = 1
    Nul = Nul
INVARIANTS
    LinkIsOurs
    NewestFirst
PROPERTIES
    NothingOlder
    StopReachesMotors
