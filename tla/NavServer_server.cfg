SPECIFICATION FairSpec
CONSTANTS
    g1 = g1
    g2 = g2
    Goals <- TwoGoals
    NoGoal = NoGoal
    Values = {0, 1}
    Origin = 0
    EndPos <- Ends2
    N = 1
    Lookahead = 1
INVARIANTS
    DriverIsAlive
PROPERTIES
    QuietAfterSuccess
    ImplementsService
    ArrivalIsReported
\* After shutdown the threads exit and nothing is left to run.
CHECK_DEADLOCK FALSE
