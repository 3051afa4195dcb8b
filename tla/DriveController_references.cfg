SPECIFICATION FairSpec
CONSTANTS
    Timeout = 2
    None = None
INVARIANTS
    StartsAtRest
    ActivationIsDefined
PROPERTY
    SilenceStopsBase
\* A fault ends the process.
CHECK_DEADLOCK FALSE
