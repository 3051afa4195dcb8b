SPECIFICATION FairSpec
CONSTANTS
    Goals = {g1, g2}
    None = None
INVARIANTS
    TicksItsOwnTree
    CancelIsPrompt
    OverIsHalted
    RegistrationIsAlone
PROPERTIES
    ImplementsTreeService
    CancelEnds
\* The clients may stop, and so may the process.
CHECK_DEADLOCK FALSE
