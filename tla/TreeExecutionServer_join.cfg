SPECIFICATION FairSpec
CONSTANTS
    Goals = {g1, g2}
    None = None
PROPERTY
    ExecutorComesBack
CHECK_DEADLOCK FALSE
