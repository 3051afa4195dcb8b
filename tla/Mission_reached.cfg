SPECIFICATION Spec
CONSTANTS
    Plan <- ShortTree
    MaxGoals = 4
PROPERTY
    ReachedIsReached
\* Both processes may stop, and a run sends at most MaxGoals goals.
CHECK_DEADLOCK FALSE
