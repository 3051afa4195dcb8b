SPECIFICATION FairSpec
CONSTANTS
    Plan <- DefaultTree
    MaxGoals = 24
INVARIANTS
    LegsInOrder
    OneGoalBeforeLoop
PROPERTIES
    ActuatesAtRest
    ReachesLoop
    CrashStopsBase
\* Both processes may stop, and a run sends at most MaxGoals goals.
CHECK_DEADLOCK FALSE
