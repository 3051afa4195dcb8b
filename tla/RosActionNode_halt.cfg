SPECIFICATION Spec
CONSTANTS
    n1 = n1
    n2 = n2
    Nodes = {n1, n2}
    Runs <- TwoAndOne
    None = None
PROPERTIES
    HaltCancels
CHECK_DEADLOCK FALSE
