SPECIFICATION TopicFairSpec
CONSTANTS
    Nodes = {n1, n2}
    Names = {"scores", "poses"}
    Clients = {1, 2, 3}
    Publishers = {p}
    TopicChecked = {n1, p}
    Latch = {n2}
    Limit = 2
    None = None
    Expired = Expired
INVARIANTS
    OwnTopic
    GoneIsGone
PROPERTIES
    NewestOnce
    Delivered
CHECK_DEADLOCK FALSE
