SPECIFICATION FairSpec
CONSTANTS
    n1 = n1
    n2 = n2
    Nodes = {n1, n2}
    Names = {"spawn", "reset"}
    Clients = {1, 2, 3}
    Checked = {n1}
    Runs <- TwoAndOne
    None = None
    Expired = Expired
INVARIANTS
    SharedByName
    AnswerComesHere
PROPERTIES
    AsksTheServiceNamed
    OwnResponse
    RunEnds
