CONSTANTS
    Endpoints = {e1, e2}
    Alpns = {"game", "blobs"}
    Paths = {memory}
    MEMORY = memory
    NONE = NONE
    MaxBinds = 2
SPECIFICATION FairSpec
INVARIANTS
    LeasesCounted
    TickingMatchesWork
    ServicesBelongToTheBind
PROPERTIES
    BindIsAnswered
CHECK_DEADLOCK FALSE
