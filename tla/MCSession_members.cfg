CONSTANTS
    Clients = {c1, c2}
    Host = host
    MaxId = 3
    MaxSends = 0
SPECIFICATION FairSpec
INVARIANTS
    ViewsAgree
    NoReturn
    IdsAgree
PROPERTIES
    JoinIsAnswered
    HostEndIsHeard
    DepartureIsHeard
CHECK_DEADLOCK FALSE
