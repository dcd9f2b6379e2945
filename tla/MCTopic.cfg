CONSTANTS
    Peers = {p1, p2}
    MaxEvents = 3
    MaxCommands = 2
SPECIFICATION FairSpec
INVARIANTS
    NeighborsMatchSignals
PROPERTIES
    IsAHandle
    AcceptedIsSent
    EndIsHeard
CHECK_DEADLOCK FALSE
