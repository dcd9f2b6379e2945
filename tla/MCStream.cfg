CONSTANTS
    Opener = opener
    Acceptor = acceptor
    MaxPuts <- Puts
    OpenerPuts = 2
    AcceptorPuts = 0
SPECIFICATION FairSpec
INVARIANTS
    CleanEndIsComplete
    ReadsArePrefix
    PutFailsForAReason
PROPERTIES
    EndIsHeard
    GetReturns
CHECK_DEADLOCK FALSE
