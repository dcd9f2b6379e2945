CONSTANTS
    Ops = {o1, o2}
    Hashes = {h1, h2}
    Names = {n1}
    Kinds = {"fetch", "export", "status", "untag"}
    SERVER = SERVER
    NONE = NONE
    MaxNews = 1
SPECIFICATION FairSpec
INVARIANTS
    SignalsTellTheTruth
PROPERTIES
    AreHandles
    OperationsEnd
CHECK_DEADLOCK FALSE
