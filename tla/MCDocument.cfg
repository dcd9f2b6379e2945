CONSTANTS
    k = k
    kk = kk
    Keys = {k, kk}
    Prefixes <- MCPrefixes
    Calls <- MCCalls
    SharedKeys = {kk}
    US = US
    Others = {a1}
    NONE = NONE
    MaxCommands = 2
    MaxRemote = 1
SPECIFICATION FairSpec
INVARIANTS
    ReadYourWrites
    EveryWriteIsTold
    MissesAreAnnounced
PROPERTIES
    IsAHandle
    QuestionsAreAnswered
CHECK_DEADLOCK FALSE
