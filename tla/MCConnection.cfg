CONSTANTS
    MaxDatagrams = 3
    MaxStreams = 1
SPECIFICATION FairSpec
INVARIANTS
    EndsOnce
    DatagramsInOrder
PROPERTIES
    EndIsReported
CHECK_DEADLOCK FALSE
