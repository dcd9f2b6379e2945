CONSTANTS
    Modulus = 6
    MaxPackets = 7
SPECIFICATION DatagramsSpec
INVARIANTS
    FreshIsNotStale
PROPERTIES
    InOrderUntilHalf
CHECK_DEADLOCK FALSE
