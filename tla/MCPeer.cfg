CONSTANTS
    MaxSessions = 2
    MaxEvents = 2
    Reentrant = TRUE
SPECIFICATION FairSpec
INVARIANTS
    StatusMatchesSession
    OneHostRuns
    PacketsComeBySession
PROPERTIES
    ConnectingEnds
    LetGoEnds
CHECK_DEADLOCK FALSE
