CONSTANTS
    Timeout <- MCTimeout
    AgeCap = 7
    MaxTurns = 3
SPECIFICATION FairSpec
INVARIANTS
    OneTimer
    BoundedStay
PROPERTIES
    FullStay
    
    AbandonedTurnSettles
