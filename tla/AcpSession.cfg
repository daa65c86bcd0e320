SPECIFICATION FairSpec
CONSTANTS
    MaxTurns = 3
    MaxChunks = 2
CHECK_DEADLOCK FALSE
INVARIANTS TurnIsShown SendIsHonoured
PROPERTIES SessionEnds
