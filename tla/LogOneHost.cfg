SPECIFICATION LogSpec
CONSTANTS
    Scenes <- OneHost
    LogLines = 4
    MaxTurns = 3
CHECK_DEADLOCK FALSE
INVARIANTS LogTypeOK PublishedIsTheLog OncePerLine
