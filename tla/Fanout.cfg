SPECIFICATION FairSpec
CONSTANTS
    Runs = {a}
    Ending = {a}
    Buffer = 2
    MaxLines = 3
    MaxNotices = 1
    MaxBreaks = 1
    CanFail = TRUE
    NoRun = none
    a = a
CHECK_DEADLOCK FALSE
INVARIANTS OwedStaysCovered DroppedIsExact NoHoleWithinBuffer
PROPERTIES OwedIsShown
