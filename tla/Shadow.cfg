SPECIFICATION FairSpec
CONSTANTS
    Tickets = {"k1", "k2"}
    Procs = {1, 2}
    Scenes <- TwoProcesses
    MaxAttempts = 2
    MaxLines = 3
    MaxUSDPerDay = 3
    Budget = 2
CHECK_DEADLOCK FALSE
INVARIANTS TypeOK OneAttempt ClosedByItsOwn WithinCaps
PROPERTIES StartedIsClosed
