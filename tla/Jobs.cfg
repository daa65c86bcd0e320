SPECIFICATION FairSpec
CONSTANTS
    Keys = {"k1", "k2"}
    Deliveries = {d1, d2}
    Ticket <- OneTicket
    MaxJobs = 3
    ByHand = {1}
    Scenes <- Both
    Concurrency = 2
    Cooldown = 2
    Pauses = {0, 1}
    MaxClock = 2
    MaxExits = 1
CHECK_DEADLOCK FALSE
INVARIANTS DeliveriesApart Accounted
PROPERTIES PauseHonoured ClaimsComeBack
