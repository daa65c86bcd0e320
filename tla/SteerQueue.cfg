SPECIFICATION Spec
CONSTANTS
    Steers = {"q1", "q2"}
    OtherModel = {"q2"}
    Jobs = {h, j1, j2}
    Host = h
    Procs = {"app", "cli"}
    App = "app"
    Scenes <- OneProcess
    MaxPasses = 2
    None = none
CHECK_DEADLOCK FALSE
INVARIANTS ReadOnce NothingOwed RecordIsTrue
PROPERTIES RecordStands
SYMMETRY Interchangeable
