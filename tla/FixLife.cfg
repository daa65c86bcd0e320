SPECIFICATION Spec
CONSTANTS
    Cmds = {c1, c2, c3, c4}
    FlagSets <- Usual
    Overlap = 3
    NoRun = none
    c1 = c1
    c2 = c2
    c3 = c3
    c4 = c4
SYMMETRY Alike
CHECK_DEADLOCK FALSE
INVARIANTS TypeOK SaysPushedTruly
PROPERTIES PushedWasOnRecord AcceptKeepsTheCommit
