SPECIFICATION Spec
CONSTANTS
    Calls <- AllCalls
    Parts <- AllParts
    Texts <- AllTexts
    Patterns <- AllPatterns
    NoPattern = "nothing"
    PatternOf <- Names1
    Reach <- Fit
    Listed = {"ls"}
    Hard <- Refused
    Never <- NotAsked
    None = none
    MaxExecutes = 3
    MaxSessions = 2
CHECK_DEADLOCK FALSE
INVARIANTS TypeOK AnswersKept
PROPERTIES OnlyOnLeave AnswersHeard
