SPECIFICATION Spec
CONSTANTS
  Jobs = {"note"}
  Docs = {d1}
  Steers = {q1}
  OtherModel = {}
  Models = {"m1", "m2", "m3"}
  RunModel = "m1"
  NoteModel = "m1"
  Fallbacks <- NoFallback
  Kinds = {"usage", "final"}
  LateKinds = {"final"}
  MaxSessions = 3
  MaxFuel = 4
  MaxMalformed = 2
  MaxEmpty = 1
  MaxTurns = 2
  NoteMaxTurns = 0
  ReplyMaxTurns = 0
  ClockOn = TRUE
  StallOn = FALSE
  TwoNotes = FALSE
  None = none
INVARIANTS
  CompletedHasNote
