SPECIFICATION Spec
CONSTANTS
  Jobs = {"replyFirst", "talk", "steer"}
  Docs = {d1, d2}
  Steers = {q1, q2}
  OtherModel = {q2}
  Models = {"m1", "m2", "m3"}
  RunModel = "m1"
  NoteModel = "m2"
  Fallbacks <- OneFallback
  Kinds = {"activity", "usage", "rateLimit", "deny", "ask", "question", "limit", "error", "breach", "blind", "final"}
  LateKinds = {"activity", "usage", "deny", "breach", "final"}
  MaxSessions = 3
  MaxFuel = 4
  MaxMalformed = 2
  MaxEmpty = 1
  MaxTurns = 3
  NoteMaxTurns = 1
  ReplyMaxTurns = 1
  ClockOn = TRUE
  StallOn = FALSE
  TwoNotes = TRUE
  None = none
INVARIANTS
  AnswersStand
PROPERTIES
  UsageNeverRefunded
