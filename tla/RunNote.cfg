SPECIFICATION FairSpec
CONSTANTS
  Jobs = {"note", "renote"}
  Docs = {d1}
  Steers = {}
  OtherModel = {}
  Models = {"m1", "m2", "m3"}
  RunModel = "m1"
  NoteModel = "m2"
  Fallbacks <- OneFallback
  Kinds = {"activity", "usage", "rateLimit", "deny", "ask", "question", "limit", "error", "breach", "blind", "final"}
  LateKinds = {"final", "activity", "breach"}
  MaxSessions = 3
  MaxFuel = 4
  MaxMalformed = 2
  MaxEmpty = 1
  MaxTurns = 2
  NoteMaxTurns = 1
  ReplyMaxTurns = 0
  ClockOn = TRUE
  StallOn = TRUE
  TwoNotes = TRUE
  None = none
INVARIANTS
  TypeOK
  NoOrphan
  StallNeverMisnames
  NotesKept
PROPERTIES
  NothingFiledOnceStopped
  Implements
  Settles
