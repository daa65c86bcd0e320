--------------------------- MODULE RunExecProofs ---------------------------
(***************************************************************************)
(* What holds of an execution for every set of documents, instructions,    *)
(* models and fallbacks and for every bound: proofs of RunExec's           *)
(* properties, each from an inductive invariant.                           *)
(***************************************************************************)
EXTENDS RunExec, FiniteSetTheorems, TLAPS

USE DEF vars, fixed, flow, answer, patience, roles, models, acct, inbox, Rest

-----------------------------------------------------------------------------
(* Types.                                                                   *)

\* An execution starts with its fields well typed (execute, execute.go:438-453).
LEMMA InitTypeOK == Init => TypeOK
<1> SUFFICES ASSUME Init PROVE TypeOK
  OBVIOUS
<1>1. SessionTypes
  BY BoundAssumption DEF Init, SessionTypes, Ids, Sessions
<1>5. RoleTypes
  BY BoundAssumption DEF Init, RoleTypes, Ids
<1>2. AnswerTypes
  BY DEF Init, AnswerTypes
<1>3. CounterTypes
  BY BoundAssumption DEF Init, CounterTypes
<1>4. StateTypes
  BY JobsAssumption, ModelAssumption DEF Init, StateTypes, StallStates, JobKinds
<1> QED
  BY <1>1, <1>2, <1>3, <1>4, <1>5 DEF TypeOK

\* What the helpers do to the guard keeps its type.
LEMMA GuardType ==
  stall \in StallStates =>
    {Held(stall), Rearmed(stall), Stopped(stall)} \subseteq StallStates
BY DEF Held, Rearmed, Stopped, StallStates

\* The reader always has a session.
LEMMA CurType == TypeOK /\ pc \in {"reading", "switching"} => cur \in Sessions
BY BoundAssumption DEF TypeOK, RoleTypes, Ids, Sessions

\* Every step of the reader, a timer or the operator leaves the fields well
\* typed; the retries and malformed lines never pass their bounds.
LEMMA NextTypeOK == TypeOK /\ Next => TypeOK'
<1> SUFFICES ASSUME TypeOK, Next PROVE TypeOK'
  OBVIOUS
<1>1. CASE StartFails
  <2>1. SessionTypes'
    BY <1>1, CurType DEF TypeOK, SessionTypes, StartFails, Finish, Restored, Ids
  <2>2. RoleTypes'
    BY <1>1, BoundAssumption
       DEF TypeOK, RoleTypes, StartFails, Finish, Restored, Ids, Sessions
  <2>3. AnswerTypes'
    BY <1>1 DEF TypeOK, AnswerTypes, StartFails, Finish, Restored
  <2>4. CounterTypes'
    BY <1>1, BoundAssumption DEF TypeOK, CounterTypes, StartFails, Finish, Restored
  <2>5. StateTypes'
    BY <1>1, GuardType, ModelAssumption
       DEF TypeOK, StateTypes, StartFails, Finish, Restored, Reasons
  <2> QED
    BY <2>1, <2>2, <2>3, <2>4, <2>5 DEF TypeOK
<1>2. CASE Begin
  <2>1. SessionTypes'
    BY <1>2, BoundAssumption DEF TypeOK, SessionTypes, Begin, Sessions
  <2>2. RoleTypes'
    BY <1>2, BoundAssumption DEF TypeOK, RoleTypes, Begin, PickedUp, Ids, Sessions
  <2>3. AnswerTypes'
    BY <1>2 DEF TypeOK, AnswerTypes, Begin, PickedUp
  <2>4. CounterTypes'
    BY <1>2, BoundAssumption DEF TypeOK, CounterTypes, Begin, PickedUp
  <2>5. StateTypes'
    BY <1>2, GuardType, ModelAssumption
       DEF TypeOK, StateTypes, Begin, PickedUp, Reasons, StallStates
  <2> QED
    BY <2>1, <2>2, <2>3, <2>4, <2>5 DEF TypeOK
<1>3. CASE Drained
  <2>1. SessionTypes'
    BY <1>3, CurType DEF TypeOK, SessionTypes, Drained, Says, Ignored, Ids
  <2>2. RoleTypes'
    BY <1>3, BoundAssumption DEF TypeOK, RoleTypes, Drained, Says, Ignored, Ids, Sessions
  <2>3. AnswerTypes'
    BY <1>3 DEF TypeOK, AnswerTypes, Drained, Says, Ignored
  <2>4. CounterTypes'
    BY <1>3, BoundAssumption DEF TypeOK, CounterTypes, Drained, Says, Ignored
  <2>5. StateTypes'
    BY <1>3, GuardType, ModelAssumption
       DEF TypeOK, StateTypes, Drained, Says, Ignored, Reasons
  <2> QED
    BY <2>1, <2>2, <2>3, <2>4, <2>5 DEF TypeOK
<1>4. CASE Activity
  <2>1. SessionTypes'
    BY <1>4, CurType DEF TypeOK, SessionTypes, Activity, Heeded, Judged, Says, Ids
  <2>2. RoleTypes'
    BY <1>4, BoundAssumption
       DEF TypeOK, RoleTypes, Activity, Heeded, Judged, Says, Ids, Sessions
  <2>3. AnswerTypes'
    BY <1>4 DEF TypeOK, AnswerTypes, Activity, Heeded, Judged, Says
  <2>4. CounterTypes'
    BY <1>4, BoundAssumption DEF TypeOK, CounterTypes, Activity, Heeded, Judged, Says
  <2>5. StateTypes'
    BY <1>4, GuardType, ModelAssumption
       DEF TypeOK, StateTypes, Activity, Heeded, Judged, Says, Reasons
  <2> QED
    BY <2>1, <2>2, <2>3, <2>4, <2>5 DEF TypeOK
<1>5. CASE Usage
  <2>1. SessionTypes'
    BY <1>5, CurType
       DEF TypeOK, SessionTypes, Usage, Heeded, Judged, Says, EndCur, GiveUpNoteTurn,
           FileNoteOnRunModel, Fold, FreshTurn, OpenNoteSession, Opens, Greater,
           CapReply, Ids
  <2>2. RoleTypes'
    BY <1>5, BoundAssumption
       DEF TypeOK, RoleTypes, Usage, Heeded, Judged, Says, EndCur, GiveUpNoteTurn,
           FileNoteOnRunModel, Fold, FreshTurn, OpenNoteSession, Opens, Greater,
           CapReply, Ids, Sessions
  <2>3. AnswerTypes'
    BY <1>5
       DEF TypeOK, AnswerTypes, Usage, Heeded, Judged, Says, EndCur, GiveUpNoteTurn,
           FileNoteOnRunModel, Fold, FreshTurn, OpenNoteSession, Opens, Greater,
           CapReply
  <2>4. CounterTypes'
    <3>1. turns[cur] + 1 \in Nat
      BY <1>5, CurType DEF TypeOK, SessionTypes, Usage, Heeded, Judged, Says
    <3>2. Greater(seen, turns[cur] + 1) \in Nat
      BY <3>1 DEF TypeOK, CounterTypes, Greater
    <3> QED
      BY <1>5, <3>1, <3>2, BoundAssumption
         DEF TypeOK, CounterTypes, Usage, Heeded, Judged, Says, GiveUpNoteTurn,
             FileNoteOnRunModel, Fold, FreshTurn, CapReply
  <2>5. StateTypes'
    BY <1>5, GuardType, ModelAssumption
       DEF TypeOK, StateTypes, Usage, Heeded, Judged, Says, EndCur, GiveUpNoteTurn,
           FileNoteOnRunModel, Fold, FreshTurn, OpenNoteSession, Opens, Greater,
           CapReply, Reasons
  <2> QED
    BY <2>1, <2>2, <2>3, <2>4, <2>5 DEF TypeOK
<1>6. CASE RateLimited
  <2>1. SessionTypes'
    BY <1>6, CurType
       DEF TypeOK, SessionTypes, RateLimited, Waits, Heeded, Judged, Says,
           EndNoteTurn, EndCur, Ids
  <2>2. RoleTypes'
    BY <1>6, BoundAssumption
       DEF TypeOK, RoleTypes, RateLimited, Waits, Heeded, Judged, Says, EndNoteTurn,
           EndCur, Ids, Sessions
  <2>3. AnswerTypes'
    BY <1>6
       DEF TypeOK, AnswerTypes, RateLimited, Waits, Heeded, Judged, Says, EndNoteTurn,
           EndCur
  <2>4. CounterTypes'
    BY <1>6, BoundAssumption
       DEF TypeOK, CounterTypes, RateLimited, Waits, Heeded, Judged, Says,
           EndNoteTurn, EndCur
  <2>5. StateTypes'
    BY <1>6, GuardType, ModelAssumption
       DEF TypeOK, StateTypes, RateLimited, Waits, Heeded, Judged, Says, EndNoteTurn,
           EndCur, Reasons
  <2> QED
    BY <2>1, <2>2, <2>3, <2>4, <2>5 DEF TypeOK
<1>7. CASE Question
  <2>1. SessionTypes'
    BY <1>7, CurType
       DEF TypeOK, SessionTypes, Question, Waits, Heeded, Judged, Says, EndNoteTurn,
           EndCur, Ids
  <2>2. RoleTypes'
    BY <1>7, BoundAssumption
       DEF TypeOK, RoleTypes, Question, Waits, Heeded, Judged, Says, EndNoteTurn,
           EndCur, Ids, Sessions
  <2>3. AnswerTypes'
    BY <1>7
       DEF TypeOK, AnswerTypes, Question, Waits, Heeded, Judged, Says, EndNoteTurn,
           EndCur
  <2>4. CounterTypes'
    BY <1>7, BoundAssumption
       DEF TypeOK, CounterTypes, Question, Waits, Heeded, Judged, Says, EndNoteTurn,
           EndCur
  <2>5. StateTypes'
    BY <1>7, GuardType, ModelAssumption
       DEF TypeOK, StateTypes, Question, Waits, Heeded, Judged, Says, EndNoteTurn,
           EndCur, Reasons
  <2> QED
    BY <2>1, <2>2, <2>3, <2>4, <2>5 DEF TypeOK
<1>8. CASE Denied
  <2>1. SessionTypes'
    BY <1>8, CurType
       DEF TypeOK, SessionTypes, Denied, Heeded, Judged, Says, EndNoteTurn, EndCur,
           Ids
  <2>2. RoleTypes'
    BY <1>8, BoundAssumption
       DEF TypeOK, RoleTypes, Denied, Heeded, Judged, Says, EndNoteTurn, EndCur, Ids,
           Sessions
  <2>3. AnswerTypes'
    BY <1>8 DEF TypeOK, AnswerTypes, Denied, Heeded, Judged, Says, EndNoteTurn, EndCur
  <2>4. CounterTypes'
    BY <1>8, BoundAssumption
       DEF TypeOK, CounterTypes, Denied, Heeded, Judged, Says, EndNoteTurn, EndCur
  <2>5. StateTypes'
    BY <1>8, GuardType, ModelAssumption
       DEF TypeOK, StateTypes, Denied, Heeded, Judged, Says, EndNoteTurn, EndCur,
           Reasons
  <2> QED
    BY <2>1, <2>2, <2>3, <2>4, <2>5 DEF TypeOK
<1>9. CASE Asks
  <2>1. SessionTypes'
    BY <1>9, CurType
       DEF TypeOK, SessionTypes, Asks, Heeded, Judged, Says, EndNoteTurn, EndCur, Ids
  <2>2. RoleTypes'
    BY <1>9, BoundAssumption
       DEF TypeOK, RoleTypes, Asks, Heeded, Judged, Says, EndNoteTurn, EndCur, Ids,
           Sessions
  <2>3. AnswerTypes'
    BY <1>9 DEF TypeOK, AnswerTypes, Asks, Heeded, Judged, Says, EndNoteTurn, EndCur
  <2>4. CounterTypes'
    BY <1>9, BoundAssumption
       DEF TypeOK, CounterTypes, Asks, Heeded, Judged, Says, EndNoteTurn, EndCur
  <2>5. StateTypes'
    BY <1>9, GuardType, ModelAssumption
       DEF TypeOK, StateTypes, Asks, Heeded, Judged, Says, EndNoteTurn, EndCur,
           Reasons
  <2> QED
    BY <2>1, <2>2, <2>3, <2>4, <2>5 DEF TypeOK
<1>10. CASE ModelLimit
  <2>1. SessionTypes'
    BY <1>10, CurType
       DEF TypeOK, SessionTypes, ModelLimit, Heeded, Judged, Says, GiveUpNoteTurn,
           FileNoteOnRunModel, Fold, FreshTurn, OpenNoteSession, Opens, Greater,
           EndCur, Ids
  <2>2. RoleTypes'
    BY <1>10, BoundAssumption
       DEF TypeOK, RoleTypes, ModelLimit, Heeded, Judged, Says, GiveUpNoteTurn,
           FileNoteOnRunModel, Fold, FreshTurn, OpenNoteSession, Opens, Greater,
           EndCur, Ids, Sessions
  <2>3. AnswerTypes'
    BY <1>10
       DEF TypeOK, AnswerTypes, ModelLimit, Heeded, Judged, Says, GiveUpNoteTurn,
           FileNoteOnRunModel, Fold, FreshTurn, OpenNoteSession, Opens, Greater,
           EndCur
  <2>4. CounterTypes'
    BY <1>10, BoundAssumption
       DEF TypeOK, CounterTypes, ModelLimit, Heeded, Judged, Says, GiveUpNoteTurn,
           FileNoteOnRunModel, Fold, FreshTurn, OpenNoteSession, Opens, Greater,
           EndCur
  <2>5. StateTypes'
    BY <1>10, GuardType, ModelAssumption
       DEF TypeOK, StateTypes, ModelLimit, Heeded, Judged, Says, GiveUpNoteTurn,
           FileNoteOnRunModel, Fold, FreshTurn, OpenNoteSession, Opens, Greater,
           EndCur, Reasons
  <2> QED
    BY <2>1, <2>2, <2>3, <2>4, <2>5 DEF TypeOK
<1>11. CASE Malformed
  <2>1. SessionTypes'
    BY <1>11, CurType DEF TypeOK, SessionTypes, Malformed, Judged, Says, EndCur, Ids
  <2>2. RoleTypes'
    BY <1>11, BoundAssumption
       DEF TypeOK, RoleTypes, Malformed, Judged, Says, EndCur, Ids, Sessions
  <2>3. AnswerTypes'
    BY <1>11 DEF TypeOK, AnswerTypes, Malformed, Judged, Says, EndCur
  <2>4. CounterTypes'
    BY <1>11, BoundAssumption DEF TypeOK, CounterTypes, Malformed, Judged, Says, EndCur
  <2>5. StateTypes'
    BY <1>11, GuardType, ModelAssumption
       DEF TypeOK, StateTypes, Malformed, Judged, Says, EndCur, Reasons
  <2> QED
    BY <2>1, <2>2, <2>3, <2>4, <2>5 DEF TypeOK
<1>12. CASE Breach
  <2>1. SessionTypes'
    BY <1>12, CurType DEF TypeOK, SessionTypes, Breach, Says, EndCur, Ids
  <2>2. RoleTypes'
    BY <1>12, BoundAssumption DEF TypeOK, RoleTypes, Breach, Says, EndCur, Ids, Sessions
  <2>3. AnswerTypes'
    BY <1>12 DEF TypeOK, AnswerTypes, Breach, Says, EndCur
  <2>4. CounterTypes'
    BY <1>12, BoundAssumption DEF TypeOK, CounterTypes, Breach, Says, EndCur
  <2>5. StateTypes'
    BY <1>12, GuardType, ModelAssumption
       DEF TypeOK, StateTypes, Breach, Says, EndCur, Reasons
  <2> QED
    BY <2>1, <2>2, <2>3, <2>4, <2>5 DEF TypeOK
<1>13. CASE Blind
  <2>1. SessionTypes'
    BY <1>13, CurType DEF TypeOK, SessionTypes, Blind, Heeded, Judged, Says, Ids
  <2>2. RoleTypes'
    BY <1>13, BoundAssumption
       DEF TypeOK, RoleTypes, Blind, Heeded, Judged, Says, Ids, Sessions
  <2>3. AnswerTypes'
    BY <1>13 DEF TypeOK, AnswerTypes, Blind, Heeded, Judged, Says
  <2>4. CounterTypes'
    BY <1>13, BoundAssumption DEF TypeOK, CounterTypes, Blind, Heeded, Judged, Says
  <2>5. StateTypes'
    BY <1>13, GuardType, ModelAssumption
       DEF TypeOK, StateTypes, Blind, Heeded, Judged, Says, Reasons
  <2> QED
    BY <2>1, <2>2, <2>3, <2>4, <2>5 DEF TypeOK
<1>14. CASE FinalDropped
  <2>1. SessionTypes'
    BY <1>14, CurType
       DEF TypeOK, SessionTypes, FinalDropped, Heeded, Judged, Says, Ends, Ids
  <2>2. RoleTypes'
    BY <1>14, BoundAssumption
       DEF TypeOK, RoleTypes, FinalDropped, Heeded, Judged, Says, Ends, Ids, Sessions
  <2>3. AnswerTypes'
    BY <1>14 DEF TypeOK, AnswerTypes, FinalDropped, Heeded, Judged, Says, Ends
  <2>4. CounterTypes'
    BY <1>14, BoundAssumption
       DEF TypeOK, CounterTypes, FinalDropped, Heeded, Judged, Says, Ends
  <2>5. StateTypes'
    BY <1>14, GuardType, ModelAssumption
       DEF TypeOK, StateTypes, FinalDropped, Heeded, Judged, Says, Ends, Reasons
  <2> QED
    BY <2>1, <2>2, <2>3, <2>4, <2>5 DEF TypeOK
<1>15. CASE SwitchModel
  <2>1. SessionTypes'
    BY <1>15, CurType
       DEF TypeOK, SessionTypes, SwitchModel, Heeded, Judged, Says, Ends, EndCur,
           Fold, Greater, Opens, Ids
  <2>2. RoleTypes'
    BY <1>15, BoundAssumption
       DEF TypeOK, RoleTypes, SwitchModel, Heeded, Judged, Says, Ends, EndCur, Fold,
           Greater, Opens, Ids, Sessions
  <2>3. AnswerTypes'
    BY <1>15
       DEF TypeOK, AnswerTypes, SwitchModel, Heeded, Judged, Says, Ends, EndCur, Fold,
           Greater, Opens
  <2>4. CounterTypes'
    BY <1>15, BoundAssumption
       DEF TypeOK, CounterTypes, SwitchModel, Heeded, Judged, Says, Ends, EndCur,
           Fold, Greater, Opens
  <2>5. StateTypes'
    <3>1. \A i \in 1 .. Len(Fallbacks) : Fallbacks[i] \in Models
      BY ModelAssumption
    <3> QED
      BY <1>15, <3>1, GuardType
         DEF TypeOK, StateTypes, SwitchModel, Heeded, Judged, Says, Reasons
  <2> QED
    BY <2>1, <2>2, <2>3, <2>4, <2>5 DEF TypeOK
<1>16. CASE NoteAnswered
  <2>1. SessionTypes'
    BY <1>16, CurType
       DEF TypeOK, SessionTypes, NoteAnswered, Turn, Heeded, Judged, Says, Ends,
           EndCur, DeliverSteers, FreshTurn, PickedUp, Ids
  <2>2. RoleTypes'
    BY <1>16, BoundAssumption
       DEF TypeOK, RoleTypes, NoteAnswered, Turn, Heeded, Judged, Says, Ends, EndCur,
           DeliverSteers, FreshTurn, PickedUp, Ids, Sessions
  <2>3. AnswerTypes'
    <3>1. PICK d \in Docs, out \in Filings :
            /\ notes' = IF Unchanged(d) THEN notes ELSE out # "none" \/ (notes /\ ~steering)
            /\ \/ DeliverSteers(d)
               \/ /\ final' = d /\ fileErr' = (out # "all" /\ ~Unchanged(d))
                  /\ UNCHANGED <<reply, steering, prev, patience>>
            /\ UNCHANGED <<models, fixed>>
      BY <1>16 DEF NoteAnswered, Turn, Heeded, Judged, Says
    <3>2. notes' \in BOOLEAN /\ fileErr' \in BOOLEAN
      BY <3>1, Zenon DEF TypeOK, AnswerTypes, DeliverSteers
    <3> QED
      BY <3>1, <3>2 DEF TypeOK, AnswerTypes, DeliverSteers, FreshTurn
  <2>4. CounterTypes'
    BY <1>16, BoundAssumption
       DEF TypeOK, CounterTypes, NoteAnswered, Turn, Heeded, Judged, Says, Ends,
           EndCur, DeliverSteers, FreshTurn, PickedUp
  <2>5. StateTypes'
    BY <1>16, GuardType, ModelAssumption
       DEF TypeOK, StateTypes, NoteAnswered, Turn, Heeded, Judged, Says, Ends, EndCur,
           DeliverSteers, FreshTurn, PickedUp, Reasons
  <2> QED
    BY <2>1, <2>2, <2>3, <2>4, <2>5 DEF TypeOK
<1>17. CASE NoteRefused
  <2>1. SessionTypes'
    BY <1>17, CurType
       DEF TypeOK, SessionTypes, NoteRefused, Turn, Heeded, Judged, Says, Ends,
           EndCur, Exhausted, FailTurn, FailReason, FileNoteOnRunModel, Fold,
           FreshTurn, OpenNoteSession, Opens, Greater, GiveUpNoteTurn, AskAgain, Ids
  <2>2. RoleTypes'
    BY <1>17, BoundAssumption
       DEF TypeOK, RoleTypes, NoteRefused, Turn, Heeded, Judged, Says, Ends, EndCur,
           Exhausted, FailTurn, FailReason, FileNoteOnRunModel, Fold, FreshTurn,
           OpenNoteSession, Opens, Greater, GiveUpNoteTurn, AskAgain, Ids, Sessions
  <2>3. AnswerTypes'
    BY <1>17
       DEF TypeOK, AnswerTypes, NoteRefused, Turn, Heeded, Judged, Says, Ends, EndCur,
           Exhausted, FailTurn, FailReason, FileNoteOnRunModel, Fold, FreshTurn,
           OpenNoteSession, Opens, Greater, GiveUpNoteTurn, AskAgain
  <2>4. CounterTypes'
    BY <1>17, BoundAssumption
       DEF TypeOK, CounterTypes, NoteRefused, Turn, Heeded, Judged, Says, Ends,
           EndCur, Exhausted, FailTurn, FailReason, FileNoteOnRunModel, Fold,
           FreshTurn, OpenNoteSession, Opens, Greater, GiveUpNoteTurn, AskAgain
  <2>5. StateTypes'
    BY <1>17, GuardType, ModelAssumption
       DEF TypeOK, StateTypes, NoteRefused, Turn, Heeded, Judged, Says, Ends, EndCur,
           Exhausted, FailTurn, FailReason, FileNoteOnRunModel, Fold, FreshTurn,
           OpenNoteSession, Opens, Greater, GiveUpNoteTurn, AskAgain, Reasons
  <2> QED
    BY <2>1, <2>2, <2>3, <2>4, <2>5 DEF TypeOK
<1>18. CASE ReplyAnswered
  <2>1. SessionTypes'
    BY <1>18, CurType
       DEF TypeOK, SessionTypes, ReplyAnswered, Turn, Heeded, Judged, Says, Ends,
           EndCur, DeliverSteers, FreshTurn, PickedUp, StartNoteTurn, Fold, Greater,
           OpenNoteSession, Opens, Ids
  <2>2. RoleTypes'
    BY <1>18, BoundAssumption
       DEF TypeOK, RoleTypes, ReplyAnswered, Turn, Heeded, Judged, Says, Ends, EndCur,
           DeliverSteers, FreshTurn, PickedUp, StartNoteTurn, Fold, Greater,
           OpenNoteSession, Opens, Ids, Sessions
  <2>3. AnswerTypes'
    BY <1>18
       DEF TypeOK, AnswerTypes, ReplyAnswered, Turn, Heeded, Judged, Says, Ends,
           EndCur, DeliverSteers, FreshTurn, PickedUp, StartNoteTurn, Fold, Greater,
           OpenNoteSession, Opens
  <2>4. CounterTypes'
    BY <1>18, BoundAssumption
       DEF TypeOK, CounterTypes, ReplyAnswered, Turn, Heeded, Judged, Says, Ends,
           EndCur, DeliverSteers, FreshTurn, PickedUp, StartNoteTurn, Fold, Greater,
           OpenNoteSession, Opens
  <2>5. StateTypes'
    BY <1>18, GuardType, ModelAssumption
       DEF TypeOK, StateTypes, ReplyAnswered, Turn, Heeded, Judged, Says, Ends,
           EndCur, DeliverSteers, FreshTurn, PickedUp, StartNoteTurn, Fold, Greater,
           OpenNoteSession, Opens, Reasons
  <2> QED
    BY <2>1, <2>2, <2>3, <2>4, <2>5 DEF TypeOK
<1>19. CASE ReplyEmpty
  <2>1. SessionTypes'
    BY <1>19, CurType
       DEF TypeOK, SessionTypes, ReplyEmpty, Turn, Heeded, Judged, Says, Ends, EndCur,
           Exhausted, FailTurn, FailReason, CapReply, Fold, Greater, Opens, AskAgain,
           Ids
  <2>2. RoleTypes'
    BY <1>19, BoundAssumption
       DEF TypeOK, RoleTypes, ReplyEmpty, Turn, Heeded, Judged, Says, Ends, EndCur,
           Exhausted, FailTurn, FailReason, CapReply, Fold, Greater, Opens, AskAgain,
           Ids, Sessions
  <2>3. AnswerTypes'
    BY <1>19
       DEF TypeOK, AnswerTypes, ReplyEmpty, Turn, Heeded, Judged, Says, Ends, EndCur,
           Exhausted, FailTurn, FailReason, CapReply, Fold, Greater, Opens, AskAgain
  <2>4. CounterTypes'
    BY <1>19, BoundAssumption
       DEF TypeOK, CounterTypes, ReplyEmpty, Turn, Heeded, Judged, Says, Ends, EndCur,
           Exhausted, FailTurn, FailReason, CapReply, Fold, Greater, Opens, AskAgain
  <2>5. StateTypes'
    BY <1>19, GuardType, ModelAssumption
       DEF TypeOK, StateTypes, ReplyEmpty, Turn, Heeded, Judged, Says, Ends, EndCur,
           Exhausted, FailTurn, FailReason, CapReply, Fold, Greater, Opens, AskAgain,
           Reasons
  <2> QED
    BY <2>1, <2>2, <2>3, <2>4, <2>5 DEF TypeOK
<1>20. CASE StreamEnds
  <2>1. SessionTypes'
    BY <1>20, CurType DEF TypeOK, SessionTypes, StreamEnds, Ids
  <2>2. RoleTypes'
    BY <1>20, BoundAssumption DEF TypeOK, RoleTypes, StreamEnds, Ids, Sessions
  <2>3. AnswerTypes'
    BY <1>20 DEF TypeOK, AnswerTypes, StreamEnds
  <2>4. CounterTypes'
    BY <1>20, BoundAssumption DEF TypeOK, CounterTypes, StreamEnds
  <2>5. StateTypes'
    BY <1>20, GuardType, ModelAssumption DEF TypeOK, StateTypes, StreamEnds, Reasons
  <2> QED
    BY <2>1, <2>2, <2>3, <2>4, <2>5 DEF TypeOK
<1>21. CASE SwitchSession
  <2>1. SessionTypes'
    BY <1>21, CurType DEF TypeOK, SessionTypes, SwitchSession, CancelIfFired, EndCur, Ids
  <2>2. RoleTypes'
    BY <1>21, BoundAssumption
       DEF TypeOK, RoleTypes, SwitchSession, CancelIfFired, EndCur, Ids, Sessions
  <2>3. AnswerTypes'
    BY <1>21 DEF TypeOK, AnswerTypes, SwitchSession, CancelIfFired, EndCur
  <2>4. CounterTypes'
    BY <1>21, BoundAssumption DEF TypeOK, CounterTypes, SwitchSession, CancelIfFired, EndCur
  <2>5. StateTypes'
    BY <1>21, GuardType, ModelAssumption
       DEF TypeOK, StateTypes, SwitchSession, CancelIfFired, EndCur, Reasons
  <2> QED
    BY <2>1, <2>2, <2>3, <2>4, <2>5 DEF TypeOK
<1>22. CASE SeeInterrupt
  <2>1. SessionTypes'
    BY <1>22, CurType DEF TypeOK, SessionTypes, SeeInterrupt, EndCur, Ids
  <2>2. RoleTypes'
    BY <1>22, BoundAssumption DEF TypeOK, RoleTypes, SeeInterrupt, EndCur, Ids, Sessions
  <2>3. AnswerTypes'
    BY <1>22 DEF TypeOK, AnswerTypes, SeeInterrupt, EndCur
  <2>4. CounterTypes'
    BY <1>22, BoundAssumption DEF TypeOK, CounterTypes, SeeInterrupt, EndCur
  <2>5. StateTypes'
    BY <1>22, GuardType, ModelAssumption
       DEF TypeOK, StateTypes, SeeInterrupt, EndCur, Reasons
  <2> QED
    BY <2>1, <2>2, <2>3, <2>4, <2>5 DEF TypeOK
<1>23. CASE PickUpSteers
  <2>1. SessionTypes'
    BY <1>23, CurType DEF TypeOK, SessionTypes, PickUpSteers, PickedUp, Ids
  <2>2. RoleTypes'
    BY <1>23, BoundAssumption DEF TypeOK, RoleTypes, PickUpSteers, PickedUp, Ids, Sessions
  <2>3. AnswerTypes'
    BY <1>23 DEF TypeOK, AnswerTypes, PickUpSteers, PickedUp
  <2>4. CounterTypes'
    BY <1>23, BoundAssumption DEF TypeOK, CounterTypes, PickUpSteers, PickedUp
  <2>5. StateTypes'
    BY <1>23, GuardType, ModelAssumption
       DEF TypeOK, StateTypes, PickUpSteers, PickedUp, Reasons
  <2> QED
    BY <2>1, <2>2, <2>3, <2>4, <2>5 DEF TypeOK
<1>24. CASE Settle
  <2>1. SessionTypes'
    BY <1>24, CurType DEF TypeOK, SessionTypes, Settle, Verdict, Restored, Ids
  <2>2. RoleTypes'
    BY <1>24, BoundAssumption
       DEF TypeOK, RoleTypes, Settle, Verdict, Restored, Ids, Sessions
  <2>3. AnswerTypes'
    BY <1>24 DEF TypeOK, AnswerTypes, Settle, Verdict, Restored
  <2>4. CounterTypes'
    BY <1>24, BoundAssumption DEF TypeOK, CounterTypes, Settle, Verdict, Restored
  <2>5. StateTypes'
    BY <1>24, GuardType, ModelAssumption
       DEF TypeOK, StateTypes, Settle, Verdict, Restored, Reasons, StallStates
  <2> QED
    BY <2>1, <2>2, <2>3, <2>4, <2>5 DEF TypeOK
<1>25. CASE ClockFires
  <2>1. SessionTypes'
    BY <1>25, CurType DEF TypeOK, SessionTypes, ClockFires, Ids
  <2>2. RoleTypes'
    BY <1>25, BoundAssumption DEF TypeOK, RoleTypes, ClockFires, Ids, Sessions
  <2>3. AnswerTypes'
    BY <1>25 DEF TypeOK, AnswerTypes, ClockFires
  <2>4. CounterTypes'
    BY <1>25, BoundAssumption DEF TypeOK, CounterTypes, ClockFires
  <2>5. StateTypes'
    BY <1>25, GuardType, ModelAssumption DEF TypeOK, StateTypes, ClockFires, Reasons
  <2> QED
    BY <2>1, <2>2, <2>3, <2>4, <2>5 DEF TypeOK
<1>26. CASE ClockCancels
  <2>1. SessionTypes'
    BY <1>26, CurType DEF TypeOK, SessionTypes, ClockCancels, EndLive, Ids
  <2>2. RoleTypes'
    BY <1>26, BoundAssumption DEF TypeOK, RoleTypes, ClockCancels, EndLive, Ids, Sessions
  <2>3. AnswerTypes'
    BY <1>26 DEF TypeOK, AnswerTypes, ClockCancels, EndLive
  <2>4. CounterTypes'
    BY <1>26, BoundAssumption DEF TypeOK, CounterTypes, ClockCancels, EndLive
  <2>5. StateTypes'
    BY <1>26, GuardType, ModelAssumption
       DEF TypeOK, StateTypes, ClockCancels, EndLive, Reasons
  <2> QED
    BY <2>1, <2>2, <2>3, <2>4, <2>5 DEF TypeOK
<1>27. CASE StallFires
  <2>1. SessionTypes'
    BY <1>27, CurType DEF TypeOK, SessionTypes, StallFires, Ids
  <2>2. RoleTypes'
    BY <1>27, BoundAssumption DEF TypeOK, RoleTypes, StallFires, Ids, Sessions
  <2>3. AnswerTypes'
    BY <1>27 DEF TypeOK, AnswerTypes, StallFires
  <2>4. CounterTypes'
    BY <1>27, BoundAssumption DEF TypeOK, CounterTypes, StallFires
  <2>5. StateTypes'
    BY <1>27, GuardType, ModelAssumption
       DEF TypeOK, StateTypes, StallFires, Reasons, StallStates
  <2> QED
    BY <2>1, <2>2, <2>3, <2>4, <2>5 DEF TypeOK
<1>28. CASE StallStores
  <2>1. SessionTypes'
    BY <1>28, CurType DEF TypeOK, SessionTypes, StallStores, Ids
  <2>2. RoleTypes'
    BY <1>28, BoundAssumption DEF TypeOK, RoleTypes, StallStores, Ids, Sessions
  <2>3. AnswerTypes'
    BY <1>28 DEF TypeOK, AnswerTypes, StallStores
  <2>4. CounterTypes'
    BY <1>28, BoundAssumption DEF TypeOK, CounterTypes, StallStores
  <2>5. StateTypes'
    BY <1>28, GuardType, ModelAssumption
       DEF TypeOK, StateTypes, StallStores, Reasons, StallStates
  <2> QED
    BY <2>1, <2>2, <2>3, <2>4, <2>5 DEF TypeOK
<1>29. CASE StallCancels
  <2>1. SessionTypes'
    BY <1>29, CurType DEF TypeOK, SessionTypes, StallCancels, EndLive, Ids
  <2>2. RoleTypes'
    BY <1>29, BoundAssumption DEF TypeOK, RoleTypes, StallCancels, EndLive, Ids, Sessions
  <2>3. AnswerTypes'
    BY <1>29 DEF TypeOK, AnswerTypes, StallCancels, EndLive
  <2>4. CounterTypes'
    BY <1>29, BoundAssumption DEF TypeOK, CounterTypes, StallCancels, EndLive
  <2>5. StateTypes'
    BY <1>29, GuardType, ModelAssumption
       DEF TypeOK, StateTypes, StallCancels, EndLive, Reasons, StallStates
  <2> QED
    BY <2>1, <2>2, <2>3, <2>4, <2>5 DEF TypeOK
<1>30. CASE Interrupt
  <2>1. SessionTypes'
    BY <1>30, CurType DEF TypeOK, SessionTypes, Interrupt, Ids
  <2>2. RoleTypes'
    BY <1>30, BoundAssumption DEF TypeOK, RoleTypes, Interrupt, Ids, Sessions
  <2>3. AnswerTypes'
    BY <1>30 DEF TypeOK, AnswerTypes, Interrupt
  <2>4. CounterTypes'
    BY <1>30, BoundAssumption DEF TypeOK, CounterTypes, Interrupt
  <2>5. StateTypes'
    BY <1>30, GuardType, ModelAssumption DEF TypeOK, StateTypes, Interrupt, Reasons
  <2> QED
    BY <2>1, <2>2, <2>3, <2>4, <2>5 DEF TypeOK
<1>31. CASE \E q \in Steers : TypeSteer(q)
  BY <1>31
     DEF TypeOK, SessionTypes, RoleTypes, AnswerTypes, CounterTypes, StateTypes,
         TypeSteer
<1>32. CASE Done
  BY <1>32 DEF Done, TypeOK, SessionTypes, RoleTypes, AnswerTypes, CounterTypes, StateTypes
<1> QED
  BY <1>1, <1>2, <1>3, <1>4, <1>5, <1>6, <1>7, <1>8, <1>9, <1>10, <1>11, <1>12, <1>13,
     <1>14, <1>15, <1>16, <1>17, <1>18, <1>19, <1>20, <1>21, <1>22, <1>23, <1>24,
     <1>25, <1>26, <1>27, <1>28, <1>29, <1>30, <1>31, <1>32
     DEF Next, Emit, Reader, Timers, Operator

\* The fields of an execution keep their types and its counters their bounds.
THEOREM TypeCorrect == Spec => []TypeOK
<1>1. TypeOK /\ UNCHANGED vars => TypeOK'
  BY DEF TypeOK, SessionTypes, RoleTypes, AnswerTypes, CounterTypes, StateTypes
<1> QED
  BY <1>1, InitTypeOK, NextTypeOK, PTL DEF Spec

-----------------------------------------------------------------------------
(* Nothing is filed once the run was stopped.  No invariant is needed: only *)
(* an answer files, and Settled turns every answer away.                    *)

\* Once a breach, a session that read nothing, a budget or a question stopped
\* the run, handleFinal drops every later answer before it files one
\* (execute.go:1558-1623).
THEOREM FilesNothingOnceStopped == Spec => NothingFiledOnceStopped
<1>1. ASSUME GivenUp, Next, filed' # filed PROVE FALSE
  <2>1. Settled \/ "limit" \in why
    BY <1>1 DEF GivenUp, Settled, NoteTurn
  <2>2. ASSUME NEW a \in Answers PROVE ~Turn(a)
    BY <2>1 DEF Turn
  <2>3. ~NoteAnswered /\ ~ReplyAnswered
    BY <2>2 DEF NoteAnswered, ReplyAnswered, Answers
  <2>4. Emit => UNCHANGED filed
    BY <2>3 DEF Emit, Drained, Activity, Usage, RateLimited, Question, Waits, Denied,
       Asks, ModelLimit, Malformed, Breach, Blind, FinalDropped, SwitchModel,
       NoteRefused, ReplyEmpty
  <2>5. Reader \/ Timers \/ Operator \/ StreamEnds \/ Done => UNCHANGED filed
    BY DEF Reader, StartFails, Begin, SwitchSession, SeeInterrupt, PickUpSteers, Settle,
       Timers, ClockFires, ClockCancels, StallFires, StallStores, StallCancels,
       Operator, Interrupt, TypeSteer, StreamEnds, Done
  <2> QED
    BY <1>1, <2>4, <2>5 DEF Next
<1>2. [Next]_vars => [GivenUp => filed' = filed]_vars
  BY <1>1
<1> QED
  BY <1>2, PTL DEF Spec, NothingFiledOnceStopped

-----------------------------------------------------------------------------
(* The stall guard never fires behind the reason the session ended for.     *)

\* A breach, a budget or a question stops the guard for good.  One path only
\* holds it: a wrap-up session that would not start, and there the capped
\* session is drained and no session follows that could rearm it.
StopInv ==
  /\ pc = "starting" => why = {}
  /\ why \cap {"breach", "over", "ask"} # {} =>
       \/ stall \notin {"armed", "held"}
       \/ stall = "held" /\ capped = cur /\ ~Waiting /\ pc # "switching"

\* No step leaves the guard to fire behind a reason already recorded: every
\* handler that ends a run stops it first, and only a session switch rearms it.
LEMMA StopInvStep == StopInv /\ Next => StopInv'
<1> SUFFICES ASSUME StopInv, Next PROVE StopInv'
  OBVIOUS
<1> USE DEF StopInv, Held, Stopped, Rearmed, Waiting, Ignored
<1>1. CASE StartFails
  BY <1>1 DEF StartFails, Finish
<1>2. CASE Begin
  BY <1>2 DEF Begin
<1>3. CASE Drained
  BY <1>3 DEF Drained, Says
<1>4. CASE Activity
  BY <1>4 DEF Activity, Heeded, Judged, Says
<1>5. CASE Usage
  BY <1>5
     DEF Usage, Heeded, Judged, Says, GiveUpNoteTurn, FileNoteOnRunModel,
         OpenNoteSession, Opens, CapReply, ReplyCap
<1>6. CASE RateLimited
  BY <1>6 DEF RateLimited, Waits, Heeded, Judged, Says, EndNoteTurn
<1>7. CASE Question
  BY <1>7 DEF Question, Waits, Heeded, Judged, Says, EndNoteTurn
<1>8. CASE Denied
  BY <1>8 DEF Denied, Heeded, Judged, Says, EndNoteTurn
<1>9. CASE Asks
  BY <1>9 DEF Asks, Heeded, Judged, Says, EndNoteTurn
<1>10. CASE ModelLimit
  BY <1>10
     DEF ModelLimit, Heeded, Judged, Says, GiveUpNoteTurn, FileNoteOnRunModel,
         OpenNoteSession, Opens
<1>11. CASE Malformed
  BY <1>11 DEF Malformed, Judged, Says
<1>12. CASE Breach
  BY <1>12 DEF Breach, Says
<1>13. CASE Blind
  BY <1>13 DEF Blind, Heeded, Judged, Says
<1>14. CASE FinalDropped
  BY <1>14 DEF FinalDropped, Heeded, Judged, Says
<1>15. CASE SwitchModel
  BY <1>15 DEF SwitchModel, Heeded, Judged, Says, Opens
<1>16. CASE NoteAnswered
  BY <1>16 DEF NoteAnswered, Turn, Heeded, Judged, Says, DeliverSteers
<1>17. CASE NoteRefused
  BY <1>17
     DEF NoteRefused, Turn, Heeded, Judged, Says, FailTurn, FailReason,
         FileNoteOnRunModel, OpenNoteSession, Opens, GiveUpNoteTurn, AskAgain
<1>18. CASE ReplyAnswered
  BY <1>18
     DEF ReplyAnswered, Turn, Heeded, Judged, Says, DeliverSteers, StartNoteTurn,
         OpenNoteSession, Opens
<1>19. CASE ReplyEmpty
  BY <1>19
     DEF ReplyEmpty, Turn, Heeded, Judged, Says, FailTurn, FailReason, CapReply,
         ReplyCap, Opens, AskAgain
<1>20. CASE StreamEnds
  BY <1>20 DEF StreamEnds
<1>21. CASE SwitchSession
  BY <1>21 DEF SwitchSession
<1>22. CASE SeeInterrupt
  BY <1>22 DEF SeeInterrupt
<1>23. CASE PickUpSteers
  BY <1>23 DEF PickUpSteers
<1>24. CASE Settle
  BY <1>24 DEF Settle
<1>25. CASE ClockFires
  BY <1>25 DEF ClockFires
<1>26. CASE ClockCancels
  BY <1>26 DEF ClockCancels
<1>27. CASE StallFires
  BY <1>27 DEF StallFires
<1>28. CASE StallStores
  BY <1>28 DEF StallStores
<1>29. CASE StallCancels
  BY <1>29 DEF StallCancels
<1>30. CASE Interrupt
  BY <1>30 DEF Interrupt
<1>31. CASE (\E q \in Steers : TypeSteer(q)) \/ Done
  BY <1>31 DEF TypeSteer, Done
<1> QED
  BY <1>1, <1>2, <1>3, <1>4, <1>5, <1>6, <1>7, <1>8, <1>9, <1>10, <1>11, <1>12, <1>13,
     <1>14, <1>15, <1>16, <1>17, <1>18, <1>19, <1>20, <1>21, <1>22, <1>23, <1>24,
     <1>25, <1>26, <1>27, <1>28, <1>29, <1>30, <1>31
     DEF Next, Emit, Reader, Timers, Operator

\* Whatever the models, budgets and events, the stall guard is not armed once a
\* breach, a budget or a question ended the session (execute.go:1316-1319).
THEOREM GuardNeverMisnames == Spec => []StallNeverMisnames
<1>1. Init => StopInv
  BY DEF Init, StopInv
<1>2. StopInv /\ UNCHANGED vars => StopInv'
  BY DEF StopInv, Waiting
<1>3. StopInv => StallNeverMisnames
  BY DEF StopInv, StallNeverMisnames
<1> QED
  BY <1>1, <1>2, <1>3, StopInvStep, PTL DEF Spec

-----------------------------------------------------------------------------
(* A timer that fires while sessions change hands still reaches the reader. *)

\* The session the timers cancel is the one being read, except before the
\* first is started; a session waiting to take over is a process already.
TimerInv ==
  /\ pc = "starting" => clock = "off" /\ stall = "off"
  /\ pc \in {"reading", "switching"} => live = cur /\ sess[cur] # "none"
  /\ retry # 0 => retry \in Sessions /\ sess[retry] # "none"
  /\ TimerReachesReader
IndInv == TypeOK /\ TimerInv

\* What any event may do to the sessions: the current one stays as it is or
\* is ended, and at most one is started, to wait for it.
SessionsKept ==
  /\ UNCHANGED <<pc, cur, live, clock>>
  /\ sess'[cur] \in {sess[cur], "ending"}
  /\ \A n \in Sessions : sess[n] # "none" => sess'[n] # "none"
  /\ retry' = retry \/ (retry' \in Sessions /\ sess'[retry'] # "none")
  /\ stall' = "spent" => stall = "spent"

\* endSession cancels the current session and takes no process away.
LEMMA EndKeeps ==
  ASSUME TypeOK, cur \in Sessions, EndCur
  PROVE  /\ sess'[cur] = "ending"
         /\ \A n \in Sessions : sess[n] # "none" => sess'[n] # "none"
BY DEF TypeOK, SessionTypes, EndCur

\* Starting a session leaves the current one running or ended, and puts a
\* process in the place a retry waits in.
LEMMA OpenKeeps ==
  ASSUME TypeOK, cur \in Sessions, sess[cur] # "none", NEW n \in Sessions,
         NEW st \in {"ending", sess[cur]}, Opens(n, st)
  PROVE  /\ sess'[cur] \in {sess[cur], "ending"}
         /\ \A m \in Sessions : sess[m] # "none" => sess'[m] # "none"
         /\ retry' \in Sessions /\ sess'[retry'] # "none"
BY DEF TypeOK, SessionTypes, Opens, Fresh

\* openNoteSession either starts the note's session or records that it could
\* not; either way whatever waits is a process.
LEMMA NoteSessionKeeps ==
  ASSUME TypeOK, cur \in Sessions, sess[cur] # "none", OpenNoteSession("ending")
  PROVE  /\ sess'[cur] \in {sess[cur], "ending"}
         /\ \A m \in Sessions : sess[m] # "none" => sess'[m] # "none"
         /\ retry' = retry \/ (retry' \in Sessions /\ sess'[retry'] # "none")
<1>1. CASE \E n \in Sessions : Opens(n, "ending")
  BY <1>1, OpenKeeps
<1>2. CASE sess' = [sess EXCEPT ![cur] = "ending"] /\ retry' = retry
  BY <1>2 DEF TypeOK, SessionTypes
<1> QED
  BY <1>1, <1>2 DEF OpenNoteSession

\* No handler of a provider event switches sessions or touches the timers: the
\* reader does that between sessions, which is what TimerInv relies on.
LEMMA EmitKeeps == IndInv /\ Emit => SessionsKept
<1> SUFFICES ASSUME IndInv, Emit PROVE SessionsKept
  OBVIOUS
<1>0. TypeOK /\ pc = "reading" /\ cur \in Sessions /\ sess[cur] # "none" /\ UNCHANGED <<pc, cur, live, clock>>
  BY CurType
     DEF IndInv, TimerInv, Emit, Drained, Activity, Usage, RateLimited, Question,
         Denied, Asks, ModelLimit, Malformed, Breach, Blind, FinalDropped,
         SwitchModel, NoteAnswered, NoteRefused, ReplyAnswered, ReplyEmpty, Says,
         Waits, Judged, Heeded, Turn
<1> USE EndKeeps, OpenKeeps, NoteSessionKeeps DEF SessionsKept, Held, Stopped
<1>1. CASE Drained
  BY <1>0, <1>1 DEF Drained
<1>2. CASE Activity
  BY <1>0, <1>2 DEF Activity, Heeded, Judged
<1>3. CASE Usage
  BY <1>0, <1>3 DEF Usage, Heeded, Judged, GiveUpNoteTurn, FileNoteOnRunModel, CapReply
<1>4. CASE RateLimited
  BY <1>0, <1>4 DEF RateLimited, Waits, Heeded, Judged, EndNoteTurn
<1>5. CASE Question
  BY <1>0, <1>5 DEF Question, Waits, Heeded, Judged, EndNoteTurn
<1>6. CASE Denied
  BY <1>0, <1>6 DEF Denied, Heeded, Judged, EndNoteTurn
<1>7. CASE Asks
  BY <1>0, <1>7 DEF Asks, Heeded, Judged, EndNoteTurn
<1>8. CASE ModelLimit
  BY <1>0, <1>8 DEF ModelLimit, Heeded, Judged, GiveUpNoteTurn, FileNoteOnRunModel
<1>9. CASE Malformed
  BY <1>0, <1>9 DEF Malformed, Judged
<1>10. CASE Breach
  BY <1>0, <1>10 DEF Breach
<1>11. CASE Blind
  BY <1>0, <1>11 DEF Blind, Heeded, Judged
<1>12. CASE FinalDropped
  BY <1>0, <1>12 DEF FinalDropped, Heeded, Judged
<1>13. CASE SwitchModel
  BY <1>0, <1>13 DEF SwitchModel, Heeded, Judged
<1>14. CASE NoteAnswered
  BY <1>0, <1>14 DEF NoteAnswered, Turn, Heeded, Judged, DeliverSteers
<1>15. CASE NoteRefused
  BY <1>0, <1>15
     DEF NoteRefused, Turn, Heeded, Judged, FailTurn, FileNoteOnRunModel,
         GiveUpNoteTurn, AskAgain
<1>16. CASE ReplyAnswered
  BY <1>0, <1>16 DEF ReplyAnswered, Turn, Heeded, Judged, DeliverSteers, StartNoteTurn
<1>17. CASE ReplyEmpty
  BY <1>0, <1>17 DEF ReplyEmpty, Turn, Heeded, Judged, FailTurn, CapReply, AskAgain
<1> QED
  BY <1>1, <1>2, <1>3, <1>4, <1>5, <1>6, <1>7, <1>8, <1>9, <1>10, <1>11, <1>12, <1>13,
     <1>14, <1>15, <1>16, <1>17
     DEF Emit

\* Each step keeps the timers aimed at the session being read: openings leave
\* live alone, and the switch moves it together with cur (execute.go:1048-1064).
LEMMA TimerInvStep == IndInv /\ Next => TimerInv'
<1> SUFFICES ASSUME IndInv, Next PROVE TimerInv'
  OBVIOUS
<1> USE DEF IndInv, TimerInv, TimerReachesReader
<1>1. CASE Emit
  <2>1. SessionsKept /\ pc = "reading" /\ cur \in Sessions
    BY <1>1, EmitKeeps, CurType DEF Emit, Drained, Activity, Usage, RateLimited, Question,
       Waits, Denied, Asks, ModelLimit, Malformed, Breach, Blind, FinalDropped, SwitchModel,
       NoteAnswered, NoteRefused, ReplyAnswered, ReplyEmpty, Turn, Heeded, Judged, Says
  <2> QED
    BY <2>1 DEF SessionsKept
<1>2. CASE StartFails
  BY <1>2 DEF StartFails, Finish
<1>3. CASE Begin
  BY <1>3, BoundAssumption DEF Begin, TypeOK, SessionTypes, Sessions
<1>4. CASE SwitchSession
  BY <1>4, CurType, EndKeeps
     DEF SwitchSession, CancelIfFired, TimedOut, Fired, Rearmed, Stopped
<1>5. CASE SeeInterrupt
  BY <1>5, CurType, EndKeeps DEF SeeInterrupt, Stopped
<1>6. CASE PickUpSteers \/ Interrupt \/ (\E q \in Steers : TypeSteer(q)) \/ Done
  BY <1>6 DEF PickUpSteers, Interrupt, TypeSteer, Done
<1>7. CASE Settle
  BY <1>7 DEF Settle, Stopped
<1>8. CASE StreamEnds
  BY <1>8, CurType DEF StreamEnds, TypeOK, SessionTypes
<1>9. CASE ClockFires \/ StallFires \/ StallStores
  BY <1>9 DEF ClockFires, StallFires, StallStores
<1>10. CASE ClockCancels \/ StallCancels
  <2>1. /\ UNCHANGED <<pc, cur, live, retry>>
        /\ \A n \in Sessions : sess[n] # "none" => sess'[n] # "none"
    BY <1>10 DEF ClockCancels, StallCancels, EndLive, TypeOK, SessionTypes
  <2>2. pc = "reading" => sess'[cur] # "open"
    <3> SUFFICES ASSUME pc = "reading" PROVE sess'[cur] # "open"
      OBVIOUS
    <3>1. live = cur /\ cur # 0 /\ cur \in Sessions
      BY CurType DEF TypeOK, RoleTypes
    <3>2. sess' = IF sess[cur] = "open" THEN [sess EXCEPT ![cur] = "ending"] ELSE sess
      BY <1>10, <3>1 DEF ClockCancels, StallCancels, EndLive
    <3> QED
      BY <3>1, <3>2 DEF TypeOK, SessionTypes
  <2>3. pc # "starting"
    BY <1>10 DEF ClockCancels, StallCancels
  <2> QED
    BY <2>1, <2>2, <2>3, CurType
<1> QED
  BY <1>1, <1>2, <1>3, <1>4, <1>5, <1>6, <1>7, <1>8, <1>9, <1>10
     DEF Next, Reader, Timers, Operator

\* A timer that has spent itself never leaves the session being read open,
\* however it falls between two sessions (execute.go:1057-1064).
THEOREM TimersReachTheReader == Spec => []TimerReachesReader
<1>1. Init => TimerInv
  BY DEF Init, TimerInv, TimerReachesReader
<1>2. TimerInv /\ UNCHANGED vars => TimerInv'
  BY DEF TimerInv, TimerReachesReader
<1>3. TimerInv => TimerReachesReader
  BY DEF TimerInv
<1>4. TypeOK /\ TimerInv /\ Next => TimerInv'
  BY TimerInvStep DEF IndInv
<1> QED
  BY <1>1, <1>2, <1>3, <1>4, TypeCorrect, PTL DEF Spec

-----------------------------------------------------------------------------
(* An execution keeps its promise: RunExec implements RunPromise.           *)

\* A stored reply belongs to a reply turn; the note phase is never entered by
\* a session that read nothing; and an execution starts with nothing against
\* it and no answer.
AnswerInv ==
  /\ reply => job \in {"replyFirst", "talk"}
  /\ phase = "note" => "blind" \notin why
  /\ pc = "starting" => why = {} /\ final = None /\ ~reply

\* Replies come from reply turns only, and no session that read nothing takes a
\* run into its note phase (handleReply, startNoteTurn).
LEMMA AnswerInvStep == AnswerInv /\ Next => AnswerInv'
<1> SUFFICES ASSUME AnswerInv, Next PROVE AnswerInv'
  OBVIOUS
<1> USE DEF AnswerInv
<1>1. CASE StartFails
  BY <1>1 DEF StartFails, Finish
<1>2. CASE Begin
  BY <1>2 DEF Begin
<1>3. CASE Drained
  BY <1>3 DEF Drained, Says
<1>4. CASE Activity
  BY <1>4 DEF Activity, Heeded, Judged, Says
<1>5. CASE Usage
  BY <1>5
     DEF Usage, Heeded, Judged, Says, GiveUpNoteTurn, FileNoteOnRunModel,
         OpenNoteSession, Opens, CapReply
<1>6. CASE RateLimited
  BY <1>6 DEF RateLimited, Waits, Heeded, Judged, Says, EndNoteTurn
<1>7. CASE Question
  BY <1>7 DEF Question, Waits, Heeded, Judged, Says, EndNoteTurn
<1>8. CASE Denied
  BY <1>8 DEF Denied, Heeded, Judged, Says, EndNoteTurn
<1>9. CASE Asks
  BY <1>9 DEF Asks, Heeded, Judged, Says, EndNoteTurn
<1>10. CASE ModelLimit
  BY <1>10
     DEF ModelLimit, Heeded, Judged, Says, GiveUpNoteTurn, FileNoteOnRunModel,
         OpenNoteSession, Opens
<1>11. CASE Malformed
  BY <1>11 DEF Malformed, Judged, Says
<1>12. CASE Breach
  BY <1>12 DEF Breach, Says
<1>13. CASE Blind
  BY <1>13 DEF Blind, Heeded, Judged, Says, NoteTurn
<1>14. CASE FinalDropped
  BY <1>14 DEF FinalDropped, Heeded, Judged, Says
<1>15. CASE SwitchModel
  BY <1>15 DEF SwitchModel, Heeded, Judged, Says, Opens
<1>16. CASE NoteAnswered
  BY <1>16 DEF NoteAnswered, Turn, Heeded, Judged, Says, DeliverSteers
<1>17. CASE NoteRefused
  BY <1>17
     DEF NoteRefused, Turn, Heeded, Judged, Says, FailTurn, FailReason,
         FileNoteOnRunModel, OpenNoteSession, Opens, GiveUpNoteTurn, AskAgain
<1>18. CASE ReplyAnswered
  BY <1>18
     DEF ReplyAnswered, Turn, Heeded, Judged, Says, DeliverSteers, StartNoteTurn,
         OpenNoteSession, Opens, Settled, ReplyTurn, NoteAfter
<1>19. CASE ReplyEmpty
  BY <1>19
     DEF ReplyEmpty, Turn, Heeded, Judged, Says, FailTurn, FailReason, CapReply,
         Opens, AskAgain
<1>20. CASE StreamEnds
  BY <1>20 DEF StreamEnds
<1>21. CASE SwitchSession
  BY <1>21 DEF SwitchSession
<1>22. CASE SeeInterrupt
  BY <1>22 DEF SeeInterrupt
<1>23. CASE PickUpSteers
  BY <1>23 DEF PickUpSteers
<1>24. CASE Settle
  BY <1>24 DEF Settle
<1>25. CASE ClockFires
  BY <1>25 DEF ClockFires
<1>26. CASE ClockCancels
  BY <1>26 DEF ClockCancels
<1>27. CASE StallFires
  BY <1>27 DEF StallFires
<1>28. CASE StallStores
  BY <1>28 DEF StallStores
<1>29. CASE StallCancels
  BY <1>29 DEF StallCancels
<1>30. CASE Interrupt
  BY <1>30 DEF Interrupt
<1>31. CASE (\E q \in Steers : TypeSteer(q)) \/ Done
  BY <1>31 DEF TypeSteer, Done
<1> QED
  BY <1>1, <1>2, <1>3, <1>4, <1>5, <1>6, <1>7, <1>8, <1>9, <1>10, <1>11, <1>12, <1>13,
     <1>14, <1>15, <1>16, <1>17, <1>18, <1>19, <1>20, <1>21, <1>22, <1>23, <1>24,
     <1>25, <1>26, <1>27, <1>28, <1>29, <1>30, <1>31
     DEF Next, Emit, Reader, Timers, Operator

\* The promise's variables, as far as a step of the execution can move them.
LEMMA SamePromise ==
  ASSUME UNCHANGED <<pc, status, filed, phase, final, reply, fileErr>>,
         "breach" \in why' <=> "breach" \in why, "blind" \in why' <=> "blind" \in why
  PROVE  UNCHANGED Promised!promise
BY DEF Promised!promise, Standing, Condemned

\* Every step of the execution is an answer, a condemnation, the settling, or
\* nothing its caller could see.
LEMMA PromiseStep == AnswerInv /\ Next => [Promised!PromiseNext]_(Promised!promise)
<1> SUFFICES ASSUME AnswerInv, Next PROVE Promised!PromiseNext \/ UNCHANGED Promised!promise
  OBVIOUS
<1> USE DEF Promised!PromiseNext
<1>1. CASE Activity
  BY <1>1, SamePromise DEF Activity, Heeded, Judged, Says
<1>2. CASE Usage
  BY <1>2, SamePromise
     DEF Usage, Heeded, Judged, Says, GiveUpNoteTurn, FileNoteOnRunModel,
         OpenNoteSession, Opens, CapReply
<1>3. CASE RateLimited
  BY <1>3, SamePromise DEF RateLimited, Waits, Heeded, Judged, Says, EndNoteTurn
<1>4. CASE Question
  BY <1>4, SamePromise DEF Question, Waits, Heeded, Judged, Says, EndNoteTurn
<1>5. CASE Denied
  BY <1>5, SamePromise DEF Denied, Heeded, Judged, Says, EndNoteTurn
<1>6. CASE Asks
  BY <1>6, SamePromise DEF Asks, Heeded, Judged, Says, EndNoteTurn
<1>7. CASE ModelLimit
  BY <1>7, SamePromise
     DEF ModelLimit, Heeded, Judged, Says, GiveUpNoteTurn, FileNoteOnRunModel,
         OpenNoteSession, Opens
<1>8. CASE Malformed
  BY <1>8, SamePromise DEF Malformed, Judged, Says
<1>9. CASE Drained
  BY <1>9, SamePromise DEF Drained, Says
<1>10. CASE FinalDropped
  BY <1>10, SamePromise DEF FinalDropped, Heeded, Judged, Says
<1>11. CASE SwitchModel
  BY <1>11, SamePromise DEF SwitchModel, Heeded, Judged, Says, Opens
<1>12. CASE NoteRefused
  BY <1>12, SamePromise
     DEF NoteRefused, Turn, Heeded, Judged, Says, FailTurn, FailReason,
         FileNoteOnRunModel, OpenNoteSession, Opens, GiveUpNoteTurn, AskAgain
<1>13. CASE ReplyEmpty
  BY <1>13, SamePromise
     DEF ReplyEmpty, Turn, Heeded, Judged, Says, FailTurn, FailReason, CapReply,
         Opens, AskAgain
<1>14. CASE Begin
  BY <1>14 DEF Begin, Promised!promise, Standing, Condemned
<1>15. CASE StreamEnds
  BY <1>15 DEF StreamEnds, Promised!promise, Standing, Condemned
<1>16. CASE SwitchSession
  BY <1>16 DEF SwitchSession, Promised!promise, Standing, Condemned
<1>17. CASE SeeInterrupt
  BY <1>17, SamePromise DEF SeeInterrupt
<1>18. CASE PickUpSteers
  BY <1>18, SamePromise DEF PickUpSteers
<1>19. CASE ClockFires
  BY <1>19, SamePromise DEF ClockFires
<1>20. CASE ClockCancels
  BY <1>20, SamePromise DEF ClockCancels
<1>21. CASE StallFires
  BY <1>21, SamePromise DEF StallFires
<1>22. CASE StallStores
  BY <1>22, SamePromise DEF StallStores
<1>23. CASE StallCancels
  BY <1>23, SamePromise DEF StallCancels
<1>24. CASE Interrupt
  BY <1>24, SamePromise DEF Interrupt
<1>25. CASE (\E q \in Steers : TypeSteer(q)) \/ Done
  BY <1>25, SamePromise DEF TypeSteer, Done
<1>26. CASE Breach
  BY <1>26 DEF Breach, Says, Promised!Condemn, Promised!promise, Standing, Condemned
<1>27. CASE Blind
  BY <1>27 DEF Blind, Heeded, Judged, Says, NoteTurn, Promised!Condemn, Promised!promise,
     Standing, Condemned
<1>28. CASE NoteAnswered
  BY <1>28
     DEF NoteAnswered, Turn, Settled, Heeded, Judged, Says, DeliverSteers,
         Deliverable,
     ReplyTurn, AnswerInv, Promised!Answer, Promised!promise, Standing, Condemned
<1>29. CASE ReplyAnswered
  BY <1>29
     DEF ReplyAnswered, Turn, Settled, Heeded, Judged, Says, DeliverSteers,
         StartNoteTurn,
     OpenNoteSession, Opens, ReplyTurn, AnswerInv, Promised!Answer, Promised!promise,
     Standing, Condemned
<1>30. CASE StartFails
  BY <1>30 DEF StartFails, Finish, AnswerInv, Promised!Settle, Promised!Settled,
     Promised!promise, Standing, Condemned
<1>31. CASE Settle
  BY <1>31 DEF Settle, Verdict, AnswerInv, Promised!Settle, Promised!Settled,
     Promised!promise, Standing, Condemned
<1> QED
  BY <1>1, <1>2, <1>3, <1>4, <1>5, <1>6, <1>7, <1>8, <1>9, <1>10, <1>11, <1>12, <1>13,
     <1>14, <1>15, <1>16, <1>17, <1>18, <1>19, <1>20, <1>21, <1>22, <1>23, <1>24,
     <1>25, <1>26, <1>27, <1>28, <1>29, <1>30, <1>31
     DEF Next, Emit, Reader, Timers, Operator

\* The event loop implements RunPromise: answers are filed only while the run
\* works and is not condemned, one that stands stays, and the run completes
\* exactly when one stands (execute.go:557-652).
THEOREM KeepsItsPromise == Spec => Implements
<1>1. Init => Promised!PromiseInit
  BY DEF Init, Promised!PromiseInit, Standing, Condemned
<1>2. Init => AnswerInv
  BY DEF Init, AnswerInv
<1>3. AnswerInv /\ UNCHANGED vars => AnswerInv'
  BY DEF AnswerInv
<1>4. UNCHANGED vars => UNCHANGED Promised!promise
  BY SamePromise
<1>5. AnswerInv /\ [Next]_vars => [Promised!PromiseNext]_(Promised!promise)
  BY PromiseStep, <1>4
<1> QED
  BY <1>1, <1>2, <1>3, <1>5, AnswerInvStep, PTL DEF Spec, Implements, Promised!Promise

-----------------------------------------------------------------------------
(* What the run has spent.                                                   *)

\* Spending is never handed back: a conversation that is folded, or a session
\* that reports, adds to what the run has spent.
LEMMA SpendKept ==
  ASSUME TypeOK, NEW t \in Nat
  PROVE  /\ Greater(seen, t) \in Nat /\ Greater(seen, t) >= seen
         /\ Fold(t) => base' + seen' >= base + seen
BY DEF TypeOK, CounterTypes, Greater, Fold

LEMMA UsageStep == TypeOK /\ Next => base' + seen' >= base + seen
<1> SUFFICES ASSUME TypeOK, Next PROVE base' + seen' >= base + seen
  OBVIOUS
<1>0. base \in Nat /\ seen \in Nat
  BY DEF TypeOK, CounterTypes
<1>a. UNCHANGED <<base, seen>> => base' + seen' >= base + seen
  BY <1>0
<1>1. CASE Usage
  <2>1. pc = "reading"
    BY <1>1 DEF Usage, Heeded, Judged, Says
  <2>2. turns[cur] + 1 \in Nat
    BY <2>1, CurType DEF TypeOK, SessionTypes
  <2> DEFINE t == turns[cur] + 1
  <2>3. Fold(t) \/ (seen' = Greater(seen, t) /\ UNCHANGED base)
    BY <1>1 DEF Usage, GiveUpNoteTurn, FileNoteOnRunModel, CapReply
  <2> HIDE DEF t
  <2> QED
    BY <1>0, <2>2, <2>3, SpendKept DEF t
<1>2. CASE ModelLimit \/ NoteRefused \/ SwitchModel \/ ReplyAnswered \/ ReplyEmpty
  <2>1. Fold(0) \/ (seen' = Greater(seen, 0) /\ UNCHANGED base) \/ UNCHANGED <<base, seen>>
    BY <1>2 DEF ModelLimit, NoteRefused, SwitchModel, ReplyAnswered, ReplyEmpty, GiveUpNoteTurn,
       FileNoteOnRunModel, CapReply, AskAgain, FailTurn, StartNoteTurn, DeliverSteers
  <2> QED
    BY <1>0, <2>1, SpendKept
<1>3. CASE Settle
  <2>1. \E t \in {seen} \cup {turns[n] : n \in read \ folded} : seen <= t /\ seen' = t
    BY <1>3 DEF Settle
  <2>2. seen' \in Nat
    BY <1>0, <2>1 DEF TypeOK, SessionTypes
  <2> QED
    BY <1>0, <1>3, <2>1, <2>2 DEF Settle
<1>4. CASE Emit /\ ~(Usage \/ ModelLimit \/ NoteRefused \/ SwitchModel \/ ReplyAnswered \/ ReplyEmpty)
  BY <1>4, <1>a DEF Emit, Drained, Activity, RateLimited, Question, Waits, Denied, Asks, EndNoteTurn,
     Malformed, Breach, Blind, FinalDropped, NoteAnswered, DeliverSteers
<1>5. CASE StartFails \/ Begin \/ SwitchSession \/ SeeInterrupt \/ PickUpSteers \/ StreamEnds
  BY <1>5, <1>a DEF StartFails, Begin, SwitchSession, SeeInterrupt, PickUpSteers, StreamEnds
<1>6. CASE Timers \/ Operator \/ Done
  BY <1>6, <1>a DEF Timers, ClockFires, ClockCancels, StallFires, StallStores, StallCancels,
     Operator, Interrupt, TypeSteer, Done
<1> QED
  BY <1>1, <1>2, <1>3, <1>4, <1>5, <1>6 DEF Next, Reader

\* What a session spent stays spent, whatever replaces it.
THEOREM SpendingStands == Spec => UsageNeverRefunded
<1>1. TypeOK /\ [Next]_vars => base' + seen' >= base + seen
  <2>1. TypeOK /\ UNCHANGED vars => base' + seen' >= base + seen
    BY DEF TypeOK, CounterTypes
  <2> QED
    BY <2>1, UsageStep
<1> QED
  BY <1>1, TypeCorrect, PTL DEF Spec, UsageNeverRefunded

-----------------------------------------------------------------------------
(* No session is left running with nothing waiting for it.                  *)

\* Where the sessions are; and that a session is only waited for while one is
\* read, which then has nothing left to be heard for, unless it may repeat its
\* result.
WaitInv ==
  /\ job \in Jobs
  /\ pc = "starting" => \A n \in Sessions : sess[n] = "none"
  /\ pc # "reading" => retry = 0
  /\ retry # 0 /\ phase # "note" /\ "final" \notin LateKinds => cur \in said \/ capped = cur
  /\ NoOrphan

\* A session that repeats its result can start the note's beside one that
\* waits already (startNoteTurn looks for none): not without a reply to follow
\* with a note, and not when a result is a session's last word.
OneWaits == "replyFirst" \notin Jobs \/ "final" \notin LateKinds

\* What an event does to the sessions: nothing, the end of the current one, or
\* one more, where none is waiting.
OneMore ==
  \/ UNCHANGED <<sess, retry>>
  \/ EndCur /\ UNCHANGED retry
  \/ \E n \in Sessions, st \in {"ending", sess[cur]} : retry = 0 /\ Opens(n, st)

\* However one event moves them, no session is left without a reader to come.
LEMMA OneMoreAlone ==
  ASSUME TypeOK, NoOrphan, cur \in Sessions, OneMore, UNCHANGED cur
  PROVE  NoOrphan'
<1>1. CASE UNCHANGED <<sess, retry>>
  BY <1>1 DEF NoOrphan
<1>2. CASE EndCur /\ UNCHANGED retry
  BY <1>2 DEF TypeOK, SessionTypes, NoOrphan, EndCur
<1>3. CASE \E n \in Sessions, st \in {"ending", sess[cur]} : retry = 0 /\ Opens(n, st)
  <2>1. PICK n \in Sessions, st \in {"ending", sess[cur]} :
          retry = 0 /\ sess' = [sess EXCEPT ![cur] = st, ![n] = "open"] /\ retry' = n
    BY <1>3 DEF Opens
  <2>2. \A m \in Sessions : m # cur /\ m # n => sess'[m] = sess[m]
    BY <2>1 DEF TypeOK, SessionTypes
  <2> QED
    BY <2>1, <2>2 DEF NoOrphan, Sessions
<1> QED
  BY <1>1, <1>2, <1>3 DEF OneMore

\* The session a note is written in starts behind the current one.
LEMMA NoteSessionMoves ==
  retry = 0 /\ OpenNoteSession("ending") => OneMore
BY DEF OpenNoteSession, OneMore, EndCur

\* No handler starts a session while another waits to take over.
LEMMA EmitMoves ==
  ASSUME OneWaits, WaitInv, Emit
  PROVE  OneMore /\ UNCHANGED <<job, pc, cur>>
<1>0. pc = "reading" /\ UNCHANGED <<job, pc, cur>>
  BY DEF Emit, Drained, Activity, Usage, RateLimited, Question,
         Denied, Asks, ModelLimit, Malformed, Breach, Blind, FinalDropped,
         SwitchModel, NoteAnswered, NoteRefused, ReplyAnswered, ReplyEmpty, Says,
         Waits, Judged, Heeded, Turn
<1> USE NoteSessionMoves
<1>1. CASE Drained
  BY <1>0, <1>1 DEF OneMore, Drained
<1>2. CASE Activity
  BY <1>0, <1>2 DEF OneMore, Activity
<1>3. CASE Usage
  <2>1. ASSUME NEW t, GiveUpNoteTurn(t) PROVE OneMore
    BY <2>1 DEF OneMore, GiveUpNoteTurn, FileNoteOnRunModel, Waiting
  <2>2. ASSUME NEW t, CapReply(t), ReplyCap > 0 PROVE OneMore
    BY <2>2 DEF OneMore, CapReply, ReplyCap, Waiting
  <2> QED
    BY <1>0, <1>3, <2>1, <2>2 DEF OneMore, Usage
<1>4. CASE RateLimited \/ Question
  BY <1>0, <1>4 DEF OneMore, RateLimited, Question, Waits, EndNoteTurn
<1>5. CASE Denied
  BY <1>0, <1>5 DEF OneMore, Denied, EndNoteTurn
<1>6. CASE Asks
  BY <1>0, <1>6 DEF OneMore, Asks, EndNoteTurn
<1>7. CASE ModelLimit
  BY <1>0, <1>7 DEF OneMore, ModelLimit, GiveUpNoteTurn, FileNoteOnRunModel, Waiting
<1>8. CASE Malformed \/ Breach \/ Blind \/ FinalDropped
  BY <1>0, <1>8 DEF OneMore, Malformed, Breach, Blind, FinalDropped
<1>9. CASE SwitchModel
  BY <1>0, <1>9 DEF OneMore, SwitchModel, Waiting
<1>10. CASE NoteAnswered
  BY <1>0, <1>10 DEF OneMore, NoteAnswered, DeliverSteers
<1>11. CASE NoteRefused
  BY <1>0, <1>11
     DEF OneMore, NoteRefused, FailTurn, FileNoteOnRunModel, GiveUpNoteTurn, AskAgain, Waiting
<1>12. CASE ReplyAnswered
  <2>1. CASE \E d \in Answers : Turn(d) /\ ReplyTurn /\ NoteAfter
    <3>1. "final" \notin LateKinds
      BY <2>1 DEF OneWaits, WaitInv, NoteAfter
    <3>2. retry = 0
      BY <2>1, <3>1 DEF WaitInv, Turn, Heeded, Judged, Says, Ignored, ReplyTurn
    <3> QED
      BY <1>0, <1>12, <3>2 DEF OneMore, ReplyAnswered, DeliverSteers, StartNoteTurn
  <2>2. CASE ~NoteAfter
    BY <1>0, <1>12, <2>2 DEF OneMore, ReplyAnswered, DeliverSteers
  <2> QED
    BY <1>12, <2>1, <2>2 DEF ReplyAnswered, Answers
<1>13. CASE ReplyEmpty
  <2>1. ASSUME NEW t, CapReply(t), ReplyCap > 0 PROVE OneMore
    BY <2>1 DEF OneMore, CapReply, ReplyCap, Waiting
  <2> QED
    BY <1>0, <1>13, <2>1 DEF OneMore, ReplyEmpty, FailTurn, AskAgain, Waiting
<1> QED
  BY <1>0, <1>1, <1>2, <1>3, <1>4, <1>5, <1>6, <1>7, <1>8, <1>9, <1>10, <1>11, <1>12, <1>13
     DEF Emit

\* A session that another waits behind has ended its turn, or was capped.
HasSaid ==
  retry # 0 /\ phase # "note" /\ "final" \notin LateKinds => cur \in said \/ capped = cur

\* A session is started behind one whose turn has ended, or that is capped; and
\* a turn that is owed again is a session's that nothing waits behind.
LEMMA EmitSaid ==
  ASSUME OneWaits, WaitInv, Emit
  PROVE  HasSaid'
<1> USE DEF WaitInv, HasSaid
<1>0. ASSUME UNCHANGED <<retry, cur, capped>>, said \subseteq said', phase' = phase
      PROVE  HasSaid'
  BY <1>0
<1>a. ASSUME Heeded("final"), phase # "note", "final" \notin LateKinds PROVE retry = 0
  BY <1>a DEF Heeded, Judged, Says, Ignored
<1>1. CASE Drained
  BY <1>0, <1>1 DEF Drained, Says
<1>2. CASE Activity
  BY <1>0, <1>2 DEF Activity, Heeded, Judged, Says
<1>3. CASE Usage
  BY <1>3 DEF Usage, Heeded, Judged, Says, GiveUpNoteTurn, FileNoteOnRunModel, CapReply, NoteTurn
<1>4. CASE RateLimited \/ Question
  BY <1>0, <1>4 DEF RateLimited, Question, Waits, EndNoteTurn, Heeded, Judged, Says
<1>5. CASE Denied
  BY <1>0, <1>5 DEF Denied, EndNoteTurn, Heeded, Judged, Says
<1>6. CASE Asks
  BY <1>0, <1>6 DEF Asks, EndNoteTurn, Heeded, Judged, Says
<1>7. CASE ModelLimit
  BY <1>7 DEF ModelLimit, NoteTurn, Heeded, Judged, Says
<1>8. CASE Malformed \/ Breach \/ Blind \/ FinalDropped
  BY <1>0, <1>8 DEF Malformed, Breach, Blind, FinalDropped, Heeded, Judged, Says, Ends
<1>9. CASE SwitchModel
  BY <1>9 DEF SwitchModel, Heeded, Judged, Says, Ends
<1>10. CASE NoteAnswered
  BY <1>10, <1>a DEF NoteAnswered, Turn, Heeded, Judged, Says, DeliverSteers, Ends
<1>11. CASE NoteRefused
  BY <1>11, <1>a
     DEF NoteRefused, Turn, Heeded, Judged, Says, Ends, NoteTurn, FailTurn, FileNoteOnRunModel,
         GiveUpNoteTurn, AskAgain, Opens
<1>12. CASE ReplyAnswered
  BY <1>12, <1>a
     DEF ReplyAnswered, Turn, Heeded, Judged, Says, Ends, DeliverSteers, StartNoteTurn
<1>13. CASE ReplyEmpty
  BY <1>13, <1>a
     DEF ReplyEmpty, Turn, Heeded, Judged, Says, Ends, FailTurn, AskAgain, CapReply, Opens
<1> QED
  BY <1>1, <1>2, <1>3, <1>4, <1>5, <1>6, <1>7, <1>8, <1>9, <1>10, <1>11, <1>12, <1>13
     DEF Emit

\* Between sessions the one that waited becomes the one that is read.
LEMMA WaitInvStep ==
  ASSUME OneWaits, TypeOK, WaitInv, Next
  PROVE  WaitInv'
<1> USE DEF WaitInv
<1>1. CASE Emit
  <2>1. pc = "reading"
    BY <1>1 DEF Emit, Drained, Activity, Usage, RateLimited, Question,
       Denied, Asks, ModelLimit, Malformed, Breach, Blind, FinalDropped,
       SwitchModel, NoteAnswered, NoteRefused, ReplyAnswered, ReplyEmpty, Says,
       Waits, Judged, Heeded, Turn
  <2>2. OneMore /\ UNCHANGED <<job, pc, cur>> /\ HasSaid'
    BY <1>1, EmitMoves, EmitSaid
  <2>3. NoOrphan'
    BY <2>1, <2>2, CurType, OneMoreAlone
  <2> QED
    BY <2>1, <2>2, <2>3 DEF HasSaid
<1> USE DEF NoOrphan
<1>2. CASE StartFails
  BY <1>2 DEF StartFails, Finish
<1>3. CASE Begin
  BY <1>3, BoundAssumption DEF Begin, TypeOK, SessionTypes, Sessions
<1>4. CASE StreamEnds
  BY <1>4, CurType DEF StreamEnds, TypeOK, SessionTypes
<1>5. CASE SwitchSession
  BY <1>5, CurType DEF SwitchSession, CancelIfFired, EndCur, TypeOK, SessionTypes
<1>6. CASE SeeInterrupt
  BY <1>6, CurType DEF SeeInterrupt, EndCur, TypeOK, SessionTypes
<1>7. CASE PickUpSteers
  BY <1>7 DEF PickUpSteers
<1>8. CASE Settle
  BY <1>8 DEF Settle
<1>9. CASE ClockFires \/ StallFires \/ StallStores
  BY <1>9 DEF ClockFires, StallFires, StallStores
<1>10. CASE ClockCancels \/ StallCancels
  <2>1. sess' = IF live # 0 /\ sess[live] = "open" THEN [sess EXCEPT ![live] = "ending"] ELSE sess
    BY <1>10 DEF ClockCancels, StallCancels, EndLive
  <2>2. \A n \in Sessions : sess'[n] = "open" => sess[n] = "open"
    BY <2>1 DEF TypeOK, SessionTypes
  <2>3. pc = "starting" => \A n \in Sessions : sess'[n] = "none"
    BY <2>1 DEF TypeOK, SessionTypes, RoleTypes, Ids, Sessions
  <2> QED
    BY <1>10, <2>2, <2>3 DEF ClockCancels, StallCancels
<1>11. CASE Interrupt \/ (\E q \in Steers : TypeSteer(q)) \/ Done
  BY <1>11 DEF Interrupt, TypeSteer, Done
<1> QED
  BY <1>1, <1>2, <1>3, <1>4, <1>5, <1>6, <1>7, <1>8, <1>9, <1>10, <1>11
     DEF Next, Reader, Timers, Operator

\* Every session started is read and reaped (execute.go:1819-1822), unless a
\* session may repeat its result in a run whose reply a note follows.
THEOREM NoSessionOrphaned == ASSUME OneWaits PROVE Spec => []NoOrphan
<1>1. Init => WaitInv
  BY DEF Init, WaitInv, NoOrphan
<1>2. WaitInv /\ UNCHANGED vars => WaitInv'
  BY DEF WaitInv, NoOrphan
<1>3. WaitInv => NoOrphan
  BY DEF WaitInv
<1>4. TypeOK /\ WaitInv /\ [Next]_vars => WaitInv'
  BY <1>2, WaitInvStep
<1> QED
  BY <1>1, <1>3, <1>4, TypeCorrect, PTL DEF Spec

-----------------------------------------------------------------------------
(* Notes and replies: what the verdict says of them, and how many there are. *)

Touched == {q \in Steers : steers[q] # "none"}

\* Most of what happens to an execution files nothing and settles nothing: the
\* answer it has, its phase and its verdict stay, and at most one instruction
\* more is on record.
Quiet ==
  /\ UNCHANGED <<job, refiled, answer, phase, steering, prev>>
  /\ pc' = "done" <=> pc = "done"
  /\ pc' = "starting" => pc = "starting"
  /\ pc = "done" => UNCHANGED <<status, why>>
  /\ \/ steers' \in {steers, PickedUp}
     \/ \E q \in Steers : steers[q] = "none" /\ steers' = [steers EXCEPT ![q] = "inbox"]

\* Only the two handlers that judge an answer, a start that fails and the
\* settling are not quiet.
LEMMA QuietNext ==
  ASSUME Next
  PROVE  Quiet \/ NoteAnswered \/ ReplyAnswered \/ StartFails \/ Settle
<1> USE DEF Quiet
<1>1. CASE Drained
  BY <1>1 DEF Drained, Says
<1>2. CASE Activity
  BY <1>2 DEF Activity, Heeded, Judged, Says
<1>3. CASE Usage
  BY <1>3 DEF Usage, Heeded, Judged, Says
<1>4. CASE RateLimited \/ Question
  BY <1>4 DEF RateLimited, Question, Waits, Heeded, Judged, Says
<1>5. CASE Denied \/ Asks
  BY <1>5 DEF Denied, Asks, Heeded, Judged, Says
<1>6. CASE ModelLimit
  BY <1>6 DEF ModelLimit, Heeded, Judged, Says
<1>7. CASE Malformed
  BY <1>7 DEF Malformed, Judged, Says
<1>8. CASE Breach \/ Blind \/ FinalDropped
  BY <1>8 DEF Breach, Blind, FinalDropped, Heeded, Judged, Says
<1>9. CASE SwitchModel
  BY <1>9 DEF SwitchModel, Heeded, Judged, Says
<1>10. CASE NoteRefused
  BY <1>10 DEF NoteRefused, Turn, Heeded, Judged, Says
<1>11. CASE ReplyEmpty
  BY <1>11 DEF ReplyEmpty, Turn, Heeded, Judged, Says
<1>12. CASE Begin
  BY <1>12 DEF Begin
<1>13. CASE StreamEnds
  BY <1>13 DEF StreamEnds
<1>14. CASE SwitchSession
  BY <1>14 DEF SwitchSession
<1>15. CASE SeeInterrupt
  BY <1>15 DEF SeeInterrupt
<1>16. CASE PickUpSteers
  BY <1>16 DEF PickUpSteers
<1>17. CASE ClockFires \/ ClockCancels \/ StallFires \/ StallStores \/ StallCancels
  BY <1>17 DEF ClockFires, ClockCancels, StallFires, StallStores, StallCancels
<1>18. CASE Interrupt
  BY <1>18 DEF Interrupt
<1>19. CASE \E q \in Steers : TypeSteer(q)
  BY <1>19 DEF TypeSteer
<1>20. CASE Done
  BY <1>20 DEF Done
<1> QED
  BY <1>1, <1>2, <1>3, <1>4, <1>5, <1>6, <1>7, <1>8, <1>9, <1>10, <1>11, <1>12, <1>13,
     <1>14, <1>15, <1>16, <1>17, <1>18, <1>19, <1>20
     DEF Next, Emit, Reader, Timers, Operator

\* An Update note is in the note phase until it settles, and the note it files
\* is the one it has.
RefileInv ==
  /\ refiled => job = "renote"
  /\ pc # "done" /\ job = "renote" =>
       /\ phase = "note" /\ ~steering
       /\ final # None /\ ~fileErr => notes
  /\ pc = "done" /\ refiled => notes

\* A run of a note is never in another phase, has no reply, and while nothing
\* sends it back to look again its note and its answer go together.
NoteInv ==
  /\ pc # "done" /\ job = "note" =>
       /\ phase = "main" /\ ~reply /\ ~steering
       /\ final # None /\ ~fileErr => notes
       /\ notes => final # None /\ (fileErr => TwoNotes)
  /\ CompletedHasNote /\ NoteMeansCompleted

\* In its note phase a run takes no instruction.
LEMMA NothingToDeliver ==
  phase = "note" \/ Steers = OtherModel => Deliverable = {}
BY DEF Deliverable

\* What a document that is judged and delivers no instruction leaves behind.
LEMMA NoteFiled ==
  ASSUME NoteAnswered, Deliverable = {}, ~steering
  PROVE  /\ pc = "reading" /\ ~ReplyTurn /\ final = None /\ final' # None
         /\ ~fileErr' => notes'
         /\ notes' => ~fileErr' \/ TwoNotes \/ notes
         /\ UNCHANGED <<job, refiled, status, pc, phase, reply, steering, why>>
<1>1. PICK d \in Docs, out \in Filings :
        /\ Turn(d) /\ ~ReplyTurn
        /\ notes' = IF Unchanged(d) THEN notes ELSE out # "none" \/ (notes /\ ~steering)
        /\ DeliverSteers(d) \/ (/\ final' = d /\ fileErr' = (out # "all" /\ ~Unchanged(d))
                                /\ UNCHANGED <<reply, steering, why, phase>>)
  BY DEF NoteAnswered
<1>2. /\ ~DeliverSteers(d) /\ ~Unchanged(d) /\ final = None
      /\ pc = "reading" /\ UNCHANGED <<job, refiled, status, pc>>
  BY <1>1 DEF DeliverSteers, Unchanged, Turn, Settled, Heeded, Judged, Says
<1>3. d # None /\ (out \notin {"all", "none"} => TwoNotes)
  BY NoneAssumption DEF Answers, Filings
<1> QED
  BY <1>1, <1>2, <1>3

\* The note that was set aside comes back unless another is filed.
LEMMA RefileInvStep == RefileInv /\ Next => RefileInv'
<1> SUFFICES ASSUME RefileInv, Next PROVE RefileInv'
  OBVIOUS
<1> USE DEF RefileInv
<1>1. CASE Quiet
  BY <1>1 DEF Quiet
<1>2. CASE NoteAnswered
  <2>1. CASE job = "renote"
    <3>1. pc = "reading"
      BY <1>2 DEF NoteAnswered, Turn, Heeded, Judged, Says
    <3> QED
      BY <1>2, <2>1, <3>1, NothingToDeliver, NoteFiled
  <2>2. CASE job # "renote"
    BY <1>2, <2>2 DEF NoteAnswered, Turn, Heeded, Judged, Says
  <2> QED
    BY <2>1, <2>2
<1>3. CASE ReplyAnswered
  BY <1>3 DEF ReplyAnswered, Turn, ReplyTurn, Heeded, Judged, Says
<1>4. CASE StartFails
  BY <1>4 DEF StartFails, Finish, Restored
<1>5. CASE Settle
  BY <1>5 DEF Settle, Restored
<1> QED
  BY <1>1, <1>2, <1>3, <1>4, <1>5, QuietNext

\* The verdict of a run of a note is the note's.
LEMMA NoteInvStep ==
  ASSUME Steers = OtherModel, TypeOK, AnswerInv, NoteInv, Next
  PROVE  NoteInv'
<1> USE DEF NoteInv, CompletedHasNote, NoteMeansCompleted, HalfFiled
<1>1. CASE Quiet
  BY <1>1 DEF Quiet
<1>2. CASE NoteAnswered
  <2>1. CASE job = "note"
    <3>1. pc = "reading"
      BY <1>2 DEF NoteAnswered, Turn, Heeded, Judged, Says
    <3> QED
      BY <1>2, <2>1, <3>1, NothingToDeliver, NoteFiled
  <2>2. CASE job # "note"
    BY <1>2, <2>2 DEF NoteAnswered, Turn, Heeded, Judged, Says
  <2> QED
    BY <2>1, <2>2
<1>3. CASE ReplyAnswered
  BY <1>3 DEF ReplyAnswered, Turn, ReplyTurn, Heeded, Judged, Says
<1>4. CASE StartFails
  BY <1>4 DEF StartFails, Finish, AnswerInv
<1>5. CASE Settle
  <2>1. CASE job = "note"
    <3>1. /\ status' = Verdict /\ phase = "main" /\ ~reply /\ notes' = notes
          /\ final # None /\ ~fileErr => notes
          /\ notes => final # None /\ (fileErr => TwoNotes)
          /\ UNCHANGED <<job, why, fileErr>>
      BY <1>5, <2>1 DEF Settle
    <3>2. Verdict = "completed" <=> why \cap {"breach", "blind"} = {} /\ final # None /\ ~fileErr
      BY <3>1 DEF Verdict
    <3> QED
      BY <1>5, <3>1, <3>2 DEF Settle
  <2>2. CASE job # "note"
    BY <1>5, <2>2 DEF Settle
  <2> QED
    BY <2>1, <2>2
<1> QED
  BY <1>1, <1>2, <1>3, <1>4, <1>5, QuietNext

\* Whatever becomes of an Update note, the run has a note when it has settled
\* if it had one to replace (keepRefiled).
THEOREM UpdateKeepsANote == Spec => [](pc = "done" /\ refiled => notes)
<1>1. Init => RefileInv
  BY DEF Init, RefileInv
<1>2. RefileInv /\ UNCHANGED vars => RefileInv'
  BY DEF RefileInv
<1>3. RefileInv => (pc = "done" /\ refiled => notes)
  BY DEF RefileInv
<1> QED
  BY <1>1, <1>2, <1>3, RefileInvStep, PTL DEF Spec

\* With no instruction to deliver mid-run, a note and its run's verdict agree.
THEOREM NotesAreKept == ASSUME Steers = OtherModel PROVE Spec => []NotesKept
<1>1. Init => NoteInv /\ AnswerInv
  BY NoneAssumption DEF Init, NoteInv, CompletedHasNote, NoteMeansCompleted, HalfFiled, AnswerInv
<1>2. (NoteInv /\ UNCHANGED vars => NoteInv') /\ (AnswerInv /\ UNCHANGED vars => AnswerInv')
  BY DEF NoteInv, CompletedHasNote, NoteMeansCompleted, HalfFiled, AnswerInv
<1>3. NoteInv /\ (pc = "done" /\ refiled => notes) => NotesKept
  BY DEF NoteInv, NotesKept
<1>4. TypeOK /\ AnswerInv /\ NoteInv /\ [Next]_vars => AnswerInv' /\ NoteInv'
  BY <1>2, NoteInvStep, AnswerInvStep
<1> QED
  BY <1>1, <1>3, <1>4, TypeCorrect, UpdateKeepsANote, PTL DEF Spec

-----------------------------------------------------------------------------
(* An answer is filed once and stands.                                      *)

\* The answers a run may file at most, and those it may file yet.
Allowed == IF NoteAfter THEN 2 ELSE 1
Owed ==
  IF ReplyTurn THEN (IF reply THEN 0 ELSE 1) + (IF NoteAfter THEN 1 ELSE 0)
  ELSE IF final = None THEN 1 ELSE 0

\* What is filed and what is owed never exceed what is allowed and one answer
\* for each instruction delivered; and in a run whose reply a note follows, a
\* reply no instruction asked for puts it in its note phase.
FiledInv ==
  /\ IsFiniteSet(Touched)
  /\ pc = "starting" => filed = 0
  /\ pc # "done" => filed + Owed <= Allowed + Cardinality(Delivered)
  /\ pc # "done" /\ NoteAfter /\ phase # "note" => filed <= Cardinality(Delivered)
  /\ AnswersStand

\* The instructions delivered are a finite number, known from those on record.
LEMMA DeliveredType ==
  IsFiniteSet(Touched) => IsFiniteSet(Delivered) /\ Cardinality(Delivered) \in Nat
<1> SUFFICES ASSUME IsFiniteSet(Touched) PROVE IsFiniteSet(Delivered) /\ Cardinality(Delivered) \in Nat
  OBVIOUS
<1>1. Delivered \in SUBSET Touched
  BY DEF Delivered, Touched
<1> QED
  BY <1>1, FS_Subset, FS_CardinalityType

\* One more instruction on record, or one picked up, leaves the count finite
\* and delivers nothing.
LEMMA QuietDelivers ==
  ASSUME TypeOK, IsFiniteSet(Touched), Quiet
  PROVE  IsFiniteSet(Touched') /\ Delivered' = Delivered
<1>1. CASE steers' \in {steers, PickedUp}
  <2>1. Touched' = Touched /\ Delivered' = Delivered
    BY <1>1 DEF Touched, Delivered, PickedUp
  <2> QED
    BY <2>1
<1>2. CASE \E q \in Steers : steers[q] = "none" /\ steers' = [steers EXCEPT ![q] = "inbox"]
  <2>1. PICK q \in Steers : steers[q] = "none" /\ steers' = [steers EXCEPT ![q] = "inbox"]
    BY <1>2
  <2>2. Touched' = Touched \cup {q} /\ Delivered' = Delivered
    BY <2>1 DEF TypeOK, StateTypes, Touched, Delivered
  <2> QED
    BY <2>2, FS_AddElement
<1> QED
  BY <1>1, <1>2 DEF Quiet

\* Instructions that go in as one message are at least one more delivered.
LEMMA DeliverCounts ==
  ASSUME IsFiniteSet(Touched), NEW d, DeliverSteers(d)
  PROVE  /\ IsFiniteSet(Touched')
         /\ Cardinality(Delivered') \in Nat
         /\ Cardinality(Delivered') >= Cardinality(Delivered) + 1
<1>1. Touched' = Touched
  BY DEF DeliverSteers, Deliverable, Pending, Touched, PickedUp
<1>2. IsFiniteSet(Delivered') /\ Cardinality(Delivered') \in Nat
  <2>1. Delivered' \in SUBSET Touched'
    BY DEF Delivered, Touched
  <2> QED
    BY <1>1, <2>1, FS_Subset, FS_CardinalityType
<1>3. Delivered \in SUBSET Delivered' /\ Delivered # Delivered'
  BY DEF DeliverSteers, Deliverable, Pending, Delivered, PickedUp
<1>4. Cardinality(Delivered) <= Cardinality(Delivered') /\ Cardinality(Delivered) # Cardinality(Delivered')
  BY <1>2, <1>3, FS_Subset
<1> QED
  BY <1>1, <1>2, <1>4, DeliveredType

\* With no delivery the instructions only move up the inbox.
LEMMA PickedUpCounts ==
  ASSUME IsFiniteSet(Touched), steers' \in {steers, PickedUp}
  PROVE  IsFiniteSet(Touched') /\ Delivered' = Delivered
<1>1. Touched' = Touched /\ Delivered' = Delivered
  BY DEF Touched, Delivered, PickedUp
<1> QED
  BY <1>1

\* Each step files at most what was owed, or owes one answer more for the
\* instructions it delivered.
LEMMA FiledInvStep ==
  ASSUME TypeOK, AnswerInv, FiledInv, Next
  PROVE  FiledInv'
<1>0. /\ filed \in Nat /\ Cardinality(Delivered) \in Nat /\ Allowed \in {1, 2}
      /\ Owed \in 0 .. 2 /\ IsFiniteSet(Touched)
  BY DeliveredType DEF TypeOK, CounterTypes, FiledInv, Allowed, Owed
<1> USE DEF FiledInv, AnswersStand, FiledOncePerAnswer, ReplySurvivesNoteTurn, Allowed
<1>1. CASE Quiet
  <2>1. IsFiniteSet(Touched') /\ Delivered' = Delivered /\ UNCHANGED <<filed, Owed, NoteAfter>>
    BY <1>0, <1>1, QuietDelivers DEF Quiet, Owed, ReplyTurn, NoteAfter
  <2> QED
    BY <1>0, <1>1, <2>1 DEF Quiet
<1>2. CASE NoteAnswered
  <2>1. PICK d \in Docs, out \in Filings :
          /\ Turn(d) /\ ~ReplyTurn
          /\ filed' = IF out # "none" /\ ~Unchanged(d) THEN filed + 1 ELSE filed
          /\ \/ DeliverSteers(d)
             \/ /\ final' = d /\ steers' = IF NoteTurn THEN steers ELSE PickedUp
                /\ UNCHANGED phase
    BY <1>2 DEF NoteAnswered
  <2>2. /\ pc = "reading" /\ pc' = "reading" /\ final = None /\ d # None
        /\ UNCHANGED <<job, NoteAfter, phase>> /\ filed' \in {filed, filed + 1}
    BY <1>2, <2>1, NoneAssumption DEF NoteAnswered, Turn, Settled, Heeded, Judged, Says,
       NoteAfter, DeliverSteers, Answers
  <2>3. ~ReplyTurn' /\ Owed = 1
    BY <2>1, <2>2 DEF ReplyTurn, Owed
  <2>4. NoteAfter => phase = "note"
    BY <2>1 DEF ReplyTurn, NoteAfter
  <2>5. CASE DeliverSteers(d)
    <3>1. /\ IsFiniteSet(Touched') /\ Cardinality(Delivered') \in Nat
          /\ Cardinality(Delivered') >= Cardinality(Delivered) + 1
      BY <1>0, <2>5, DeliverCounts
    <3>2. Owed' \in {0, 1}
      BY <2>3 DEF Owed
    <3> QED
      BY <1>0, <2>2, <2>3, <2>4, <3>1, <3>2
  <2>6. CASE final' = d /\ steers' \in {steers, PickedUp}
    <3>1. Owed' = 0
      BY <2>2, <2>3, <2>6 DEF Owed
    <3> QED
      BY <1>0, <2>2, <2>3, <2>4, <2>6, <3>1, PickedUpCounts
  <2> QED
    BY <2>1, <2>5, <2>6
<1>3. CASE ReplyAnswered
  <2>1. PICK d \in Docs \cup {Bad}, ok \in BOOLEAN :
          /\ Turn(d) /\ ReplyTurn
          /\ filed' = IF ok THEN filed + 1 ELSE filed
          /\ \/ ok /\ DeliverSteers(None)
             \/ /\ reply' = TRUE /\ steers' \in {steers, PickedUp}
                /\ \/ ok /\ NoteAfter /\ phase' = "note"
                   \/ ~(ok /\ NoteAfter) /\ UNCHANGED phase
    BY <1>3 DEF ReplyAnswered, StartNoteTurn
  <2>2. /\ pc = "reading" /\ pc' = "reading" /\ ~reply
        /\ UNCHANGED <<job, NoteAfter>> /\ filed' \in {filed, filed + 1}
    BY <2>1 DEF Turn, Settled, Heeded, Judged, Says, NoteAfter
  <2>3. Owed = 1 + (IF NoteAfter THEN 1 ELSE 0) /\ phase # "note"
    BY <2>1, <2>2 DEF Owed, ReplyTurn
  <2>4. CASE DeliverSteers(None)
    <3>1. /\ IsFiniteSet(Touched') /\ Cardinality(Delivered') \in Nat
          /\ Cardinality(Delivered') >= Cardinality(Delivered) + 1
      BY <1>0, <2>4, DeliverCounts
    <3>2. phase' = phase /\ Owed' = Owed
      BY <2>1, <2>2, <2>3, <2>4 DEF DeliverSteers, Owed, ReplyTurn
    <3> QED
      BY <1>0, <2>2, <2>3, <3>1, <3>2
  <2>5. CASE /\ reply' = TRUE /\ steers' \in {steers, PickedUp}
             /\ \/ ok /\ NoteAfter /\ phase' = "note"
                \/ ~(ok /\ NoteAfter) /\ UNCHANGED phase
    <3>1. IsFiniteSet(Touched') /\ Delivered' = Delivered
      BY <1>0, <2>5, PickedUpCounts
    <3>2. Owed' <= (IF NoteAfter THEN 1 ELSE 0) /\ Owed' \in 0 .. 2
      BY <2>1, <2>2, <2>5 DEF Owed, ReplyTurn, NoteAfter
    <3> QED
      BY <1>0, <2>1, <2>2, <2>3, <2>5, <3>1, <3>2
  <2> QED
    BY <2>1, <2>4, <2>5
<1>4. CASE StartFails
  <2>1. /\ pc = "starting" /\ pc' = "done" /\ filed' = filed /\ filed = 0
        /\ steers' = steers /\ UNCHANGED <<job, NoteAfter>>
    BY <1>4 DEF StartFails, Finish, NoteAfter
  <2> QED
    BY <1>0, <2>1, PickedUpCounts
<1>5. CASE Settle
  <2>1. /\ pc = "settling" /\ pc' = "done" /\ status' = Verdict
        /\ UNCHANGED <<job, NoteAfter, filed, why>>
    BY <1>5 DEF Settle, NoteAfter
  <2>2. Touched' = Touched /\ Delivered' = Delivered
    BY <1>5 DEF Settle, Touched, Delivered
  <2>3. phase = "note" /\ "breach" \notin why => Verdict = "completed"
    BY DEF Verdict
  <2> QED
    BY <1>0, <2>1, <2>2, <2>3
<1> QED
  BY <1>1, <1>2, <1>3, <1>4, <1>5, QuietNext

\* However often a session repeats its result, one note and one reply are filed
\* and one more answer for every instruction delivered; and a reply that is
\* stored completes the run unless a breach is reported (execute.go:586-596).
THEOREM AnswersStay == Spec => []AnswersStand
<1>1. Init => FiledInv /\ AnswerInv
  <2> SUFFICES ASSUME Init PROVE FiledInv /\ AnswerInv
    OBVIOUS
  <2>1. Touched = {} /\ Delivered = {}
    BY DEF Init, Touched, Delivered
  <2>2. IsFiniteSet(Touched) /\ Cardinality(Delivered) = 0
    BY <2>1, FS_EmptySet
  <2>3. Owed <= Allowed /\ Owed \in 0 .. 2
    BY NoneAssumption DEF Init, Owed, Allowed, ReplyTurn, NoteAfter
  <2> QED
    BY <2>2, <2>3 DEF Init, FiledInv, AnswerInv, AnswersStand, FiledOncePerAnswer,
       ReplySurvivesNoteTurn, Allowed
<1>2. FiledInv /\ UNCHANGED vars => FiledInv'
  BY DEF FiledInv, AnswersStand, FiledOncePerAnswer, ReplySurvivesNoteTurn, Allowed, Owed,
     ReplyTurn, NoteAfter, Touched, Delivered
<1>3. AnswerInv /\ UNCHANGED vars => AnswerInv'
  BY DEF AnswerInv
<1>4. FiledInv => AnswersStand
  BY DEF FiledInv
<1>5. TypeOK /\ AnswerInv /\ FiledInv /\ [Next]_vars => AnswerInv' /\ FiledInv'
  BY <1>2, <1>3, FiledInvStep, AnswerInvStep
<1> QED
  BY <1>1, <1>4, <1>5, TypeCorrect, PTL DEF Spec

=============================================================================
