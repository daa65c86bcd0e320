-------------------------- MODULE AcpSessionProofs --------------------------
(***************************************************************************)
(* What holds of a session for every number of turns and pieces of text:   *)
(* the types, that a turn is handed over before its end is, and that an    *)
(* accepted message is put to the agent.  The invariant has four parts:    *)
(* one request at a time (Asked), nothing of the queue lost (Counted), a   *)
(* pump that is past a turn only while none is under way (Settled), and    *)
(* each accepted message in one place (Sends).                             *)
(***************************************************************************)
EXTENDS AcpSession, TLAPS

USE DEF vars, process, reading, driving, buffer, pumping, calling, ghosts, Goes, Still

-----------------------------------------------------------------------------
(* The invariant.                                                           *)

Replying == \E i \in DOMAIN wire : wire[i] # "chunk"

\* One request at a time: the agent has it, or its reply is on the way to a
\* driver that waits for it, unless the handshake was given up; what is being
\* written is what the driver is about to wait for.
Asked ==
    /\ request # "none" => ~Replying
    /\ request # "none" \/ Replying => (Waiting /\ writing = "none") \/ stopped
    /\ \A i, j \in DOMAIN wire : wire[i] # "chunk" /\ wire[j] # "chunk" => i = j
    /\ request = "prompt" => driver = "asked"
    /\ /\ writing = "init" => driver = "init"
       /\ writing = "new" => driver = "new"
       /\ writing = "prompt" => driver = "asked"
    /\ agent # "up" => request = "none"
    /\ stopped => driver = "out" /\ request # "prompt"

\* What was queued was handed over, is queued still, or is in the pump's hand.
Counted ==
    /\ hand # "none" <=> pump = "hand"
    /\ accepted.turns <= accepted.all
    /\ stopped \/ shown + Len(queue) + (IF pump = "hand" THEN 1 ELSE 0) = accepted.all

\* A pump at a turn's end, and a driver that waits for the next.
Between == pump \in {"barrier", "ended", "recheck", "unanswered", "resume"}
Settled ==
    /\ turnEnd => turn.over /\ (driver = "idle" \/ (driver = "out" /\ pump = "out"))
    /\ Between => turn.over /\ driver = "idle"
    /\ pump = "resume" => ~turnEnd
    /\ pump = "out" => closed \/ stopped \/ (turn.over /\ driver \in {"idle", "out"})
    /\ Between /\ ~stopped => shown >= accepted.turns
    /\ TurnIsShown

\* Where an accepted message is: in sendCh, in the pump's hands, with the
\* driver, or begun.
One(b) == IF b THEN 1 ELSE 0
Begun == turn.no + One(sent) + One(pump = "resume") + One(driver \in {"init", "new", "begins"})
Sends ==
    /\ sends + 1 <= MaxTurns
    /\ Begun <= 1 + sends
    /\ closed \/ stopped \/ Begun = 1 + sends
    /\ pump \in {"recheck", "unanswered"} => caller # "final"
    /\ pump = "unanswered" => ~sent
    /\ pump = "out" => closed \/ stopped \/ (~sent /\ caller # "final")

Shapes == ReaderTypes /\ DriverTypes /\ PumpTypes /\ CallerTypes
AcpInv == Shapes /\ Asked /\ Counted /\ Settled /\ Sends

-----------------------------------------------------------------------------
(* The shapes.                                                              *)

LEMMA PushTypes ==
  ASSUME PumpTypes, NEW ev \in Events, Push(ev)
  PROVE queue' \in Seq(Events) /\ accepted' \in [all : Nat, turns : Nat]
<1>1. accepted.all \in Nat /\ accepted.turns \in Nat /\ accepted.all + 1 \in Nat
  BY DEF PumpTypes
<1>2. CASE closed
  BY <1>2 DEF PumpTypes, Push
<1>3. CASE ~closed
  <2>1. queue' = Append(queue, ev)
    BY <1>3 DEF Push
  <2>2. accepted' = [all |-> accepted.all + 1,
                     turns |-> IF turn.over THEN accepted.turns ELSE accepted.all + 1]
    BY <1>3 DEF Push
  <2> QED
    BY <1>1, <2>1, <2>2 DEF PumpTypes
<1> QED
  BY <1>2, <1>3

LEMMA NextShapes == Shapes /\ Counted /\ Sends /\ [Next]_vars => Shapes'
<1> SUFFICES ASSUME Shapes, Counted, Sends, [Next]_vars PROVE Shapes'
  OBVIOUS
<1> USE DEF Shapes, Events, Lines
<1>1. CASE Says
  BY <1>1, AcpAssumption DEF Says, ReaderTypes, DriverTypes, PumpTypes, CallerTypes
<1>2. CASE Replies
  BY <1>2 DEF Replies, ReaderTypes, DriverTypes, PumpTypes, CallerTypes
<1>3. CASE Exits
  <2>1. ReaderTypes'
    BY <1>3 DEF Exits, Dies, ReaderTypes
  <2>2. DriverTypes' /\ PumpTypes' /\ CallerTypes'
    BY <1>3 DEF Exits, DriverTypes, PumpTypes, CallerTypes
  <2> QED
    BY <2>1, <2>2
<1>4. CASE ReadsOn
  <2>1. ReaderTypes'
    BY <1>4 DEF ReadsOn, ReaderTypes
  <2>2. DriverTypes'
    <3>1. Head(wire) \in Lines
      BY <1>4 DEF ReadsOn, ReaderTypes
    <3>2. box' \in {"none", "done", "short", "error"} /\ text' \in BOOLEAN
      BY <1>4, <3>1 DEF ReadsOn, Deliver, DriverTypes
    <3> QED
      BY <1>4, <3>2 DEF ReadsOn, DriverTypes
  <2>3. PumpTypes'
    <3>1. "note" \in Events
      BY <1>4
    <3>2. CASE Push("note")
      <4>1. queue' \in Seq(Events) /\ accepted' \in [all : Nat, turns : Nat]
        BY <3>1, <3>2, PushTypes
      <4> QED
        BY <1>4, <4>1 DEF ReadsOn, PumpTypes
    <3> QED
      BY <1>4, <3>2 DEF ReadsOn, PumpTypes
  <2>4. CallerTypes'
    BY <1>4 DEF ReadsOn, CallerTypes
  <2> QED
    BY <2>1, <2>2, <2>3, <2>4
<1>5. CASE Eof
  <2>1. ReaderTypes'
    BY <1>5 DEF Eof, ReaderTypes
  <2>2. DriverTypes'
    BY <1>5 DEF Eof, Deliver, DriverTypes
  <2>3. PumpTypes'
    BY <1>5 DEF Eof, PumpTypes
  <2>4. CallerTypes'
    BY <1>5 DEF Eof, CallerTypes
  <2> QED
    BY <2>1, <2>2, <2>3, <2>4
<1>6. CASE EndsStream
  BY <1>6 DEF EndsStream, ReaderTypes, DriverTypes, PumpTypes, CallerTypes
<1>7. CASE Reap
  BY <1>7 DEF Reap, ReaderTypes, DriverTypes, PumpTypes, CallerTypes
<1>8. CASE Initialized
  <2>1. ReaderTypes'
    BY <1>8 DEF Initialized, Calls, ReaderTypes
  <2>2. DriverTypes'
    BY <1>8 DEF Initialized, Calls, DriverTypes
  <2>3. PumpTypes'
    <3>1. "note" \in Events
      BY <1>8
    <3>2. CASE Push("note")
      <4>1. queue' \in Seq(Events) /\ accepted' \in [all : Nat, turns : Nat]
        BY <3>1, <3>2, PushTypes
      <4> QED
        BY <1>8, <4>1 DEF Initialized, PumpTypes
    <3> QED
      BY <1>8, <3>2 DEF Initialized
  <2>4. CallerTypes'
    BY <1>8 DEF Initialized, CallerTypes
  <2> QED
    BY <2>1, <2>2, <2>3, <2>4
<1>9. CASE Opened
  BY <1>9 DEF Opened, ReaderTypes, DriverTypes, PumpTypes, CallerTypes
<1>10. CASE Refused
  BY <1>10 DEF Refused, Released, ReaderTypes, DriverTypes, PumpTypes, CallerTypes
<1>11. CASE Begins
  <2>1. ReaderTypes'
    BY <1>11 DEF Begins, Calls, ReaderTypes
  <2>2. DriverTypes'
    <3>1. turn.no + 1 \in 0 .. MaxTurns
      BY <1>11, AcpAssumption DEF Begins, Sends, Begun, One, DriverTypes, CallerTypes
    <3>2. turn' \in [no : 0 .. MaxTurns, over : BOOLEAN]
      BY <1>11, <3>1 DEF Begins
    <3>3. box' \in {"none", "done", "short", "error"}
      BY <1>11 DEF Begins, Calls
    <3> QED
      BY <1>11, <3>2, <3>3 DEF Begins, Calls, DriverTypes
  <2>3. PumpTypes'
    BY <1>11 DEF Begins, PumpTypes
  <2>4. CallerTypes'
    BY <1>11 DEF Begins, CallerTypes
  <2> QED
    BY <2>1, <2>2, <2>3, <2>4
<1>12. CASE Finishes
  <2>1. ReaderTypes'
    BY <1>12 DEF Finishes, ReaderTypes
  <2>2. DriverTypes'
    <3>1. ASSUME NEW kind \in {"empty", "prose", "json"}, Reads(kind)
          PROVE answers' \in [empty : BOOLEAN, prose : BOOLEAN, json : BOOLEAN]
      BY <3>1 DEF Reads, DriverTypes
    <3>2. answers' \in [empty : BOOLEAN, prose : BOOLEAN, json : BOOLEAN]
      BY <1>12, <3>1 DEF Finishes, DriverTypes
    <3>3. tells' \in Seq(Events)
      <4>1. tells' = <<"note", "final">> \/ tells' = <<"note">>
        BY <1>12 DEF Finishes
      <4>2. \A a, b \in Events : <<a>> \in Seq(Events) /\ <<a, b>> \in Seq(Events)
        OBVIOUS
      <4> QED
        BY <4>1, <4>2
    <3> QED
      BY <1>12, <3>2, <3>3 DEF Finishes, DriverTypes
  <2>3. PumpTypes'
    BY <1>12 DEF Finishes, PumpTypes
  <2>4. CallerTypes'
    BY <1>12 DEF Finishes, CallerTypes
  <2> QED
    BY <2>1, <2>2, <2>3, <2>4
<1>13. CASE Tells
  <2>1. ReaderTypes'
    BY <1>13 DEF Tells, ReaderTypes
  <2>2. DriverTypes'
    BY <1>13 DEF Tells, DriverTypes
  <2>3. PumpTypes'
    <3>1. Head(tells) \in Events
      BY <1>13 DEF Tells, DriverTypes
    <3>2. CASE Push(Head(tells))
      <4>1. queue' \in Seq(Events) /\ accepted' \in [all : Nat, turns : Nat]
        BY <3>1, <3>2, PushTypes
      <4> QED
        BY <1>13, <4>1 DEF Tells, PumpTypes
    <3> QED
      BY <1>13, <3>2 DEF Tells
  <2>4. CallerTypes'
    BY <1>13 DEF Tells, CallerTypes
  <2> QED
    BY <2>1, <2>2, <2>3, <2>4
<1>14. CASE EndTurn
  <2>1. ReaderTypes'
    BY <1>14 DEF EndTurn, ReaderTypes
  <2>2. DriverTypes'
    BY <1>14 DEF EndTurn, DriverTypes
  <2>3. PumpTypes'
    BY <1>14 DEF EndTurn, PumpTypes
  <2>4. CallerTypes'
    BY <1>14 DEF EndTurn, CallerTypes
  <2> QED
    BY <2>1, <2>2, <2>3, <2>4
<1>15. CASE DriverEnds
  BY <1>15 DEF DriverEnds, ReaderTypes, DriverTypes, PumpTypes, CallerTypes
<1>16. CASE Shows
  <2>1. ReaderTypes'
    BY <1>16 DEF Shows, ReaderTypes
  <2>2. DriverTypes'
    BY <1>16 DEF Shows, DriverTypes
  <2>3. PumpTypes'
    <3>1. queue # << >> => Head(queue) \in Events /\ Tail(queue) \in Seq(Events)
      BY DEF PumpTypes
    <3>2. queue' \in Seq(Events) /\ hand' \in Events \cup {"none"}
      BY <1>16, <3>1 DEF Shows, NextOf, PumpTypes
    <3>3. pump' \in {"hand", "barrier", "out"}
      BY <1>16 DEF Shows, NextOf
    <3> QED
      BY <1>16, <3>2, <3>3 DEF Shows, PumpTypes
  <2>4. CallerTypes'
    BY <1>16 DEF Shows, CallerTypes
  <2> QED
    BY <2>1, <2>2, <2>3, <2>4
<1>17. CASE HandsOver
  <2>1. ReaderTypes'
    BY <1>17 DEF HandsOver, ReaderTypes
  <2>2. DriverTypes'
    BY <1>17 DEF HandsOver, DriverTypes
  <2>3. PumpTypes'
    BY <1>17 DEF HandsOver, Hands, PumpTypes
  <2>4. CallerTypes'
    BY <1>17 DEF HandsOver, Hands, CallerTypes, PumpTypes, Counted
  <2> QED
    BY <2>1, <2>2, <2>3, <2>4
<1>18. CASE Barrier
  <2>1. ReaderTypes'
    BY <1>18 DEF Barrier, ReaderTypes
  <2>2. DriverTypes'
    BY <1>18 DEF Barrier, DriverTypes
  <2>3. PumpTypes'
    BY <1>18 DEF Barrier, Resumes, PumpTypes
  <2>4. CallerTypes'
    BY <1>18 DEF Barrier, Resumes, CallerTypes
  <2> QED
    BY <2>1, <2>2, <2>3, <2>4
<1>19. CASE LastEvent
  <2>1. ReaderTypes'
    BY <1>19 DEF LastEvent, ReaderTypes
  <2>2. DriverTypes'
    BY <1>19 DEF LastEvent, DriverTypes
  <2>3. PumpTypes'
    BY <1>19 DEF LastEvent, Resumes, Hands, Abandoned, PumpTypes
  <2>4. CallerTypes'
    BY <1>19 DEF LastEvent, Resumes, Hands, CallerTypes
  <2> QED
    BY <2>1, <2>2, <2>3, <2>4
<1>20. CASE Recheck
  <2>1. ReaderTypes'
    BY <1>20 DEF Recheck, SecondLook, Unanswered, ReaderTypes
  <2>2. DriverTypes'
    BY <1>20 DEF Recheck, SecondLook, Unanswered, DriverTypes
  <2>3. PumpTypes'
    BY <1>20 DEF Recheck, SecondLook, Resumes, Unanswered, PumpTypes
  <2>4. CallerTypes'
    BY <1>20 DEF Recheck, SecondLook, Resumes, Unanswered, CallerTypes
  <2> QED
    BY <2>1, <2>2, <2>3, <2>4
<1>21. CASE TellsUnanswered
  BY <1>21 DEF TellsUnanswered, Hands, Abandoned, ReaderTypes, DriverTypes, PumpTypes,
      CallerTypes
<1>22. CASE HandsTurn
  BY <1>22 DEF HandsTurn, Abandoned, ReaderTypes, DriverTypes, PumpTypes, CallerTypes
<1>23. CASE Back
  BY <1>23 DEF Back, ReaderTypes, DriverTypes, PumpTypes, CallerTypes
<1>24. CASE Drained
  BY <1>24 DEF Drained, ReaderTypes, DriverTypes, PumpTypes, CallerTypes
<1>25. CASE Wait
  BY <1>25 DEF Wait, ReaderTypes, DriverTypes, PumpTypes, CallerTypes
<1>26. CASE ShutdownKills
  <2>1. ReaderTypes'
    BY <1>26 DEF ShutdownKills, Dies, ReaderTypes
  <2>2. DriverTypes' /\ PumpTypes' /\ CallerTypes'
    BY <1>26 DEF ShutdownKills, DriverTypes, PumpTypes, CallerTypes
  <2> QED
    BY <2>1, <2>2
<1>27. CASE ShutdownEnds
  BY <1>27 DEF ShutdownEnds, Ending, ReaderTypes, DriverTypes, PumpTypes, CallerTypes
<1>28. CASE Aborted
  BY <1>28 DEF Aborted, ReaderTypes, DriverTypes, PumpTypes, CallerTypes
<1>29. CASE Send
  BY <1>29 DEF Send, Sends, ReaderTypes, DriverTypes, PumpTypes, CallerTypes
<1>30. CASE CloseInput
  BY <1>30 DEF CloseInput, ReaderTypes, DriverTypes, PumpTypes, CallerTypes
<1>31. CASE Cancel
  BY <1>31 DEF Cancel, ReaderTypes, DriverTypes, PumpTypes, CallerTypes
<1>32. CASE GivesUp
  BY <1>32 DEF GivesUp, ReaderTypes, DriverTypes, PumpTypes, CallerTypes
<1>33. CASE Kill
  <2>1. ReaderTypes'
    BY <1>33 DEF Kill, Dies, ReaderTypes
  <2>2. DriverTypes' /\ PumpTypes' /\ CallerTypes'
    BY <1>33 DEF Kill, DriverTypes, PumpTypes, CallerTypes
  <2> QED
    BY <2>1, <2>2
<1>34. CASE UNCHANGED vars
  BY <1>34 DEF ReaderTypes, DriverTypes, PumpTypes, CallerTypes
<1>35. CASE TurnsEar
  BY <1>35 DEF TurnsEar, ReaderTypes, DriverTypes, PumpTypes, CallerTypes
<1>36. CASE Puts
  <2>1. ReaderTypes'
    BY <1>36 DEF Puts, ReaderTypes, DriverTypes
  <2>2. DriverTypes'
    BY <1>36 DEF Puts, DriverTypes
  <2>3. PumpTypes'
    BY <1>36 DEF Puts, PumpTypes
  <2>4. CallerTypes'
    BY <1>36 DEF Puts, CallerTypes
  <2> QED
    BY <2>1, <2>2, <2>3, <2>4
<1>37. CASE Notified
  BY <1>37 DEF Notified, ReaderTypes, DriverTypes, PumpTypes, CallerTypes
<1>38. CASE CancelsItself
  BY <1>38 DEF CancelsItself, ReaderTypes, DriverTypes, PumpTypes, CallerTypes
<1>39. CASE CancelReturns
  BY <1>39 DEF CancelReturns, ReaderTypes, DriverTypes, PumpTypes, CallerTypes
<1> QED
  BY <1>1, <1>2, <1>3, <1>4, <1>5, <1>6, <1>7, <1>8, <1>9, <1>10, <1>11, <1>12, <1>13,
      <1>14, <1>15, <1>16, <1>17, <1>18, <1>19, <1>20, <1>21, <1>22, <1>23, <1>24, <1>25,
      <1>26, <1>27, <1>28, <1>29, <1>30, <1>31, <1>32, <1>33, <1>34, <1>35, <1>36, <1>37, <1>38, <1>39 DEF Next,
      Agent, Reader, Driver, Pump, Moving, Caller, Timer

-----------------------------------------------------------------------------
(* The other parts, action by action.                                       *)

LEMMA NextAsked == Shapes /\ Asked /\ [Next]_vars => Asked'
<1> SUFFICES ASSUME Shapes, Asked, [Next]_vars PROVE Asked'
  OBVIOUS
<1>1. CASE Says
  BY <1>1 DEF Says, Asked, Replying, Waiting, Lines
<1>2. CASE Replies
  BY <1>2 DEF Replies, Asked, Replying, Waiting, Lines
<1>3. CASE Exits
  BY <1>3 DEF Exits, Dies, Asked, Replying, Waiting, Lines
<1>4. CASE ReadsOn
  <2>1. CASE Head(wire) = "chunk"
    BY <2>1, <1>4 DEF ReadsOn, Asked, Replying, Waiting, Lines
  <2>2. CASE Head(wire) # "chunk"
    <3>1. request = "none" /\ ~Replying'
      BY <2>2, <1>4 DEF ReadsOn, Asked, Replying, Lines
    <3> QED
      BY <2>2, <3>1, <1>4 DEF ReadsOn, Asked, Replying
  <2> QED
    BY <2>1, <2>2
<1>5. CASE Eof
  BY <1>5 DEF Eof, Asked, Replying, Lines
<1>6. CASE Initialized
  BY <1>6 DEF Initialized, Calls, Asked, Replying, Waiting, Lines
<1>7. CASE Opened
  BY <1>7 DEF Opened, Asked, Replying, Waiting, Lines
<1>8. CASE Refused
  BY <1>8 DEF Refused, Released, Asked, Replying, Lines
<1>9. CASE Begins
  BY <1>9 DEF Begins, Calls, Asked, Replying, Waiting, Lines
<1>10. CASE Finishes
  BY <1>10 DEF Finishes, Asked, Replying, Waiting, Lines
<1>11. CASE EndTurn
  BY <1>11 DEF EndTurn, Asked, Replying, Waiting, Lines
<1>12. CASE DriverEnds
  BY <1>12 DEF DriverEnds, Asked, Replying, Waiting, Lines
<1>13. CASE HandsTurn
  BY <1>13 DEF HandsTurn, Asked, Replying, Waiting, Lines
<1>14. CASE ShutdownKills
  BY <1>14 DEF ShutdownKills, Dies, Ending, Asked, Replying, Waiting, Lines
<1>15. CASE Kill
  BY <1>15 DEF Kill, Dies, Asked, Replying, Waiting, Lines
<1>17. CASE Puts
  BY <1>17 DEF Puts, Takes, Asked, Replying, Waiting, Shapes, DriverTypes
<1>18. CASE TurnsEar \/ Notified \/ CancelsItself \/ CancelReturns
  BY <1>18 DEF TurnsEar, Notified, CancelsItself, CancelReturns, Asked, Replying, Waiting
<1>16. CASE EndsStream \/ Reap \/ Tells \/ Shows \/ HandsOver \/ Barrier \/ LastEvent \/
      Recheck \/ TellsUnanswered \/ Back \/ Drained \/ Wait \/ ShutdownEnds \/ Aborted \/
      Send \/ CloseInput \/ Cancel \/ GivesUp \/ UNCHANGED vars
  BY <1>16 DEF EndsStream, Reap, Tells, Shows, HandsOver, Barrier, LastEvent, Recheck,
      TellsUnanswered, Back, Drained, Wait, ShutdownEnds, Aborted, Send, CloseInput,
      Cancel, GivesUp, SecondLook, Unanswered, Ending, Asked, Replying, Waiting
<1> QED
  BY <1>1, <1>2, <1>3, <1>4, <1>5, <1>6, <1>7, <1>8, <1>9, <1>10, <1>11, <1>12, <1>13,
      <1>14, <1>15, <1>16, <1>17, <1>18 DEF Next, Agent, Reader, Driver, Pump, Moving,
      Caller, Timer

LEMMA PushCounts ==
  ASSUME PumpTypes, accepted.turns <= accepted.all, NEW ev \in Events, Push(ev)
  PROVE /\ accepted'.turns <= accepted'.all
        /\ accepted'.all - Len(queue') = accepted.all - Len(queue)
<1>1. accepted.all \in Nat /\ accepted.turns \in Nat /\ queue \in Seq(Events)
  BY DEF PumpTypes
<1>2. CASE closed
  BY <1>1, <1>2 DEF Push
<1>3. CASE ~closed
  <2>1. accepted'.all = accepted.all + 1 /\ accepted'.turns <= accepted.all + 1
    BY <1>1, <1>3 DEF Push
  <2>2. Len(queue') = Len(queue) + 1
    BY <1>1, <1>3 DEF Push
  <2>3. Len(queue) \in Nat
    BY <1>1
  <2> QED
    BY <1>1, <2>1, <2>2, <2>3
<1> QED
  BY <1>2, <1>3

LEMMA NextCounted == Shapes /\ Counted /\ Sends /\ [Next]_vars => Counted'
<1> SUFFICES ASSUME Shapes, Counted, Sends, [Next]_vars PROVE Counted'
  OBVIOUS
<1>1. CASE ReadsOn
  <2>1. accepted'.turns <= accepted'.all /\
        accepted'.all - Len(queue') = accepted.all - Len(queue)
    BY <1>1, PushCounts DEF ReadsOn, Counted, Events, Shapes
  <2>2. accepted.all \in Nat /\ accepted'.all \in Nat /\ Len(queue) \in Nat /\
        Len(queue') \in Nat /\ shown \in Nat
    BY <1>1, NextShapes DEF Next, Reader, Shapes, PumpTypes
  <2> QED
    BY <1>1, <2>1, <2>2 DEF ReadsOn, Counted
<1>2. CASE Initialized
  <2>1. accepted'.turns <= accepted'.all /\
        accepted'.all - Len(queue') = accepted.all - Len(queue)
    BY <1>2, PushCounts DEF Initialized, Counted, Events, Shapes
  <2>2. accepted.all \in Nat /\ accepted'.all \in Nat /\ Len(queue) \in Nat /\
        Len(queue') \in Nat /\ shown \in Nat
    BY <1>2, NextShapes DEF Next, Driver, Shapes, PumpTypes
  <2> QED
    BY <1>2, <2>1, <2>2 DEF Initialized, Counted
<1>3. CASE Refused
  BY <1>3 DEF Refused, Released, Counted, Events
<1>4. CASE Tells
  BY <1>4 DEF Tells, Push, Counted, Shapes, PumpTypes
<1>5. CASE Shows
  BY <1>5 DEF Shows, NextOf, Counted, Events, Shapes, PumpTypes
<1>6. CASE HandsOver
  BY <1>6 DEF HandsOver, Hands, Counted, Shapes, PumpTypes
<1>7. CASE Barrier
  BY <1>7 DEF Barrier, Resumes, Counted, Events
<1>8. CASE LastEvent
  BY <1>8 DEF LastEvent, Resumes, Hands, Abandoned, Counted, Events
<1>9. CASE Recheck
  BY <1>9 DEF Recheck, SecondLook, Resumes, Unanswered, Counted, Events
<1>10. CASE TellsUnanswered
  BY <1>10 DEF TellsUnanswered, Hands, Abandoned, Counted, Events
<1>11. CASE HandsTurn
  BY <1>11 DEF HandsTurn, Abandoned, Counted, Events
<1>12. CASE TurnsEar \/ Puts \/ Notified \/ CancelsItself \/ CancelReturns \/
      Says \/ Replies \/ Exits \/ Eof \/ EndsStream \/ Reap \/ Opened \/ Begins \/
      Finishes \/ EndTurn \/ DriverEnds \/ Back \/ Drained \/ Wait \/ ShutdownKills \/
      ShutdownEnds \/ Aborted \/ Send \/ CloseInput \/ Cancel \/ GivesUp \/ Kill \/
      UNCHANGED vars
  BY <1>12 DEF TurnsEar, Puts, Notified, CancelsItself, CancelReturns, Says, Replies, Exits, Eof, EndsStream, Reap, Opened, Begins, Finishes,
      EndTurn, DriverEnds, Back, Drained, Wait, ShutdownKills, ShutdownEnds, Aborted,
      Send, CloseInput, Cancel, GivesUp, Kill, Ending, Counted
<1> QED
  BY <1>1, <1>2, <1>3, <1>4, <1>5, <1>6, <1>7, <1>8, <1>9, <1>10, <1>11, <1>12 DEF Next,
      Agent, Reader, Driver, Pump, Moving, Caller, Timer

LEMMA NextSettled == Shapes /\ Asked /\ Counted /\ Settled /\ [Next]_vars => Settled'
<1> SUFFICES ASSUME Shapes, Asked, Counted, Settled, [Next]_vars PROVE Settled'
  OBVIOUS
<1>1. CASE ReadsOn
  BY <1>1 DEF ReadsOn, Push, Settled, Between, TurnIsShown
<1>2. CASE EndsStream
  BY <1>2 DEF EndsStream, Settled, Between, TurnIsShown
<1>3. CASE Initialized
  BY <1>3 DEF Initialized, Push, Settled, Between, TurnIsShown
<1>4. CASE Opened
  BY <1>4 DEF Opened, Settled, Between, TurnIsShown
<1>5. CASE Refused
  BY <1>5 DEF Refused, Settled, Between, TurnIsShown, Asked
<1>6. CASE Begins
  BY <1>6 DEF Begins, Settled, Between, TurnIsShown
<1>7. CASE Finishes
  BY <1>7 DEF Finishes, Settled, Between, TurnIsShown
<1>8. CASE Tells
  BY <1>8 DEF Tells, Push, Settled, Between, TurnIsShown
<1>9. CASE EndTurn
  <2>1. turn' = [no |-> turn.no, over |-> TRUE] /\
        pump \notin {"barrier", "ended", "recheck", "unanswered", "resume"}
    BY <1>9 DEF EndTurn, Settled, Between, Shapes, DriverTypes
  <2>2. turn'.over /\ driver' = "idle"
    BY <1>9, <2>1 DEF EndTurn
  <2>3. /\ pump' = pump /\ closed' = closed /\ stopped' = stopped
        /\ shown' = shown /\ accepted' = accepted
    BY <1>9 DEF EndTurn
  <2>4. pump = "out" /\ ~stopped => shown >= accepted.turns
    BY <2>1 DEF Settled, TurnIsShown
  <2> QED
    BY <2>1, <2>2, <2>3, <2>4 DEF Settled, Between, TurnIsShown
<1>10. CASE DriverEnds
  BY <1>10 DEF DriverEnds, Settled, Between, TurnIsShown
<1>11. CASE Shows
  BY <1>11 DEF Shows, NextOf, Settled, Between, TurnIsShown, Counted, Shapes, PumpTypes
<1>12. CASE HandsOver
  BY <1>12 DEF HandsOver, Hands, Settled, Between, TurnIsShown
<1>13. CASE Barrier
  BY <1>13 DEF Barrier, Resumes, Settled, Between, TurnIsShown
<1>14. CASE LastEvent
  BY <1>14 DEF LastEvent, Resumes, Hands, Abandoned, Settled, Between, TurnIsShown
<1>15. CASE Recheck
  BY <1>15 DEF Recheck, SecondLook, Resumes, Unanswered, Settled, Between, TurnIsShown
<1>16. CASE TellsUnanswered
  BY <1>16 DEF TellsUnanswered, Hands, Abandoned, Settled, Between, TurnIsShown
<1>17. CASE HandsTurn
  BY <1>17 DEF HandsTurn, Settled, Between, TurnIsShown
<1>18. CASE ShutdownEnds
  BY <1>18 DEF ShutdownEnds, Ending, Settled, Between, TurnIsShown
<1>19. CASE TurnsEar \/ Puts \/ Notified \/ CancelsItself \/ CancelReturns \/
      Says \/ Replies \/ Exits \/ Eof \/ Reap \/ Back \/ Drained \/ Wait \/
      ShutdownKills \/ Aborted \/ Send \/ CloseInput \/ Cancel \/ GivesUp \/ Kill \/
      UNCHANGED vars
  BY <1>19 DEF TurnsEar, Puts, Notified, CancelsItself, CancelReturns, Says, Replies, Exits, Eof, Reap, Back, Drained, Wait, ShutdownKills,
      Aborted, Send, CloseInput, Cancel, GivesUp, Kill, Ending, Settled, Between,
      TurnIsShown
<1> QED
  BY <1>1, <1>2, <1>3, <1>4, <1>5, <1>6, <1>7, <1>8, <1>9, <1>10, <1>11, <1>12, <1>13,
      <1>14, <1>15, <1>16, <1>17, <1>18, <1>19 DEF Next, Agent, Reader, Driver, Pump,
      Moving, Caller, Timer

LEMMA NextSends == Shapes /\ Asked /\ Settled /\ Sends /\ [Next]_vars => Sends'
<1> SUFFICES ASSUME Shapes, Asked, Settled, Sends, [Next]_vars PROVE Sends'
  OBVIOUS
<1>1. CASE EndsStream
  BY <1>1 DEF EndsStream, Sends, Begun
<1>2. CASE Initialized
  BY <1>2 DEF Initialized, Sends, Begun
<1>3. CASE Opened
  BY <1>3 DEF Opened, Sends, Begun
<1>4. CASE Refused
  BY <1>4 DEF Refused, Released, Sends, Begun, One, Shapes, DriverTypes, CallerTypes
<1>5. CASE Begins
  BY <1>5 DEF Begins, Sends, Begun, One, Shapes, DriverTypes
<1>6. CASE Finishes
  BY <1>6 DEF Finishes, Sends, Begun
<1>7. CASE EndTurn
  BY <1>7 DEF EndTurn, Sends, Begun
<1>8. CASE DriverEnds
  BY <1>8 DEF DriverEnds, Sends, Begun
<1>9. CASE Shows
  BY <1>9 DEF Shows, NextOf, Sends, Begun
<1>10. CASE HandsOver
  BY <1>10 DEF HandsOver, Hands, Sends, Begun
<1>11. CASE Barrier
  BY <1>11 DEF Barrier, Resumes, Sends, Begun, One, Shapes, DriverTypes
<1>12. CASE LastEvent
  BY <1>12 DEF LastEvent, Resumes, Hands, Abandoned, Sends, Begun, One, Shapes, DriverTypes
<1>13. CASE Recheck
  BY <1>13 DEF Recheck, SecondLook, Resumes, Unanswered, Sends, Begun, One, Shapes,
      DriverTypes
<1>14. CASE TellsUnanswered
  BY <1>14 DEF TellsUnanswered, Hands, Abandoned, Sends, Begun
<1>15. CASE HandsTurn
  BY <1>15 DEF HandsTurn, Abandoned, Sends, Begun, One, Shapes, DriverTypes, CallerTypes
<1>16. CASE Back
  BY <1>16 DEF Back, Sends, Begun
<1>17. CASE Drained
  BY <1>17 DEF Drained, Sends, Begun
<1>18. CASE Wait
  BY <1>18 DEF Wait, Sends, Begun
<1>19. CASE ShutdownEnds
  BY <1>19 DEF ShutdownEnds, Ending, Sends, Begun
<1>20. CASE Aborted
  BY <1>20 DEF Aborted, Sends, Begun
<1>21. CASE Send
  BY <1>21, AcpAssumption DEF Send, Sends, Begun, One, Shapes, DriverTypes, CallerTypes
<1>22. CASE GivesUp
  BY <1>22 DEF GivesUp, Sends, Begun
<1>23. CASE TurnsEar \/ Puts \/ Notified \/ CancelsItself \/ CancelReturns \/
      Says \/ Replies \/ Exits \/ ReadsOn \/ Eof \/ Reap \/ Tells \/ ShutdownKills \/
      CloseInput \/ Cancel \/ Kill \/ UNCHANGED vars
  BY <1>23 DEF TurnsEar, Puts, Notified, CancelsItself, CancelReturns, Says, Replies, Exits, ReadsOn, Eof, Reap, Tells, ShutdownKills,
      CloseInput, Cancel, Kill, Ending, Sends, Begun
<1> QED
  BY <1>1, <1>2, <1>3, <1>4, <1>5, <1>6, <1>7, <1>8, <1>9, <1>10, <1>11, <1>12, <1>13,
      <1>14, <1>15, <1>16, <1>17, <1>18, <1>19, <1>20, <1>21, <1>22, <1>23 DEF Next,
      Agent, Reader, Driver, Pump, Moving, Caller, Timer

-----------------------------------------------------------------------------
(* The theorems.                                                            *)

LEMMA InitAcp == Init => AcpInv
<1> SUFFICES ASSUME Init PROVE AcpInv
  OBVIOUS
<1>1. Shapes
  <2>1. /\ 0 \in 0 .. MaxTurns /\ 0 \in 0 .. MaxChunks /\ 0 \in Nat
        /\ << >> \in Seq(Lines) /\ << >> \in Seq(Events)
    BY AcpAssumption
  <2>2. /\ turn \in [no : 0 .. MaxTurns, over : BOOLEAN]
        /\ answers \in [empty : BOOLEAN, prose : BOOLEAN, json : BOOLEAN]
        /\ accepted \in [all : Nat, turns : Nat]
    <3>1. turn = [no |-> 0, over |-> FALSE]
          /\ answers = [empty |-> FALSE, prose |-> FALSE, json |-> FALSE]
          /\ accepted = [all |-> 0, turns |-> 0]
      BY DEF Init
    <3> QED
      BY <2>1, <3>1
  <2>3. ReaderTypes
    BY <2>1 DEF Init, ReaderTypes
  <2>4. DriverTypes
    BY <2>1, <2>2 DEF Init, DriverTypes
  <2>5. PumpTypes
    BY <2>1, <2>2 DEF Init, PumpTypes
  <2>6. CallerTypes
    BY <2>1 DEF Init, CallerTypes
  <2> QED
    BY <2>3, <2>4, <2>5, <2>6 DEF Shapes
<1>2. Asked
  BY DEF Init, Asked, Replying, Waiting
<1>3. Counted
  BY DEF Init, Counted
<1>4. Settled
  BY DEF Init, Settled, Between, TurnIsShown
<1>5. Sends
  BY AcpAssumption DEF Init, Sends, Begun, One
<1> QED
  BY <1>1, <1>2, <1>3, <1>4, <1>5 DEF AcpInv

LEMMA AcpInvariant == Spec => []AcpInv
<1>1. AcpInv /\ [Next]_vars => AcpInv'
  BY NextShapes, NextAsked, NextCounted, NextSettled, NextSends DEF AcpInv
<1> QED
  BY InitAcp, <1>1, PTL DEF Spec

\* The session's state keeps its shape, and the agent has one prompt at a time,
\* the one the driver waits for (session.runTurn, conn.send).
THEOREM TypeCorrect == Spec => []TypeOK
<1>1. AcpInv => TypeOK
  BY DEF AcpInv, Shapes, TypeOK, Asked, Waiting
<1> QED
  BY AcpInvariant, <1>1, PTL

\* However many turns there are and whenever the agent goes, a caller that
\* reads is handed what a turn queued before it can see the turn end
\* (eventQueue.next, session.barrier).
THEOREM TurnsAreShown == Spec => []TurnIsShown
<1>1. AcpInv => TurnIsShown
  BY DEF AcpInv, Settled
<1> QED
  BY AcpInvariant, <1>1, PTL

\* A pump that leaves a session nobody ended leaves no accepted message behind,
\* and as many turns were begun as messages accepted, and one (session.Send,
\* session.barrier).
THEOREM SendsAreHonoured == Spec => []SendIsHonoured
<1>1. AcpInv => SendIsHonoured
  <2> SUFFICES ASSUME AcpInv, pump = "out", ~closed, ~stopped
               PROVE ~sent /\ turn.no = 1 + sends
    BY DEF SendIsHonoured
  <2>1. ~sent /\ driver \in {"idle", "out"} /\ Begun = 1 + sends
    BY DEF AcpInv, Settled, Sends
  <2>2. turn.no \in Nat /\ sends \in Nat
    BY DEF AcpInv, Shapes, DriverTypes, CallerTypes
  <2> QED
    BY <2>1, <2>2 DEF Begun, One
<1> QED
  BY AcpInvariant, <1>1, PTL

\* One request is open at a time: while the agent has one, no reply is on the
\* way, and the driver waits for it (conn.send, conn.deliver).
THEOREM OneRequest == Spec => []Asked
<1>1. AcpInv => Asked
  BY DEF AcpInv
<1> QED
  BY AcpInvariant, <1>1, PTL

=============================================================================
