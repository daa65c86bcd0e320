----------------------------- MODULE AcpSession -----------------------------
(***************************************************************************)
(* One session of an Agent Client Protocol agent                           *)
(* (internal/provider/acp): a child process that answers requests over a   *)
(* pipe, and the goroutines between it and whoever reads Events().  The     *)
(* reader (conn.run) routes what the agent writes; the driver (drive) has   *)
(* one session/prompt open at a time and tells how each ended; the pump     *)
(* moves what both queued to the caller, and holds the session open after a *)
(* turn, so that an answer may be sent back to the agent for another try.    *)
(*                                                                         *)
(* The caller is a runner or any other (run/execute.go, app): it reads      *)
(* events until there are no more, may send, close the input, cancel from   *)
(* another goroutine at any time, and waits.  What an event says is left     *)
(* out, but for the final ones, which the caller may answer.                *)
(***************************************************************************)
EXTENDS Naturals, Sequences

CONSTANTS
    MaxTurns,  \* bound: prompts of one session
    MaxChunks  \* bound: pieces of text the agent writes

ASSUME AcpAssumption == MaxTurns \in Nat \ {0} /\ MaxChunks \in Nat

VARIABLES
    agent,    \* the process: "up", "gone", or "held": gone, but its output still open
    request,  \* the request open at the agent: "init", "new", "prompt" or "none"
    said,     \* pieces of text it wrote
    deaf,     \* it does not read its input, and the pipe is full
    wire,     \* what it wrote and nobody read
    reader,   \* "reads"; "eof", every call failed; "done", the stream closed
    exited,   \* the process was waited for
    driver,   \* where the driver stands; "init" and "new" are Start's handshake
    writing,  \* the request it is writing, with the connection's write mutex
    box,      \* the reply its open call was handed
    text,     \* chunks is not empty
    tells,    \* events it has yet to queue about a turn that ended
    queue, turnEnd,  \* eventQueue
    closed,   \* closeStream was called
    stopped,  \* abort was
    pump,
    hand,     \* the event the pump holds out
    sent,     \* sendCh holds a message
    turn,     \* turnDone: how many prompts were begun, and whether the last is over
    answers,  \* what the turns came to: emptyTurns, finalText, finalJSON
    inputClosed,
    killing,  \* Cancel from another goroutine: "no", writing its "notice", or its timer is "armed"
    caller,   \* where the caller stands, and what it was handed
    sends,    \* ghost: messages Send accepted
    accepted, \* ghost: events queued, those of turns under way among them
    shown     \* ghost: events of the queue the caller was handed

process == <<agent, request, said, deaf>>
reading == <<wire, reader, exited>>
driving == <<driver, writing, box, text, tells, turn, answers>>
buffer  == <<queue, turnEnd, closed, stopped>>
pumping == <<pump, hand>>
calling == <<caller, sent, inputClosed, killing, sends>>
ghosts  == <<accepted, shown>>
vars    == <<process, reading, driving, buffer, pumping, calling, ghosts>>

\* eventQueue.push: what comes after close is dropped.
Push(ev) ==
    IF closed THEN UNCHANGED <<queue, accepted>>
    ELSE /\ queue' = Append(queue, ev)
         /\ accepted' = [all |-> accepted.all + 1,
                         turns |-> IF turn.over THEN accepted.turns ELSE accepted.all + 1]

-----------------------------------------------------------------------------
(* The agent.                                                               *)

\* It writes text, in a turn or after one.
Says ==
    /\ agent = "up" /\ turn.no > 0 /\ said < MaxChunks
    /\ said' = said + 1
    /\ wire' = Append(wire, "chunk")
    /\ UNCHANGED <<agent, request, deaf, reader, exited, driving, buffer, pumping, calling, ghosts>>

\* It answers the request it has: with a result, with a turn that was cut
\* short, or with an error.
Replies ==
    /\ agent = "up" /\ request # "none"
    /\ \E what \in {"done", "error"} \cup (IF request = "prompt" THEN {"short"} ELSE {}) :
         wire' = Append(wire, what)
    /\ request' = "none"
    /\ UNCHANGED <<agent, said, deaf, reader, exited, driving, buffer, pumping, calling, ghosts>>

\* It stops reading its input, or reads on.
TurnsEar ==
    /\ agent = "up" /\ deaf' = ~deaf
    /\ UNCHANGED <<agent, request, said, reading, driving, buffer, pumping, calling, ghosts>>

\* The process ends; something it started may keep its output open.
Dies ==
    /\ agent = "up" /\ agent' \in {"gone", "held"}
    /\ request' = "none" /\ deaf' = FALSE /\ UNCHANGED said

Exits == Dies /\ UNCHANGED <<reading, driving, buffer, pumping, calling, ghosts>>

-----------------------------------------------------------------------------
(* The reader, and the goroutine that reaps the process after it.           *)

Waiting == driver \in {"init", "new", "asked"} /\ box = "none"

\* deliver: a reply nobody waits for any more is dropped.
Deliver(msg) == box' = IF Waiting THEN msg ELSE box

ReadsOn ==
    /\ reader = "reads" /\ wire # << >>
    /\ wire' = Tail(wire)
    /\ IF Head(wire) = "chunk"
       THEN Push("note") /\ text' = TRUE /\ UNCHANGED box
       ELSE Deliver(Head(wire)) /\ UNCHANGED <<queue, accepted, text>>
    /\ UNCHANGED <<process, reader, exited, driver, writing, tells, turn, answers, turnEnd, closed,
                   stopped, pumping, calling, shown>>

\* conn.close: whoever waits for a reply gets an error.
Eof ==
    /\ reader = "reads" /\ wire = << >> /\ agent = "gone"
    /\ reader' = "eof"
    /\ Deliver("error")
    /\ UNCHANGED <<process, wire, exited, driver, writing, text, tells, turn, answers, buffer,
                   pumping, calling, ghosts>>

\* closeStream, whatever state the turn was left in.
EndsStream ==
    /\ reader = "eof"
    /\ reader' = "done" /\ closed' = TRUE
    /\ UNCHANGED <<process, wire, exited, driving, queue, turnEnd, stopped, pumping, calling, ghosts>>

Reap ==
    /\ reader = "done" /\ ~exited
    /\ exited' = TRUE
    /\ UNCHANGED <<process, wire, reader, driving, buffer, pumping, calling, ghosts>>

-----------------------------------------------------------------------------
(* What is written to the agent.                                            *)

\* shutdown closes the agent's input, before its grace.
Ending == caller \in {"shutdown", "abort"}
Shut == Ending \/ caller \in {"aborted", "over", "failed"}

\* writeLine, with the mutex: the pipe takes the line, or fails because the
\* connection, the agent or its input is known to be gone.  An agent that is up
\* and does not read keeps whoever writes.
Takes == agent = "held" \/ (agent = "up" /\ ~deaf)
Fails == agent # "up" \/ Shut
Written == Takes \/ Fails

\* A call waits for its reply before it writes; a connection known to be closed
\* refuses it.
Calls(what) ==
    IF reader = "reads" THEN writing' = what /\ box' = "none"
    ELSE writing' = "none" /\ box' = "error"

\* The driver's request is written, or the write fails, or the connection was
\* closed meanwhile and the call with it.
Puts ==
    /\ writing # "none" /\ writing' = "none"
    /\ \/ /\ Takes /\ UNCHANGED box
          /\ request' = IF agent = "up" /\ box = "none" THEN writing ELSE "none"
       \/ Fails /\ box' = "error" /\ UNCHANGED request
    /\ UNCHANGED <<agent, said, deaf, reading, driver, text, tells, turn, answers, buffer, pumping,
                   calling, ghosts>>

-----------------------------------------------------------------------------
(* Start's handshake, in the caller's goroutine.                            *)

Initialized ==
    /\ driver = "init" /\ writing = "none" /\ box = "done"
    /\ Push("note")
    /\ Calls("new") /\ driver' = "new"
    /\ UNCHANGED <<process, reading, text, tells, turn, answers, turnEnd, closed, stopped,
                   pumping, calling, shown>>

\* Start returns the session.
Opened ==
    /\ driver = "new" /\ writing = "none" /\ box = "done"
    /\ driver' = "begins" /\ box' = "none"
    /\ caller' = "ready"
    /\ UNCHANGED <<process, reading, writing, text, tells, turn, answers, buffer, pumping, sent, inputClosed,
                   killing, sends, ghosts>>

\* A slip: a session nobody was given is only shut down.
ShutDownOnly == UNCHANGED stopped

\* abort first lets go of the pump, which holds an event out to nobody.
Released == stopped' = TRUE

\* An error, a result that will not do, or two minutes without one; they run
\* from when the request is written.
Refused ==
    /\ driver \in {"init", "new"} /\ writing = "none"
    /\ Released
    /\ caller' = "abort" /\ driver' = "out"
    /\ UNCHANGED <<process, reading, writing, box, text, tells, turn, answers, queue, turnEnd, closed, pumping,
                   sent, inputClosed, killing, sends, ghosts>>

-----------------------------------------------------------------------------
(* The driver: runTurn.                                                     *)

\* beginTurn, and the prompt.
Begins ==
    /\ driver = "begins"
    /\ turn' = [no |-> turn.no + 1, over |-> FALSE]
    /\ text' = FALSE
    /\ Calls("prompt") /\ driver' = "asked"
    /\ UNCHANGED <<process, reading, tells, answers, buffer, pumping, calling, ghosts>>

\* What the text of a turn comes to: nothing but blanks, a JSON note, or prose.
Reads(kind) ==
    /\ ~text => kind = "empty"
    /\ answers' = CASE kind = "empty" -> [answers EXCEPT !.empty = TRUE, !.prose = FALSE]
                    [] kind = "prose" -> [answers EXCEPT !.prose = TRUE]
                    [] kind = "json"  -> [answers EXCEPT !.json = TRUE, !.prose = FALSE]

\* finishTurn and finishAnswer, up to their events.
Finishes ==
    /\ driver = "asked" /\ writing = "none" /\ box # "none"
    /\ driver' = "tells" /\ box' = "none"
    /\ \/ /\ box = "done" /\ tells' = <<"note", "final">>
          /\ \E kind \in {"empty", "prose", "json"} : Reads(kind)
       \/ box # "done" /\ tells' = <<"note">> /\ UNCHANGED answers
    /\ UNCHANGED <<process, reading, writing, text, turn, buffer, pumping, calling, ghosts>>

Tells ==
    /\ driver = "tells" /\ tells # << >>
    /\ Push(Head(tells)) /\ tells' = Tail(tells)
    /\ UNCHANGED <<process, reading, driver, writing, box, text, turn, answers, turnEnd, closed,
                   stopped, pumping, calling, shown>>

EndTurn ==
    /\ driver = "tells" /\ tells = << >>
    /\ driver' = "idle"
    /\ turn' = [turn EXCEPT !.over = TRUE] /\ turnEnd' = TRUE
    /\ UNCHANGED <<process, reading, writing, box, text, tells, answers, queue, closed, stopped,
                   pumping, calling, ghosts>>

DriverEnds ==
    /\ driver = "idle" /\ pump = "out"
    /\ driver' = "out"
    /\ UNCHANGED <<process, reading, writing, box, text, tells, turn, answers, buffer, pumping,
                   calling, ghosts>>

-----------------------------------------------------------------------------
(* The pump.                                                                *)

\* A slip: a stream that was closed has nothing left to show.
NextClosedFirst ==
    /\ pump = "next"
    /\ \/ closed /\ pump' = "out" /\ UNCHANGED <<queue, hand>>
       \/ /\ ~closed /\ queue # << >>
          /\ pump' = "hand" /\ hand' = Head(queue) /\ queue' = Tail(queue)
       \/ ~closed /\ queue = << >> /\ turnEnd /\ pump' = "barrier" /\ UNCHANGED <<queue, hand>>

\* eventQueue.next: what is queued, then that it is closed, then that the turn
\* has ended.
NextOf ==
    /\ pump = "next"
    /\ \/ queue # << >> /\ pump' = "hand" /\ hand' = Head(queue) /\ queue' = Tail(queue)
       \/ queue = << >> /\ closed /\ pump' = "out" /\ UNCHANGED <<queue, hand>>
       \/ queue = << >> /\ ~closed /\ turnEnd /\ pump' = "barrier" /\ UNCHANGED <<queue, hand>>

Shows ==
    /\ NextOf
    /\ UNCHANGED <<process, reading, driving, turnEnd, closed, stopped, calling, ghosts>>

\* The channel has no buffer: an event goes to a caller who has come for it.
Hands(ev, to) ==
    /\ caller = "ready" /\ caller' = ev
    /\ pump' = to
    /\ UNCHANGED <<sent, inputClosed, killing, sends>>

\* An event from the queue; without a reader, only abort lets go of it.
HandsOver ==
    /\ pump = "hand"
    /\ \/ Hands(hand, "next") /\ shown' = shown + 1
       \/ stopped /\ pump' = "out" /\ UNCHANGED <<calling, shown>>
    /\ hand' = "none"
    /\ UNCHANGED <<process, reading, driving, buffer, accepted>>

\* resume: the turn's end is forgotten before the driver hears of the next.
Resumes == sent /\ sent' = FALSE /\ turnEnd' = FALSE /\ pump' = "resume"

Barrier ==
    /\ pump = "barrier"
    /\ \/ Resumes
       \/ ~sent /\ pump' = "ended" /\ UNCHANGED <<sent, turnEnd>>
    /\ UNCHANGED <<process, reading, driving, queue, closed, stopped, hand, caller, inputClosed,
                   killing, sends, ghosts>>

Abandoned == (stopped \/ closed) /\ pump' = "out"

\* One last event, which the caller takes only when it is done with the final;
\* a message may be there instead, or by then.
LastEvent ==
    /\ pump = "ended"
    /\ \/ Resumes /\ UNCHANGED <<caller, inputClosed, killing, sends>>
       \/ Hands("note", "recheck") /\ UNCHANGED turnEnd
       \/ Abandoned /\ UNCHANGED <<calling, turnEnd>>
    /\ UNCHANGED <<process, reading, driving, queue, closed, stopped, hand, ghosts>>

\* Nothing came of any turn: the caller is told on the way out.
Unanswered == answers.empty /\ ~answers.json /\ ~answers.prose

\* A slip: a message sent while both were ready is left.
NoSecondLook ==
    /\ pump' = IF Unanswered THEN "unanswered" ELSE "out"
    /\ UNCHANGED <<sent, turnEnd>>

SecondLook ==
    \/ Resumes
    \/ /\ ~sent
       /\ pump' = IF Unanswered THEN "unanswered" ELSE "out"
       /\ UNCHANGED <<sent, turnEnd>>

Recheck ==
    /\ pump = "recheck"
    /\ SecondLook
    /\ UNCHANGED <<process, reading, driving, queue, closed, stopped, hand, caller, inputClosed,
                   killing, sends, ghosts>>

TellsUnanswered ==
    /\ pump = "unanswered"
    /\ Hands("note", "out") \/ (Abandoned /\ UNCHANGED calling)
    /\ UNCHANGED <<process, reading, driving, buffer, hand, ghosts>>

\* turnCh is not buffered either.
HandsTurn ==
    /\ pump = "resume"
    /\ \/ driver = "idle" /\ driver' = "begins" /\ pump' = "next"
       \/ Abandoned /\ UNCHANGED driver
    /\ UNCHANGED <<process, reading, writing, box, text, tells, turn, answers, buffer, hand, calling,
                   ghosts>>

-----------------------------------------------------------------------------
(* The caller.                                                              *)

Goes(to) == caller' = to /\ UNCHANGED <<sent, inputClosed, killing, sends>>
Still == UNCHANGED <<process, reading, driving, pumping, ghosts>>

\* It is done with an event, and comes for the next.
Back == caller \in {"note", "final"} /\ Goes("ready") /\ Still /\ UNCHANGED buffer

\* Send, of another try, refused once the stream or the input is closed, or
\* while one is pending.
Send ==
    /\ caller = "final" /\ ~closed /\ ~inputClosed /\ ~sent
    /\ sends + 1 < MaxTurns
    /\ sent' = TRUE /\ sends' = sends + 1
    /\ UNCHANGED <<caller, inputClosed, killing, buffer>> /\ Still

CloseInput ==
    /\ caller = "final" \/ (caller = "ready" /\ shown = 0)
    /\ inputClosed' = TRUE
    /\ UNCHANGED <<caller, sent, killing, sends, buffer>> /\ Still

\* Cancel writes its notice before it arms its timer: from another goroutine,
Cancel ==
    /\ caller \in {"ready", "note", "final", "cancels", "leaves", "wait"} /\ killing = "no"
    /\ killing' = "notice"
    /\ UNCHANGED <<caller, sent, inputClosed, sends, buffer>> /\ Still

\* which waits for the mutex and for the pipe;
Notified ==
    /\ killing = "notice" /\ writing = "none" /\ Written
    /\ killing' = "armed"
    /\ UNCHANGED <<caller, sent, inputClosed, sends, buffer>> /\ Still

\* from the caller's own, as it waits for an event or is at one (it reads on; a
\* call made after the timer is armed is left out, the kill lets go of it),
CancelsItself ==
    /\ caller \in {"ready", "note", "final"} /\ killing # "armed"
    /\ Goes("cancels") /\ Still /\ UNCHANGED buffer

\* or when it gives up at once, before it waits;
GivesUp == caller = "ready" /\ shown = 0 /\ Goes("leaves") /\ Still /\ UNCHANGED buffer

\* and its call returns.
CancelReturns ==
    /\ caller \in {"cancels", "leaves"} /\ writing = "none" /\ Written
    /\ caller' = IF caller = "cancels" THEN "ready" ELSE "wait"
    /\ killing' = "armed"
    /\ UNCHANGED <<sent, inputClosed, sends, buffer>> /\ Still

\* The agent had its grace, and whatever it is doing its process group goes.
Kill ==
    /\ killing = "armed" /\ ~exited
    /\ Dies
    /\ UNCHANGED <<reading, driving, buffer, pumping, calling, ghosts>>

\* It reads Events to the end.
Drained == caller = "ready" /\ pump = "out" /\ Goes("wait") /\ Still /\ UNCHANGED buffer

Wait ==
    /\ caller = "wait" /\ (turn.over \/ exited)
    /\ Goes("shutdown") /\ Still /\ UNCHANGED buffer

\* shutdown: a grace for the agent, then its group is killed; and the stream
\* ends, whether or not it was seen to exit.
ShutdownKills ==
    /\ Ending /\ Dies
    /\ UNCHANGED <<reading, driving, buffer, pumping, calling, ghosts>>

ShutdownEnds ==
    /\ Ending /\ agent # "up"
    /\ closed' = TRUE
    /\ Goes(IF caller = "abort" THEN "aborted" ELSE "over")
    /\ Still /\ UNCHANGED <<queue, turnEnd, stopped>>

\* A failed Start leaves no pump behind.
Aborted == caller = "aborted" /\ pump = "out" /\ Goes("failed") /\ Still /\ UNCHANGED buffer

-----------------------------------------------------------------------------

Init ==
    /\ agent = "up" /\ request = "none" /\ said = 0 /\ deaf = FALSE
    /\ wire = << >> /\ reader = "reads" /\ exited = FALSE
    /\ driver = "init" /\ writing = "init" /\ box = "none" /\ text = FALSE /\ tells = << >>
    /\ turn = [no |-> 0, over |-> FALSE]
    /\ answers = [empty |-> FALSE, prose |-> FALSE, json |-> FALSE]
    /\ queue = << >> /\ turnEnd = FALSE /\ closed = FALSE /\ stopped = FALSE
    /\ pump = "next" /\ hand = "none"
    /\ caller = "starting" /\ sent = FALSE /\ inputClosed = FALSE /\ killing = "no" /\ sends = 0
    /\ accepted = [all |-> 0, turns |-> 0] /\ shown = 0

Agent  == Says \/ Replies \/ TurnsEar \/ Exits
Reader == ReadsOn \/ Eof \/ EndsStream \/ Reap
Driver ==
    Puts \/ Initialized \/ Opened \/ Refused \/ Begins \/ Finishes \/ Tells \/ EndTurn \/ DriverEnds
Pump   == Shows \/ HandsOver \/ Barrier \/ LastEvent \/ Recheck \/ TellsUnanswered \/ HandsTurn
Moving == Back \/ CancelReturns \/ Drained \/ Wait \/ ShutdownKills \/ ShutdownEnds \/ Aborted
Caller == Moving \/ Send \/ CloseInput \/ Cancel \/ CancelsItself \/ GivesUp
Timer  == Notified \/ Kill
Writes == Puts \/ Notified \/ CancelReturns

Next == Agent \/ Reader \/ Driver \/ Pump \/ Caller \/ Timer

Spec == Init /\ [][Next]_vars

\* Sirdar's goroutines go on, the caller comes back for the next event, timers
\* fire, a write to an agent that reads again and again returns.  The agent need
\* not answer, write, read or exit, and nobody need cancel.
FairSpec ==
    /\ Spec
    /\ WF_vars(Reader) /\ WF_vars(Driver) /\ WF_vars(Pump) /\ WF_vars(Moving)
    /\ SF_vars(Writes) /\ WF_vars(Kill)

-----------------------------------------------------------------------------

Events == {"note", "final"}
Lines == {"chunk", "done", "short", "error"}

ReaderTypes ==
    /\ agent \in {"up", "gone", "held"} /\ request \in {"none", "init", "new", "prompt"}
    /\ said \in 0 .. MaxChunks /\ deaf \in BOOLEAN
    /\ wire \in Seq(Lines) /\ reader \in {"reads", "eof", "done"} /\ exited \in BOOLEAN

DriverTypes ==
    /\ driver \in {"init", "new", "begins", "asked", "tells", "idle", "out"}
    /\ writing \in {"none", "init", "new", "prompt"}
    /\ box \in {"none", "done", "short", "error"} /\ text \in BOOLEAN /\ tells \in Seq(Events)
    /\ turn \in [no : 0 .. MaxTurns, over : BOOLEAN]
    /\ answers \in [empty : BOOLEAN, prose : BOOLEAN, json : BOOLEAN]

PumpTypes ==
    /\ queue \in Seq(Events) /\ turnEnd \in BOOLEAN /\ closed \in BOOLEAN /\ stopped \in BOOLEAN
    /\ pump \in {"next", "hand", "barrier", "ended", "recheck", "unanswered", "resume", "out"}
    /\ hand \in Events \cup {"none"}
    /\ accepted \in [all : Nat, turns : Nat] /\ shown \in Nat

CallerTypes ==
    /\ caller \in {"starting", "ready", "note", "final", "cancels", "leaves", "wait", "shutdown",
                   "abort", "aborted", "over", "failed"}
    /\ sent \in BOOLEAN /\ inputClosed \in BOOLEAN /\ killing \in {"no", "notice", "armed"}
    /\ sends \in 0 .. MaxTurns

\* The shapes; one request at a time is open, and it is the driver's.
TypeOK ==
    /\ ReaderTypes /\ DriverTypes /\ PumpTypes /\ CallerTypes
    /\ request = "prompt" => driver = "asked" /\ box = "none"

\* When the pump stands at the end of a turn, or has left, a caller that reads
\* has been handed every event a turn queued, also when the agent went as it
\* answered ("the pump knows when everything the turn produced has been handed
\* over").
TurnIsShown ==
    pump \in {"barrier", "ended", "recheck", "unanswered", "out"} /\ ~stopped =>
        shown >= accepted.turns

\* A message Send accepted is put to the agent, whenever it came between the
\* final event and the last one; only the stream's end leaves one.
SendIsHonoured ==
    pump = "out" /\ ~closed /\ ~stopped => ~sent /\ turn.no = 1 + sends

\* A session ends once it is cancelled, its agent is gone, or a turn is over
\* and no other begins: Events closes, Wait returns, a Start that failed
\* returns too ("It closes when the session ends, whether that is success,
\* failure, or cancellation", provider.Session).  Two agents are the exception:
\* one that leaves a process behind which keeps its output open, and one that
\* stays up and never again reads its input while Cancel is at the notice that
\* goes before its timer, behind a prompt perhaps that is being written.
Doomed ==
    \/ killing # "no" \/ caller \in {"cancels", "leaves", "abort"}
    \/ agent = "gone" \/ turn.over
Stuck == agent = "up" /\ deaf /\ (killing = "notice" \/ caller \in {"cancels", "leaves"})
SessionEnds ==
    []<>~Stuck => (Doomed ~> (caller \in {"over", "failed"} \/ agent = "held" \/ ~Doomed))
=============================================================================
