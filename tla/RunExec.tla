------------------------------ MODULE RunExec ------------------------------
(***************************************************************************)
(* One execution of a run: the event loop of internal/run/execute.go, from *)
(* the provider session it starts to the status it settles with.           *)
(*                                                                         *)
(* Four things act on an execution at once.  The reader goroutine consumes *)
(* the current session's events one at a time and is the only writer of    *)
(* the execution's fields; the wall-clock timer and the stall guard fire   *)
(* on goroutines of their own and cancel whatever session is live; the     *)
(* context may be cancelled by the operator; and any process may append an *)
(* instruction to the run's steer inbox.  A session is a process: it says  *)
(* what it likes until it ends, also after it was cancelled, and it can    *)
(* end at any time.                                                        *)
(***************************************************************************)
EXTENDS Naturals, Sequences, FiniteSets

CONSTANTS
  Jobs,          \* the kinds of execution to start: see JobKinds
  Docs,          \* documents (or reply texts) a turn can answer with
  Steers,        \* instructions an operator may type while the run works
  OtherModel,    \* those of them that name a model the run is not on
  Models,        \* models a session can ask for
  RunModel,      \* the model the run starts on
  NoteModel,     \* phases.note.model, RunModel when it is not set
  Fallbacks,     \* providers.claude.fallbackModels
  Kinds,         \* event kinds this provider emits
  LateKinds,     \* kinds a session may still emit once its turn has ended
  MaxSessions,   \* bound: sessions one execution may start
  MaxFuel,       \* bound: events the sessions emit between them
  MaxMalformed,  \* malformed lines in a row that end the session
  MaxEmpty,      \* turns without an answer that are asked again
  MaxTurns,      \* budget.maxTurns, 0 for none
  NoteMaxTurns,  \* phases.note.maxTurns, 0 for none
  ReplyMaxTurns, \* phases.reply.maxTurns, 0 for none
  ClockOn,       \* budget.maxMinutes > 0
  StallOn,       \* budget.stallMinutes > 0
  TwoNotes,      \* an rca, which files a second note and its playbooks after the first
  None           \* no document

JobKinds == {"note", "steer", "replyFirst", "talk", "renote"}
EventKinds == {"activity", "usage", "rateLimit", "deny", "ask", "question",
               "limit", "error", "breach", "blind", "final"}
Bad == "bad"      \* an answer no schema accepts
Empty == "empty"  \* a turn that ended with no answer at all
Answers == Docs \cup {Bad, Empty}

\* Why a session was stopped or a turn given up.
Reasons == {"breach", "blind", "over", "interrupted", "ask", "limit",
            "failure", "question", "parked", "noteErr"}
Sessions == 1 .. MaxSessions
Ids == 0 .. MaxSessions   \* 0: no session

ASSUME JobsAssumption == Jobs \subseteq JobKinds
ASSUME KindsAssumption == Kinds \subseteq EventKinds /\ LateKinds \subseteq Kinds
ASSUME NoneAssumption == None \notin Answers /\ Bad \notin Docs /\ Empty \notin Docs
ASSUME ModelAssumption == {RunModel, NoteModel} \subseteq Models /\ Fallbacks \in Seq(Models)
ASSUME SteerAssumption == OtherModel \subseteq Steers
ASSUME BoundAssumption ==
  /\ MaxSessions \in Nat \ {0} /\ MaxFuel \in Nat
  /\ MaxMalformed \in Nat \ {0} /\ MaxEmpty \in Nat
  /\ MaxTurns \in Nat /\ NoteMaxTurns \in Nat /\ ReplyMaxTurns \in Nat
  /\ ClockOn \in BOOLEAN /\ StallOn \in BOOLEAN /\ TwoNotes \in BOOLEAN

VARIABLES
  job,       \* what this execution was started for
  pc,        \* where the execution stands
  sess,      \* each session's process
  said,      \* sessions whose turn has ended and that were sent nothing since
  turns,     \* turns each session has reported
  cur,       \* the session being consumed
  retry,     \* ex.retrySession: the session that takes over from cur
  live,      \* ex.live: the session the timers cancel
  read,      \* ex.sessions: every session consumed so far
  why,       \* ex.breach, blind, overBudget, ...: those that are set
  final,     \* ex.final: the validated document
  reply,     \* ex.reply is not empty
  fileErr,   \* ex.completeErr is not nil
  retried, empties, malformed,   \* ex.retried, ex.emptyTurns, ex.malformed
  noteSess, wrapUp, capped,      \* the sessions in those roles, 0 for none
  model, tried, dropped,         \* p.state.Model, ex.tried, p.noteModelDropped
  phase,     \* p.state.Phase: "note", or "main" when it is empty
  status,    \* p.state.Status
  notes,     \* p.state.Notes names a note
  refiled,   \* p.refiled holds the note an Update note is replacing
  filed,     \* notes filed and replies stored by this execution
  base, seen, folded,            \* usage: ex.base, ex.seen, ex.folded
  steers,    \* what became of each instruction
  steering,  \* p.steer is not nil
  prev,      \* p.previousFinal
  clock,     \* the wall-clock timer
  stall,     \* the stall guard
  ctx,       \* the operator has cancelled the context
  heard,     \* the session that was cancelled for it
  fuel       \* events left to emit

flow == <<cur, live, read>>
answer == <<final, reply, fileErr, notes, filed>>
patience == <<retried, empties>>
roles == <<noteSess, wrapUp, capped>>
models == <<model, tried, dropped>>
acct == <<base, seen, folded>>
inbox == <<steers, steering, prev>>
fixed == <<job, status, refiled, clock, ctx, heard>>
vars == <<fixed, pc, sess, said, turns, flow, retry, why, answer, patience,
          malformed, roles, models, phase, acct, inbox, stall, fuel>>

-----------------------------------------------------------------------------
(* The stall guard: "off" without one; "held" while the run waits for a     *)
(* person or for a process to start; "stopped" for good.  When it fires it *)
(* claims the guard, stores the flag and cancels the live session, one      *)
(* after the other.                                                         *)

StallStates == {"off", "armed", "held", "stopped", "claimed", "stored", "spent"}
Held(g) == IF g = "armed" THEN "held" ELSE g
Rearmed(g) == IF g = "held" THEN "armed" ELSE g
\* A slip: the guard left running when the run is stopped.
StopForgotten(g) == g

Stopped(g) == IF g \in {"armed", "held"} THEN "stopped" ELSE g
Fired == stall \in {"stored", "spent"}
TimedOut == clock \in {"stored", "spent"}

(* A session is "open" until something ends it, "ending" once it was        *)
(* cancelled or told that no message will follow (CloseInput, and a Cancel *)
(* closeGrace later), and "ended" when its stream has closed.               *)
Fresh(n) == sess[n] = "none" /\ \A m \in Sessions : m < n => sess[m] # "none"
EndCur == sess' = [sess EXCEPT ![cur] = "ending"]

\* Provider.Start: n takes over from the current session, left as st.
Opens(n, st) ==
  /\ Fresh(n)
  /\ sess' = [sess EXCEPT ![cur] = st, ![n] = "open"]
  /\ retry' = n

\* A slip: a waiting session never looked for.
WaitingForgotten == FALSE

\* A session is already waiting to carry the run on.
Waiting == retry # 0

ReplyTurn == job \in {"replyFirst", "talk"} /\ phase # "note"
NoteAfter == job = "replyFirst"
PhasesApply == job \in {"replyFirst", "talk", "renote"}
OwnNoteModel == PhasesApply /\ ~dropped /\ NoteModel # model
NoteCap == IF PhasesApply THEN NoteMaxTurns ELSE 0
ReplyCap == IF ReplyTurn /\ wrapUp = 0 /\ capped = 0 /\ ~Waiting
            THEN ReplyMaxTurns ELSE 0
Greater(a, b) == IF a > b THEN a ELSE b

Pending(q) == steers[q] \in {"inbox", "queued", "held"}
Deliverable == IF phase = "note" THEN {} ELSE {q \in Steers \ OtherModel : Pending(q)}
PickedUp == [q \in Steers |-> IF steers[q] = "inbox" THEN "queued" ELSE steers[q]]
-----------------------------------------------------------------------------
(* Starting.                                                                *)

\* What each kind of execution starts from: a steered run may have a document
\* on disk already, and an Update note starts in the note phase, the note it
\* replaces set aside.
Init ==
  /\ job \in Jobs
  /\ pc = "starting" /\ status = "preparing"
  /\ sess = [n \in Sessions |-> "none"] /\ said = {}
  /\ turns = [n \in Sessions |-> 0]
  /\ cur = 0 /\ retry = 0 /\ live = 0 /\ read = {}
  /\ why = {} /\ final = None /\ reply = FALSE /\ fileErr = FALSE
  /\ retried = FALSE /\ empties = 0 /\ malformed = 0
  /\ noteSess = 0 /\ wrapUp = 0 /\ capped = 0
  /\ model = RunModel /\ tried = {RunModel}
  /\ dropped \in (IF job = "renote" THEN BOOLEAN ELSE {FALSE})
  /\ phase = (IF job = "renote" THEN "note" ELSE "main")
  /\ steering = (job = "steer")
  /\ prev \in (IF job = "steer" THEN Docs \cup {None} ELSE {None})
  /\ notes = (prev # None)
  /\ refiled \in (IF job = "renote" THEN BOOLEAN ELSE {FALSE})
  /\ filed = 0 /\ base = 0 /\ seen = 0 /\ folded = {}
  /\ steers = [q \in Steers |-> "none"]
  /\ clock = "off" /\ stall = "off" /\ ctx = FALSE /\ heard = 0
  /\ fuel = MaxFuel

\* keepRefiled: the note an Update note set aside is put back.
Restored == notes \/ refiled

\* finish: in the note phase the reply stands, so the run completes.
Finish(verdict) ==
  /\ pc' = "done"
  /\ status' = IF phase = "note" THEN "completed" ELSE verdict
  /\ notes' = IF phase = "note" THEN Restored ELSE notes
  /\ phase' = "main"

\* The run never reaches its event loop: interrupted while the pool is
\* paused, or a session, an MCP server or an event log that will not open.
StartFails ==
  /\ pc = "starting"
  /\ \/ ctx /\ Finish("blocked")
     \/ Finish("failed")
  /\ UNCHANGED <<job, refiled, clock, ctx, heard, sess, said, turns, flow, retry, why,
                 final, reply, fileErr, filed, patience, malformed, roles, models,
                 acct, inbox, stall, fuel>>

Begin ==
  /\ pc = "starting"
  /\ pc' = "reading" /\ status' = "running"
  /\ sess' = [sess EXCEPT ![1] = "open"]
  /\ cur' = 1 /\ live' = 1 /\ read' = {1}
  /\ noteSess' = IF phase = "note" THEN 1 ELSE 0
  /\ steers' = PickedUp
  /\ clock' = IF ClockOn THEN "armed" ELSE "off"
  /\ stall' = IF StallOn THEN "armed" ELSE "off"
  /\ UNCHANGED <<job, refiled, ctx, heard, said, turns, retry, why, answer, patience,
                 malformed, wrapUp, capped, models, phase, acct, steering, prev, fuel>>

-----------------------------------------------------------------------------
(* What the reader does with one event of the current session.             *)

\* The current session emits an event of this kind and the reader handles it.
Says(kind) ==
  /\ pc = "reading" /\ fuel > 0 /\ kind \in Kinds
  /\ cur \in said => kind \in LateKinds
  /\ fuel' = fuel - 1
  /\ UNCHANGED <<fixed, pc, flow>>

\* A session that was capped, or that is not the note turn's, is only drained.
Ignored == capped = cur \/ (phase = "note" /\ cur # noteSess)
Judged(kind) == Says(kind) /\ ~Ignored
Heeded(kind) == Judged(kind) /\ malformed' = 0
NoteTurn == phase = "note"

Drained ==
  \E kind \in Kinds \ {"breach"} :
    /\ Says(kind) /\ Ignored
    /\ malformed' = IF kind = "error" THEN malformed ELSE 0
    /\ said' = IF kind = "final" THEN said \cup {cur} ELSE said
    /\ UNCHANGED <<sess, turns, retry, why, answer, patience, roles, models, phase,
                   acct, inbox, stall>>

\* Text, tool calls, an allowed permission, a system line.
Activity ==
  /\ Heeded("activity")
  /\ UNCHANGED <<sess, said, turns, retry, why, answer, patience, roles, models, phase,
                 acct, inbox, stall>>

\* endNoteTurn: the first reason is kept.
EndNoteTurn ==
  /\ why' = why \cup {"noteErr"} /\ stall' = Stopped(stall) /\ EndCur
  /\ UNCHANGED <<retry, patience, roles, dropped, acct>>

\* openNoteSession: nothing here looks at a retry that is already waiting.
OpenNoteSession(st) ==
  \/ \E n \in Sessions :
       /\ Opens(n, st) /\ noteSess' = n
       /\ UNCHANGED <<why, wrapUp, capped>>
  \/ /\ why' = why \cup {"noteErr"} /\ sess' = [sess EXCEPT ![cur] = st]
     /\ UNCHANGED <<retry, roles>>

\* A slip: a new conversation counts from nothing.
FoldForgotten(t) == seen' = 0 /\ folded' = read /\ UNCHANGED base

\* What a conversation spent, t turns of it not yet in seen, becomes base.
Fold(t) == base' = base + Greater(seen, t) /\ seen' = 0 /\ folded' = read
FreshTurn == retried' = FALSE /\ empties' = 0

\* fileNoteOnRunModel: the note turn once more, without phases.note.model.
FileNoteOnRunModel(t) ==
  /\ OwnNoteModel /\ ~Waiting
  /\ dropped' = TRUE /\ stall' = Held(stall)
  /\ Fold(t) /\ FreshTurn /\ OpenNoteSession("ending")

\* A note turn that cannot go on: once more on the run's model, or over.
GiveUpNoteTurn(t) ==
  \/ FileNoteOnRunModel(t)
  \/ /\ ~(OwnNoteModel /\ ~Waiting) /\ seen' = Greater(seen, t)
     /\ why' = why \cup {"noteErr"} /\ stall' = Stopped(stall) /\ EndCur
     /\ UNCHANGED <<retry, patience, roles, dropped, base, folded>>

\* capReply and startWrapUp: the capped session makes way for one asked to
\* answer from what it has, if the provider can resume it.
CapReply(t) ==
  /\ capped' = cur
  /\ \/ /\ why' = why \cup {"over"} /\ stall' = Stopped(stall) /\ EndCur
        /\ seen' = Greater(seen, t)
        /\ UNCHANGED <<base, folded, retry, wrapUp, noteSess>>
     \/ /\ Fold(t) /\ stall' = Held(stall) /\ UNCHANGED noteSess
        /\ \/ \E n \in Sessions :
               Opens(n, "ending") /\ wrapUp' = n /\ UNCHANGED why
           \/ EndCur /\ why' = why \cup {"over"} /\ UNCHANGED <<retry, wrapUp>>

\* EvUsage: the budget first, then the cap of the turn it is.
Usage ==
  /\ Heeded("usage")
  /\ LET t == turns[cur] + 1
         now == Greater(seen, t)
         overBudget == MaxTurns > 0 /\ base + now > MaxTurns
         noteCapped == NoteTurn /\ NoteCap > 0 /\ now > NoteCap /\ final = None
         replyCapped == ReplyCap > 0 /\ now > ReplyCap
     IN /\ turns' = [turns EXCEPT ![cur] = t]
        /\ \/ /\ overBudget
              /\ seen' = now /\ why' = why \cup {"over"}
              /\ stall' = Stopped(stall) /\ EndCur
              /\ UNCHANGED <<retry, patience, roles, dropped, base, folded>>
           \/ /\ ~overBudget /\ "over" \notin why /\ noteCapped
              /\ GiveUpNoteTurn(t)
           \/ /\ ~overBudget /\ "over" \notin why /\ ~noteCapped /\ replyCapped
              /\ CapReply(t) /\ UNCHANGED <<patience, dropped>>
           \/ /\ ~overBudget /\ ("over" \in why \/ ~(noteCapped \/ replyCapped))
              /\ seen' = now
              /\ UNCHANGED <<sess, retry, why, patience, roles, dropped, base, folded, stall>>
  /\ UNCHANGED <<said, answer, model, tried, phase, inbox>>

\* EvRateLimited and EvQuestion: the run waits, and silence is no stall.
Waits(kind, reason) ==
  /\ Heeded(kind)
  /\ \/ /\ NoteTurn /\ kind = "question" /\ EndNoteTurn
     \/ /\ ~(NoteTurn /\ kind = "question")
        /\ why' = why \cup {reason} /\ stall' = Held(stall)
        /\ UNCHANGED <<sess, retry, patience, roles, dropped, acct>>
  /\ UNCHANGED <<said, turns, answer, model, tried, phase, inbox>>

RateLimited == Waits("rateLimit", "parked")
Question == Waits("question", "question")

\* EvPermission: a refused call ends a note turn; a call the operator could
\* allow stops the run on the question.
Denied ==
  /\ Heeded("deny")
  /\ \/ NoteTurn /\ EndNoteTurn
     \/ ~NoteTurn /\ UNCHANGED <<why, stall, sess, retry, patience, roles, dropped, acct>>
  /\ UNCHANGED <<said, turns, answer, model, tried, phase, inbox>>

Asks ==
  /\ Heeded("ask")
  /\ \/ NoteTurn /\ EndNoteTurn
     \/ /\ ~NoteTurn /\ "ask" \notin why
        /\ why' = why \cup {"ask"} /\ stall' = Stopped(stall) /\ EndCur
        /\ UNCHANGED <<retry, patience, roles, dropped, acct>>
     \/ /\ ~NoteTurn /\ "ask" \in why
        /\ UNCHANGED <<why, stall, sess, retry, patience, roles, dropped, acct>>
  /\ UNCHANGED <<said, turns, answer, model, tried, phase, inbox>>

\* EvModelLimit: recorded, and decided when the turn has ended; in the note
\* phase the note is filed on the run's own model instead.
ModelLimit ==
  /\ Heeded("limit")
  /\ \/ /\ NoteTurn /\ GiveUpNoteTurn(0) /\ UNCHANGED tried
     \/ /\ ~NoteTurn
        /\ why' = why \cup {"limit"} /\ stall' = Held(stall)
        /\ tried' = tried \cup {model}
        /\ UNCHANGED <<sess, retry, patience, roles, dropped, acct>>
  /\ UNCHANGED <<said, turns, answer, model, phase, inbox>>

\* EvError: MaxMalformed unreadable lines in a row end the session.
Malformed ==
  /\ Judged("error")
  /\ malformed' = IF malformed < MaxMalformed THEN malformed + 1 ELSE malformed
  /\ \/ /\ malformed' = MaxMalformed
        /\ why' = why \cup {"failure"} /\ EndCur
     \/ malformed' < MaxMalformed /\ UNCHANGED <<why, sess>>
  /\ UNCHANGED <<said, turns, retry, answer, patience, roles, models, phase, acct,
                 inbox, stall>>

\* EvBreach: counts whichever session it comes from.
Breach ==
  /\ Says("breach") /\ malformed' = 0
  /\ why' = why \cup {"breach"} /\ stall' = Stopped(stall) /\ EndCur
  /\ UNCHANGED <<said, turns, retry, answer, patience, roles, models, phase, acct, inbox>>

\* EvBlind: not the note turn's business; elsewhere the answer is not believed.
Blind ==
  /\ Heeded("blind")
  /\ why' = IF NoteTurn THEN why ELSE why \cup {"blind"}
  /\ UNCHANGED <<sess, said, turns, retry, answer, patience, roles, models, phase,
                 acct, inbox, stall>>
-----------------------------------------------------------------------------
(* EvFinal: the end of a turn.                                              *)

Ends == said' = said \cup {cur}
\* A slip: a session that repeats its answer is heard again.
SettledUnlessFiled ==
  \/ "over" \in why
  \/ "limit" \notin why /\ why \cap {"ask", "breach", "blind"} # {}

\* A slip: only a filed answer ends the judging.
SettledOnceFiled == final # None \/ (ReplyTurn /\ reply)

\* An answer nobody judges: one is filed, or the run was stopped before it.
Settled ==
  \/ final # None \/ "over" \in why
  \/ /\ "limit" \notin why
     /\ \/ why \cap {"ask", "breach", "blind"} # {}
        \/ NoteTurn /\ "noteErr" \in why
        \/ ReplyTurn /\ reply

FinalDropped ==
  /\ Heeded("final") /\ Settled /\ Ends
  /\ UNCHANGED <<sess, turns, retry, why, answer, patience, roles, models, phase,
                 acct, inbox, stall>>

\* switchModel: the first fallback not tried yet, in the same conversation or
\* a fresh one; with none left the limit stands and the session is closed.
SwitchModel ==
  /\ Heeded("final") /\ ~Settled /\ "limit" \in why /\ Ends
  /\ LET Untried == {i \in 1 .. Len(Fallbacks) : Fallbacks[i] \notin tried}
     IN \/ /\ Untried = {} \/ Waiting
           /\ EndCur /\ UNCHANGED <<why, stall, model, tried, acct, retry>>
        \/ /\ ~Waiting /\ stall' = Held(stall)
           /\ \E i \in Untried :
                /\ \A j \in Untried : i <= j
                /\ \/ /\ \E n \in Sessions : Opens(n, "ending")
                      /\ why' = why \ {"limit"}
                      /\ model' = Fallbacks[i] /\ tried' = tried \cup {Fallbacks[i]}
                      /\ Fold(0) \/ UNCHANGED acct
                   \/ /\ why' = (why \ {"limit"}) \cup {"failure"} /\ EndCur
                      /\ UNCHANGED <<model, tried, acct, retry>>
  /\ UNCHANGED <<turns, answer, patience, roles, dropped, phase, inbox>>

Turn(a) == Heeded("final") /\ ~Settled /\ "limit" \notin why /\ a \in Answers
FailReason == IF NoteTurn THEN "noteErr" ELSE "failure"

FailTurn ==
  /\ Ends /\ why' = why \cup {FailReason} /\ EndCur
  /\ UNCHANGED <<retry, patience, roles, dropped, acct, stall>>

\* Ask the session again; one past taking a message is resumed by its handle.
AskAgain ==
  \/ said' = said \ {cur} /\ UNCHANGED <<sess, retry, why, stall, noteSess>>
  \/ Ends /\ Waiting /\ UNCHANGED <<sess, retry, why, stall, noteSess>>
  \/ /\ Ends /\ ~Waiting /\ stall' = Held(stall)
     /\ \/ \E n \in Sessions :
            /\ Opens(n, sess[cur]) /\ UNCHANGED why
            /\ noteSess' = IF NoteTurn THEN n ELSE noteSess
        \/ why' = why \cup {FailReason} /\ EndCur /\ UNCHANGED <<retry, noteSess>>

\* deliverSteers: everything the session may take goes in as one message, and
\* the answer that was just given, document d, is owed again.
DeliverSteers(d) ==
  /\ Deliverable # {}
  /\ steers' = [q \in Steers |-> IF q \in Deliverable THEN "delivered" ELSE PickedUp[q]]
  /\ steering' = TRUE /\ prev' = d /\ said' = said \ {cur}
  /\ final' = None /\ reply' = FALSE /\ fileErr' = FALSE /\ FreshTurn
  /\ UNCHANGED <<sess, stall, why, phase, retry, roles, acct>>

\* A validated document: filed, unless it is the one a steer asked to look at
\* again; then the steers that waited for the turn to end, or the end.
Unchanged(d) == steering /\ prev # None /\ prev = d

\* How filing ends: an rca may fail with its first note written and named.
Filings == {"all", "none"} \cup (IF TwoNotes THEN {"half"} ELSE {})

NoteAnswered ==
  \E d \in Docs, out \in Filings :
    /\ Turn(d) /\ ~ReplyTurn
    /\ filed' = IF out # "none" /\ ~Unchanged(d) THEN filed + 1 ELSE filed
    /\ notes' = IF Unchanged(d) THEN notes ELSE out # "none" \/ (notes /\ ~steering)
    /\ \/ DeliverSteers(d)
       \/ /\ final' = d /\ fileErr' = (out # "all" /\ ~Unchanged(d))
          /\ steers' = IF NoteTurn THEN steers ELSE PickedUp
          /\ Ends /\ stall' = Stopped(stall) /\ EndCur
          /\ UNCHANGED <<reply, steering, prev, why, phase, retry, roles, acct, patience>>
    /\ UNCHANGED <<turns, models>>

\* A slip: one retry too many.
ExhaustedLate(a) == IF a = Empty THEN empties > MaxEmpty ELSE retried

\* The retries this answer may draw on are used up.
Exhausted(a) == IF a = Empty THEN empties >= MaxEmpty ELSE retried

\* No document, or one the schema refuses: asked again a bounded number of
\* times, a note turn only while its cap allows another.
NoteRefused ==
  \E a \in {Empty, Bad} :
    /\ Turn(a) /\ ~ReplyTurn
    /\ LET spent == Exhausted(a)
           atCap == NoteTurn /\ NoteCap > 0 /\ seen >= NoteCap
       IN \/ /\ spent /\ (a = Empty \/ ~(NoteTurn /\ OwnNoteModel /\ ~Waiting))
             /\ FailTurn
          \/ spent /\ a = Bad /\ NoteTurn /\ Ends /\ FileNoteOnRunModel(0)
          \/ ~spent /\ atCap /\ Ends /\ GiveUpNoteTurn(0)
          \/ /\ ~spent /\ ~atCap /\ AskAgain
             /\ retried' = (retried \/ a = Bad)
             /\ empties' = IF a = Empty THEN empties + 1 ELSE empties
             /\ UNCHANGED <<wrapUp, capped, dropped, acct>>
    /\ UNCHANGED <<turns, answer, model, tried, phase, inbox>>

\* startNoteTurn: a clock that has run out, or an interrupt, leaves the run
\* with its reply.
StartNoteTurn ==
  /\ phase' = "note" /\ FreshTurn /\ Fold(0)
  /\ LET stopped == why \cup (IF ctx THEN {"interrupted"} ELSE {})
     IN \/ /\ TimedOut \/ Fired \/ "interrupted" \in stopped
           /\ why' = stopped /\ EndCur /\ UNCHANGED <<retry, roles, stall>>
        \/ /\ ~(TimedOut \/ Fired \/ "interrupted" \in stopped)
           /\ stall' = Held(stall) /\ OpenNoteSession("ending")

ReplyAnswered ==
  \E d \in Docs \cup {Bad}, ok \in BOOLEAN :
    /\ Turn(d) /\ ReplyTurn
    /\ filed' = IF ok THEN filed + 1 ELSE filed
    /\ \/ ok /\ cur # wrapUp /\ DeliverSteers(None)
       \/ /\ Ends /\ reply' = TRUE /\ fileErr' = ~ok
          /\ steers' = IF ok /\ cur # wrapUp THEN PickedUp ELSE steers
          /\ \/ ok /\ NoteAfter /\ StartNoteTurn
             \/ /\ ~(ok /\ NoteAfter) /\ stall' = Stopped(stall) /\ EndCur
                /\ UNCHANGED <<phase, patience, acct, why, retry, roles>>
          /\ UNCHANGED <<final, steering, prev>>
    /\ UNCHANGED <<turns, notes, models>>

\* A reply turn without text: the wrap-up's is its last chance, a capped one
\* makes way for the wrap-up, any other is nudged a bounded number of times.
ReplyEmpty ==
  /\ Turn(Empty) /\ ReplyTurn
  /\ LET wrapping == wrapUp # 0 /\ cur = wrapUp
         atCap == ReplyCap > 0 /\ seen >= ReplyCap
     IN \/ /\ wrapping /\ Ends
           /\ why' = why \cup {"over"} /\ stall' = Stopped(stall) /\ EndCur
           /\ UNCHANGED <<retry, patience, roles, acct>>
        \/ ~wrapping /\ atCap /\ Ends /\ CapReply(0) /\ UNCHANGED patience
        \/ ~wrapping /\ ~atCap /\ Exhausted(Empty) /\ FailTurn
        \/ /\ ~wrapping /\ ~atCap /\ ~Exhausted(Empty)
           /\ empties' = empties + 1 /\ AskAgain
           /\ UNCHANGED <<retried, wrapUp, capped, acct>>
  /\ UNCHANGED <<turns, answer, models, phase, inbox>>

-----------------------------------------------------------------------------
(* Between sessions, and the goroutines beside the reader.                  *)

\* The stream closes.  The session a retry left waiting takes over and
\* becomes the one the timers cancel; consume then looks whether one of them
\* has already spent itself.
StreamEnds ==
  /\ pc = "reading" /\ sess' = [sess EXCEPT ![cur] = "ended"]
  /\ \/ retry = 0 /\ pc' = "settling" /\ UNCHANGED <<cur, live, retry>>
     \/ retry # 0 /\ pc' = "switching" /\ cur' = retry /\ live' = retry /\ retry' = 0
  /\ UNCHANGED <<fixed, said, turns, read, why, answer, patience, malformed, roles,
                 models, phase, acct, inbox, stall, fuel>>

\* A slip: a timer that fired between two sessions is not looked for.
NoLateCancel == UNCHANGED sess

\* A timer that spent itself on the session before this one ends it too.
CancelIfFired == IF TimedOut \/ Fired THEN EndCur ELSE UNCHANGED sess

SwitchSession ==
  /\ pc = "switching" /\ pc' = "reading" /\ CancelIfFired
  /\ stall' = Rearmed(stall) /\ read' = read \cup {cur}
  /\ UNCHANGED <<fixed, said, turns, cur, live, retry, why, answer, patience, malformed,
                 roles, models, phase, acct, inbox, fuel>>

\* The reader sees the cancelled context, once for each session.
SeeInterrupt ==
  /\ pc = "reading" /\ ctx /\ heard # cur /\ heard' = cur
  /\ why' = why \cup {"interrupted"} /\ stall' = Stopped(stall) /\ EndCur
  /\ UNCHANGED <<job, status, refiled, clock, ctx, pc, said, turns, flow, retry, answer,
                 patience, malformed, roles, models, phase, acct, inbox, fuel>>

PickUpSteers ==
  /\ pc = "reading" /\ \E q \in Steers : steers[q] = "inbox"
  /\ steers' = PickedUp
  /\ UNCHANGED <<fixed, pc, sess, said, turns, flow, retry, why, answer, patience,
                 malformed, roles, models, phase, acct, steering, prev, stall, fuel>>

Rest == <<job, refiled, ctx, pc, said, turns, cur, read, retry, why, answer, patience,
          malformed, roles, models, phase, acct, inbox, fuel, status, heard>>
\* liveSession.cancel reads the session and cancels it in one step here: the
\* flag is stored before it, so a switch in between cancels the successor too.
EndLive == sess' = IF live # 0 /\ sess[live] = "open"
                   THEN [sess EXCEPT ![live] = "ending"] ELSE sess

ClockFires ==
  /\ pc # "done" /\ clock = "armed" /\ clock' = "stored"
  /\ UNCHANGED <<Rest, live, sess, stall>>
ClockCancels ==
  /\ clock = "stored" /\ clock' = "spent" /\ EndLive /\ UNCHANGED <<Rest, live, stall>>

StallFires ==
  /\ pc # "done" /\ stall = "armed" /\ stall' = "claimed"
  /\ UNCHANGED <<Rest, live, sess, clock>>
StallStores == stall = "claimed" /\ stall' = "stored" /\ UNCHANGED <<Rest, live, sess, clock>>
StallCancels ==
  /\ stall = "stored" /\ stall' = "spent" /\ EndLive /\ UNCHANGED <<Rest, live, clock>>

\* The operator: Ctrl-C or Stop, and an instruction for the run at work.
Interrupt ==
  /\ pc # "done" /\ ~ctx /\ ctx' = TRUE
  /\ UNCHANGED <<job, status, refiled, clock, heard, pc, sess, said, turns, flow, retry, why,
                 answer, patience, malformed, roles, models, phase, acct, inbox, stall, fuel>>
TypeSteer(q) ==
  /\ pc # "done" /\ steers[q] = "none" /\ steers' = [steers EXCEPT ![q] = "inbox"]
  /\ UNCHANGED <<fixed, pc, sess, said, turns, flow, retry, why, answer, patience, malformed,
                 roles, models, phase, acct, steering, prev, stall, fuel>>

-----------------------------------------------------------------------------
(* Settling: what execute makes of the causes it has collected.             *)

\* A slip: a spent budget outranks an answer that is filed.
VerdictBudgetFirst ==
  IF "breach" \in why THEN "failed"
  ELSE IF TimedOut \/ "over" \in why THEN "over_budget"
  ELSE IF phase = "note" \/ final # None \/ reply THEN "completed"
  ELSE IF why \cap {"interrupted", "ask", "limit"} # {} THEN "blocked"
  ELSE "failed"

\* A slip: an answer completes the run though it could not be filed.
VerdictAnyAnswer ==
  IF "breach" \in why THEN "failed"
  ELSE IF phase = "note" \/ final # None \/ reply THEN "completed"
  ELSE IF TimedOut \/ "over" \in why THEN "over_budget" ELSE "failed"

\* The causes in the order execute asks after them.
Verdict ==
  IF "breach" \in why THEN "failed"
  ELSE IF phase = "note" THEN "completed"
  ELSE IF "blind" \in why THEN "failed"
  ELSE IF final # None \/ reply THEN (IF fileErr THEN "failed" ELSE "completed")
  ELSE IF TimedOut \/ "over" \in why THEN "over_budget"
  ELSE IF why \cap {"interrupted", "ask", "limit"} # {} THEN "blocked"
  ELSE IF "failure" \in why THEN "failed"
  ELSE IF why \cap {"question", "parked"} # {} THEN "blocked"
  ELSE "failed"

\* holdSteers, the reaping of every session read, and finish.
Settle ==
  /\ pc = "settling" /\ pc' = "done"
  /\ steers' = [q \in Steers |-> IF steers[q] \in {"inbox", "queued"} THEN "held" ELSE steers[q]]
  /\ LET reported == {seen} \cup {turns[n] : n \in read \ folded}
     IN \E t \in reported : (\A u \in reported : u <= t) /\ seen' = t
  /\ status' = Verdict
  /\ notes' = IF phase # "note" \/ (final # None /\ ~fileErr) THEN notes ELSE Restored
  /\ phase' = "main" /\ stall' = Stopped(stall)
  /\ UNCHANGED <<job, refiled, clock, ctx, heard, sess, said, turns, flow, retry, why, final,
                 reply, fileErr, filed, patience, malformed, roles, models, base, folded,
                 steering, prev, fuel>>

Emit ==
  \/ Drained \/ Activity \/ Usage \/ RateLimited \/ Question \/ Denied \/ Asks
  \/ ModelLimit \/ Malformed \/ Breach \/ Blind
  \/ FinalDropped \/ SwitchModel \/ NoteAnswered \/ NoteRefused
  \/ ReplyAnswered \/ ReplyEmpty
Reader == StartFails \/ Begin \/ SwitchSession \/ SeeInterrupt \/ PickUpSteers \/ Settle
Timers == ClockFires \/ ClockCancels \/ StallFires \/ StallStores \/ StallCancels
Operator == Interrupt \/ \E q \in Steers : TypeSteer(q)
Done == pc = "done" /\ UNCHANGED vars

Next == Emit \/ StreamEnds \/ Reader \/ Timers \/ Operator \/ Done
Spec == Init /\ [][Next]_vars

\* What the scheduling gives: the reader runs, a timer that is due fires, and
\* a session that was cancelled or closed ends.  A session left open need not
\* ever speak or end.
Fairness ==
  /\ WF_vars(StartFails \/ Begin) /\ WF_vars(SwitchSession) /\ WF_vars(Settle)
  /\ WF_vars(SeeInterrupt)
  /\ WF_vars(pc = "reading" /\ sess[cur] # "open" /\ StreamEnds)
  /\ WF_vars(ClockFires) /\ WF_vars(ClockCancels)
  /\ WF_vars(StallFires) /\ WF_vars(StallStores) /\ WF_vars(StallCancels)
FairSpec == Spec /\ Fairness
-----------------------------------------------------------------------------
(* What must hold.                                                          *)

SessionTypes ==
  /\ sess \in [Sessions -> {"none", "open", "ending", "ended"}]
  /\ said \subseteq Sessions /\ turns \in [Sessions -> Nat]
  /\ read \subseteq Sessions /\ folded \subseteq Sessions
RoleTypes ==
  /\ cur \in Ids /\ retry \in Ids /\ live \in Ids /\ heard \in Ids
  /\ noteSess \in Ids /\ wrapUp \in Ids /\ capped \in Ids
  /\ pc \in {"reading", "switching"} => cur # 0
AnswerTypes ==
  /\ final \in Docs \cup {None} /\ prev \in Docs \cup {None}
  /\ reply \in BOOLEAN /\ fileErr \in BOOLEAN /\ retried \in BOOLEAN
  /\ notes \in BOOLEAN /\ refiled \in BOOLEAN /\ dropped \in BOOLEAN
  /\ steering \in BOOLEAN /\ ctx \in BOOLEAN
CounterTypes ==
  /\ empties \in 0 .. MaxEmpty /\ malformed \in 0 .. MaxMalformed
  /\ filed \in Nat /\ base \in Nat /\ seen \in Nat /\ fuel \in 0 .. MaxFuel
StateTypes ==
  /\ job \in JobKinds /\ pc \in {"starting", "reading", "switching", "settling", "done"}
  /\ status \in {"preparing", "running", "completed", "failed", "blocked", "over_budget"}
  /\ why \subseteq Reasons /\ phase \in {"main", "note"}
  /\ model \in Models /\ tried \subseteq Models
  /\ steers \in [Steers -> {"none", "inbox", "queued", "delivered", "held"}]
  /\ clock \in {"off", "armed", "stored", "spent"} /\ stall \in StallStates
\* The types of the execution's fields, the bounds of its counters among them.
TypeOK == SessionTypes /\ RoleTypes /\ AnswerTypes /\ CounterTypes /\ StateTypes

\* The timers fire once, at whatever session is live.  However that falls
\* between the end of one session and the start of the next, no session is
\* left running past a timer that has spent itself (execute.go:1057-1064).
TimerReachesReader ==
  pc = "reading" /\ (clock = "spent" \/ stall = "spent") => sess[cur] # "open"

\* Once a breach, a session that read nothing, a budget or a question stopped
\* the run, or the note turn gave up, an answer still in flight is not filed.
GivenUp ==
  \/ why \cap {"breach", "blind", "over", "ask"} # {}
  \/ NoteTurn /\ "noteErr" \in why
NothingFiledOnceStopped == [][GivenUp => filed' = filed]_vars

Delivered == {q \in Steers : steers[q] = "delivered"}

\* Every session started is read and reaped: none is left running with
\* nothing waiting for it (execute.go:1819-1822).
NoOrphan == \A n \in Sessions : sess[n] = "open" => n \in {cur, retry}

\* What a session spent is never handed back to the run.
UsageNeverRefunded == [][base' + seen' >= base + seen]_vars

\* Once a breach, a budget or a question ended the session, the stall guard
\* cannot fire behind it and misname the reason (execute.go:1316-1319).
StallNeverMisnames == why \cap {"breach", "over", "ask"} # {} => stall # "armed"

\* A completed run has its note (docs/architecture.md, "completed" writes it).
CompletedHasNote ==
  pc = "done" /\ job = "note" /\ status = "completed" => notes /\ ~fileErr
HalfFiled == TwoNotes /\ fileErr
NoteMeansCompleted ==
  pc = "done" /\ job = "note" /\ notes /\ ~HalfFiled /\ why \cap {"breach", "blind"} = {}
    => status = "completed"

\* A note and its run's verdict agree: a completed run has its note, filed to
\* the end; a run that has its note completes whatever timer, budget, interrupt
\* or late failure falls in between, unless it is an rca whose filing failed
\* after its first note (execute.go:2600-2611); and an Update note that files
\* nothing puts the note it set aside back.
NotesKept ==
  /\ CompletedHasNote /\ NoteMeansCompleted
  /\ pc = "done" /\ refiled => notes

FiledOncePerAnswer ==
  filed <= (IF NoteAfter THEN 2 ELSE 1) + Cardinality(Delivered)
ReplySurvivesNoteTurn ==
  pc = "done" /\ NoteAfter /\ filed > Cardinality(Delivered) /\ "breach" \notin why
    => status = "completed"

\* An answer is filed once and stands.  A session that repeats its result, or
\* one drained beside its successor, files nothing twice: one note and one
\* reply, and one more answer for every instruction delivered mid-run.  Once a
\* reply is stored, nothing that happens to the note turn (a cap, a refusal, a
\* timer, an interrupt, a note that cannot be filed) fails the run; only a
\* breach does.
AnswersStand == FiledOncePerAnswer /\ ReplySurvivesNoteTurn

\* What the execution promises its caller (RunPromise).  A breach condemns
\* the run, and so does a session that read nothing, unless its answer was a
\* reply that stands already; a run in the note phase stands on its reply.
Standing ==
  IF pc = "done" THEN status = "completed"
  ELSE phase = "note" \/ ((final # None \/ reply) /\ ~fileErr)
Condemned == "breach" \in why \/ ("blind" \in why /\ phase # "note")
Promised == INSTANCE RunPromise WITH
  state <- IF pc = "done" THEN status ELSE "working",
  standing <- Standing, condemned <- Condemned
Implements == Promised!Promise

\* Every execution settles.
Settles == <>(pc = "done")
=============================================================================
