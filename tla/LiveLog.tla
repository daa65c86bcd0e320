------------------------------ MODULE LiveLog ------------------------------
(***************************************************************************)
(* Who publishes the lines of one run's events.jsonl: the executor's sink, *)
(* when the application hosts the run (internal/app/live.go,               *)
(* internal/run/sink.go), and the watcher that polls the run directories   *)
(* (internal/app/watcher.go), which is the only one to see a run the       *)
(* command line started in another process.  The two share a cursor per    *)
(* run, kept in a registry from the first line a hosted run appends to the *)
(* first idle sweep after it closed its log.                               *)
(*                                                                         *)
(* Lines have one size, so an offset counts lines; every line decodes.     *)
(* The registry of runs, the deletion of a run directory and a truncated   *)
(* log are left out.                                                       *)
(***************************************************************************)
EXTENDS Integers, Sequences, FiniteSets

CONSTANTS
    Scenes,     \* who takes turns at the run, a subset of {"app", "cli"}, and how
                \* many lines fix.appendReview writes outside a turn
    LogLines,   \* bound: lines in the log
    MaxTurns    \* bound: turns (a first run, a steer, a resume, an Update note)

ASSUME LiveLogAssumption ==
    /\ Scenes \subseteq [hosts : SUBSET {"app", "cli"}, asides : Nat]
    /\ LogLines \in Nat \ {0} /\ MaxTurns \in Nat

VARIABLES
    file,     \* lines in events.jsonl
    status,   \* state.json: "absent", "active" (preparing, running) or "ended"
    host,     \* who has the turn under way, "none" between turns
    stage,    \* how far that turn has got
    turns,    \* turns taken
    asides,   \* lines written outside a turn
    cursors,  \* every liveCursor made so far: [offset, index, closed]
    entry,    \* the registry's cursor for the run, NoCursor when it has none
    held,     \* the cursor an append under way was given, NoCursor when none is
    sweep,    \* how far the watcher's sweep has got
    locked,   \* the cursor whose lock the sweep holds, NoCursor when it holds none
    known,    \* whether the watcher tracks the run
    at,       \* watchedRun: [offset, index] of the last line consumed
    saw,      \* watchedRun.status
    grace,    \* whether flushUntil lies ahead
    scene,    \* which of Scenes this run is, fixed from the start
    adopted,  \* lines the log held when the watcher started
    pub       \* ghost: line -> the indices it was published under, in order

executor == <<host, stage, turns>>
disk     == <<file, status, asides>>
registry == <<cursors, entry, held>>
watcher  == <<sweep, locked, known, at, saw, grace>>
given    == <<scene, adopted>>
logVars == <<executor, disk, registry, watcher, given, pub>>

NoCursor == 0

\* A turn's stages: preparing a new run, an Update note's first line to write
\* and written, waiting for its session, logging, and closing its log.
Stages == {"none", "prepare", "prelude", "written", "resume", "live", "close"}

-----------------------------------------------------------------------------
(* The turns of a run.                                                      *)

\* A line is published under index i.
Publish(line, i) == pub' = [pub EXCEPT ![line] = Append(@, i)]

\* A new run: its directory and state.json appear, preparing.
NewRun(h) ==
    /\ host = "none" /\ status = "absent" /\ turns < MaxTurns
    /\ host' = h
    /\ stage' = "prepare"
    /\ turns' = turns + 1
    /\ status' = "active"
    /\ UNCHANGED <<file, asides, registry, watcher, given, pub>>

\* Another turn at a finished run. A steer and a resume write nothing before
\* their session has started; an Update note appends one line first.
NextTurn(h, first) ==
    /\ host = "none" /\ status = "ended" /\ turns < MaxTurns
    /\ host' = h
    /\ stage' = first
    /\ turns' = turns + 1
    /\ UNCHANGED <<disk, registry, watcher, given, pub>>

Logging == stage \in {"prepare", "prelude", "live"}

\* A slip: a cursor that starts at the head of the log.
FromTheTop == 0

\* logExtent: a cursor starts after what the log already holds.
Extent == file

\* liveRuns.open: the run's cursor, made when the registry has none.
OpenCursor ==
    /\ host = "app" /\ Logging /\ held = NoCursor
    /\ file < LogLines
    /\ IF entry # NoCursor
       THEN held' = entry /\ UNCHANGED <<cursors, entry>>
       ELSE /\ cursors' = Append(cursors,
                            [offset |-> Extent, index |-> Extent, closed |-> FALSE])
            /\ entry' = Len(cursors')
            /\ held' = entry'
    /\ UNCHANGED <<executor, disk, watcher, given, pub>>

\* Where an append goes on after its line.
AfterLine == IF stage = "prelude" THEN "written" ELSE stage

\* A slip: the line counted by the write and by the publication.
AdvancedTwice(c) ==
    [offset |-> c.offset + 2, index |-> c.index + 1, closed |-> FALSE]

\* A cursor after one more line; a turn that appends has reopened the log.
Advanced(c) ==
    [offset |-> c.offset + 1, index |-> c.index + 1, closed |-> FALSE]

\* Service.Append under the cursor's lock: the line is written, counted and
\* published before the lock is let go.
AppendLine ==
    /\ held # NoCursor /\ locked # held
    /\ file' = file + 1
    /\ cursors' = [cursors EXCEPT ![held] = Advanced(@)]
    /\ Publish(file + 1, cursors[held].index + 1)
    /\ held' = NoCursor
    /\ stage' = AfterLine
    /\ UNCHANGED <<host, turns, status, asides, entry, watcher, given>>

\* A turn in another process writes straight to the file.
WriteLine ==
    /\ host = "cli" /\ Logging
    /\ file < LogLines
    /\ file' = file + 1
    /\ stage' = AfterLine
    /\ UNCHANGED <<host, turns, status, asides, registry, watcher, given, pub>>

\* Done: the cursor the registry has is closed, under its lock.
CloseEntry ==
    IF host = "app" /\ entry # NoCursor
    THEN /\ locked # entry
         /\ cursors' = [cursors EXCEPT ![entry].closed = TRUE]
    ELSE UNCHANGED cursors

\* prepare, and an Update note after its line, close the log; execute opens it
\* again for the session.
EndPrepare ==
    /\ stage \in {"prepare", "written"} /\ held = NoCursor
    /\ stage' = "resume"
    /\ CloseEntry
    /\ UNCHANGED <<host, turns, disk, entry, held, watcher, given, pub>>

\* The provider's session started: state.json says running, then the log is
\* opened; or it did not start, and finish writes the run's end.
StartSession ==
    /\ stage = "resume"
    /\ \/ status' = "active" /\ stage' = "live" /\ UNCHANGED host
       \/ status' = "ended" /\ stage' = "none" /\ host' = "none"
    /\ UNCHANGED <<turns, file, asides, registry, watcher, given, pub>>

\* finish writes the terminal state, and the log is closed after it.
Finish ==
    /\ stage = "live" /\ held = NoCursor
    /\ status' = "ended"
    /\ stage' = "close"
    /\ UNCHANGED <<host, turns, file, asides, registry, watcher, given, pub>>

CloseLog ==
    /\ stage = "close"
    /\ CloseEntry
    /\ host' = "none"
    /\ stage' = "none"
    /\ UNCHANGED <<turns, disk, entry, held, watcher, given, pub>>

\* fix.appendReview: a dropped hunk is logged on a finished run, past the sink.
Aside ==
    /\ status = "ended" /\ host = "none"
    /\ asides < scene.asides /\ file < LogLines
    /\ asides' = asides + 1
    /\ file' = file + 1
    /\ UNCHANGED <<executor, status, registry, watcher, given, pub>>

Turn ==
    \/ \E h \in scene.hosts : NewRun(h) \/ NextTurn(h, "prelude") \/ NextTurn(h, "resume")
    \/ OpenCursor \/ AppendLine \/ WriteLine
    \/ EndPrepare \/ StartSession \/ Finish \/ CloseLog
    \/ Aside

-----------------------------------------------------------------------------
(* The watcher's sweep over the run: state.json, then the log or the        *)
(* registry.                                                                *)

\* A run first seen now, or one that left the active states, is tailed for the
\* grace period.
Lingers == ~known \/ (saw = "active" /\ status # "active")

\* A run found by a later sweep than the first is read from its first line.
Found == at

\* The grace period may have passed by any sweep after the one it began at.
Check ==
    /\ sweep = "rest" /\ status # "absent"
    /\ known' = TRUE
    /\ saw' = status
    /\ \E lasting \in BOOLEAN :
         /\ lasting => grace
         /\ grace' = (Lingers \/ lasting)
    /\ at' = Found
    /\ sweep' = IF saw' = "active" \/ grace' THEN "look" ELSE "release"
    /\ UNCHANGED <<executor, disk, registry, locked, given, pub>>

\* The watcher goes on from the cursor when that is further on.
TakeOver(c) ==
    IF c.offset > at.offset THEN [offset |-> c.offset, index |-> c.index] ELSE at

\* read finds the registry's cursor, whose lock it holds until it has read, or
\* finds none.
Look ==
    /\ sweep = "look"
    /\ sweep' = "tail"
    /\ locked' = entry
    /\ at' = IF entry = NoCursor THEN at ELSE TakeOver(cursors[entry])
    /\ UNCHANGED <<executor, disk, registry, known, saw, grace, given, pub>>

\* A slip: what was read is not counted as read.
NotConsumed == at

Consumed == [offset |-> file, index |-> at.index + (file - at.offset)]

\* Every line past the offset is published, and counted.
ReadOn ==
    /\ sweep = "tail"
    /\ sweep' = "rest"
    /\ locked' = NoCursor
    /\ at' = Consumed
    /\ pub' = [i \in DOMAIN pub |->
                 IF i > at.offset /\ i <= file
                 THEN Append(pub[i], at.index + (i - at.offset)) ELSE pub[i]]
    /\ UNCHANGED <<executor, disk, registry, known, saw, grace, given>>

\* releaseIfClosed: nothing more is tailed, and a closed cursor goes.
Release ==
    /\ sweep = "release"
    /\ sweep' = "rest"
    /\ entry' = IF entry # NoCursor /\ cursors[entry].closed THEN NoCursor ELSE entry
    /\ UNCHANGED <<executor, disk, cursors, held, locked, known, at, saw, grace,
                   given, pub>>

Sweep == Check \/ Look \/ ReadOn \/ Release

-----------------------------------------------------------------------------

\* The application starts with the run absent, or finished with some lines,
\* which its first sweep adopts without publishing them.
LogInit ==
    /\ scene \in Scenes
    /\ adopted \in {0, 1}
    /\ file = adopted
    /\ status = IF adopted = 0 THEN "absent" ELSE "ended"
    /\ host = "none" /\ stage = "none" /\ turns = 0 /\ asides = 0
    /\ cursors = <<>> /\ entry = NoCursor /\ held = NoCursor
    /\ sweep = "rest" /\ locked = NoCursor
    /\ known = (adopted > 0)
    /\ at = [offset |-> adopted, index |-> adopted]
    /\ saw = status
    /\ grace = FALSE
    /\ pub = [i \in 1..LogLines |-> <<>>]

LogNext == Turn \/ Sweep

LogSpec == LogInit /\ [][LogNext]_logVars

-----------------------------------------------------------------------------

\* The state has its shape, and no reader stands past the end of the log.
LogTypeOK ==
    /\ file \in Nat /\ adopted \in Nat /\ turns \in Nat /\ asides \in Nat
    /\ status \in {"absent", "active", "ended"}
    /\ scene \in Scenes /\ host \in {"none"} \cup scene.hosts
    /\ stage \in Stages
    /\ cursors \in Seq([offset : Nat, index : Nat, closed : BOOLEAN])
    /\ entry \in 0..Len(cursors) /\ held \in 0..Len(cursors)
    /\ locked \in 0..Len(cursors)
    /\ sweep \in {"rest", "look", "tail", "release"}
    /\ known \in BOOLEAN /\ grace \in BOOLEAN
    /\ at \in [offset : Nat, index : Nat] /\ at.offset <= file
    /\ \A k \in 1..Len(cursors) : cursors[k].offset <= file
    /\ saw \in {"absent", "active", "ended"}
    /\ pub \in [1..LogLines -> Seq(Nat)]

IndexIsPlace ==
    \A i \in 1..file : \A k \in 1..Len(pub[i]) : pub[i][k] = i
NothingPassedOver ==
    \A i \in 1..at.offset : i > adopted => pub[i] # <<>>

\* The published log is the file.  A line goes out under its place in it,
\* whoever publishes it and however often: the window drops what repeats an
\* index it has, and asks for what follows one.  And what the watcher has gone
\* past was published, or was there when it started.
PublishedIsTheLog == IndexIsPlace /\ NothingPassedOver

\* A run of the command line alone has each of its lines published once, over
\* any number of turns, polls and grace periods: the offset the watcher keeps
\* between two tails is the end of what it published.
OncePerLine ==
    scene.hosts = {"cli"} => \A i \in 1..file : Len(pub[i]) <= 1
=============================================================================
