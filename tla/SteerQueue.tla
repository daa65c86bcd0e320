----------------------------- MODULE SteerQueue -----------------------------
(***************************************************************************)
(* Instructions typed at a run while it works, from the inbox they are     *)
(* appended to (internal/store/steerqueue.go) to the session that reads    *)
(* them (internal/run/livesteer.go) or the job that applies them once the  *)
(* run has settled (internal/app/livesteer.go).                            *)
(*                                                                         *)
(* The run directory holds two files.  steers.jsonl only grows.            *)
(* state.json is read and written whole, by the executor from its own copy *)
(* and by whoever applies held instructions, with no lock between them: a  *)
(* read and the write that follows it are two steps here.                  *)
(*                                                                         *)
(* A job is a goroutine of the desktop app or a command of the CLI: it     *)
(* executes the run, or applies what is held, or both in turn.             *)
(***************************************************************************)
EXTENDS Naturals, FiniteSets

CONSTANTS
    Steers,      \* instructions
    OtherModel,  \* those that name a model the run is not on
    Jobs,        \* jobs that may be started at the run
    Host,        \* the one that prepared it
    Procs,       \* processes
    App,         \* the desktop app or sirdar serve; the others are commands
    Scenes,      \* where each job runs; whether a finished run's webhook may
                 \* refuse its post; whether an operator who sees the run settled
                 \* starts a job while another is under way; whether it is a fix
    MaxPasses,   \* passes of one ApplyHeldSteers (8 in the code)
    None         \* no job

ASSUME SteerQueueAssumption ==
    /\ OtherModel \subseteq Steers
    /\ App \in Procs /\ Host \in Jobs /\ None \notin Jobs
    /\ Scenes \subseteq [home : [Jobs -> Procs], notifyFails : BOOLEAN, overlap : BOOLEAN,
                        fix : BOOLEAN]
    /\ MaxPasses \in Nat \ {0}

VARIABLES
    scene,    \* which of Scenes this is, fixed from the start
    inbox,    \* steers.jsonl
    disk,     \* state.json: [status, queue]
    typing,   \* how far each instruction's typist has got
    pc,       \* where each job stands
    mem,      \* each job's copy of the state
    batch,    \* instructions the job's next session is started with
    passes,   \* passes its ApplyHeldSteers has left
    rounds,   \* ApplyHeldSteers calls the job has still to make
    lock,     \* heldLocks: process -> the job that holds the run's lock
    stopped,  \* jobs whose context the operator has cancelled
    read      \* ghost: times a session was given the instruction

files == <<inbox, disk>>
job   == <<pc, mem, batch, passes, rounds>>
vars  == <<scene, files, typing, job, lock, stopped, read>>

\* A run's status: "live" is preparing or running; "kept" and "stopped" are
\* blocked, by a question or a limit and by a person; "open" can be steered
\* and "spent" cannot.
Ends     == {"open", "spent", "kept", "stopped"}
Verdicts == {"absent", "queued", "held", "delivered", "applied", "dropped"}
State    == [status : Ends \cup {"live"}, queue : [Steers -> Verdicts]]

Home == scene.home
Typists == {Home[j] : j \in Jobs}

Live(st) == st.status = "live"
Pending(st) == {q \in Steers : st.queue[q] \in {"queued", "held"}}

\* A slip: an inbox line is queued whatever the state says of it.
MergedAgain(st) ==
    [st EXCEPT !.queue = [q \in Steers |-> IF q \in inbox THEN "queued" ELSE @[q]]]

\* MergeSteerInbox: the state's own entries win.
Merged(st) ==
    [st EXCEPT !.queue = [q \in Steers |->
        IF @[q] = "absent" /\ q \in inbox THEN "queued" ELSE @[q]]]

\* ResolveSteers.
Resolved(st, B, verdict) ==
    [st EXCEPT !.queue = [q \in Steers |-> IF q \in B THEN verdict ELSE @[q]]]

\* The whole file, as the executor writes it from its copy.
Working(st) == [st EXCEPT !.status = "live"]

Given(B) == read' = [q \in Steers |-> read[q] + (IF q \in B THEN 1 ELSE 0)]
Goes(j, to) == pc' = [pc EXCEPT ![j] = to]
Copies(j, st) == mem' = [mem EXCEPT ![j] = st]
Idle == {j \in Jobs : pc[j] = "idle"}

\* Nothing is under way at the run.
Quiet ==
    /\ \A j \in Jobs : pc[j] \in {"idle", "done"}
    /\ \A q \in Steers : typing[q].stage \in {"none", "told", "unheard"}

\* The job is inside ApplyHeldSteers.
Applying(j) == lock[Home[j]] = j

-----------------------------------------------------------------------------
(* Who types.                                                               *)

\* QueueLiveSteer finds the run working, and will append.
SeeLive(q, p) ==
    /\ typing[q].stage = "none" /\ Live(disk)
    /\ typing' = [typing EXCEPT ![q] = [stage |-> "seen", proc |-> p]]
    /\ UNCHANGED <<scene, files, job, lock, stopped, read>>

\* QueueSteer. A command then only waits to be told; the service looks again.
QueueSteer(q) ==
    /\ typing[q].stage = "seen"
    /\ inbox' = inbox \cup {q}
    /\ typing' = [typing EXCEPT ![q].stage =
                    IF typing[q].proc = App THEN "queued" ELSE "told"]
    /\ UNCHANGED <<scene, disk, job, lock, stopped, read>>

\* A slip: the service does not look at the run again.
TrustsTheQueue == FALSE

\* The run settled between the service's look and its append.
SettledSince == ~Live(disk)

\* Service.Steer looks again, and applies what is held if the run has settled:
\* once as the job's work, once more as every job does at its end. A job whose
\* workspace or provider cannot be built applies nothing, and only logs it.
LookAgain(q) ==
    /\ typing[q].stage = "queued"
    /\ \/ /\ SettledSince
          /\ typing' = [typing EXCEPT ![q].stage = "told"]
          /\ \E j \in Idle :
               /\ Home[j] = App
               /\ Goes(j, "apply")
               /\ rounds' = [rounds EXCEPT ![j] = 2]
               /\ UNCHANGED <<mem, batch, passes>>
       \/ /\ typing' = [typing EXCEPT ![q].stage = IF SettledSince THEN "unheard" ELSE "told"]
          /\ UNCHANGED job
    /\ UNCHANGED <<scene, files, lock, stopped, read>>

\* Service.Steer and cmdSteer on a settled run: a session of its own. A run
\* that cannot be steered refuses it, and so may what the job is built from.
SteerSettled(q, p) ==
    /\ typing[q].stage = "none" /\ ~Live(disk)
    /\ scene.overlap \/ Quiet
    /\ typing' = [typing EXCEPT ![q] = [stage |-> "told", proc |-> p]]
    /\ \/ /\ disk.status # "spent"
          /\ \E j \in Idle :
               /\ Home[j] = p
               /\ Goes(j, "steer")
               /\ batch' = [batch EXCEPT ![j] = {q}]
               /\ rounds' = [rounds EXCEPT ![j] = 1]
               /\ UNCHANGED <<mem, passes>>
       \/ UNCHANGED job
    /\ UNCHANGED <<scene, files, lock, stopped, read>>

\* Resume of a run at rest: it refuses none but a shadow run.
Resume(j) ==
    /\ j \in Idle
    /\ scene.overlap \/ Quiet
    /\ Goes(j, "begin")
    /\ Copies(j, disk)
    /\ rounds' = [rounds EXCEPT ![j] = 1]
    /\ UNCHANGED <<scene, files, typing, batch, passes, lock, stopped, read>>

\* Stop or Ctrl-C.
Stop(j) ==
    /\ pc[j] \notin {"idle", "done"} /\ j \notin stopped
    /\ stopped' = stopped \cup {j}
    /\ UNCHANGED <<scene, files, typing, job, lock, read>>

-----------------------------------------------------------------------------
(* The executor.                                                            *)

\* execute starts the session, says running, and picks up what was typed while
\* the run prepared; or nothing starts and the run has its end at once.
Begin(j) ==
    /\ pc[j] = "begin"
    /\ Copies(j, Merged(mem[j]))
    /\ disk' = Working(Merged(mem[j]))
    /\ Given(batch[j])
    /\ Goes(j, "work")
    /\ UNCHANGED <<scene, inbox, typing, batch, passes, rounds, lock, stopped>>

\* fix.Run and fix.Steer record what became of the branch when their session is
\* over; the resume of a fix run does not.
OwesRecord(j) == scene.fix /\ (j = Host \/ batch[j] # {})

\* Where a job goes when its run has settled: on with the pass it is in, or
\* into ApplyHeldSteers, as every job does but a command whose fix failed.
AfterRun(j) ==
    IF Applying(j) THEN {"look"}
    ELSE {"apply"} \cup (IF OwesRecord(j) /\ Home[j] # App THEN {"done"} ELSE {})

\* A fix records its branch, its commit or its failure first.
AfterWrite(j) == AfterRun(j) \cup (IF OwesRecord(j) THEN {"record"} ELSE {})

\* finish writes the end, posts the digest, and writes again when a webhook
\* refused the post.
Finishes(j, end) ==
    /\ disk' = [mem[j] EXCEPT !.status = end]
    /\ Copies(j, disk')
    /\ \/ \E to \in AfterWrite(j) : Goes(j, to)
       \/ scene.notifyFails /\ Goes(j, "notified")
    /\ passes' = [passes EXCEPT ![j] = IF Applying(j) THEN @ - 1 ELSE @]

NeverStarts(j) ==
    /\ pc[j] = "begin"
    /\ \/ Finishes(j, "open")
       \/ j \in stopped /\ Finishes(j, "stopped")
    /\ UNCHANGED <<scene, inbox, typing, batch, rounds, lock, stopped, read>>

WriteAgain(j) ==
    /\ pc[j] = "notified"
    /\ disk' = mem[j]
    /\ \E to \in AfterWrite(j) : Goes(j, to)
    /\ UNCHANGED <<scene, inbox, typing, mem, batch, passes, rounds, lock, stopped, read>>

\* recordCommit, recordFixState and markRunFailed: state.json is read whole and
\* written whole, the run's fields of a fix changed or its status failed.
ReadRecord(j) ==
    /\ pc[j] = "record"
    /\ Copies(j, disk)
    /\ Goes(j, "recording")
    /\ UNCHANGED <<scene, files, typing, batch, passes, rounds, lock, stopped, read>>

WriteRecord(j) ==
    /\ pc[j] = "recording"
    /\ \E end \in {mem[j].status, "open"} : disk' = [mem[j] EXCEPT !.status = end]
    /\ \E to \in AfterWrite(j) : Goes(j, to)
    /\ UNCHANGED <<scene, inbox, typing, mem, batch, passes, rounds, lock, stopped, read>>

\* pickUpSteers on its ticker, and every other time the executor writes its
\* copy: a usage line, a switch of models, a note filed.
Save(j) ==
    /\ pc[j] = "work"
    /\ \E st \in {mem[j], Merged(mem[j])} :
         /\ disk # Working(st)
         /\ Copies(j, st)
         /\ disk' = Working(st)
    /\ UNCHANGED <<scene, inbox, typing, pc, batch, passes, rounds, lock, stopped, read>>

\* deliverSteers at a turn boundary outside the note turn, in a session that
\* takes another message. A session that does not leaves them to be held.
Deliver(j) ==
    /\ pc[j] = "work"
    /\ LET st == Merged(mem[j])
           B  == Pending(st) \ OtherModel
       IN /\ B # {}
          /\ Copies(j, Resolved(st, B, "delivered"))
          /\ disk' = Working(Resolved(st, B, "delivered"))
          /\ Given(B)
    /\ UNCHANGED <<scene, inbox, typing, pc, batch, passes, rounds, lock, stopped>>

HeldState(st) == [st EXCEPT !.queue = [q \in Steers |->
    IF @[q] = "queued" THEN "held" ELSE @[q]]]

\* holdSteers: the executor's last look at the inbox. What it picks up is
\* written as queued, and written as held by finish.
HoldSteers(j) ==
    /\ pc[j] = "work"
    /\ LET st == Merged(mem[j])
       IN /\ Copies(j, HeldState(st))
          /\ disk' = IF st # mem[j] THEN Working(st) ELSE disk
    /\ Goes(j, "ending")
    /\ UNCHANGED <<scene, inbox, typing, batch, passes, rounds, lock, stopped, read>>

Finish(j) ==
    /\ pc[j] = "ending"
    /\ \E end \in Ends :
         /\ end = "stopped" => j \in stopped
         /\ Finishes(j, end)
    /\ UNCHANGED <<scene, inbox, typing, batch, rounds, lock, stopped, read>>

-----------------------------------------------------------------------------
(* ApplyHeldSteers.                                                         *)

\* A slip: no lock is taken.
AlwaysFree(p) == TRUE

Free(p) == lock[p] = None

Lock(j) ==
    /\ pc[j] = "apply" /\ Free(Home[j])
    /\ lock' = [lock EXCEPT ![Home[j]] = j]
    /\ passes' = [passes EXCEPT ![j] = MaxPasses]
    /\ Goes(j, "look")
    /\ UNCHANGED <<scene, files, typing, mem, batch, rounds, stopped, read>>

\* The loop ends and the lock is let go.
Leaves(j) ==
    /\ lock' = [lock EXCEPT ![Home[j]] = None]
    /\ rounds' = [rounds EXCEPT ![j] = @ - 1]
    /\ Goes(j, IF rounds[j] > 1 THEN "apply" ELSE "done")

\* Stop means stop, and a run nothing can steer keeps nothing.
Drops(st) == st.status \in {"stopped", "spent"}

\* One pass opens the run and looks at what it still owes.
LookHeld(j) ==
    /\ pc[j] = "look"
    /\ LET st == Merged(disk)
           held == Pending(st)
           idle == passes[j] = 0 \/ held = {} \/ Live(st)
       IN /\ Copies(j, st)
          /\ batch' = [batch EXCEPT ![j] = held]
          /\ \/ /\ idle \/ st.status = "kept" \/ (~Drops(st) /\ j \in stopped)
                /\ Leaves(j)
             \/ /\ ~idle /\ Drops(st)
                /\ Goes(j, "drop") /\ UNCHANGED <<lock, rounds>>
             \/ /\ ~idle /\ ~Drops(st) /\ st.status # "kept" /\ j \notin stopped
                /\ Goes(j, "mark") /\ UNCHANGED <<lock, rounds>>
    /\ UNCHANGED <<scene, files, typing, passes, stopped, read>>

DropHeld(j) ==
    /\ pc[j] = "drop"
    /\ disk' = Resolved(mem[j], batch[j], "dropped")
    /\ Leaves(j)
    /\ UNCHANGED <<scene, inbox, typing, mem, batch, passes, stopped, read>>

\* A slip: the instructions are marked when their session is over.
MarkedLater(j) == mem[j]

\* The mark an applier leaves before it starts the session.
Marked(j) == Resolved(mem[j], batch[j], "applied")

MarkApplied(j) ==
    /\ pc[j] = "mark"
    /\ disk' = Marked(j)
    /\ Goes(j, "steer")
    /\ UNCHANGED <<scene, inbox, typing, mem, batch, passes, rounds, lock, stopped, read>>

\* Runner.Steer opens the run again: a live or spent one refuses, and so may
\* the provider, the bundle or the worktree. A refusal of fix.Steer names the
\* run it refuses, which the applier takes for a session that was: the mark
\* stays, and the next pass looks.
Steer(j) ==
    /\ pc[j] = "steer"
    /\ \/ /\ disk.status \notin {"live", "spent"}
          /\ Copies(j, disk) /\ Goes(j, "begin") /\ UNCHANGED passes
       \/ UNCHANGED mem
          /\ Goes(j, IF Applying(j) THEN (IF scene.fix THEN "look" ELSE "reopen")
                     ELSE IF Home[j] = App THEN "apply" ELSE "done")
          /\ passes' = [passes EXCEPT ![j] = IF Applying(j) /\ scene.fix THEN @ - 1 ELSE @]
    /\ UNCHANGED <<scene, files, typing, batch, rounds, lock, stopped, read>>

\* Refused before a session started: the run is opened once more, and the
\* instructions say they did not happen.
Reopen(j) ==
    /\ pc[j] = "reopen"
    /\ Copies(j, disk)
    /\ Goes(j, "drop")
    /\ UNCHANGED <<scene, files, typing, batch, passes, rounds, lock, stopped, read>>

-----------------------------------------------------------------------------

\* The run has just been prepared by its host, nobody has typed anything.
Init ==
    /\ scene \in Scenes
    /\ inbox = {}
    /\ disk = [status |-> "live", queue |-> [q \in Steers |-> "absent"]]
    /\ typing = [q \in Steers |-> [stage |-> "none", proc |-> App]]
    /\ pc = [j \in Jobs |-> IF j = Host THEN "begin" ELSE "idle"]
    /\ mem = [j \in Jobs |-> disk]
    /\ batch = [j \in Jobs |-> {}]
    /\ passes = [j \in Jobs |-> 0]
    /\ rounds = [j \in Jobs |-> 1]
    /\ lock = [p \in Procs |-> None]
    /\ stopped = {}
    /\ read = [q \in Steers |-> 0]

Executor(j) ==
    Begin(j) \/ NeverStarts(j) \/ Save(j) \/ Deliver(j) \/ HoldSteers(j)
      \/ Finish(j) \/ WriteAgain(j) \/ ReadRecord(j) \/ WriteRecord(j)
Applier(j) ==
    Lock(j) \/ LookHeld(j) \/ DropHeld(j) \/ MarkApplied(j) \/ Steer(j) \/ Reopen(j)
Operator ==
    \/ \E q \in Steers, p \in Typists : SeeLive(q, p) \/ SteerSettled(q, p)
    \/ \E q \in Steers : QueueSteer(q) \/ LookAgain(q)
    \/ \E j \in Jobs : Resume(j) \/ Stop(j)

Next == Operator \/ \E j \in Jobs : Executor(j) \/ Applier(j)
Spec == Init /\ [][Next]_vars

-----------------------------------------------------------------------------

\* The scenes in which nobody races the appliers: every job in one process, one
\* started by hand at a time, and no second write of the state, a webhook's or a
\* fix's, where the app looks again.
Orderly ==
    \A s \in Scenes :
        /\ ~s.overlap
        /\ \E p \in Procs : /\ s.home = [j \in Jobs |-> p]
                            /\ s.notifyFails \/ s.fix => p # App

FileTypes ==
    /\ scene \in Scenes /\ inbox \subseteq Steers /\ disk \in State
    /\ typing \in [Steers -> [stage : {"none", "seen", "queued", "told", "unheard"},
                           proc : Procs]]
    /\ read \in [Steers -> Nat]
JobTypes ==
    /\ pc \in [Jobs -> {"idle", "begin", "work", "ending", "notified", "record", "recording",
                        "apply", "look", "drop", "mark", "steer", "reopen", "done"}]
    /\ mem \in [Jobs -> State] /\ batch \in [Jobs -> SUBSET Steers]
    /\ passes \in [Jobs -> 0 .. MaxPasses] /\ rounds \in [Jobs -> 0 .. 2]
    /\ stopped \subseteq Jobs
LockTypes ==
    /\ lock \in [Procs -> Jobs \cup {None}]
    /\ \A j \in Jobs : pc[j] \in {"look", "drop", "mark", "reopen"} => Applying(j)

\* The files and the jobs have their shape, and a job inside ApplyHeldSteers has
\* the lock of its process.
TypeOK == FileTypes /\ JobTypes /\ LockTypes

\* An instruction is read by one session and no more, whether it was delivered
\* live, applied after the run settled, or started a session of its own
\* (heldLocks: "keeps two appliers in this process ... from applying the same
\* held steers twice").
ReadOnce == \A q \in Steers : read[q] <= 1

\* One session works at the run at a time: an executor never writes the run's
\* state beside another.
OneSession == Cardinality({j \in Jobs : pc[j] \in {"work", "ending"}}) <= 1

\* When nothing is under way any more, the run owes the app's operator no
\* answer: what was typed was read or dropped, wherever between the executor's
\* last look at the inbox and the run's end it arrived, unless the run waits for
\* a person, one of them stopped its job, or the job that was to apply it could
\* not be built.
NothingOwed ==
    Quiet /\ disk.status # "kept" /\ stopped = {} =>
        \A q \in Pending(Merged(disk)) : typing[q].proc = App => typing[q].stage = "unheard"

\* The record never goes back: an instruction that was read is not pending
\* again, and only a mark of an applier that was refused becomes a drop.
RecordStands ==
    [][\A q \in Steers :
         /\ disk.queue[q] \in {"delivered", "dropped"} => disk'.queue[q] = disk.queue[q]
         /\ disk.queue[q] = "applied" => disk'.queue[q] \in {"applied", "dropped"}]_vars

\* What is recorded as dropped was read by no session, and what is recorded as
\* delivered was.
RecordIsTrue ==
    \A q \in Steers :
        /\ disk.queue[q] = "dropped" => read[q] = 0
        /\ disk.queue[q] = "delivered" => read[q] > 0
=============================================================================
