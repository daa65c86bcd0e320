-------------------------------- MODULE Jobs --------------------------------
(***************************************************************************)
(* What starts triages and what holds them back, in one process of the     *)
(* application: the job table and its goroutines (internal/app/service.go), *)
(* the claim a webhook delivery takes on a ticket (internal/app/hooks.go),  *)
(* the workers of a triage (internal/run/run.go) and the rate-limit pause   *)
(* they share (internal/run/pool.go), down to the runs on disk, which       *)
(* outlive the process.                                                    *)
(*                                                                         *)
(* A delivery claims its ticket, reads the run directory, and starts a job. *)
(* A person starts a job and asks nothing.  A job's workers take its        *)
(* tickets off a queue; each waits for the pause, prepares a run, waits for *)
(* the pause again, and runs a session.                                    *)
(***************************************************************************)
EXTENDS Naturals, Sequences

CONSTANTS
    Keys,        \* tickets
    Deliveries,  \* webhook deliveries, one ticket each
    Ticket,      \* which
    MaxJobs,     \* bound: jobs the workspace sees
    ByHand,      \* bound: those of them a person may start
    Scenes,      \* which deliveries arrive, which lists of tickets a person asks for
    Concurrency, \* the config's
    Cooldown,    \* webhooks.cooldown
    Pauses,      \* how far off a provider's reset time may be, 0 for unknown
    MaxClock,    \* bound: how long the workspace is watched
    MaxExits     \* bound: times the process ends and is started again

ASSUME JobsAssumption ==
    /\ Scenes \subseteq [arrive : SUBSET Deliveries, lists : SUBSET Seq(Keys)]
    /\ Ticket \in [Deliveries -> Keys]
    /\ MaxJobs \in Nat /\ Concurrency \in Nat \ {0} /\ ByHand \subseteq 1 .. MaxJobs
    /\ Cooldown \in Nat /\ MaxClock \in Nat /\ MaxExits \in Nat
    /\ Pauses \subseteq Nat

VARIABLES
    scene,     \* which of Scenes this is, fixed from the start
    clock,
    proc,      \* the process: "up", "stopping" (inside Stop), "stopped"
    exits,
    delivery,  \* how far each delivery's handler is
    starting,  \* Service.starting: the claims
    job,       \* each job: its goroutine's stage, who started it, its tickets
    cancelled, \* jobs whose context is cancelled
    queue,     \* positions no worker of the job has taken yet
    until,     \* the job's pool: when its pause ends
    worker,    \* each worker: where it stands, its position, its timer
    run,       \* state.json of the run at each position of each job
    out        \* outs: what the job reports of each position

intake == <<delivery, starting>>
pool   == <<queue, until, worker>>
table  == <<job, cancelled>>
disk   == <<run, out>>
vars   == <<scene, clock, proc, exits, intake, table, pool, disk>>

JobIds == 1 .. MaxJobs
Workers == 1 .. Concurrency
Free  == [at |-> "free", pos |-> 0, wake |-> 0]
NoRun == [status |-> "none", from |-> 0, upd |-> 0]

Positions(j) == DOMAIN job[j].keys
Active(r) == r.status \in {"preparing", "running"}

\* s.jobs: from addJob to dropJob.
Table == {j \in JobIds : job[j].stage \in {"building", "working"}}
Gone(j) == job[j].stage \in {"none", "gone"}

\* store.List: the runs of a ticket.
RunsOf(k) ==
    UNION {{run[j][i] : i \in {p \in Positions(j) : job[j].keys[p] = k}} : j \in JobIds}

-----------------------------------------------------------------------------
(* A webhook delivery: TriageIfIdle.                                        *)

Handles(d, to) == delivery' = [delivery EXCEPT ![d] = to]

Claimed(k) == k \in starting

Claim(d) ==
    /\ delivery[d] = "new" /\ d \in scene.arrive /\ proc # "stopped"
    /\ starting' = starting \cup {Ticket[d]}
    /\ Handles(d, IF Claimed(Ticket[d]) THEN "answered" ELSE "claimed")
    /\ UNCHANGED <<scene, clock, proc, exits, table, pool, disk>>

\* A slip: only a run under way keeps a ticket busy.
BusyNow(k) == \E r \in RunsOf(k) : Active(r)

\* busyReason, of runs that are all triages nobody is only measuring with.
Busy(k) ==
    \E r \in RunsOf(k) :
        \/ Active(r)
        \/ r.status = "settled" /\ clock - r.upd < Cooldown

\* Unless it started a job, the handler gives its claim back.
GivesBack(d) == starting' = starting \ {Ticket[d]}

Ask(d) ==
    /\ delivery[d] = "claimed"
    /\ \/ Busy(Ticket[d]) /\ Handles(d, "answered") /\ GivesBack(d)
       \/ ~Busy(Ticket[d]) /\ Handles(d, "idle") /\ UNCHANGED starting
    /\ UNCHANGED <<scene, clock, proc, exits, table, pool, disk>>

\* startJobAs: the job is in the table before its goroutine does anything.
Fresh(j) == \A n \in JobIds : job[n].stage = "none" <=> n >= j

AddJob(j, hook, ks) ==
    /\ Fresh(j)
    /\ job' = [job EXCEPT ![j] = [stage |-> "building", hook |-> hook, keys |-> ks]]
    /\ run' = [run EXCEPT ![j] = [i \in DOMAIN ks |-> NoRun]]
    /\ out' = [out EXCEPT ![j] = [i \in DOMAIN ks |-> "none"]]

StartDelivered(d) ==
    /\ delivery[d] = "idle"
    /\ Handles(d, "answered")
    /\ \/ \E j \in JobIds : AddJob(j, TRUE, <<Ticket[d]>>) /\ UNCHANGED starting
       \/ GivesBack(d) /\ UNCHANGED <<job, disk>>   \* the workspace does not load
    /\ UNCHANGED <<scene, clock, proc, exits, cancelled, pool>>

\* StartTriage, from the window or the HTTP API.
StartTriage(j, ks) ==
    /\ proc # "stopped" /\ j \in ByHand
    /\ AddJob(j, FALSE, ks)
    /\ UNCHANGED <<scene, clock, proc, exits, intake, cancelled, pool>>

-----------------------------------------------------------------------------
(* A job's goroutine.                                                       *)

\* The dependencies are built and the queue filled; or they are not.
Build(j) ==
    /\ job[j].stage = "building"
    /\ \/ /\ job' = [job EXCEPT ![j].stage = "working"]
          /\ queue' = [queue EXCEPT ![j] = [i \in Positions(j) |-> i]]
          /\ UNCHANGED out
       \/ /\ job' = [job EXCEPT ![j].stage = "dropped"]
          /\ out' = [out EXCEPT ![j] = [i \in Positions(j) |-> "failed"]]
          /\ UNCHANGED queue
    /\ UNCHANGED <<scene, clock, proc, exits, intake, cancelled, until, worker, run>>

\* Triage returns when its workers have, and the job leaves the table.
DropJob(j) ==
    /\ job[j].stage = "working" /\ queue[j] = << >>
    /\ \A w \in Workers : worker[j][w].at = "free"
    /\ job' = [job EXCEPT ![j].stage = "dropped"]
    /\ UNCHANGED <<scene, clock, proc, exits, intake, cancelled, pool, disk>>

\* A slip: a job that was cancelled leaves its delivery's claim.
ClaimUnlessCancelled(j) ==
    IF job[j].hook /\ j \notin cancelled THEN {job[j].keys[1]} ELSE {}

\* What startTriage's done gives back.
ClaimOf(j) == IF job[j].hook THEN {job[j].keys[1]} ELSE {}

\* The deferred calls: a delivery's claim goes back last.
EndJob(j) ==
    /\ job[j].stage = "dropped"
    /\ job' = [job EXCEPT ![j].stage = "gone"]
    /\ starting' = starting \ ClaimOf(j)
    /\ cancelled' = cancelled \ {j}
    /\ until' = [until EXCEPT ![j] = 0]
    /\ UNCHANGED <<scene, clock, proc, exits, delivery, queue, worker, disk>>

Cancel(j) ==
    /\ j \in Table \ cancelled
    /\ cancelled' = cancelled \cup {j}
    /\ UNCHANGED <<scene, clock, proc, exits, intake, job, pool, disk>>

-----------------------------------------------------------------------------
(* A worker: runOne for each position it takes.                             *)

Frees(j, w) == worker' = [worker EXCEPT ![j][w] = Free]
Reports(j, i, what) == out' = [out EXCEPT ![j][i] = what]
Writes(j, i, st) ==
    run' = [run EXCEPT ![j][i] = [status |-> st, upd |-> clock,
                                  from |-> IF st = "preparing" THEN clock ELSE @.from]]

\* No more workers than tickets.  The queue is a closed channel; an interrupt turns what is left to skipped.
Take(j, w) ==
    /\ job[j].stage = "working" /\ w \in Positions(j)
    /\ worker[j][w].at = "free" /\ queue[j] # << >>
    /\ queue' = [queue EXCEPT ![j] = Tail(@)]
    /\ IF j \in cancelled
       THEN Reports(j, Head(queue[j]), "skipped") /\ UNCHANGED worker
       ELSE /\ worker' = [worker EXCEPT
                 ![j][w] = [at |-> "outside", pos |-> Head(queue[j]), wake |-> 0]]
            /\ UNCHANGED out
    /\ UNCHANGED <<scene, clock, proc, exits, intake, table, until, run>>

\* waitUntilResumed is called by a worker "outside" a run and by execute
\* "inside" one.  Awake, it reads the pause: gone, the caller goes on; there,
\* a timer is set for it.
Beyond == [outside |-> "prepare", inside |-> "start"]
Waits(j, w) == worker[j][w].at \in DOMAIN Beyond

Look(j, w) ==
    /\ Waits(j, w) /\ worker[j][w].wake = 0 /\ j \notin cancelled
    /\ \/ until[j] <= clock /\ worker' = [worker EXCEPT ![j][w].at = Beyond[@]]
       \/ until[j] > clock /\ worker' = [worker EXCEPT ![j][w].wake = until[j]]
    /\ UNCHANGED <<scene, clock, proc, exits, intake, table, queue, until, disk>>

\* A slip: the timer is taken for the end of the pause.
Resumes(me) == [me EXCEPT !.wake = 0, !.at = Beyond[@]]

\* The timer went off: look again, the pause may have moved.
Rises(me) == [me EXCEPT !.wake = 0]

Wake(j, w) ==
    /\ Waits(j, w) /\ worker[j][w].wake # 0 /\ worker[j][w].wake <= clock
    /\ worker' = [worker EXCEPT ![j][w] = Rises(@)]
    /\ UNCHANGED <<scene, clock, proc, exits, intake, table, queue, until, disk>>

\* A slip: an interrupt leaves no trace wherever it finds the worker.
NoTrace(j, w) == FALSE

\* The run has its directory already.
Written(j, w) == worker[j][w].at = "inside"

\* Interrupted while it waited: outside, nothing was written; inside, the run
\* is blocked.
GiveUp(j, w) ==
    /\ Waits(j, w) /\ j \in cancelled
    /\ Frees(j, w)
    /\ IF Written(j, w)
       THEN Reports(j, worker[j][w].pos, "ran") /\ Writes(j, worker[j][w].pos, "settled")
       ELSE Reports(j, worker[j][w].pos, "skipped") /\ UNCHANGED run
    /\ UNCHANGED <<scene, clock, proc, exits, intake, table, queue, until>>

\* prepare writes the run's first state; or no directory could be made.
Prepare(j, w) ==
    /\ worker[j][w].at = "prepare"
    /\ \/ /\ worker' = [worker EXCEPT ![j][w].at = "inside"]
          /\ Writes(j, worker[j][w].pos, "preparing")
          /\ UNCHANGED out
       \/ Frees(j, w) /\ Reports(j, worker[j][w].pos, "failed") /\ UNCHANGED run
    /\ UNCHANGED <<scene, clock, proc, exits, intake, table, queue, until>>

StartSession(j, w) ==
    /\ worker[j][w].at = "start"
    /\ worker' = [worker EXCEPT ![j][w].at = "session"]
    /\ Writes(j, worker[j][w].pos, "running")
    /\ UNCHANGED <<scene, clock, proc, exits, intake, table, queue, until, out>>

\* pool.pause never shortens a pause.
Later(old, new) == IF new > old THEN new ELSE old

\* EvRateLimited; a reset time nobody knows pauses nothing.
RateLimited(j, w) ==
    /\ worker[j][w].at = "session"
    /\ \E p \in Pauses \ {0} :
         /\ clock + p <= MaxClock
         /\ until' = [until EXCEPT ![j] = Later(@, clock + p)]
    /\ UNCHANGED <<scene, clock, proc, exits, intake, table, queue, worker, disk>>

\* finish: the session ended, would not start, or the preparation failed.
Settle(j, w) ==
    /\ worker[j][w].at \in {"inside", "start", "session"} /\ worker[j][w].wake = 0
    /\ Writes(j, worker[j][w].pos, "settled")
    /\ Reports(j, worker[j][w].pos, "ran")
    /\ Frees(j, w)
    /\ UNCHANGED <<scene, clock, proc, exits, intake, table, queue, until>>

-----------------------------------------------------------------------------
(* The process.                                                             *)

\* Stop cancels the jobs it finds in the table; one added since is not.
Stop ==
    /\ proc = "up"
    /\ proc' = "stopping"
    /\ cancelled' = cancelled \cup Table
    /\ UNCHANGED <<scene, clock, exits, intake, job, pool, disk>>

\* It waits for every job, ten seconds at most.
StopReturns ==
    /\ proc = "stopping"
    /\ proc' = "stopped"
    /\ UNCHANGED <<scene, clock, exits, intake, table, pool, disk>>

\* The process ends, having stopped or not, and another is started: what is on
\* disk is all that is left.
Exit ==
    /\ exits < MaxExits
    /\ exits' = exits + 1 /\ proc' = "up"
    /\ delivery' = [d \in Deliveries |-> IF delivery[d] = "new" THEN "new" ELSE "answered"]
    /\ starting' = {} /\ cancelled' = {}
    /\ job' = [j \in JobIds |-> IF Gone(j) THEN job[j] ELSE [job[j] EXCEPT !.stage = "gone"]]
    /\ queue' = [j \in JobIds |-> << >>]
    /\ until' = [j \in JobIds |-> 0]
    /\ worker' = [j \in JobIds |-> [w \in Workers |-> Free]]
    /\ UNCHANGED <<scene, clock, disk>>

Tick ==
    /\ clock < MaxClock
    /\ clock' = clock + 1
    /\ UNCHANGED <<scene, proc, exits, intake, table, pool, disk>>

-----------------------------------------------------------------------------

Init ==
    /\ scene \in Scenes
    /\ clock = 0 /\ proc = "up" /\ exits = 0
    /\ delivery = [d \in Deliveries |-> "new"]
    /\ starting = {} /\ cancelled = {}
    /\ job = [j \in JobIds |-> [stage |-> "none", hook |-> FALSE, keys |-> << >>]]
    /\ queue = [j \in JobIds |-> << >>]
    /\ until = [j \in JobIds |-> 0]
    /\ worker = [j \in JobIds |-> [w \in Workers |-> Free]]
    /\ run = [j \in JobIds |-> << >>] /\ out = [j \in JobIds |-> << >>]

Handler(d) == Claim(d) \/ Ask(d) \/ StartDelivered(d)
Goroutine(j) == Build(j) \/ DropJob(j) \/ EndJob(j)
Pooled(j, w) ==
    Take(j, w) \/ Look(j, w) \/ Wake(j, w) \/ GiveUp(j, w) \/ Prepare(j, w)
      \/ StartSession(j, w) \/ Settle(j, w)

Next ==
    \/ \E d \in Deliveries : Handler(d)
    \/ \E j \in JobIds :
         \/ Goroutine(j) \/ Cancel(j)
         \/ \E ks \in scene.lists : StartTriage(j, ks)
         \/ \E w \in Workers : Pooled(j, w) \/ RateLimited(j, w)
    \/ Stop \/ StopReturns \/ Exit \/ Tick

Spec == Init /\ [][Next]_vars

\* What the process itself goes on with: its handlers and goroutines, a session
\* that ends (RunExec shows that it does), and time.  Nobody has to deliver,
\* start, stop or cancel.
System ==
    \/ \E d \in Deliveries : Ask(d) \/ StartDelivered(d)
    \/ \E j \in JobIds : Goroutine(j) \/ \E w \in Workers : Pooled(j, w)

FairSpec == Spec /\ WF_vars(System \/ Tick)

-----------------------------------------------------------------------------

Handled == {"new", "claimed", "idle", "answered"}
Stages  == {"none", "building", "working", "dropped", "gone"}
Places  == {"free", "outside", "prepare", "inside", "start", "session"}
Run     == [status : {"none", "preparing", "running", "settled"}, from : Nat, upd : Nat]

TicketTypes ==
    /\ delivery \in [Deliveries -> Handled]
    /\ starting \subseteq Keys /\ cancelled \subseteq JobIds
    /\ job \in [JobIds -> [stage : Stages, hook : BOOLEAN, keys : Seq(Keys)]]
PoolTypes ==
    /\ queue \in [JobIds -> Seq(Nat)] /\ until \in [JobIds -> 0 .. MaxClock]
    /\ worker \in [JobIds -> [Workers -> [at : Places, pos : Nat, wake : 0 .. MaxClock]]]
DiskTypes ==
    \A j \in JobIds :
        /\ run[j] \in [Positions(j) -> Run]
        /\ out[j] \in [Positions(j) -> {"none", "failed", "skipped", "ran"}]

\* The shapes of it all; a worker has a position of its job, and a delivery
\* under way or a job it started holds the claim on its ticket.
TypeOK ==
    /\ scene \in Scenes /\ clock \in 0 .. MaxClock /\ exits \in 0 .. MaxExits
    /\ proc \in {"up", "stopping", "stopped"}
    /\ TicketTypes /\ PoolTypes /\ DiskTypes
    /\ \A d \in Deliveries :
         delivery[d] \in {"claimed", "idle"} => Ticket[d] \in starting
    /\ \A j \in JobIds :
         /\ job[j].hook => Len(job[j].keys) = 1
         /\ job[j].hook /\ ~Gone(j) => job[j].keys[1] \in starting
         /\ \A w \in Workers : worker[j][w].at # "free" =>
              job[j].stage = "working" /\ worker[j][w].pos \in Positions(j)

\* The first run was over, and its cooldown with it, when the second began.
Apart(first, second) == ~Active(first) /\ first.upd + Cooldown <= second.from

\* Of two deliveries that each started a run of a ticket, one came after the
\* other's run had ended and cooled down, however they arrived, whatever a
\* person started or cancelled meanwhile and across a restart of the process
\* ("two deliveries for one ticket arriving together start one run, not two").
DeliveriesApart ==
    \A a, b \in {j \in JobIds : job[j].hook /\ run[j][1] # NoRun} :
        a # b /\ job[a].keys = job[b].keys =>
            Apart(run[a][1], run[b][1]) \/ Apart(run[b][1], run[a][1])

\* A job that has left the table reports every ticket it was given: those that
\* ran have settled on disk, and nothing on disk is left of those it says were
\* skipped or failed to start, wherever the interrupt found them.
Accounted ==
    \A j \in JobIds : job[j].stage = "dropped" =>
        \A i \in Positions(j) :
            /\ out[j][i] # "none"
            /\ out[j][i] = "ran" <=> run[j][i].status = "settled"
            /\ out[j][i] # "ran" => run[j][i] = NoRun

\* No worker goes past a pause that is in force, also when the pause moved
\* while its timer ran.
PauseHonoured ==
    [][\A j \in JobIds, w \in Workers :
         Waits(j, w) /\ worker'[j][w].at \in {"prepare", "start"} => until[j] <= clock]_vars

\* A ticket a delivery has claimed can be claimed again some day ("a key held by
\* a claim nobody releases could never be triaged again").
ClaimsComeBack == \A k \in Keys : k \in starting ~> k \notin starting
=============================================================================
