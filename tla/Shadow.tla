------------------------------- MODULE Shadow -------------------------------
(***************************************************************************)
(* Shadow mode: the watcher that triages tickets unattended                *)
(* (internal/app/shadow.go), the lock that is to keep it to one process    *)
(* (internal/app/shadowlock.go), the ledger all of them append to          *)
(* (internal/shadow/ledger.go) and what a tick takes from it               *)
(* (internal/shadow/select.go).                                            *)
(*                                                                         *)
(* The ledger has no lock.  A process reads it whole, decides, and appends; *)
(* a run writes its started line before it begins and its finished line     *)
(* after it ended, and a tick closes the attempts of processes that died in *)
(* between.  One day passes.  What else gates a tick (a pause, the quota, an *)
(* operator's run, a tracker that fails) is that the tick may stop there.    *)
(* A run is quiet when neither its state nor its log has moved for longer   *)
(* than it may run, or, on another host, for longer than a lock keeps: a     *)
(* scene says whether a run may be that quiet while its process lives.       *)
(***************************************************************************)
EXTENDS Integers, Sequences, FiniteSets, FiniteSetsExt

CONSTANTS
    Tickets,
    Procs,        \* bound: the processes of the day, each started once, in order
    Scenes,       \* the kinds of process, one at a time or not, the tickets listed, the caps on
                  \* runs, a run quiet under a live process or not; bound: what a run may cost
    MaxAttempts,  \* shadow.MaxAttempts
    MaxLines,     \* bound: attempts a ticket may be given by all of them
    MaxUSDPerDay, \* shadow.maxUSDPerDay
    Budget        \* budget.maxUsd, which is set

ASSUME ShadowAssumption ==
    /\ IsFiniteSet(Tickets) /\ Procs \subseteq Nat \ {0}
    /\ Scenes \subseteq [kind : [Procs -> {"serve", "once", "hand"}],
                         inTurn : BOOLEAN, listed : SUBSET Tickets,
                         concurrency : Nat \ {0}, maxPerDay : Nat, hush : BOOLEAN, most : Nat]
    /\ MaxAttempts \in Nat \ {0} /\ MaxLines \in Nat
    /\ MaxUSDPerDay \in Nat /\ Budget \in Nat \ {0}

VARIABLES
    scene,
    life,    \* each process: "off", "up", "leaving" (inside Stop), "dead"
    lock,    \* who shadow.lock names, 0 when there is none
    locked,  \* who believes the lock is its own
    at,      \* where each process's watcher, or its shadow run, stands
    tries,   \* of takeShadowLock, on the way
    read,    \* the ledger as the watcher last read it
    todo,    \* the attempts it read open that recovery has yet to look at
    plan,    \* what the tick is to start
    usd,     \* what it took today's runs to have spent
    jobs,    \* the runs each process drives
    ledger,  \* shadow.jsonl: the attempts of each ticket
    disk     \* state.json of each run

watcher == <<locked, at, tries, read, todo, plan, usd>>
vars    == <<scene, life, lock, watcher, jobs, ledger, disk>>

Lines == 1 .. MaxLines
NoState == [status |-> "none", cost |-> 0, handle |-> FALSE]
Up(p) == life[p] \in {"up", "leaving"}

-----------------------------------------------------------------------------
(* The ledger (Fold, Latest) and what it says of the day.                   *)

Open(a)     == a.end = "open"
Latest(led, k) == led[k][Len(led[k])]
Going(led, k) == led[k] # << >> /\ Open(Latest(led, k))

\* Append is a single write; a run's finished line closes the last attempt
\* that names it.
AttemptOf(led, k, r) == Max({i \in DOMAIN led[k] : led[k][i].run = r})

Finished(a, end, cost) == [a EXCEPT !.end = end, !.cost = @ + cost]
Closed(led, k, r, end, cost) ==
    [led EXCEPT ![k][AttemptOf(led, k, r)] = Finished(@, end, cost)]

Costs(led, k) == [i \in DOMAIN led[k] |-> led[k][i].cost]

\* shadowPriorCost: what the finished lines already counted for a run.
PriorCost(led, k, r) ==
    SumFunctionOnSet(Costs(led, k), {i \in DOMAIN led[k] : led[k][i].run = r})

\* What a run adds to what was counted for it.
Added(led, k, r) == Max({0, disk[k][r].cost - PriorCost(led, k, r)})

\* shadowInFlightUSD: the runs this process drives and every attempt without
\* its finished line, whoever started it and however it is.
OpenRuns(led, k) == {led[k][i].run : i \in {n \in DOMAIN led[k] : Open(led[k][n])}}
InFlightUSD(led) ==
    SumFunction([k \in Tickets |-> SumFunction([r \in OpenRuns(led, k) |-> Added(led, k, r)])])

\* Today.
RunsToday(led) == Cardinality({x \in Tickets \X Lines : x[2] \in DOMAIN led[x[1]] /\ led[x[1]][x[2]].no = 1})
USDToday(led)  ==
    InFlightUSD(led) + SumFunction([k \in Tickets |-> SumFunction(Costs(led, k))])

\* shadowGate, the caps of it.
Gated(led) == RunsToday(led) >= scene.maxPerDay \/ USDToday(led) >= MaxUSDPerDay

-----------------------------------------------------------------------------
(* The lock.                                                                *)

Watches(p) == life[p] = "up" /\ scene.kind[p] \in {"serve", "once"}
Goes(p, to) == at' = [at EXCEPT ![p] = to]

\* shadowSuperviseOne, or shadowPoll in a process that holds no lock.  A lock
\* that is no longer its own is given up before anything else.
Holds(p) == p \in locked /\ lock = p

Pass(p) ==
    /\ Watches(p) /\ at[p] = "idle"
    /\ IF Holds(p) THEN Goes(p, "read") /\ UNCHANGED <<locked, tries>>
       ELSE /\ locked' = locked \ {p}
            /\ tries' = [tries EXCEPT ![p] = 2] /\ Goes(p, "take")
    /\ UNCHANGED <<scene, life, lock, read, todo, plan, usd, jobs, ledger, disk>>

\* takeShadowLock: create the file if there is none,
Create(p) ==
    /\ at[p] = "take"
    /\ IF lock = 0
       THEN lock' = p /\ locked' = locked \cup {p} /\ Goes(p, "read")
       ELSE Goes(p, "look") /\ UNCHANGED <<lock, locked>>
    /\ UNCHANGED <<scene, life, tries, read, todo, plan, usd, jobs, ledger, disk>>

\* A slip: a lock is good for as long as its file is there.
NeverStale(p) == FALSE

\* shadowLockStale, of a process on this host; or the file has gone since.
Stale(p) == lock = 0 \/ ~Up(lock)

\* A supervisor asks again at its next pass.
Refused(p) == Goes(p, IF scene.kind[p] = "serve" THEN "idle" ELSE "done")

\* or look whose it is,
Judge(p) ==
    /\ at[p] = "look"
    /\ IF Stale(p) THEN Goes(p, "remove") ELSE Refused(p)
    /\ UNCHANGED <<scene, life, lock, locked, tries, read, todo, plan, usd, jobs, ledger, disk>>

\* remove the one that was stale when it looked, whosever it is now, and try
\* once more.
Remove(p) ==
    /\ at[p] = "remove"
    /\ lock' = 0
    /\ tries' = [tries EXCEPT ![p] = @ - 1]
    /\ IF tries[p] > 1 THEN Goes(p, "take") ELSE Refused(p)
    /\ UNCHANGED <<scene, life, locked, read, todo, plan, usd, jobs, ledger, disk>>

\* shadowPoll and Stop let go of a lock that is still their own.
LetGo(p) == lock' = IF lock = p THEN 0 ELSE lock

-----------------------------------------------------------------------------
(* A tick.  It runs under the workspace's mutex.                            *)

Read(p) ==
    /\ at[p] = "read"
    /\ read' = [read EXCEPT ![p] = ledger]
    /\ todo' = [todo EXCEPT ![p] = {x \in Tickets \X Lines :
                                      x[2] \in DOMAIN ledger[x[1]] /\ Open(ledger[x[1]][x[2]])}]
    /\ Goes(p, "recover")
    /\ UNCHANGED <<scene, life, lock, locked, tries, plan, usd, jobs, ledger, disk>>

\* A slip: an attempt this process does not drive has lost its process.
NotOurs(p, a) == a.pid # p

\* shadowOrphaned: the process its started line names is gone, or it has been
\* quiet for too long.  This process's own have only just moved.
Orphaned(p, a) == ~Up(a.pid) \/ (scene.hush /\ a.pid # p)

\* An attempt the tick read open, its run, and one that is not its own and is
\* orphaned.
Seen(p, x)  == read[p][x[1]][x[2]]
RunOf(p, x) == Seen(p, x).run
Lost(p, x) ==
    /\ ~\E j \in jobs[p] : j.key = x[1] /\ j.run = RunOf(p, x)
    /\ Orphaned(p, Seen(p, x))

\* A slip: it costs nothing, its own process having counted it.
CostNothing(led, k, r) == 0

\* What the finished line says a run cost.
CostOf(led, k, r) == Added(led, k, r)

\* How a run ended, by its state: one that never had a state may be tried again,
\* one that still runs may not.
EndOf(st) ==
    CASE st.status = "none" -> "again"
      [] st.status = "running" -> "answer"
      [] OTHER -> st.status

Interrupted(st) == IF st.status = "running" THEN [st EXCEPT !.status = "again"] ELSE st
Interrupts(x, r) == disk' = [disk EXCEPT ![x[1]][r] = Interrupted(@)]

\* shadowRecover looks at one of them after the other, in any order: "wrote" once
\* it wrote a finished line.
Looks(p, x) ==
    /\ at[p] \in {"recover", "wrote"} /\ x \in todo[p]
    /\ todo' = [todo EXCEPT ![p] = @ \ {x}]
    /\ UNCHANGED <<scene, life, lock, locked, tries, read, plan, usd, jobs>>

\* It is closed as its state says it ended, or as interrupted;
Recover(p, x) ==
    /\ Looks(p, x) /\ Lost(p, x)
    /\ Interrupts(x, RunOf(p, x))
    /\ ledger' = Closed(ledger, x[1], RunOf(p, x), EndOf(Interrupted(disk[x[1]][RunOf(p, x)])),
                        CostOf(read[p], x[1], RunOf(p, x)))
    /\ Goes(p, "wrote")

\* or the finished line could not be written after its state was;
RecoverFails(p, x) ==
    /\ Looks(p, x) /\ Lost(p, x)
    /\ Interrupts(x, RunOf(p, x))
    /\ UNCHANGED <<at, ledger>>

\* or it is left as it is: it is this process's, it is not orphaned, or its state
\* could not be written.
PassOver(p, x) == Looks(p, x) /\ UNCHANGED <<at, ledger, disk>>

\* It reads the ledger again if it wrote to it.
Recovered(p) ==
    /\ at[p] \in {"recover", "wrote"} /\ todo[p] = {}
    /\ read' = [read EXCEPT ![p] = IF at[p] = "wrote" THEN ledger ELSE @]
    /\ Goes(p, "select")
    /\ UNCHANGED <<scene, life, lock, locked, tries, todo, plan, usd, jobs, ledger, disk>>

\* A slip: a ticket whose run is still going may be tried again.
RetryableAnyEnd(a) == a.end # "answer"

\* retryable, of an attempt with its finished line.
Retryable(a) == a.end = "again"

\* A slip: a ticket is tried again however often that was done.
WantedAgain(led) == {k \in scene.listed : led[k] = << >> \/ Retryable(Latest(led, k))}

\* Select: a ticket never tried, or to be tried again.
Wanted(led) ==
    {k \in scene.listed : led[k] = << >> \/ (Len(led[k]) < MaxAttempts /\ Retryable(Latest(led, k)))}

Firsts(led, ks) == Cardinality({k \in ks : led[k] = << >>})

\* The run cap counts what the plan itself starts.
WithinDay(led, ks) == RunsToday(led) + Firsts(led, ks) <= scene.maxPerDay

\* The tick stops at the gate, or starts some of what the tracker lists and the
\* caps allow.
Select(p) ==
    /\ at[p] = "select"
    /\ \/ Goes(p, "end") /\ UNCHANGED <<plan, usd>>
       \/ /\ ~Gated(read[p])
          /\ \E ks \in SUBSET Wanted(read[p]) :
               /\ ks # {} /\ WithinDay(read[p], ks)
               /\ Cardinality(ks) + Cardinality(jobs[p]) <= scene.concurrency
               /\ plan' = [plan EXCEPT ![p] = ks]
          /\ usd' = [usd EXCEPT ![p] = USDToday(read[p])]
          /\ Goes(p, "launch")
    /\ UNCHANGED <<scene, life, lock, locked, tries, read, todo, jobs, ledger, disk>>

\* A run's own budget: what is left of the day, and what the run it carries on
\* has already been counted for.
Allowed(spent, k, r) == Min({Budget, MaxUSDPerDay - spent + PriorCost(ledger, k, r)})

\* shadowLaunch: the started line, then the job.  A retry carries on the run
\* that has a session to resume.
Launch(p, k, no, spent) ==
    LET prev == IF no > 1 /\ scene.kind[p] # "hand" THEN Latest(read[p], k).run ELSE 0
        new  == Len(ledger[k]) + 1
        r    == IF prev # 0 /\ disk[k][prev].handle THEN prev ELSE new
    IN  /\ new \in Lines
        /\ ledger' = [ledger EXCEPT
             ![k] = Append(@, [pid |-> p, run |-> r, no |-> no, end |-> "open", cost |-> 0])]
        /\ jobs' = [jobs EXCEPT
             ![p] = @ \cup {[key |-> k, run |-> r, at |-> "building", allow |-> Allowed(spent, k, r)]}]

Start(p, k) ==
    /\ at[p] = "launch" /\ k \in plan[p]
    /\ Cardinality(jobs[p]) < scene.concurrency
    /\ Launch(p, k, Len(read[p][k]) + 1, usd[p])
    /\ plan' = [plan EXCEPT ![p] = @ \ {k}]
    /\ UNCHANGED <<scene, life, lock, locked, at, tries, read, todo, usd, disk>>

\* The tick is over; a poll lets go of the lock it took for it.
EndTick(p) ==
    /\ \/ at[p] = "end"
       \/ at[p] = "launch" /\ (plan[p] = {} \/ \A k \in plan[p] : Len(ledger[k]) = MaxLines)
    /\ plan' = [plan EXCEPT ![p] = {}]
    /\ IF scene.kind[p] = "once"
       THEN LetGo(p) /\ locked' = locked \ {p} /\ Goes(p, "done")
       ELSE Goes(p, "idle") /\ UNCHANGED <<lock, locked>>
    /\ usd' = [usd EXCEPT ![p] = 0]
    /\ read' = [read EXCEPT ![p] = [k \in Tickets |-> << >>]]
    /\ UNCHANGED <<scene, life, tries, todo, jobs, ledger, disk>>

-----------------------------------------------------------------------------
(* shadow run KEY: a process of its own, without the lock.                  *)

AskRun(p, k) ==
    /\ k \in scene.listed /\ life[p] = "up" /\ scene.kind[p] = "hand" /\ at[p] = "idle"
    /\ IF Going(ledger, k) THEN Goes(p, "done") /\ UNCHANGED <<read, plan>>
       ELSE /\ Goes(p, "asked")
            /\ read' = [read EXCEPT ![p] = ledger]
            /\ plan' = [plan EXCEPT ![p] = {k}]
    /\ UNCHANGED <<scene, life, lock, locked, tries, todo, usd, jobs, ledger, disk>>

RunOne(p, k) ==
    /\ at[p] = "asked" /\ k \in plan[p]
    /\ \/ /\ ~Gated(read[p])
          /\ Launch(p, k, Len(read[p][k]) + 1, USDToday(read[p]))
       \/ UNCHANGED <<jobs, ledger>>
    /\ Goes(p, "done")
    /\ read' = [read EXCEPT ![p] = [l \in Tickets |-> << >>]]
    /\ plan' = [plan EXCEPT ![p] = {}]
    /\ UNCHANGED <<scene, life, lock, locked, tries, todo, usd, disk>>

-----------------------------------------------------------------------------
(* A run's job.                                                             *)

Moves(p, j, to) == jobs' = [jobs EXCEPT ![p] = (@ \ {j}) \cup {[j EXCEPT !.at = to]}]
RunState(j)     == disk[j.key][j.run]
Saves(j, st)    == disk' = [disk EXCEPT ![j.key][j.run] = st]

\* The run's first state; or nothing could be built.
Prepare(p, j) ==
    /\ j.at = "building"
    /\ \/ /\ Moves(p, j, "going")
          /\ Saves(j, [RunState(j) EXCEPT !.status = "running"])
       \/ /\ Moves(p, j, "ended") /\ UNCHANGED disk
    /\ UNCHANGED <<scene, life, lock, watcher, ledger>>

\* The session opens (a handle) and reports what the run has come to cost, as
\* much as it may be: past its budget the session is cancelled, and may report
\* more before it ends.
Spend(p, j) ==
    /\ j.at \in {"going", "stopped"}
    /\ \E cost \in RunState(j).cost + 1 .. scene.most :
         /\ Saves(j, [status |-> "running", cost |-> cost, handle |-> TRUE])
         /\ IF cost > j.allow THEN Moves(p, j, "stopped") ELSE UNCHANGED jobs
    /\ UNCHANGED <<scene, life, lock, watcher, ledger>>

\* It settles, for good or so that it may be tried again.
Settle(p, j) ==
    /\ j.at \in {"going", "stopped"}
    /\ \E end \in {"answer", "again"} : Saves(j, [RunState(j) EXCEPT !.status = end])
    /\ Moves(p, j, "ended")
    /\ UNCHANGED <<scene, life, lock, watcher, ledger>>

\* shadowRecordFinished.
RecordFinished(p, j) ==
    /\ j.at = "ended"
    /\ ledger' = Closed(ledger, j.key, j.run, EndOf(RunState(j)), Added(ledger, j.key, j.run))
    /\ Moves(p, j, "recorded")
    /\ UNCHANGED <<scene, life, lock, watcher, disk>>

\* done: the slot is given back.
Done(p, j) ==
    /\ j.at = "recorded"
    /\ jobs' = [jobs EXCEPT ![p] = @ \ {j}]
    /\ UNCHANGED <<scene, life, lock, watcher, ledger, disk>>

-----------------------------------------------------------------------------
(* The processes.                                                           *)

Begin(p) ==
    /\ life[p] = "off" /\ \A q \in Procs : q < p => life[q] # "off"
    /\ scene.inTurn => \A q \in Procs : q < p => life[q] = "dead"
    /\ life' = [life EXCEPT ![p] = "up"]
    /\ UNCHANGED <<scene, lock, watcher, jobs, ledger, disk>>

\* Stop waits for the tick, cancels the jobs, and lets go of the lock once they
\* have ended, or after ten seconds.
Leave(p) ==
    /\ life[p] = "up" /\ at[p] = "idle" /\ scene.kind[p] = "serve"
    /\ life' = [life EXCEPT ![p] = "leaving"]
    /\ LetGo(p) /\ locked' = locked \ {p}
    /\ UNCHANGED <<scene, at, tries, read, todo, plan, usd, jobs, ledger, disk>>

\* The process ends, wherever it is, and its runs with it.
Die(p) ==
    /\ Up(p)
    /\ life' = [life EXCEPT ![p] = "dead"]
    /\ locked' = locked \ {p} /\ jobs' = [jobs EXCEPT ![p] = {}]
    /\ at' = [at EXCEPT ![p] = "idle"] /\ tries' = [tries EXCEPT ![p] = 0]
    /\ read' = [read EXCEPT ![p] = [k \in Tickets |-> << >>]]
    /\ todo' = [todo EXCEPT ![p] = {}] /\ plan' = [plan EXCEPT ![p] = {}]
    /\ usd' = [usd EXCEPT ![p] = 0]
    /\ UNCHANGED <<scene, lock, ledger, disk>>

-----------------------------------------------------------------------------

Init ==
    /\ scene \in Scenes
    /\ life = [p \in Procs |-> "off"] /\ lock = 0 /\ locked = {}
    /\ at = [p \in Procs |-> "idle"] /\ tries = [p \in Procs |-> 0]
    /\ read = [p \in Procs |-> [k \in Tickets |-> << >>]]
    /\ todo = [p \in Procs |-> {}]
    /\ plan = [p \in Procs |-> {}] /\ usd = [p \in Procs |-> 0]
    /\ jobs = [p \in Procs |-> {}]
    /\ ledger = [k \in Tickets |-> << >>]
    /\ disk = [k \in Tickets |-> [r \in Lines |-> NoState]]

Recovering(p) ==
    \/ \E x \in todo[p] : Recover(p, x) \/ RecoverFails(p, x) \/ PassOver(p, x)
    \/ Recovered(p)
Ticking(p) == Read(p) \/ Recovering(p) \/ Select(p) \/ EndTick(p) \/ \E k \in Tickets : Start(p, k)
Watching(p) == Pass(p) \/ Create(p) \/ Judge(p) \/ Remove(p) \/ Ticking(p)
Driving(p) ==
    \E j \in jobs[p] : Prepare(p, j) \/ Spend(p, j) \/ Settle(p, j) \/ RecordFinished(p, j) \/ Done(p, j)

Next ==
    \E p \in Procs :
        \/ Watching(p) \/ Driving(p)
        \/ \E k \in Tickets : AskRun(p, k) \/ RunOne(p, k)
        \/ Begin(p) \/ Leave(p) \/ Die(p)

Spec == Init /\ [][Next]_vars

\* A supervisor makes its passes, a session ends, and a finished line that is
\* tried again at every tick is written some time.  Nobody has to start a
\* process, to ask it for anything, or to end it.
FairSpec ==
    /\ Spec
    /\ \A p \in Procs : WF_vars(Watching(p))
    /\ SF_vars(\E p \in Procs : \E x \in todo[p] : Recover(p, x))
    /\ WF_vars(\E p \in Procs : Driving(p))

-----------------------------------------------------------------------------

ByHand == \E p \in Procs : scene.kind[p] = "hand"

Attempts == [pid : Procs, run : Lines, no : Lines, end : {"open", "answer", "again"}, cost : Nat]
LedgerType == [Tickets -> Seq(Attempts)]
Job == [key : Tickets, run : Lines, at : {"building", "going", "stopped", "ended", "recorded"}, allow : Int]
State == [status : {"none", "running", "answer", "again"}, cost : Nat, handle : BOOLEAN]
Places == {"idle", "take", "look", "remove", "read", "recover", "wrote", "select", "launch", "end", "asked", "done"}

WatcherTypes ==
    /\ locked \subseteq Procs /\ lock \in Procs \cup {0}
    /\ at \in [Procs -> Places] /\ tries \in [Procs -> 0 .. 2]
    /\ todo \in [Procs -> SUBSET (Tickets \X Lines)]
    /\ plan \in [Procs -> SUBSET Tickets] /\ usd \in [Procs -> Nat]

\* The shapes of it all; a process drives no more runs than it may, none once it
\* is gone, and ticks alone give a ticket no more than its attempts.
TypeOK ==
    /\ scene \in Scenes /\ life \in [Procs -> {"off", "up", "leaving", "dead"}]
    /\ WatcherTypes
    /\ ledger \in LedgerType /\ \A p \in Procs : read[p] \in LedgerType
    /\ disk \in [Tickets -> [Lines -> State]]
    /\ \A p \in Procs :
         /\ jobs[p] \subseteq Job /\ Cardinality(jobs[p]) <= scene.concurrency
         /\ ~Up(p) => jobs[p] = {} /\ at[p] = "idle"
    /\ ~ByHand => \A k \in Tickets : Len(ledger[k]) <= MaxAttempts

\* Under way until its finished line is written.
Driven(p) == {j \in jobs[p] : j.at # "recorded"}

\* The watchers never have two runs of one ticket going, in one process or in
\* two, whoever started the first and whatever became of its process ("would run
\* the ticket twice at once"), while no run is that quiet under a live process
\* ("past it, a run cannot still be going").
OneAttempt ==
    ~ByHand /\ ~scene.hush => \A p, q \in Procs : \A j \in Driven(p), l \in Driven(q) :
        j.key = l.key => p = q /\ j = l

\* No tick closes an attempt that a process is still driving, although it decides
\* by a ledger it read before and by runs other processes write, while no run is
\* that quiet under a live process.
ClosedByItsOwn ==
    ~scene.hush => \A p \in Procs : \A j \in Driven(p) :
        Open(ledger[j.key][AttemptOf(ledger, j.key, j.run)])

Spent == SumFunction([k \in Tickets |-> SumFunction([r \in Lines |-> disk[k][r].cost])])

\* The watchers' runs stay within the day's: as many tickets as it allows; and,
\* of one process at a time with one run at a time, none that is not cancelled
\* goes on once the day's money is passed, through crashes, recoveries and
\* retries that carry on a run and its cost.  What the report that passed it
\* added is found after it was spent.
WithinCaps ==
    ~ByHand =>
        /\ RunsToday(ledger) <= scene.maxPerDay
        /\ scene.inTurn /\ scene.concurrency = 1 /\ ~scene.hush =>
             \A p \in Procs : \A j \in jobs[p] :
                j.at \in {"building", "going"} => Spent <= MaxUSDPerDay

Unclosed(k) == \E i \in DOMAIN ledger[k] : Open(ledger[k][i])
Watched == \E p \in Procs : life[p] = "up" /\ scene.kind[p] = "serve"

\* An attempt with no finished line gets one, from its own process or, when that
\* one died, from the next that watches.
StartedIsClosed == \A k \in Tickets : Unclosed(k) ~> (~Unclosed(k) \/ ~Watched)

\* "One process watches a workspace at a time, through .sirdar/shadow.lock"
\* (docs/config.md:970).
Tick(p) == at[p] \in {"read", "recover", "wrote", "select", "launch", "end"}
OneWatcher == \A p, q \in Procs : Tick(p) /\ Tick(q) => p = q
=============================================================================
