----------------------------- MODULE JobsProofs -----------------------------
(***************************************************************************)
(* What holds of triages and the deliveries that start them for every      *)
(* number of jobs, tickets, deliveries, workers and restarts: the types,   *)
(* that one claim at most is held on a ticket, that two deliveries of one  *)
(* ticket never run it together, that every ticket a job was given is      *)
(* accounted for when it is over, and that no worker passes a pause.       *)
(***************************************************************************)
EXTENDS Jobs, TLAPS

USE DEF vars, intake, table, pool, disk, JobIds, Workers, Positions

-----------------------------------------------------------------------------
(* The shapes of the variables.                                             *)

Shapes ==
    /\ scene \in Scenes /\ clock \in 0 .. MaxClock /\ exits \in 0 .. MaxExits
    /\ proc \in {"up", "stopping", "stopped"}
    /\ TicketTypes /\ PoolTypes /\ DiskTypes
    /\ DOMAIN run = JobIds /\ DOMAIN out = JobIds

\* A delivery's job has one ticket, and what is no job yet is not a delivery's.
Hooked(j) ==
    /\ job[j].hook => Len(job[j].keys) = 1
    /\ job[j].stage = "none" => ~job[j].hook
\* A queue holds positions of its job, while the job works.
Queued(j) ==
    /\ queue[j] # << >> => job[j].stage = "working"
    /\ \A n \in DOMAIN queue[j] : queue[j][n] \in Positions(j)
\* So does a worker, and from "inside" on its run is on disk.
Works(j, w) ==
    /\ worker[j][w].at # "free" =>
         job[j].stage = "working" /\ worker[j][w].pos \in Positions(j)
    /\ worker[j][w].at \in {"inside", "start", "session"} =>
         run[j][worker[j][w].pos].status # "none"
\* A run that was not prepared left nothing.
Blank(j) == \A i \in Positions(j) : run[j][i].status = "none" => run[j][i] = NoRun

Placed ==
    \A j \in JobIds : Hooked(j) /\ Queued(j) /\ Blank(j) /\ \A w \in Workers : Works(j, w)

\* A run's state after a worker wrote it.
LEMMA WrittenRun ==
  ASSUME NEW r \in Run, NEW st \in {"preparing", "running", "settled"}, clock \in Nat
  PROVE [status |-> st, upd |-> clock,
         from |-> IF st = "preparing" THEN clock ELSE r.from] \in Run
BY DEF Run

\* Writing the run of a position, and reporting one, keep the disk's shape.
LEMMA WritesShapes ==
  ASSUME Shapes, NEW j \in JobIds, NEW i \in Positions(j),
         NEW st \in {"preparing", "running", "settled"}, Writes(j, i, st), job' = job, out' = out \/ Reports(j, i, "ran")
  PROVE DiskTypes' /\ DOMAIN run' = JobIds /\ DOMAIN out' = JobIds
<1> DEFINE r == [status |-> st, upd |-> clock,
                 from |-> IF st = "preparing" THEN clock ELSE run[j][i].from]
<1>r. r \in Run
  <2>1. run[j][i] \in Run /\ clock \in Nat
    BY JobsAssumption DEF Shapes, DiskTypes
  <2> QED
    BY <2>1, WrittenRun
<1>w. run' = [run EXCEPT ![j][i] = r]
  BY DEF Writes
<1> HIDE DEF r
<1>1. \A n \in JobIds : run'[n] \in [Positions(n) -> Run]
  BY <1>r, <1>w DEF Shapes, DiskTypes
<1>2. \A n \in JobIds : out'[n] \in [Positions(n) -> {"none", "failed", "skipped", "ran"}]
  <2>1. CASE out' = out
    BY <2>1 DEF Shapes, DiskTypes
  <2>2. CASE Reports(j, i, "ran")
    BY <2>2 DEF Shapes, DiskTypes, Reports
  <2> QED
    BY <2>1, <2>2
<1> QED
  BY <1>1, <1>2 DEF Shapes, DiskTypes, Writes, Reports

LEMMA ReportsShapes ==
  ASSUME Shapes, NEW j \in JobIds, NEW i, NEW what \in {"failed", "skipped", "ran"},
         Reports(j, i, what), run' = run, job' = job
  PROVE DiskTypes' /\ DOMAIN run' = JobIds /\ DOMAIN out' = JobIds
<1>1. \A n \in JobIds : out'[n] \in [Positions(n) -> {"none", "failed", "skipped", "ran"}]
  BY DEF Shapes, DiskTypes, Reports
<1> QED
  BY <1>1 DEF Shapes, DiskTypes, Reports

\* A job that is added has a run and a report to fill in for each ticket.
LEMMA AddJobShapes ==
  ASSUME Shapes, NEW j \in JobIds, NEW hook \in BOOLEAN, NEW ks \in Seq(Keys),
         AddJob(j, hook, ks)
  PROVE /\ job' \in [JobIds -> [stage : Stages, hook : BOOLEAN, keys : Seq(Keys)]]
        /\ DiskTypes' /\ DOMAIN run' = JobIds /\ DOMAIN out' = JobIds
<1>1. job' \in [JobIds -> [stage : Stages, hook : BOOLEAN, keys : Seq(Keys)]]
  BY DEF Shapes, TicketTypes, AddJob, Stages
<1>2. \A n \in JobIds : run'[n] \in [Positions(n)' -> Run]
  <2>1. NoRun \in Run
    BY DEF NoRun, Run
  <2>2. run'[j] = [i \in DOMAIN ks |-> NoRun] /\ job'[j].keys = ks
    BY DEF AddJob, Shapes, TicketTypes
  <2>3. ASSUME NEW n \in JobIds, n # j PROVE run'[n] = run[n] /\ job'[n] = job[n]
    BY <2>3 DEF AddJob, Shapes, TicketTypes
  <2> QED
    BY <2>1, <2>2, <2>3 DEF Shapes, DiskTypes
<1>3. \A n \in JobIds : out'[n] \in [Positions(n)' -> {"none", "failed", "skipped", "ran"}]
  <2>1. out'[j] = [i \in DOMAIN ks |-> "none"] /\ job'[j].keys = ks
    BY DEF AddJob, Shapes, TicketTypes
  <2>2. ASSUME NEW n \in JobIds, n # j PROVE out'[n] = out[n] /\ job'[n] = job[n]
    BY <2>2 DEF AddJob, Shapes, TicketTypes
  <2> QED
    BY <2>1, <2>2 DEF Shapes, DiskTypes
<1> QED
  BY <1>1, <1>2, <1>3 DEF Shapes, DiskTypes, AddJob

\* A job that goes on to its next stage keeps its tickets and who started it.
LEMMA StageShapes ==
  ASSUME Shapes, NEW j \in JobIds, NEW s \in Stages, job' = [job EXCEPT ![j].stage = s]
  PROVE /\ job' \in [JobIds -> [stage : Stages, hook : BOOLEAN, keys : Seq(Keys)]]
        /\ \A n \in JobIds : /\ job'[n].keys = job[n].keys /\ job'[n].hook = job[n].hook
                             /\ job'[n].stage = IF n = j THEN s ELSE job[n].stage
<1>1. job \in [JobIds -> [stage : Stages, hook : BOOLEAN, keys : Seq(Keys)]]
  BY DEF Shapes, TicketTypes
<1>2. job' = [job EXCEPT ![j] = [job[j] EXCEPT !.stage = s]]
  OBVIOUS
<1>3. /\ [job[j] EXCEPT !.stage = s] \in [stage : Stages, hook : BOOLEAN, keys : Seq(Keys)]
      /\ [job[j] EXCEPT !.stage = s].keys = job[j].keys
      /\ [job[j] EXCEPT !.stage = s].hook = job[j].hook
      /\ [job[j] EXCEPT !.stage = s].stage = s
  BY <1>1
<1> QED
  BY <1>1, <1>2, <1>3

\* What one worker does leaves the others where they are.
LEMMA WorkerShapes ==
  ASSUME Shapes, NEW j \in JobIds, NEW w \in Workers,
         NEW me \in [at : Places, pos : Nat, wake : 0 .. MaxClock],
         worker' = [worker EXCEPT ![j][w] = me]
  PROVE /\ worker' \in [JobIds -> [Workers -> [at : Places, pos : Nat, wake : 0 .. MaxClock]]]
        /\ worker'[j][w] = me
        /\ \A n \in JobIds, v \in Workers : n # j \/ v # w => worker'[n][v] = worker[n][v]
BY DEF Shapes, PoolTypes

LEMMA FreesShapes ==
  ASSUME Shapes, NEW j \in JobIds, NEW w \in Workers, Frees(j, w)
  PROVE /\ worker' \in [JobIds -> [Workers -> [at : Places, pos : Nat, wake : 0 .. MaxClock]]]
        /\ worker'[j][w] = Free
        /\ \A n \in JobIds, v \in Workers : n # j \/ v # w => worker'[n][v] = worker[n][v]
<1>1. Free \in [at : Places, pos : Nat, wake : 0 .. MaxClock]
  BY JobsAssumption DEF Free, Places
<1> QED
  BY <1>1, WorkerShapes DEF Frees

LEMMA PlaceShapes ==
  ASSUME Shapes, NEW j \in JobIds, NEW w \in Workers, NEW p \in Places,
         worker' = [worker EXCEPT ![j][w].at = p]
  PROVE /\ worker' \in [JobIds -> [Workers -> [at : Places, pos : Nat, wake : 0 .. MaxClock]]]
        /\ worker'[j][w].at = p /\ worker'[j][w].pos = worker[j][w].pos
        /\ \A n \in JobIds, v \in Workers : n # j \/ v # w => worker'[n][v] = worker[n][v]
<1> DEFINE me == [worker[j][w] EXCEPT !.at = p]
<1>1. worker[j][w] \in [at : Places, pos : Nat, wake : 0 .. MaxClock]
  BY DEF Shapes, PoolTypes
<1>2. /\ me \in [at : Places, pos : Nat, wake : 0 .. MaxClock]
      /\ me.at = p /\ me.pos = worker[j][w].pos
  BY <1>1
<1>3. worker' = [worker EXCEPT ![j][w] = me]
  OBVIOUS
<1> HIDE DEF me
<1> QED
  BY ONLY Shapes, j \in JobIds, w \in Workers, <1>2, <1>3, WorkerShapes

LEMMA WakeShapes ==
  ASSUME Shapes, NEW j \in JobIds, NEW w \in Workers, NEW t \in 0 .. MaxClock,
         worker' = [worker EXCEPT ![j][w].wake = t]
  PROVE /\ worker' \in [JobIds -> [Workers -> [at : Places, pos : Nat, wake : 0 .. MaxClock]]]
        /\ worker'[j][w].at = worker[j][w].at /\ worker'[j][w].pos = worker[j][w].pos
        /\ \A n \in JobIds, v \in Workers : n # j \/ v # w => worker'[n][v] = worker[n][v]
<1> DEFINE me == [worker[j][w] EXCEPT !.wake = t]
<1>1. worker[j][w] \in [at : Places, pos : Nat, wake : 0 .. MaxClock]
  BY DEF Shapes, PoolTypes
<1>2. /\ me \in [at : Places, pos : Nat, wake : 0 .. MaxClock]
      /\ me.at = worker[j][w].at /\ me.pos = worker[j][w].pos
  BY <1>1
<1>3. worker' = [worker EXCEPT ![j][w] = me]
  OBVIOUS
<1> HIDE DEF me
<1> QED
  BY ONLY Shapes, j \in JobIds, w \in Workers, <1>2, <1>3, WorkerShapes

\* Nothing has arrived and no job was started.
LEMMA InitShapes == Init => Shapes
<1> SUFFICES ASSUME Init PROVE Shapes
  OBVIOUS
<1>1. TicketTypes
  BY DEF Init, TicketTypes, Handled, Stages
<1>2. PoolTypes
  BY JobsAssumption DEF Init, PoolTypes, Places, Free
<1>3. DiskTypes
  BY DEF Init, DiskTypes
<1> QED
  BY <1>1, <1>2, <1>3, JobsAssumption DEF Init, Shapes

\* Every step keeps the shapes.
LEMMA NextShapes == Shapes /\ Placed /\ [Next]_vars => Shapes'
<1> SUFFICES ASSUME Shapes, Placed, [Next]_vars PROVE Shapes'
  OBVIOUS
<1>p. \A j \in JobIds, w \in Workers :
        worker[j][w].at # "free" => worker[j][w].pos \in Positions(j)
  BY DEF Placed, Works

<1>1. ASSUME NEW d \in Deliveries, Claim(d) PROVE Shapes'
  <2>1. TicketTypes'
    BY <1>1, JobsAssumption DEF Shapes, TicketTypes, Claim, Handles, Handled
  <2>2. PoolTypes' /\ DiskTypes'
    BY <1>1 DEF Shapes, PoolTypes, DiskTypes, Claim
  <2> QED
    BY <1>1, <2>1, <2>2 DEF Shapes, Claim
<1>2. ASSUME NEW d \in Deliveries, Ask(d) PROVE Shapes'
  <2>1. TicketTypes'
    BY <1>2, JobsAssumption DEF Shapes, TicketTypes, Ask, Handles, GivesBack, Handled
  <2>2. PoolTypes' /\ DiskTypes'
    BY <1>2 DEF Shapes, PoolTypes, DiskTypes, Ask
  <2> QED
    BY <1>2, <2>1, <2>2 DEF Shapes, Ask
<1>3. ASSUME NEW d \in Deliveries, StartDelivered(d) PROVE Shapes'
  <2>d. delivery' \in [Deliveries -> Handled]
    BY <1>3 DEF Shapes, TicketTypes, StartDelivered, Handles, Handled
  <2>p. PoolTypes'
    BY <1>3 DEF Shapes, PoolTypes, StartDelivered
  <2>1. ASSUME NEW j \in JobIds, AddJob(j, TRUE, <<Ticket[d]>>), UNCHANGED starting
        PROVE Shapes'
    <3>1. <<Ticket[d]>> \in Seq(Keys)
      BY JobsAssumption
    <3>2. /\ job' \in [JobIds -> [stage : Stages, hook : BOOLEAN, keys : Seq(Keys)]]
          /\ DiskTypes' /\ DOMAIN run' = JobIds /\ DOMAIN out' = JobIds
      BY <2>1, <3>1, AddJobShapes
    <3> QED
      BY <1>3, <2>1, <2>d, <2>p, <3>2 DEF Shapes, TicketTypes, StartDelivered
  <2>2. CASE GivesBack(d) /\ UNCHANGED <<job, disk>>
    BY <1>3, <2>2, <2>d, <2>p DEF Shapes, TicketTypes, DiskTypes, StartDelivered, GivesBack
  <2> QED
    BY <1>3, <2>1, <2>2 DEF StartDelivered
<1>4. ASSUME NEW j \in JobIds, NEW ks \in scene.lists, StartTriage(j, ks) PROVE Shapes'
  <2>1. ks \in Seq(Keys)
    BY JobsAssumption DEF Shapes
  <2>2. /\ job' \in [JobIds -> [stage : Stages, hook : BOOLEAN, keys : Seq(Keys)]]
        /\ DiskTypes' /\ DOMAIN run' = JobIds /\ DOMAIN out' = JobIds
    BY <1>4, <2>1, AddJobShapes DEF StartTriage
  <2>3. PoolTypes'
    BY <1>4 DEF Shapes, PoolTypes, StartTriage
  <2> QED
    BY <1>4, <2>2, <2>3 DEF Shapes, TicketTypes, StartTriage
<1>5. ASSUME NEW j \in JobIds, Build(j) PROVE Shapes'
  <2>1. /\ job' \in [JobIds -> [stage : Stages, hook : BOOLEAN, keys : Seq(Keys)]]
        /\ \A n \in JobIds : Positions(n)' = Positions(n)
    BY <1>5, StageShapes DEF Build, Stages
  <2>2. TicketTypes'
    BY <1>5, <2>1 DEF Shapes, TicketTypes, Build
  <2>3. queue' \in [JobIds -> Seq(Nat)]
    <3>1. job[j].keys \in Seq(Keys)
      BY DEF Shapes, TicketTypes
    <3>2. [i \in Positions(j) |-> i] \in Seq(Nat)
      BY <3>1
    <3> QED
      BY <1>5, <3>2 DEF Shapes, PoolTypes, Build
  <2>4. PoolTypes'
    BY <1>5, <2>3 DEF Shapes, PoolTypes, Build
  <2>5. DiskTypes' /\ DOMAIN run' = JobIds /\ DOMAIN out' = JobIds
    <3>1. CASE UNCHANGED out
      BY <1>5, <2>1, <3>1 DEF Shapes, DiskTypes, Build
    <3>2. CASE out' = [out EXCEPT ![j] = [i \in Positions(j) |-> "failed"]]
      <4>1. \A n \in JobIds :
              out'[n] \in [Positions(n) -> {"none", "failed", "skipped", "ran"}]
        BY <3>2 DEF Shapes, DiskTypes
      <4> QED
        BY <1>5, <2>1, <3>2, <4>1 DEF Shapes, DiskTypes, Build
    <3> QED
      BY <1>5, <3>1, <3>2 DEF Build
  <2> QED
    BY <1>5, <2>2, <2>4, <2>5 DEF Shapes, Build
<1>6. ASSUME NEW j \in JobIds, DropJob(j) \/ EndJob(j) PROVE Shapes'
  <2>s. /\ job' \in [JobIds -> [stage : Stages, hook : BOOLEAN, keys : Seq(Keys)]]
        /\ \A n \in JobIds : Positions(n)' = Positions(n)
    BY <1>6, StageShapes DEF DropJob, EndJob, Stages
  <2>1. TicketTypes' /\ \A n \in JobIds : Positions(n)' = Positions(n)
    BY <1>6, <2>s DEF Shapes, TicketTypes, DropJob, EndJob
  <2>z. 0 \in 0 .. MaxClock
    BY JobsAssumption
  <2>2. PoolTypes'
    BY <1>6, <2>z DEF Shapes, PoolTypes, DropJob, EndJob
  <2>3. DiskTypes'
    BY <1>6, <2>1 DEF Shapes, DiskTypes, DropJob, EndJob
  <2> QED
    BY <1>6, <2>1, <2>2, <2>3 DEF Shapes, DropJob, EndJob
<1>7. ASSUME NEW j \in JobIds, Cancel(j) PROVE Shapes'
  BY <1>7 DEF Shapes, TicketTypes, PoolTypes, DiskTypes, Cancel
<1>8. ASSUME NEW j \in JobIds, NEW w \in Workers, Take(j, w) PROVE Shapes'
  <2>1. Head(queue[j]) \in Nat /\ Tail(queue[j]) \in Seq(Nat)
    BY <1>8 DEF Shapes, PoolTypes, Take
  <2>w. worker' \in [JobIds -> [Workers -> [at : Places, pos : Nat, wake : 0 .. MaxClock]]]
    <3> DEFINE me == [at |-> "outside", pos |-> Head(queue[j]), wake |-> 0]
    <3>1. me \in [at : Places, pos : Nat, wake : 0 .. MaxClock]
      BY <2>1, JobsAssumption DEF Places
    <3>2. UNCHANGED worker \/ worker' = [worker EXCEPT ![j][w] = me]
      BY <1>8 DEF Take
    <3> HIDE DEF me
    <3> QED
      BY <3>1, <3>2, WorkerShapes DEF Shapes, PoolTypes
  <2>2. PoolTypes'
    BY <1>8, <2>1, <2>w DEF Shapes, PoolTypes, Take
  <2>3. DiskTypes' /\ DOMAIN run' = JobIds /\ DOMAIN out' = JobIds
    <3>1. CASE out' = out
      BY <1>8, <3>1 DEF Shapes, DiskTypes, Take
    <3>2. CASE Reports(j, Head(queue[j]), "skipped")
      BY <1>8, <3>2, ReportsShapes DEF Take
    <3> QED
      BY <1>8, <3>1, <3>2 DEF Take
  <2> QED
    BY <1>8, <2>2, <2>3 DEF Shapes, TicketTypes, Take
<1>9. ASSUME NEW j \in JobIds, NEW w \in Workers, Look(j, w) \/ Wake(j, w) PROVE Shapes'
  <2>1. Beyond[worker[j][w].at] \in Places
    BY <1>9 DEF Look, Wake, Waits, Beyond, Places
  <2>2. worker' \in [JobIds -> [Workers -> [at : Places, pos : Nat, wake : 0 .. MaxClock]]]
    <3>1. CASE worker' = [worker EXCEPT ![j][w].at = Beyond[worker[j][w].at]]
      BY <2>1, <3>1, PlaceShapes
    <3>2. CASE \E t \in 0 .. MaxClock : worker' = [worker EXCEPT ![j][w].wake = t]
      BY <3>2, WakeShapes
    <3>3. CASE Look(j, w)
      <4>1. until[j] \in 0 .. MaxClock
        BY DEF Shapes, PoolTypes
      <4> QED
        BY <3>1, <3>2, <3>3, <4>1 DEF Look
    <3>4. CASE Wake(j, w)
      <4>1. worker' = [worker EXCEPT ![j][w].wake = 0]
        BY <3>4 DEF Wake, Rises
      <4>2. 0 \in 0 .. MaxClock
        BY JobsAssumption
      <4> QED
        BY <3>2, <4>1, <4>2
    <3> QED
      BY <1>9, <3>3, <3>4
  <2> QED
    BY <1>9, <2>2 DEF Shapes, TicketTypes, PoolTypes, DiskTypes, Look, Wake
<1>10. ASSUME NEW j \in JobIds, NEW w \in Workers, GiveUp(j, w) PROVE Shapes'
  <2>1. PoolTypes'
    BY <1>10, FreesShapes DEF Shapes, PoolTypes, GiveUp
  <2>2. worker[j][w].pos \in Positions(j)
    BY <1>10, <1>p DEF GiveUp, Waits, Beyond
  <2>3. DiskTypes' /\ DOMAIN run' = JobIds /\ DOMAIN out' = JobIds
    BY <1>10, <2>2, WritesShapes, ReportsShapes DEF GiveUp
  <2> QED
    BY <1>10, <2>1, <2>3 DEF Shapes, TicketTypes, GiveUp
<1>11. ASSUME NEW j \in JobIds, NEW w \in Workers, Prepare(j, w) PROVE Shapes'
  <2>1. PoolTypes'
    BY <1>11, FreesShapes, PlaceShapes DEF Shapes, PoolTypes, Prepare, Places
  <2>2. worker[j][w].pos \in Positions(j)
    BY <1>11, <1>p DEF Prepare
  <2>3. DiskTypes' /\ DOMAIN run' = JobIds /\ DOMAIN out' = JobIds
    BY <1>11, <2>2, WritesShapes, ReportsShapes DEF Prepare
  <2> QED
    BY <1>11, <2>1, <2>3 DEF Shapes, TicketTypes, Prepare
<1>12. ASSUME NEW j \in JobIds, NEW w \in Workers, StartSession(j, w) \/ Settle(j, w)
       PROVE Shapes'
  <2>1. PoolTypes'
    BY <1>12, FreesShapes, PlaceShapes DEF Shapes, PoolTypes, StartSession, Settle, Places
  <2>2. worker[j][w].pos \in Positions(j)
    BY <1>12, <1>p DEF StartSession, Settle
  <2>3. DiskTypes' /\ DOMAIN run' = JobIds /\ DOMAIN out' = JobIds
    BY <1>12, <2>2, WritesShapes DEF StartSession, Settle
  <2> QED
    BY <1>12, <2>1, <2>3 DEF Shapes, TicketTypes, StartSession, Settle
<1>13. ASSUME NEW j \in JobIds, NEW w \in Workers, RateLimited(j, w) PROVE Shapes'
  <2>1. ASSUME NEW p \in Pauses, clock + p <= MaxClock
        PROVE Later(until[j], clock + p) \in 0 .. MaxClock
    BY <2>1, JobsAssumption DEF Shapes, PoolTypes, Later
  <2>2. PoolTypes'
    BY <1>13, <2>1 DEF Shapes, PoolTypes, RateLimited
  <2> QED
    BY <1>13, <2>2 DEF Shapes, TicketTypes, DiskTypes, RateLimited
<1>14. CASE Stop \/ StopReturns
  BY <1>14 DEF Shapes, TicketTypes, PoolTypes, DiskTypes, Stop, StopReturns, Table
<1>15. CASE Exit
  <2>1. TicketTypes' /\ \A n \in JobIds : Positions(n)' = Positions(n)
    BY <1>15 DEF Shapes, TicketTypes, Exit, Handled, Stages
  <2>2. PoolTypes'
    BY <1>15, JobsAssumption DEF PoolTypes, Exit, Free, Places
  <2>3. DiskTypes'
    BY <1>15, <2>1 DEF Shapes, DiskTypes, Exit
  <2> QED
    BY <1>15, <2>1, <2>2, <2>3, JobsAssumption DEF Shapes, Exit
<1>16. CASE Tick
  BY <1>16, JobsAssumption DEF Shapes, TicketTypes, PoolTypes, DiskTypes, Tick
<1>17. CASE UNCHANGED vars
  BY <1>17 DEF Shapes, TicketTypes, PoolTypes, DiskTypes
<1> QED
  BY <1>1, <1>2, <1>3, <1>4, <1>5, <1>6, <1>7, <1>8, <1>9, <1>10, <1>11, <1>12, <1>13,
     <1>14, <1>15, <1>16, <1>17
     DEF Next, Handler, Goroutine, Pooled

-----------------------------------------------------------------------------
(* Where the jobs, the queues and the workers stand.                        *)

\* What writing a run changes.
LEMMA WritesRun ==
  ASSUME Shapes, NEW j \in JobIds, NEW i \in Positions(j), NEW st, Writes(j, i, st)
  PROVE /\ run'[j][i].status = st
        /\ run'[j][i].from = IF st = "preparing" THEN clock ELSE run[j][i].from
        /\ \A n \in JobIds : \A m \in Positions(n) :
             n # j \/ m # i => run'[n][m] = run[n][m]
BY DEF Shapes, DiskTypes, Writes

LEMMA InitPlaced == Init => Placed
BY DEF Init, Placed, Hooked, Queued, Works, Blank, Free

LEMMA PlacedFrame ==
  ASSUME Placed, UNCHANGED <<job, queue, worker, run>>
  PROVE Placed'
BY DEF Placed, Hooked, Queued, Works, Blank

\* A job that is added has no queue and no worker yet.
LEMMA AddJobPlaced ==
  ASSUME Shapes, Placed, NEW j \in JobIds, NEW hook \in BOOLEAN, NEW ks \in Seq(Keys),
         hook => Len(ks) = 1, AddJob(j, hook, ks), UNCHANGED <<queue, worker>>
  PROVE Placed'
<1>1. job[j].stage = "none"
  BY DEF AddJob, Fresh
<1>2. /\ job'[j] = [stage |-> "building", hook |-> hook, keys |-> ks]
      /\ run'[j] = [i \in DOMAIN ks |-> NoRun]
      /\ \A n \in JobIds : n # j => job'[n] = job[n] /\ run'[n] = run[n]
  BY DEF AddJob, Shapes, TicketTypes
<1>3. queue[j] = << >> /\ \A w \in Workers : worker[j][w].at = "free"
  BY <1>1 DEF Placed, Queued, Works
<1>4. ASSUME NEW n \in JobIds, n # j
      PROVE (Hooked(n) /\ Queued(n) /\ Blank(n) /\ \A w \in Workers : Works(n, w))'
  BY <1>2, <1>4 DEF Placed, Hooked, Queued, Works, Blank
<1>5. (Hooked(j) /\ Queued(j) /\ Blank(j) /\ \A w \in Workers : Works(j, w))'
  BY <1>2, <1>3 DEF Hooked, Queued, Works, Blank, NoRun
<1> QED
  BY <1>4, <1>5 DEF Placed

\* A worker that moves between two places, or is freed, and may write its run.
LEMMA MovePlaced ==
  ASSUME Shapes, Placed, NEW j \in JobIds, NEW w \in Workers, worker[j][w].at # "free",
         UNCHANGED <<job, queue>>,
         \A n \in JobIds, v \in Workers : n # j \/ v # w => worker'[n][v] = worker[n][v],
         worker'[j][w].at = "free" \/ worker'[j][w].pos = worker[j][w].pos,
         \/ /\ UNCHANGED run
            /\ \/ worker'[j][w].at \in {"free", "outside", "prepare"}
               \/ worker[j][w].at \in {"inside", "start", "session"}
         \/ \E st \in {"preparing", "running", "settled"} : Writes(j, worker[j][w].pos, st)
  PROVE Placed'
<1>1. worker[j][w].pos \in Positions(j) /\ job[j].stage = "working"
  BY DEF Placed, Works
<1>2. \A n \in JobIds : \A i \in Positions(n) :
        \/ run'[n][i] = run[n][i]
        \/ run'[n][i].status # "none"
  BY <1>1, WritesRun
<1>3. \A n \in JobIds : Hooked(n)' /\ Queued(n)' /\ Blank(n)'
  BY <1>2 DEF Placed, Hooked, Queued, Blank
<1>4. ASSUME NEW n \in JobIds, NEW v \in Workers, n # j \/ v # w PROVE Works(n, v)'
  BY <1>2, <1>4 DEF Placed, Works
<1>5. Works(j, w)'
  <2>1. CASE /\ UNCHANGED run
             /\ \/ worker'[j][w].at \in {"free", "outside", "prepare"}
                \/ worker[j][w].at \in {"inside", "start", "session"}
    <3>1. CASE worker'[j][w].at = "free"
      BY <3>1 DEF Works
    <3>2. CASE worker'[j][w].pos = worker[j][w].pos
      BY <1>1, <2>1, <3>2 DEF Placed, Works
    <3> QED
      BY <3>1, <3>2
  <2>2. ASSUME NEW st \in {"preparing", "running", "settled"},
               Writes(j, worker[j][w].pos, st)
        PROVE Works(j, w)'
    <3>1. run'[j][worker[j][w].pos].status # "none"
      BY <1>1, <2>2, WritesRun
    <3>2. CASE worker'[j][w].at = "free"
      BY <3>2 DEF Works
    <3>3. CASE worker'[j][w].pos = worker[j][w].pos
      BY <1>1, <3>1, <3>3 DEF Works
    <3> QED
      BY <3>2, <3>3
  <2> QED
    BY <2>1, <2>2
<1> QED
  BY <1>3, <1>4, <1>5 DEF Placed

\* Every step keeps them there.
LEMMA NextPlaced == Shapes /\ Placed /\ [Next]_vars => Placed'
<1> SUFFICES ASSUME Shapes, Placed, [Next]_vars PROVE Placed'
  OBVIOUS
<1>1. ASSUME NEW d \in Deliveries, Claim(d) \/ Ask(d) PROVE Placed'
  BY <1>1, PlacedFrame DEF Claim, Ask
<1>2. ASSUME NEW d \in Deliveries, StartDelivered(d) PROVE Placed'
  <2>1. <<Ticket[d]>> \in Seq(Keys) /\ Len(<<Ticket[d]>>) = 1
    BY JobsAssumption
  <2>2. ASSUME NEW j \in JobIds, AddJob(j, TRUE, <<Ticket[d]>>) PROVE Placed'
    BY <1>2, <2>1, <2>2, AddJobPlaced DEF StartDelivered
  <2>3. CASE UNCHANGED <<job, disk>>
    BY <1>2, <2>3, PlacedFrame DEF StartDelivered
  <2> QED
    BY <1>2, <2>2, <2>3 DEF StartDelivered
<1>3. ASSUME NEW j \in JobIds, NEW ks \in scene.lists, StartTriage(j, ks) PROVE Placed'
  <2>1. ks \in Seq(Keys)
    BY JobsAssumption DEF Shapes
  <2> QED
    BY <1>3, <2>1, AddJobPlaced DEF StartTriage
<1>4. ASSUME NEW j \in JobIds, Build(j) PROVE Placed'
  <2>1. PICK s \in {"working", "dropped"} :
          /\ job' = [job EXCEPT ![j].stage = s]
          /\ \/ s = "working" /\ queue' = [queue EXCEPT ![j] = [i \in Positions(j) |-> i]]
             \/ UNCHANGED queue
    BY <1>4 DEF Build
  <2>2. \A n \in JobIds : /\ job'[n].keys = job[n].keys /\ job'[n].hook = job[n].hook
                          /\ job'[n].stage = IF n = j THEN s ELSE job[n].stage
    <3>1. s \in Stages
      BY <2>1 DEF Stages
    <3>2. job' = [job EXCEPT ![j].stage = s]
      BY <2>1
    <3> QED
      BY <3>1, <3>2, StageShapes
  <2>3. job[j].stage = "building"
    BY <1>4 DEF Build
  <2>4. \A n \in JobIds : Hooked(n)' /\ Blank(n)' /\ \A w \in Workers : Works(n, w)'
    BY <1>4, <2>2, <2>3 DEF Placed, Hooked, Blank, Works, Build
  <2>5. \A n \in JobIds : Queued(n)'
    <3>1. CASE UNCHANGED queue
      BY <2>2, <2>3, <3>1 DEF Placed, Queued
    <3>2. CASE s = "working" /\ queue' = [queue EXCEPT ![j] = [i \in Positions(j) |-> i]]
      <4>1. queue'[j] = [i \in Positions(j) |-> i] /\ \A n \in JobIds : n # j => queue'[n] = queue[n]
        BY <3>2 DEF Shapes, PoolTypes
      <4>2. ASSUME NEW n \in JobIds, n # j PROVE Queued(n)'
        <5>1. Queued(n) /\ queue'[n] = queue[n]
          BY <4>1, <4>2 DEF Placed
        <5> QED
          BY <2>2, <4>2, <5>1 DEF Queued
      <4>3. Queued(j)'
        BY <2>2, <3>2, <4>1 DEF Queued
      <4> QED
        BY <4>2, <4>3
    <3> QED
      BY <2>1, <3>1, <3>2
  <2> QED
    BY <2>4, <2>5 DEF Placed
<1>5. ASSUME NEW j \in JobIds, DropJob(j) \/ EndJob(j) PROVE Placed'
  <2>1. PICK s \in {"dropped", "gone"} : job' = [job EXCEPT ![j].stage = s]
    BY <1>5 DEF DropJob, EndJob
  <2>2. \A n \in JobIds : /\ job'[n].keys = job[n].keys /\ job'[n].hook = job[n].hook
                          /\ job'[n].stage = IF n = j THEN s ELSE job[n].stage
    <3>1. s \in Stages
      BY <2>1 DEF Stages
    <3>2. job' = [job EXCEPT ![j].stage = s]
      BY <2>1
    <3> QED
      BY <3>1, <3>2, StageShapes
  <2>3. queue[j] = << >> /\ \A w \in Workers : worker[j][w].at = "free"
    BY <1>5 DEF DropJob, EndJob, Placed, Queued, Works
  <2>4. UNCHANGED <<queue, worker, run>>
    BY <1>5 DEF DropJob, EndJob
  <2> QED
    BY <2>2, <2>3, <2>4 DEF Placed, Hooked, Queued, Blank, Works
<1>6. ASSUME NEW j \in JobIds, NEW w \in Workers, Take(j, w) PROVE Placed'
  <2>1. /\ queue'[j] = Tail(queue[j]) /\ \A n \in JobIds : n # j => queue'[n] = queue[n]
        /\ queue[j] \in Seq(Nat) /\ queue[j] # << >>
    BY <1>6 DEF Take, Shapes, PoolTypes
  <2>2. Head(queue[j]) \in Positions(j) /\ job[j].stage = "working"
    BY <1>6, <2>1 DEF Placed, Queued, Take
  <2>3. \A n \in JobIds : Hooked(n)' /\ Blank(n)'
    BY <1>6 DEF Placed, Hooked, Blank, Take
  <2>4. \A n \in JobIds : Queued(n)'
    <3>1. \A i \in DOMAIN Tail(queue[j]) : Tail(queue[j])[i] \in Positions(j)
      BY <2>1 DEF Placed, Queued
    <3>2. Queued(j)'
      BY <1>6, <2>1, <2>2, <3>1 DEF Queued, Take
    <3>3. ASSUME NEW n \in JobIds, n # j PROVE Queued(n)'
      <4>1. Queued(n) /\ queue'[n] = queue[n]
        BY <2>1, <3>3 DEF Placed
      <4> QED
        BY <1>6, <4>1 DEF Queued, Take
    <3> QED
      BY <3>2, <3>3
  <2>5. \A n \in JobIds, v \in Workers : Works(n, v)'
    <3>1. CASE UNCHANGED worker
      BY <1>6, <3>1 DEF Placed, Works, Take
    <3>2. CASE worker' = [worker EXCEPT
                 ![j][w] = [at |-> "outside", pos |-> Head(queue[j]), wake |-> 0]]
      <4>1. /\ worker'[j][w].at = "outside" /\ worker'[j][w].pos = Head(queue[j])
            /\ \A n \in JobIds, v \in Workers : n # j \/ v # w => worker'[n][v] = worker[n][v]
        BY <3>2 DEF Shapes, PoolTypes
      <4> QED
        BY <1>6, <2>2, <4>1 DEF Placed, Works, Take
    <3> QED
      BY <1>6, <3>1, <3>2 DEF Take
  <2> QED
    BY <2>3, <2>4, <2>5 DEF Placed
<1>7. ASSUME NEW j \in JobIds, NEW w \in Workers, Look(j, w) PROVE Placed'
  <2>1. worker[j][w].at \in {"outside", "inside"}
    BY <1>7 DEF Look, Waits, Beyond
  <2>2. CASE worker' = [worker EXCEPT ![j][w].at = Beyond[worker[j][w].at]]
    <3>1. /\ Beyond[worker[j][w].at] \in {"prepare", "start"}
          /\ Beyond[worker[j][w].at] = "start" => worker[j][w].at = "inside"
      BY <2>1 DEF Beyond
    <3>2. /\ worker'[j][w].at = Beyond[worker[j][w].at] /\ worker'[j][w].pos = worker[j][w].pos
          /\ \A n \in JobIds, v \in Workers : n # j \/ v # w => worker'[n][v] = worker[n][v]
      BY <2>2, <3>1, PlaceShapes DEF Places
    <3> QED
      BY <1>7, <2>1, <3>1, <3>2, MovePlaced DEF Look
  <2>3. CASE worker' = [worker EXCEPT ![j][w].wake = until[j]]
    <3>1. until[j] \in 0 .. MaxClock
      BY DEF Shapes, PoolTypes
    <3>2. /\ worker'[j][w].at = worker[j][w].at /\ worker'[j][w].pos = worker[j][w].pos
          /\ \A n \in JobIds, v \in Workers : n # j \/ v # w => worker'[n][v] = worker[n][v]
      BY <2>3, <3>1, WakeShapes
    <3> QED
      BY <1>7, <2>1, <3>2, MovePlaced DEF Look
  <2> QED
    BY <1>7, <2>2, <2>3 DEF Look
<1>8. ASSUME NEW j \in JobIds, NEW w \in Workers, Wake(j, w) PROVE Placed'
  <2>1. worker[j][w].at \in {"outside", "inside"}
    BY <1>8 DEF Wake, Waits, Beyond
  <2>2. worker' = [worker EXCEPT ![j][w].wake = 0] /\ 0 \in 0 .. MaxClock
    BY <1>8, JobsAssumption DEF Wake, Rises
  <2>3. /\ worker'[j][w].at = worker[j][w].at /\ worker'[j][w].pos = worker[j][w].pos
        /\ \A n \in JobIds, v \in Workers : n # j \/ v # w => worker'[n][v] = worker[n][v]
    BY <2>2, WakeShapes
  <2> QED
    BY <1>8, <2>1, <2>3, MovePlaced DEF Wake
<1>9. ASSUME NEW j \in JobIds, NEW w \in Workers, GiveUp(j, w) \/ Settle(j, w) PROVE Placed'
  <2>1. worker[j][w].at # "free" /\ Frees(j, w) /\ UNCHANGED <<job, queue>>
    BY <1>9 DEF GiveUp, Settle, Waits, Beyond
  <2>2. /\ worker'[j][w].at = "free"
        /\ \A n \in JobIds, v \in Workers : n # j \/ v # w => worker'[n][v] = worker[n][v]
    BY <2>1, FreesShapes DEF Free
  <2>3. UNCHANGED run \/ Writes(j, worker[j][w].pos, "settled")
    BY <1>9 DEF GiveUp, Settle
  <2> QED
    BY <2>1, <2>2, <2>3, MovePlaced
<1>10. ASSUME NEW j \in JobIds, NEW w \in Workers, Prepare(j, w) PROVE Placed'
  <2>1. CASE Frees(j, w) /\ UNCHANGED run
    <3>1. /\ worker'[j][w].at = "free"
          /\ \A n \in JobIds, v \in Workers : n # j \/ v # w => worker'[n][v] = worker[n][v]
      BY <2>1, FreesShapes DEF Free
    <3> QED
      BY <1>10, <2>1, <3>1, MovePlaced DEF Prepare
  <2>2. CASE /\ worker' = [worker EXCEPT ![j][w].at = "inside"]
             /\ Writes(j, worker[j][w].pos, "preparing")
    <3>1. /\ worker'[j][w].pos = worker[j][w].pos
          /\ \A n \in JobIds, v \in Workers : n # j \/ v # w => worker'[n][v] = worker[n][v]
      BY <2>2, PlaceShapes DEF Places
    <3> QED
      BY <1>10, <2>2, <3>1, MovePlaced DEF Prepare
  <2> QED
    BY <1>10, <2>1, <2>2 DEF Prepare
<1>11. ASSUME NEW j \in JobIds, NEW w \in Workers, StartSession(j, w) PROVE Placed'
  <2>1. /\ worker'[j][w].pos = worker[j][w].pos
        /\ \A n \in JobIds, v \in Workers : n # j \/ v # w => worker'[n][v] = worker[n][v]
    BY <1>11, PlaceShapes DEF Places, StartSession
  <2> QED
    BY <1>11, <2>1, MovePlaced DEF StartSession
<1>12. CASE Exit
  <2>1. \A n \in JobIds : /\ job'[n].keys = job[n].keys /\ job'[n].hook = job[n].hook
                          /\ job'[n].stage = "none" => job[n].stage = "none"
    BY <1>12 DEF Shapes, TicketTypes, Exit, Gone
  <2> QED
    BY <1>12, <2>1 DEF Exit, Placed, Hooked, Queued, Blank, Works, Free
<1>13. CASE \/ Stop \/ StopReturns \/ Tick \/ UNCHANGED vars
            \/ \E j \in JobIds : Cancel(j) \/ \E w \in Workers : RateLimited(j, w)
  <2>1. UNCHANGED <<job, queue, worker, run>>
    BY <1>13 DEF Stop, StopReturns, Tick, Cancel, RateLimited
  <2> QED
    BY <2>1, PlacedFrame
<1> QED
  BY <1>1, <1>2, <1>3, <1>4, <1>5, <1>6, <1>7, <1>8, <1>9, <1>10, <1>11, <1>12, <1>13
     DEF Next, Handler, Goroutine, Pooled

-----------------------------------------------------------------------------
(* One holder of a ticket's claim: a delivery under way, or the job it      *)
(* started.                                                                 *)

Asking(d) == delivery[d] \in {"claimed", "idle"}
Holds(j) == job[j].hook /\ ~Gone(j)
KeyOf(j) == job[j].keys[1]

OneHolder ==
    /\ \A d \in Deliveries : Asking(d) => Ticket[d] \in starting
    /\ \A j \in JobIds : Holds(j) => KeyOf(j) \in starting
    /\ \A d, e \in Deliveries : Asking(d) /\ Asking(e) /\ Ticket[d] = Ticket[e] => d = e
    /\ \A a, b \in JobIds : Holds(a) /\ Holds(b) /\ KeyOf(a) = KeyOf(b) => a = b
    /\ \A d \in Deliveries, j \in JobIds : Asking(d) /\ Holds(j) => Ticket[d] # KeyOf(j)

LEMMA InitOneHolder == Init => OneHolder
BY DEF Init, OneHolder, Asking, Holds

\* A step that takes no claim and gives none back.
LEMMA HolderFrame ==
  ASSUME OneHolder, UNCHANGED <<delivery, starting>>,
         \A j \in JobIds : Holds(j)' => Holds(j) /\ KeyOf(j)' = KeyOf(j)
  PROVE OneHolder'
BY DEF OneHolder, Asking

\* What becomes of one delivery is not the others' concern.
LEMMA HandlesOne ==
  ASSUME Shapes, NEW d \in Deliveries, NEW to, Handles(d, to)
  PROVE delivery'[d] = to /\ \A e \in Deliveries : e # d => delivery'[e] = delivery[e]
BY DEF Shapes, TicketTypes, Handles

\* A claim is taken when nobody holds it and given back by the one who does.
LEMMA NextOneHolder == Shapes /\ Placed /\ OneHolder /\ [Next]_vars => OneHolder'
<1> SUFFICES ASSUME Shapes, Placed, OneHolder, [Next]_vars PROVE OneHolder'
  OBVIOUS
<1>1. ASSUME NEW d \in Deliveries, Claim(d) PROVE OneHolder'
  <2>1. \A j \in JobIds : Holds(j)' = Holds(j) /\ KeyOf(j)' = KeyOf(j)
    BY <1>1 DEF Claim, Holds, Gone, KeyOf
  <2>2. \A e \in Deliveries : e # d => delivery'[e] = delivery[e]
    BY <1>1, HandlesOne DEF Claim
  <2>3. starting' = starting \cup {Ticket[d]}
    BY <1>1 DEF Claim
  <2>4. CASE Ticket[d] \in starting
    <3>1. ~Asking(d)'
      BY <1>1, <2>4, HandlesOne DEF Claim, Claimed, Asking
    <3> QED
      BY <2>1, <2>2, <2>3, <3>1 DEF OneHolder, Asking
  <2>5. CASE Ticket[d] \notin starting
    BY <2>1, <2>2, <2>3, <2>5 DEF OneHolder, Asking
  <2> QED
    BY <2>4, <2>5
<1>2. ASSUME NEW d \in Deliveries, Ask(d) PROVE OneHolder'
  <2>1. \A j \in JobIds : Holds(j)' = Holds(j) /\ KeyOf(j)' = KeyOf(j)
    BY <1>2 DEF Ask, Holds, Gone, KeyOf
  <2>2. \A e \in Deliveries : e # d => delivery'[e] = delivery[e]
    BY <1>2, HandlesOne DEF Ask
  <2>3. Asking(d)
    BY <1>2 DEF Ask, Asking
  <2>4. CASE Handles(d, "answered") /\ GivesBack(d)
    <3>1. ~Asking(d)'
      BY <2>4, HandlesOne DEF Asking
    <3> QED
      BY <2>1, <2>2, <2>3, <2>4, <3>1 DEF OneHolder, Asking, GivesBack
  <2>5. CASE UNCHANGED starting
    BY <2>1, <2>2, <2>3, <2>5 DEF OneHolder, Asking
  <2> QED
    BY <1>2, <2>4, <2>5 DEF Ask
<1>3. ASSUME NEW d \in Deliveries, StartDelivered(d) PROVE OneHolder'
  <2>1. /\ ~Asking(d)' /\ Asking(d)
        /\ \A e \in Deliveries : e # d => delivery'[e] = delivery[e]
    BY <1>3, HandlesOne DEF StartDelivered, Asking
  <2>2. ASSUME NEW j \in JobIds, AddJob(j, TRUE, <<Ticket[d]>>), UNCHANGED starting
        PROVE OneHolder'
    <3>1. /\ KeyOf(j)' = Ticket[d]
          /\ \A n \in JobIds : n # j => job'[n] = job[n]
      BY <2>2 DEF AddJob, KeyOf, Shapes, TicketTypes
    <3>2. \A n \in JobIds : n # j => Holds(n)' = Holds(n) /\ KeyOf(n)' = KeyOf(n)
      BY <3>1 DEF Holds, Gone, KeyOf
    <3> QED
      BY <2>1, <2>2, <3>1, <3>2 DEF OneHolder, Asking
  <2>3. CASE GivesBack(d) /\ UNCHANGED job
    <3>1. \A j \in JobIds : Holds(j)' = Holds(j) /\ KeyOf(j)' = KeyOf(j)
      BY <2>3 DEF Holds, Gone, KeyOf
    <3> QED
      BY <2>1, <2>3, <3>1 DEF OneHolder, Asking, GivesBack
  <2> QED
    BY <1>3, <2>2, <2>3 DEF StartDelivered
<1>4. ASSUME NEW j \in JobIds, NEW ks \in scene.lists, StartTriage(j, ks) PROVE OneHolder'
  <2>1. job'[j].hook = FALSE /\ \A n \in JobIds : n # j => job'[n] = job[n]
    BY <1>4 DEF StartTriage, AddJob, Shapes, TicketTypes
  <2> QED
    BY <1>4, <2>1, HolderFrame DEF StartTriage, Holds, Gone, KeyOf
<1>5. ASSUME NEW j \in JobIds, Build(j) \/ DropJob(j) PROVE OneHolder'
  <2>1. PICK s \in {"working", "dropped"} : job' = [job EXCEPT ![j].stage = s]
    BY <1>5 DEF Build, DropJob
  <2>2. s \in Stages
    BY DEF Stages
  <2>3. \A n \in JobIds : /\ job'[n].keys = job[n].keys /\ job'[n].hook = job[n].hook
                          /\ job'[n].stage = IF n = j THEN s ELSE job[n].stage
    BY <2>1, <2>2, StageShapes
  <2>4. job[j].stage \in {"building", "working"} /\ UNCHANGED <<delivery, starting>>
    BY <1>5 DEF Build, DropJob
  <2> QED
    BY <2>3, <2>4, HolderFrame DEF Holds, Gone, KeyOf
<1>6. ASSUME NEW j \in JobIds, EndJob(j) PROVE OneHolder'
  <2>1. \A n \in JobIds : /\ job'[n].keys = job[n].keys /\ job'[n].hook = job[n].hook
                          /\ job'[n].stage = IF n = j THEN "gone" ELSE job[n].stage
    BY <1>6, StageShapes DEF EndJob, Stages
  <2>2. /\ ~Holds(j)' /\ (job[j].hook => Holds(j))
        /\ \A n \in JobIds : KeyOf(n)' = KeyOf(n) /\ (n # j => Holds(n)' = Holds(n))
    BY <1>6, <2>1 DEF Holds, Gone, KeyOf, EndJob
  <2>3. starting' = starting \ (IF job[j].hook THEN {KeyOf(j)} ELSE {}) /\ UNCHANGED delivery
    BY <1>6 DEF EndJob, ClaimOf, KeyOf
  <2> QED
    BY <2>2, <2>3 DEF OneHolder, Asking
<1>7. CASE Exit
  BY <1>7 DEF Exit, OneHolder, Asking, Holds, Gone
<1>8. CASE UNCHANGED <<delivery, starting, job>>
  BY <1>8, HolderFrame DEF Holds, Gone, KeyOf
<1>9. ASSUME NEW j \in JobIds, NEW w \in Workers, Pooled(j, w) \/ RateLimited(j, w)
      PROVE UNCHANGED <<delivery, starting, job>>
  BY <1>9 DEF Pooled, Take, Look, Wake, GiveUp, Prepare, StartSession, Settle, RateLimited
<1>10. ASSUME Stop \/ StopReturns \/ Tick \/ UNCHANGED vars \/ \E j \in JobIds : Cancel(j)
       PROVE UNCHANGED <<delivery, starting, job>>
  BY <1>10 DEF Stop, StopReturns, Tick, Cancel
<1> QED
  BY <1>1, <1>2, <1>3, <1>4, <1>5, <1>6, <1>7, <1>8, <1>9, <1>10
     DEF Next, Handler, Goroutine

-----------------------------------------------------------------------------
(* What one step does to a job and to its runs.                             *)

\* A working job's worker writes a run: the run was prepared, now or before.
Rewrites(j, i) ==
    /\ job[j].stage = "working"
    /\ UNCHANGED <<job, delivery, clock>>
    /\ \/ run[j][i].status # "none" /\ run'[j][i].from = run[j][i].from
       \/ run'[j][i].from = clock

Keeps(j) ==
    /\ job'[j].hook = job[j].hook /\ job'[j].keys = job[j].keys
    /\ Gone(j) => Gone(j)'
    /\ \A i \in Positions(j) : run'[j][i] = run[j][i] \/ Rewrites(j, i)

\* A job nobody had started is added; a delivery's, by its idle delivery.
Begins(j) ==
    /\ \A i \in Positions(j)' : run'[j][i] = NoRun
    /\ job'[j].hook => \E d \in Deliveries : delivery[d] = "idle" /\ KeyOf(j)' = Ticket[d]

\* A delivery is found idle when no run of its ticket is under way or too recent.
Finds(d) ==
    /\ UNCHANGED <<job, run, clock>>
    /\ ~Busy(Ticket[d])

LEMMA WritesKeeps ==
  ASSUME Shapes, NEW j \in JobIds, NEW i \in Positions(j), NEW st, Writes(j, i, st),
         job[j].stage = "working", UNCHANGED <<job, delivery, clock>>,
         st = "preparing" \/ run[j][i].status # "none"
  PROVE \A n \in JobIds : Keeps(n)
<1>1. /\ run'[j][i].from = IF st = "preparing" THEN clock ELSE run[j][i].from
      /\ \A n \in JobIds : \A m \in Positions(n) :
           n # j \/ m # i => run'[n][m] = run[n][m]
  BY WritesRun
<1> QED
  BY <1>1 DEF Keeps, Rewrites, Gone

LEMMA AddJobBegins ==
  ASSUME Shapes, NEW j \in JobIds, NEW hook \in BOOLEAN, NEW ks \in Seq(Keys),
         AddJob(j, hook, ks),
         hook => \E d \in Deliveries : delivery[d] = "idle" /\ ks = <<Ticket[d]>>
  PROVE \A n \in JobIds : Keeps(n) \/ Begins(n)
<1>1. /\ job'[j] = [stage |-> "building", hook |-> hook, keys |-> ks]
      /\ run'[j] = [i \in DOMAIN ks |-> NoRun]
      /\ \A n \in JobIds : n # j => job'[n] = job[n] /\ run'[n] = run[n]
  BY DEF AddJob, Shapes, TicketTypes
<1>2. ASSUME NEW n \in JobIds, n # j PROVE Keeps(n)
  BY <1>1, <1>2 DEF Keeps, Gone
<1>3. Begins(j)
  BY <1>1 DEF Begins, KeyOf
<1> QED
  BY <1>2, <1>3

\* Time does not go back, and no step does more to a job or a delivery than these.
LEMMA Moves ==
  ASSUME Shapes, Placed, [Next]_vars
  PROVE /\ clock \in Nat /\ clock' \in Nat /\ clock <= clock'
        /\ \A j \in JobIds : Keeps(j) \/ Begins(j)
        /\ \A d \in Deliveries : delivery'[d] = "idle" => delivery[d] = "idle" \/ Finds(d)
<1>c. clock \in Nat
  BY JobsAssumption DEF Shapes
<1>p. \A j \in JobIds, w \in Workers :
        /\ worker[j][w].at # "free" =>
             job[j].stage = "working" /\ worker[j][w].pos \in Positions(j)
        /\ worker[j][w].at \in {"inside", "start", "session"} =>
             run[j][worker[j][w].pos].status # "none"
  BY DEF Placed, Works
<1>1. ASSUME NEW d \in Deliveries, Claim(d) \/ Ask(d)
      PROVE /\ UNCHANGED clock /\ \A j \in JobIds : Keeps(j)
            /\ \A e \in Deliveries : delivery'[e] = "idle" => delivery[e] = "idle" \/ Finds(e)
  <2>1. UNCHANGED <<clock, job, run>>
    BY <1>1 DEF Claim, Ask
  <2>2. \A j \in JobIds : Keeps(j)
    BY <2>1 DEF Keeps, Gone
  <2>3. \A e \in Deliveries : e # d => delivery'[e] = delivery[e]
    BY <1>1, HandlesOne DEF Claim, Ask
  <2>4. delivery'[d] = "idle" => Finds(d)
    <3>1. CASE Claim(d)
      BY <3>1, HandlesOne DEF Claim
    <3>2. CASE Ask(d)
      BY <2>1, <3>2, HandlesOne DEF Ask, Finds
    <3> QED
      BY <1>1, <3>1, <3>2
  <2>5. \A e \in Deliveries : delivery'[e] = "idle" => delivery[e] = "idle" \/ Finds(e)
    BY <2>3, <2>4
  <2> QED
    BY <2>1, <2>2, <2>5
<1>2. ASSUME NEW d \in Deliveries, StartDelivered(d)
      PROVE /\ UNCHANGED clock /\ \A j \in JobIds : Keeps(j) \/ Begins(j)
            /\ \A e \in Deliveries : delivery'[e] = "idle" => delivery[e] = "idle"
  <2>1. \A e \in Deliveries : delivery'[e] = "idle" => delivery[e] = "idle"
    BY <1>2, HandlesOne DEF StartDelivered
  <2>2. ASSUME NEW j \in JobIds, AddJob(j, TRUE, <<Ticket[d]>>)
        PROVE \A n \in JobIds : Keeps(n) \/ Begins(n)
    <3>1. <<Ticket[d]>> \in Seq(Keys) /\ delivery[d] = "idle"
      BY <1>2, JobsAssumption DEF StartDelivered
    <3> QED
      BY <2>2, <3>1, AddJobBegins
  <2>3. UNCHANGED <<job, disk>> => \A n \in JobIds : Keeps(n)
    BY DEF Keeps, Gone
  <2>4. \/ \E j \in JobIds : AddJob(j, TRUE, <<Ticket[d]>>)
        \/ UNCHANGED <<job, disk>>
    BY <1>2 DEF StartDelivered
  <2>5. UNCHANGED clock
    BY <1>2 DEF StartDelivered
  <2> QED
    BY <2>1, <2>2, <2>3, <2>4, <2>5
<1>3. ASSUME NEW j \in JobIds, NEW ks \in scene.lists, StartTriage(j, ks)
      PROVE UNCHANGED <<clock, delivery>> /\ \A n \in JobIds : Keeps(n) \/ Begins(n)
  <2>1. ks \in Seq(Keys)
    BY JobsAssumption DEF Shapes
  <2> QED
    BY <1>3, <2>1, AddJobBegins DEF StartTriage
<1>4. ASSUME NEW j \in JobIds, Goroutine(j)
      PROVE UNCHANGED <<clock, delivery>> /\ \A n \in JobIds : Keeps(n)
  <2>1. PICK s \in {"working", "dropped", "gone"} :
          /\ job' = [job EXCEPT ![j].stage = s]
          /\ job[j].stage \in {"building", "working"} \/ s = "gone"
    BY <1>4 DEF Goroutine, Build, DropJob, EndJob
  <2>2. s \in Stages
    BY DEF Stages
  <2>3. \A n \in JobIds : /\ job'[n].keys = job[n].keys /\ job'[n].hook = job[n].hook
                          /\ job'[n].stage = IF n = j THEN s ELSE job[n].stage
    BY <2>1, <2>2, StageShapes
  <2>4. UNCHANGED <<clock, delivery, run>>
    BY <1>4 DEF Goroutine, Build, DropJob, EndJob
  <2> QED
    BY <2>1, <2>3, <2>4 DEF Keeps, Gone
<1>5. ASSUME NEW j \in JobIds, NEW w \in Workers, Pooled(j, w)
      PROVE UNCHANGED <<clock, delivery>> /\ \A n \in JobIds : Keeps(n)
  <2>1. UNCHANGED <<clock, delivery, job>>
    BY <1>5 DEF Pooled, Take, Look, Wake, GiveUp, Prepare, StartSession, Settle
  <2>2. CASE UNCHANGED run
    BY <2>1, <2>2 DEF Keeps, Gone
  <2>3. CASE GiveUp(j, w) /\ Writes(j, worker[j][w].pos, "settled") /\ Written(j, w)
    <3>1. worker[j][w].at = "inside"
      BY <2>3 DEF Written
    <3> QED
      BY <1>p, <2>1, <2>3, <3>1, WritesKeeps
  <2>4. CASE Prepare(j, w) /\ Writes(j, worker[j][w].pos, "preparing")
    <3>1. worker[j][w].at = "prepare"
      BY <2>4 DEF Prepare
    <3> QED
      BY <1>p, <2>1, <2>4, <3>1, WritesKeeps
  <2>5. CASE StartSession(j, w)
    BY <1>p, <2>1, <2>5, WritesKeeps DEF StartSession
  <2>6. CASE Settle(j, w)
    BY <1>p, <2>1, <2>6, WritesKeeps DEF Settle
  <2>7. Take(j, w) \/ Look(j, w) \/ Wake(j, w) => UNCHANGED run
    BY DEF Take, Look, Wake
  <2>8. GiveUp(j, w) => \/ UNCHANGED run
                        \/ Writes(j, worker[j][w].pos, "settled") /\ Written(j, w)
    BY DEF GiveUp
  <2>9. Prepare(j, w) => UNCHANGED run \/ Writes(j, worker[j][w].pos, "preparing")
    BY DEF Prepare
  <2> QED
    BY <1>5, <2>1, <2>2, <2>3, <2>4, <2>5, <2>6, <2>7, <2>8, <2>9 DEF Pooled
<1>6. CASE Exit
  <2>1. UNCHANGED <<clock, run>> /\ \A d \in Deliveries : delivery'[d] # "idle"
    BY <1>6 DEF Exit
  <2>2. \A n \in JobIds : /\ job'[n].keys = job[n].keys /\ job'[n].hook = job[n].hook
                          /\ Gone(n) => Gone(n)'
    BY <1>6 DEF Shapes, TicketTypes, Exit, Gone
  <2> QED
    BY <1>c, <2>1, <2>2 DEF Keeps
<1>7. CASE Tick
  <2>1. clock' = clock + 1 /\ UNCHANGED <<delivery, job, run>>
    BY <1>7 DEF Tick
  <2> QED
    BY <1>c, <2>1 DEF Keeps, Gone
<1>8. CASE \/ Stop \/ StopReturns \/ UNCHANGED vars
           \/ \E j \in JobIds : Cancel(j) \/ \E w \in Workers : RateLimited(j, w)
  <2>1. UNCHANGED <<clock, delivery, job, run>>
    BY <1>8 DEF Stop, StopReturns, Cancel, RateLimited
  <2> QED
    BY <1>c, <2>1 DEF Keeps, Gone
<1> QED
  BY <1>c, <1>1, <1>2, <1>3, <1>4, <1>5, <1>6, <1>7, <1>8 DEF Next, Handler

-----------------------------------------------------------------------------
(* Runs of one ticket that deliveries started follow one another.           *)

\* The job's ticket was prepared.
Ran(j) == job[j].hook /\ run[j][1].status # "none"

\* Its run is over, and the cooldown after it.
Cooled(j) == ~Active(run[j][1]) /\ run[j][1].upd + Cooldown <= clock

\* Whoever holds the claim finds every earlier run of the ticket cooled down,
\* and the runs there were are apart.
Ordered ==
    /\ \A d \in Deliveries, a \in JobIds :
         delivery[d] = "idle" /\ Ran(a) /\ KeyOf(a) = Ticket[d] => Cooled(a)
    /\ \A a, b \in JobIds :
         a # b /\ Holds(b) /\ Ran(a) /\ KeyOf(a) = KeyOf(b) => Cooled(a)
    /\ \A a, b \in JobIds :
         a # b /\ Ran(a) /\ Ran(b) /\ KeyOf(a) = KeyOf(b) =>
             \/ Gone(a) /\ Apart(run[a][1], run[b][1])
             \/ Gone(b) /\ Apart(run[b][1], run[a][1])

LEMMA InitOrdered == Init => Ordered
BY DEF Init, Ordered, Ran, Holds

LEMMA HookedPosition ==
  ASSUME Shapes, Placed, NEW j \in JobIds, job[j].hook
  PROVE 1 \in Positions(j) /\ run[j][1] \in Run
<1>1. Len(job[j].keys) = 1 /\ job[j].keys \in Seq(Keys)
  BY DEF Placed, Hooked, Shapes, TicketTypes
<1> QED
  BY <1>1 DEF Shapes, DiskTypes

\* A run that is there after a step was there before, or its worker wrote it.
LEMMA RanBefore ==
  ASSUME Shapes, Placed, [Next]_vars, NEW j \in JobIds, Ran(j)'
  PROVE /\ job[j].hook /\ KeyOf(j)' = KeyOf(j) /\ (Gone(j) => Gone(j)')
        /\ \/ Ran(j) /\ run'[j][1] = run[j][1]
           \/ Rewrites(j, 1) /\ Holds(j)
<1>1. ~Begins(j)
  <2>1. Shapes' /\ Placed'
    BY NextShapes, NextPlaced
  <2>2. Len(job'[j].keys) = 1 /\ job'[j].keys \in Seq(Keys)
    BY <2>1 DEF Placed, Hooked, Shapes, TicketTypes, Ran
  <2> QED
    BY <2>2 DEF Begins, Ran, NoRun
<1>2. Keeps(j)
  BY <1>1, Moves
<1>3. 1 \in Positions(j)
  BY <1>2, HookedPosition DEF Keeps, Ran
<1> QED
  BY <1>2, <1>3 DEF Keeps, Ran, KeyOf, Rewrites, Holds, Gone

LEMMA NextOrdered == Shapes /\ Placed /\ OneHolder /\ Ordered /\ [Next]_vars => Ordered'
<1> SUFFICES ASSUME Shapes, Placed, OneHolder, Ordered, [Next]_vars PROVE Ordered'
  OBVIOUS
<1>m. /\ clock \in Nat /\ clock' \in Nat /\ clock <= clock'
      /\ \A j \in JobIds : Keeps(j) \/ Begins(j)
      /\ \A d \in Deliveries : delivery'[d] = "idle" => delivery[d] = "idle" \/ Finds(d)
  BY Moves
<1>c. ASSUME NEW a \in JobIds, Cooled(a), job[a].hook, run'[a][1] = run[a][1]
      PROVE Cooled(a)'
  <2>1. run[a][1].upd \in Nat
    BY <1>c, HookedPosition DEF Run
  <2> QED
    BY <1>m, <1>c, <2>1, JobsAssumption DEF Cooled, Active
<1>1. ASSUME NEW d \in Deliveries, NEW a \in JobIds,
             delivery'[d] = "idle", Ran(a)', KeyOf(a)' = Ticket[d]
      PROVE Cooled(a)'
  <2>1. /\ job[a].hook /\ KeyOf(a) = Ticket[d]
        /\ \/ Ran(a) /\ run'[a][1] = run[a][1]
           \/ Rewrites(a, 1) /\ Holds(a)
    BY <1>1, RanBefore
  <2>2. CASE delivery[d] = "idle"
    <3>1. ~Holds(a)
      BY <2>1, <2>2 DEF OneHolder, Asking
    <3>2. Cooled(a)
      BY <2>1, <2>2, <3>1 DEF Ordered
    <3> QED
      BY <1>c, <2>1, <3>1, <3>2
  <2>3. CASE Finds(d)
    <3>1. run'[a][1] = run[a][1] /\ Ran(a)
      BY <1>1, <2>3 DEF Finds, Ran
    <3>2. 1 \in Positions(a) /\ run[a][1] \in Run
      BY <2>1, HookedPosition
    <3>3. run[a][1] \in RunsOf(Ticket[d])
      BY <2>1, <3>2 DEF RunsOf, KeyOf
    <3>4. ~Active(run[a][1]) /\ ~(clock - run[a][1].upd < Cooldown)
      BY <2>3, <3>1, <3>2, <3>3 DEF Finds, Busy, Active, Run, Ran
    <3>5. Cooled(a)
      BY <1>m, <3>2, <3>4, JobsAssumption DEF Cooled, Run
    <3> QED
      BY <1>c, <2>1, <3>1, <3>5
  <2> QED
    BY <1>m, <1>1, <2>2, <2>3
<1>2. ASSUME NEW a \in JobIds, NEW b \in JobIds,
             a # b, Holds(b)', Ran(a)', KeyOf(a)' = KeyOf(b)'
      PROVE Cooled(a)'
  <2>1. /\ job[a].hook /\ KeyOf(a)' = KeyOf(a)
        /\ \/ Ran(a) /\ run'[a][1] = run[a][1]
           \/ Rewrites(a, 1) /\ Holds(a)
    BY <1>2, RanBefore
  <2>2. CASE Keeps(b)
    <3>1. Holds(b) /\ KeyOf(b)' = KeyOf(b)
      BY <1>2, <2>2 DEF Keeps, Holds, KeyOf
    <3>2. ~Holds(a)
      BY <1>2, <2>1, <3>1 DEF OneHolder
    <3>3. Cooled(a)
      BY <1>2, <2>1, <3>1, <3>2 DEF Ordered
    <3> QED
      BY <1>c, <2>1, <3>2, <3>3
  <2>3. CASE Begins(b)
    <3>1. PICK d \in Deliveries : delivery[d] = "idle" /\ KeyOf(b)' = Ticket[d]
      BY <1>2, <2>3 DEF Begins, Holds
    <3>2. ~Holds(a)
      BY <1>2, <2>1, <3>1 DEF OneHolder, Asking
    <3>3. Cooled(a)
      BY <1>2, <2>1, <3>1, <3>2 DEF Ordered
    <3> QED
      BY <1>c, <2>1, <3>2, <3>3
  <2> QED
    BY <1>m, <2>2, <2>3
<1>3. ASSUME NEW a \in JobIds, NEW b \in JobIds, a # b, Ran(a)', Ran(b)',
             KeyOf(a)' = KeyOf(b)', Rewrites(b, 1), Holds(b)
      PROVE Gone(a)' /\ Apart(run[a][1], run[b][1])'
  <2>1. /\ job[a].hook /\ KeyOf(a)' = KeyOf(a) /\ (Gone(a) => Gone(a)')
        /\ \/ Ran(a) /\ run'[a][1] = run[a][1]
           \/ Rewrites(a, 1) /\ Holds(a)
    BY <1>3, RanBefore
  <2>2. job[b].hook /\ KeyOf(b)' = KeyOf(b)
    BY <1>3, RanBefore
  <2>3. ~Holds(a)
    BY <1>3, <2>1, <2>2 DEF OneHolder
  <2>4. Gone(a) /\ Ran(a) /\ run'[a][1] = run[a][1]
    BY <2>1, <2>3 DEF Holds
  <2>5. Cooled(a)
    BY <1>3, <2>1, <2>2, <2>4 DEF Ordered
  <2>6. CASE run'[b][1].from = clock
    BY <2>1, <2>4, <2>5, <2>6 DEF Cooled, Apart, Active
  <2>7. CASE run[b][1].status # "none" /\ run'[b][1].from = run[b][1].from
    <3>1. Ran(b) /\ ~Gone(b)
      BY <1>3, <2>2, <2>7 DEF Ran, Holds
    <3>2. Apart(run[a][1], run[b][1])
      BY <1>3, <2>1, <2>2, <2>4, <3>1 DEF Ordered
    <3> QED
      BY <2>1, <2>4, <2>7, <3>2 DEF Apart, Active
  <2> QED
    BY <1>3, <2>6, <2>7 DEF Rewrites
<1>4. ASSUME NEW a \in JobIds, NEW b \in JobIds, a # b, Ran(a)', Ran(b)',
             KeyOf(a)' = KeyOf(b)'
      PROVE \/ Gone(a)' /\ Apart(run[a][1], run[b][1])'
            \/ Gone(b)' /\ Apart(run[b][1], run[a][1])'
  <2>1. /\ KeyOf(a)' = KeyOf(a) /\ (Gone(a) => Gone(a)')
        /\ \/ Ran(a) /\ run'[a][1] = run[a][1]
           \/ Rewrites(a, 1) /\ Holds(a)
    BY <1>4, RanBefore
  <2>2. /\ KeyOf(b)' = KeyOf(b) /\ (Gone(b) => Gone(b)')
        /\ \/ Ran(b) /\ run'[b][1] = run[b][1]
           \/ Rewrites(b, 1) /\ Holds(b)
    BY <1>4, RanBefore
  <2>3. CASE Rewrites(b, 1) /\ Holds(b)
    BY <1>3, <1>4, <2>3
  <2>4. CASE Rewrites(a, 1) /\ Holds(a)
    BY <1>3, <1>4, <2>4
  <2>5. CASE /\ Ran(a) /\ run'[a][1] = run[a][1]
             /\ Ran(b) /\ run'[b][1] = run[b][1]
    <3>1. \/ Gone(a) /\ Apart(run[a][1], run[b][1])
          \/ Gone(b) /\ Apart(run[b][1], run[a][1])
      BY <1>4, <2>1, <2>2, <2>5 DEF Ordered
    <3> QED
      BY <2>1, <2>2, <2>5, <3>1 DEF Apart, Active
  <2> QED
    BY <2>1, <2>2, <2>3, <2>4, <2>5
<1> QED
  BY <1>1, <1>2, <1>4 DEF Ordered

-----------------------------------------------------------------------------

JobsInv == Shapes /\ Placed /\ OneHolder /\ Ordered

LEMMA JobsInvariant == Spec => []JobsInv
<1>1. Init => JobsInv
  BY InitShapes, InitPlaced, InitOneHolder, InitOrdered DEF JobsInv
<1>2. JobsInv /\ [Next]_vars => JobsInv'
  BY NextShapes, NextPlaced, NextOneHolder, NextOrdered DEF JobsInv
<1> QED
  BY <1>1, <1>2, PTL DEF Spec

\* The types; a worker stands at a ticket of its job, and a delivery under way or
\* the job it started holds the claim on its ticket.
THEOREM TypeCorrect == Spec => []TypeOK
<1>1. JobsInv => TypeOK
  BY DEF JobsInv, Shapes, Placed, Hooked, Works, OneHolder, Asking, Holds, KeyOf, TypeOK
<1> QED
  BY <1>1, JobsInvariant, PTL

\* A ticket's claim has one holder at most: a delivery that asks, or the job one
\* started, until the job is gone.
THEOREM OneClaim == Spec => []OneHolder
<1>1. JobsInv => OneHolder
  BY DEF JobsInv
<1> QED
  BY <1>1, JobsInvariant, PTL

\* Two deliveries of one ticket, whenever they arrive and whoever else starts,
\* cancels or restarts what, run it one after the other, the cooldown apart.
THEOREM DeliveriesKeptApart == Spec => []DeliveriesApart
<1>1. JobsInv => DeliveriesApart
  <2> SUFFICES ASSUME JobsInv, NEW a \in JobIds, NEW b \in JobIds,
                      job[a].hook, run[a][1] # NoRun, job[b].hook, run[b][1] # NoRun,
                      a # b, job[a].keys = job[b].keys
               PROVE Apart(run[a][1], run[b][1]) \/ Apart(run[b][1], run[a][1])
    BY DEF DeliveriesApart
  <2>1. 1 \in Positions(a) /\ 1 \in Positions(b)
    BY HookedPosition DEF JobsInv
  <2>2. Ran(a) /\ Ran(b) /\ KeyOf(a) = KeyOf(b)
    BY <2>1 DEF JobsInv, Placed, Blank, Ran, KeyOf
  <2> QED
    BY <2>2 DEF JobsInv, Ordered
<1> QED
  BY <1>1, JobsInvariant, PTL

-----------------------------------------------------------------------------
(* Every ticket of a job is waiting, with one worker, or reported.          *)

Waiting(j, i) == \E n \in DOMAIN queue[j] : queue[j][n] = i
Held(j, i) == \E w \in Workers : worker[j][w].at # "free" /\ worker[j][w].pos = i

\* The report of a ticket that is done with says what its run left.
Settled(j, i) ==
    /\ out[j][i] # "none"
    /\ out[j][i] = "ran" <=> run[j][i].status = "settled"
    /\ out[j][i] # "ran" => run[j][i] = NoRun

\* No ticket is with two, and none has a run before a worker prepared it.
HandedOut(j) ==
    /\ \A m, n \in DOMAIN queue[j] : queue[j][m] = queue[j][n] => m = n
    /\ \A n \in DOMAIN queue[j] : ~Held(j, queue[j][n]) /\ run[j][queue[j][n]] = NoRun
    /\ \A v, w \in Workers :
         /\ worker[j][v].at # "free" /\ worker[j][w].at # "free"
         /\ worker[j][v].pos = worker[j][w].pos
         => v = w
    /\ \A w \in Workers :
         worker[j][w].at \in {"outside", "prepare"} => run[j][worker[j][w].pos] = NoRun
    /\ \A i \in Positions(j) : Waiting(j, i) \/ Held(j, i) \/ Settled(j, i)

TrackedOf(j) ==
    /\ job[j].stage = "building" => \A i \in Positions(j) : run[j][i] = NoRun
    /\ job[j].stage = "working" => HandedOut(j)
    /\ job[j].stage = "dropped" => \A i \in Positions(j) : Settled(j, i)

Tracked == \A j \in JobIds : TrackedOf(j)

LEMMA InitTracked == Init => Tracked
BY DEF Init, Tracked, TrackedOf

\* A job a step does not touch.
LEMMA TrackedFrame ==
  ASSUME NEW j \in JobIds, TrackedOf(j), job'[j] = job[j], queue'[j] = queue[j],
         run'[j] = run[j], out'[j] = out[j],
         \A w \in Workers : worker'[j][w] = worker[j][w]
  PROVE TrackedOf(j)'
BY DEF TrackedOf, HandedOut, Waiting, Held, Settled

\* A worker that goes on with its ticket, or reports it and is free.
LEMMA WorkerTracked ==
  ASSUME Shapes, Placed, Tracked, NEW j \in JobIds, NEW w \in Workers,
         worker[j][w].at # "free", UNCHANGED <<job, queue>>,
         NEW p, p = worker[j][w].pos,
         \A n \in JobIds, v \in Workers : n # j \/ v # w => worker'[n][v] = worker[n][v],
         \A n \in JobIds : n # j => run'[n] = run[n] /\ out'[n] = out[n],
         \A i \in Positions(j) :
           i # p => run'[j][i] = run[j][i] /\ out'[j][i] = out[j][i],
         \/ /\ worker'[j][w].at # "free" /\ worker'[j][w].pos = p
            /\ worker'[j][w].at \in {"outside", "prepare"} => run'[j][p] = NoRun
         \/ worker'[j][w].at = "free" /\ Settled(j, p)'
  PROVE Tracked'
<1>1. job[j].stage = "working" /\ p \in Positions(j)
  BY DEF Placed, Works
<1>2. HandedOut(j)
  BY <1>1 DEF Tracked, TrackedOf
<1>3. ASSUME NEW n \in JobIds, n # j PROVE TrackedOf(n)'
  BY <1>3, TrackedFrame DEF Tracked
<1>4. \A n \in DOMAIN queue[j] : queue[j][n] \in Positions(j) /\ queue[j][n] # p
  BY <1>2 DEF Placed, Queued, HandedOut, Held
<1>5. \A v \in Workers : v # w /\ worker[j][v].at # "free" => worker[j][v].pos # p
  BY <1>2 DEF HandedOut
<1>6. \A v \in Workers :
        worker[j][v].at # "free" => worker[j][v].pos \in Positions(j)
  BY DEF Placed, Works
<1>7. \A v \in Workers : worker'[j][v].at # "free" =>
        worker[j][v].at # "free" /\ worker'[j][v].pos = worker[j][v].pos
  OBVIOUS
<1>8. \A n \in DOMAIN queue[j] : ~Held(j, queue[j][n])' /\ run'[j][queue[j][n]] = NoRun
  BY <1>2, <1>4, <1>7 DEF HandedOut, Held
<1>9. \A u, v \in Workers :
        /\ worker'[j][u].at # "free" /\ worker'[j][v].at # "free"
        /\ worker'[j][u].pos = worker'[j][v].pos
        => u = v
  BY <1>2, <1>7 DEF HandedOut
<1>10. \A v \in Workers : worker'[j][v].at \in {"outside", "prepare"} =>
         run'[j][worker'[j][v].pos] = NoRun
  BY <1>2, <1>5, <1>6 DEF HandedOut
<1>11. \A i \in Positions(j) : Waiting(j, i)' \/ Held(j, i)' \/ Settled(j, i)'
  <2>1. ASSUME NEW i \in Positions(j), i # p
        PROVE Waiting(j, i)' \/ Held(j, i)' \/ Settled(j, i)'
    <3>1. Waiting(j, i) \/ Held(j, i) \/ Settled(j, i)
      BY <1>2 DEF HandedOut
    <3>2. Waiting(j, i) => Waiting(j, i)'
      BY DEF Waiting
    <3>3. Held(j, i) => Held(j, i)'
      BY <2>1 DEF Held
    <3>4. Settled(j, i) => Settled(j, i)'
      BY <2>1 DEF Settled
    <3> QED
      BY <3>1, <3>2, <3>3, <3>4
  <2>2. Held(j, p)' \/ Settled(j, p)'
    BY DEF Held
  <2> QED
    BY <2>1, <2>2
<1>12. HandedOut(j)'
  BY <1>2, <1>8, <1>9, <1>10, <1>11 DEF HandedOut
<1>13. TrackedOf(j)'
  BY <1>1, <1>12 DEF TrackedOf
<1> QED
  BY <1>3, <1>13 DEF Tracked

\* A job that is added has nothing on disk.
LEMMA AddJobTracked ==
  ASSUME Shapes, Tracked, NEW j \in JobIds, NEW hook \in BOOLEAN, NEW ks \in Seq(Keys),
         AddJob(j, hook, ks), UNCHANGED <<queue, worker>>
  PROVE Tracked'
<1>1. /\ job'[j] = [stage |-> "building", hook |-> hook, keys |-> ks]
      /\ run'[j] = [i \in DOMAIN ks |-> NoRun]
      /\ \A n \in JobIds : n # j =>
           job'[n] = job[n] /\ run'[n] = run[n] /\ out'[n] = out[n]
  BY DEF AddJob, Shapes, TicketTypes
<1>2. TrackedOf(j)'
  BY <1>1 DEF TrackedOf
<1>3. ASSUME NEW n \in JobIds, n # j PROVE TrackedOf(n)'
  BY <1>1, <1>3, TrackedFrame DEF Tracked
<1> QED
  BY <1>2, <1>3 DEF Tracked

\* Every step keeps track.
LEMMA NextTracked == Shapes /\ Placed /\ Tracked /\ [Next]_vars => Tracked'
<1> SUFFICES ASSUME Shapes, Placed, Tracked, [Next]_vars PROVE Tracked'
  OBVIOUS
<1>u. ASSUME UNCHANGED <<job, queue, worker, run, out>> PROVE Tracked'
  BY <1>u, TrackedFrame DEF Tracked
<1>h. \A j \in JobIds, w \in Workers :
        job[j].stage = "working" /\ worker[j][w].at \in {"outside", "prepare"}
          => run[j][worker[j][w].pos] = NoRun
  BY DEF Tracked, TrackedOf, HandedOut
<1>w. \A j \in JobIds, w \in Workers : worker[j][w].at # "free" =>
        worker[j][w].pos \in Positions(j) /\ job[j].stage = "working"
  BY DEF Placed, Works
<1>1. ASSUME NEW d \in Deliveries, Claim(d) \/ Ask(d) PROVE Tracked'
  BY <1>u, <1>1 DEF Claim, Ask
<1>2. ASSUME NEW d \in Deliveries, StartDelivered(d) PROVE Tracked'
  <2>1. <<Ticket[d]>> \in Seq(Keys)
    BY JobsAssumption
  <2>2. ASSUME NEW j \in JobIds, AddJob(j, TRUE, <<Ticket[d]>>) PROVE Tracked'
    BY <1>2, <2>1, <2>2, AddJobTracked DEF StartDelivered
  <2>3. CASE UNCHANGED <<job, disk>>
    BY <1>u, <1>2, <2>3 DEF StartDelivered
  <2> QED
    BY <1>2, <2>2, <2>3 DEF StartDelivered
<1>3. ASSUME NEW j \in JobIds, NEW ks \in scene.lists, StartTriage(j, ks) PROVE Tracked'
  <2>1. ks \in Seq(Keys)
    BY JobsAssumption DEF Shapes
  <2> QED
    BY <1>3, <2>1, AddJobTracked DEF StartTriage
<1>4. ASSUME NEW j \in JobIds, Build(j) PROVE Tracked'
  <2>0. job[j].stage = "building" /\ UNCHANGED <<worker, run>>
    BY <1>4 DEF Build
  <2>1. /\ \A i \in Positions(j) : run[j][i] = NoRun
        /\ \A w \in Workers : worker[j][w].at = "free"
    BY <2>0 DEF Tracked, TrackedOf, Placed, Works
  <2>2. CASE /\ job' = [job EXCEPT ![j].stage = "working"]
             /\ queue' = [queue EXCEPT ![j] = [i \in Positions(j) |-> i]]
             /\ UNCHANGED out
    <3>1. \A n \in JobIds : /\ job'[n].keys = job[n].keys
                            /\ job'[n].stage = IF n = j THEN "working" ELSE job[n].stage
                            /\ n # j => job'[n] = job[n]
      BY <2>2, StageShapes DEF Stages, Shapes, TicketTypes
    <3>2. queue'[j] = [i \in Positions(j) |-> i] /\ \A n \in JobIds : n # j => queue'[n] = queue[n]
      BY <2>2 DEF Shapes, PoolTypes
    <3>3. HandedOut(j)'
      BY <2>0, <2>1, <3>1, <3>2 DEF HandedOut, Waiting, Held
    <3>4. TrackedOf(j)'
      BY <3>1, <3>3 DEF TrackedOf
    <3>5. ASSUME NEW n \in JobIds, n # j PROVE TrackedOf(n)'
      BY <2>0, <2>2, <3>1, <3>2, <3>5, TrackedFrame DEF Tracked
    <3> QED
      BY <3>4, <3>5 DEF Tracked
  <2>3. CASE /\ job' = [job EXCEPT ![j].stage = "dropped"]
             /\ out' = [out EXCEPT ![j] = [i \in Positions(j) |-> "failed"]]
             /\ UNCHANGED queue
    <3>1. \A n \in JobIds : /\ job'[n].keys = job[n].keys
                            /\ job'[n].stage = IF n = j THEN "dropped" ELSE job[n].stage
                            /\ n # j => job'[n] = job[n]
      BY <2>3, StageShapes DEF Stages, Shapes, TicketTypes
    <3>2. out'[j] = [i \in Positions(j) |-> "failed"] /\ \A n \in JobIds : n # j => out'[n] = out[n]
      BY <2>3 DEF Shapes
    <3>3. \A i \in Positions(j) : Settled(j, i)'
      BY <2>0, <2>1, <3>2 DEF Settled, NoRun
    <3>4. TrackedOf(j)'
      BY <3>1, <3>3 DEF TrackedOf
    <3>5. ASSUME NEW n \in JobIds, n # j PROVE TrackedOf(n)'
      BY <2>0, <2>3, <3>1, <3>2, <3>5, TrackedFrame DEF Tracked
    <3> QED
      BY <3>4, <3>5 DEF Tracked
  <2> QED
    BY <1>4, <2>2, <2>3 DEF Build
<1>5. ASSUME NEW j \in JobIds, DropJob(j) \/ EndJob(j) PROVE Tracked'
  <2>1. PICK s \in {"dropped", "gone"} :
          /\ job' = [job EXCEPT ![j].stage = s]
          /\ s = "dropped" => DropJob(j)
    BY <1>5 DEF DropJob, EndJob
  <2>2. s \in Stages
    BY DEF Stages
  <2>3. /\ \A n \in JobIds : /\ job'[n].keys = job[n].keys
                             /\ job'[n].stage = IF n = j THEN s ELSE job[n].stage
        /\ \A n \in JobIds : n # j => job'[n] = job[n]
    BY <2>1, <2>2, StageShapes DEF Shapes, TicketTypes
  <2>4. UNCHANGED <<queue, worker, run, out>>
    BY <1>5 DEF DropJob, EndJob
  <2>5. TrackedOf(j)'
    <3>1. CASE s = "gone"
      BY <2>3, <3>1 DEF TrackedOf
    <3>2. CASE s = "dropped"
      <4>1. HandedOut(j) /\ queue[j] = << >> /\ \A w \in Workers : worker[j][w].at = "free"
        BY <2>1, <3>2 DEF DropJob, Tracked, TrackedOf
      <4>2. \A i \in Positions(j) : Settled(j, i)
        BY <4>1 DEF HandedOut, Waiting, Held
      <4> QED
        BY <2>3, <2>4, <3>2, <4>2 DEF TrackedOf, Settled
    <3> QED
      BY <3>1, <3>2
  <2>6. ASSUME NEW n \in JobIds, n # j PROVE TrackedOf(n)'
    BY <2>3, <2>4, <2>6, TrackedFrame DEF Tracked
  <2> QED
    BY <2>5, <2>6 DEF Tracked
<1>6. ASSUME NEW j \in JobIds, NEW w \in Workers, Take(j, w) PROVE Tracked'
  <2> DEFINE q == queue[j]
  <2>1. /\ job[j].stage = "working" /\ q \in Seq(Nat) /\ q # << >>
        /\ worker[j][w].at = "free" /\ UNCHANGED <<job, run>>
    BY <1>6 DEF Take, Shapes, PoolTypes
  <2>2. HandedOut(j)
    BY <2>1 DEF Tracked, TrackedOf
  <2>3. /\ queue'[j] = Tail(q) /\ \A n \in JobIds : n # j => queue'[n] = queue[n]
    BY <1>6 DEF Take, Shapes, PoolTypes
  <2>4. /\ 1 \in DOMAIN q /\ q[1] = Head(q)
        /\ \A n \in DOMAIN Tail(q) : n + 1 \in DOMAIN q /\ Tail(q)[n] = q[n + 1] /\ n + 1 # 1
        /\ \A n \in DOMAIN q : n # 1 => \E m \in DOMAIN Tail(q) : Tail(q)[m] = q[n]
        /\ \A m, n \in DOMAIN Tail(q) : m + 1 = n + 1 => m = n
    <3>1. \A n \in DOMAIN q : n # 1 => n - 1 \in DOMAIN Tail(q) /\ Tail(q)[n - 1] = q[n]
      <4> HIDE DEF q
      <4>1. /\ Len(q) \in Nat /\ DOMAIN q = 1 .. Len(q) /\ DOMAIN Tail(q) = 1 .. Len(q) - 1
            /\ \A m \in 1 .. Len(q) - 1 : Tail(q)[m] = q[m + 1]
        BY <2>1
      <4>2. ASSUME NEW n \in 1 .. Len(q), n # 1
            PROVE  n - 1 \in 1 .. Len(q) - 1 /\ (n - 1) + 1 = n
        BY <4>1, <4>2
      <4> QED
        BY <4>1, <4>2
    <3>2. 1 \in DOMAIN q /\ q[1] = Head(q)
      BY <2>1
    <3>3. \A n \in DOMAIN Tail(q) : n + 1 \in DOMAIN q /\ Tail(q)[n] = q[n + 1] /\ n + 1 # 1
      BY <2>1
    <3>4. DOMAIN Tail(q) \subseteq Nat
      BY <2>1
    <3>5. \A m, n \in DOMAIN Tail(q) : m + 1 = n + 1 => m = n
      BY <3>4
    <3> HIDE DEF q
    <3> QED
      BY <3>1, <3>2, <3>3, <3>5
  <2>5. PICK h \in Positions(j) : h = Head(q)
    BY <2>4 DEF Placed, Queued
  <2>6. /\ ~Held(j, h) /\ run[j][h] = NoRun
        /\ \A n \in DOMAIN Tail(q) : /\ Tail(q)[n] # h
                                     /\ ~Held(j, Tail(q)[n]) /\ run[j][Tail(q)[n]] = NoRun
        /\ \A m, n \in DOMAIN Tail(q) : Tail(q)[m] = Tail(q)[n] => m = n
    <3>1. ~Held(j, q[1]) /\ run[j][q[1]] = NoRun
      BY <2>2, <2>4 DEF HandedOut
    <3>2. ASSUME NEW n \in DOMAIN Tail(q)
          PROVE Tail(q)[n] # h /\ ~Held(j, Tail(q)[n]) /\ run[j][Tail(q)[n]] = NoRun
      BY <2>2, <2>4, <2>5 DEF HandedOut
    <3>3. ASSUME NEW m \in DOMAIN Tail(q), NEW n \in DOMAIN Tail(q), Tail(q)[m] = Tail(q)[n]
          PROVE m = n
      BY <2>2, <2>4, <3>3 DEF HandedOut
    <3> QED
      BY <2>4, <2>5, <3>1, <3>2, <3>3
  <2>7. \A i \in Positions(j) : i # h /\ Waiting(j, i) => Waiting(j, i)'
    BY <2>3, <2>4, <2>5 DEF Waiting
  <2>8. CASE UNCHANGED worker /\ Reports(j, Head(q), "skipped")
    <3>1. /\ out'[j][h] = "skipped"
          /\ \A i \in Positions(j) : i # h => out'[j][i] = out[j][i]
          /\ \A n \in JobIds : n # j => out'[n] = out[n]
      BY <2>5, <2>8 DEF Reports, Shapes, DiskTypes
    <3>2. \A i \in Positions(j) : Waiting(j, i)' \/ Held(j, i)' \/ Settled(j, i)'
      <4>1. Settled(j, h)'
        BY <2>1, <2>6, <3>1 DEF Settled, NoRun
      <4>2. ASSUME NEW i \in Positions(j), i # h
            PROVE Waiting(j, i)' \/ Held(j, i)' \/ Settled(j, i)'
        BY <2>1, <2>2, <2>7, <2>8, <3>1, <4>2 DEF HandedOut, Held, Settled
      <4> QED
        BY <4>1, <4>2
    <3>3. HandedOut(j)'
      BY <2>1, <2>2, <2>3, <2>6, <2>8, <3>2 DEF HandedOut, Held
    <3>4. ASSUME NEW n \in JobIds, n # j PROVE TrackedOf(n)'
      BY <2>1, <2>3, <2>8, <3>1, <3>4, TrackedFrame DEF Tracked
    <3> QED
      BY <2>1, <3>3, <3>4 DEF Tracked, TrackedOf
  <2>9. CASE /\ worker' = [worker EXCEPT
                   ![j][w] = [at |-> "outside", pos |-> Head(q), wake |-> 0]]
             /\ UNCHANGED out
    <3>1. /\ worker'[j][w].at = "outside" /\ worker'[j][w].pos = h
          /\ \A n \in JobIds, v \in Workers : n # j \/ v # w => worker'[n][v] = worker[n][v]
      BY <2>5, <2>9 DEF Shapes, PoolTypes
    <3>2. \A i \in Positions(j) : Waiting(j, i)' \/ Held(j, i)' \/ Settled(j, i)'
      <4>1. Held(j, h)'
        BY <3>1 DEF Held
      <4>2. ASSUME NEW i \in Positions(j), i # h
            PROVE Waiting(j, i)' \/ Held(j, i)' \/ Settled(j, i)'
        <5>1. Held(j, i) => Held(j, i)'
          BY <2>1, <3>1 DEF Held
        <5>2. Settled(j, i) => Settled(j, i)'
          BY <2>1, <2>9 DEF Settled
        <5> QED
          BY <2>2, <2>7, <4>2, <5>1, <5>2 DEF HandedOut
      <4> QED
        BY <4>1, <4>2
    <3>3. \A n \in DOMAIN Tail(q) : \A v \in Workers :
            worker'[j][v].at # "free" => worker'[j][v].pos # Tail(q)[n]
      BY <2>6, <3>1 DEF Held
    <3>4. \A u, v \in Workers :
            /\ worker'[j][u].at # "free" /\ worker'[j][v].at # "free"
            /\ worker'[j][u].pos = worker'[j][v].pos
            => u = v
      BY <2>2, <2>6, <3>1 DEF HandedOut, Held
    <3>5. \A v \in Workers :
            worker'[j][v].at \in {"outside", "prepare"} => run[j][worker'[j][v].pos] = NoRun
      BY <2>2, <2>6, <3>1 DEF HandedOut
    <3>6. HandedOut(j)'
      <4>1. \A n \in DOMAIN queue'[j] : ~Held(j, queue[j][n])' /\ run'[j][queue'[j][n]] = NoRun
        BY <2>1, <2>3, <2>6, <3>3 DEF Held
      <4> QED
        BY <2>1, <2>3, <2>6, <3>2, <3>4, <3>5, <4>1 DEF HandedOut
    <3>7. ASSUME NEW n \in JobIds, n # j PROVE TrackedOf(n)'
      BY <2>1, <2>3, <2>9, <3>1, <3>7, TrackedFrame DEF Tracked
    <3> QED
      BY <2>1, <3>6, <3>7 DEF Tracked, TrackedOf
  <2> QED
    BY <1>6, <2>8, <2>9 DEF Take
<1>7. ASSUME NEW j \in JobIds, NEW w \in Workers, Look(j, w) \/ Wake(j, w) PROVE Tracked'
  <2>1. /\ worker[j][w].at \in {"outside", "inside"} /\ job[j].stage = "working"
        /\ worker[j][w].pos \in Positions(j) /\ UNCHANGED <<job, queue, run, out>>
    BY <1>7, <1>w DEF Look, Wake, Waits, Beyond
  <2>2. /\ worker'[j][w].pos = worker[j][w].pos /\ worker'[j][w].at # "free"
        /\ worker'[j][w].at \in {"outside", "prepare"} => worker[j][w].at = "outside"
        /\ \A n \in JobIds, v \in Workers : n # j \/ v # w => worker'[n][v] = worker[n][v]
    <3>1. CASE worker' = [worker EXCEPT ![j][w].at = Beyond[worker[j][w].at]]
      <4>1. /\ Beyond[worker[j][w].at] \in {"prepare", "start"}
            /\ Beyond[worker[j][w].at] = "prepare" => worker[j][w].at = "outside"
        BY <2>1 DEF Beyond
      <4>2. Beyond[worker[j][w].at] \in Places
        BY <4>1 DEF Places
      <4> QED
        BY <3>1, <4>1, <4>2, PlaceShapes
    <3>2. CASE \E t \in 0 .. MaxClock : worker' = [worker EXCEPT ![j][w].wake = t]
      BY <2>1, <3>2, WakeShapes
    <3>3. until[j] \in 0 .. MaxClock /\ 0 \in 0 .. MaxClock
      BY JobsAssumption DEF Shapes, PoolTypes
    <3>4. Look(j, w) => \/ worker' = [worker EXCEPT ![j][w].at = Beyond[worker[j][w].at]]
                        \/ worker' = [worker EXCEPT ![j][w].wake = until[j]]
      BY DEF Look
    <3>5. Wake(j, w) => worker' = [worker EXCEPT ![j][w].wake = 0]
      BY DEF Wake, Rises
    <3> QED
      BY <1>7, <3>1, <3>2, <3>3, <3>4, <3>5
  <2>3. worker[j][w].at = "outside" => run[j][worker[j][w].pos] = NoRun
    BY <1>h, <2>1
  <2> QED
    BY <2>1, <2>2, <2>3, WorkerTracked
<1>8. ASSUME NEW j \in JobIds, NEW w \in Workers, NEW p \in Positions(j), p = worker[j][w].pos,
             worker[j][w].at # "free", UNCHANGED <<job, queue>>, Frees(j, w),
             \/ Writes(j, p, "settled") /\ Reports(j, p, "ran")
             \/ /\ UNCHANGED run /\ run[j][p] = NoRun
                /\ Reports(j, p, "skipped") \/ Reports(j, p, "failed")
      PROVE Tracked'
  <2>1. /\ worker'[j][w].at = "free"
        /\ \A n \in JobIds, v \in Workers : n # j \/ v # w => worker'[n][v] = worker[n][v]
    BY <1>8, FreesShapes DEF Free
  <2>2. \A what \in {"ran", "skipped", "failed"} : Reports(j, p, what) =>
          /\ out'[j][p] = what
          /\ \A i \in Positions(j) : i # p => out'[j][i] = out[j][i]
          /\ \A n \in JobIds : n # j => out'[n] = out[n]
    BY <1>8 DEF Reports, Shapes, DiskTypes
  <2>3. CASE Writes(j, p, "settled") /\ Reports(j, p, "ran")
    <3>1. /\ run'[j][p].status = "settled"
          /\ \A i \in Positions(j) : i # p => run'[j][i] = run[j][i]
          /\ \A n \in JobIds : n # j => run'[n] = run[n]
      <4>1. /\ run'[j][p].status = "settled"
            /\ \A n \in JobIds : \A i \in Positions(n) :
                 n # j \/ i # p => run'[n][i] = run[n][i]
        BY <2>3, WritesRun
      <4>2. \A n \in JobIds : n # j => run'[n] = run[n]
        BY <2>3 DEF Writes, Shapes
      <4> QED
        BY <4>1, <4>2
    <3>2. Settled(j, p)'
      BY <2>2, <2>3, <3>1 DEF Settled
    <3> QED
      BY <1>8, <2>1, <2>2, <2>3, <3>1, <3>2, WorkerTracked
  <2>4. CASE /\ UNCHANGED run /\ run[j][p] = NoRun
             /\ Reports(j, p, "skipped") \/ Reports(j, p, "failed")
    <3>1. Settled(j, p)'
      BY <2>2, <2>4 DEF Settled, NoRun
    <3> QED
      BY <1>8, <2>1, <2>2, <2>4, <3>1, WorkerTracked
  <2> QED
    BY <1>8, <2>3, <2>4
<1>9. ASSUME NEW j \in JobIds, NEW w \in Workers, GiveUp(j, w) PROVE Tracked'
  <2>1. /\ worker[j][w].at \in {"outside", "inside"} /\ Frees(j, w)
        /\ UNCHANGED <<job, queue>>
    BY <1>9 DEF GiveUp, Waits, Beyond
  <2>2. PICK p \in Positions(j) : p = worker[j][w].pos
    BY <1>w, <2>1
  <2>3. worker[j][w].at = "outside" => run[j][p] = NoRun
    BY <1>h, <1>w, <2>1, <2>2
  <2>4. \/ Writes(j, p, "settled") /\ Reports(j, p, "ran")
        \/ UNCHANGED run /\ run[j][p] = NoRun /\ Reports(j, p, "skipped")
    BY <1>9, <2>1, <2>2, <2>3 DEF GiveUp, Written
  <2> QED
    BY <1>8, <2>1, <2>2, <2>4
<1>10. ASSUME NEW j \in JobIds, NEW w \in Workers, Settle(j, w) PROVE Tracked'
  <2>1. /\ worker[j][w].at # "free" /\ Frees(j, w) /\ UNCHANGED <<job, queue>>
    BY <1>10 DEF Settle
  <2>2. PICK p \in Positions(j) : p = worker[j][w].pos
    BY <1>w, <2>1
  <2>3. Writes(j, p, "settled") /\ Reports(j, p, "ran")
    BY <1>10, <2>2 DEF Settle
  <2> QED
    BY <1>8, <2>1, <2>2, <2>3
<1>11. ASSUME NEW j \in JobIds, NEW w \in Workers, NEW p \in Positions(j), p = worker[j][w].pos,
              worker[j][w].at # "free", UNCHANGED <<job, queue, out>>,
              NEW to \in {"inside", "session"}, worker' = [worker EXCEPT ![j][w].at = to],
              NEW st \in {"preparing", "running"}, Writes(j, p, st)
       PROVE Tracked'
  <2>1. to \in Places
    BY DEF Places
  <2>2. /\ worker'[j][w].at = to /\ worker'[j][w].pos = p
        /\ \A n \in JobIds, v \in Workers : n # j \/ v # w => worker'[n][v] = worker[n][v]
    BY <1>11, <2>1, PlaceShapes
  <2>3. /\ \A i \in Positions(j) : i # p => run'[j][i] = run[j][i]
        /\ \A n \in JobIds : n # j => run'[n] = run[n]
    BY <1>11, WritesRun DEF Writes, Shapes
  <2> QED
    BY <1>11, <2>2, <2>3, WorkerTracked
<1>12. ASSUME NEW j \in JobIds, NEW w \in Workers, Prepare(j, w) PROVE Tracked'
  <2>1. worker[j][w].at = "prepare" /\ UNCHANGED <<job, queue>>
    BY <1>12 DEF Prepare
  <2>2. PICK p \in Positions(j) : p = worker[j][w].pos
    BY <1>w, <2>1
  <2>3. run[j][p] = NoRun
    BY <1>h, <1>w, <2>1, <2>2
  <2>4. CASE Frees(j, w) /\ Reports(j, p, "failed") /\ UNCHANGED run
    BY <1>8, <2>1, <2>2, <2>3, <2>4
  <2>5. CASE /\ worker' = [worker EXCEPT ![j][w].at = "inside"]
             /\ Writes(j, p, "preparing") /\ UNCHANGED out
    BY <1>11, <2>1, <2>2, <2>5
  <2> QED
    BY <1>12, <2>2, <2>4, <2>5 DEF Prepare
<1>13. ASSUME NEW j \in JobIds, NEW w \in Workers, StartSession(j, w) PROVE Tracked'
  <2>1. worker[j][w].at # "free"
    BY <1>13 DEF StartSession
  <2>2. PICK p \in Positions(j) : p = worker[j][w].pos
    BY <1>w, <2>1
  <2>3. /\ worker' = [worker EXCEPT ![j][w].at = "session"] /\ Writes(j, p, "running")
        /\ UNCHANGED <<job, queue, out>>
    BY <1>13, <2>2 DEF StartSession
  <2> QED
    BY <1>11, <2>1, <2>2, <2>3
<1>14. CASE Exit
  <2>1. \A n \in JobIds : job'[n].stage \in {"none", "gone"}
    BY <1>14 DEF Exit, Gone, Shapes, TicketTypes
  <2> QED
    BY <2>1 DEF Tracked, TrackedOf
<1>15. CASE \/ Stop \/ StopReturns \/ Tick \/ UNCHANGED vars
            \/ \E j \in JobIds : Cancel(j) \/ \E w \in Workers : RateLimited(j, w)
  <2>1. UNCHANGED <<job, queue, worker, run, out>>
    BY <1>15 DEF Stop, StopReturns, Tick, Cancel, RateLimited
  <2> QED
    BY <1>u, <2>1
<1> QED
  BY <1>1, <1>2, <1>3, <1>4, <1>5, <1>6, <1>7, <1>9, <1>10, <1>12, <1>13, <1>14, <1>15
     DEF Next, Handler, Goroutine, Pooled

\* A job that is done with reports every ticket it was given, and reports it
\* truly: what ran has settled on disk, what did not left nothing there.
THEOREM TicketsAccounted == Spec => []Accounted
<1>1. Init => JobsInv /\ Tracked
  BY InitShapes, InitPlaced, InitOneHolder, InitOrdered, InitTracked DEF JobsInv
<1>2. JobsInv /\ Tracked /\ [Next]_vars => (JobsInv /\ Tracked)'
  BY NextShapes, NextPlaced, NextOneHolder, NextOrdered, NextTracked DEF JobsInv
<1>3. Tracked => Accounted
  BY DEF Tracked, TrackedOf, Settled, Accounted
<1> QED
  BY <1>1, <1>2, <1>3, PTL DEF Spec

\* A worker goes on to prepare or to start a session when no pause is in force,
\* however often the pause moved while it slept.
THEOREM PausesHonoured == Spec => PauseHonoured
<1> DEFINE Goes == \A j \in JobIds, w \in Workers :
             Waits(j, w) /\ worker'[j][w].at \in {"prepare", "start"} => until[j] <= clock
<1>1. JobsInv /\ [Next]_vars => [Goes]_vars
  <2> SUFFICES ASSUME JobsInv, Next, NEW j \in JobIds, NEW w \in Workers,
                      Waits(j, w), worker'[j][w].at \in {"prepare", "start"}
               PROVE until[j] <= clock
    BY DEF Goes
  <2>s. Shapes /\ worker[j][w].at \in {"outside", "inside"}
    BY DEF JobsInv, Waits, Beyond
  <2>1. ASSUME NEW n \in JobIds, NEW v \in Workers, Look(n, v) PROVE until[j] <= clock
    <3>1. until[n] \in 0 .. MaxClock
      BY <2>s DEF Shapes, PoolTypes
    <3>2. CASE until[n] <= clock /\ worker' = [worker EXCEPT ![n][v].at = Beyond[worker[n][v].at]]
      <4>1. Beyond[worker[n][v].at] \in Places
        BY <2>1 DEF Look, Waits, Beyond, Places
      <4> QED
        BY <2>s, <3>2, <4>1, PlaceShapes
    <3>3. CASE worker' = [worker EXCEPT ![n][v].wake = until[n]]
      BY <2>s, <3>1, <3>3, WakeShapes
    <3> QED
      BY <2>1, <3>2, <3>3 DEF Look
  <2>2. ASSUME NEW n \in JobIds, NEW v \in Workers, Wake(n, v) PROVE FALSE
    <3>1. worker' = [worker EXCEPT ![n][v].wake = 0] /\ 0 \in 0 .. MaxClock
      BY <2>2, JobsAssumption DEF Wake, Rises
    <3> QED
      BY <2>s, <3>1, WakeShapes
  <2>3. ASSUME NEW n \in JobIds, NEW v \in Workers, Frees(n, v) PROVE FALSE
    BY <2>s, <2>3, FreesShapes DEF Free
  <2>4. ASSUME NEW n \in JobIds, NEW v \in Workers, NEW to \in {"inside", "session"},
               worker[n][v].at \in {"prepare", "start"},
               worker' = [worker EXCEPT ![n][v].at = to]
        PROVE FALSE
    <3>1. to \in Places
      BY DEF Places
    <3> QED
      BY <2>s, <2>4, <3>1, PlaceShapes
  <2>5. ASSUME NEW n \in JobIds, NEW v \in Workers, Take(n, v) PROVE FALSE
    <3>1. CASE UNCHANGED worker
      BY <2>s, <3>1
    <3>2. CASE worker' = [worker EXCEPT
                 ![n][v] = [at |-> "outside", pos |-> Head(queue[n]), wake |-> 0]]
      BY <2>s, <3>2 DEF Shapes, PoolTypes
    <3> QED
      BY <2>5, <3>1, <3>2 DEF Take
  <2>6. ASSUME NEW n \in JobIds, NEW v \in Workers, Pooled(n, v) PROVE until[j] <= clock
    <3>1. GiveUp(n, v) => Frees(n, v)
      BY DEF GiveUp
    <3>2. Settle(n, v) => Frees(n, v)
      BY DEF Settle
    <3>3. Prepare(n, v) => Frees(n, v) \/ (/\ worker[n][v].at = "prepare"
                                           /\ worker' = [worker EXCEPT ![n][v].at = "inside"])
      BY DEF Prepare
    <3>4. StartSession(n, v) => /\ worker[n][v].at = "start"
                                /\ worker' = [worker EXCEPT ![n][v].at = "session"]
      BY DEF StartSession
    <3> QED
      BY <2>1, <2>2, <2>3, <2>4, <2>5, <2>6, <3>1, <3>2, <3>3, <3>4 DEF Pooled
  <2>7. CASE Exit
    BY <2>s, <2>7 DEF Exit, Free
  <2>8. CASE UNCHANGED worker
    BY <2>s, <2>8
  <2>9. \/ \E n \in JobIds, v \in Workers : Pooled(n, v)
        \/ Exit \/ UNCHANGED worker
    BY DEF Next, Handler, Goroutine, Claim, Ask, StartDelivered, Build, DropJob, EndJob, Cancel,
           StartTriage, RateLimited, Stop, StopReturns, Tick
  <2> QED
    BY <2>6, <2>7, <2>8, <2>9
<1> QED
  BY <1>1, JobsInvariant, PTL DEF Spec, PauseHonoured
=============================================================================
