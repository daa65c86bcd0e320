# Sirdar in TLA+

Sirdar runs coding agents over support tickets: a *run* prepares a prompt from a ticket, drives one
or more provider sessions (Claude, Codex, ACP and others), watches what they do, and files a note
or answers in chat.  A desktop window, an HTTP server and the command line all work on the same
run directories.  This directory holds the models of the parts of it where interleaving, failure
and ordering decide whether it is right, the TLC configurations that check them, and the proofs.

Paths below are relative to the repository.  `go` sources are under `internal/`.

## 1. The system

| Component | State it keeps | Operations | Talks to |
|---|---|---|---|
| Run execution (`run/execute.go`, `run/livesteer.go`) | the fields of `execution`, the run's `state.json`, the sessions it started | `handleEvent` per provider event, `consume`, timers, `finish` | provider sessions, event log, steer inbox, pool |
| Preparation, gathering (`run/prepare.go`, `run/gather.go`, `gather/`) | bundle, prompt, playbooks | one pass, before a session exists | sources, MCP servers |
| Worker pool (`run/pool.go`, `run/run.go`) | the instant a rate limit lifts | `pause`, `waitUntilResumed` | executions |
| Steer, resume, Update note (`run/steer.go`, `run/updatenote.go`, `app/livesteer.go`, `store/steerqueue.go`) | `steers.jsonl` inbox, queue in `state.json` | append, merge, apply held, resolve | executors in any process |
| Event fan-out (`app/service.go`, `httpapi/sse.go`) | one bounded channel per subscriber, markers pending, runs told | `publish`, `send`, `flush`, `Subscribe` | watcher, sink, windows |
| Window's run feed (`desktop/frontend/.../useRunFeed.ts`) | lines seen, per run | subscribe, backfill, refill | fan-out, `Service.Events` |
| Live log (`app/live.go`, `run/sink.go`, `store/events.go`) and watcher (`app/watcher.go`) | a cursor per hosted run, an offset and index per watched run | `Append`, `Done`, poll | executors, fan-out |
| Jobs and intake (`app/service.go`, `app/hooks.go`, `webhooks/`) | the job table, the claims of deliveries | start, build, cancel, `Stop`; `TriageIfIdle` per delivery | pool, executions, run directories |
| Shadow watcher (`app/shadow*.go`, `shadow/`) | ledger, lock file, outcomes | pass, tick, recover, run, grade | gate, executions, other processes |
| Fix (`fix/`, `worktree/`) | worktree, branch, commits, the run's `Fix` record | fix, steer, drop, publish | git, execution |
| Permission policy and grants (`provider/policy.go`, `ask.go`, `repro.go`, `run/ask.go`) | the workspace's lists, the question a run blocks on, the answers kept in `state.json`, the one unspent, the repro guard | judge one call; block, answer, resume | provider sessions, the operator |
| Provider sessions (`provider/*`; modelled: `provider/acp`) | a child process, its pipes, a queue of events, the turn under way | start, send, close input, cancel, wait | execution |
| Suggestions, notes, register (`app/suggestions.go`, `note/`, `store/`) | logs and notes on disk | append, resolve, render | |
| Notifications (`notify/`, `run/notify.go`) | none | one post per run | webhooks |
| Sources, tickets, configuration, prompts, doctor, eval, MCP client, CLI, screens | configuration or none | sequential conversions and requests | |

**What is hard.**  An execution has one reader goroutine and four others that can act on it at any
moment (the wall-clock timer, the stall guard, the operator's context, any process writing to its
inbox); sessions overlap while one hands over to the next, and say things after they were
cancelled.  The fan-out must neither block a run nor leave a hole in a transcript when a reader is
slow.  Two independent readers publish the same log file.  Several processes rewrite one
`state.json`.  Unattended work (intake, shadow) restarts where a crash left it.  A fix changes a branch,
a worktree and two records in steps that nothing joins.  A provider session is a process, a reader, a
driver and a pump that end in any order.

**What makes each correct.**  Execution: nothing is filed once the run is condemned, an answer that
stands is never lost and settles the run, every session is read and reaped, timers reach whichever
session is live, budgets never shrink, every run settles.  Fan-out: what is dropped is covered by a
marker until the transcript has it; the figure for what was dropped is exact.  Live log: one line,
one index, published at least once by whoever is looking, never twice under the shared lock.
Steer queue: an instruction is applied once or held.  Jobs: one run per ticket at a time, every
ticket accounted for, every claim given back.  Shadow: one attempt per ticket, closed once, within
the day's caps across restarts.  Fix: origin has what a person could read, the records say so.
Session: a caller sees all of a turn before its end, a message accepted is put to the agent, the
session ends.  Policy: what the lists refuse passes only on the operator's leave, and what they answered is
heard, in whichever session or process and after any crash.

## 2. The modules

| Module | What it is | Extends |
|---|---|---|
| `RunPromise` | what an execution promises its caller: four variables, three steps | Naturals |
| `RunExec` | the event loop of one execution, refined to `RunPromise` by `Promised == INSTANCE RunPromise WITH ...` | |
| `RunExecProofs` | its types, eight safety properties and the refinement, proved | `RunExec`, TLAPS |
| `MCRunExec` | the fallback lists of the runs | `RunExec` |
| `Fanout`, `MCFanout` | publisher, one subscriber, the window | |
| `LiveLog`, `MCLiveLog` | sink, cursor registry, watcher, turns at one run | |
| `FeedProofs` | of both, the types, three properties of the fan-out and two of logs with one kind of host, proved | `Fanout`, `LiveLog`, TLAPS |
| `SteerQueue`, `MCSteerQueue` | instructions typed at a working run: inbox, whole-file state, executors and appliers of several processes | |
| `SteerQueueProofs` | its types, and five properties of orderly scenes, proved | `SteerQueue`, TLAPS |
| `Jobs`, `MCJobs` | deliveries, the job table, the workers of a triage and their shared pause, `Stop` and restart | |
| `JobsProofs` | its types and four properties, proved | `Jobs`, TLAPS |
| `Shadow`, `MCShadow` | the unattended watcher: lock, ledger, ticks, runs, several processes of one day | |
| `ShadowProofs` | its lock, its types and three properties, proved | `Shadow`, TLAPS |
| `FixLife`, `MCFixLife` | the commands of a fix over one branch, worktree, record and note | |
| `FixLifeProofs` | its types and three properties, proved | `FixLife`, TLAPS |
| `AcpSession`, `MCAcpSession` | one session of an ACP agent: process, reader, driver, pump, caller | |
| `AcpSessionProofs` | its types and three properties, proved | `AcpSession`, TLAPS |
| `Grants`, `MCGrants` | calls, the policy, the question a run blocks on and the operator's answers | |
| `GrantsProofs` | its types and three properties, proved | `Grants`, TLAPS |

Each module ends with its properties, each preceded by what it says of the code.  An operator
commented *A slip* is not part of the model: it is the form a plausible mistake would give the
definition that follows it, kept so that every property can be shown to notice one.

### RunExec

`pc` follows `execute`: `starting` (the pool wait and `Provider.Start`), `reading` (inside
`consumeSession`), `switching` (between two iterations of `consume`), `settling` (after it
returns), `done`.  One action is one iteration of the reader's `select` with everything the handler
does: `Usage`, `RateLimited`, `Question`, `Denied`, `Asks`, `ModelLimit`, `Malformed`, `Breach`,
`Blind`, and for `EvFinal` `FinalDropped`, `SwitchModel`, `NoteAnswered`, `NoteRefused`,
`ReplyAnswered`, `ReplyEmpty`.  `Drained` is an event of a session that is only drained.  Each timer
is split at the points another goroutine can get in between: store the flag, then cancel the live
session; the stall guard also claims itself first.  `Settle` is everything from `holdSteers` to
`finish`.  `Verdict` is the outcome `switch` of `execute`, in its order.  Filing may do nothing or all it
has to; with `TwoNotes`, an RCA run's, it may also fail with its first note on disk and named (`completeRCA`,
execute.go:2600, then 2604 or 2609: *half*).

Fields correspond by name (`final`, `reply`, `retried`, `retry` = `retrySession`, `live`,
`noteSess`, `wrapUp`, `capped`, `tried`, `base`, `seen`, `folded`, ...).  The string fields `breach`,
`blind`, `overBudget`, `interrupted`, `ask`, `modelLimit`, `failure`, `question`, `rateLimited`,
`noteErr` are one set `why` of the reasons that are set.  Usage is turns; tokens and dollars behave
as turns do, except the cost offset of a resumed conversation, which is left out.  A document is a
model value, `Bad` one no schema accepts, `Empty` a turn without one.  A provider session is
external: it can say any event of `Kinds` until it ends, also after it was cancelled, and after its
final only those of `LateKinds`.

### Fanout

`publish` holds the mutex, so one `send` runs at a time; the reader takes without it, so every
channel operation of `send` (`flush`, the try, the eviction, the second `flush`, the last try) is a
step.  `pending`, `told`, `dropped` are the code's.  At the far end `feed` is the set of open
transcripts and `reads` the requests for a log under way, in two steps (`Serve` at the service,
`Answer` at the window).  `Break` is the stream dropping and the browser's `EventSource` opening it
again.  `offered`, `taken`, `shed`, `owed`, `refused`, `due` are ghosts: the properties are stated
with them and no action reads them.

### LiveLog

A *turn* is a first run, a steer, a resume or an Update note, hosted by the application (lines go
through `Service.Append` and a cursor) or by a command line (straight to the file).  `cursors` keeps
every cursor ever made, because an append under way may hold one the registry has forgotten;
`locked` is the cursor whose lock the watcher's sweep holds.  A sweep is `Check` (state.json and the
grace period), `Look` (the registry), `ReadOn` (the file) or `Release`.  Its specification, invariant and
constants carry the prefix `Log`, because `FeedProofs` extends `Fanout` beside it.

### SteerQueue

A *job* is what starts at a run: the goroutine of `Service.startJobAs` or a command.  Its `pc` runs
through `execute` (`begin`, `work`, `ending`, `notified`) and `ApplyHeldSteers` (`apply` waits for
`heldLocks`, then `look`, `drop`, `mark`, `steer`, `reopen`); an applier that starts a session is in
both, as in the code, where `Steer` is called inside the loop and under the lock.  `mem` is the copy
of the state the executor keeps in `prepared`, or the applier in `st`; `disk` is `state.json`.
Reading and writing it are steps of two actions, so a write between them is lost.  `rounds` counts
the calls of `ApplyHeldSteers` a job still makes: one at its end, one more when it was started to
look again.  An instruction's typist is a command or the app; only the app looks again, and the job it
starts for that may fail to build, and then never looks (*unheard*).  The
statuses of `RunExec` are folded into what an applier tells apart: open, spent, kept (blocked by a
question or a limit), stopped.  How a session answers is `RunExec`'s; here it takes what is pending
or leaves it.

`scene` fixes where each job runs, whether a webhook may refuse the post of a finished run, whether a
second job is started at the run by hand while one is under way, and whether the run is a fix.  A fix
records what became of its branch after its session settled, in a read and a write of `state.json` each
time (`ReadRecord` and `WriteRecord`: `recordCommit`, `recordFixState`, `markRunFailed`); a command whose fix fails
ends without a look at what is held; and a refusal of `fix.Steer` names the run, which the applier takes
for a session that was, so that the mark stays.

### Jobs

A delivery is `Claim` (`TriageIfIdle` takes `starting`), `Ask` (`triageBusy` reads the run directory),
`StartDelivered`; a person's is `StartTriage`, which asks nothing, as in the code.  A job's goroutine is
`Build`, then its workers, then `DropJob` and `EndJob` (the deferred `settled` of the claim).  A worker
takes a position off the channel (`Take`), waits for the pause twice (`Look` arms a timer for the
instant it read, `Wake` looks again when it fires), prepares and runs.  `RateLimited` moves the pause.
`Cancel`, `Stop`, `StopReturns` (its ten seconds are over) and `Exit` can fall anywhere; `run` is what is
on disk and survives.  A session is one step long here: what it does is `RunExec`'s.

### Shadow

`at` follows `supervise` and `ShadowTick`: `Pass`, `Create`, `Judge` and `Remove` are the steps of
`takeShadowLock`; `Read`, the recovery, `Select`, `Start` and `EndTick` those of a tick, each of which works
with the ledger as `Read` left it (`read`).  Recovery looks at the attempts it read open one at a time:
`Recover` closes one, `RecoverFails` writes its state and not its line, `PassOver` leaves it, and `Recovered`
reads the ledger again if a line was written.  An attempt is `Orphaned` when its process is gone, or, in a
scene with `hush`, when its run has been quiet for longer than it may run though its process lives (for
longer than a lock keeps, on another host).  `Launch` appends the started line, `Prepare`, `Spend` and
`Settle` are the run, `RecordFinished` the finished line.  `Spend` reports what a run has come to cost, up to
the scene's `most`, whatever it was allowed; past that it is cancelled, and may report more before it ends.
`AskRun` and `RunOne` are `shadow run`.  A process is *serve*, *once* or *hand*, and may `Die` between any two
steps.  A ledger attempt joins a started line with the finished line that closes it; dollars are small
integers.

### FixLife

A command's `at` is the git or disk operation it does next: `release`, `add` (the worktree, resetting
the branch), `prepare` (the run's record), `session`, `commit`, `record`, `push`, `notes`, `pushed` (the record
of the push), `tidy`; a steer opens the run again (`open`), a drop amends (`amend`).  `made` is the commit
graph (each commit with those it is built on), `head` and `remote` the branch here and on origin, `wt` the
run whose worktree holds it.  `Prior` is `PriorFix`: the newest run that is no evaluation's.  `Begin` is
`reviewedCommit`: a reviewed commit is published, one that moved refused; where the runs cannot be listed
(fix.go:593) or the report cannot be read or is empty (fix.go:617-623) it counts as not there, and a
fresh fix begins (*blind*).  A fix of an
evaluation is a local one (eval/runner_adapter.go:124), which the constants assume.  `Ends` is an
error return or a dead process at any of those places, with the record `MarkFailed` or left as it is.

### AcpSession

`agent`, `request`, `wire` are the child process and its output, external but for what the code asks of
it.  The reader is `conn.run` (`ReadsOn`, `Eof`), then `closeStream` (`EndsStream`), then `cmd.Wait`
(`Reap`).  The driver is Start's handshake and then `drive`: `Begins`, `Finishes`, `Tells`, `EndTurn`; `box`
is the reply its open call was handed, `writing` the request it has yet to get through the pipe, with the
write mutex (`Calls`, then `Puts`).  An agent may be `deaf`: it does not read its input, the pipe is full, and
a write to it blocks until it reads, goes, or its input is closed (rpc.go:256-269).  The pump's places are the points at which it may block:
`next` in `eventQueue.next`, `hand` on the channel, `barrier`, `ended`, `recheck` and `unanswered` in `barrier`,
`resume` on `turnCh`.  The caller is a runner: it reads to the end, may `Send` or close the input on a
final, and cancels from another goroutine at any time or from its own: `Cancel` is at its *notice*
(session/cancel, acp.go:1043) until that is written (`Notified`, `CancelReturns`), and only then is its timer
*armed* (1044).  Events are `note` or `final`; a reply is *done*,
*short* or *error*.

### Grants

A *call* is a record: its tool, the kind of question it would raise, how it is judged (`by`), its parts
and its text.  The parts are what the code judges one by one: segments of a shell command, hosts of a
fetch, directories of a read, the tool's own name.  How a command is split and which glob fits it are
constants (`PatternOf` is what `commandPattern` and its fellows name, `Reach` the parts a pattern fits,
`Listed` what the workspace's lists let through, `Hard` and `Never` what they never do), so the proofs
hold for any splitting and any globs.  `Judged` is `PermissionPolicy.Decide` with `Grants.find` in its
order: denied, allowed for the run, allowed once.

`disk` is `state.json` (status, reason, `Ask`, `Grants`), `mem` the copy an execution works on, `once`
the allow-once answer it was opened with, `used` what its present session has spent, `ask` the question
the session stopped on.  `pc` is *idle*, *waiting* (pool and `Provider.Start`) or *session*; `Begin` is
where the record first says running.  `Asking`, `AskingInWords` and `Outranks` are the settle switch,
`Die` is the process gone at any point.  `Decide`, `AnswerInWords`, `Resume` and `Steer` are the operator.
`said`, `last` and `uses` are ghosts.

## 3. The runs

Passing runs:

| Run | Question | Bounds |
|---|---|---|
| `RunNote` | a note-only execution and an Update note with every event kind: types, timers, sessions, verdict, the promise, and that it settles | 3 sessions, 4 events, notes in two parts, fair |
| `RunReply` | reply-first and chat executions, caps, wrap-up and note turn; instructions typed mid-run | 3 sessions, 4 events, 2 documents, 2 instructions, notes in two parts |
| `Fanout` | overflow, a broken stream, re-reads that fail: the count, the holes, and that what was missed is shown | one run, buffer 2, 3 lines, a notice, 1 break, fair |
| `LogOneHost` | the application's own runs, and a command line's runs | 4 lines, 3 turns |
| `SteerQueue` | one process, one job started by hand at a time: the app; commands whose webhook may refuse, of a fix or not: read once, none owed, the record true | 2 instructions (one for another model), 3 jobs, 2 passes |
| `Jobs` | two deliveries of a ticket a person asks for too, and two tickets asked for together: claims, cooldown, pause, cancel, `Stop`, restart | 3 jobs (one by hand), 2 workers, clock 2, 1 restart, fair |
| `Shadow` | two watchers in turn and side by side, a single tick whose run may go quiet, a `shadow run`, all dying anywhere | 6 scenes of 2 processes, 2 tickets, 3 attempts each, 3 dollars a day, 3 a run, fair |
| `FixLife` | four commands one after another, or three that overlap, each ending anywhere | 4 commands, 6 sets of flags |
| `AcpSession` | an agent that writes, answers, stops reading, dies or leaves its output open, under a caller that sends, cancels or gives up | 3 turns, 2 pieces of text, fair |
| `Grants` | commands, fetches, a read and tools, asked about, allowed once or for the run, or denied, by a run that is steered, resumed or dies | 15 calls, 3 executions of 2 sessions |

The bounds are large enough for the cases to meet: three sessions are an original, its replacement
and the replacement's replacement; a channel of two overflows with one marker and one line in it;
three turns of a log are a new run, a turn over its closed cursor and one after its release; three
jobs at a run are the host, one that looks again and one the operator starts, and two passes (eight
in the code) one that applies and one that finds what was typed meanwhile, or the bound; three
triages are two deliveries and a person, two workers both wait for one pause, and a clock of two lets
a pause of one move; three attempts are one more than a watcher may make, so that the cap can fail;
four commands are a blocked fix, a drop or steer, an accepting fix and whatever comes after; three
turns are the prompt and two retries, so that a message can come while another's turn ends; three
executions are a question, its answer and a second question that the first answer half covers; the calls
have a pipeline in two orders, a pattern that fits what another names, a redirected segment, one
that names nothing, and two tools of one server called with the same arguments.  Three dollars a day
and a budget of two let a run of three pass both: its own, which cancels it, and the day's.  The
mutants confirm it: for every property of a passing run there is a one-definition change, of the
kind a slip in the code would make, that the run finds.

`NotesKept`, `AnswersStand` and `PublishedIsTheLog` each join parts that fail separately: a completed
run has its note, a note means completed, an Update note loses none; filed once, and the reply stands;
numbered by place, and none passed over.

Violation runs, each a place where the code and what is written about it part ways (`findings` in
`PROJECT.json` quotes both):

| Run | What happens |
|---|---|
| `RunSteerAfterFailedFiling` | a note that could not be filed counts as unchanged after an instruction, and the run completes without it |
| `GrantsDenyUndone` | a command is let through whose program the operator denied, once a wider pattern was allowed |

Other disagreements met while modelling, each reproduced by changing the constants or the properties of
a run as said, or marked as met in reading only.

Run execution:

- `NoOrphan` fails in `RunReply` when `LateKinds` has `"final"`: a reply session nudged in a resumed one
  answers while it drains, and `openNoteSession` (execute.go:2051) replaces the waiting session.
- `NoteMeansCompleted` (of `NotesKept`) fails in `RunNote` with one instruction: `deliverSteers` clears the filed
  answer (livesteer.go:154), and a budget that expires in the steered turn decides
  (`docs/config.md:826` says the overrun is recorded as a warning).
- A note on disk does not mean a completed run: an RCA run that cannot write its resolution note or its
  playbook suggestions (execute.go:2604, 2609) fails with its first note written and named, so
  `NoteMeansCompleted` excepts what was filed halfway (`HalfFiled`).
- `Settles` fails for `Jobs = {"replyFirst"}` with `ClockOn = FALSE`: a breach of the draining reply
  session stops the stall guard for good, and a silent note session then never ends.

Fan-out and log:

- `NoHole` fails in `Fanout` once a line was evicted: `miss` (service.go:375) takes a run that was told as
  covered, also when the evicted line is older than the marker that is out, though service.go:336 says
  a marker stands for it.
- `OwedIsShown` excepts lines of a run while another is owed a marker too: with two runs and a buffer of
  one the second marker waits for a publication that may never come.
- `OwedStaysCovered` excepts lines whose re-read failed: `useRunFeed.ts:240` says the run finishing asks
  again, and line 305 re-reads only the summary.
- `OncePerLine` fails for hosted runs (watcher.go:261 reads without a lock when it found no cursor).
  With `Scenes <- BothHosts`, `NothingPassedOver` fails (live.go:85 seeds a cursor past another process's
  lines; watcher.go:21 says every line goes out) and `IndexIsPlace` too (live.go:79 reuses a closed
  cursor whose index is stale); `NothingPassedOver` also fails with a scene of one `asides` for hosted
  runs (`fix/review.go:512` appends past the sink).  A command-line turn that begins and ends within
  one poll is never tailed at all.

Instructions at a run:

- `ReadOnce` fails with `Scenes <- HostedOut`: the lock of livesteer.go:62 is per process, and the app
  and a command that both see a run settle apply one instruction in two sessions at once
  (`docs/steer.md:62` says it is read once).
- `ReadOnce` fails in `SteerQueue` with `Alone(App, TRUE, FALSE)`: `finish` writes its copy again after a
  webhook refused the post (run.go:600), and takes back the mark, or the whole session, of an applier
  that saw the run settled before it did.
- `OneSession` and `RecordStands` fail with `overlap`: `Runner.Resume` refuses no live run, and two
  executors write one state.
- `NothingOwed` fails without `typing[q].proc # App`: a command that typed just before the run settled
  waits, is told the instruction is held (cmd/sirdar/livesteer.go:41), and nobody is left to apply it.  It
  fails without *unheard* too: the job the app starts to look again may fail to build (service.go:968-973;
  app/steer.go:88-91 opens the run and its workspace first), `ApplyHeldSteers` is then never called, and the
  instruction stays held until the next job at the run.  A command whose fix failed (cmd_fix.go:62-65,
  cmd_steer.go:49-52) returns without that call as well.
- `ReadOnce`, `NothingOwed`, `RecordIsTrue` and `RecordStands` all fail with `Scenes <- FixInApp`: a fix hosted by the
  app is settled, and its held instructions are anybody's to apply, while `recordCommit`, `recordFixState` or
  `markRunFailed` (fix.go:689-699, fix/steer.go:178-197, guard.go) have read `state.json` and not yet written it back.
- An instruction held for a fix that refuses it, a pushed one say, stays marked *applied*: `fix.Steer` returns
  its state with the refusal (fix/steer.go:72-92), so the test at app/livesteer.go:122 does not see that nothing
  started, where cmd_fix.go:69-70 and app/livesteer.go:60-63 say it is dropped with the reason.
- `RecordIsTrue` is silent about `applied`: `store/run.go:82` says "applied once a steer segment
  carried it", and the mark is written before the session starts (app/livesteer.go:115); a provider
  that fails to start settles the run as failed and the mark stays.

Jobs:

- `DeliveriesApart` is about deliveries: a start by hand takes no claim, so a delivery that reads the run
  directory before the manual job wrote anything starts a second run of the ticket beside it
  (`docs/webhooks.md:359`).
- A run that `Stop` gave up on stays *running* in its state.json and keeps its ticket busy until a
  person acts, where the comment at service.go:202 says its state already says blocked.
- `docs/webhooks.md` says a failed triage holds the key for the cooldown too; one that failed before it
  wrote a state does not.  And (reading) a job added after `Stop` took its list is not cancelled.

Shadow:

- `OneWatcher` fails with `Scenes <- Three` (and three processes, one run a day): two processes judge one
  dead lock stale, one removes it and creates its own, the other then removes that one, unread
  (shadowlock.go:112), and both tick; `OneAttempt` and `WithinCaps` fail there as well and, with two runs
  a day and four attempts, `ClosedByItsOwn` (one watcher recovers a run and carries it on, the other closes it by
  what it read before) and the attempts of `TypeOK`.  shadowlock.go:81 calls losing
  that race "an ordinary refusal", and `docs/config.md:970` promises one process.
- A `shadow run` beside `serve` can start a second run of a ticket (shadow.go:1344 reads the ledger and
  writes its line without the lock): `OneAttempt` and `WithinCaps` except runs by hand.
- A run that says nothing for longer than it may run (shadow.go:956; a suspended machine, say), or on another
  host for longer than a lock keeps (958), is closed although its process lives, and may be tried again
  beside it: `OneAttempt` and `ClosedByItsOwn` fail without `~scene.hush`, where the comment at shadow.go:965-967
  has it that such a run "cannot still be going".  The two drivers of a run that was carried on would then
  also each write their own copy of its state.
- Dollars are found after they were spent: a run's cost is compared when it is reported (execute.go:1314),
  and one that reports at its end overspends (`docs/config.md:788-794` says so), so what the day's runs cost
  may pass `maxUSDPerDay` by what the last reports added.  `WithinCaps` is that no run goes on after that
  uncancelled, and that nothing is started.  With `budget.maxUsd` 0 a run has no limit of its own (shadow.go:1088
  takes the smaller of it and what is left, and 0 is none), and the day's is not applied inside it.
- A run whose process records its finished line and exits between a tick's read and its recovery is
  closed a second time and its cost counted twice.  `concurrency` (`docs/config.md:949`) and the day's
  dollars can be exceeded by processes side by side, each counting its own; hence the condition in
  `WithinCaps`.  Once the day's runs are used up retries wait as well, though they start no new ticket.
- (Reading) a second poll may still be in its tick after `Stop` released the lock.

Fix:

- `PushedWasOnRecord`, `SaysPushedTruly` and `AcceptKeepsTheCommit` fail without `~together`: nothing keeps
  a second command of the ticket out while one is under way.
- `PushedStands` (stated in `FixLife`, checked by no run) fails with two overlapping commands: a drop between
  a fix's push and its record of it amends the commit origin has (fix/review.go:336), where `docs/fix.md:264`
  and `docs/steer.md:165` say a published fix is refused.
- Also alone, a `--dry-run` resets the branch that carries a blocked commit, removes its worktree and is
  then the newest run, so that `--accept-deviation` starts a new session without a word; fix.go:248-251
  says it refuses.  The same follows a steer that failed (fix/steer.go:145-153): its run is *failed* with its
  commit on record and the branch at it, `reviewedCommit` (fix.go:601) passes it over, and the accept resets
  the branch, where fix.go:239-251 has a person's reviewed commit published or refused.  So it is with a
  completed run, where the runs cannot be listed (fix.go:593-596) or its report cannot be read or is empty
  (617-623): `AcceptKeepsTheCommit` is about completed runs and commands that could read both.  (Reading) `docs/fix.md:200` says a branch that moved makes the ordinary fix run from
  scratch; `reviewedCommit` refuses with an error.
- Also alone, a crash between the push and its record lets a later drop or steer amend the pushed commit.

ACP sessions:

- An agent that answers and exits at once can lose its answer: EOF closes the queue (acp.go:408) and
  `push` then drops the driver's final; execute.go files only what a final event carries.
- acp.go:1353-1355 says the session tells of its empty turns "on the way out"; when the agent goes
  first, `barrier` leaves through `closing` and never does.
- A caller that gives up without reading (execute.go:431) leaves the pump holding an event for good.
- A process the agent started may keep its output open after a kill: `Events` then stays open, a caller
  that reads first never comes to `Wait`, and `SessionEnds` excepts it (*held*).
- An agent that stays up and stops reading its input keeps `Cancel` at its notice: the write holds the
  connection's mutex (rpc.go:256-269) and goes before the timer is armed (acp.go:1043-1044), so the kill the
  comment there promises never comes, while a prompt that is being written holds the notice up the same way.
  `SessionEnds` fails without its hypothesis that this is not for ever.  Start's writes of the handshake have
  no deadline either; its two minutes run from when the request is written.
- Text the agent still writes after its reply counts to the next turn, when it is read after `beginTurn`.

Permissions:

- Steering a run that is blocked on a question leaves `state.Ask` in place (steer.go writes only the
  instruction); the run may then end in any way and still hold it, where store/run.go:292-295 says a run
  "blocked on anything else" has none, and words typed later go to the old question.  The invariant
  `disk.ask # None => disk.reason = "asking"` fails in `Grants`.
- An allow-once answer is unspent again in a session reopened by a model switch or a retry of the same
  execution: `uses' <= 1` holds for a session and not for an execution, where `docs/blocked.md:43` has
  the first call that matches spend it.  And one given is lost when the provider does not start.
- (Reading) A question about a fetch or a read names what the lists refuse, also what was already
  allowed for the run; denying it then denies that too.

### Fairness

`RunNote`: the reader runs when it can, a timer that is due fires and cancels, a session that was
cancelled or closed ends (its process group is killed after a grace period).  A session left open
need never speak or end, and the operator need do nothing; the wall clock is what ends such a run.
`Fanout`: a send under way runs to its end, the stream handler keeps taking, a re-read is
answered.  Nothing says anything more is published.  `Jobs`: handlers and goroutines go on, a session
ends (`Settles` shows that it does), time passes; nobody has to deliver, cancel or stop.  `Shadow`: each
supervisor makes its passes, a session ends, and a finished line that is tried again at every tick is
written some time (strong fairness of `Recover`, as any one write may fail); no process has to start or to
die.  `AcpSession`: the goroutines go on, the caller comes back for the next event, timers fire, and a write to
an agent that reads again and again returns (strong fairness of `Writes`); the agent need not write, answer,
read or exit, so `SessionEnds` speaks of sessions that were cancelled, lost their agent or finished a turn.

`CHECK_DEADLOCK FALSE` is set for `Fanout`, `LogOneHost`, `SteerQueue`, `Jobs`, `Shadow`, `FixLife`, `AcpSession`,
`Grants` and `GrantsDenyUndone`: with their counters at the bound, nothing left to take and every job,
command or session done, those systems really are quiet.  An execution ends in `Done`.

## 4. The proofs

`RunExecProofs` proves, for every set of documents, instructions, models, fallbacks, event kinds and
every bound (the assumptions named in `RunExec`):

- `TypeCorrect`: `Spec => []TypeOK`, action by action, `TypeOK` split into five groups so that each
  step is checked against the group it can disturb.
- `FilesNothingOnceStopped`: `Spec => NothingFiledOnceStopped`.  No invariant is needed; the argument
  is that every filing action is a `Turn`, and `Settled` or a model limit excludes it.
- `GuardNeverMisnames`: `Spec => []StallNeverMisnames`.  Not inductive: the guard may be *held*, and
  a switch of sessions rearms a held guard.  `StopInv` adds that it is stopped, or held with the
  current session capped and nothing waiting, so that no switch follows.
- `TimersReachTheReader`: `Spec => []TimerReachesReader`.  `TimerInv` adds that the session the timers
  cancel is the one being read and that a waiting session is a process; `IndInv` joins it to
  `TypeOK`, which its steps need.
- `KeepsItsPromise`: `Spec => Implements`, the refinement of `RunPromise`.  `AnswerInv` relates the
  reply to the kind of job, the note phase to `blind`, and says a starting execution has no answer.
- `SpendingStands`: `Spec => UsageNeverRefunded`, over every switch, wrap-up and note turn.
- `NoSessionOrphaned`: `Spec => []NoOrphan`, where `OneWaits`: no note follows a reply, or a result is a
  session's last word.  `WaitInv` says who may be waiting while which session is read.  Without
  `OneWaits` it fails (section 3).
- `NotesAreKept`: `Spec => []NotesKept` where `Steers = OtherModel`, that is, nothing can be delivered
  mid-run; with a deliverable instruction it fails (section 3).  `NoteInv` relates the note on disk, the
  one kept aside and the answer filed, and says that a note whose filing failed is half of an RCA's.  `UpdateKeepsANote` is the half of it that needs no hypothesis:
  an Update note that fails loses nothing.
- `AnswersStay`: `Spec => []AnswersStand`.  Not inductive: how often something was filed is bounded only
  by what was filed before the answer was cleared.  `FiledInv` counts it with the instructions
  delivered (`Owed`, `Allowed`).

`SteerQueueProofs` proves of the steer queue, for any number of jobs, instructions, processes and
passes:

- `TypeCorrect`: `Spec => []TypeOK`, in every scene.  `Counted` is what keeps passes and rounds from
  being counted below zero: a job with no round left is done.
- `OneSessionAtATime`, `ReadByOne`, `RecordTellsTruth`, `RecordNeverGoesBack`: `OneSession`, `ReadOnce`,
  `RecordIsTrue` and `RecordStands` hold in an *orderly* scene: the jobs share one process, nobody starts a
  job over a working one, and in the app no webhook refuses a post and the run is no fix.  The scenes of the
  passing run are orderly.  Each condition is needed: the entries about `HostedOut`, `Alone(App, TRUE, FALSE)`,
  `overlap` and `FixInApp` in section 3 break one each.
- `OwedNothing`: `Spec => []NothingOwed` in an orderly scene where `PassesEnough`: there are no more
  instructions than passes (8 in the code, livesteer.go).  It fails with more: an instruction that
  arrives in each of the passes outlasts them.

The argument has two invariants.  `Exclusive`: at most one job is at the run at all, because an
applier holds the process's lock for as long as it works, and an executor outside the lock is only
started when the run is quiet; it also says that while such an executor is about to begin, the state
is live or nothing is queued, so that nobody in the process takes the lock and finds work.
`Records` relates the four places an instruction passes through: what was `Typed` and is not in the file, the
copy a working job holds (`Copied`: no older than the file), the batch an applier has taken
(`Batched`: not yet read, and still marked so), and the file (`OnDisk`: true, and read at most once).
`RecordStands` needs the same relation step by step.  `NothingOwed` says nothing until all is quiet; what
is so before is `Watched`: whatever is in the inbox and not settled has its typist still to look again,
a job with a look before it, or an applier that has it in hand.  A look finds it (`Placed`: the copy an
applier decides from has the file's status) unless the passes are spent, and `Spent` counts that each of
them settled an instruction at least, by the sizes of the sets of settled ones (`SettledGrows`).

`FeedProofs` proves of a run's log, for any number of lines, turns, asides and polls:

- `LogTypeCorrect`: `LogSpec => []LogTypeOK`.
- `PublishedOnce`: `LogSpec => []OncePerLine`, which speaks of runs that command lines alone write.
- `LogIsPublished`: `LogSpec => []PublishedIsTheLog`, where `OneWriter`: the application alone writes the run,
  with no line appended past its sink, or command lines alone do.  It fails with hosts mixed and with
  asides in a hosted run (section 3).

The invariant is by host (`HostInv`, then `LogInv`).  For a hosted run the open cursor has gone as far as the file has, or as far as the
line in an appender's hand, and the watcher's place is covered by lines published; for a command line's
run nothing but the watcher publishes, each line once, up to its place.

`FixLifeProofs` proves of a fix, for any number of commands, each ending anywhere, and any flags:

- `TypeCorrect`: `Spec => []TypeOK`.
- `PushedIsTrue`: `Spec => []SaysPushedTruly`.
- `PushedFromTheRecord`: `Spec => PushedWasOnRecord`.
- `AcceptKeeps`: `Spec => AcceptKeepsTheCommit`.

`Cut` says the branch is there wherever a record, a worktree or a command needs it.  `FixInv` is about
commands that did not overlap: one runs at a time (`One`), only the newest run can have what the branch is
at on its record (`Runs`), nothing is built on what origin has (`Origin`), and for each place of a command
what it knows of its run, the branch and origin (`Stage`: `Before`, `Own`, `Kept`, `Amending`, `Recording`,
`Pushing`).  A command that ends anywhere leaves all of it so, which is what the properties are about.
`AcceptKeeps` speaks of a command that could read what it decides by (`~blind`), and of completed runs; section 3
says what the others do.  The properties say nothing of commands that overlap, save that a note saying *fix-pushed* has something
on origin (section 3 for what happens then).

`JobsProofs` proves of triages, for any number of tickets, deliveries, jobs, workers, restarts, any
cooldown and any lengths of a pause:

- `TypeCorrect`: `Spec => []TypeOK`.
- `OneClaim`: a key is claimed by one delivery or by the job it started, never by two.
- `DeliveriesKeptApart`: `Spec => []DeliveriesApart`.
- `TicketsAccounted`: `Spec => []Accounted`.
- `PausesHonoured`: `Spec => PauseHonoured`; no invariant is needed, only the shapes.

Its invariant has five parts.  `Shapes` types the variables; `Placed` says that what a queue or a worker
holds is a position of its job, and that a run that was not prepared left nothing, without which the
types of `run` are not kept.  `OneHolder` is `OneClaim`.  `Ordered` adds time: whoever holds the claim
finds every earlier run of the ticket over and cooled down, which `Ask` establishes and nothing but the
holder's own run can disturb; `DeliveriesApart` is not inductive without it, because it says nothing
while the second run has yet to start.  `Tracked` accounts for a working job: each of its positions is
in the queue once, with one worker, or settled, so that an empty queue and free workers mean all are.

`AcpSessionProofs` proves of a session, for any number of turns and pieces of text:

- `TypeCorrect`: `Spec => []TypeOK`.
- `TurnsAreShown`: `Spec => []TurnIsShown`.
- `SendsAreHonoured`: `Spec => []SendIsHonoured`.
- `OneRequest`: the agent has at most one request, and while it has one no reply is on the way.

`AcpInv` joins `Shapes` with `Asked` (where the one open request or its reply is; without it a stale reply
could end the wrong turn), `Counted` (everything queued was handed over, is queued, or is in the pump's hand), `Settled`
(a pump past a turn's end stands there only while the driver is idle, so that nothing is queued for a
turn behind its back) and `Sends` (each accepted message is in `sendCh`, with the pump, with the driver,
or begun).

`FeedProofs` proves of the fan-out, for any number of runs, lines, notices and breaks, any buffer, and
re-reads that may fail:

- `TypeCorrect`: `Spec => []TypeOK`.
- `CountIsExact`: `Spec => []DroppedIsExact`.
- `OwedIsKept`: `Spec => []OwedStaysCovered`.
- `NoHoleUntilOverflow`: `Spec => []NoHoleWithinBuffer`.

`Shapes` adds to the types that every message in the channel or in the publisher's hand is about a line
that was written (`Real`, `Sent`) and that only an open transcript asks for a log (`Asked`).  With it the first two properties are
inductive.  The count needs lemmas on the size of a set of positions: appending an event to a channel
adds one, taking its head removes one exactly when the head is an event (`EventsAppend`, `EventsTail`).  The cover is a
case per step: what a marker covered in memory it covers in the channel after `Flush`, and in a
re-read after `Take`; an eviction notes the head it takes, and an evicted marker goes back to memory (`MissCovers`).
`NoHoleWithinBuffer` says nothing while a send is making room, so it is not inductive: `QuietInv` says what is
so there (a line that found no room is already noted; a send past its eviction has an empty channel, or
has taken something and will count it), and `KeptInv` that until then every line is shown, noted, queued,
in hand or asked for.

`GrantsProofs` proves of the policy and the answers, for any calls, lists, globs, executions and sessions:

- `TypeCorrect`: `Spec => []TypeOK`, with: an answer for one call is never kept with the run.
- `AnswersAreKept`: `Spec => []AnswersKept`.
- `LeaveIsGiven`: `Spec => OnlyOnLeave`; leave for one call is of the same tool, kind and digest (`About`).
- `AnswersAreHeard`: `Spec => AnswersHeard`.

`Inv` adds to the types and `AnswersKept` that a question kept, and every answer, is about a call some
answer could let through and carries its digest (`AllSound`); that what the record, the copy and the
execution hold was said by the operator, and that in a session the copy is the record (`Copies`); and
that the answer for one call is used at most once in a session (`SpentOnce`).  The lemmas are about the
judgement: what each verdict rests on (`Verdicts`), that a call with the digest of an answerable one has
no part that no list lets through (`DigestTells`), and neither has one that grants cover (`GrantedIsSoft`).

`ShadowProofs` proves of the shadow watcher, for any number of processes, tickets and attempts, any caps
and any scenes:

- `OneWatches`: `TwoAtMost => (Spec => []OneWatcher)`.  The lock file keeps two watchers apart, whoever
  dies, leaves, or judges a lock stale; with a third it does not (section 3).
- `ShadowTypeCorrect`, `NeverTwice`, `NoneClosedUnderWay` and `WithinTheDay`: `Spec /\ []OneWatcher` implies
  `[]TypeOK`, `[]OneAttempt`, `[]ClosedByItsOwn` and `[]WithinCaps`; the middle two except the scenes in which
  a run may go quiet under a live process, as the properties do.  They do not say how the watchers are
  kept apart, so they hold for any number of them in a behaviour in which the lock did its work.
- `TwoWatchersSafe` joins the two: under `TwoAtMost`, all four of every behaviour.

`Shapes` types the variables and places the runs.  `Locks` is what two watchers know of the lock: a tick
has it, and who looks at it or removes it has seen that the other watcher is over.  `Core` is the
argument about a ledger nobody locks.  What a watcher read is an older form of the ledger (`Follows`: the same attempts, of which
some have ended since); what was added since is runs of their own (`Since`), which a decision taken
on the older ledger does not touch; and a run under way has its last line open and its process's name on
it (`Accounts`), so that recovery, which closes what no living process drives, passes it by (where no run
goes quiet under a living one).  `Ticks` adds,
where nobody starts a run by hand, that the copy of a deciding watcher has as many attempts as the ledger,
and that the tickets started and those still planned together are within the day's.  `Money` adds, of
one process after the other with one run at a time, that a run whose lines are all closed has exactly
its cost in the ledger and one with an open line at least what was booked (`Counted`); that what a tick read
counts the runs so too, and still agrees with the ledger wherever recovery, which goes one attempt at a
time and may write some of its lines, has yet to look (`Fresh`, `AsRead`); that a tick about to launch knows
all that was spent, and has money left (`Budgeted`); and that while a run goes on uncancelled the day's
money is not passed and what it may still spend is left of it (`Allowance`).  A report that passes the
allowance ends what the last says of its run: it is cancelled in that step.  `CostOf`, what a resumed run adds to what its earlier attempts booked, is why
`Counted` goes by run and not by line.

Dollars are sums over finite sets, and a sum is a recursive function.  The library's induction theorems
cannot be instantiated, but a set of counterexamples has a smallest one (`FS_StrictSubsetOrderingWellFounded`
and `WFMin`, in `Grown`), which is all that the lemmas on sums need: that they are naturals, grow by the
term added, are monotone, and may be taken in groups.

## 5. Only model-checked

No invariant or action property of a run is without its theorem.  The other way round, the types of
`SteerQueue`, `Fanout`, `Jobs` and `AcpSession` are proved and checked by no run.  Liveness under fairness
(`Settles`, `OwedIsShown`, `ClaimsComeBack`, `StartedIsClosed`, `SessionEnds`) and `ENABLED` are beyond the
prover.  No module declares a `RECURSIVE` operator.

Where a theorem has a hypothesis (`Orderly`, `PassesEnough`, `OneWaits`, `Steers = OtherModel`, `OneWriter`,
`[]OneWatcher`, `TwoAtMost`) the property is false without it: sections 3 and 4 say what then happens.  So it
is with what a property itself excepts (`~together`, `~blind`, `~scene.hush`, a typist *unheard*, `HalfFiled`).
The run that checks the property meets the hypothesis.  `FixAssumption` and the other named assumptions are evaluated by the runs.

## 6. Not modelled

Text: prompts, rendering, schemas, log wording.  Conversions: ticket sources, HTML, configuration,
webhook payloads and signatures.  The window's screens.  The wire protocols of providers other than
ACP; of ACP permission requests and file reads, which the reader answers itself, through the same pipe and
mutex, modes and models, and a resumed session's replay.  In
`RunExec`, dollars and tokens; in `LiveLog`, torn lines, truncated logs and deleted run directories; in
`SteerQueue`, an executor that dies (its state then says running until somebody resumes it) and failed
reads and writes of the run directory; in `Fanout`, more than one subscriber (they share nothing but the mutex and the
`dropped` counter); in `Jobs`, fix, chat and session jobs, which share the table; in `Shadow`, grading,
outcomes, the digest, pauses, locks gone stale by age, a process number used again, the change of a day; in `FixLife`, the in-place mode, pull requests,
a base that moves on origin, the text of a deviation, the resumption of a fix run and failed writes; in
`Grants`, how commands are split and globs match, the reproduction guard and write confinement.

## 7. Plan

Done: `RunExec` with `RunPromise`, `Fanout`, `LiveLog`, `SteerQueue`, `Jobs`, `FixLife`, `AcpSession`, `Grants` and
`Shadow`, each with its proofs.  Next, in this order:

1. The crash of an executor and its resumption (run.go:383), with `RunExec` started from a record.
2. The splitting of commands and the reproduction guard, as functions checked against a reference.
3. The cost offset of resumed conversations (execute.go:1840).
4. Suggestions log, saved notes, notifications after a run.
5. The protocols of the other providers, over the same caller as `AcpSession`.
