------------------------------ MODULE FixLife ------------------------------
(***************************************************************************)
(* `sirdar fix` on one ticket: what its commands do to the fix branch, to  *)
(* the linked worktree that holds it, to the run records and to the triage *)
(* note (internal/fix, internal/worktree).  A fix cuts the branch, runs a  *)
(* session in a worktree, commits, and publishes unless the session says   *)
(* it deviated from the note; a person then reads the commit, drops hunks  *)
(* of it, steers the session on, or accepts it with a second fix.          *)
(*                                                                         *)
(* Every run of a ticket names the same branch, so the branch is held by   *)
(* one of Sirdar's worktrees at most.  Nothing locks it: commands may run  *)
(* at the same time, and each may end early anywhere, by an error or with  *)
(* its process.                                                            *)
(***************************************************************************)
EXTENDS Naturals, Sequences, FiniteSets

CONSTANTS
    Cmds,     \* bound: the commands given; a fix's run is named after it
    FlagSets, \* the flags a fix may be given together
    Overlap,  \* bound: commands given where any run at the same time
    NoRun

ASSUME FixAssumption ==
    /\ FlagSets \subseteq SUBSET {"accept", "dry", "local", "eval"}
    /\ \A flags \in FlagSets : "eval" \in flags => "local" \in flags   \* eval's runner gives both
    /\ Overlap \in Nat /\ NoRun \notin Cmds

VARIABLES
    note,     \* the status in the triage note's frontmatter
    made,     \* every commit: whose session said it deviates, and what it is built on
    head,     \* the fix branch here, 0 while there is none
    remote,   \* the fix branch on origin
    wt,       \* the run whose worktree holds the branch
    dirty,    \* that worktree has changes nobody committed
    run,      \* state.json of each run
    order,    \* the runs, oldest first
    cmd,      \* each command: what it is, where it is, what it remembers
    together  \* two commands have been running at one time

repo  == <<made, head, wt, dirty>>
files == <<run, order, note>>
vars  == <<repo, remote, files, cmd, together>>

Base == 1
NoState == [status |-> "none", commit |-> 0, pushed |-> FALSE, eval |-> FALSE]
Idle == [at |-> "new", does |-> "fix", flags |-> {}, on |-> NoRun,
         kept |-> NoState, dev |-> FALSE, sees |-> 0, main |-> FALSE, blind |-> FALSE]
Over == [Idle EXCEPT !.at = "gone"]

Running == {c \in Cmds : cmd[c].at \notin {"new", "gone"}}
Has(c, flag) == flag \in cmd[c].flags
Goes(c, to) == cmd' = [cmd EXCEPT ![c] = IF to = "gone" THEN Over ELSE [@ EXCEPT !.at = to]]
Writes(c, new) == run' = [run EXCEPT ![cmd[c].on] = new]

\* A commit and what it is built on.
Line(x) == {x} \cup made[x].past

\* A command given: nothing asks whether another is running.
Given(c) ==
    /\ cmd[c].at = "new"
    /\ together' = (together \/ Running # {})
    /\ together' => Cardinality({k \in Cmds : cmd[k].at # "new"}) < Overlap

-----------------------------------------------------------------------------
(* The beginning of a fix.                                                  *)

\* PruneStale: a day after its run ended, a worktree goes.
Stale(r) == r # NoRun /\ run[r].status \in {"completed", "failed"}

Counts(r) == ~run[r].eval

\* The k-th run, and only measurements since.
Newest(k) == Counts(order[k]) /\ \A l \in k + 1 .. Len(order) : ~Counts(order[l])

\* reviewedCommit looks at one run, the newest that is not a measurement.
Prior ==
    IF \E k \in DOMAIN order : Newest(k)
    THEN order[CHOOSE k \in DOMAIN order : Newest(k)] ELSE NoRun

\* A slip: a commit is there to accept only where a deviation held it back.
LeftBlocked(r) ==
    r # NoRun /\ run[r].status = "completed" /\ run[r].commit # 0 /\ made[run[r].commit].dev

Left(r) == r # NoRun /\ run[r].status = "completed" /\ run[r].commit # 0

\* A slip: the branch is taken at its name.
NeverMoved(r) == FALSE

Moved(r) == head # run[r].commit

Reviews(flags) == "accept" \in flags /\ "dry" \notin flags

\* A commit that is there and still is the branch is published as it is, or
\* left where it is; one the branch has moved off is a refusal. Where the runs
\* cannot be listed, or the report of that one cannot be read or is empty, it
\* counts as not there.
Begin(c, flags, read) ==
    LET found == Reviews(flags) /\ Left(Prior)
        to == IF ~found \/ ~read THEN "release"
              ELSE IF Moved(Prior) \/ "local" \in flags THEN "gone" ELSE "push"
    IN
    /\ Given(c) /\ (note = "triaged" \/ "eval" \in flags)
    /\ \/ UNCHANGED <<wt, dirty>>
       \/ Stale(wt) /\ wt' = NoRun /\ dirty' = FALSE
    /\ cmd' = [cmd EXCEPT ![c] = IF to = "gone" THEN Over
                   ELSE [Idle EXCEPT !.at = to, !.flags = flags,
                         !.on = IF to = "push" THEN Prior ELSE c,
                         !.main = (to = "push" /\ wt' # Prior),
                         !.blind = (found /\ ~read)]]
    /\ UNCHANGED <<made, head, remote, files>>

\* worktree.Add: whatever worktree holds the branch goes first, and the branch
\* is reset to the fetched base.
Release(c) ==
    /\ cmd[c].at = "release"
    /\ wt' = NoRun /\ dirty' = FALSE
    /\ Goes(c, "add")
    /\ UNCHANGED <<made, head, remote, files, together>>

Add(c) ==
    /\ cmd[c].at = "add" /\ wt = NoRun
    /\ head' = Base /\ wt' = c
    /\ Goes(c, "prepare")
    /\ UNCHANGED <<made, dirty, remote, files, together>>

Prepare(c) ==
    /\ cmd[c].at = "prepare"
    /\ LET new == [NoState EXCEPT !.status = "running", !.eval = Has(c, "eval")] IN
         /\ run' = [run EXCEPT ![c] = new]
         /\ cmd' = [cmd EXCEPT ![c].at = IF Has(c, "dry") THEN "dry" ELSE "session",
                               ![c].kept = new, ![c].blind = FALSE]
    /\ order' = Append(order, c)
    /\ UNCHANGED <<repo, remote, note, together>>

DryEnds(c) ==
    /\ cmd[c].at = "dry"
    /\ Writes(c, [cmd[c].kept EXCEPT !.status = "completed"])
    /\ Goes(c, "tidy")
    /\ UNCHANGED <<repo, remote, order, note, together>>

-----------------------------------------------------------------------------
(* The session, a fix's or a steer's, and its commit.                       *)

\* The session edits the worktree, if it is there, and writes its run's whole
\* state from what it remembers of it.
Session(c, end, dev, edits) ==
    /\ cmd[c].at = "session"
    /\ dirty' = (dirty \/ (edits /\ wt = cmd[c].on))
    /\ Writes(c, [cmd[c].kept EXCEPT !.status = end])
    /\ cmd' = [cmd EXCEPT ![c] = IF end = "completed" THEN [@ EXCEPT !.at = "commit", !.dev = dev] ELSE Over]
    /\ UNCHANGED <<made, head, wt, remote, order, note, together>>

\* The reserved files changed, or a fix changed nothing at all.
MarkFailed(c) ==
    /\ cmd[c].at = "commit"
    /\ Writes(c, [run[cmd[c].on] EXCEPT !.status = "failed"])
    /\ Goes(c, "gone")
    /\ UNCHANGED <<repo, remote, order, note, together>>

Makes(c, dev, past) ==
    /\ wt = cmd[c].on
    /\ made' = Append(made, [dev |-> dev, past |-> past])
    /\ head' = Len(made')
    /\ cmd' = [cmd EXCEPT ![c].at = "record", ![c].sees = Len(made')]

\* A steer amends the commit its run had.
Amends(c) == cmd[c].does = "steer" /\ cmd[c].kept.commit # 0

Commit(c) ==
    /\ cmd[c].at = "commit" /\ dirty
    /\ Makes(c, cmd[c].dev, IF Amends(c) THEN made[head].past ELSE Line(head))
    /\ dirty' = FALSE
    /\ UNCHANGED <<wt, remote, files, together>>

\* A steer that changed nothing leaves the commit.
Unchanged(c) ==
    /\ cmd[c].at = "commit" /\ cmd[c].does = "steer" /\ ~dirty /\ wt = cmd[c].on
    /\ Goes(c, "gone")
    /\ UNCHANGED <<repo, remote, files, together>>

\* The deviation gate and --local come after the commit is on the record.
Publishes(c) ==
    /\ cmd[c].does = "fix" /\ ~Has(c, "local")
    /\ cmd[c].dev => Has(c, "accept")

Record(c) ==
    /\ cmd[c].at = "record"
    /\ Writes(c, [run[cmd[c].on] EXCEPT !.commit = cmd[c].sees])
    /\ Goes(c, IF Publishes(c) THEN "push" ELSE "gone")
    /\ UNCHANGED <<repo, remote, order, note, together>>

-----------------------------------------------------------------------------
(* publish, of this run's commit or of an earlier one's.                    *)

\* The branch is pushed by its name and never forced.
Push(c) ==
    /\ cmd[c].at = "push"
    /\ cmd[c].main \/ wt = cmd[c].on
    /\ remote = 0 \/ remote \in Line(head)
    /\ remote' = head
    /\ Goes(c, "notes")
    /\ UNCHANGED <<repo, files, together>>

\* A note that cannot be written is passed over.
UpdateNotes(c) ==
    /\ cmd[c].at = "notes"
    /\ note' \in {note, "fix-pushed"}
    /\ Goes(c, "pushed")
    /\ UNCHANGED <<repo, run, order, remote, together>>

RecordPushed(c) ==
    /\ cmd[c].at = "pushed"
    /\ Writes(c, [run[cmd[c].on] EXCEPT !.pushed = TRUE])
    /\ Goes(c, "tidy")
    /\ UNCHANGED <<repo, order, note, remote, together>>

\* removeWorktree
Tidy(c) ==
    /\ cmd[c].at = "tidy"
    /\ IF wt = cmd[c].on /\ ~cmd[c].main
       THEN wt' = NoRun /\ dirty' = FALSE ELSE UNCHANGED <<wt, dirty>>
    /\ Goes(c, "gone")
    /\ UNCHANGED <<made, head, remote, files, together>>

-----------------------------------------------------------------------------
(* A person's other two commands on a run: Steer and Drop.                  *)

\* Both ask the run's record and its worktree, once, before they begin.
Settled(r) == run[r].status \in {"completed", "failed"}

\* A slip: whether the branch left the machine is not asked.
EditableAnyway(r) == Settled(r) /\ wt = r

Editable(r) == Settled(r) /\ ~run[r].pushed /\ wt = r

BeginSteer(c, r) ==
    /\ Given(c) /\ Editable(r) /\ ~run[r].eval
    /\ run[r].commit # 0 => head = run[r].commit
    /\ cmd' = [cmd EXCEPT ![c] = [Idle EXCEPT !.at = "open", !.does = "steer", !.on = r, !.kept = run[r]]]
    /\ UNCHANGED <<repo, remote, files>>

\* A slip: the steered run gets a status of its own.
OpenSteered(c) ==
    /\ cmd[c].at = "open"
    /\ Writes(c, [cmd[c].kept EXCEPT !.status = "steered"])
    /\ Goes(c, "session")
    /\ UNCHANGED <<repo, remote, order, note, together>>

Open(c) ==
    /\ cmd[c].at = "open"
    /\ Writes(c, [cmd[c].kept EXCEPT !.status = "running"])
    /\ Goes(c, "session")
    /\ UNCHANGED <<repo, remote, order, note, together>>

\* The hunk is one of the change the branch has.
BeginDrop(c, r) ==
    /\ Given(c) /\ Editable(r) /\ head # Base
    /\ cmd' = [cmd EXCEPT ![c] = [Idle EXCEPT !.at = "amend", !.does = "drop", !.on = r, !.sees = head]]
    /\ UNCHANGED <<repo, remote, files>>

\* The etag: the change is still the one that was read.
DropAmend(c) ==
    /\ cmd[c].at = "amend" /\ head = cmd[c].sees
    /\ Makes(c, made[head].dev, made[head].past)
    /\ UNCHANGED <<wt, dirty, remote, files, together>>

\* A command ends: an error it returns, or its process dies.
Ends(c) ==
    /\ c \in Running
    /\ Goes(c, "gone")
    /\ UNCHANGED <<repo, remote, files, together>>

-----------------------------------------------------------------------------

Init ==
    /\ note = "triaged"
    /\ made = <<[dev |-> FALSE, past |-> {}]>>
    /\ head = 0 /\ remote = 0
    /\ wt = NoRun /\ dirty = FALSE
    /\ run = [c \in Cmds |-> NoState] /\ order = <<>>
    /\ cmd = [c \in Cmds |-> Idle]
    /\ together = FALSE

Begins(c) ==
    \/ \E flags \in FlagSets, read \in BOOLEAN : Begin(c, flags, read)
    \/ \E r \in Cmds : BeginSteer(c, r) \/ BeginDrop(c, r)

Works(c) ==
    \/ \E end \in {"completed", "failed"}, dev, edits \in BOOLEAN : Session(c, end, dev, edits)
    \/ Release(c) \/ Add(c) \/ Prepare(c) \/ DryEnds(c)
    \/ Open(c) \/ MarkFailed(c) \/ Commit(c) \/ Unchanged(c) \/ DropAmend(c) \/ Record(c)
    \/ Push(c) \/ UpdateNotes(c) \/ RecordPushed(c) \/ Tidy(c)

Next == \E c \in Cmds : Begins(c) \/ Works(c) \/ Ends(c)

Spec == Init /\ [][Next]_vars

-----------------------------------------------------------------------------

Places == {"new", "gone", "release", "add", "prepare", "dry", "tidy", "session", "commit",
           "record", "push", "notes", "pushed", "open", "amend"}

RunState ==
    [status : {"none", "running", "completed", "failed"}, commit : Nat, pushed : BOOLEAN, eval : BOOLEAN]

CmdState ==
    [at : Places, does : {"fix", "steer", "drop"}, flags : SUBSET {"accept", "dry", "local", "eval"},
     on : Cmds \cup {NoRun}, kept : RunState, dev : BOOLEAN, sees : Nat, main : BOOLEAN,
     blind : BOOLEAN]

\* The state has its shape.
TypeOK ==
    /\ note \in {"triaged", "fix-pushed"}
    /\ made \in Seq([dev : BOOLEAN, past : SUBSET Nat]) /\ made # <<>>
    /\ head \in 0 .. Len(made) /\ remote \in 0 .. Len(made)
    /\ wt \in Cmds \cup {NoRun} /\ dirty \in BOOLEAN
    /\ run \in [Cmds -> RunState] /\ order \in Seq(Cmds)
    /\ cmd \in [Cmds -> CmdState]
    /\ together \in BOOLEAN

\* What reaches the remote was on the record of a run that is not an
\* evaluation, so a person could read it, and if its session deviated from the
\* note the command that pushed it was told to accept that -- with commands
\* dying anywhere, while none overlap: the push goes by the branch's name, and
\* reviewedCommit must have seen that the name still means that commit.
PushedWasOnRecord ==
    [][remote' # remote /\ ~together =>
         \E c \in Running :
            LET r == run[cmd[c].on] IN
            /\ cmd[c].at = "push" /\ r.commit = remote' /\ ~r.eval
            /\ made[remote'].dev => Has(c, "accept")]_vars

\* A note that says fix-pushed, or a run that says Pushed, says what origin has
\* (publish writes both after the push), and goes on saying it: no drop or
\* steer moves the commit of a run recorded as pushed.
SaysPushedTruly ==
    /\ note = "fix-pushed" => remote # 0
    /\ ~together => \A r \in Cmds : run[r].pushed => remote = run[r].commit

\* Accepting throws no reviewed commit away: a fix told to accept, which could
\* read the runs and the report, resets the branch only when no completed run of
\* the ticket has the branch's commit on record ("Cutting the branch again from
\* origin would orphan that commit", fix.go's Run). A run whose last steer failed
\* is not completed, and its commit is not covered.
AcceptKeepsTheCommit ==
    [][~together /\ head # Base /\ head' = Base =>
         \A c \in Running :
            cmd[c].at = "add" /\ Reviews(cmd[c].flags) /\ ~cmd[c].blind =>
              ~\E r \in Cmds :
                  run[r].status = "completed" /\ ~run[r].eval /\ run[r].commit = head]_vars

\* "Sirdar does not rewrite a branch that has left the machine" (Drop): the
\* commit origin has is not amended here.
PushedStands ==
    [][remote # 0 /\ head = remote /\ head' # head => head' = Base]_vars
=============================================================================
