--------------------------- MODULE FixLifeProofs ---------------------------
(***************************************************************************)
(* What holds of a ticket's fix branch for every number of commands, of    *)
(* runs and of commits: proofs of FixLife's properties.                    *)
(***************************************************************************)
EXTENDS FixLife, TLAPS

USE DEF vars, repo, files, Base

-----------------------------------------------------------------------------
(* Types.                                                                   *)

\* A command moved on keeps what it remembers, and the others are left alone.
LEMMA Moves ==
  ASSUME TypeOK, NEW c \in Cmds, NEW to \in Places, Goes(c, to)
  PROVE  /\ cmd' \in [Cmds -> CmdState] /\ cmd'[c].at = to
         /\ \A d \in Cmds \ {c} : cmd'[d] = cmd[d]
         /\ to = "gone" => cmd'[c] = Over
         /\ to # "gone" => /\ cmd'[c].does = cmd[c].does /\ cmd'[c].flags = cmd[c].flags
                           /\ cmd'[c].on = cmd[c].on /\ cmd'[c].kept = cmd[c].kept
                           /\ cmd'[c].dev = cmd[c].dev /\ cmd'[c].sees = cmd[c].sees
                           /\ cmd'[c].main = cmd[c].main /\ cmd'[c].blind = cmd[c].blind
<1>1. cmd \in [Cmds -> CmdState]
  BY DEF TypeOK
<1>2. CASE to = "gone"
  <2>1. cmd' = [cmd EXCEPT ![c] = Over]
    BY <1>2 DEF Goes
  <2>2. Over \in CmdState /\ Over.at = "gone"
    BY DEF Over, Idle, NoState, CmdState, RunState, Places
  <2> QED
    BY <1>1, <1>2, <2>1, <2>2
<1>3. CASE to # "gone"
  <2>1. cmd' = [cmd EXCEPT ![c] = [cmd[c] EXCEPT !.at = to]]
    BY <1>3 DEF Goes
  <2> QED
    BY <1>1, <1>3, <2>1 DEF CmdState
<1> QED
  BY <1>2, <1>3

\* A state written over a run's leaves the other runs alone.
LEMMA WritesOne ==
  ASSUME TypeOK, NEW c \in Cmds, NEW new, cmd[c].on \in Cmds => new \in RunState, Writes(c, new)
  PROVE  /\ run' \in [Cmds -> RunState]
         /\ \A r \in Cmds : run'[r] = IF r = cmd[c].on THEN new ELSE run[r]
BY DEF TypeOK, Writes

\* A commit made is the newest, and the earlier ones stay.
LEMMA MakesOne ==
  ASSUME TypeOK, NEW c \in Cmds, NEW dev \in BOOLEAN, NEW past \in SUBSET Nat, Makes(c, dev, past)
  PROVE  /\ made' \in Seq([dev : BOOLEAN, past : SUBSET Nat]) /\ made' # <<>>
         /\ Len(made') = Len(made) + 1 /\ head' = Len(made) + 1
         /\ made'[head'].dev = dev /\ made'[head'].past = past
         /\ \A k \in 1 .. Len(made) : made'[k] = made[k]
         /\ cmd' \in [Cmds -> CmdState]
         /\ \A d \in Cmds \ {c} : cmd'[d] = cmd[d]
         /\ cmd'[c].at = "record" /\ cmd'[c].sees = head' /\ cmd'[c].does = cmd[c].does
         /\ cmd'[c].flags = cmd[c].flags /\ cmd'[c].on = cmd[c].on /\ cmd'[c].dev = cmd[c].dev
<1> DEFINE new == [dev |-> dev, past |-> past]
<1>1. made \in Seq([dev : BOOLEAN, past : SUBSET Nat]) /\ Len(made) \in Nat
  BY DEF TypeOK
<1>2. new \in [dev : BOOLEAN, past : SUBSET Nat] /\ new.dev = dev /\ new.past = past
  OBVIOUS
<1>3. made' = Append(made, new)
  BY DEF Makes
<1> HIDE DEF new
<1>4. /\ made' \in Seq([dev : BOOLEAN, past : SUBSET Nat]) /\ Len(made') = Len(made) + 1
      /\ made'[Len(made) + 1] = new /\ \A k \in 1 .. Len(made) : made'[k] = made[k]
  BY <1>1, <1>2, <1>3
<1>5. head' = Len(made) + 1 /\ made' # <<>>
  BY <1>1, <1>4 DEF Makes
<1>6. cmd' = [cmd EXCEPT ![c] = [cmd[c] EXCEPT !.at = "record", !.sees = head']] /\ cmd \in [Cmds -> CmdState]
  BY <1>1, <1>3, <1>4, <1>5 DEF Makes, TypeOK
<1>7. [cmd[c] EXCEPT !.at = "record", !.sees = head'] \in CmdState
  <2>1. head' \in Nat /\ cmd[c] \in CmdState
    BY <1>1, <1>5, <1>6
  <2> QED
    BY <2>1 DEF CmdState, Places
<1>8. made'[head'].dev = dev /\ made'[head'].past = past
  BY <1>2, <1>4, <1>5
<1>9. /\ cmd' \in [Cmds -> CmdState] /\ \A d \in Cmds \ {c} : cmd'[d] = cmd[d]
      /\ cmd'[c] = [cmd[c] EXCEPT !.at = "record", !.sees = head']
  BY <1>6, <1>7
<1>10. /\ cmd'[c].at = "record" /\ cmd'[c].sees = head' /\ cmd'[c].does = cmd[c].does
       /\ cmd'[c].flags = cmd[c].flags /\ cmd'[c].on = cmd[c].on /\ cmd'[c].dev = cmd[c].dev
  <2>1. cmd[c] \in CmdState
    BY <1>6
  <2> QED
    BY <1>9, <2>1 DEF CmdState
<1> QED
  BY <1>4, <1>5, <1>8, <1>9, <1>10

\* The prior run is one of the ticket's.
LEMMA PriorType ==
  ASSUME TypeOK, Prior # NoRun
  PROVE  Prior \in Cmds /\ Counts(Prior)
<1> DEFINE k == CHOOSE k \in DOMAIN order : Newest(k)
<1>1. \E i \in DOMAIN order : Newest(i)
  BY DEF Prior
<1>2. k \in DOMAIN order /\ Newest(k)
  BY <1>1
<1>3. Prior = order[k]
  BY <1>1 DEF Prior
<1> QED
  BY <1>2, <1>3 DEF TypeOK, Newest

\* The branch is there while a worktree holds it, a run is on record or a
\* command is past cutting it, and says nothing of origin that is not so.
Cut ==
  /\ wt # NoRun => head # 0
  /\ \A c \in Cmds : cmd[c].at \notin {"new", "gone", "release", "add"} => head # 0
  /\ \A r \in Cmds : run[r].status # "none" => head # 0
  /\ \A c \in Cmds : cmd[c].at \in {"notes", "pushed"} => remote # 0
  /\ note = "fix-pushed" => remote # 0
  /\ remote # 0 => head # 0

\* A fix that begins names a state it can be in.
LEMMA BeginType ==
  ASSUME TypeOK, FixAssumption, NEW c \in Cmds, NEW flags \in FlagSets, NEW read \in BOOLEAN,
         Begin(c, flags, read)
  PROVE  /\ cmd' \in [Cmds -> CmdState] /\ cmd'[c].at \in {"release", "gone", "push"}
         /\ \A d \in Cmds \ {c} : cmd'[d] = cmd[d]
         /\ wt' \in {wt, NoRun} /\ dirty' \in BOOLEAN
         /\ cmd'[c].at # "gone" => cmd'[c].does = "fix" /\ cmd'[c].flags = flags
         /\ cmd'[c].at = "release" => /\ cmd'[c].on = c
                                      /\ Reviews(flags) /\ Left(Prior) => cmd'[c].blind
         /\ cmd'[c].at = "push" => /\ cmd'[c].on = Prior /\ Reviews(flags)
                                   /\ Left(Prior) /\ ~Moved(Prior)
<1> DEFINE found == Reviews(flags) /\ Left(Prior)
           to == IF ~found \/ ~read THEN "release"
                 ELSE IF Moved(Prior) \/ "local" \in flags THEN "gone" ELSE "push"
           this == IF to = "gone" THEN Over
                   ELSE [Idle EXCEPT !.at = to, !.flags = flags,
                         !.on = IF to = "push" THEN Prior ELSE c,
                         !.main = (to = "push" /\ wt' # Prior),
                         !.blind = (found /\ ~read)]
<1>1. cmd' = [cmd EXCEPT ![c] = this] /\ cmd \in [Cmds -> CmdState]
  BY DEF Begin, TypeOK
<1>2. wt' \in {wt, NoRun} /\ dirty' \in BOOLEAN
  BY DEF Begin, TypeOK
<1>3. to = "push" => Prior \in Cmds
  BY PriorType DEF Left
<1>4. flags \in SUBSET {"accept", "dry", "local", "eval"}
  BY DEF FixAssumption
<1>5. CASE to = "gone"
  <2>1. this = Over /\ Over \in CmdState /\ Over.at = "gone"
    BY <1>5 DEF Over, Idle, NoState, CmdState, RunState, Places
  <2> HIDE DEF this, to
  <2> QED
    BY <1>1, <1>2, <2>1
<1>6. CASE to # "gone"
  <2>1. to \in {"release", "push"}
    BY <1>6
  <2>2. (to = "push" /\ wt' # Prior) \in BOOLEAN
    OBVIOUS
  <2>3. /\ this \in CmdState /\ this.at = to /\ this.does = "fix" /\ this.flags = flags
        /\ this.blind = (found /\ ~read)
        /\ this.on = IF to = "push" THEN Prior ELSE c
    <3>1. this = [Idle EXCEPT !.at = to, !.flags = flags, !.on = IF to = "push" THEN Prior ELSE c,
                  !.main = (to = "push" /\ wt' # Prior), !.blind = (found /\ ~read)]
      BY <1>6
    <3> HIDE DEF this, to
    <3> QED
      BY <1>3, <1>4, <2>1, <2>2, <3>1 DEF Idle, NoState, CmdState, RunState, Places
  <2>4. to = "release" => (Reviews(flags) /\ Left(Prior) => found /\ ~read)
    OBVIOUS
  <2>5. to = "push" => Reviews(flags) /\ Left(Prior) /\ ~Moved(Prior)
    OBVIOUS
  <2> HIDE DEF this, to
  <2> QED
    BY <1>1, <1>2, <2>1, <2>3, <2>4, <2>5
<1> QED
  BY <1>5, <1>6

\* The part of the state that names commits is well formed.
CommitTypes ==
  /\ made \in Seq([dev : BOOLEAN, past : SUBSET Nat]) /\ made # <<>>
  /\ head \in 0 .. Len(made) /\ remote \in 0 .. Len(made)

\* The rest is too.
OtherTypes ==
  /\ note \in {"triaged", "fix-pushed"}
  /\ wt \in Cmds \cup {NoRun} /\ dirty \in BOOLEAN
  /\ run \in [Cmds -> RunState] /\ order \in Seq(Cmds)
  /\ cmd \in [Cmds -> CmdState] /\ together \in BOOLEAN

\* The two parts are all of it.
LEMMA TypeParts == TypeOK <=> CommitTypes /\ OtherTypes
BY DEF TypeOK, CommitTypes, OtherTypes

\* Two commands at one time: the flag only rises.
LEMMA GivenType ==
  ASSUME TypeOK, NEW c \in Cmds, Given(c)
  PROVE  together' \in BOOLEAN /\ cmd[c].at = "new" /\ (together' <=> together \/ Running # {})
BY DEF Given, TypeOK

\* A commit made where the branch is there leaves all it names well formed.
LEMMA MakesType ==
  ASSUME TypeOK, NEW c \in Cmds, NEW dev \in BOOLEAN, NEW past \in SUBSET Nat, Makes(c, dev, past),
         UNCHANGED remote
  PROVE  CommitTypes' /\ cmd' \in [Cmds -> CmdState]
<1>1. remote' \in 0 .. Len(made) /\ Len(made) \in Nat
  BY DEF TypeOK
<1>2. /\ made' \in Seq([dev : BOOLEAN, past : SUBSET Nat]) /\ made' # <<>>
      /\ Len(made') = Len(made) + 1 /\ head' = Len(made) + 1 /\ cmd' \in [Cmds -> CmdState]
  BY MakesOne
<1>3. head' \in 0 .. Len(made') /\ remote' \in 0 .. Len(made')
  BY <1>1, <1>2
<1> QED
  BY <1>2, <1>3 DEF CommitTypes

\* A steer's and a drop's beginning.
LEMMA EditType ==
  ASSUME TypeOK, NEW c \in Cmds, NEW r \in Cmds, BeginSteer(c, r) \/ BeginDrop(c, r)
  PROVE  /\ cmd' \in [Cmds -> CmdState] /\ \A d \in Cmds \ {c} : cmd'[d] = cmd[d]
         /\ cmd'[c].at \in {"open", "amend"} /\ cmd'[c].on = r /\ cmd'[c].flags = {}
         /\ cmd'[c].at = "open" => BeginSteer(c, r) /\ cmd'[c].does = "steer" /\ cmd'[c].kept = run[r]
         /\ cmd'[c].at = "amend" => BeginDrop(c, r) /\ cmd'[c].does = "drop" /\ cmd'[c].sees = head
<1>1. cmd \in [Cmds -> CmdState] /\ run[r] \in RunState /\ head \in Nat
  BY DEF TypeOK
<1>2. CASE BeginSteer(c, r)
  <2> DEFINE this == [Idle EXCEPT !.at = "open", !.does = "steer", !.on = r, !.kept = run[r]]
  <2>1. cmd' = [cmd EXCEPT ![c] = this]
    BY <1>2 DEF BeginSteer
  <2>2. this \in CmdState /\ this.at = "open" /\ this.does = "steer" /\ this.on = r /\ this.kept = run[r] /\ this.flags = {}
    BY <1>1 DEF Idle, NoState, CmdState, RunState, Places
  <2> HIDE DEF this
  <2> QED
    BY <1>1, <1>2, <2>1, <2>2
<1>3. CASE BeginDrop(c, r)
  <2> DEFINE this == [Idle EXCEPT !.at = "amend", !.does = "drop", !.on = r, !.sees = head]
  <2>1. cmd' = [cmd EXCEPT ![c] = this]
    BY <1>3 DEF BeginDrop
  <2>2. this \in CmdState /\ this.at = "amend" /\ this.does = "drop" /\ this.on = r /\ this.sees = head /\ this.flags = {}
    BY <1>1 DEF Idle, NoState, CmdState, RunState, Places
  <2> HIDE DEF this
  <2> QED
    BY <1>1, <1>3, <2>1, <2>2
<1> QED
  BY <1>2, <1>3

\* A run prepared is the ticket's newest.
LEMMA PrepareType ==
  ASSUME TypeOK, NEW c \in Cmds, Prepare(c)
  PROVE  LET new == [NoState EXCEPT !.status = "running", !.eval = Has(c, "eval")] IN
         /\ cmd' \in [Cmds -> CmdState] /\ \A d \in Cmds \ {c} : cmd'[d] = cmd[d]
         /\ cmd'[c].at = IF Has(c, "dry") THEN "dry" ELSE "session"
         /\ cmd'[c] = [cmd[c] EXCEPT !.at = cmd'[c].at, !.kept = new, !.blind = FALSE]
         /\ new \in RunState /\ run' \in [Cmds -> RunState]
         /\ \A r \in Cmds : run'[r] = IF r = c THEN new ELSE run[r]
         /\ order' \in Seq(Cmds) /\ order' # <<>> /\ order'[Len(order')] = c
<1> DEFINE new == [NoState EXCEPT !.status = "running", !.eval = Has(c, "eval")]
           to == IF Has(c, "dry") THEN "dry" ELSE "session"
<1>1. cmd \in [Cmds -> CmdState] /\ run \in [Cmds -> RunState] /\ order \in Seq(Cmds)
  BY DEF TypeOK
<1>2. new \in RunState
  <2>1. Has(c, "eval") \in BOOLEAN
    BY DEF Has
  <2> QED
    BY <2>1 DEF NoState, RunState
<1>3. /\ run' = [run EXCEPT ![c] = new] /\ order' = Append(order, c)
      /\ cmd' = [cmd EXCEPT ![c] = [cmd[c] EXCEPT !.at = to, !.kept = new, !.blind = FALSE]]
  BY <1>1 DEF Prepare
<1>4. to \in Places
  BY DEF Places
<1> HIDE DEF new, to
<1>5. /\ [cmd[c] EXCEPT !.at = to, !.kept = new, !.blind = FALSE] \in CmdState
      /\ [cmd[c] EXCEPT !.at = to, !.kept = new, !.blind = FALSE].at = to
  BY <1>1, <1>2, <1>4 DEF CmdState
<1>6. cmd'[c] = [cmd[c] EXCEPT !.at = to, !.kept = new, !.blind = FALSE]
  BY <1>1, <1>3
<1>7. order' \in Seq(Cmds) /\ order' # <<>> /\ order'[Len(order')] = c
  BY <1>1, <1>3
<1>8. cmd'[c].at = to
  BY <1>5, <1>6
<1>9. /\ cmd' \in [Cmds -> CmdState] /\ \A d \in Cmds \ {c} : cmd'[d] = cmd[d]
      /\ run' \in [Cmds -> RunState] /\ \A r \in Cmds : run'[r] = IF r = c THEN new ELSE run[r]
  BY <1>1, <1>2, <1>3, <1>5
<1>10. cmd'[c] = [cmd[c] EXCEPT !.at = cmd'[c].at, !.kept = new, !.blind = FALSE]
  BY <1>6, <1>8
<1>11. cmd'[c].at = IF Has(c, "dry") THEN "dry" ELSE "session"
  BY <1>8 DEF to
<1> QED
  BY <1>2, <1>7, <1>9, <1>10, <1>11 DEF new

\* A fix goes on with the flags it was given.
LEMMA PrepareFlags ==
  ASSUME TypeOK, NEW c \in Cmds, Prepare(c)
  PROVE  cmd'[c].flags = cmd[c].flags /\ \A d \in Cmds \ {c} : cmd'[d] = cmd[d]
<1> DEFINE new == [NoState EXCEPT !.status = "running", !.eval = Has(c, "eval")]
           to == IF Has(c, "dry") THEN "dry" ELSE "session"
<1>1. /\ cmd' = [cmd EXCEPT ![c] = [cmd[c] EXCEPT !.at = to, !.kept = new, !.blind = FALSE]]
      /\ cmd \in [Cmds -> CmdState]
  BY DEF Prepare, TypeOK
<1> HIDE DEF new, to
<1>2. cmd[c] \in CmdState
  BY <1>1
<1>3. [cmd[c] EXCEPT !.at = to, !.kept = new, !.blind = FALSE].flags = cmd[c].flags
  BY <1>2 DEF CmdState
<1> QED
  BY <1>1, <1>3

\* What a run's state is with another status.
Settle(state, end) == [state EXCEPT !.status = end]

\* All but the status stays.
LEMMA SettleType ==
  ASSUME NEW s \in RunState, NEW end \in {"none", "running", "completed", "failed"}
  PROVE  /\ Settle(s, end) \in RunState /\ Settle(s, end).status = end /\ Settle(s, end).commit = s.commit
         /\ Settle(s, end).pushed = s.pushed /\ Settle(s, end).eval = s.eval
BY DEF Settle, RunState

\* A session's end: its run's state is the one it kept, with the end it came to.
LEMMA SessionType ==
  ASSUME TypeOK, NEW c \in Cmds, NEW end \in {"completed", "failed"}, NEW dev \in BOOLEAN,
         NEW edits \in BOOLEAN, Session(c, end, dev, edits)
  PROVE  /\ cmd' \in [Cmds -> CmdState] /\ \A d \in Cmds \ {c} : cmd'[d] = cmd[d]
         /\ cmd'[c].at \in {"gone", "commit"}
         /\ cmd'[c].at = "gone" => cmd'[c] = Over
         /\ cmd'[c].at = "commit" => /\ cmd'[c].does = cmd[c].does /\ cmd'[c].flags = cmd[c].flags
                                     /\ cmd'[c].on = cmd[c].on /\ cmd'[c].kept = cmd[c].kept
                                     /\ cmd'[c].dev = dev
         /\ run' \in [Cmds -> RunState]
         /\ \A r \in Cmds : run'[r] = IF r = cmd[c].on THEN Settle(cmd[c].kept, end) ELSE run[r]
         /\ dirty' \in BOOLEAN
<1>1. cmd \in [Cmds -> CmdState]
  BY DEF TypeOK
<1>2. cmd[c].kept \in RunState
  BY <1>1 DEF CmdState
<1>3. Settle(cmd[c].kept, end) \in RunState
  BY <1>2, SettleType
<1>4. run' \in [Cmds -> RunState]
      /\ \A r \in Cmds : run'[r] = IF r = cmd[c].on THEN Settle(cmd[c].kept, end) ELSE run[r]
  <2>1. Writes(c, Settle(cmd[c].kept, end))
    BY DEF Session, Settle
  <2> QED
    BY <1>3, <2>1, WritesOne
<1>5. dirty' \in BOOLEAN
  BY DEF Session, TypeOK
<1>6. CASE end = "completed"
  <2>1. cmd' = [cmd EXCEPT ![c] = [cmd[c] EXCEPT !.at = "commit", !.dev = dev]]
    BY <1>6 DEF Session
  <2>2. [cmd[c] EXCEPT !.at = "commit", !.dev = dev] \in CmdState
    <3>1. \A m \in CmdState : [m EXCEPT !.at = "commit", !.dev = dev] \in CmdState
      BY DEF CmdState, Places
    <3>2. cmd[c] \in CmdState
      BY <1>1
    <3> QED
      BY <3>1, <3>2
  <2>3. /\ cmd' \in [Cmds -> CmdState] /\ \A d \in Cmds \ {c} : cmd'[d] = cmd[d]
        /\ cmd'[c] = [cmd[c] EXCEPT !.at = "commit", !.dev = dev]
    BY <1>1, <2>1, <2>2
  <2>4. /\ cmd'[c].at = "commit" /\ cmd'[c].does = cmd[c].does /\ cmd'[c].flags = cmd[c].flags
        /\ cmd'[c].on = cmd[c].on /\ cmd'[c].kept = cmd[c].kept /\ cmd'[c].dev = dev
    BY <1>1, <2>3 DEF CmdState
  <2> QED
    BY <1>4, <1>5, <2>3, <2>4
<1>7. CASE end = "failed"
  <2>1. cmd' = [cmd EXCEPT ![c] = Over]
    BY <1>7 DEF Session
  <2>2. Over \in CmdState /\ Over.at = "gone"
    BY DEF Over, Idle, NoState, CmdState, RunState, Places
  <2> QED
    BY <1>1, <1>4, <1>5, <2>1, <2>2
<1> QED
  BY <1>6, <1>7

\* What a commit is made with, where the branch is there.
LEMMA PastType ==
  ASSUME TypeOK, head # 0
  PROVE  made[head].past \in SUBSET Nat /\ made[head].dev \in BOOLEAN /\ Line(head) \in SUBSET Nat
<1> DEFINE S == [dev : BOOLEAN, past : SUBSET Nat]
<1>1. head \in 1 .. Len(made) /\ made \in Seq(S) /\ head \in Nat
  BY DEF TypeOK
<1>2. made[head] \in S
  <2> HIDE DEF S
  <2> QED
    BY <1>1
<1>3. made[head].past \in SUBSET Nat /\ made[head].dev \in BOOLEAN
  BY <1>2
<1> QED
  BY <1>1, <1>3 DEF Line

\* The types of each command's steps.
LEMMA TypeStep ==
  ASSUME TypeOK, FixAssumption, Cut, [Next]_vars
  PROVE  TypeOK'
<1>0. CommitTypes /\ OtherTypes /\ Len(made) \in Nat
  BY TypeParts DEF TypeOK
<1>1. CASE UNCHANGED vars
  BY <1>1 DEF TypeOK
<1>2. ASSUME NEW c \in Cmds, NEW flags \in FlagSets, NEW read \in BOOLEAN,
             Begin(c, flags, read) PROVE TypeOK'
  <2>1. UNCHANGED <<made, head, remote, files>> /\ Given(c)
    BY <1>2 DEF Begin
  <2> QED
    BY <1>0, <1>2, <2>1, BeginType, GivenType DEF CommitTypes, OtherTypes, TypeOK
<1>3. ASSUME NEW c \in Cmds, NEW r \in Cmds, BeginSteer(c, r) \/ BeginDrop(c, r) PROVE TypeOK'
  <2>1. UNCHANGED <<repo, remote, files>> /\ Given(c)
    BY <1>3 DEF BeginSteer, BeginDrop
  <2> QED
    BY <1>0, <1>3, <2>1, EditType, GivenType DEF CommitTypes, OtherTypes, TypeOK
<1>4. ASSUME NEW c \in Cmds, NEW end \in {"completed", "failed"}, NEW dev \in BOOLEAN,
             NEW edits \in BOOLEAN, Session(c, end, dev, edits)
      PROVE  TypeOK'
  <2>1. UNCHANGED <<made, head, wt, remote, order, note, together>>
    BY <1>4 DEF Session
  <2>2. cmd' \in [Cmds -> CmdState] /\ run' \in [Cmds -> RunState] /\ dirty' \in BOOLEAN
    BY <1>4, SessionType
  <2> QED
    BY <1>0, <2>1, <2>2 DEF CommitTypes, OtherTypes, TypeOK
<1>5. ASSUME NEW c \in Cmds, Release(c) \/ Tidy(c) PROVE TypeOK'
  <2>1. /\ UNCHANGED <<made, head, remote, files, together>> /\ wt' \in {wt, NoRun}
        /\ dirty' \in {dirty, FALSE} /\ \E to \in {"add", "gone"} : Goes(c, to)
    <3>1. CASE Release(c)
      BY <3>1 DEF Release
    <3>2. CASE Tidy(c)
      BY <3>2 DEF Tidy
    <3> QED
      BY <1>5, <3>1, <3>2
  <2>2. cmd' \in [Cmds -> CmdState]
    BY <2>1, Moves DEF Places
  <2> QED
    BY <1>0, <2>1, <2>2 DEF CommitTypes, OtherTypes, TypeOK
<1>6. ASSUME NEW c \in Cmds, Add(c) PROVE TypeOK'
  <2>1. UNCHANGED <<made, dirty, remote, files, together>> /\ wt' = c /\ head' = 1 /\ Goes(c, "prepare")
    BY <1>6 DEF Add
  <2>2. cmd' \in [Cmds -> CmdState]
    BY <2>1, Moves DEF Places
  <2>3. head' \in 0 .. Len(made')
    BY <1>0, <2>1 DEF CommitTypes
  <2> QED
    BY <1>0, <2>1, <2>2, <2>3 DEF CommitTypes, OtherTypes, TypeOK
<1>7. ASSUME NEW c \in Cmds, Prepare(c) PROVE TypeOK'
  <2>1. UNCHANGED <<repo, remote, note, together>>
    BY <1>7 DEF Prepare
  <2> QED
    BY <1>0, <1>7, <2>1, PrepareType DEF CommitTypes, OtherTypes, TypeOK
<1>8. ASSUME NEW c \in Cmds, DryEnds(c) \/ Open(c) \/ MarkFailed(c) \/ Record(c) \/ RecordPushed(c) PROVE TypeOK'
  <2>1. /\ UNCHANGED <<repo, remote, order, note, together>>
        /\ \E to \in {"tidy", "session", "gone", "push"} : Goes(c, to)
    BY <1>8 DEF DryEnds, Open, MarkFailed, Record, RecordPushed
  <2>2. cmd' \in [Cmds -> CmdState]
    BY <2>1, Moves DEF Places
  <2>3. /\ cmd[c].kept \in RunState /\ cmd[c].sees \in Nat
        /\ cmd[c].on \in Cmds => run[cmd[c].on] \in RunState
    BY <1>0 DEF OtherTypes, CmdState
  <2>4. run' \in [Cmds -> RunState]
    <3>1. CASE DryEnds(c)
      <4>1. [cmd[c].kept EXCEPT !.status = "completed"] \in RunState
        BY <2>3 DEF RunState
      <4> QED
        BY <3>1, <4>1, WritesOne DEF DryEnds
    <3>2. CASE Open(c)
      <4>1. [cmd[c].kept EXCEPT !.status = "running"] \in RunState
        BY <2>3 DEF RunState
      <4> QED
        BY <3>2, <4>1, WritesOne DEF Open
    <3>3. CASE MarkFailed(c)
      <4>1. cmd[c].on \in Cmds => [run[cmd[c].on] EXCEPT !.status = "failed"] \in RunState
        BY <2>3 DEF RunState
      <4> QED
        BY <3>3, <4>1, WritesOne DEF MarkFailed
    <3>4. CASE Record(c)
      <4>1. cmd[c].on \in Cmds => [run[cmd[c].on] EXCEPT !.commit = cmd[c].sees] \in RunState
        BY <2>3 DEF RunState
      <4> QED
        BY <3>4, <4>1, WritesOne DEF Record
    <3>5. CASE RecordPushed(c)
      <4>1. cmd[c].on \in Cmds => [run[cmd[c].on] EXCEPT !.pushed = TRUE] \in RunState
        BY <2>3 DEF RunState
      <4> QED
        BY <3>5, <4>1, WritesOne DEF RecordPushed
    <3> QED
      BY <1>8, <3>1, <3>2, <3>3, <3>4, <3>5
  <2> QED
    BY <1>0, <2>1, <2>2, <2>4 DEF CommitTypes, OtherTypes, TypeOK
<1>9. ASSUME NEW c \in Cmds, Commit(c) \/ DropAmend(c) PROVE TypeOK'
  <2>1. head # 0
    BY <1>9 DEF Cut, Commit, DropAmend
  <2>2. PICK dev \in BOOLEAN, past \in SUBSET Nat : Makes(c, dev, past)
    <3>1. cmd[c].dev \in BOOLEAN
      BY <1>0 DEF OtherTypes, CmdState
    <3> QED
      BY <1>9, <2>1, <3>1, PastType DEF Commit, DropAmend
  <2>3. UNCHANGED <<wt, remote, files, together>> /\ dirty' \in {dirty, FALSE}
    BY <1>9 DEF Commit, DropAmend
  <2>4. CommitTypes' /\ cmd' \in [Cmds -> CmdState]
    BY <2>2, <2>3, MakesType
  <2> QED
    BY <1>0, <2>3, <2>4 DEF CommitTypes, OtherTypes, TypeOK
<1>10. ASSUME NEW c \in Cmds, Unchanged(c) \/ Ends(c) PROVE TypeOK'
  <2>1. UNCHANGED <<repo, remote, files, together>> /\ Goes(c, "gone")
    BY <1>10 DEF Unchanged, Ends
  <2>2. cmd' \in [Cmds -> CmdState]
    BY <2>1, Moves DEF Places
  <2> QED
    BY <1>0, <2>1, <2>2 DEF CommitTypes, OtherTypes, TypeOK
<1>11. ASSUME NEW c \in Cmds, Push(c) \/ UpdateNotes(c) PROVE TypeOK'
  <2>1. /\ UNCHANGED <<made, head, wt, dirty, run, order, together>> /\ note' \in {note, "fix-pushed"}
        /\ remote' \in {remote, head} /\ \E to \in {"notes", "pushed"} : Goes(c, to)
    BY <1>11 DEF Push, UpdateNotes
  <2>2. cmd' \in [Cmds -> CmdState]
    BY <2>1, Moves DEF Places
  <2> QED
    BY <1>0, <2>1, <2>2 DEF CommitTypes, OtherTypes, TypeOK
<1>12. ASSUME NEW c \in Cmds, Begins(c) PROVE TypeOK'
  BY <1>2, <1>3, <1>12 DEF Begins
<1>13. ASSUME NEW c \in Cmds, Works(c) PROVE TypeOK'
  BY <1>4, <1>5, <1>6, <1>7, <1>8, <1>9, <1>10, <1>11, <1>13 DEF Works
<1> QED
  BY <1>1, <1>10, <1>12, <1>13 DEF Next

\* The branch is never taken away, and no step needs it sooner than it is cut.
LEMMA CutStep ==
  ASSUME TypeOK, FixAssumption, Cut, [Next]_vars
  PROVE  Cut'
<1>0. /\ cmd \in [Cmds -> CmdState] /\ run \in [Cmds -> RunState] /\ Len(made) \in Nat
      /\ head \in Nat /\ remote \in Nat /\ NoRun \notin Cmds
  BY DEF TypeOK, FixAssumption
<1>1. CASE UNCHANGED vars
  BY <1>1 DEF Cut
<1>2. ASSUME NEW c \in Cmds, NEW flags \in FlagSets, NEW read \in BOOLEAN,
             Begin(c, flags, read) PROVE Cut'
  <2>1. UNCHANGED <<made, head, remote, files>>
    BY <1>2 DEF Begin
  <2>2. cmd'[c].at = "push" => head # 0
    <3>1. cmd'[c].at = "push" => Prior # NoRun /\ run[Prior].status = "completed"
      BY <1>2, BeginType DEF Left
    <3>2. cmd'[c].at = "push" => Prior \in Cmds
      BY <3>1, PriorType
    <3> QED
      BY <3>1, <3>2 DEF Cut
  <2> QED
    BY <1>2, <2>1, <2>2, BeginType DEF Cut
<1>3. ASSUME NEW c \in Cmds, NEW r \in Cmds, BeginSteer(c, r) \/ BeginDrop(c, r) PROVE Cut'
  <2>1. UNCHANGED <<repo, remote, files>> /\ wt = r
    BY <1>3 DEF BeginSteer, BeginDrop, Editable
  <2> QED
    BY <1>0, <1>3, <2>1, EditType DEF Cut
<1>4. ASSUME NEW c \in Cmds, NEW end \in {"completed", "failed"}, NEW dev \in BOOLEAN,
             NEW edits \in BOOLEAN, Session(c, end, dev, edits)
      PROVE  Cut'
  <2>1. UNCHANGED <<made, head, wt, remote, order, note, together>> /\ cmd[c].at = "session"
    BY <1>4 DEF Session
  <2>2. head # 0
    BY <2>1 DEF Cut
  <2>3. cmd'[c].at \in {"gone", "commit"} /\ \A d \in Cmds \ {c} : cmd'[d] = cmd[d]
    BY <1>4, SessionType
  <2> QED
    BY <2>1, <2>2, <2>3 DEF Cut
<1>5. ASSUME NEW c \in Cmds, Release(c) \/ Tidy(c) PROVE Cut'
  <2>1. /\ UNCHANGED <<made, head, remote, files, together>> /\ wt' \in {wt, NoRun}
        /\ \E to \in {"add", "gone"} : Goes(c, to)
    <3>1. CASE Release(c)
      BY <3>1 DEF Release
    <3>2. CASE Tidy(c)
      BY <3>2 DEF Tidy
    <3> QED
      BY <1>5, <3>1, <3>2
  <2>2. cmd'[c].at \in {"add", "gone"} /\ \A d \in Cmds \ {c} : cmd'[d] = cmd[d]
    BY <2>1, Moves DEF Places
  <2> QED
    BY <2>1, <2>2 DEF Cut
<1>6. ASSUME NEW c \in Cmds, Add(c) PROVE Cut'
  <2>1. head' = 1 /\ UNCHANGED <<remote, note, run>> /\ Goes(c, "prepare")
    BY <1>6 DEF Add
  <2>2. cmd'[c].at = "prepare" /\ \A d \in Cmds \ {c} : cmd'[d] = cmd[d]
    BY <2>1, Moves DEF Places
  <2> QED
    BY <2>1, <2>2 DEF Cut
<1>7. ASSUME NEW c \in Cmds, Prepare(c) PROVE Cut'
  <2>1. UNCHANGED <<repo, remote, note>> /\ cmd[c].at = "prepare"
    BY <1>7 DEF Prepare
  <2>2. head # 0
    BY <2>1 DEF Cut
  <2>3. cmd'[c].at \in {"dry", "session"} /\ \A d \in Cmds \ {c} : cmd'[d] = cmd[d]
    BY <1>7, PrepareType
  <2> QED
    BY <2>1, <2>2, <2>3 DEF Cut
<1>8. ASSUME NEW c \in Cmds,
             DryEnds(c) \/ Open(c) \/ MarkFailed(c) \/ Record(c) \/ RecordPushed(c) \/ Unchanged(c)
      PROVE  Cut'
  <2>1. /\ UNCHANGED <<repo, remote, note>> /\ cmd[c].at \in {"dry", "open", "commit", "record", "pushed"}
        /\ \E to \in {"tidy", "session", "gone", "push"} : Goes(c, to)
    BY <1>8 DEF DryEnds, Open, MarkFailed, Record, RecordPushed, Unchanged
  <2>2. head # 0
    BY <2>1 DEF Cut
  <2>3. cmd'[c].at \in {"tidy", "session", "gone", "push"} /\ \A d \in Cmds \ {c} : cmd'[d] = cmd[d]
    BY <2>1, Moves DEF Places
  <2> QED
    BY <2>1, <2>2, <2>3 DEF Cut
<1>9. ASSUME NEW c \in Cmds, Commit(c) \/ DropAmend(c) PROVE Cut'
  <2>1. head # 0
    BY <1>9 DEF Cut, Commit, DropAmend
  <2>2. PICK dev \in BOOLEAN, past \in SUBSET Nat : Makes(c, dev, past)
    <3>1. cmd[c].dev \in BOOLEAN
      BY <1>0 DEF CmdState
    <3> QED
      BY <1>9, <2>1, <3>1, PastType DEF Commit, DropAmend
  <2>3. UNCHANGED <<wt, remote, files, together>>
    BY <1>9 DEF Commit, DropAmend
  <2>4. head' # 0 /\ cmd'[c].at = "record" /\ \A d \in Cmds \ {c} : cmd'[d] = cmd[d]
    <3>1. head' = Len(made) + 1 /\ cmd'[c].at = "record" /\ \A d \in Cmds \ {c} : cmd'[d] = cmd[d]
      BY <2>2, MakesOne
    <3> QED
      BY <1>0, <3>1
  <2> QED
    BY <2>3, <2>4 DEF Cut
<1>10. ASSUME NEW c \in Cmds, Ends(c) PROVE Cut'
  <2>1. UNCHANGED <<repo, remote, files>> /\ Goes(c, "gone")
    BY <1>10 DEF Ends
  <2>2. cmd'[c].at = "gone" /\ \A d \in Cmds \ {c} : cmd'[d] = cmd[d]
    BY <2>1, Moves DEF Places
  <2> QED
    BY <2>1, <2>2 DEF Cut
<1>11. ASSUME NEW c \in Cmds, Push(c) PROVE Cut'
  <2>1. UNCHANGED <<repo, files>> /\ cmd[c].at = "push" /\ remote' = head /\ Goes(c, "notes")
    BY <1>11 DEF Push
  <2>2. cmd'[c].at = "notes" /\ \A d \in Cmds \ {c} : cmd'[d] = cmd[d]
    BY <2>1, Moves DEF Places
  <2> QED
    BY <2>1, <2>2 DEF Cut
<1>12. ASSUME NEW c \in Cmds, UpdateNotes(c) PROVE Cut'
  <2>1. UNCHANGED <<repo, run, order, remote>> /\ cmd[c].at = "notes" /\ Goes(c, "pushed")
    BY <1>12 DEF UpdateNotes
  <2>2. cmd'[c].at = "pushed" /\ \A d \in Cmds \ {c} : cmd'[d] = cmd[d]
    BY <2>1, Moves DEF Places
  <2> QED
    BY <2>1, <2>2 DEF Cut
<1>13. ASSUME NEW c \in Cmds, Begins(c) PROVE Cut'
  BY <1>2, <1>3, <1>13 DEF Begins
<1>14. ASSUME NEW c \in Cmds, Works(c) PROVE Cut'
  BY <1>4, <1>5, <1>6, <1>7, <1>8, <1>9, <1>11, <1>12, <1>14 DEF Works
<1> QED
  BY <1>1, <1>10, <1>13, <1>14 DEF Next

\* The initial state has its shape, and the branch is not there.
LEMMA InitTypes == FixAssumption /\ Init => TypeOK /\ Cut
<1> SUFFICES ASSUME FixAssumption, Init PROVE TypeOK /\ Cut
  OBVIOUS
<1> DEFINE first == [dev |-> FALSE, past |-> {}]
<1>1. first \in [dev : BOOLEAN, past : SUBSET Nat]
  OBVIOUS
<1>2. made = <<first>>
  BY DEF Init
<1> HIDE DEF first
<1>3. made \in Seq([dev : BOOLEAN, past : SUBSET Nat]) /\ made # <<>> /\ Len(made) = 1
  BY <1>1, <1>2
<1>4. head \in 0 .. Len(made) /\ remote \in 0 .. Len(made)
  BY <1>3 DEF Init
<1>5. Idle \in CmdState /\ NoState \in RunState /\ Idle.at = "new" /\ NoState.status = "none"
  BY DEF Idle, NoState, CmdState, RunState, Places
<1>6. cmd \in [Cmds -> CmdState] /\ run \in [Cmds -> RunState]
  BY <1>5 DEF Init
<1>7. order \in Seq(Cmds)
  BY DEF Init
<1>8. TypeOK
  BY <1>3, <1>4, <1>6, <1>7 DEF Init, TypeOK
<1>9. Cut
  BY <1>5 DEF Init, Cut
<1> QED
  BY <1>8, <1>9

\* The state has its shape, for every number of commands, runs and commits.
THEOREM TypeCorrect == Spec => []TypeOK
<1>1. Init => TypeOK /\ Cut
  BY FixAssumption, InitTypes
<1>2. (TypeOK /\ Cut) /\ [Next]_vars => (TypeOK /\ Cut)'
  BY FixAssumption, TypeStep, CutStep
<1>3. TypeOK /\ Cut => TypeOK
  OBVIOUS
<1> QED
  BY <1>1, <1>2, <1>3, PTL DEF Spec

-----------------------------------------------------------------------------
(* The branch and the records, while commands come one after another.       *)

\* A commit is built on earlier ones.
Grown == \A k \in 1 .. Len(made) : made[k].past \subseteq 1 .. (k - 1)

\* A fix of an evaluation is a local one.
Lawful == \A c \in Cmds : Has(c, "eval") => Has(c, "local")

\* The newest of the ticket's runs.
IsLast(r) == order # <<>> /\ r = order[Len(order)]

\* One command at a time.
One == \A c, d \in Running : c = d

\* Only the newest run's commit can be what the branch is at, and only its
\* worktree can hold the branch; what a run says was pushed is what origin has.
Runs ==
  \A r \in Cmds :
    /\ run[r].status = "none" => run[r] = NoState
    /\ run[r].commit # 0 => run[r].commit \in 2 .. Len(made)
    /\ run[r].commit # 0 /\ run[r].commit = head => IsLast(r)
    /\ wt = r /\ run[r].status # "none" => IsLast(r)
    /\ run[r].pushed => remote # 0 /\ remote = run[r].commit

\* Nothing is built on the commit origin has, and while the branch is at it
\* the newest run has it on record.
Origin ==
  remote # 0 =>
    /\ remote \in 2 .. Len(made)
    /\ remote \notin made[head].past
    /\ remote = head => order # <<>> /\ run[order[Len(order)]].commit = remote

\* A fix that has not prepared its run: the run is not there, and where it is
\* to accept, there was nothing to accept.
Before(c) ==
  /\ cmd[c].at \in {"new", "release", "add", "prepare"} => run[c].status = "none"
  /\ cmd[c].at \in {"release", "add", "prepare"} => cmd[c].does = "fix" /\ cmd[c].on = c
  /\ cmd[c].at \in {"release", "add"} /\ Reviews(cmd[c].flags) /\ ~cmd[c].blind =>
       ~Left(Prior)
  /\ cmd[c].at = "prepare" => head = 1 /\ wt = c

\* From then on the run is there.
Own(c) ==
  cmd[c].at \notin {"new", "gone", "release", "add", "prepare"} =>
    cmd[c].on \in Cmds /\ run[cmd[c].on].status # "none"

\* Up to its commit a command's memory of its run is what the record says.
Kept(c) ==
  cmd[c].at \in {"dry", "open", "session", "commit"} =>
    /\ cmd[c].kept.commit = run[cmd[c].on].commit
    /\ cmd[c].kept.pushed = run[cmd[c].on].pushed
    /\ cmd[c].kept.eval = run[cmd[c].on].eval
    /\ ~run[cmd[c].on].pushed /\ cmd[c].kept.status # "none"
    /\ cmd[c].does \in {"fix", "steer"} /\ (cmd[c].at = "open" => cmd[c].does = "steer")
    /\ cmd[c].does = "fix" => /\ head = 1 /\ run[cmd[c].on].commit = 0
                              /\ run[cmd[c].on].eval = Has(c, "eval")

\* A drop amends the commit of a run that is not pushed.
Amending(c) == cmd[c].at = "amend" => cmd[c].does = "drop" /\ ~run[cmd[c].on].pushed

\* A commit made and not on record yet is the branch's, and not origin's.
Recording(c) ==
  cmd[c].at = "record" =>
    /\ wt = cmd[c].on /\ ~run[cmd[c].on].pushed
    /\ cmd[c].sees = head /\ head \in 2 .. Len(made) /\ head # remote
    /\ cmd[c].does = "fix" => made[head].dev = cmd[c].dev /\ run[cmd[c].on].eval = Has(c, "eval")

\* What is published is on record, and accepted where it deviates.
Pushing(c) ==
  /\ cmd[c].at = "push" =>
       /\ run[cmd[c].on].commit = head /\ run[cmd[c].on].commit # 0 /\ ~run[cmd[c].on].eval
       /\ made[head].dev => Has(c, "accept")
  /\ cmd[c].at \in {"notes", "pushed"} => run[cmd[c].on].commit = remote

\* All that is known of where a command is.
Stage(c) == Before(c) /\ Own(c) /\ Kept(c) /\ Amending(c) /\ Recording(c) /\ Pushing(c)

\* The inductive invariant.
Alone == One /\ Runs /\ Origin /\ \A c \in Cmds : Stage(c)
FixInv == Grown /\ Lawful /\ (~together => Alone)

\* A commit is made on the branch, or in the place of the one the branch is at.
LEMMA CommitMakes ==
  ASSUME TypeOK, Cut, NEW c \in Cmds, Commit(c) \/ DropAmend(c)
  PROVE  /\ head \in 1 .. Len(made) /\ head # 0
         /\ \E dev \in BOOLEAN, past \in SUBSET Nat :
              /\ Makes(c, dev, past)
              /\ \/ past = made[head].past
                 \/ past = Line(head) /\ Commit(c) /\ ~Amends(c)
              /\ Commit(c) => dev = cmd[c].dev
<1>1. head # 0 /\ head \in 1 .. Len(made)
  BY DEF Cut, TypeOK, Commit, DropAmend
<1>2. cmd[c].dev \in BOOLEAN
  BY DEF TypeOK, CmdState
<1>3. made[head].past \in SUBSET Nat /\ made[head].dev \in BOOLEAN /\ Line(head) \in SUBSET Nat
  BY <1>1, PastType
<1>4. CASE Commit(c)
  BY <1>1, <1>2, <1>3, <1>4 DEF Commit
<1>5. CASE DropAmend(c)
  <2>1. Makes(c, made[head].dev, made[head].past) /\ cmd[c].at = "amend"
    BY <1>5 DEF DropAmend
  <2>2. ~Commit(c)
    BY <2>1 DEF Commit
  <2> QED
    BY <1>1, <1>3, <2>1, <2>2
<1> QED
  BY <1>4, <1>5

\* Only a commit makes a commit.
LEMMA MadeKept ==
  ASSUME [Next]_vars
  PROVE  made' = made \/ \E c \in Cmds : Commit(c) \/ DropAmend(c)
<1>1. ASSUME NEW c \in Cmds, Begins(c) PROVE made' = made
  BY <1>1 DEF Begins, Begin, BeginSteer, BeginDrop
<1>2. ASSUME NEW c \in Cmds, Works(c) PROVE made' = made \/ Commit(c) \/ DropAmend(c)
  BY <1>2 DEF Works, Session, Release, Add, Prepare, DryEnds, Open, MarkFailed, Unchanged, Record,
              Push, UpdateNotes, RecordPushed, Tidy
<1>3. ASSUME NEW c \in Cmds, Ends(c) PROVE made' = made
  BY <1>3 DEF Ends
<1> QED
  BY <1>1, <1>2, <1>3 DEF Next

\* A commit is built on earlier ones: every step.
LEMMA GrownStep ==
  ASSUME TypeOK, Cut, Grown, [Next]_vars
  PROVE  Grown'
<1>1. CASE made' = made
  BY <1>1 DEF Grown
<1>2. ASSUME NEW c \in Cmds, Commit(c) \/ DropAmend(c) PROVE Grown'
  <2>1. PICK dev \in BOOLEAN, past \in SUBSET Nat :
          Makes(c, dev, past) /\ (past = made[head].past \/ past = Line(head))
    BY <1>2, CommitMakes
  <2>2. head \in 1 .. Len(made) /\ Len(made) \in Nat
    BY <1>2, CommitMakes DEF TypeOK
  <2>3. made[head].past \subseteq 1 .. (head - 1)
    BY <2>2 DEF Grown
  <2>4. past \subseteq 1 .. Len(made)
    <3>1. made[head].past \subseteq 1 .. Len(made)
      BY <2>2, <2>3
    <3>2. Line(head) \subseteq 1 .. Len(made)
      BY <2>2, <3>1 DEF Line
    <3> QED
      BY <2>1, <3>1, <3>2
  <2>5. /\ Len(made') = Len(made) + 1 /\ made'[Len(made) + 1].past = past
        /\ \A k \in 1 .. Len(made) : made'[k] = made[k]
    BY <2>1, MakesOne
  <2>6. ASSUME NEW k \in 1 .. Len(made') PROVE made'[k].past \subseteq 1 .. (k - 1)
    <3>1. CASE k \in 1 .. Len(made)
      BY <2>5, <3>1 DEF Grown
    <3>2. CASE k = Len(made) + 1
      <4>1. k - 1 = Len(made) /\ made'[k].past = past
        BY <2>2, <2>5, <3>2
      <4> QED
        BY <2>4, <4>1
    <3> QED
      BY <2>2, <2>5, <3>1, <3>2
  <2> QED
    BY <2>6 DEF Grown
<1> QED
  BY <1>1, <1>2, MadeKept

\* While one command runs, no other does.
LEMMA OthersRest ==
  ASSUME TypeOK, One, NEW c \in Cmds, c \in Running \/ Running = {}, NEW d \in Cmds, d # c
  PROVE  cmd[d].at \in {"new", "gone"}
BY DEF One, Running

\* What one command's step has to keep, for all to be kept.
LEMMA OneSteps ==
  ASSUME TypeOK, Alone, NEW c \in Cmds, c \in Running \/ Running = {},
         \A d \in Cmds \ {c} : cmd'[d] = cmd[d],
         \A r \in Cmds \ {c} : run[r].status = "none" => run'[r].status = "none",
         Runs', Origin', Stage(c)'
  PROVE  Alone'
<1>1. \A d \in Cmds \ {c} : cmd'[d] = cmd[d] /\ cmd[d].at \in {"new", "gone"}
  BY OthersRest DEF Alone
<1>2. One'
  BY <1>1 DEF One, Running
<1>3. ASSUME NEW d \in Cmds, d # c PROVE Stage(d)'
  <2>1. cmd'[d] = cmd[d] /\ cmd[d].at \in {"new", "gone"}
    BY <1>1, <1>3
  <2>2. cmd'[d].at = "new" => run'[d].status = "none"
    BY <1>3, <2>1 DEF Alone, Stage, Before
  <2> QED
    BY <2>1, <2>2 DEF Stage, Before, Own, Kept, Amending, Recording, Pushing
<1> QED
  BY <1>2, <1>3 DEF Alone

\* Steps that leave the commits and the records as they are.
LEMMA SameData ==
  ASSUME TypeOK, FixAssumption, Runs, Origin, UNCHANGED <<made, head, remote, run, order>>, wt' \in {wt, NoRun}
  PROVE  Runs' /\ Origin' /\ Prior' = Prior
<1>1. Prior' = Prior
  BY DEF Prior, Newest, Counts
<1>2. Origin'
  BY DEF Origin
<1>3. Runs'
  BY DEF Runs, IsLast, FixAssumption
<1> QED
  BY <1>1, <1>2, <1>3

\* The beginnings.
LEMMA BeginAlone ==
  ASSUME TypeOK, FixAssumption, Cut, Alone, ~together', NEW c \in Cmds,
         NEW flags \in FlagSets, NEW read \in BOOLEAN,
         Begin(c, flags, read)
  PROVE  Alone'
<1>1. /\ UNCHANGED <<made, head, remote, run, order>> /\ cmd[c].at = "new" /\ Running = {}
  BY GivenType DEF Begin
<1>2. /\ cmd'[c].at \in {"release", "gone", "push"} /\ \A d \in Cmds \ {c} : cmd'[d] = cmd[d]
      /\ wt' \in {wt, NoRun}
      /\ cmd'[c].at # "gone" => cmd'[c].does = "fix" /\ cmd'[c].flags = flags
      /\ cmd'[c].at = "release" => /\ cmd'[c].on = c
                                   /\ Reviews(flags) /\ Left(Prior) => cmd'[c].blind
      /\ cmd'[c].at = "push" => /\ cmd'[c].on = Prior /\ Reviews(flags)
                                /\ Left(Prior) /\ ~Moved(Prior)
  BY BeginType
<1>3. Runs' /\ Origin' /\ Prior' = Prior
  BY <1>1, <1>2, SameData DEF Alone
<1>4. Stage(c)'
  <2>1. CASE cmd'[c].at = "release"
    <3>1. run[c].status = "none"
      BY <1>1 DEF Alone, Stage, Before
    <3>2. Before(c)'
      BY <1>1, <1>2, <1>3, <2>1, <3>1 DEF Before, Left
    <3> QED
      BY <2>1, <3>2 DEF Stage, Own, Kept, Amending, Recording, Pushing
  <2>2. CASE cmd'[c].at = "push"
    <3>1. Prior \in Cmds /\ Counts(Prior) /\ run[Prior].status = "completed" /\ run[Prior].commit # 0
      BY <1>2, <2>2, PriorType DEF Left
    <3>2. run[Prior].commit = head /\ "accept" \in flags
      BY <1>2, <2>2 DEF Moved, Reviews
    <3>3. Before(c)'
      BY <2>2 DEF Before
    <3>4. Own(c)'
      BY <1>1, <1>2, <2>2, <3>1 DEF Own
    <3>5. Pushing(c)'
      BY <1>1, <1>2, <2>2, <3>1, <3>2 DEF Pushing, Counts, Has
    <3> QED
      BY <2>2, <3>3, <3>4, <3>5 DEF Stage, Kept, Amending, Recording
  <2>3. CASE cmd'[c].at = "gone"
    BY <2>3 DEF Stage, Before, Own, Kept, Amending, Recording, Pushing
  <2> QED
    BY <1>2, <2>1, <2>2, <2>3
<1> QED
  BY <1>1, <1>2, <1>3, <1>4, OneSteps

\* A steer's and a drop's.
LEMMA EditAlone ==
  ASSUME TypeOK, FixAssumption, Cut, Alone, ~together', NEW c \in Cmds, NEW r \in Cmds,
         BeginSteer(c, r) \/ BeginDrop(c, r)
  PROVE  Alone'
<1>1. /\ UNCHANGED <<repo, remote, files>> /\ Running = {} /\ Editable(r)
  BY GivenType DEF BeginSteer, BeginDrop
<1>2. /\ \A d \in Cmds \ {c} : cmd'[d] = cmd[d]
      /\ cmd'[c].at \in {"open", "amend"} /\ cmd'[c].on = r
      /\ cmd'[c].at = "open" => cmd'[c].does = "steer" /\ cmd'[c].kept = run[r]
      /\ cmd'[c].at = "amend" => cmd'[c].does = "drop" /\ cmd'[c].sees = head
  BY EditType
<1>3. Runs' /\ Origin'
  BY <1>1, SameData DEF Alone
<1>4. run[r].status \in {"completed", "failed"} /\ ~run[r].pushed
  BY <1>1 DEF Editable, Settled
<1>5. Stage(c)'
  BY <1>1, <1>2, <1>4 DEF Stage, Before, Own, Kept, Amending, Recording, Pushing
<1> QED
  BY <1>1, <1>2, <1>3, <1>5, OneSteps

\* Releasing, tidying and ending leave the commits and the records.
LEMMA RestAlone ==
  ASSUME TypeOK, FixAssumption, Alone, NEW c \in Cmds,
         Release(c) \/ Tidy(c) \/ Unchanged(c) \/ Ends(c) \/ UpdateNotes(c)
  PROVE  Alone'
<1>1. UNCHANGED <<made, head, remote, run, order>> /\ c \in Running
  BY DEF Release, Tidy, Unchanged, Ends, UpdateNotes, Running
<1>2. wt' \in {wt, NoRun}
  <2>1. CASE Tidy(c)
    BY <2>1 DEF Tidy
  <2> QED
    BY <2>1 DEF Release, Unchanged, Ends, UpdateNotes
<1>3. Runs' /\ Origin' /\ Prior' = Prior
  BY <1>1, <1>2, SameData DEF Alone
<1>4. CASE Release(c)
  <2>1. cmd[c].at = "release" /\ Goes(c, "add")
    BY <1>4 DEF Release
  <2>2. /\ cmd'[c].at = "add" /\ \A d \in Cmds \ {c} : cmd'[d] = cmd[d]
        /\ cmd'[c].does = cmd[c].does /\ cmd'[c].flags = cmd[c].flags /\ cmd'[c].on = cmd[c].on
        /\ cmd'[c].blind = cmd[c].blind
    BY <2>1, Moves DEF Places
  <2>3. Before(c)
    BY DEF Alone, Stage
  <2>4. Stage(c)'
    BY <1>1, <1>3, <2>1, <2>2, <2>3 DEF Stage, Before, Left, Own, Kept, Amending, Recording, Pushing
  <2> QED
    BY <1>1, <1>3, <2>2, <2>4, OneSteps
<1>5. CASE UpdateNotes(c)
  <2>1. cmd[c].at = "notes" /\ Goes(c, "pushed")
    BY <1>5 DEF UpdateNotes
  <2>2. cmd'[c].at = "pushed" /\ (\A d \in Cmds \ {c} : cmd'[d] = cmd[d]) /\ cmd'[c].on = cmd[c].on
    BY <2>1, Moves DEF Places
  <2>3. Own(c) /\ Pushing(c)
    BY DEF Alone, Stage
  <2>4. Stage(c)'
    BY <1>1, <2>1, <2>2, <2>3 DEF Stage, Before, Own, Kept, Amending, Recording, Pushing
  <2> QED
    BY <1>1, <1>3, <2>2, <2>4, OneSteps
<1>6. CASE Tidy(c) \/ Unchanged(c) \/ Ends(c)
  <2>1. Goes(c, "gone")
    BY <1>6 DEF Tidy, Unchanged, Ends
  <2>2. cmd'[c].at = "gone" /\ \A d \in Cmds \ {c} : cmd'[d] = cmd[d]
    BY <2>1, Moves DEF Places
  <2>3. Stage(c)'
    BY <2>2 DEF Stage, Before, Own, Kept, Amending, Recording, Pushing
  <2> QED
    BY <1>1, <1>3, <2>2, <2>3, OneSteps
<1> QED
  BY <1>4, <1>5, <1>6

\* The branch cut again: its newest commit is no run's.
LEMMA AddAlone ==
  ASSUME TypeOK, FixAssumption, Cut, Grown, Alone, NEW c \in Cmds, Add(c)
  PROVE  Alone'
<1>1. /\ UNCHANGED <<made, remote, run, order>> /\ c \in Running /\ cmd[c].at = "add"
      /\ head' = 1 /\ wt' = c /\ Goes(c, "prepare")
  BY DEF Add, Running
<1>2. /\ cmd'[c].at = "prepare" /\ \A d \in Cmds \ {c} : cmd'[d] = cmd[d]
      /\ cmd'[c].does = cmd[c].does /\ cmd'[c].on = cmd[c].on
  BY <1>1, Moves DEF Places
<1>3. cmd[c].does = "fix" /\ cmd[c].on = c /\ run[c].status = "none"
  BY <1>1 DEF Alone, Stage, Before
<1>4. Runs'
  BY <1>1, <1>3 DEF Alone, Runs, IsLast
<1>5. made[1].past = {}
  BY DEF TypeOK, Grown
<1>6. Origin'
  BY <1>1, <1>5 DEF Alone, Origin
<1>7. Stage(c)'
  BY <1>1, <1>2, <1>3 DEF Stage, Before, Own, Kept, Amending, Recording, Pushing
<1> QED
  BY <1>1, <1>2, <1>4, <1>6, <1>7, OneSteps

\* A run prepared: the branch is at the base, so no earlier run is at it.
LEMMA PrepareAlone ==
  ASSUME TypeOK, FixAssumption, Cut, Alone, NEW c \in Cmds, Prepare(c)
  PROVE  Alone'
<1> DEFINE new == [NoState EXCEPT !.status = "running", !.eval = Has(c, "eval")]
<1>1. UNCHANGED <<made, head, wt, remote>> /\ c \in Running /\ cmd[c].at = "prepare"
  BY DEF Prepare, Running
<1>2. /\ \A d \in Cmds \ {c} : cmd'[d] = cmd[d]
      /\ cmd'[c].at = IF Has(c, "dry") THEN "dry" ELSE "session"
      /\ cmd'[c] = [cmd[c] EXCEPT !.at = cmd'[c].at, !.kept = new, !.blind = FALSE]
      /\ \A r \in Cmds : run'[r] = IF r = c THEN new ELSE run[r]
      /\ order' # <<>> /\ order'[Len(order')] = c
  BY PrepareType
<1>3. /\ new.status = "running" /\ new.commit = 0 /\ ~new.pushed /\ new.eval = Has(c, "eval")
  BY DEF NoState
<1> HIDE DEF new
<1>4. cmd[c].does = "fix" /\ cmd[c].on = c /\ head = 1 /\ wt = c
  BY <1>1 DEF Alone, Stage, Before
<1>5. IsLast(c)'
  BY <1>2 DEF IsLast
<1>6. Runs'
  BY <1>1, <1>2, <1>3, <1>4, <1>5 DEF Alone, Runs
<1>7. Origin'
  BY <1>1, <1>4 DEF Alone, Origin
<1>8. /\ cmd'[c].does = "fix" /\ cmd'[c].on = c /\ cmd'[c].kept = new /\ cmd'[c].flags = cmd[c].flags
      /\ cmd'[c].at \in {"dry", "session"}
  <2>1. cmd[c] \in CmdState
    BY DEF TypeOK
  <2> QED
    BY <1>2, <1>4, <2>1 DEF CmdState
<1>9. Kept(c)'
  BY <1>1, <1>2, <1>3, <1>4, <1>8 DEF Kept, Has
<1>10. Own(c)'
  BY <1>2, <1>3, <1>8 DEF Own
<1>11. Stage(c)'
  BY <1>8, <1>9, <1>10 DEF Stage, Before, Amending, Recording, Pushing
<1>12. \A r \in Cmds \ {c} : run[r].status = "none" => run'[r].status = "none"
  BY <1>2
<1> QED
  BY <1>1, <1>2, <1>6, <1>7, <1>11, <1>12, OneSteps

\* What a step does that writes a run's state and leaves its commit: nothing is lost.
LEMMA SameCommit ==
  ASSUME TypeOK, Runs, Origin, UNCHANGED <<made, head, remote, wt, order>>, NEW o \in Cmds,
         run' \in [Cmds -> RunState], \A r \in Cmds \ {o} : run'[r] = run[r],
         run'[o].commit = run[o].commit, run'[o].status # "none", run[o].status # "none",
         run'[o].pushed => remote # 0 /\ remote = run[o].commit
  PROVE  Runs' /\ Origin' /\ \A r \in Cmds : run[r].status = "none" => run'[r].status = "none"
<1>1. \A r \in Cmds : run'[r].commit = run[r].commit
  OBVIOUS
<1>2. Origin'
  <2>1. order # <<>> => order[Len(order)] \in Cmds
    BY DEF TypeOK
  <2> QED
    BY <1>1, <2>1 DEF Origin
<1>3. Runs'
  BY <1>1 DEF Runs, IsLast
<1> QED
  BY <1>2, <1>3

\* A session and what opens it, its end, and a run marked failed or pushed.
LEMMA SessionAlone ==
  ASSUME TypeOK, FixAssumption, Alone, NEW c \in Cmds,
         NEW end \in {"completed", "failed"}, NEW dev \in BOOLEAN, NEW edits \in BOOLEAN,
         Session(c, end, dev, edits)
  PROVE  Alone'
<1> DEFINE o == cmd[c].on
<1>1. UNCHANGED <<made, head, wt, remote, order>> /\ c \in Running /\ cmd[c].at = "session"
  BY DEF Session, Running
<1>2. o \in Cmds /\ run[o].status # "none" /\ Kept(c)
  BY <1>1 DEF Alone, Stage, Own
<1>3. cmd[c].kept \in RunState
  BY DEF TypeOK, CmdState
<1>4. /\ run' \in [Cmds -> RunState] /\ \A d \in Cmds \ {c} : cmd'[d] = cmd[d]
      /\ \A r \in Cmds : run'[r] = IF r = o THEN Settle(cmd[c].kept, end) ELSE run[r]
  BY SessionType
<1>5. /\ cmd'[c].at \in {"gone", "commit"}
      /\ cmd'[c].at = "commit" => /\ cmd'[c].does = cmd[c].does /\ cmd'[c].flags = cmd[c].flags
                                  /\ cmd'[c].on = o /\ cmd'[c].kept = cmd[c].kept
  BY SessionType
<1>6. /\ run'[o].status = end /\ run'[o].commit = cmd[c].kept.commit
      /\ run'[o].pushed = cmd[c].kept.pushed /\ run'[o].eval = cmd[c].kept.eval
  BY <1>2, <1>3, <1>4, SettleType
<1> HIDE DEF o
<1>7. /\ run'[o].commit = run[o].commit /\ ~run'[o].pushed
      /\ run'[o].eval = run[o].eval
  BY <1>1, <1>2, <1>6 DEF Kept, o
<1>8. Runs' /\ Origin' /\ \A r \in Cmds : run[r].status = "none" => run'[r].status = "none"
  BY <1>1, <1>2, <1>4, <1>6, <1>7, SameCommit DEF Alone
<1>9. Stage(c)'
  <2>1. CASE cmd'[c].at = "commit"
    <3>1. Kept(c)'
      BY <1>1, <1>2, <1>5, <1>6, <1>7, <2>1 DEF Kept, Has, o
    <3>2. Own(c)'
      BY <1>2, <1>5, <1>6, <2>1 DEF Own
    <3> QED
      BY <2>1, <3>1, <3>2 DEF Stage, Before, Amending, Recording, Pushing
  <2>2. CASE cmd'[c].at = "gone"
    BY <2>2 DEF Stage, Before, Own, Kept, Amending, Recording, Pushing
  <2> QED
    BY <1>5, <2>1, <2>2
<1> QED
  BY <1>1, <1>4, <1>8, <1>9, OneSteps

\* A run opened for a steer, a dry run's end, and a run marked failed.
LEMMA StatusAlone ==
  ASSUME TypeOK, FixAssumption, Alone, NEW c \in Cmds, Open(c) \/ DryEnds(c) \/ MarkFailed(c)
  PROVE  Alone'
<1> DEFINE o == cmd[c].on
<1>1. /\ UNCHANGED <<made, head, wt, remote, order>> /\ c \in Running
      /\ cmd[c].at \in {"open", "dry", "commit"}
  BY DEF Open, DryEnds, MarkFailed, Running
<1>2. o \in Cmds /\ run[o].status # "none" /\ Kept(c)
  BY <1>1 DEF Alone, Stage, Own
<1>3. cmd[c].kept \in RunState /\ run[o] \in RunState
  BY <1>2 DEF TypeOK, CmdState
<1>4. PICK s \in {cmd[c].kept, run[o]}, to \in {"running", "completed", "failed"} : Writes(c, Settle(s, to))
  BY DEF Open, DryEnds, MarkFailed, Settle
<1>5. s \in RunState /\ Settle(s, to) \in RunState
  BY <1>3, <1>4, SettleType
<1>6. run' \in [Cmds -> RunState] /\ \A r \in Cmds : run'[r] = IF r = o THEN Settle(s, to) ELSE run[r]
  BY <1>4, <1>5, WritesOne
<1>7. /\ run'[o].status = to /\ run'[o].commit = s.commit
      /\ run'[o].pushed = s.pushed /\ run'[o].eval = s.eval
  BY <1>2, <1>5, <1>6, SettleType
<1>8. /\ run'[o].commit = run[o].commit /\ ~run'[o].pushed /\ run'[o].eval = run[o].eval
  <2>1. s.commit = run[o].commit /\ s.pushed = run[o].pushed /\ s.eval = run[o].eval /\ ~run[o].pushed
    BY <1>1, <1>2, <1>4 DEF Kept
  <2> HIDE DEF o
  <2> QED
    BY <1>7, <2>1
<1>9. Runs' /\ Origin' /\ \A r \in Cmds : run[r].status = "none" => run'[r].status = "none"
  <2> HIDE DEF o
  <2> QED
    BY <1>1, <1>2, <1>4, <1>6, <1>7, <1>8, SameCommit DEF Alone
<1>10. CASE Open(c)
  <2>1. Goes(c, "session") /\ cmd[c].at = "open"
    BY <1>10 DEF Open
  <2>2. /\ cmd'[c].at = "session" /\ \A d \in Cmds \ {c} : cmd'[d] = cmd[d]
        /\ cmd'[c].does = cmd[c].does /\ cmd'[c].on = o /\ cmd'[c].kept = cmd[c].kept
    BY <2>1, Moves DEF Places
  <2>3. cmd[c].does = "steer"
    BY <1>2, <2>1 DEF Kept
  <2>4. Kept(c)'
    <3>1. /\ cmd[c].kept.commit = run[o].commit /\ cmd[c].kept.pushed = run[o].pushed
          /\ cmd[c].kept.eval = run[o].eval /\ ~run[o].pushed /\ cmd[c].kept.status # "none"
      BY <1>2, <2>1 DEF Kept
    <3>2. run'[o].pushed = run[o].pushed
      <4>1. run'[o].pushed \in BOOLEAN /\ run[o].pushed \in BOOLEAN
        BY <1>2, <1>3, <1>6 DEF RunState
      <4> QED
        BY <1>8, <3>1, <4>1
    <3> HIDE DEF o
    <3> QED
      BY <1>8, <2>2, <2>3, <3>1, <3>2 DEF Kept
  <2>5. Own(c)'
    BY <1>2, <1>4, <1>7, <2>2 DEF Own
  <2>6. Stage(c)'
    BY <2>2, <2>4, <2>5 DEF Stage, Before, Amending, Recording, Pushing
  <2> QED
    BY <1>1, <1>9, <2>2, <2>6, OneSteps
<1>11. CASE DryEnds(c)
  <2>1. Goes(c, "tidy")
    BY <1>11 DEF DryEnds
  <2>2. cmd'[c].at = "tidy" /\ (\A d \in Cmds \ {c} : cmd'[d] = cmd[d]) /\ cmd'[c].on = o
    BY <2>1, Moves DEF Places
  <2>3. Own(c)'
    BY <1>2, <1>4, <1>7, <2>2 DEF Own
  <2>4. Stage(c)'
    BY <2>2, <2>3 DEF Stage, Before, Kept, Amending, Recording, Pushing
  <2> QED
    BY <1>1, <1>9, <2>2, <2>4, OneSteps
<1>12. CASE MarkFailed(c)
  <2>1. Goes(c, "gone")
    BY <1>12 DEF MarkFailed
  <2>2. cmd'[c].at = "gone" /\ \A d \in Cmds \ {c} : cmd'[d] = cmd[d]
    BY <2>1, Moves DEF Places
  <2>3. Stage(c)'
    BY <2>2 DEF Stage, Before, Own, Kept, Amending, Recording, Pushing
  <2> QED
    BY <1>1, <1>9, <2>2, <2>3, OneSteps
<1> QED
  BY <1>10, <1>11, <1>12

\* A run recorded as pushed is the one whose commit origin has.
LEMMA PushedAlone ==
  ASSUME TypeOK, FixAssumption, Cut, Alone, NEW c \in Cmds, RecordPushed(c)
  PROVE  Alone'
<1> DEFINE o == cmd[c].on
           new == [run[o] EXCEPT !.pushed = TRUE]
<1>1. /\ UNCHANGED <<made, head, wt, remote, order>> /\ c \in Running /\ cmd[c].at = "pushed"
      /\ Writes(c, new) /\ Goes(c, "tidy")
  BY DEF RecordPushed, Running
<1>2. o \in Cmds /\ run[o].status # "none" /\ run[o].commit = remote /\ remote # 0
  BY <1>1 DEF Alone, Stage, Own, Pushing, Cut
<1>3. new \in RunState /\ new.commit = run[o].commit /\ new.status = run[o].status
  <2>1. run[o] \in RunState
    BY <1>2 DEF TypeOK
  <2> QED
    BY <2>1 DEF RunState
<1> HIDE DEF new
<1>4. run' \in [Cmds -> RunState] /\ \A r \in Cmds : run'[r] = IF r = o THEN new ELSE run[r]
  BY <1>1, <1>3, WritesOne
<1>5. cmd'[c].at = "tidy" /\ (\A d \in Cmds \ {c} : cmd'[d] = cmd[d]) /\ cmd'[c].on = o
  BY <1>1, Moves DEF Places
<1> HIDE DEF o
<1>6. Runs' /\ Origin' /\ \A r \in Cmds : run[r].status = "none" => run'[r].status = "none"
  BY <1>1, <1>2, <1>3, <1>4, SameCommit DEF Alone
<1>7. Own(c)'
  BY <1>2, <1>3, <1>4, <1>5 DEF Own
<1>8. Stage(c)'
  BY <1>5, <1>7 DEF Stage, Before, Kept, Amending, Recording, Pushing
<1> QED
  BY <1>1, <1>5, <1>6, <1>8, OneSteps

\* A commit goes on the record of the run whose worktree it was made in, the newest.
LEMMA RecordAlone ==
  ASSUME TypeOK, FixAssumption, Cut, Lawful, Alone, NEW c \in Cmds, Record(c)
  PROVE  Alone'
<1> DEFINE o == cmd[c].on
           new == [run[o] EXCEPT !.commit = cmd[c].sees]
<1>1. /\ UNCHANGED <<made, head, wt, remote, order>> /\ c \in Running /\ cmd[c].at = "record"
      /\ Writes(c, new) /\ Goes(c, IF Publishes(c) THEN "push" ELSE "gone")
  BY DEF Record, Running
<1>2. /\ o \in Cmds /\ run[o].status # "none" /\ wt = o /\ ~run[o].pushed
      /\ cmd[c].sees = head /\ head \in 2 .. Len(made) /\ head # remote
      /\ cmd[c].does = "fix" => made[head].dev = cmd[c].dev /\ run[o].eval = Has(c, "eval")
  BY <1>1 DEF Alone, Stage, Own, Recording
<1>3. IsLast(o)
  BY <1>2 DEF Alone, Runs
<1>4. /\ new \in RunState /\ new.commit = head /\ new.status = run[o].status
      /\ ~new.pushed /\ new.eval = run[o].eval
  <2>1. run[o] \in RunState /\ head \in Nat
    BY <1>2 DEF TypeOK
  <2> QED
    BY <1>2, <2>1 DEF RunState
<1> HIDE DEF new
<1>5. run' \in [Cmds -> RunState] /\ \A r \in Cmds : run'[r] = IF r = o THEN new ELSE run[r]
  BY <1>1, <1>4, WritesOne
<1>6. /\ cmd'[c].at = IF Publishes(c) THEN "push" ELSE "gone"
      /\ \A d \in Cmds \ {c} : cmd'[d] = cmd[d]
  BY <1>1, Moves DEF Places
<1>7. Runs'
  BY <1>1, <1>2, <1>3, <1>4, <1>5 DEF Alone, Runs, IsLast
<1>8. Origin'
  BY <1>1, <1>2 DEF Alone, Origin
<1>9. Stage(c)'
  <2>1. CASE Publishes(c)
    <3>1. cmd'[c].at = "push" /\ cmd'[c].on = o /\ cmd'[c].flags = cmd[c].flags
      BY <1>1, <1>6, <2>1, Moves DEF Places
    <3>2. /\ cmd[c].does = "fix" /\ "local" \notin cmd[c].flags
          /\ cmd[c].dev => "accept" \in cmd[c].flags
      BY <2>1 DEF Publishes, Has
    <3>3. ~Has(c, "eval")
      BY <3>2 DEF Lawful, Has
    <3>4. Own(c)'
      BY <1>2, <1>4, <1>5, <3>1 DEF Own
    <3>5. /\ run'[o].commit = head' /\ run'[o].commit # 0 /\ ~run'[o].eval
          /\ made'[head'].dev => "accept" \in cmd'[c].flags
      BY <1>1, <1>2, <1>4, <1>5, <3>1, <3>2, <3>3
    <3>6. Pushing(c)'
      BY <3>1, <3>5 DEF Pushing, Has
    <3> QED
      BY <3>1, <3>4, <3>6 DEF Stage, Before, Kept, Amending, Recording
  <2>2. CASE ~Publishes(c)
    BY <1>6, <2>2 DEF Stage, Before, Own, Kept, Amending, Recording, Pushing
  <2> QED
    BY <2>1, <2>2
<1>10. \A r \in Cmds : run[r].status = "none" => run'[r].status = "none"
  BY <1>4, <1>5
<1> QED
  BY <1>1, <1>6, <1>7, <1>8, <1>9, <1>10, OneSteps

\* A command given that is over at once remembers nothing.
LEMMA GoneIsOver ==
  ASSUME TypeOK, NEW c \in Cmds, NEW flags \in FlagSets, NEW read \in BOOLEAN,
         Begin(c, flags, read), cmd'[c].at = "gone"
  PROVE  cmd'[c] = Over
<1> DEFINE found == Reviews(flags) /\ Left(Prior)
           to == IF ~found \/ ~read THEN "release"
                 ELSE IF Moved(Prior) \/ "local" \in flags THEN "gone" ELSE "push"
           this == [Idle EXCEPT !.at = to, !.flags = flags,
                    !.on = IF to = "push" THEN Prior ELSE c,
                    !.main = (to = "push" /\ wt' # Prior),
                    !.blind = (found /\ ~read)]
<1>1. cmd' = [cmd EXCEPT ![c] = IF to = "gone" THEN Over ELSE this] /\ cmd \in [Cmds -> CmdState]
  BY DEF Begin, TypeOK
<1>2. this.at = to
  BY DEF Idle
<1> HIDE DEF this, to
<1> QED
  BY <1>1, <1>2

\* A fix of an evaluation stays a local one: a command's flags are those it was given.
LEMMA LawfulStep ==
  ASSUME TypeOK, FixAssumption, Cut, Lawful, [Next]_vars
  PROVE  Lawful'
<1> DEFINE Same(c) == \A d \in Cmds \ {c} : cmd'[d] = cmd[d]
           Mild(c) == \/ cmd'[c].flags = cmd[c].flags
                      \/ cmd'[c].flags = {}
                      \/ cmd'[c].flags \in FlagSets
<1>1. ASSUME NEW c \in Cmds, Same(c), Mild(c) PROVE Lawful'
  <2>1. "eval" \in cmd'[c].flags => "local" \in cmd'[c].flags
    BY <1>1 DEF Lawful, Has, FixAssumption
  <2> QED
    BY <1>1, <2>1 DEF Lawful, Has
<1>2. Over.flags = {}
  BY DEF Over, Idle
<1>3. ASSUME NEW c \in Cmds, NEW to \in Places, Goes(c, to) PROVE Lawful'
  <2>1. Same(c) /\ Mild(c)
    BY <1>2, <1>3, Moves
  <2> QED
    BY <1>1, <2>1
<1>4. ASSUME NEW c \in Cmds, Begins(c) PROVE Lawful'
  <2>1. ASSUME NEW flags \in FlagSets, NEW read \in BOOLEAN,
               Begin(c, flags, read) PROVE Lawful'
    <3>1. Same(c) /\ (cmd'[c].at # "gone" => cmd'[c].flags = flags)
      BY <2>1, BeginType
    <3>2. cmd'[c].at = "gone" => cmd'[c].flags = {}
      <4>1. cmd'[c].at = "gone" => cmd'[c] = Over
        BY <2>1, <1>2, GoneIsOver
      <4> QED
        BY <4>1, <1>2
    <3>3. Same(c) /\ Mild(c)
      BY <3>1, <3>2
    <3> QED
      BY <1>1, <3>3
  <2>2. ASSUME NEW r \in Cmds, BeginSteer(c, r) \/ BeginDrop(c, r) PROVE Lawful'
    <3>1. Same(c) /\ Mild(c)
      BY <2>2, EditType
    <3> QED
      BY <1>1, <3>1
  <2> QED
    BY <1>4, <2>1, <2>2 DEF Begins
<1>5. ASSUME NEW c \in Cmds, Works(c) PROVE Lawful'
  <2>1. ASSUME NEW end \in {"completed", "failed"}, NEW dev \in BOOLEAN, NEW edits \in BOOLEAN,
               Session(c, end, dev, edits)
        PROVE  Lawful'
    <3>1. /\ Same(c) /\ cmd'[c].at \in {"gone", "commit"}
          /\ cmd'[c].at = "gone" => cmd'[c] = Over
          /\ cmd'[c].at = "commit" => cmd'[c].flags = cmd[c].flags
      BY <2>1, SessionType
    <3> QED
      BY <1>1, <1>2, <3>1
  <2>2. CASE Prepare(c)
    <3>1. Same(c) /\ Mild(c)
      BY <2>2, PrepareFlags
    <3> QED
      BY <1>1, <3>1
  <2>3. CASE Commit(c) \/ DropAmend(c)
    <3>1. PICK dev \in BOOLEAN, past \in SUBSET Nat : Makes(c, dev, past)
      BY <2>3, CommitMakes
    <3>2. Same(c) /\ Mild(c)
      BY <3>1, MakesOne
    <3> QED
      BY <1>1, <3>2
  <2>4. CASE \/ Release(c) \/ Add(c) \/ DryEnds(c) \/ Open(c) \/ MarkFailed(c) \/ Unchanged(c) \/ Record(c)
             \/ Push(c) \/ UpdateNotes(c) \/ RecordPushed(c) \/ Tidy(c)
    <3>1. \E to \in Places : Goes(c, to)
      <4>1. CASE Release(c) \/ Add(c) \/ DryEnds(c) \/ Open(c) \/ MarkFailed(c) \/ Unchanged(c)
        BY <4>1 DEF Places, Release, Add, DryEnds, Open, MarkFailed, Unchanged
      <4>2. CASE Record(c) \/ Push(c) \/ UpdateNotes(c) \/ RecordPushed(c) \/ Tidy(c)
        BY <4>2 DEF Places, Record, Push, UpdateNotes, RecordPushed, Tidy
      <4> QED
        BY <2>4, <4>1, <4>2
    <3> QED
      BY <1>3, <3>1
  <2> QED
    BY <1>5, <2>1, <2>2, <2>3, <2>4 DEF Works
<1>6. ASSUME NEW c \in Cmds, Ends(c) PROVE Lawful'
  BY <1>3, <1>6 DEF Ends, Places
<1>7. CASE UNCHANGED vars
  BY <1>7 DEF Lawful, Has
<1> QED
  BY <1>4, <1>5, <1>6, <1>7 DEF Next

\* A commit made is nothing's record yet, and is not built on what origin has.
LEMMA CommitAlone ==
  ASSUME TypeOK, FixAssumption, Cut, Grown, Alone, NEW c \in Cmds, Commit(c) \/ DropAmend(c)
  PROVE  Alone'
<1> DEFINE o == cmd[c].on
<1>1. /\ UNCHANGED <<wt, remote, run, order>> /\ c \in Running /\ cmd[c].at \in {"commit", "amend"} /\ wt = o
      /\ Commit(c) <=> cmd[c].at = "commit"
  BY DEF Commit, DropAmend, Makes, Running
<1>2. o \in Cmds /\ run[o].status # "none" /\ ~run[o].pushed
  BY <1>1 DEF Alone, Stage, Own, Kept, Amending
<1>3. head \in 1 .. Len(made) /\ Len(made) \in Nat /\ remote \in Nat /\ remote <= Len(made)
  BY CommitMakes DEF TypeOK
<1>4. PICK dev \in BOOLEAN, past \in SUBSET Nat :
        /\ Makes(c, dev, past)
        /\ \/ past = made[head].past
           \/ past = Line(head) /\ Commit(c) /\ ~Amends(c)
        /\ Commit(c) => dev = cmd[c].dev
  BY CommitMakes
<1>5. /\ Len(made') = Len(made) + 1 /\ head' = Len(made) + 1
      /\ made'[head'].dev = dev /\ made'[head'].past = past
      /\ \A d \in Cmds \ {c} : cmd'[d] = cmd[d]
  BY <1>4, MakesOne
<1>6. /\ cmd'[c].at = "record" /\ cmd'[c].sees = head' /\ cmd'[c].does = cmd[c].does
      /\ cmd'[c].flags = cmd[c].flags /\ cmd'[c].on = o /\ cmd'[c].dev = cmd[c].dev
  BY <1>4, MakesOne
<1> HIDE DEF o
<1>7. IsLast(o)
  BY <1>1, <1>2 DEF Alone, Runs
<1>8. Runs'
  BY <1>1, <1>3, <1>5 DEF Alone, Runs, IsLast
<1>9. remote # 0 => remote \notin past
  <2> SUFFICES ASSUME remote # 0 PROVE remote \notin past
    OBVIOUS
  <2>1. remote \notin made[head].past /\ remote >= 2
    BY DEF Alone, Origin
  <2>2. CASE past = made[head].past
    BY <2>1, <2>2
  <2>3. CASE past = Line(head) /\ Commit(c) /\ ~Amends(c)
    <3>1. cmd[c].does = "fix" => head = 1
      BY <1>1, <2>3 DEF Alone, Stage, Kept
    <3>2. cmd[c].does # "fix" => run[o].commit = 0
      <4>1. cmd[c].at = "commit" /\ Kept(c)
        BY <1>1, <2>3 DEF Alone, Stage
      <4>2. cmd[c].does # "fix" => cmd[c].does = "steer"
        BY <4>1 DEF Kept
      <4>3. cmd[c].does = "steer" => cmd[c].kept.commit = 0
        BY <2>3 DEF Amends
      <4> QED
        BY <4>1, <4>2, <4>3 DEF Kept, o
    <3>3. remote # head
      BY <1>7, <2>1, <3>1, <3>2 DEF Alone, Origin, IsLast
    <3> QED
      BY <2>1, <2>3, <3>3 DEF Line
  <2> QED
    BY <1>4, <2>2, <2>3
<1>10. Origin'
  BY <1>1, <1>3, <1>5, <1>9 DEF Alone, Origin
<1>11. cmd[c].does = "fix" => Commit(c) /\ run[o].eval = Has(c, "eval")
  BY <1>1 DEF Alone, Stage, Kept, Amending, o
<1>12. head' \in 2 .. Len(made') /\ head' # remote'
  BY <1>1, <1>3, <1>5
<1>13. Recording(c)'
  BY <1>1, <1>2, <1>4, <1>5, <1>6, <1>11, <1>12 DEF Recording, Has
<1>14. Own(c)'
  BY <1>1, <1>2, <1>6 DEF Own
<1>15. Stage(c)'
  BY <1>6, <1>13, <1>14 DEF Stage, Before, Kept, Amending, Pushing
<1> QED
  BY <1>1, <1>5, <1>8, <1>10, <1>15, OneSteps

\* What is pushed is the newest run's commit, and takes nothing from an earlier one.
LEMMA PushAlone ==
  ASSUME TypeOK, FixAssumption, Cut, Grown, Alone, NEW c \in Cmds, Push(c)
  PROVE  Alone'
<1> DEFINE o == cmd[c].on
<1>1. /\ UNCHANGED <<made, head, wt, run, order>> /\ c \in Running /\ cmd[c].at = "push"
      /\ remote' = head /\ (remote = 0 \/ remote \in Line(head)) /\ Goes(c, "notes")
  BY DEF Push, Running
<1>2. o \in Cmds /\ run[o].status # "none" /\ run[o].commit = head /\ head # 0
  BY <1>1 DEF Alone, Stage, Own, Pushing
<1>3. head \in 2 .. Len(made) /\ IsLast(o)
  BY <1>2 DEF Alone, Runs
<1>4. remote # 0 => remote = head
  BY <1>1 DEF Alone, Origin, Line
<1>5. head \notin made[head].past
  <2>1. head \in 1 .. Len(made) /\ head \in Nat
    BY <1>3 DEF TypeOK
  <2>2. made[head].past \subseteq 1 .. (head - 1)
    BY <2>1 DEF Grown
  <2> QED
    BY <2>1, <2>2
<1>6. cmd'[c].at = "notes" /\ (\A d \in Cmds \ {c} : cmd'[d] = cmd[d]) /\ cmd'[c].on = o
  BY <1>1, Moves DEF Places
<1> HIDE DEF o
<1>7. Runs'
  BY <1>1, <1>2, <1>4 DEF Alone, Runs, IsLast
<1>8. Origin'
  BY <1>1, <1>2, <1>3, <1>5 DEF Origin, IsLast
<1>9. Stage(c)'
  BY <1>1, <1>2, <1>6 DEF Stage, Before, Own, Kept, Amending, Recording, Pushing
<1> QED
  BY <1>1, <1>6, <1>7, <1>8, <1>9, OneSteps

\* One command at a time: every step.
LEMMA AloneStep ==
  ASSUME TypeOK, FixAssumption, Cut, Grown, Lawful, Alone, [Next]_vars, ~together'
  PROVE  Alone'
<1>1. CASE UNCHANGED vars
  <2>1. /\ cmd' = cmd /\ run' = run /\ order' = order /\ made' = made /\ head' = head
        /\ remote' = remote /\ wt' = wt /\ together' = together /\ note' = note /\ dirty' = dirty
    BY <1>1 DEF vars, repo, files
  <2>2. One' /\ Runs' /\ Origin'
    BY <2>1 DEF Alone, One, Running, Runs, IsLast, Origin
  <2>3. Prior' = Prior
    BY <2>1 DEF Prior, Newest, Counts
  <2>4. ASSUME NEW c \in Cmds PROVE Stage(c)'
    BY <2>1, <2>3 DEF Alone, Stage, Before, Left, Own, Kept, Has, Amending, Recording, Pushing, IsLast, Runs
  <2> QED
    BY <2>1, <2>2, <2>4 DEF Alone
<1>2. ASSUME NEW c \in Cmds, Begins(c) PROVE Alone'
  BY <1>2, BeginAlone, EditAlone DEF Begins
<1>3. ASSUME NEW c \in Cmds, Works(c) PROVE Alone'
  <2>1. ASSUME NEW end \in {"completed", "failed"}, NEW dev \in BOOLEAN, NEW edits \in BOOLEAN,
               Session(c, end, dev, edits)
        PROVE  Alone'
    BY <2>1, SessionAlone
  <2> QED
    BY <1>3, <2>1, RestAlone, AddAlone, PrepareAlone, StatusAlone, PushedAlone, RecordAlone, CommitAlone,
       PushAlone DEF Works
<1>4. ASSUME NEW c \in Cmds, Ends(c) PROVE Alone'
  BY <1>4, RestAlone
<1> QED
  BY <1>1, <1>2, <1>3, <1>4 DEF Next

\* That two commands have been running at one time is never forgotten.
LEMMA TogetherStays == ASSUME TypeOK, [Next]_vars, together PROVE together'
<1>1. ASSUME NEW c \in Cmds, Begins(c) PROVE together'
  BY <1>1 DEF Begins, Begin, BeginSteer, BeginDrop, Given
<1>2. ASSUME NEW c \in Cmds, Works(c) PROVE together'
  BY <1>2 DEF Works, Session, Release, Add, Prepare, DryEnds, Open, MarkFailed, Commit, Unchanged, DropAmend,
              Record, Push, UpdateNotes, RecordPushed, Tidy
<1>3. ASSUME NEW c \in Cmds, Ends(c) PROVE together'
  BY <1>3 DEF Ends
<1> QED
  BY <1>1, <1>2, <1>3 DEF Next

\* The inductive invariant: every step.
LEMMA FixStep ==
  ASSUME TypeOK, FixAssumption, Cut, FixInv, [Next]_vars
  PROVE  FixInv'
BY GrownStep, LawfulStep, AloneStep, TogetherStays DEF FixInv

\* And the beginning.
LEMMA FixInit == FixAssumption /\ Init => FixInv
<1> SUFFICES ASSUME FixAssumption, Init PROVE FixInv
  OBVIOUS
<1> DEFINE first == [dev |-> FALSE, past |-> {}]
<1>1. made = <<first>> /\ first.past = {}
  BY DEF Init
<1> HIDE DEF first
<1>2. Len(made) = 1 /\ made[1].past = {}
  BY <1>1
<1>3. Grown
  BY <1>2 DEF Grown
<1>4. \A c \in Cmds : cmd[c].at = "new" /\ cmd[c].flags = {} /\ run[c] = NoState
  BY DEF Init, Idle
<1>5. Lawful
  BY <1>4 DEF Lawful, Has
<1>6. One /\ Origin /\ remote = 0
  BY <1>4 DEF One, Running, Origin, Init
<1>7. NoState.status = "none" /\ NoState.commit = 0 /\ ~NoState.pushed
  BY DEF NoState
<1>8. Runs /\ \A c \in Cmds : Stage(c)
  BY <1>4, <1>7 DEF Runs, Stage, Before, Own, Kept, Amending, Recording, Pushing
<1> QED
  BY <1>3, <1>5, <1>6, <1>8 DEF FixInv, Alone

-----------------------------------------------------------------------------
(* What it says.                                                            *)

\* A note that says fix-pushed, or a run that says Pushed, says what origin has,
\* for every number of commands, each ending anywhere.
THEOREM PushedIsTrue == Spec => []SaysPushedTruly
<1>1. Init => TypeOK /\ Cut /\ FixInv
  BY FixAssumption, InitTypes, FixInit
<1>2. (TypeOK /\ Cut /\ FixInv) /\ [Next]_vars => (TypeOK /\ Cut /\ FixInv)'
  BY FixAssumption, TypeStep, CutStep, FixStep
<1>3. TypeOK /\ Cut /\ FixInv => SaysPushedTruly
  BY DEF Cut, FixInv, Alone, Runs, SaysPushedTruly
<1> QED
  BY <1>1, <1>2, <1>3, PTL DEF Spec

\* Only a push changes what origin has.
LEMMA RemoteKept ==
  ASSUME [Next]_vars
  PROVE  remote' = remote \/ \E c \in Cmds : Push(c)
<1>1. ASSUME NEW c \in Cmds, Begins(c) PROVE remote' = remote
  BY <1>1 DEF Begins, Begin, BeginSteer, BeginDrop
<1>2. ASSUME NEW c \in Cmds, Works(c) PROVE remote' = remote \/ Push(c)
  BY <1>2 DEF Works, Session, Release, Add, Prepare, DryEnds, Open, MarkFailed, Commit, Unchanged, DropAmend,
              Record, UpdateNotes, RecordPushed, Tidy
<1>3. ASSUME NEW c \in Cmds, Ends(c) PROVE remote' = remote
  BY <1>3 DEF Ends
<1> QED
  BY <1>1, <1>2, <1>3 DEF Next

\* What reaches the remote was on the record of a run that is no evaluation's, and
\* was accepted where its session deviated.
THEOREM PushedFromTheRecord == Spec => PushedWasOnRecord
<1> DEFINE Was == remote' # remote /\ ~together =>
                    \E c \in Running :
                      LET r == run[cmd[c].on] IN
                      /\ cmd[c].at = "push" /\ r.commit = remote' /\ ~r.eval
                      /\ made[remote'].dev => Has(c, "accept")
<1>1. Init => TypeOK /\ Cut /\ FixInv
  BY FixAssumption, InitTypes, FixInit
<1>2. (TypeOK /\ Cut /\ FixInv) /\ [Next]_vars => (TypeOK /\ Cut /\ FixInv)'
  BY FixAssumption, TypeStep, CutStep, FixStep
<1>3. (TypeOK /\ Cut /\ FixInv) /\ [Next]_vars => [Was]_vars
  <2> SUFFICES ASSUME FixInv, [Next]_vars, remote' # remote, ~together
               PROVE  \E c \in Running :
                        LET r == run[cmd[c].on] IN
                        /\ cmd[c].at = "push" /\ r.commit = remote' /\ ~r.eval
                        /\ made[remote'].dev => Has(c, "accept")
    OBVIOUS
  <2>1. PICK c \in Cmds : Push(c)
    BY RemoteKept
  <2>2. c \in Running /\ cmd[c].at = "push" /\ remote' = head
    BY <2>1 DEF Push, Running
  <2>3. Pushing(c)
    BY DEF FixInv, Alone, Stage
  <2> QED
    BY <2>2, <2>3 DEF Pushing
<1> HIDE DEF Was
<1>4. Spec => [][Was]_vars
  BY <1>1, <1>2, <1>3, PTL DEF Spec
<1> QED
  BY <1>4 DEF Was, PushedWasOnRecord

\* The newest run is the one looked at, where it is no measurement.
LEMMA LastIsPrior ==
  ASSUME TypeOK, NEW r \in Cmds, IsLast(r), Counts(r)
  PROVE  Prior = r
<1>1. order \in Seq(Cmds) /\ Len(order) \in Nat /\ Len(order) \in 1 .. Len(order) /\ order[Len(order)] = r
  BY DEF TypeOK, IsLast
<1>2. DOMAIN order = 1 .. Len(order)
  BY <1>1
<1>3. Newest(Len(order))
  BY <1>1 DEF Newest
<1>4. ASSUME NEW k \in DOMAIN order, Newest(k) PROVE k = Len(order)
  <2>1. k \in 1 .. Len(order) /\ (k < Len(order) => Len(order) \in k + 1 .. Len(order))
    BY <1>1, <1>2
  <2>2. ~(k < Len(order))
    BY <1>1, <1>4, <2>1 DEF Newest
  <2> QED
    BY <1>1, <2>1, <2>2
<1>5. (CHOOSE k \in DOMAIN order : Newest(k)) = Len(order)
  BY <1>1, <1>2, <1>3, <1>4
<1> QED
  BY <1>1, <1>2, <1>3, <1>5 DEF Prior

\* A fix told to accept, which could read the runs and the report, cuts the branch
\* again only where no completed run of the ticket has its commit on record.
THEOREM AcceptKeeps == Spec => AcceptKeepsTheCommit
<1> DEFINE Keeps == ~together /\ head # Base /\ head' = Base =>
                      \A c \in Running : 
                        cmd[c].at = "add" /\ Reviews(cmd[c].flags) /\ ~cmd[c].blind =>
                        ~\E r \in Cmds : run[r].status = "completed" /\ ~run[r].eval /\ run[r].commit = head
<1>1. Init => TypeOK /\ Cut /\ FixInv
  BY FixAssumption, InitTypes, FixInit
<1>2. (TypeOK /\ Cut /\ FixInv) /\ [Next]_vars => (TypeOK /\ Cut /\ FixInv)'
  BY FixAssumption, TypeStep, CutStep, FixStep
<1>3. (TypeOK /\ Cut /\ FixInv) => Keeps
  <2> SUFFICES ASSUME TypeOK, Cut, FixInv, ~together, NEW c \in Running, cmd[c].at = "add",
                      Reviews(cmd[c].flags), ~cmd[c].blind, NEW r \in Cmds,
                      run[r].status = "completed", ~run[r].eval, run[r].commit = head
               PROVE  FALSE
    OBVIOUS
  <2>1. ~Left(Prior)
    BY DEF FixInv, Alone, Stage, Before, Running
  <2>2. head # 0
    BY DEF Cut
  <2>3. IsLast(r)
    BY <2>2 DEF FixInv, Alone, Runs
  <2>4. Prior = r
    BY <2>3, LastIsPrior DEF Counts
  <2>5. r # NoRun
    BY FixAssumption DEF FixAssumption
  <2> QED
    BY <2>1, <2>2, <2>4, <2>5 DEF Left
<1> HIDE DEF Keeps
<1>4. Spec => [][Keeps]_vars
  BY <1>1, <1>2, <1>3, PTL DEF Spec
<1> QED
  BY <1>4 DEF Keeps, AcceptKeepsTheCommit
=============================================================================
