------------------------------- MODULE Grants -------------------------------
(***************************************************************************)
(* What a run may call (internal/provider policy.go, ask.go) and what its   *)
(* operator let it (internal/run ask.go, run.go, steer.go).                  *)
(*                                                                         *)
(* The policy of a session judges each call by the workspace's lists.  A    *)
(* call they refuse and a person could allow stops the session: the run is  *)
(* blocked with the question in its state.json, and a later execution       *)
(* carries the answer.  "Allow for this run" and "deny" are kept in the      *)
(* state; "allow once" only in the memory of the execution it opens.        *)
(*                                                                         *)
(* A call is its tool, the kind of question it would raise, how it is       *)
(* judged, and the parts that are judged one by one: the segments of a      *)
(* shell command, the hosts of a fetch, the directories of a read, or the   *)
(* tool's name.  Which glob fits which text is left to the constants.       *)
(***************************************************************************)
EXTENDS FiniteSets, Naturals

CONSTANTS
    Calls,
    Parts,
    Texts,         \* whole calls, as their digest tells them apart
    Patterns,
    NoPattern,     \* what a segment without a program names
    PatternOf,     \* commandPattern, the host, readDir or the tool's name
    Reach,         \* the parts a pattern fits
    Listed,        \* the parts the workspace's own lists fit
    Hard,          \* the parts no list lets through: a redirection, an IP literal
    Never,         \* of those the ones nobody is asked about: a write tool, no address
    None,
    MaxExecutes,   \* bound: executions of the run
    MaxSessions    \* bound: sessions of one execution

Kinds == {"bash", "mcp", "fetch", "tool"}

\* Any shell tool is the same, else the very tool.
SameTool(c, d) == c.kind = d.kind /\ (c.kind = "bash" \/ c.tool = d.tool)

ASSUME GrantsAssumption ==
    /\ \A c \in Calls : /\ c.kind \in Kinds /\ c.by \in {"segments", "targets", "name"}
                        /\ c.parts \subseteq Parts /\ c.text \in Texts
    /\ \A c, d \in Calls : SameTool(c, d) => c.by = d.by /\ (c.text = d.text => c.parts = d.parts)
    /\ PatternOf \in [Parts -> Patterns \cup {NoPattern}] /\ NoPattern \notin Patterns
    /\ Reach \in [Patterns -> SUBSET Parts]
    /\ Listed \subseteq Parts /\ Hard \subseteq Parts /\ Never \subseteq Hard
    /\ MaxExecutes \in Nat \ {0} /\ MaxSessions \in Nat \ {0}

VARIABLES
    asks,      \* permissions.ask, on a run somebody is there to answer for
    disk,      \* state.json: status, reason, Ask, Grants
    mem,       \* the copy an execution works on
    once,      \* prepared.once: the allow-once answer this execution carries
    pc,        \* "idle", "waiting" for the pool and the provider, or in a "session"
    used,      \* Grants.used of the session
    ask,       \* ex.ask
    executes, sessions,
    said,      \* ghost: the answers given, but those that died before anything was written
    last,      \* ghost: the call judged last, and how
    uses       \* ghost: calls this session was let make by an allow-once answer

run    == <<disk, mem, once, pc, executes>>
policy == <<used, ask, sessions, last, uses>>
vars   == <<asks, run, policy, said>>

-----------------------------------------------------------------------------
(* The workspace's lists.                                                   *)

\* One part under the lists and the patterns given beside them (matchBash,
\* DecideFetchURL, ReadScope.Resolve, DecideMCPTool).
Fits(with, x) ==
    /\ x \notin Hard
    /\ x \in Listed \/ \E p \in with : x \in Reach[p]

\* decide and allowsWith: every part has to fit, and a call that names none is
\* refused.
Allowed(c, with) == c.parts # {} /\ \A x \in c.parts : Fits(with, x)

-----------------------------------------------------------------------------
(* Questions and answers.                                                   *)

\* runPatterns: what allow-for-this-run answers of a kind have added.
RunPatterns(gs, kind) ==
    UNION {g.patterns : g \in {h \in gs : h.verdict = "allow_run" /\ h.call.kind = kind}}

\* What a question about c has to name: for a command the segments nothing
\* covers yet, for a fetch or a read what the lists alone refuse.
Uncovered(c, gs) ==
    CASE c.by = "segments" -> {x \in c.parts : ~Fits(RunPatterns(gs, c.kind), x)}
      [] c.by = "targets"  -> {x \in c.parts : ~Fits({}, x)}
      [] OTHER             -> c.parts

Names(c, gs) == {PatternOf[x] : x \in Uncovered(c, gs)} \ {NoPattern}

\* callDigest of the command or the arguments, listDigest of what was refused.
Digest(c) == IF c.by = "targets" THEN {x \in c.parts : ~Fits({}, x)} ELSE {c.text}

Question(c, gs) == [call |-> c, patterns |-> Names(c, gs), digest |-> Digest(c)]

\* What askFor makes no question of.
Answerable(c) == c.parts \cap Never = {}

\* askable: what the question names, with what the run was granted, is enough.
Askable(q, gs) ==
    q.patterns # {} /\ Allowed(q.call, q.patterns \cup RunPatterns(gs, q.call.kind))

\* GrantFor.
GrantFor(q, v) ==
    [verdict |-> v, call |-> q.call, patterns |-> q.patterns, digest |-> q.digest]

\* A slip: leave for one tool of a kind is leave for every one.
SameKind(g, c) == g.call.kind = c.kind

\* sameCall.
SameCall(g, c) == SameTool(g.call, c)

SameDigest(g, q) == g.digest = q.digest

-----------------------------------------------------------------------------
(* Grants.find, in its order: what was denied, what is allowed for the run, *)
(* and the allow-once answer if it is unspent.                              *)

Denied(gs, q) ==
    \E g \in gs : /\ g.verdict = "deny" /\ SameCall(g, q.call)
                  /\ (SameDigest(g, q) \/ g.patterns \cap q.patterns # {})

ForRun(gs, c) == {g \in gs : g.verdict = "allow_run" /\ SameCall(g, c)}

\* A slip: each answer tried by itself, so that a pipeline granted one question
\* at a time is not covered.
GrantedOneByOne(gs, q) ==
    \E g \in ForRun(gs, q.call) : SameDigest(g, q) \/ Allowed(q.call, g.patterns)

Granted(gs, q) ==
    \/ \E g \in ForRun(gs, q.call) : SameDigest(g, q)
    \/ Allowed(q.call, UNION {g.patterns : g \in ForRun(gs, q.call)})

GrantedOnce(free, q) == \E g \in free : SameCall(g, q.call) /\ SameDigest(g, q)

\* PermissionPolicy.Decide.
Judged(c, gs, free, asking) ==
    LET q == Question(c, gs) IN
    IF Allowed(c, {}) THEN "listed"
    ELSE IF ~Answerable(c) THEN "refused"
    ELSE IF Denied(gs, q) THEN "denied"
    ELSE IF Granted(gs, q) THEN "granted"
    ELSE IF GrantedOnce(free, q) THEN "once"
    ELSE IF asking /\ Askable(q, gs) THEN "ask" ELSE "refused"

-----------------------------------------------------------------------------
(* An execution.                                                            *)

NoCall == [call |-> None, how |-> "none"]

\* sessionGrants: each session gets the run's answers and this execution's, the
\* allow-once one unspent.
OpensSession == used' = {} /\ uses' = 0 /\ last' = NoCall

\* A slip: the answer left out of the state that says running.
StatusAlone == disk' = [disk EXCEPT !.status = "live", !.reason = "none"]

\* WriteState.
Writes == disk' = mem'

\* execute, when the provider has started: the run says running.
Begin ==
    /\ pc = "waiting"
    /\ mem' = [mem EXCEPT !.status = "live", !.reason = "none"]
    /\ Writes
    /\ pc' = "session" /\ sessions' = 1
    /\ ask' = None
    /\ OpensSession
    /\ UNCHANGED <<asks, once, executes, said>>

\* finish: the state is written and the execution is over.
Over(status, reason, q) ==
    /\ disk' = [mem EXCEPT !.status = status, !.reason = reason, !.ask = q]
    /\ mem' = disk'
    /\ pc' = "idle" /\ once' = {}
    /\ UNCHANGED <<asks, executes, said>>

\* Interrupted while a rate limit held it, or no session would start.
NotStarted ==
    /\ pc = "waiting"
    /\ \E s \in {"blocked", "failed"} : Over(s, "other", mem.ask)
    /\ UNCHANGED policy

\* find spends the allow-once answer it uses.
Spend(c) == used' = used \cup {g \in once : SameCall(g, c) /\ SameDigest(g, Question(c, mem.grants))}

\* One call, judged where the provider asks. A question stops the session, and
\* what it asks while it is being stopped is not put to anyone.
Call(c) ==
    /\ pc = "session"
    /\ LET how == Judged(c, mem.grants, once \ used, asks) IN
       /\ last' = [call |-> c, how |-> how]
       /\ IF how = "once" THEN Spend(c) /\ uses' = uses + 1 ELSE UNCHANGED <<used, uses>>
       /\ ask' = IF how = "ask" /\ ask = None THEN Question(c, mem.grants) ELSE ask
    /\ UNCHANGED <<asks, run, sessions, said>>

\* switchModel, or resumeForRetry: another session of the same execution. An
\* answer is not judged behind a question, but a model limit is.
Reopen ==
    /\ pc = "session" /\ sessions < MaxSessions
    /\ sessions' = sessions + 1
    /\ OpensSession
    /\ UNCHANGED <<asks, run, ask, said>>

\* How a session ends a run: the settle switch of execute, in its order. What
\* ends a note turn, a breach, a budget and an interrupt all outrank a question.
Outranks ==
    /\ pc = "session"
    /\ \E e \in {<<"completed", "none">>, <<"failed", "other">>, <<"blocked", "other">>} :
         Over(e[1], e[2], mem.ask)
    /\ UNCHANGED policy

Asking == pc = "session" /\ ask # None /\ Over("blocked", "asking", ask) /\ UNCHANGED policy

\* The run asked its operator something in words.
AskingInWords ==
    pc = "session" /\ ask = None /\ Over("blocked", "words", mem.ask) /\ UNCHANGED policy

\* The process dies, and what it did not write with it.
Die ==
    /\ pc # "idle"
    /\ said' = {g \in said : g \in disk.grants \/ (g.verdict = "allow" /\ g \notin once)}
    /\ mem' = disk
    /\ pc' = "idle" /\ once' = {}
    /\ UNCHANGED <<asks, disk, executes, policy>>

-----------------------------------------------------------------------------
(* The operator, at a run nobody works on.                                  *)

Opens(m, free) ==
    /\ pc = "idle" /\ executes < MaxExecutes
    /\ mem' = m /\ once' = free
    /\ pc' = "waiting" /\ executes' = executes + 1
    /\ UNCHANGED <<asks, disk, policy>>

\* A slip: every answer kept with the run, the one for one call too.
KeepsAny(g) == {g}

\* What an answer adds to the run's record.
Keeps(g) == IF g.verdict = "allow" THEN {} ELSE {g}

\* answerAsk. Nothing is written yet.
Decide(v) ==
    /\ disk.ask # None
    /\ LET g == GrantFor(disk.ask, v) IN
       /\ Opens([disk EXCEPT !.ask = None, !.grants = @ \cup Keeps(g)],
                {g} \ Keeps(g))
       /\ said' = said \cup {g}

\* resumeText with words: no answer is recorded and the session may ask again.
AnswerInWords == disk.ask # None /\ Opens([disk EXCEPT !.ask = None], {}) /\ UNCHANGED said

Resume == disk.ask = None /\ Opens(disk, {}) /\ UNCHANGED said

\* Steer, which refuses a live run and touches no question.
Steer == disk.status # "live" /\ Opens(disk, {}) /\ UNCHANGED said

-----------------------------------------------------------------------------

Init ==
    /\ asks \in BOOLEAN
    /\ disk = [status |-> "live", reason |-> "none", ask |-> None, grants |-> {}]
    /\ mem = disk
    /\ once = {}
    /\ pc = "waiting"
    /\ used = {} /\ ask = None
    /\ executes = 1 /\ sessions = 0
    /\ said = {} /\ last = NoCall /\ uses = 0

Session == Begin \/ NotStarted \/ (\E c \in Calls : Call(c)) \/ Reopen
Ends    == Outranks \/ Asking \/ AskingInWords \/ Die
Operator ==
    \/ \E v \in {"allow", "allow_run", "deny"} : Decide(v)
    \/ AnswerInWords \/ Resume \/ Steer

Next == Session \/ Ends \/ Operator

Spec == Init /\ [][Next]_vars

-----------------------------------------------------------------------------

Asked  == [call : Calls, patterns : SUBSET Patterns, digest : SUBSET (Parts \cup Texts)]
Answer == [verdict : {"allow", "allow_run", "deny"}, call : Calls, patterns : SUBSET Patterns,
           digest : SUBSET (Parts \cup Texts)]
State  == [status : {"live", "blocked", "completed", "failed"},
           reason : {"none", "asking", "words", "other"},
           ask : Asked \cup {None}, grants : SUBSET Answer]

\* The run's record, the execution's copy of it and the session keep their
\* types; what is kept was not given for one call, and at most one answer is.
TypeOK ==
    /\ asks \in BOOLEAN
    /\ disk \in State /\ mem \in State
    /\ once \in SUBSET Answer
    /\ \A g \in disk.grants \cup mem.grants : g.verdict # "allow"
    /\ \A g, h \in once : g = h /\ g.verdict = "allow"
    /\ pc \in {"idle", "waiting", "session"}
    /\ used \subseteq Answer
    /\ ask \in Asked \cup {None}
    /\ executes \in 0..MaxExecutes /\ sessions \in 0..MaxSessions
    /\ said \subseteq Answer
    /\ last \in [call : Calls \cup {None},
                 how : {"none", "listed", "refused", "denied", "granted", "once", "ask"}]
    /\ uses \in Nat

LetThrough == {"listed", "granted", "once"}

\* An answer is about the tools it was asked of: any shell is the same, no other
\* two tools are.
About(g, c) == g.call.kind = c.kind /\ (g.call.tool = c.tool \/ c.kind = "bash")

\* A call the lists refuse is let through on the operator's leave alone: none
\* of its parts is one no list lets through; what allows it was said of this
\* tool, and of this call or of its every part; it was not denied, and neither
\* was what one of its parts names, unless a wider answer covers that part; and
\* an allow-once answer lets one call through in a session.
OnLeave(c, how, gs) ==
    /\ \A x \in c.parts : x \notin Hard
    /\ ~\E g \in gs : g.verdict = "deny" /\ About(g, c) /\ g.digest = Digest(c)
    /\ \A g \in gs, x \in c.parts :
         (g.verdict = "deny" /\ About(g, c) /\ x \notin Listed /\ PatternOf[x] \in g.patterns)
             => c.by = "segments" /\ Fits(RunPatterns(gs, c.kind), x)
    /\ \/ \E g \in said : g.verdict = (IF how = "once" THEN "allow" ELSE "allow_run")
                          /\ About(g, c) /\ g.digest = Digest(c)
       \/ /\ how = "granted"
          /\ \A x \in c.parts \ Listed :
               \E g \in said : /\ g.verdict = "allow_run" /\ About(g, c)
                               /\ \E p \in g.patterns : x \in Reach[p]

OnlyOnLeave ==
    [][(last' # last /\ last'.how \in {"granted", "once"})
          => OnLeave(last'.call, last'.how, disk.grants) /\ uses' <= 1]_vars

\* "A refusal the operator gave is never undone by a broader allow"
\* (Grants.find): a call let through names nothing that was denied. An answer
\* that covers a segment takes it out of what the question names, and a denial
\* is looked up by what the question names, so the code does not keep this.
DenialStands ==
    [][(last' # last /\ last'.how \in {"granted", "once"}) =>
        \A g \in disk.grants, x \in last'.call.parts \ Listed :
            (g.verdict = "deny" /\ SameCall(g, last'.call)) => PatternOf[x] \notin g.patterns]_vars

\* What the operator answered is heard ("without asking again",
\* docs/blocked.md), whichever session or process had the answer: a call they
\* allowed for the run, or for once without its being used, or every part of
\* which the lists or their answers to that tool cover, is neither refused nor
\* asked about; and no question is about a call they denied, or names what they
\* denied.
AnswersHeard ==
    [][(last' # last /\ last'.how \in {"refused", "ask"}) =>
        LET c    == last'.call
            ours == ForRun(said, c)
        IN
        /\ \A g \in ours \cup (once \ used) : SameCall(g, c) => g.digest # Digest(c)
        /\ ~Allowed(c, UNION {g.patterns : g \in ours})
        /\ last'.how = "ask" =>
             \A g \in said : (g.verdict = "deny" /\ SameCall(g, c)) =>
                 g.digest # Digest(c) /\ g.patterns \cap Names(c, disk.grants) = {}]_vars

\* An answer that lasts the run is in its record from the moment the run says
\* running; before that the record still holds the question, so that a crash
\* gives the question back and loses no answer without it.
AnswersKept ==
    /\ disk.reason = "asking" => disk.ask # None
    /\ \A g \in said : g.verdict # "allow" =>
         \/ g \in disk.grants
         \/ pc = "waiting" /\ g \in mem.grants /\ disk.ask # None /\ g = GrantFor(disk.ask, g.verdict)
=============================================================================
