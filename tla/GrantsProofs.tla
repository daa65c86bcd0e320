---------------------------- MODULE GrantsProofs ----------------------------
(* Proofs about Grants: types, that an answer which lasts the run is not     *)
(* lost, that a refused call is let through on the operator's leave alone,    *)
(* and that what they answered is heard, for any calls, lists and patterns    *)
(* and any number of executions and sessions.                                *)
EXTENDS Grants, TLAPS

\* A question is about a call some answer could let through, and carries the
\* digest of that very call; so does the answer to it.
Sound(q) == q.call.parts \cap Hard = {} /\ q.digest = Digest(q.call)

\* Every question kept, and every answer given, is sound.
AllSound ==
    /\ disk.ask # None => Sound(disk.ask)
    /\ mem.ask # None => Sound(mem.ask)
    /\ ask # None => Sound(ask)
    /\ \A g \in said : Sound(g)

\* What the record, the copy and the execution hold is what the operator said;
\* the copy is no older than the record, and in a session it is the record.
Copies ==
    /\ disk.grants \cup once \subseteq said /\ mem.grants \subseteq said
    /\ disk.grants \subseteq mem.grants
    /\ pc = "idle" => mem = disk
    /\ pc = "session" => mem.grants = disk.grants

\* In a session the answer for one call is used at most once.
SpentOnce == pc = "session" => (uses = 0 \/ (uses = 1 /\ once \subseteq used))

Inv == TypeOK /\ AnswersKept /\ AllSound /\ Copies /\ SpentOnce

-----------------------------------------------------------------------------
(* The judgement.                                                           *)

\* What each verdict of Decide rests on.
LEMMA Verdicts ==
    ASSUME NEW c, NEW gs, NEW free, NEW asking
    PROVE  LET how == Judged(c, gs, free, asking)
               q   == Question(c, gs)
           IN /\ how \in {"listed", "refused", "denied", "granted", "once", "ask"}
              /\ how = "granted" => ~Denied(gs, q) /\ Granted(gs, q)
              /\ how = "once" => ~Denied(gs, q) /\ GrantedOnce(free, q)
              /\ how = "ask" => /\ ~Denied(gs, q) /\ ~Granted(gs, q) /\ ~GrantedOnce(free, q)
                                /\ Askable(q, gs)
              /\ how = "refused" => \/ ~Answerable(c)
                                    \/ ~Granted(gs, q) /\ ~GrantedOnce(free, q)
  BY DEF Judged

\* The fields of a question.
LEMMA QuestionOf ==
    ASSUME NEW c, NEW gs
    PROVE  /\ Question(c, gs).call = c
           /\ Question(c, gs).patterns = Names(c, gs)
           /\ Question(c, gs).digest = Digest(c)
  BY DEF Question

\* The fields of an answer.
LEMMA GrantOf ==
    ASSUME NEW q, NEW v
    PROVE  /\ GrantFor(q, v).verdict = v
           /\ GrantFor(q, v).call = q.call
           /\ GrantFor(q, v).patterns = q.patterns
           /\ GrantFor(q, v).digest = q.digest
  BY DEF GrantFor

\* A question's parts have their types.
LEMMA QuestionTyped ==
    ASSUME NEW c \in Calls, NEW gs
    PROVE  Question(c, gs) \in Asked
  <1>1. c.parts \subseteq Parts /\ c.text \in Texts
    BY GrantsAssumption
  <1>2. Uncovered(c, gs) \subseteq Parts
    BY <1>1 DEF Uncovered
  <1>3. \A x \in Parts : PatternOf[x] \in Patterns \cup {NoPattern}
    BY GrantsAssumption
  <1>4. Names(c, gs) \in SUBSET Patterns
    BY <1>2, <1>3 DEF Names
  <1>5. Digest(c) \in SUBSET (Parts \cup Texts)
    BY <1>1 DEF Digest
  <1> QED BY <1>4, <1>5 DEF Question, Asked

\* An answer to a question that has its type has its own.
LEMMA GrantTyped ==
    ASSUME NEW q \in Asked, NEW v \in {"allow", "allow_run", "deny"}
    PROVE  GrantFor(q, v) \in Answer
  BY DEF GrantFor, Asked, Answer

\* A call allowed by any patterns has no part that no list lets through.
LEMMA AllowedIsSoft ==
    ASSUME NEW c, NEW with, Allowed(c, with)
    PROVE  c.parts \cap Hard = {}
  BY DEF Allowed, Fits

\* The digest tells the parts that matter.
LEMMA DigestTells ==
    ASSUME NEW c \in Calls, NEW d \in Calls, SameTool(d, c),
           Digest(d) = Digest(c), d.parts \cap Hard = {}
    PROVE  c.parts \cap Hard = {}
  <1>1. d.by = c.by /\ (d.text = c.text => d.parts = c.parts)
    BY GrantsAssumption
  <1>2. CASE c.by = "targets"
    <2>1. {x \in d.parts : ~Fits({}, x)} = {x \in c.parts : ~Fits({}, x)}
      BY <1>1, <1>2 DEF Digest
    <2>2. \A x \in Hard : ~Fits({}, x)
      BY DEF Fits
    <2> QED BY <2>1, <2>2
  <1>3. CASE c.by # "targets"
    <2>1. {d.text} = {c.text}
      BY <1>1, <1>3 DEF Digest
    <2> QED BY <1>1, <2>1
  <1> QED BY <1>2, <1>3

\* What answers of this tool cover together leaves nothing hard, and a call the
\* very digest of which was allowed neither.
LEMMA GrantedIsSoft ==
    ASSUME NEW c \in Calls, NEW gs, Granted(gs, Question(c, gs)),
           \A g \in gs : g.call \in Calls /\ Sound(g)
    PROVE  c.parts \cap Hard = {}
  <1> DEFINE q == Question(c, gs)
  <1>1. CASE \E g \in ForRun(gs, q.call) : SameDigest(g, q)
    <2>1. PICK g \in gs : SameTool(g.call, c) /\ g.digest = Digest(c)
      BY <1>1, QuestionOf DEF ForRun, SameDigest, SameCall
    <2> QED BY <2>1, DigestTells DEF Sound
  <1>2. CASE Allowed(q.call, UNION {g.patterns : g \in ForRun(gs, q.call)})
    <2> DEFINE w == UNION {g.patterns : g \in ForRun(gs, q.call)}
    <2>1. Allowed(c, w)
      BY <1>2, QuestionOf
    <2> HIDE DEF w
    <2> QED BY <2>1, AllowedIsSoft
  <1> QED BY <1>1, <1>2 DEF Granted

-----------------------------------------------------------------------------
(* The invariant, action by action.                                         *)

LEMMA Initially == Init => Inv
  <1> SUFFICES ASSUME Init PROVE Inv
    OBVIOUS
  <1>1. disk = [status |-> "live", reason |-> "none", ask |-> None, grants |-> {}] /\ mem = disk
    BY DEF Init
  <1>2. disk \in State
    BY <1>1 DEF State
  <1>3. TypeOK
    BY <1>1, <1>2, GrantsAssumption DEF Init, TypeOK, NoCall
  <1>4. AnswersKept /\ AllSound /\ Copies /\ SpentOnce
    BY <1>1 DEF Init, AnswersKept, AllSound, Copies, SpentOnce
  <1> QED BY <1>3, <1>4 DEF Inv

\* finish writes a state whose grants are the copy's, and whose question is the
\* copy's or the session's.
LEMMA OverKeeps ==
    ASSUME Inv, pc \in {"waiting", "session"}, UNCHANGED policy,
           NEW status \in {"live", "blocked", "completed", "failed"},
           NEW reason \in {"none", "asking", "words", "other"},
           NEW q \in {mem.ask, ask}, reason = "asking" => q # None,
           Over(status, reason, q)
    PROVE  Inv'
  <1>1. mem \in State /\ q \in Asked \cup {None}
    BY DEF Inv, TypeOK, State
  <1>2. disk' = [mem EXCEPT !.status = status, !.reason = reason, !.ask = q] /\ mem' = disk'
    BY DEF Over
  <1>3. /\ disk'.status = status /\ disk'.reason = reason /\ disk'.ask = q
        /\ disk'.grants = mem.grants
    BY <1>1, <1>2 DEF State
  <1>4. disk' \in State
    BY <1>1, <1>2 DEF State
  <1>5. pc' = "idle" /\ once' = {} /\ UNCHANGED <<asks, executes, said>>
        /\ UNCHANGED <<used, ask, sessions, last, uses>>
    BY DEF Over, policy
  <1>6. TypeOK'
    <2>1. \A g \in disk'.grants \cup mem'.grants : g.verdict # "allow"
      BY <1>2, <1>3 DEF Inv, TypeOK
    <2> QED BY <1>2, <1>4, <1>5, <2>1 DEF Inv, TypeOK
  <1>7. AnswersKept'
    <2>1. disk.grants \subseteq mem.grants
      BY DEF Inv, Copies
    <2>2. \A g \in said : g.verdict # "allow" => g \in mem.grants
      BY <2>1 DEF Inv, AnswersKept
    <2> QED BY <1>3, <1>5, <2>2 DEF AnswersKept
  <1>8. AllSound'
    BY <1>2, <1>3, <1>5 DEF Inv, AllSound, Sound, Digest, Fits
  <1>9. Copies' /\ SpentOnce'
    BY <1>2, <1>3, <1>5 DEF Inv, Copies, SpentOnce
  <1> QED BY <1>6, <1>7, <1>8, <1>9 DEF Inv

LEMMA BeginKeeps == ASSUME Inv, Begin PROVE Inv'
  <1>1. mem \in State
    BY DEF Inv, TypeOK
  <1>2. mem' = [mem EXCEPT !.status = "live", !.reason = "none"] /\ disk' = mem'
    BY DEF Begin, Writes
  <1>3. /\ mem'.ask = mem.ask /\ mem'.grants = mem.grants /\ mem'.reason = "none"
        /\ mem' \in State
    BY <1>1, <1>2 DEF State
  <1>4. /\ pc = "waiting" /\ pc' = "session" /\ sessions' = 1 /\ ask' = None
        /\ used' = {} /\ uses' = 0 /\ last' = NoCall
        /\ UNCHANGED <<asks, once, executes, said>>
    BY DEF Begin, OpensSession
  <1>5. TypeOK'
    <2>1. \A g \in disk'.grants \cup mem'.grants : g.verdict # "allow"
      BY <1>2, <1>3 DEF Inv, TypeOK
    <2>2. 1 \in 0..MaxSessions
      BY GrantsAssumption
    <2> QED BY <1>2, <1>3, <1>4, <2>1, <2>2 DEF Inv, TypeOK, NoCall
  <1>6. AnswersKept'
    <2>1. \A g \in said : g.verdict # "allow" => g \in mem.grants
      BY DEF Inv, AnswersKept, Copies
    <2> QED BY <1>2, <1>3, <1>4, <2>1 DEF AnswersKept
  <1>7. AllSound'
    BY <1>2, <1>3, <1>4 DEF Inv, AllSound, Sound, Digest, Fits
  <1>8. Copies' /\ SpentOnce'
    BY <1>2, <1>3, <1>4 DEF Inv, Copies, SpentOnce
  <1> QED BY <1>5, <1>6, <1>7, <1>8 DEF Inv

LEMMA CallKeeps == ASSUME Inv, NEW c \in Calls, Call(c) PROVE Inv'
  <1> DEFINE how == Judged(c, mem.grants, once \ used, asks)
             q   == Question(c, mem.grants)
  <1>1. /\ pc = "session" /\ last' = [call |-> c, how |-> how]
        /\ IF how = "once" THEN Spend(c) /\ uses' = uses + 1 ELSE UNCHANGED <<used, uses>>
        /\ ask' = IF how = "ask" /\ ask = None THEN q ELSE ask
        /\ UNCHANGED <<asks, disk, mem, once, pc, executes, sessions, said>>
    BY DEF Call, run
  <1>2. how \in {"listed", "refused", "denied", "granted", "once", "ask"}
    BY Verdicts
  <1>3. q \in Asked
    BY QuestionTyped
  <1>4. used' \subseteq Answer
    BY <1>1 DEF Inv, TypeOK, Spend
  <1>5. how = "once" => once # {} /\ once \subseteq used'
    <2> SUFFICES ASSUME how = "once" PROVE once # {} /\ once \subseteq used'
      OBVIOUS
    <2>1. GrantedOnce(once \ used, q)
      BY Verdicts
    <2>2. PICK g \in once \ used : SameCall(g, c) /\ SameDigest(g, q)
      BY <2>1, QuestionOf DEF GrantedOnce
    <2>3. g \in used'
      BY <1>1, <2>2 DEF Spend
    <2> QED BY <2>2, <2>3 DEF Inv, TypeOK
  <1>6. how = "once" => uses = 0
    <2> SUFFICES ASSUME how = "once" PROVE uses = 0
      OBVIOUS
    <2>1. GrantedOnce(once \ used, q)
      BY Verdicts
    <2> QED BY <1>1, <2>1 DEF GrantedOnce, Inv, SpentOnce
  <1>7. SpentOnce'
    BY <1>1, <1>5, <1>6 DEF Inv, SpentOnce
  <1>8. how = "ask" => Sound(q)
    <2> SUFFICES ASSUME how = "ask" PROVE Sound(q)
      OBVIOUS
    <2>1. Askable(q, mem.grants)
      BY Verdicts
    <2> DEFINE w == q.patterns \cup RunPatterns(mem.grants, q.call.kind)
    <2>2. Allowed(q.call, w)
      BY <2>1 DEF Askable
    <2> HIDE DEF w
    <2>3. q.call.parts \cap Hard = {}
      BY <2>2, AllowedIsSoft
    <2> QED BY <2>3, QuestionOf DEF Sound
  <1> HIDE DEF how, q
  <1>9. TypeOK'
    <2>1. last' \in [call : Calls \cup {None},
                     how : {"none", "listed", "refused", "denied", "granted", "once", "ask"}]
      BY <1>1, <1>2
    <2>2. ask' \in Asked \cup {None}
      BY <1>1, <1>3 DEF Inv, TypeOK
    <2>3. uses' \in Nat
      BY <1>1 DEF Inv, TypeOK
    <2> QED BY <1>1, <1>4, <2>1, <2>2, <2>3 DEF Inv, TypeOK
  <1>10. AnswersKept' /\ Copies'
    BY <1>1 DEF Inv, AnswersKept, Copies
  <1>11. AllSound'
    <2>1. ask' # None => Sound(ask')
      BY <1>1, <1>8 DEF Inv, AllSound
    <2>2. ask' # None => Sound(ask)'
      BY <2>1 DEF Sound, Digest, Fits
    <2> QED BY <1>1, <2>2 DEF Inv, AllSound, Sound, Digest, Fits
  <1> QED BY <1>7, <1>9, <1>10, <1>11 DEF Inv

LEMMA ReopenKeeps == ASSUME Inv, Reopen PROVE Inv'
  <1>1. /\ pc = "session" /\ sessions < MaxSessions /\ sessions' = sessions + 1
        /\ used' = {} /\ uses' = 0 /\ last' = NoCall
        /\ UNCHANGED <<asks, disk, mem, once, pc, executes, ask, said>>
    BY DEF Reopen, OpensSession, run
  <1>2. sessions' \in 0..MaxSessions
    BY <1>1, GrantsAssumption DEF Inv, TypeOK
  <1>3. TypeOK'
    BY <1>1, <1>2 DEF Inv, TypeOK, NoCall
  <1>4. AnswersKept' /\ Copies' /\ SpentOnce'
    BY <1>1 DEF Inv, AnswersKept, Copies, SpentOnce
  <1>5. AllSound'
    BY <1>1 DEF Inv, AllSound, Sound, Digest, Fits
  <1> QED BY <1>3, <1>4, <1>5 DEF Inv

LEMMA DieKeeps == ASSUME Inv, Die PROVE Inv'
  <1>1. /\ said' = {g \in said : g \in disk.grants \/ (g.verdict = "allow" /\ g \notin once)}
        /\ mem' = disk /\ pc' = "idle" /\ once' = {}
        /\ UNCHANGED <<asks, disk, executes, used, ask, sessions, last, uses>>
    BY DEF Die, policy
  <1>2. TypeOK'
    BY <1>1 DEF Inv, TypeOK
  <1>3. AnswersKept' /\ Copies' /\ SpentOnce'
    BY <1>1 DEF Inv, AnswersKept, Copies, SpentOnce
  <1>4. AllSound'
    BY <1>1 DEF Inv, AllSound, Sound, Digest, Fits
  <1> QED BY <1>2, <1>3, <1>4 DEF Inv

\* An execution opened without a decision.
LEMMA OpensKeeps ==
    ASSUME Inv, NEW m \in {disk, [disk EXCEPT !.ask = None]}, Opens(m, {}), UNCHANGED said
    PROVE  Inv'
  <1>1. /\ pc = "idle" /\ executes < MaxExecutes /\ mem' = m /\ once' = {}
        /\ pc' = "waiting" /\ executes' = executes + 1
        /\ UNCHANGED <<asks, disk, used, ask, sessions, last, uses, said>>
    BY DEF Opens, policy
  <1>2. disk \in State /\ m \in State /\ m.grants = disk.grants /\ (m.ask = disk.ask \/ m.ask = None)
    BY DEF Inv, TypeOK, State
  <1>3. executes' \in 0..MaxExecutes
    BY <1>1, GrantsAssumption DEF Inv, TypeOK
  <1>4. TypeOK'
    BY <1>1, <1>2, <1>3 DEF Inv, TypeOK
  <1>5. AnswersKept' /\ Copies' /\ SpentOnce'
    BY <1>1, <1>2 DEF Inv, AnswersKept, Copies, SpentOnce
  <1>6. AllSound'
    BY <1>1, <1>2 DEF Inv, AllSound, Sound, Digest, Fits
  <1> QED BY <1>4, <1>5, <1>6 DEF Inv

LEMMA DecideKeeps ==
    ASSUME Inv, NEW v \in {"allow", "allow_run", "deny"}, Decide(v)
    PROVE  Inv'
  <1> DEFINE g == GrantFor(disk.ask, v)
  <1>1. /\ disk.ask # None /\ pc = "idle" /\ executes < MaxExecutes
        /\ mem' = [disk EXCEPT !.ask = None, !.grants = @ \cup Keeps(g)]
        /\ once' = {g} \ Keeps(g)
        /\ pc' = "waiting" /\ executes' = executes + 1
        /\ said' = said \cup {g}
        /\ UNCHANGED <<asks, disk, used, ask, sessions, last, uses>>
    BY DEF Decide, Opens, policy
  <1>2. disk \in State /\ disk.ask \in Asked
    BY <1>1 DEF Inv, TypeOK, State
  <1>3. g \in Answer /\ g.verdict = v
    BY <1>2, GrantTyped, GrantOf
  <1>4. /\ v = "allow" => Keeps(g) = {} /\ once' = {g}
        /\ v # "allow" => Keeps(g) = {g} /\ once' = {}
    BY <1>1, <1>3 DEF Keeps
  <1>5. Sound(g)
    BY <1>1, GrantOf DEF Inv, AllSound, Sound
  <1>6. g = GrantFor(disk.ask, g.verdict)
    BY <1>3
  <1> HIDE DEF g
  <1>7. mem'.ask = None /\ mem'.grants = disk.grants \cup Keeps(g) /\ mem' \in State
    BY <1>1, <1>2, <1>3, <1>4 DEF State
  <1>8. TypeOK'
    <2>1. executes' \in 0..MaxExecutes
      BY <1>1, GrantsAssumption DEF Inv, TypeOK
    <2>2. \A h \in disk'.grants \cup mem'.grants : h.verdict # "allow"
      BY <1>1, <1>3, <1>4, <1>7 DEF Inv, TypeOK
    <2>3. once' \in SUBSET Answer /\ \A h, k \in once' : h = k /\ h.verdict = "allow"
      BY <1>3, <1>4
    <2> QED BY <1>1, <1>3, <1>7, <2>1, <2>2, <2>3 DEF Inv, TypeOK
  <1>9. AnswersKept'
    <2>1. \A h \in said : h.verdict # "allow" => h \in disk.grants
      BY <1>1 DEF Inv, AnswersKept
    <2> QED BY <1>1, <1>3, <1>4, <1>6, <1>7, <2>1 DEF Inv, AnswersKept
  <1>10. AllSound'
    BY <1>1, <1>5, <1>7 DEF Inv, AllSound, Sound, Digest, Fits
  <1>11. Copies' /\ SpentOnce'
    BY <1>1, <1>4, <1>7 DEF Inv, Copies, SpentOnce
  <1> QED BY <1>8, <1>9, <1>10, <1>11 DEF Inv

LEMMA StutterKeeps == ASSUME Inv, UNCHANGED vars PROVE Inv'
  <1>1. /\ UNCHANGED <<asks, disk, mem, once, pc, executes>>
        /\ UNCHANGED <<used, ask, sessions, last, uses, said>>
    BY DEF vars, run, policy
  <1>2. TypeOK'
    BY <1>1 DEF Inv, TypeOK
  <1>3. AnswersKept' /\ Copies' /\ SpentOnce'
    BY <1>1 DEF Inv, AnswersKept, Copies, SpentOnce
  <1>4. AllSound'
    BY <1>1 DEF Inv, AllSound, Sound, Digest, Fits
  <1> QED BY <1>2, <1>3, <1>4 DEF Inv

LEMMA NextKeeps == ASSUME Inv, [Next]_vars PROVE Inv'
  <1>1. CASE Session
    <2>1. CASE NotStarted
      <3>1. PICK s \in {"blocked", "failed"} : Over(s, "other", mem.ask)
        BY <2>1 DEF NotStarted
      <3> QED BY <2>1, <3>1, OverKeeps DEF NotStarted
    <2> QED BY <1>1, <2>1, BeginKeeps, CallKeeps, ReopenKeeps DEF Session
  <1>2. CASE Ends
    <2>1. CASE Outranks
      <3>1. PICK e \in {<<"completed", "none">>, <<"failed", "other">>, <<"blocked", "other">>} :
              Over(e[1], e[2], mem.ask)
        BY <2>1 DEF Outranks
      <3> QED BY <2>1, <3>1, OverKeeps DEF Outranks
    <2>2. CASE Asking
      BY <2>2, OverKeeps DEF Asking
    <2>3. CASE AskingInWords
      BY <2>3, OverKeeps DEF AskingInWords
    <2> QED BY <1>2, <2>1, <2>2, <2>3, DieKeeps DEF Ends
  <1>3. CASE Operator
    <2>1. CASE AnswerInWords
      BY <2>1, OpensKeeps DEF AnswerInWords
    <2>2. CASE Resume \/ Steer
      BY <2>2, OpensKeeps DEF Resume, Steer
    <2> QED BY <1>3, <2>1, <2>2, DecideKeeps DEF Operator
  <1>4. CASE UNCHANGED vars
    BY <1>4, StutterKeeps
  <1> QED BY <1>1, <1>2, <1>3, <1>4 DEF Next

-----------------------------------------------------------------------------
(* The theorems.                                                            *)

\* The invariant holds of every state.
LEMMA Invariance == Spec => []Inv
  BY Initially, NextKeeps, PTL DEF Spec

\* Everything keeps its type; nothing that was answered for one call is kept
\* with the run.
THEOREM TypeCorrect == Spec => []TypeOK
  <1>1. Inv => TypeOK
    BY DEF Inv
  <1> QED BY <1>1, Invariance, PTL

\* Answers that last the run are in its record, or about to be with the
\* question still there (answerAsk, finish, execute).
THEOREM AnswersAreKept == Spec => []AnswersKept
  <1>1. Inv => AnswersKept
    BY DEF Inv
  <1> QED BY <1>1, Invariance, PTL

\* What of a step a judgement can be: Call is the only step that sets last to
\* anything but NoCall.
LEMMA JudgedByCall ==
    ASSUME Inv, [Next]_vars, last' # last, last'.how # "none"
    PROVE  \E c \in Calls : Call(c)
  <1>1. NoCall.how = "none"
    BY DEF NoCall
  <1>2. ~Begin /\ ~Reopen
    BY <1>1 DEF Begin, Reopen, OpensSession
  <1>3. ~NotStarted
    BY DEF NotStarted, policy
  <1>4. ~Ends
    BY DEF Ends, Outranks, Asking, AskingInWords, Die, policy
  <1>5. ~Operator
    BY DEF Operator, Decide, AnswerInWords, Resume, Steer, Opens, policy
  <1>6. ~UNCHANGED vars
    BY DEF vars, policy
  <1> QED BY <1>2, <1>3, <1>4, <1>5, <1>6 DEF Next, Session

\* What the code looks answers up by is what an answer is about.
LEMMA SameIsAbout == ASSUME NEW g, NEW c PROVE SameCall(g, c) <=> About(g, c)
  BY DEF SameCall, SameTool, About

\* A call the lists refuse goes through on the operator's leave alone.
LEMMA LeaveOfStep ==
    ASSUME Inv, NEW c \in Calls, Call(c), NEW how,
           how = Judged(c, mem.grants, once \ used, asks), how \in {"granted", "once"}
    PROVE  OnLeave(c, how, disk.grants)
  <1> DEFINE q == Question(c, mem.grants)
  <1>1. pc = "session" /\ mem.grants = disk.grants /\ disk.grants \subseteq said /\ once \subseteq said
    BY DEF Call, Inv, Copies
  <1>2. \A g \in said : g \in Answer /\ g.call \in Calls /\ g.patterns \subseteq Patterns /\ Sound(g)
    BY DEF Inv, TypeOK, AllSound, Answer
  <1>3. /\ ~Denied(mem.grants, q)
        /\ how = "granted" => Granted(mem.grants, q)
        /\ how = "once" => GrantedOnce(once \ used, q)
    BY Verdicts
  <1>4. q.call = c /\ q.patterns = Names(c, mem.grants) /\ q.digest = Digest(c)
    BY QuestionOf
  <1> HIDE DEF q
  <1>0. \A g : SameCall(g, c) <=> About(g, c)
    BY SameIsAbout
  <1>5. \A g \in disk.grants : (g.verdict = "deny" /\ SameCall(g, c)) =>
            g.digest # Digest(c) /\ g.patterns \cap Names(c, disk.grants) = {}
    BY <1>1, <1>3, <1>4 DEF Denied, SameDigest
  <1>6. \A x \in c.parts : x \notin Hard
    <2>1. CASE how = "granted"
      BY <2>1, <1>1, <1>2, <1>3, GrantedIsSoft DEF q
    <2>2. CASE how = "once"
      <3>1. PICK g \in once : SameTool(g.call, c) /\ g.digest = Digest(c)
        BY <2>2, <1>3, <1>4 DEF GrantedOnce, SameCall, SameDigest
      <3> QED BY <3>1, <1>1, <1>2, DigestTells DEF Sound
    <2> QED BY <2>1, <2>2
  <1>7. ASSUME NEW g \in disk.grants, NEW x \in c.parts,
               g.verdict = "deny", SameCall(g, c), x \notin Listed, PatternOf[x] \in g.patterns
        PROVE  c.by = "segments" /\ Fits(RunPatterns(disk.grants, c.kind), x)
    <2>1. PatternOf[x] \notin Names(c, disk.grants)
      BY <1>5, <1>7
    <2>2. PatternOf[x] # NoPattern
      BY <1>1, <1>2, <1>7, GrantsAssumption
    <2>3. x \notin Uncovered(c, disk.grants)
      BY <2>1, <2>2 DEF Names
    <2>4. ~Fits({}, x)
      BY <1>7 DEF Fits
    <2> QED BY <2>3, <2>4 DEF Uncovered
  <1>8. \/ \E g \in said : g.verdict = (IF how = "once" THEN "allow" ELSE "allow_run")
                           /\ About(g, c) /\ g.digest = Digest(c)
        \/ /\ how = "granted"
           /\ \A x \in c.parts \ Listed :
                \E g \in said : g.verdict = "allow_run" /\ About(g, c) /\ \E p \in g.patterns : x \in Reach[p]
    <2>1. CASE how = "once"
      <3>1. PICK g \in once : SameCall(g, c) /\ SameDigest(g, q)
        BY <2>1, <1>3, <1>4 DEF GrantedOnce
      <3>2. g.verdict = "allow"
        BY DEF Inv, TypeOK
      <3> QED BY <2>1, <3>1, <3>2, <1>1, <1>4, <1>0 DEF SameDigest
    <2>2. CASE how = "granted" /\ \E g \in ForRun(mem.grants, c) : SameDigest(g, q)
      <3>1. PICK g \in mem.grants : g.verdict = "allow_run" /\ SameCall(g, c) /\ SameDigest(g, q)
        BY <2>2 DEF ForRun
      <3> QED BY <2>2, <3>1, <1>1, <1>4, <1>0 DEF SameDigest
    <2>3. CASE how = "granted" /\ Allowed(c, UNION {g.patterns : g \in ForRun(mem.grants, c)})
      <3>1. ASSUME NEW x \in c.parts \ Listed
            PROVE  \E g \in said : g.verdict = "allow_run" /\ About(g, c) /\ \E p \in g.patterns : x \in Reach[p]
        <4>1. \E p \in UNION {g.patterns : g \in ForRun(mem.grants, c)} : x \in Reach[p]
          BY <2>3 DEF Allowed, Fits
        <4>2. PICK g \in ForRun(mem.grants, c) : \E p \in g.patterns : x \in Reach[p]
          BY <4>1
        <4> QED BY <4>2, <1>1, <1>0 DEF ForRun
      <3> QED BY <2>3, <3>1
    <2> QED BY <2>1, <2>2, <2>3, <1>3, <1>4 DEF Granted
  <1> QED BY <1>0, <1>5, <1>6, <1>7, <1>8 DEF OnLeave

\* A call the lists refuse is let through on the operator's leave alone
\* (Decide, find, answerAsk).
THEOREM LeaveIsGiven == Spec => OnlyOnLeave
  <1>1. ASSUME Inv, [Next]_vars, last' # last, last'.how \in {"granted", "once"}
        PROVE  OnLeave(last'.call, last'.how, disk.grants) /\ uses' <= 1
    <2>1. PICK c \in Calls : Call(c)
      BY <1>1, JudgedByCall
    <2> DEFINE how == Judged(c, mem.grants, once \ used, asks)
    <2>2. last' = [call |-> c, how |-> how]
      BY <2>1 DEF Call
    <2> HIDE DEF how
    <2>3. last'.call = c /\ last'.how = how
      BY <2>2
    <2>4. OnLeave(c, how, disk.grants)
      BY <1>1, <2>1, <2>3, LeaveOfStep DEF how
    <2>5. pc' = "session"
      BY <2>1 DEF Call, run
    <2>6. uses' <= 1
      BY <1>1, <2>5, NextKeeps DEF Inv, SpentOnce
    <2> QED BY <2>3, <2>4, <2>6
  <1>2. Inv /\ [Next]_vars =>
          [(last' # last /\ last'.how \in {"granted", "once"})
              => OnLeave(last'.call, last'.how, disk.grants) /\ uses' <= 1]_vars
    BY <1>1
  <1> QED BY <1>2, Invariance, PTL DEF Spec, OnlyOnLeave

\* What the operator answered is heard (find, askFor, resumeText).
THEOREM AnswersAreHeard == Spec => AnswersHeard
  <1>1. ASSUME Inv, [Next]_vars, last' # last, last'.how \in {"refused", "ask"}
        PROVE  LET c    == last'.call
                   ours == ForRun(said, c)
               IN /\ \A g \in ours \cup (once \ used) : SameCall(g, c) => g.digest # Digest(c)
                  /\ ~Allowed(c, UNION {g.patterns : g \in ours})
                  /\ last'.how = "ask" =>
                       \A g \in said : (g.verdict = "deny" /\ SameCall(g, c)) =>
                           g.digest # Digest(c) /\ g.patterns \cap Names(c, disk.grants) = {}
    <2>1. PICK c \in Calls : Call(c)
      BY <1>1, JudgedByCall
    <2> DEFINE how == Judged(c, mem.grants, once \ used, asks)
               q   == Question(c, mem.grants)
               w   == UNION {g.patterns : g \in ForRun(said, c)}
    <2>2. last' = [call |-> c, how |-> how]
      BY <2>1 DEF Call
    <2>3. pc = "session" /\ mem.grants = disk.grants /\ disk.grants \subseteq said
      BY <1>1, <2>1 DEF Call, Inv, Copies
    <2>4. \A g \in said : g.verdict # "allow" => g \in disk.grants
      BY <1>1, <2>3 DEF Inv, AnswersKept
    <2>5. ForRun(said, c) = ForRun(mem.grants, c)
      BY <2>3, <2>4 DEF ForRun
    <2>6. q.call = c /\ q.patterns = Names(c, mem.grants) /\ q.digest = Digest(c)
      BY QuestionOf
    <2>7. how = "ask" => ~Denied(mem.grants, q)
      BY Verdicts
    <2>8. ~Answerable(c) \/ (~Granted(mem.grants, q) /\ ~GrantedOnce(once \ used, q))
      <3>1. how \in {"refused", "ask"}
        BY <1>1, <2>2
      <3> QED BY <3>1, Verdicts
    <2> HIDE DEF how, q
    <2>9. last'.call = c /\ last'.how = how
      BY <2>2
    <2>10. ASSUME ~Answerable(c)
          PROVE  /\ \A g \in ForRun(said, c) \cup (once \ used) : SameCall(g, c) => g.digest # Digest(c)
                 /\ ~Allowed(c, w)
      <3>1. c.parts \cap Hard # {}
        BY <2>10, GrantsAssumption DEF Answerable
      <3>2. ~Allowed(c, w)
        <4> HIDE DEF w
        <4> QED BY <3>1, AllowedIsSoft
      <3>3. ASSUME NEW g \in ForRun(said, c) \cup (once \ used), SameCall(g, c), g.digest = Digest(c)
            PROVE  FALSE
        <4>1. g \in said
          BY <1>1, <3>3 DEF Inv, Copies, ForRun
        <4>2. g.call \in Calls /\ Sound(g)
          BY <1>1, <4>1 DEF Inv, TypeOK, AllSound, Answer
        <4>3. SameTool(g.call, c) /\ Digest(g.call) = Digest(c) /\ g.call.parts \cap Hard = {}
          BY <3>3, <4>2 DEF SameCall, Sound
        <4> QED BY <3>1, <4>2, <4>3, DigestTells
      <3> QED BY <3>2, <3>3
    <2>11. ASSUME ~Granted(mem.grants, q), ~GrantedOnce(once \ used, q)
          PROVE  /\ \A g \in ForRun(said, c) \cup (once \ used) : SameCall(g, c) => g.digest # Digest(c)
                 /\ ~Allowed(c, w)
      <3>1. ~Allowed(c, w)
        BY <2>11, <2>5, <2>6 DEF Granted
      <3>2. \A g \in ForRun(said, c) : g.digest # Digest(c)
        BY <2>11, <2>5, <2>6 DEF Granted, SameDigest
      <3>3. \A g \in once \ used : SameCall(g, c) => g.digest # Digest(c)
        BY <2>11, <2>6 DEF GrantedOnce, SameDigest
      <3> QED BY <3>1, <3>2, <3>3
    <2>12. how = "ask" => \A g \in said : (g.verdict = "deny" /\ SameCall(g, c)) =>
               g.digest # Digest(c) /\ g.patterns \cap Names(c, disk.grants) = {}
      BY <2>3, <2>4, <2>6, <2>7 DEF Denied, SameDigest
    <2>13. /\ \A g \in ForRun(said, c) \cup (once \ used) : SameCall(g, c) => g.digest # Digest(c)
           /\ ~Allowed(c, w)
      BY <2>8, <2>10, <2>11
    <2> QED BY <2>9, <2>12, <2>13
  <1>2. Inv /\ [Next]_vars =>
          [(last' # last /\ last'.how \in {"refused", "ask"}) =>
              LET c    == last'.call
                  ours == ForRun(said, c)
              IN
              /\ \A g \in ours \cup (once \ used) : SameCall(g, c) => g.digest # Digest(c)
              /\ ~Allowed(c, UNION {g.patterns : g \in ours})
              /\ last'.how = "ask" =>
                   \A g \in said : (g.verdict = "deny" /\ SameCall(g, c)) =>
                       g.digest # Digest(c) /\ g.patterns \cap Names(c, disk.grants) = {}]_vars
    BY <1>1
  <1> QED BY <1>2, Invariance, PTL DEF Spec, AnswersHeard
=============================================================================
