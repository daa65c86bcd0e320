------------------------------- MODULE Fanout -------------------------------
(***************************************************************************)
(* The event fan-out of the application service (internal/app/service.go)  *)
(* with one subscriber: a bounded channel, the run.resync markers that     *)
(* stand for what did not fit, and the window at its far end               *)
(* (desktop/frontend/src/components/run/useRunFeed.ts), which shows one    *)
(* transcript per run and re-reads a run's log when a marker says so.      *)
(*                                                                         *)
(* publish holds the service's mutex for a whole send, so sends do not     *)
(* interleave with each other; the reader takes from the channel without   *)
(* that mutex, so it may take between any two steps of a send.             *)
(***************************************************************************)
EXTENDS Integers, Sequences, FiniteSets

CONSTANTS
    Runs,        \* the runs whose lines are published
    NoRun,       \* what the run field of an event of no run holds
    Ending,      \* bound: the runs that may finish
    Buffer,      \* capacity of the subscriber's channel (Options.Buffer)
    MaxLines,    \* bound: lines written to one run's log
    MaxNotices,  \* bound: events published that no re-read can restore
    MaxBreaks,   \* bound: times the stream drops and is opened again
    CanFail      \* whether the re-read of a log (an HTTP request) may fail

ASSUME FanoutAssumption ==
    /\ NoRun \notin Runs
    /\ Ending \subseteq Runs
    /\ Buffer \in Nat \ {0}
    /\ MaxLines \in Nat /\ MaxNotices \in Nat /\ MaxBreaks \in Nat
    /\ CanFail \in BOOLEAN

VARIABLES
    log,      \* run -> lines in its events.jsonl, each published as written
    ended,    \* runs whose last run.updated, the finished one, is published
    notices,  \* quota and log events published so far
    pc,       \* where the send in progress stands, "idle" when there is none
    sending,  \* the event being sent
    swept,    \* whether this send's second flush put a marker in the channel
    cost,     \* events this send has taken off the channel
    dropped,  \* Service.dropped
    ch,       \* subscriber.ch
    pending,  \* subscriber.pending: run -> index to re-read from, or None
    told,     \* subscriber.told: runs a marker went out for
    breaks,   \* times the stream was dropped
    feed,     \* runs the window has a transcript open for
    seen,     \* run -> line indices its transcript holds
    failed,   \* runs whose first read failed, which the screen says
    reads,    \* reads of a log under way
    offered,  \* ghost: events offered to the subscriber
    taken,    \* ghost: events, markers aside, the reader took
    shed,     \* ghost: events thrown away with a dropped stream's channel
    owed,     \* ghost: run -> lines noted as missed by this subscription
    refused   \* ghost: run -> lines a re-read failed to bring

service    == <<log, ended, notices>>
send       == <<pc, sending, swept, cost>>
subscriber == <<ch, pending, told>>
window     == <<feed, seen, failed, reads>>
ghosts     == <<offered, taken, shed, owed, refused>>
vars == <<service, send, dropped, subscriber, breaks, window, ghosts>>

-----------------------------------------------------------------------------
(* What travels: a line of a run's log, a marker, a run's final update, and *)
(* a notice, which is any event that supersedes the one before it.          *)

None == -1
Event(r, i)     == [kind |-> "event", run |-> r, at |-> i]
Resync(r, from) == [kind |-> "resync", run |-> r, at |-> from]
Ended(r)        == [kind |-> "ended", run |-> r, at |-> 0]
Notice          == [kind |-> "notice", run |-> NoRun, at |-> 0]

Message ==
    [kind : {"event", "resync", "ended"}, run : Runs, at : Nat] \cup {Notice}

HasRoom == Len(ch) < Buffer

Owing == {r \in Runs : pending[r] # None}

\* subscriber.queue: the lowest index asked for stands for every hole after it.
Lower(have, at) == IF have = None \/ at < have THEN at ELSE have

Queue(r, at) == pending' = [pending EXCEPT ![r] = Lower(@, at)]

\* A slip: a marker taken off the channel treated as superseded.
LosesMarker(m) == UNCHANGED <<pending, told, owed>>

\* A marker taken off to make room goes back, and its run may be told again.
PutBack(m) ==
    /\ Queue(m.run, m.at)
    /\ told' = told \ {m.run}
    /\ UNCHANGED owed

\* A slip: the line's own index queued, so the re-read starts after it.
NoteOffByOne(m) ==
    /\ Queue(m.run, m.at)
    /\ owed' = [owed EXCEPT ![m.run] = @ \cup {m.at}]
    /\ UNCHANGED told

\* A line is to be read again from the one before it.
Note(m) ==
    /\ Queue(m.run, m.at - 1)
    /\ owed' = [owed EXCEPT ![m.run] = @ \cup {m.at}]
    /\ UNCHANGED told

\* subscriber.miss: m never reached the reader. A line is noted unless a marker
\* for its run is already out; an event no re-read restores is superseded.
Miss(m) ==
    IF m.kind = "resync" THEN PutBack(m)
    ELSE IF m.kind = "event" /\ m.run \notin told THEN Note(m)
    ELSE UNCHANGED <<pending, told, owed>>

-----------------------------------------------------------------------------
(* subscriber.send, one step per channel operation.                         *)

\* publish: the event is made and offered; a subscriber whose channel is
\* empty has drained, and may be told of a run again. With no subscriber the
\* event goes nowhere.
Offer(m) ==
    /\ pc = "idle"
    /\ sending' = m
    /\ pc' = "flush"
    /\ told' = IF ch = <<>> THEN {} ELSE told
    /\ offered' = offered + 1
    /\ UNCHANGED <<swept, cost, dropped, ch, pending, breaks, window, taken, shed,
                   owed, refused>>

\* A line written to r's events.jsonl and published.
OfferLine(r) ==
    /\ r \notin ended
    /\ log[r] < MaxLines
    /\ log' = [log EXCEPT ![r] = @ + 1]
    /\ Offer(Event(r, log[r] + 1))
    /\ UNCHANGED <<ended, notices>>

OfferNotice ==
    /\ notices < MaxNotices
    /\ notices' = notices + 1
    /\ Offer(Notice)
    /\ UNCHANGED <<log, ended>>

OfferEnded(r) ==
    /\ r \in Ending \ ended
    /\ ended' = ended \cup {r}
    /\ Offer(Ended(r))
    /\ UNCHANGED <<log, notices>>

\* subscriber.flush: one queued marker into the channel, in whatever order
\* the map gives them up.
Flush(r) ==
    /\ pc \in {"flush", "reflush"}
    /\ r \in Owing
    /\ HasRoom
    /\ ch' = Append(ch, Resync(r, pending[r]))
    /\ pending' = [pending EXCEPT ![r] = None]
    /\ told' = told \cup {r}
    /\ swept' = (swept \/ pc = "reflush")
    /\ UNCHANGED <<service, pc, sending, cost, dropped, breaks, window, ghosts>>

FlushEnds ==
    /\ pc \in {"flush", "reflush"}
    /\ Owing = {} \/ ~HasRoom
    /\ pc' = IF pc = "flush" THEN "try" ELSE "settle"
    /\ UNCHANGED <<service, sending, swept, cost, dropped, subscriber, breaks,
                   window, ghosts>>

\* send returns, and its locals go with it.
Return ==
    /\ pc' = "idle"
    /\ sending' = Notice
    /\ swept' = FALSE
    /\ cost' = 0

\* The event goes in when there is room; otherwise it is missed.
Try ==
    /\ pc = "try"
    /\ IF HasRoom
       THEN /\ ch' = Append(ch, sending)
            /\ Return
            /\ UNCHANGED <<pending, told, owed>>
       ELSE /\ Miss(sending)
            /\ pc' = "evict"
            /\ UNCHANGED <<ch, sending, swept, cost>>
    /\ UNCHANGED <<service, dropped, breaks, window, offered, taken, shed, refused>>

\* A slip: every message taken off counted, the markers too.
CostOfAny(m) == 1

\* What taking m off the channel costs the reader: a marker costs nothing.
CostOf(m) == IF m.kind = "resync" THEN 0 ELSE 1

\* The oldest queued event is taken off to make room, unless the reader has
\* emptied the channel since.
Evict ==
    /\ pc = "evict"
    /\ pc' = "reflush"
    /\ IF ch = <<>>
       THEN UNCHANGED <<cost, subscriber, owed>>
       ELSE /\ Miss(Head(ch))
            /\ ch' = Tail(ch)
            /\ cost' = CostOf(Head(ch))
    /\ UNCHANGED <<service, sending, swept, dropped, breaks, window, offered,
                   taken, shed, refused>>

\* A marker took the room, or the event itself does.
Settle ==
    /\ pc = "settle"
    /\ Return
    /\ LET fits == ~swept /\ HasRoom IN
       /\ ch' = IF fits THEN Append(ch, sending) ELSE ch
       /\ dropped' = dropped + cost + (IF fits THEN 0 ELSE 1)
    /\ UNCHANGED <<service, pending, told, breaks, window, ghosts>>

Publisher ==
    \/ \E r \in Runs : OfferLine(r) \/ OfferEnded(r)
    \/ OfferNotice
    \/ \E r \in Runs : Flush(r)
    \/ FlushEnds
    \/ Try
    \/ Evict
    \/ Settle

-----------------------------------------------------------------------------
(* The reader: the stream handler's loop and the transcripts behind it.     *)

\* A read of r's log after an index: the first one, or one a marker asked for;
\* upto is the last line the service found, None until it has looked.
Asking(r, from, first) == [run |-> r, from |-> from, first |-> first, upto |-> None]

Read == [run : Runs, from : Nat, first : BOOLEAN, upto : Nat \cup {None}]

Lines(r, from, upto) == {i \in 1..upto : i > from}

Loading(r) == \E q \in reads : q.run = r /\ q.first

\* A slip: a transcript that listens once its first read is back.
ListeningLate(r) == r \in feed /\ ~Loading(r)

\* A transcript takes lines and markers from the moment it is opened.
Listening(r) == r \in feed

Take ==
    /\ ch # <<>>
    /\ ch' = Tail(ch)
    /\ LET m == Head(ch) IN
       /\ taken' = taken + CostOf(m)
       /\ IF ~Listening(m.run) THEN UNCHANGED <<seen, reads>>
          ELSE
          /\ seen' = IF m.kind = "event"
                     THEN [seen EXCEPT ![m.run] = @ \cup {m.at}] ELSE seen
          /\ reads' = IF m.kind = "resync"
                      THEN reads \cup {Asking(m.run, m.at, FALSE)} ELSE reads
    /\ UNCHANGED <<service, send, dropped, pending, told, breaks, feed, failed,
                   offered, shed, owed, refused>>

\* useRunFeed's effect: it subscribes, then asks for the log from its start.
Open(r) ==
    /\ r \notin feed
    /\ feed' = feed \cup {r}
    /\ reads' = reads \cup {Asking(r, 0, TRUE)}
    /\ UNCHANGED <<service, send, dropped, subscriber, breaks, seen, failed,
                   ghosts>>

\* Service.Events reads the log ...
Serve(q) ==
    /\ q.upto = None
    /\ reads' = (reads \ {q}) \cup {[q EXCEPT !.upto = log[q.run]]}
    /\ UNCHANGED <<service, send, dropped, subscriber, breaks, feed, seen, failed,
                   ghosts>>

\* ... and its page arrives: the index dedupe absorbs what is already there.
Answer(q) ==
    /\ q.upto # None
    /\ reads' = reads \ {q}
    /\ seen' = [seen EXCEPT ![q.run] = @ \cup Lines(q.run, q.from, q.upto)]
    /\ UNCHANGED <<service, send, dropped, subscriber, breaks, feed, failed,
                   ghosts>>

\* A first read that fails is said on the screen; a marker's that fails is
\* swallowed, and the transcript keeps what it has.
Fail(q) ==
    /\ CanFail
    /\ reads' = reads \ {q}
    /\ IF q.first
       THEN failed' = failed \cup {q.run} /\ UNCHANGED refused
       ELSE /\ refused' = [refused EXCEPT ![q.run] =
                             @ \cup Lines(q.run, q.from, log[q.run])]
            /\ UNCHANGED failed
    /\ UNCHANGED <<service, send, dropped, subscriber, breaks, feed, seen,
                   offered, taken, shed, owed>>

\* The stream drops and the browser opens it again: a new subscription, with
\* nothing pending. The transcripts are not told.
Break ==
    /\ breaks < MaxBreaks
    /\ pc = "idle"
    /\ breaks' = breaks + 1
    /\ ch' = <<>>
    /\ pending' = [r \in Runs |-> None]
    /\ told' = {}
    /\ shed' = shed + Cardinality({k \in 1..Len(ch) : ch[k].kind # "resync"})
    /\ owed' = [r \in Runs |-> {}]
    /\ UNCHANGED <<service, send, dropped, window, offered, taken, refused>>

Window ==
    \/ Take
    \/ \E r \in Runs : Open(r)
    \/ \E q \in reads : Serve(q) \/ Answer(q) \/ Fail(q)
    \/ Break

-----------------------------------------------------------------------------

Init ==
    /\ log = [r \in Runs |-> 0]
    /\ ended = {}
    /\ notices = 0
    /\ pc = "idle"
    /\ sending = Notice
    /\ swept = FALSE
    /\ cost = 0
    /\ dropped = 0
    /\ ch = <<>>
    /\ pending = [r \in Runs |-> None]
    /\ told = {}
    /\ breaks = 0
    /\ feed = {}
    /\ seen = [r \in Runs |-> {}]
    /\ failed = {}
    /\ reads = {}
    /\ offered = 0
    /\ taken = 0
    /\ shed = 0
    /\ owed = [r \in Runs |-> {}]
    /\ refused = [r \in Runs |-> {}]

Next == Publisher \/ Window

Spec == Init /\ [][Next]_vars

\* A send runs to its end, the stream handler keeps taking while it is
\* connected, and a re-read is answered. Nothing says an event is ever
\* published again, or that a transcript is opened.
FairSpec ==
    /\ Spec
    /\ WF_vars((\E r \in Runs : Flush(r)) \/ FlushEnds \/ Try \/ Evict \/ Settle)
    /\ WF_vars(Take)
    /\ WF_vars(\E q \in reads : Serve(q) \/ Answer(q))

-----------------------------------------------------------------------------

\* The state has its shape: the channel never exceeds its buffer.
TypeOK ==
    /\ log \in [Runs -> Nat]
    /\ ended \subseteq Runs
    /\ notices \in Nat
    /\ pc \in {"idle", "flush", "try", "evict", "reflush", "settle"}
    /\ sending \in Message
    /\ swept \in BOOLEAN
    /\ cost \in {0, 1}
    /\ dropped \in Nat
    /\ ch \in Seq(Message) /\ Len(ch) <= Buffer
    /\ pending \in [Runs -> Nat \cup {None}]
    /\ told \subseteq Runs
    /\ breaks \in Nat
    /\ feed \subseteq Runs /\ failed \subseteq feed
    /\ seen \in [Runs -> SUBSET Nat]
    /\ reads \subseteq Read
    /\ offered \in Nat /\ taken \in Nat /\ shed \in Nat
    /\ owed \in [Runs -> SUBSET Nat]
    /\ refused \in [Runs -> SUBSET Nat]

\* A line r's transcript will have: it is there, a marker for an index before
\* it is queued or on its way, or a re-read from before it is under way.
Covered(r, i) ==
    \/ i \in seen[r]
    \/ pending[r] # None /\ pending[r] < i
    \/ \E k \in 1..Len(ch) : ch[k].kind = "resync" /\ ch[k].run = r /\ ch[k].at < i
    \/ \E q \in reads : q.run = r /\ q.from < i /\ (q.upto = None \/ i <= q.upto)

\* A line still to be delivered as itself.
Coming(r, i) ==
    \/ \E k \in 1..Len(ch) : ch[k] = Event(r, i)
    \/ sending = Event(r, i)

\* A line noted as missed stays covered until the transcript has it, or a
\* re-read for it fails: a marker taken off a full channel is put back, whoever
\* overtakes it ("Losing it is the one thing this must not do",
\* subscriber.miss).
OwedStaysCovered ==
    \A r \in feed \ failed : \A i \in owed[r] \ refused[r] : Covered(r, i)

\* Service.dropped is exact: every event offered was taken by the reader, is
\* queued, is in the send under way, went with a broken stream, or is counted
\* once, whatever the reader took while the send ran.
DroppedIsExact ==
    LET queued == Cardinality({k \in 1..Len(ch) : ch[k].kind # "resync"}) IN
    offered = taken + queued + dropped + shed
                + (IF pc = "idle" THEN 0 ELSE 1 + cost)

\* Every published line of an open transcript is there, coming or covered.
NoHole ==
    \A r \in feed \ failed : \A i \in 1..log[r] : Covered(r, i) \/ Coming(r, i)

\* A transcript opened at any moment has no hole while no stream broke and
\* nothing overflowed: it listens before it asks for the log's beginning, so
\* a line written between the two is in one or the other.
NoHoleWithinBuffer ==
    (dropped = 0 /\ breaks = 0 /\ cost = 0 /\ pc \notin {"evict", "reflush", "settle"})
        => NoHole

\* A line noted as missed reaches the transcript in the end, though nothing
\* more is published ("It goes out as a run.resync as soon as the channel has
\* room", subscriber.pending), unless its re-read failed, the stream broke, or
\* lines of another run were missed too, whose marker may take the room.
OwedIsShown ==
    \A r \in Runs : \A i \in 1..MaxLines :
        (r \in feed /\ i \in owed[r]) ~>
            \/ i \in seen[r] \cup refused[r] \/ r \in failed
            \/ i \notin owed[r]
            \/ \E q \in Runs \ {r} : owed[q] # {}
=============================================================================
