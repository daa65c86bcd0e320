----------------------------- MODULE FeedProofs -----------------------------
(***************************************************************************)
(* What holds of the feed of a run, from its log to the window.            *)
(*                                                                         *)
(* Of the fan-out, for every buffer, number of runs, lines and broken      *)
(* streams: the types, that no event is lost from the count, that a line   *)
(* noted as missed stays on its way to the transcript, and that a stream   *)
(* that never overflowed nor broke leaves no hole.                         *)
(*                                                                         *)
(* Of the published log, for every number of lines, turns, asides and      *)
(* polls: the types, that it is the file where one kind of host writes it, *)
(* and that a run of the command line has each line published once.        *)
(***************************************************************************)
EXTENDS Fanout, LiveLog, FiniteSetTheorems, TLAPS

USE DEF vars, service, send, subscriber, window, ghosts

-----------------------------------------------------------------------------
(* The invariant.                                                           *)

\* A line that is sent, queued or noted was written.
Written(m) == m.kind = "event" => m.at \in 1 .. log[m.run]
Real ==
    /\ Written(sending)
    /\ \A k \in 1 .. Len(ch) : Written(ch[k])
    /\ \A r \in Runs : owed[r] \subseteq 1 .. log[r]

\* What a send is at: no marker, and nothing taken off before the eviction.
Sent ==
    /\ sending.kind # "resync"
    /\ pc \in {"idle", "flush", "try", "evict"} => cost = 0

\* Only an open transcript is read for.
Asked == \A q \in reads : q.run \in feed

Shapes == TypeOK /\ Real /\ Sent /\ Asked

-----------------------------------------------------------------------------
(* The shapes.                                                              *)

LEMMA MessageKinds ==
  ASSUME NEW m \in Message
  PROVE /\ m.kind \in {"event", "resync", "ended", "notice"}
        /\ m.kind # "notice" => m.run \in Runs /\ m.at \in Nat
        /\ m.kind = "notice" => m = Notice
BY DEF Message, Notice

LEMMA LowerType ==
  ASSUME NEW have \in Nat \cup {None}, NEW asked \in Nat
  PROVE /\ Lower(have, asked) \in Nat
        /\ Lower(have, asked) <= asked
        /\ have # None => Lower(have, asked) <= have
BY DEF Lower, None

\* What a message that did not reach the reader leaves.
LEMMA MissShapes ==
  ASSUME Shapes, NEW m \in Message, Written(m), Miss(m)
  PROVE /\ pending' \in [Runs -> Nat \cup {None}]
        /\ told' \subseteq Runs
        /\ owed' \in [Runs -> SUBSET Nat]
        /\ \A r \in Runs : owed'[r] \subseteq 1 .. log[r]
<1>1. CASE m.kind = "resync"
  <2>1. m.run \in Runs /\ m.at \in Nat
    BY <1>1, MessageKinds
  <2>2. Lower(pending[m.run], m.at) \in Nat
    BY <2>1, LowerType DEF Shapes, TypeOK
  <2>3. pending' = [pending EXCEPT ![m.run] = Lower(pending[m.run], m.at)]
        /\ told' = told \ {m.run} /\ UNCHANGED owed
    BY <1>1 DEF Miss, PutBack, Queue
  <2> QED
    BY <2>1, <2>2, <2>3 DEF Shapes, TypeOK, Real
<1>2. CASE m.kind = "event" /\ m.run \notin told
  <2>1. m.run \in Runs /\ m.at \in Nat /\ m.at \in 1 .. log[m.run] /\ log[m.run] \in Nat
    BY <1>2, MessageKinds DEF Written, Shapes, TypeOK
  <2>0. m.at - 1 \in Nat /\ pending[m.run] \in Nat \cup {None}
    BY <2>1 DEF Shapes, TypeOK
  <2>2. Lower(pending[m.run], m.at - 1) \in Nat
    BY <2>0, LowerType
  <2>3. /\ pending' = [pending EXCEPT ![m.run] = Lower(pending[m.run], m.at - 1)]
        /\ owed' = [owed EXCEPT ![m.run] = owed[m.run] \cup {m.at}] /\ UNCHANGED told
    BY <1>2 DEF Miss, Note, Queue
  <2> QED
    BY <2>1, <2>2, <2>3 DEF Shapes, TypeOK, Real
<1>3. CASE m.kind # "resync" /\ ~(m.kind = "event" /\ m.run \notin told)
  BY <1>3 DEF Miss, Shapes, TypeOK, Real
<1> QED
  BY <1>1, <1>2, <1>3

\* What taking one message of the channel leaves in it.
LEMMA TailShapes ==
  ASSUME Shapes, ch # << >>
  PROVE /\ Head(ch) \in Message /\ Written(Head(ch))
        /\ Tail(ch) \in Seq(Message) /\ Len(Tail(ch)) = Len(ch) - 1 /\ Len(ch) \in Nat \ {0}
        /\ \A k \in 1 .. Len(Tail(ch)) : Tail(ch)[k] = ch[k + 1] /\ k + 1 \in 1 .. Len(ch)
        /\ Head(ch) = ch[1]
<1>1. ch \in Seq(Message)
  BY DEF Shapes, TypeOK
<1>2. Len(ch) \in Nat \ {0} /\ Head(ch) = ch[1] /\ Tail(ch) \in Seq(Message)
      /\ Len(Tail(ch)) = Len(ch) - 1
  BY <1>1
<1>3. \A k \in 1 .. Len(Tail(ch)) : Tail(ch)[k] = ch[k + 1] /\ k + 1 \in 1 .. Len(ch)
  BY <1>1, <1>2
<1>4. Head(ch) \in Message /\ Written(Head(ch))
  BY <1>1, <1>2 DEF Shapes, Real
<1> QED
  BY <1>2, <1>3, <1>4

\* What one message more leaves in it.
LEMMA AppendShapes ==
  ASSUME Shapes, NEW m \in Message
  PROVE /\ Append(ch, m) \in Seq(Message) /\ Len(Append(ch, m)) = Len(ch) + 1
        /\ \A k \in 1 .. Len(ch) : Append(ch, m)[k] = ch[k]
        /\ Append(ch, m)[Len(ch) + 1] = m
        /\ Len(ch) \in Nat
BY DEF Shapes, TypeOK

\* The channel once one message was taken off, or put in.
LEMMA TailReal ==
  ASSUME Shapes, ch # << >>, ch' = Tail(ch), UNCHANGED log
  PROVE /\ ch' \in Seq(Message) /\ Len(ch') <= Buffer
        /\ \A k \in 1 .. Len(ch') : Written(ch[k + 1]) /\ ch'[k] = ch[k + 1]
<1>1. Len(ch) <= Buffer /\ Buffer \in Nat
  BY FanoutAssumption DEF Shapes, TypeOK
<1> QED
  BY <1>1, TailShapes DEF Shapes, Real

LEMMA AppendReal ==
  ASSUME Shapes, NEW m \in Message, Written(m), HasRoom, ch' = Append(ch, m), UNCHANGED log
  PROVE /\ ch' \in Seq(Message) /\ Len(ch') <= Buffer
        /\ \A k \in 1 .. Len(ch') : Written(ch'[k])
<1>1. Len(ch) < Buffer /\ Buffer \in Nat
  BY FanoutAssumption DEF HasRoom
<1>2. \A k \in 1 .. Len(ch') : k \in 1 .. Len(ch) \/ k = Len(ch) + 1
  BY AppendShapes
<1>3. \A k \in 1 .. Len(ch') : Written(ch'[k])
  BY <1>2, AppendShapes DEF Shapes, Real
<1> QED
  BY <1>1, <1>3, AppendShapes


LEMMA OfferShapes ==
  ASSUME Shapes, NEW m \in Message, m.kind # "resync", Offer(m),
         log' \in [Runs -> Nat], \A r \in Runs : log[r] <= log'[r],
         m.kind = "event" => m.at \in 1 .. log'[m.run],
         ended' \subseteq Runs, notices' \in Nat
  PROVE Shapes'
<1> USE DEF Offer
<1>1. TypeOK'
  BY DEF Shapes, TypeOK
<1>2. \A n \in Message : Written(n) => (n.kind = "event" => n.at \in 1 .. log'[n.run])
  <2> SUFFICES ASSUME NEW n \in Message, Written(n), n.kind = "event"
               PROVE n.at \in 1 .. log'[n.run]
    OBVIOUS
  <2>1. n.run \in Runs
    BY MessageKinds
  <2>2. log[n.run] \in Nat /\ log'[n.run] \in Nat /\ log[n.run] <= log'[n.run]
    BY <2>1 DEF Shapes, TypeOK
  <2>3. n.at \in 1 .. log[n.run]
    BY DEF Written
  <2> QED
    BY <2>2, <2>3
<1>3. Real'
  <2>1. Written(sending)'
    BY DEF Written
  <2>2. \A k \in 1 .. Len(ch) : ch[k] \in Message /\ Written(ch[k])
    BY DEF Shapes, TypeOK, Real
  <2>3. \A k \in 1 .. Len(ch') : Written(ch[k])'
    BY <1>2, <2>2 DEF Written
  <2>4. ASSUME NEW r \in Runs PROVE owed'[r] \subseteq 1 .. log'[r]
    <3>1. log[r] \in Nat /\ log'[r] \in Nat /\ log[r] <= log'[r]
      BY DEF Shapes, TypeOK
    <3>2. owed[r] \subseteq 1 .. log[r]
      BY DEF Shapes, Real
    <3> QED
      BY <3>1, <3>2
  <2> QED
    BY <2>1, <2>3, <2>4 DEF Real
<1>4. Sent' /\ Asked'
  BY DEF Shapes, Sent, Asked
<1> QED
  BY <1>1, <1>3, <1>4 DEF Shapes

LEMMA PublisherShapes ==
  ASSUME Shapes, Publisher
  PROVE Shapes'
<1>1. ASSUME NEW r \in Runs, OfferLine(r) PROVE Shapes'
  <2>1. log[r] \in Nat /\ log' = [log EXCEPT ![r] = log[r] + 1]
    BY <1>1 DEF OfferLine, Shapes, TypeOK
  <2>2. Event(r, log[r] + 1) \in Message /\ Event(r, log[r] + 1).kind = "event"
        /\ Event(r, log[r] + 1).run = r /\ Event(r, log[r] + 1).at = log[r] + 1
    BY <2>1 DEF Event, Message
  <2>3. log' \in [Runs -> Nat] /\ log'[r] = log[r] + 1
        /\ \A n \in Runs : log[n] \in Nat /\ log[n] <= log'[n]
    BY <2>1 DEF Shapes, TypeOK
  <2>4. ended' \subseteq Runs /\ notices' \in Nat /\ Offer(Event(r, log[r] + 1))
    BY <1>1 DEF OfferLine, Shapes, TypeOK
  <2>5. Event(r, log[r] + 1).at \in 1 .. log'[Event(r, log[r] + 1).run]
    BY <2>1, <2>2, <2>3
  <2> QED
    BY <2>2, <2>3, <2>4, <2>5, OfferShapes
<1>2. ASSUME NEW r \in Runs, OfferEnded(r) PROVE Shapes'
  <2>1. Ended(r) \in Message /\ Ended(r).kind = "ended"
    BY DEF Ended, Message
  <2>2. /\ ended' \subseteq Runs /\ notices' \in Nat /\ Offer(Ended(r))
        /\ log' \in [Runs -> Nat] /\ \A n \in Runs : log[n] <= log'[n]
    BY <1>2 DEF OfferEnded, Shapes, TypeOK
  <2> QED
    BY <2>1, <2>2, OfferShapes
<1>3. CASE OfferNotice
  <2>1. Notice \in Message /\ Notice.kind = "notice"
    BY DEF Notice, Message
  <2>2. /\ ended' \subseteq Runs /\ notices' \in Nat /\ Offer(Notice)
        /\ log' \in [Runs -> Nat] /\ \A n \in Runs : log[n] <= log'[n]
    BY <1>3 DEF OfferNotice, Shapes, TypeOK
  <2> QED
    BY <2>1, <2>2, OfferShapes
<1>4. ASSUME NEW r \in Runs, Flush(r) PROVE Shapes'
  <2>1. pending[r] \in Nat
    BY <1>4 DEF Flush, Owing, Shapes, TypeOK
  <2>2. Resync(r, pending[r]) \in Message /\ Written(Resync(r, pending[r]))
    BY <2>1 DEF Resync, Message, Written
  <2>3. /\ ch' \in Seq(Message) /\ Len(ch') <= Buffer
        /\ \A k \in 1 .. Len(ch') : Written(ch'[k])
    BY <1>4, <2>2, AppendReal DEF Flush
  <2>4. TypeOK'
    BY <1>4, <2>3 DEF Flush, Shapes, TypeOK, None
  <2>5. Real'
    BY <1>4, <2>3 DEF Flush, Shapes, Real, Written
  <2>6. Sent' /\ Asked'
    BY <1>4 DEF Flush, Shapes, Sent, Asked
  <2> QED
    BY <2>4, <2>5, <2>6 DEF Shapes
<1>5. CASE FlushEnds
  <2>1. TypeOK'
    BY <1>5 DEF FlushEnds, Shapes, TypeOK
  <2>2. Real' /\ Sent' /\ Asked'
    BY <1>5 DEF FlushEnds, Shapes, Real, Sent, Asked, Written
  <2> QED
    BY <2>1, <2>2 DEF Shapes
<1>n. Notice \in Message /\ Notice.kind = "notice"
  BY DEF Notice, Message
<1>m. sending \in Message /\ Written(sending)
  BY DEF Shapes, TypeOK, Real
<1>6. CASE Try /\ HasRoom
  <2>1. /\ ch' \in Seq(Message) /\ Len(ch') <= Buffer
        /\ \A k \in 1 .. Len(ch') : Written(ch'[k])
    BY <1>6, <1>m, AppendReal DEF Try
  <2>2. TypeOK'
    BY <1>6, <1>n, <2>1 DEF Try, Return, Shapes, TypeOK
  <2>3. Real'
    BY <1>6, <1>n, <2>1 DEF Try, Return, Shapes, Real, Written
  <2>4. Sent' /\ Asked'
    BY <1>6, <1>n DEF Try, Return, Shapes, Sent, Asked
  <2> QED
    BY <2>2, <2>3, <2>4 DEF Shapes
<1>7. CASE Try /\ ~HasRoom
  <2>1. /\ pending' \in [Runs -> Nat \cup {None}] /\ told' \subseteq Runs
        /\ owed' \in [Runs -> SUBSET Nat] /\ \A r \in Runs : owed'[r] \subseteq 1 .. log[r]
    BY <1>7, <1>m, MissShapes DEF Try
  <2>2. TypeOK'
    BY <1>7, <2>1 DEF Try, Shapes, TypeOK
  <2>3. Real'
    BY <1>7, <2>1 DEF Try, Shapes, Real, Written
  <2>4. Sent' /\ Asked'
    BY <1>7 DEF Try, Shapes, Sent, Asked
  <2> QED
    BY <2>2, <2>3, <2>4 DEF Shapes
<1>8. CASE Evict /\ ch = << >>
  <2>1. TypeOK'
    BY <1>8 DEF Evict, Shapes, TypeOK
  <2>2. Real' /\ Sent' /\ Asked'
    BY <1>8 DEF Evict, Shapes, Real, Sent, Asked, Written
  <2> QED
    BY <2>1, <2>2 DEF Shapes
<1>9. CASE Evict /\ ch # << >>
  <2>1. /\ pending' \in [Runs -> Nat \cup {None}] /\ told' \subseteq Runs
        /\ owed' \in [Runs -> SUBSET Nat] /\ \A r \in Runs : owed'[r] \subseteq 1 .. log[r]
    BY <1>9, TailShapes, MissShapes DEF Evict
  <2>2. /\ ch' \in Seq(Message) /\ Len(ch') <= Buffer
        /\ \A k \in 1 .. Len(ch') : Written(ch[k + 1]) /\ ch'[k] = ch[k + 1]
    BY <1>9, TailReal DEF Evict
  <2>3. cost' \in {0, 1}
    BY <1>9 DEF Evict, CostOf
  <2>4. TypeOK'
    BY <1>9, <2>1, <2>2, <2>3 DEF Evict, Shapes, TypeOK
  <2>5. Real'
    BY <1>9, <2>1, <2>2 DEF Evict, Shapes, Real, Written
  <2>6. Sent' /\ Asked'
    BY <1>9 DEF Evict, Shapes, Sent, Asked
  <2> QED
    BY <2>4, <2>5, <2>6 DEF Shapes
<1>10. CASE Settle
  <2>1. dropped' \in Nat
    BY <1>10 DEF Settle, Shapes, TypeOK
  <2>2. /\ ch' \in Seq(Message) /\ Len(ch') <= Buffer
        /\ \A k \in 1 .. Len(ch') : Written(ch'[k])
    <3>1. CASE ~swept /\ HasRoom
      BY <1>10, <3>1, <1>m, AppendReal DEF Settle
    <3>2. CASE ~(~swept /\ HasRoom)
      BY <1>10, <3>2 DEF Settle, Shapes, TypeOK, Real
    <3> QED
      BY <3>1, <3>2
  <2>3. TypeOK'
    BY <1>10, <1>n, <2>1, <2>2 DEF Settle, Return, Shapes, TypeOK
  <2>4. Real'
    BY <1>10, <1>n, <2>2 DEF Settle, Return, Shapes, Real, Written
  <2>5. Sent' /\ Asked'
    BY <1>10, <1>n DEF Settle, Return, Shapes, Sent, Asked
  <2> QED
    BY <2>3, <2>4, <2>5 DEF Shapes
<1> QED
  BY <1>1, <1>2, <1>3, <1>4, <1>5, <1>6, <1>7, <1>8, <1>9, <1>10 DEF Publisher

LEMMA WindowShapes ==
  ASSUME Shapes, Window
  PROVE Shapes'
<1>1. CASE Take
  <2>1. /\ ch' \in Seq(Message) /\ Len(ch') <= Buffer
        /\ \A k \in 1 .. Len(ch') : Written(ch[k + 1]) /\ ch'[k] = ch[k + 1]
    BY <1>1, TailReal DEF Take
  <2>2. taken' \in Nat
    BY <1>1 DEF Take, CostOf, Shapes, TypeOK
  <2>3. seen' \in [Runs -> SUBSET Nat] /\ reads' \subseteq Read /\ \A q \in reads' : q.run \in feed
    <3> DEFINE m == Head(ch)
    <3>1. CASE ~Listening(m.run)
      BY <1>1, <3>1 DEF Take, Shapes, TypeOK, Asked
    <3>2. CASE Listening(m.run) /\ m.kind = "event"
      <4>1. m.run \in Runs /\ m.at \in Nat
        BY <1>1, <3>2, TailShapes, MessageKinds DEF Take
      <4>2. seen' = [seen EXCEPT ![m.run] = seen[m.run] \cup {m.at}] /\ reads' = reads
        BY <1>1, <3>2 DEF Take
      <4> QED
        BY <4>1, <4>2 DEF Shapes, TypeOK, Asked
    <3>3. CASE Listening(m.run) /\ m.kind = "resync"
      <4>1. m.run \in Runs /\ m.at \in Nat /\ m.run \in feed
        BY <1>1, <3>3, TailShapes, MessageKinds DEF Take, Listening
      <4>2. seen' = seen /\ reads' = reads \cup {Asking(m.run, m.at, FALSE)}
        BY <1>1, <3>3 DEF Take
      <4>3. Asking(m.run, m.at, FALSE) \in Read /\ Asking(m.run, m.at, FALSE).run = m.run
        BY <4>1 DEF Asking, Read
      <4> QED
        BY <4>1, <4>2, <4>3 DEF Shapes, TypeOK, Asked
    <3>4. CASE Listening(m.run) /\ m.kind \notin {"event", "resync"}
      BY <1>1, <3>4 DEF Take, Shapes, TypeOK, Asked
    <3> QED
      BY <3>1, <3>2, <3>3, <3>4
  <2>4. TypeOK'
    BY <1>1, <2>1, <2>2, <2>3 DEF Take, Shapes, TypeOK
  <2>5. Real'
    BY <1>1, <2>1 DEF Take, Shapes, Real, Written
  <2>6. Sent' /\ Asked'
    BY <1>1, <2>3 DEF Take, Shapes, Sent, Asked
  <2> QED
    BY <2>4, <2>5, <2>6 DEF Shapes
<1>2. ASSUME NEW r \in Runs, Open(r) PROVE Shapes'
  <2>1. Asking(r, 0, TRUE) \in Read /\ Asking(r, 0, TRUE).run = r
    BY DEF Asking, Read
  <2>2. TypeOK'
    BY <1>2, <2>1 DEF Open, Shapes, TypeOK
  <2>3. Real' /\ Sent' /\ Asked'
    BY <1>2, <2>1 DEF Open, Shapes, Real, Sent, Asked, Written
  <2> QED
    BY <2>2, <2>3 DEF Shapes
<1>3. ASSUME NEW q \in reads, Serve(q) PROVE Shapes'
  <2>1. q \in Read /\ q.run \in feed /\ q.run \in Runs /\ log[q.run] \in Nat
    BY DEF Shapes, TypeOK, Asked, Read
  <2>2. [q EXCEPT !.upto = log[q.run]] \in Read /\ [q EXCEPT !.upto = log[q.run]].run = q.run
    BY <2>1 DEF Read
  <2>3. TypeOK'
    BY <1>3, <2>2 DEF Serve, Shapes, TypeOK
  <2>4. Real' /\ Sent'
    BY <1>3 DEF Serve, Shapes, Real, Sent, Written
  <2>5. Asked'
    BY <1>3, <2>1, <2>2 DEF Serve, Shapes, Asked
  <2> QED
    BY <2>3, <2>4, <2>5 DEF Shapes
<1>4. ASSUME NEW q \in reads, Answer(q) PROVE Shapes'
  <2>1. q \in Read /\ q.run \in Runs /\ q.upto \in Nat
    BY <1>4 DEF Answer, Shapes, TypeOK, Read
  <2>2. Lines(q.run, q.from, q.upto) \subseteq Nat
    BY <2>1 DEF Lines
  <2>3. TypeOK'
    BY <1>4, <2>1, <2>2 DEF Answer, Shapes, TypeOK
  <2>4. Real' /\ Sent' /\ Asked'
    BY <1>4 DEF Answer, Shapes, Real, Sent, Asked, Written
  <2> QED
    BY <2>3, <2>4 DEF Shapes
<1>5. ASSUME NEW q \in reads, Fail(q) PROVE Shapes'
  <2>1. q \in Read /\ q.run \in Runs /\ q.run \in feed /\ log[q.run] \in Nat
    BY <1>5 DEF Shapes, TypeOK, Read, Asked
  <2>2. Lines(q.run, q.from, log[q.run]) \subseteq Nat
    BY <2>1 DEF Lines
  <2>3. failed' \subseteq feed /\ refused' \in [Runs -> SUBSET Nat]
    <3>1. failed \subseteq feed /\ refused \in [Runs -> SUBSET Nat]
      BY DEF Shapes, TypeOK
    <3>2. failed' = failed \/ failed' = failed \cup {q.run}
      BY <1>5 DEF Fail
    <3>3. \/ refused' = refused
          \/ refused' = [refused EXCEPT ![q.run] = refused[q.run] \cup Lines(q.run, q.from, log[q.run])]
      BY <1>5 DEF Fail
    <3>4. failed' \subseteq feed
      BY <2>1, <3>1, <3>2
    <3>5. refused' \in [Runs -> SUBSET Nat]
      BY <2>1, <2>2, <3>1, <3>3
    <3> QED
      BY <3>4, <3>5
  <2>5. TypeOK'
    BY <1>5, <2>3 DEF Fail, Shapes, TypeOK
  <2>4. Real' /\ Sent' /\ Asked'
    BY <1>5 DEF Fail, Shapes, Real, Sent, Asked, Written
  <2> QED
    BY <2>4, <2>5 DEF Shapes
<1>6. CASE Break
  <2>1. << >> \in Seq(Message) /\ Len(<< >>) <= Buffer
    <3>1. << >> \in Seq(Message)
      OBVIOUS
    <3>2. Len(<< >>) = 0 /\ Buffer \in Nat
      BY FanoutAssumption
    <3> QED
      BY <3>1, <3>2
  <2>2. shed' \in Nat
    <3>1. Len(ch) \in Nat
      BY DEF Shapes, TypeOK
    <3>0. IsFiniteSet(1 .. Len(ch))
      BY <3>1, FS_Interval
    <3>2. IsFiniteSet({k \in 1 .. Len(ch) : ch[k].kind # "resync"})
      BY <3>0, FS_Subset
    <3>3. Cardinality({k \in 1 .. Len(ch) : ch[k].kind # "resync"}) \in Nat
      BY <3>2, FS_CardinalityType
    <3> QED
      BY <1>6, <3>3 DEF Break, Shapes, TypeOK
  <2>3. TypeOK'
    BY <1>6, <2>1, <2>2 DEF Break, Shapes, TypeOK
  <2>4. Real' /\ Sent' /\ Asked'
    BY <1>6 DEF Break, Shapes, Real, Sent, Asked, Written
  <2> QED
    BY <2>3, <2>4 DEF Shapes
<1> QED
  BY <1>1, <1>2, <1>3, <1>4, <1>5, <1>6 DEF Window

LEMMA InitShapes == Init => Shapes
<1> SUFFICES ASSUME Init PROVE Shapes
  OBVIOUS
<1>0. << >> \in Seq(Message)
  OBVIOUS
<1>1. Notice \in Message /\ Notice.kind = "notice" /\ Buffer \in Nat /\ Len(<< >>) <= Buffer
  BY FanoutAssumption DEF Notice, Message
<1>2. TypeOK
  BY <1>0, <1>1 DEF Init, TypeOK
<1>3. Real /\ Sent /\ Asked
  BY <1>1 DEF Init, Real, Sent, Asked, Written
<1> QED
  BY <1>2, <1>3 DEF Shapes

LEMMA NextShapes == Shapes /\ [Next]_vars => Shapes'
<1> SUFFICES ASSUME Shapes, [Next]_vars PROVE Shapes'
  OBVIOUS
<1>1. CASE UNCHANGED vars
  <2>1. TypeOK'
    BY <1>1 DEF Shapes, TypeOK
  <2>2. Real' /\ Sent' /\ Asked'
    BY <1>1 DEF Shapes, Real, Sent, Asked, Written
  <2> QED
    BY <2>1, <2>2 DEF Shapes
<1> QED
  BY <1>1, PublisherShapes, WindowShapes DEF Next

LEMMA AlwaysShapes == Spec => []Shapes
BY InitShapes, NextShapes, PTL DEF Spec

\* The channel never holds more than its buffer, and what is queued, noted or
\* read for exists.
THEOREM TypeCorrect == Spec => []TypeOK
<1>1. Shapes => TypeOK
  BY DEF Shapes
<1> QED
  BY <1>1, AlwaysShapes, PTL

-----------------------------------------------------------------------------
(* The count.                                                               *)

Events(s) == {k \in 1 .. Len(s) : s[k].kind # "resync"}

LEMMA EventsFinite ==
  ASSUME NEW s \in Seq(Message)
  PROVE IsFiniteSet(Events(s)) /\ Cardinality(Events(s)) \in Nat
<1>1. Len(s) \in Nat
  OBVIOUS
<1>2. IsFiniteSet(1 .. Len(s))
  BY <1>1, FS_Interval
<1>3. IsFiniteSet(Events(s))
  BY <1>2, FS_Subset DEF Events
<1> QED
  BY <1>3, FS_CardinalityType

LEMMA EventsAppend ==
  ASSUME NEW s \in Seq(Message), NEW m \in Message
  PROVE Cardinality(Events(Append(s, m))) = Cardinality(Events(s)) + CostOf(m)
<1>1. /\ Len(s) \in Nat /\ Len(Append(s, m)) = Len(s) + 1
      /\ \A k \in 1 .. Len(s) : Append(s, m)[k] = s[k]
      /\ Append(s, m)[Len(s) + 1] = m
  OBVIOUS
<1>2. CASE m.kind = "resync"
  <2>1. Events(Append(s, m)) = Events(s)
    BY <1>1, <1>2 DEF Events
  <2> QED
    BY <1>2, <2>1, EventsFinite DEF CostOf
<1>3. CASE m.kind # "resync"
  <2>1. Events(Append(s, m)) = Events(s) \cup {Len(s) + 1} /\ Len(s) + 1 \notin Events(s)
    BY <1>1, <1>3 DEF Events
  <2> QED
    BY <1>3, <2>1, EventsFinite, FS_AddElement DEF CostOf
<1> QED
  BY <1>2, <1>3

LEMMA EventsTail ==
  ASSUME NEW s \in Seq(Message), s # << >>
  PROVE Cardinality(Events(s)) = Cardinality(Events(Tail(s))) + CostOf(Head(s))
<1> DEFINE Rest == Events(s) \ {1}
           next == [k \in Events(Tail(s)) |-> k + 1]
<1>1. /\ Len(s) \in Nat \ {0} /\ Head(s) = s[1] /\ Tail(s) \in Seq(Message)
      /\ Len(Tail(s)) = Len(s) - 1
  OBVIOUS
<1>2. \A k \in 1 .. Len(Tail(s)) : Tail(s)[k] = s[k + 1]
  BY <1>1
<1>3. \A k \in Events(Tail(s)) : k \in Nat /\ k + 1 \in Rest
  BY <1>1, <1>2 DEF Events
<1>4. \A i \in Rest : i - 1 \in Events(Tail(s)) /\ i = (i - 1) + 1
  <2> SUFFICES ASSUME NEW i \in Rest PROVE i - 1 \in Events(Tail(s)) /\ i = (i - 1) + 1
    OBVIOUS
  <2>1. i \in 2 .. Len(s) /\ s[i].kind # "resync"
    BY <1>1 DEF Events
  <2>2. i - 1 \in 1 .. Len(Tail(s)) /\ (i - 1) + 1 = i
    BY <1>1, <2>1
  <2>3. Tail(s)[i - 1] = s[i]
    BY <1>2, <2>2
  <2> QED
    BY <2>1, <2>2, <2>3 DEF Events
<1>5. next \in Bijection(Events(Tail(s)), Rest)
  <2>1. next \in [Events(Tail(s)) -> Rest]
    BY <1>3
  <2>2. \A a, b \in Events(Tail(s)) : next[a] = next[b] => a = b
    BY <1>3
  <2>3. \A i \in Rest : \E k \in Events(Tail(s)) : next[k] = i
    BY <1>4
  <2> QED
    BY <2>1, <2>2, <2>3 DEF Bijection, Injection, Surjection, IsInjective
<1>6. Cardinality(Rest) = Cardinality(Events(Tail(s)))
  <2>1. ExistsBijection(Events(Tail(s)), Rest)
    BY <1>5 DEF ExistsBijection
  <2> QED
    BY <1>1, <2>1, EventsFinite, FS_Bijection
<1>7. Cardinality(Rest) = IF 1 \in Events(s) THEN Cardinality(Events(s)) - 1
                          ELSE Cardinality(Events(s))
  BY EventsFinite, FS_RemoveElement
<1>8. 1 \in Events(s) <=> Head(s).kind # "resync"
  BY <1>1 DEF Events
<1>9. Cardinality(Events(s)) \in Nat
  BY EventsFinite
<1> QED
  BY <1>6, <1>7, <1>8, <1>9 DEF CostOf

LEMMA ExactIs ==
  DroppedIsExact <=>
    offered = taken + Cardinality(Events(ch)) + dropped + shed
                + (IF pc = "idle" THEN 0 ELSE 1 + cost)
BY DEF DroppedIsExact, Events

LEMMA OfferExact ==
  ASSUME Shapes, DroppedIsExact, NEW m, Offer(m)
  PROVE DroppedIsExact'
<1>1. cost = 0 /\ cost' = cost /\ pc = "idle" /\ pc' = "flush" /\ offered' = offered + 1
      /\ UNCHANGED <<ch, taken, dropped, shed>>
  BY DEF Offer, Shapes, Sent
<1>2. offered \in Nat /\ taken \in Nat /\ dropped \in Nat /\ shed \in Nat
      /\ Cardinality(Events(ch)) \in Nat
  BY EventsFinite DEF Shapes, TypeOK
<1>3. offered = taken + Cardinality(Events(ch)) + dropped + shed
  BY <1>1, <1>2, ExactIs
<1>4. offered' = taken' + Cardinality(Events(ch)') + dropped' + shed' + (1 + cost')
  BY <1>1, <1>2, <1>3 DEF Events
<1> QED
  BY <1>1, <1>4 DEF DroppedIsExact, Events

LEMMA NextExact == Shapes /\ DroppedIsExact /\ [Next]_vars => DroppedIsExact'
<1> SUFFICES ASSUME Shapes, DroppedIsExact, [Next]_vars PROVE DroppedIsExact'
  OBVIOUS
<1> DEFINE n == Cardinality(Events(ch))
<1>a. /\ ch \in Seq(Message) /\ sending \in Message /\ CostOf(sending) = 1
      /\ cost \in {0, 1} /\ pc \in {"idle", "flush", "try", "evict", "reflush", "settle"}
      /\ pc \in {"idle", "flush", "try", "evict"} => cost = 0
  BY DEF Shapes, TypeOK, Sent, CostOf
<1>b. offered \in Nat /\ taken \in Nat /\ dropped \in Nat /\ shed \in Nat /\ n \in Nat
  BY <1>a, EventsFinite DEF Shapes, TypeOK
<1>c. offered = taken + n + dropped + shed + (IF pc = "idle" THEN 0 ELSE 1 + cost)
  BY ExactIs
<1>d. ASSUME offered' = taken' + Cardinality(Events(ch'))
                          + dropped' + shed' + (IF pc' = "idle" THEN 0 ELSE 1 + cost')
      PROVE DroppedIsExact'
  BY <1>d DEF DroppedIsExact, Events
<1> HIDE DEF n
<1>1. ASSUME NEW r \in Runs, OfferLine(r) \/ OfferEnded(r) PROVE DroppedIsExact'
  BY <1>1, OfferExact DEF OfferLine, OfferEnded
<1>2. CASE OfferNotice
  BY <1>2, OfferExact DEF OfferNotice
<1>3. ASSUME NEW r \in Runs, Flush(r) PROVE DroppedIsExact'
  <2>1. pending[r] \in Nat
    BY <1>3 DEF Flush, Owing, Shapes, TypeOK
  <2>2. Resync(r, pending[r]) \in Message /\ CostOf(Resync(r, pending[r])) = 0
    BY <2>1 DEF Resync, Message, CostOf
  <2>3. Cardinality(Events(ch')) = n + 0
    BY <1>a, <1>3, <2>2, EventsAppend DEF Flush, n
  <2> QED
    BY <1>3, <1>b, <1>c, <1>d, <2>3 DEF Flush
<1>4. CASE FlushEnds
  <2>1. pc # "idle" /\ pc' # "idle" /\ UNCHANGED <<ch, offered, taken, dropped, shed, cost>>
    BY <1>4 DEF FlushEnds
  <2> QED
    BY <1>b, <1>c, <1>d, <2>1 DEF n
<1>5. CASE Try /\ HasRoom
  <2>1. Cardinality(Events(ch')) = n + 1
    BY <1>a, <1>5, EventsAppend DEF Try, n
  <2>2. cost = 0 /\ pc # "idle" /\ pc' = "idle" /\ UNCHANGED <<offered, taken, dropped, shed>>
    BY <1>5, <1>a DEF Try, Return
  <2> QED
    BY <1>b, <1>c, <1>d, <2>1, <2>2
<1>6. CASE Try /\ ~HasRoom
  <2>1. pc # "idle" /\ pc' # "idle" /\ UNCHANGED <<ch, offered, taken, dropped, shed, cost>>
    BY <1>6 DEF Try
  <2> QED
    BY <1>b, <1>c, <1>d, <2>1 DEF n
<1>7. CASE Evict /\ ch = << >>
  <2>1. pc # "idle" /\ pc' # "idle" /\ UNCHANGED <<ch, offered, taken, dropped, shed, cost>>
    BY <1>7 DEF Evict
  <2> QED
    BY <1>b, <1>c, <1>d, <2>1 DEF n
<1>8. CASE Evict /\ ch # << >>
  <2>1. n = Cardinality(Events(ch')) + CostOf(Head(ch))
    BY <1>a, <1>8, EventsTail DEF Evict, n
  <2>2. /\ pc = "evict" /\ pc' = "reflush" /\ cost = 0 /\ cost' = CostOf(Head(ch))
        /\ UNCHANGED <<offered, taken, dropped, shed>>
    BY <1>8, <1>a DEF Evict
  <2>3. CostOf(Head(ch)) \in Nat /\ Cardinality(Events(ch')) \in Nat
    <3>1. ch' \in Seq(Message)
      BY <1>a, <1>8 DEF Evict
    <3> QED
      BY <3>1, EventsFinite DEF CostOf
  <2>4. offered' = taken' + Cardinality(Events(ch')) + dropped' + shed' + (1 + cost')
    BY <1>b, <1>c, <2>1, <2>2, <2>3
  <2> QED
    BY <1>d, <2>2, <2>4
<1>9. CASE Settle
  <2>1. /\ pc = "settle" /\ pc' = "idle" /\ UNCHANGED <<offered, taken, shed>>
    BY <1>9 DEF Settle, Return
  <2>2. CASE ~swept /\ HasRoom
    <3>1. Cardinality(Events(ch')) = n + 1 /\ dropped' = dropped + cost
      BY <1>9, <1>a, <1>b, <2>2, EventsAppend DEF Settle, n
    <3> QED
      BY <1>a, <1>b, <1>c, <1>d, <2>1, <3>1
  <2>3. CASE ~(~swept /\ HasRoom)
    <3>1. Cardinality(Events(ch')) = n /\ dropped' = dropped + cost + 1
      BY <1>9, <2>3 DEF Settle, n
    <3> QED
      BY <1>a, <1>b, <1>c, <1>d, <2>1, <3>1
  <2> QED
    BY <2>2, <2>3
<1>10. CASE Take
  <2>1. n = Cardinality(Events(ch')) + CostOf(Head(ch))
    BY <1>a, <1>10, EventsTail DEF Take, n
  <2>2. taken' = taken + CostOf(Head(ch)) /\ UNCHANGED <<offered, dropped, shed, pc, cost>>
    BY <1>10 DEF Take
  <2>3. CostOf(Head(ch)) \in Nat /\ Cardinality(Events(ch')) \in Nat
    <3>1. ch' \in Seq(Message)
      BY <1>a, <1>10 DEF Take
    <3> QED
      BY <3>1, EventsFinite DEF CostOf
  <2> QED
    BY <1>a, <1>b, <1>c, <1>d, <2>1, <2>2, <2>3
<1>11. CASE Break
  <2>1. /\ pc = "idle" /\ ch' = << >> /\ shed' = shed + n
        /\ UNCHANGED <<offered, taken, dropped, pc, cost>>
    BY <1>11 DEF Break, n, Events
  <2>2. Events(<< >>) = {}
    BY DEF Events
  <2>3. Cardinality(Events(ch')) = 0
    BY <2>1, <2>2, FS_EmptySet
  <2> QED
    BY <1>b, <1>c, <1>d, <2>1, <2>3
<1>12. ASSUME NEW r \in Runs, Open(r) PROVE DroppedIsExact'
  BY <1>12 DEF Open, DroppedIsExact
<1>13. ASSUME NEW q \in reads, Serve(q) \/ Answer(q) \/ Fail(q) PROVE DroppedIsExact'
  BY <1>13 DEF Serve, Answer, Fail, DroppedIsExact
<1>14. CASE UNCHANGED vars
  BY <1>14 DEF DroppedIsExact
<1> QED
  BY <1>1, <1>2, <1>3, <1>4, <1>5, <1>6, <1>7, <1>8, <1>9, <1>10, <1>11, <1>12, <1>13, <1>14
     DEF Next, Publisher, Window

LEMMA InitExact == Init => DroppedIsExact
<1> SUFFICES ASSUME Init PROVE DroppedIsExact
  OBVIOUS
<1>1. Events(ch) = {}
  BY DEF Init, Events
<1>2. Cardinality(Events(ch)) = 0
  BY <1>1, FS_EmptySet
<1> QED
  BY <1>2, ExactIs DEF Init

\* Service.dropped is exact whatever the reader takes while a send runs.
THEOREM CountIsExact == Spec => []DroppedIsExact
<1>1. Shapes /\ DroppedIsExact /\ [Next]_vars => DroppedIsExact'
  BY NextExact
<1> QED
  BY <1>1, InitExact, AlwaysShapes, PTL DEF Spec

-----------------------------------------------------------------------------
(* The lines noted as missed.                                               *)

\* The four places Covered names.
Marked(s, r, i) == \E k \in 1 .. Len(s) : s[k].kind = "resync" /\ s[k].run = r /\ s[k].at < i
Read4(q, r, i) == q.run = r /\ q.from < i /\ (q.upto = None \/ i <= q.upto)
Due(r, i) == pending[r] # None /\ pending[r] < i

LEMMA CoveredIs ==
  ASSUME NEW r, NEW i
  PROVE Covered(r, i) <=> i \in seen[r] \/ Due(r, i) \/ Marked(ch, r, i)
                            \/ \E q \in reads : Read4(q, r, i)
BY DEF Covered, Due, Marked, Read4

\* Nothing that is due is forgotten when a message is missed, and what is
\* noted then is due.
LEMMA MissCovers ==
  ASSUME Shapes, NEW m \in Message, Written(m), Miss(m), NEW r \in Runs, NEW i \in Nat
  PROVE /\ Due(r, i) => Due(r, i)'
        /\ i \in owed'[r] => i \in owed[r] \/ Due(r, i)'
        /\ m.kind = "resync" /\ m.run = r /\ m.at < i => Due(r, i)'
<1>0. pending[r] \in Nat \cup {None} /\ None \notin Nat
  BY DEF Shapes, TypeOK, None
<1>1. CASE m.kind = "resync"
  <2>1. m.run \in Runs /\ m.at \in Nat
    BY <1>1, MessageKinds
  <2>2. pending' = [pending EXCEPT ![m.run] = Lower(pending[m.run], m.at)] /\ owed' = owed
    BY <1>1 DEF Miss, PutBack, Queue
  <2>3. CASE m.run # r
    <3>1. pending'[r] = pending[r]
      BY <2>2, <2>3 DEF Shapes, TypeOK
    <3> QED
      BY <2>2, <2>3, <3>1 DEF Due
  <2>4. CASE m.run = r
    <3>1. pending'[r] = Lower(pending[r], m.at)
      BY <2>2, <2>4 DEF Shapes, TypeOK
    <3>2. pending'[r] \in Nat /\ pending'[r] <= m.at /\ (pending[r] # None => pending'[r] <= pending[r])
      BY <1>0, <2>1, <3>1, LowerType
    <3> QED
      BY <1>0, <2>1, <2>2, <2>4, <3>2 DEF Due
  <2> QED
    BY <2>3, <2>4
<1>2. CASE m.kind = "event" /\ m.run \notin told
  <2>1. m.run \in Runs /\ m.at \in Nat /\ m.at - 1 \in Nat
    BY <1>2, MessageKinds DEF Written, Shapes, TypeOK
  <2>2. /\ pending' = [pending EXCEPT ![m.run] = Lower(pending[m.run], m.at - 1)]
        /\ owed' = [owed EXCEPT ![m.run] = owed[m.run] \cup {m.at}]
    BY <1>2 DEF Miss, Note, Queue
  <2>3. CASE m.run # r
    <3>1. pending'[r] = pending[r] /\ owed'[r] = owed[r]
      BY <2>2, <2>3 DEF Shapes, TypeOK
    <3> QED
      BY <1>2, <3>1 DEF Due
  <2>4. CASE m.run = r
    <3>1. pending'[r] = Lower(pending[r], m.at - 1) /\ owed'[r] = owed[r] \cup {m.at}
      BY <2>1, <2>2, <2>4 DEF Shapes, TypeOK
    <3>2. /\ pending'[r] \in Nat /\ pending'[r] <= m.at - 1
          /\ (pending[r] # None => pending'[r] <= pending[r])
      BY <1>0, <2>1, <3>1, LowerType
    <3> QED
      BY <1>0, <1>2, <2>1, <3>1, <3>2 DEF Due
  <2> QED
    BY <2>3, <2>4
<1>3. CASE m.kind # "resync" /\ ~(m.kind = "event" /\ m.run \notin told)
  BY <1>3 DEF Miss, Due
<1> QED
  BY <1>1, <1>2, <1>3

LEMMA NextCovered == Shapes /\ OwedStaysCovered /\ [Next]_vars => OwedStaysCovered'
<1> SUFFICES ASSUME Shapes, OwedStaysCovered, [Next]_vars
             PROVE  OwedStaysCovered'
  OBVIOUS
<1>z. Shapes'
  BY NextShapes
<1> SUFFICES ASSUME NEW r \in Runs, NEW i \in Nat,
                    r \in feed', r \notin failed', i \in owed'[r], i \notin refused'[r]
             PROVE Covered(r, i)'
  BY <1>z DEF OwedStaysCovered, Shapes, TypeOK
<1> DEFINE Safe == i \in seen[r] \/ Due(r, i) \/ Marked(ch, r, i) \/ \E q \in reads : Read4(q, r, i)
           Owed == r \in feed /\ r \notin failed /\ i \in owed[r] /\ i \notin refused[r]
<1>a. Owed => Safe
  <2>1. Owed => Covered(r, i)
    BY DEF OwedStaysCovered
  <2> QED
    BY <2>1, CoveredIs
<1>b. ASSUME i \in seen'[r] \/ Due(r, i)' \/ Marked(ch, r, i)' \/ \E q \in reads' : Read4(q, r, i)
      PROVE Covered(r, i)'
  BY <1>b DEF Covered, Due, Marked, Read4
<1>c. ch \in Seq(Message) /\ Len(ch) \in Nat /\ log[r] \in Nat /\ owed[r] \subseteq 1 .. log[r]
  BY DEF Shapes, TypeOK, Real
<1> HIDE DEF Safe, Owed
<1>o. ASSUME UNCHANGED <<ch, pending, feed, failed, seen, reads, owed, refused>>
      PROVE Covered(r, i)'
  BY <1>a, <1>b, <1>o DEF Safe, Owed, Due
<1>p. \A m \in Message : Marked(ch, r, i) => Marked(Append(ch, m), r, i)
  <2> SUFFICES ASSUME NEW m \in Message, NEW k \in 1 .. Len(ch),
                      ch[k].kind = "resync" /\ ch[k].run = r /\ ch[k].at < i
               PROVE Marked(Append(ch, m), r, i)
    BY DEF Marked
  <2>1. k \in 1 .. Len(Append(ch, m)) /\ Append(ch, m)[k] = ch[k]
    BY <1>c
  <2> QED
    BY <2>1 DEF Marked
<1>t. ASSUME ch # << >>, Marked(ch, r, i)
      PROVE \/ Marked(Tail(ch), r, i)
            \/ Head(ch).kind = "resync" /\ Head(ch).run = r /\ Head(ch).at < i
  <2>1. PICK k \in 1 .. Len(ch) : ch[k].kind = "resync" /\ ch[k].run = r /\ ch[k].at < i
    BY <1>t DEF Marked
  <2>2. CASE k = 1
    BY <1>t, <2>1, <2>2, TailShapes
  <2>3. CASE k # 1
    <3>1. k - 1 \in 1 .. Len(Tail(ch)) /\ (k - 1) + 1 = k
      BY <1>c, <1>t, <2>3, TailShapes
    <3>2. Tail(ch)[k - 1] = ch[k]
      BY <1>t, <3>1, TailShapes
    <3> QED
      BY <2>1, <3>1, <3>2 DEF Marked
  <2> QED
    BY <2>2, <2>3
<1>1. ASSUME NEW n \in Runs, OfferLine(n) \/ OfferEnded(n) PROVE Covered(r, i)'
  BY <1>1, <1>o DEF OfferLine, OfferEnded, Offer
<1>2. CASE OfferNotice
  BY <1>2, <1>o DEF OfferNotice, Offer
<1>3. ASSUME NEW n \in Runs, Flush(n) PROVE Covered(r, i)'
  <2>1. Owed /\ UNCHANGED <<seen, reads>>
    BY <1>3 DEF Flush, Owed
  <2>2. pending[n] \in Nat /\ Resync(n, pending[n]) \in Message /\ ch' = Append(ch, Resync(n, pending[n]))
    BY <1>3 DEF Flush, Owing, Resync, Message, Shapes, TypeOK
  <2>3. CASE Due(r, i) /\ n = r
    <3>1. ch'[Len(ch) + 1] = Resync(r, pending[r]) /\ Len(ch') = Len(ch) + 1 /\ Len(ch) \in Nat
      BY <2>2, <2>3, AppendShapes
    <3>2. Marked(ch, r, i)'
      <4>1. Len(ch) + 1 \in 1 .. Len(ch')
        BY <3>1
      <4>2. pending[r] < i
        BY <2>3 DEF Due
      <4> QED
        BY <3>1, <4>1, <4>2 DEF Marked, Resync
    <3> QED
      BY <1>b, <3>2
  <2>4. CASE Due(r, i) /\ n # r
    <3>1. pending'[r] = pending[r]
      BY <1>3, <2>4 DEF Flush, Shapes, TypeOK
    <3> QED
      BY <1>b, <2>4, <3>1 DEF Due
  <2>5. CASE Marked(ch, r, i)
    BY <1>b, <1>p, <2>2, <2>5
  <2> QED
    BY <1>a, <1>b, <2>1, <2>3, <2>4, <2>5 DEF Safe
<1>4. CASE FlushEnds
  BY <1>4, <1>o DEF FlushEnds
<1>m. sending \in Message /\ Written(sending)
  BY DEF Shapes, TypeOK, Real
<1>q. ASSUME NEW m \in Message, ch' = Append(ch, m),
             UNCHANGED <<pending, feed, failed, seen, reads, owed, refused>>
      PROVE Covered(r, i)'
  <2>1. Owed /\ (Due(r, i) => Due(r, i)')
    BY <1>q DEF Owed, Due
  <2>2. Marked(ch, r, i) => Marked(ch, r, i)'
    BY <1>p, <1>q
  <2> QED
    BY <1>a, <1>b, <1>q, <2>1, <2>2 DEF Safe
<1>5. CASE Try /\ HasRoom
  BY <1>5, <1>m, <1>q DEF Try
<1>6. CASE Try /\ ~HasRoom
  <2>1. Miss(sending) /\ UNCHANGED <<ch, feed, failed, seen, reads, refused>>
    BY <1>6 DEF Try
  <2>2. (Due(r, i) => Due(r, i)') /\ (i \in owed[r] \/ Due(r, i)')
    BY <1>m, <2>1, MissCovers
  <2>3. Due(r, i)' \/ Owed
    BY <2>1, <2>2 DEF Owed
  <2> QED
    BY <1>a, <1>b, <2>1, <2>2, <2>3 DEF Safe
<1>7. CASE Evict /\ ch = << >>
  BY <1>7, <1>o DEF Evict
<1>8. CASE Evict /\ ch # << >>
  <2>1. Miss(Head(ch)) /\ ch' = Tail(ch) /\ UNCHANGED <<feed, failed, seen, reads, refused>>
    BY <1>8 DEF Evict
  <2>2. /\ (Due(r, i) => Due(r, i)') /\ (i \in owed[r] \/ Due(r, i)')
        /\ Head(ch).kind = "resync" /\ Head(ch).run = r /\ Head(ch).at < i => Due(r, i)'
    BY <1>8, <2>1, TailShapes, MissCovers
  <2>3. Due(r, i)' \/ Owed
    BY <2>1, <2>2 DEF Owed
  <2>4. Marked(ch, r, i) => Marked(ch, r, i)' \/ Due(r, i)'
    BY <1>8, <1>t, <2>1, <2>2
  <2> QED
    BY <1>a, <1>b, <2>1, <2>2, <2>3, <2>4 DEF Safe
<1>9. CASE Settle
  <2>1. CASE ~swept /\ HasRoom
    BY <1>9, <1>m, <1>q, <2>1 DEF Settle
  <2>2. CASE ~(~swept /\ HasRoom)
    BY <1>9, <1>o, <2>2 DEF Settle
  <2> QED
    BY <2>1, <2>2
<1>10. CASE Take
  <2>1. Owed /\ ch' = Tail(ch) /\ ch # << >> /\ UNCHANGED <<pending, feed>>
    BY <1>10 DEF Take, Owed
  <2>h. Head(ch) \in Message
    BY <2>1, TailShapes
  <2>2. i \in seen[r] => i \in seen'[r]
    <3>1. CASE Listening(Head(ch).run) /\ Head(ch).kind = "event"
      <4>1. seen' = [seen EXCEPT ![Head(ch).run] = seen[Head(ch).run] \cup {Head(ch).at}]
        BY <1>10, <3>1 DEF Take
      <4> QED
        BY <4>1 DEF Shapes, TypeOK
    <3>2. CASE ~(Listening(Head(ch).run) /\ Head(ch).kind = "event")
      BY <1>10, <3>2 DEF Take
    <3> QED
      BY <3>1, <3>2
  <2>3. reads \subseteq reads'
    BY <1>10 DEF Take
  <2>4. ASSUME Head(ch).kind = "resync" /\ Head(ch).run = r /\ Head(ch).at < i
        PROVE \E q \in reads' : Read4(q, r, i)
    <3>1. Listening(r)
      BY <2>1 DEF Owed, Listening
    <3>2. Asking(r, Head(ch).at, FALSE) \in reads'
      BY <1>10, <2>4, <3>1 DEF Take
    <3> QED
      BY <2>4, <3>2 DEF Asking, Read4
  <2>5. Marked(ch, r, i) => Marked(ch, r, i)' \/ \E q \in reads' : Read4(q, r, i)
    BY <1>t, <2>1, <2>4
  <2>6. Due(r, i) => Due(r, i)'
    BY <2>1 DEF Due
  <2> QED
    BY <1>a, <1>b, <2>1, <2>2, <2>3, <2>5, <2>6 DEF Safe
<1>11. ASSUME NEW n \in Runs, Open(n) PROVE Covered(r, i)'
  <2>1. /\ feed' = feed \cup {n} /\ reads' = reads \cup {Asking(n, 0, TRUE)}
        /\ UNCHANGED <<ch, pending, failed, seen, owed, refused>>
    BY <1>11 DEF Open
  <2>2. CASE n = r
    <3>1. i >= 1
      BY <1>c, <2>1
    <3>2. Asking(r, 0, TRUE) \in reads' /\ Read4(Asking(r, 0, TRUE), r, i)
      BY <2>1, <2>2, <3>1 DEF Asking, Read4
    <3> QED
      BY <1>b, <3>2
  <2>3. CASE n # r
    <3>1. Owed /\ (Due(r, i) => Due(r, i)')
      BY <2>1, <2>3 DEF Owed, Due
    <3> QED
      BY <1>a, <1>b, <2>1, <3>1 DEF Safe
  <2> QED
    BY <2>2, <2>3
<1>12. ASSUME NEW q \in reads, Serve(q) PROVE Covered(r, i)'
  <2>1. /\ reads' = (reads \ {q}) \cup {[q EXCEPT !.upto = log[q.run]]}
        /\ UNCHANGED <<ch, pending, feed, failed, seen, owed, refused>>
    BY <1>12 DEF Serve
  <2>2. Owed /\ (Due(r, i) => Due(r, i)')
    BY <2>1 DEF Owed, Due
  <2>3. Read4(q, r, i) => Read4([q EXCEPT !.upto = log[q.run]], r, i)
    <3>1. q \in Read /\ i <= log[r]
      BY <1>c, <2>1 DEF Shapes, TypeOK
    <3> QED
      BY <3>1 DEF Read4, Read
  <2> QED
    BY <1>a, <1>b, <2>1, <2>2, <2>3 DEF Safe
<1>13. ASSUME NEW q \in reads, Answer(q) PROVE Covered(r, i)'
  <2>1. /\ reads' = reads \ {q}
        /\ seen' = [seen EXCEPT ![q.run] = seen[q.run] \cup Lines(q.run, q.from, q.upto)]
        /\ UNCHANGED <<ch, pending, feed, failed, owed, refused>> /\ q.upto # None
    BY <1>13 DEF Answer
  <2>2. Owed /\ (Due(r, i) => Due(r, i)')
    BY <2>1 DEF Owed, Due
  <2>3. i \in seen[r] => i \in seen'[r]
    BY <2>1 DEF Shapes, TypeOK
  <2>4. Read4(q, r, i) => i \in seen'[r]
    <3>1. q.upto \in Nat /\ i >= 1
      BY <1>c, <2>1 DEF Shapes, TypeOK, Read
    <3>2. Read4(q, r, i) => q.run = r /\ i \in Lines(q.run, q.from, q.upto)
      BY <2>1, <3>1 DEF Read4, Lines
    <3> QED
      BY <2>1, <3>2 DEF Shapes, TypeOK
  <2> QED
    BY <1>a, <1>b, <2>1, <2>2, <2>3, <2>4 DEF Safe
<1>14. ASSUME NEW q \in reads, Fail(q) PROVE Covered(r, i)'
  <2>1. reads' = reads \ {q} /\ UNCHANGED <<ch, pending, feed, seen, owed>>
    BY <1>14 DEF Fail
  <2>2. Owed /\ (Due(r, i) => Due(r, i)')
    <3>1. r \notin failed
      BY <1>14 DEF Fail
    <3>2. i \notin refused[r]
      BY <1>14 DEF Fail, Shapes, TypeOK
    <3> QED
      BY <2>1, <3>1, <3>2 DEF Owed, Due
  <2>3. ~Read4(q, r, i)
    <3>1. CASE q.first
      BY <1>14, <3>1 DEF Fail, Read4
    <3>2. CASE ~q.first
      <4>1. refused' = [refused EXCEPT ![q.run] = refused[q.run] \cup Lines(q.run, q.from, log[q.run])]
        BY <1>14, <3>2 DEF Fail
      <4>2. i \in 1 .. log[r]
        BY <1>c, <2>1
      <4>3. Read4(q, r, i) => q.run = r /\ i \in Lines(q.run, q.from, log[q.run])
        BY <4>2 DEF Read4, Lines
      <4> QED
        BY <4>1, <4>3 DEF Shapes, TypeOK
    <3> QED
      BY <3>1, <3>2
  <2> QED
    BY <1>a, <1>b, <2>1, <2>2, <2>3 DEF Safe
<1>15. CASE Break
  BY <1>15 DEF Break
<1>16. CASE UNCHANGED vars
  BY <1>16, <1>o
<1> QED
  BY <1>1, <1>2, <1>3, <1>4, <1>5, <1>6, <1>7, <1>8, <1>9, <1>10, <1>11, <1>12, <1>13, <1>14,
     <1>15, <1>16 DEF Next, Publisher, Window

\* A line noted as missed stays queued, marked or asked for until the
\* transcript has it, whatever overflows meanwhile.
THEOREM OwedIsKept == Spec => []OwedStaysCovered
<1>1. Init => OwedStaysCovered
  BY DEF Init, OwedStaysCovered
<1>2. Shapes /\ OwedStaysCovered /\ [Next]_vars => OwedStaysCovered'
  BY NextCovered
<1> QED
  BY <1>1, <1>2, AlwaysShapes, PTL DEF Spec

-----------------------------------------------------------------------------
(* A stream that never overflowed nor broke.                                *)

Unhurt == dropped = 0 /\ breaks = 0

\* A send that has taken nothing off the channel and put no late marker in.
Clean == ~swept /\ cost = 0

\* Before anything overflowed no marker is queued or out, and a line that found
\* no room is in the hand of the send that noted it.
Quiet ==
    /\ told = {}
    /\ \A k \in 1 .. Len(ch) : ch[k].kind # "resync"
    /\ \A q \in reads : q.first
    /\ pc \in {"idle", "flush", "try", "settle"} => Owing = {}
    /\ pc \in {"evict", "reflush"} /\ Owing = {} => sending.kind # "event"
    /\ pc \in {"reflush", "settle"} => ch = << >>
    /\ pc = "settle" => sending.kind # "event"
    /\ pc = "idle" => sending = Notice

QuietInv == Unhurt => IF Clean THEN Quiet ELSE pc \in {"reflush", "settle"}

Queued(s, r, i) == \E k \in 1 .. Len(s) : s[k] = Event(r, i)

Kept(r, i) ==
    \/ i \in seen[r] \/ Due(r, i)
    \/ Queued(ch, r, i) \/ sending = Event(r, i)
    \/ \E q \in reads : Read4(q, r, i)

AllKept == \A r \in feed \ failed : \A i \in 1 .. log[r] : Kept(r, i)

KeptInv == Unhurt /\ Clean => AllKept

\* What was lost stays lost.
LEMMA HurtStays ==
  ASSUME Shapes, Next, Unhurt'
  PROVE Unhurt
<1>a. dropped \in Nat /\ breaks \in Nat /\ cost \in Nat
  BY DEF Shapes, TypeOK
<1>1. CASE Publisher
  BY <1>a, <1>1 DEF Publisher, OfferLine, OfferEnded, OfferNotice, Offer, Flush, FlushEnds, Try,
     Evict, Settle, Unhurt
<1>2. CASE Take \/ (\E r \in Runs : Open(r))
  <2>1. UNCHANGED <<dropped, breaks>>
    BY <1>2 DEF Take, Open
  <2> QED
    BY <2>1 DEF Unhurt
<1>3. ASSUME NEW q \in reads, Serve(q) \/ Answer(q) \/ Fail(q) PROVE Unhurt
  <2>1. UNCHANGED <<dropped, breaks>>
    BY <1>3 DEF Serve, Answer, Fail
  <2> QED
    BY <2>1 DEF Unhurt
<1>4. CASE Break
  BY <1>a, <1>4 DEF Break, Unhurt
<1> QED
  BY <1>1, <1>2, <1>3, <1>4 DEF Next, Window

LEMMA NextQuiet == Shapes /\ QuietInv /\ [Next]_vars => QuietInv'
<1> SUFFICES ASSUME Shapes, QuietInv, Next, Unhurt' PROVE IF Clean' THEN Quiet' ELSE (pc \in {"reflush", "settle"})'
  <2>1. UNCHANGED vars /\ QuietInv => QuietInv'
    BY DEF QuietInv, Unhurt, Clean, Quiet, Owing
  <2> QED
    BY <2>1 DEF QuietInv
<1>a. Unhurt /\ (IF Clean THEN Quiet ELSE pc \in {"reflush", "settle"})
  BY HurtStays DEF QuietInv
<1>b. /\ ch \in Seq(Message) /\ Len(ch) \in Nat /\ Buffer \in Nat \ {0} /\ cost \in {0, 1}
      /\ dropped = 0 /\ sending \in Message /\ pending \in [Runs -> Nat \cup {None}]
      /\ None \notin Nat
  BY <1>a, FanoutAssumption DEF Shapes, TypeOK, Unhurt, None
<1>1. ASSUME NEW n \in Runs, OfferLine(n) \/ OfferEnded(n) PROVE Clean' /\ Quiet'
  BY <1>1, <1>a DEF OfferLine, OfferEnded, Offer, Clean, Quiet, Owing
<1>2. CASE OfferNotice
  BY <1>2, <1>a DEF OfferNotice, Offer, Clean, Quiet, Owing
<1>3. ASSUME NEW n \in Runs, Flush(n) PROVE ~Clean' /\ pc' = "reflush"
  <2>1. n \in Owing /\ pc \in {"flush", "reflush"} /\ pc' = pc /\ swept' = (swept \/ pc = "reflush")
    BY <1>3 DEF Flush
  <2>2. pc = "reflush"
    BY <1>a, <2>1 DEF Quiet
  <2> QED
    BY <2>1, <2>2 DEF Clean
<1>4. CASE FlushEnds
  <2>1. CASE ~Clean
    BY <1>4, <1>a, <2>1 DEF FlushEnds, Clean
  <2>2. CASE Clean
    <3>1. Quiet
      BY <1>a, <2>2
    <3>2. ch = << >> => HasRoom
      BY <1>b DEF HasRoom
    <3> QED
      BY <1>4, <2>2, <3>1, <3>2 DEF FlushEnds, Clean, Quiet, Owing
  <2> QED
    BY <2>1, <2>2
<1>5. CASE Try /\ HasRoom
  <2>1. /\ pc = "try" /\ ch' = Append(ch, sending) /\ pc' = "idle" /\ sending' = Notice /\ Clean'
        /\ UNCHANGED <<pending, told, reads>>
    BY <1>5 DEF Try, Return, Clean
  <2>2. Quiet /\ sending.kind # "resync"
    BY <1>a, <2>1 DEF Shapes, Sent
  <2>3. \A k \in 1 .. Len(ch') : ch'[k].kind # "resync"
    <3>1. \A k \in 1 .. Len(ch') : k \in 1 .. Len(ch) \/ k = Len(ch) + 1
      BY <1>b, <2>1, AppendShapes
    <3> QED
      BY <1>b, <2>1, <2>2, <3>1, AppendShapes DEF Quiet
  <2> QED
    BY <2>1, <2>2, <2>3 DEF Quiet, Owing
<1>6. CASE Try /\ ~HasRoom
  <2>1. pc = "try" /\ Miss(sending) /\ pc' = "evict" /\ UNCHANGED <<ch, sending, swept, cost, reads>>
    BY <1>6 DEF Try
  <2>2. Clean /\ Quiet /\ sending.kind # "resync"
    BY <1>a, <2>1 DEF Shapes, Sent
  <2>3. CASE sending.kind = "event"
    <3>1. sending.run \in Runs /\ sending.at - 1 \in Nat
      BY <1>b, <2>3, MessageKinds DEF Shapes, TypeOK, Real, Written
    <3>2. Queue(sending.run, sending.at - 1) /\ UNCHANGED told
      BY <2>1, <2>2, <2>3, <3>1 DEF Miss, Note, Quiet
    <3>3. pending'[sending.run] \in Nat
      BY <1>b, <3>1, <3>2, LowerType DEF Queue
    <3>4. sending.run \in Owing'
      BY <1>b, <3>1, <3>3 DEF Owing
    <3> QED
      BY <2>1, <2>2, <3>2, <3>4 DEF Clean, Quiet
  <2>4. CASE sending.kind # "event"
    <3>1. UNCHANGED <<pending, told>>
      BY <2>1, <2>2, <2>4 DEF Miss
    <3> QED
      BY <2>1, <2>2, <2>4, <3>1 DEF Clean, Quiet, Owing
  <2> QED
    BY <2>3, <2>4
<1>7. CASE Evict /\ ch = << >>
  <2>1. pc = "evict" /\ pc' = "reflush" /\ UNCHANGED <<cost, swept, ch, pending, told, sending, reads>>
    BY <1>7 DEF Evict
  <2> QED
    BY <1>7, <1>a, <2>1 DEF Clean, Quiet, Owing
<1>8. CASE Evict /\ ch # << >>
  <2>1. pc = "evict" /\ pc' = "reflush" /\ cost' = CostOf(Head(ch))
    BY <1>8 DEF Evict
  <2>2. Head(ch).kind # "resync"
    <3>1. Head(ch) = ch[1] /\ 1 \in 1 .. Len(ch)
      BY <1>8, <1>b, TailShapes
    <3> QED
      BY <1>a, <2>1, <3>1 DEF Quiet
  <2> QED
    BY <2>1, <2>2 DEF Clean, CostOf
<1>9. CASE Settle
  <2>1. /\ pc = "settle" /\ pc' = "idle" /\ sending' = Notice /\ Clean'
        /\ UNCHANGED <<pending, told, reads>>
    BY <1>9 DEF Settle, Return, Clean
  <2>2. ~swept /\ HasRoom /\ cost = 0 /\ ch' = Append(ch, sending)
    BY <1>9, <1>b DEF Settle, Unhurt
  <2>3. Quiet /\ sending.kind # "resync"
    BY <1>a, <2>1, <2>2 DEF Shapes, Sent, Clean
  <2>4. \A k \in 1 .. Len(ch') : ch'[k].kind # "resync"
    <3>1. \A k \in 1 .. Len(ch') : k \in 1 .. Len(ch) \/ k = Len(ch) + 1
      BY <1>b, <2>2, AppendShapes
    <3> QED
      BY <1>b, <2>2, <2>3, <3>1, AppendShapes DEF Quiet
  <2> QED
    BY <2>1, <2>3, <2>4 DEF Quiet, Owing
<1>10. CASE Take
  <2>1. /\ ch # << >> /\ ch' = Tail(ch)
        /\ UNCHANGED <<pc, sending, swept, cost, pending, told>>
    BY <1>10 DEF Take
  <2>2. CASE ~Clean
    BY <1>a, <2>1, <2>2 DEF Clean
  <2>3. CASE Clean
    <3>1. Quiet /\ Head(ch).kind # "resync"
      <4>1. Head(ch) = ch[1] /\ 1 \in 1 .. Len(ch)
        BY <1>b, <2>1, TailShapes
      <4> QED
        BY <1>a, <2>3, <4>1 DEF Quiet
    <3>2. reads' = reads
      BY <1>10, <3>1 DEF Take
    <3>3. \A k \in 1 .. Len(ch') : ch'[k].kind # "resync"
      BY <2>1, <3>1, TailShapes DEF Quiet
    <3> QED
      BY <2>1, <2>3, <3>1, <3>2, <3>3 DEF Clean, Quiet, Owing
  <2> QED
    BY <2>2, <2>3
<1>11. ASSUME NEW n \in Runs, Open(n) PROVE IF Clean' THEN Quiet' ELSE (pc \in {"reflush", "settle"})'
  <2>1. /\ UNCHANGED <<pc, sending, swept, cost, pending, told, ch>>
        /\ reads' = reads \cup {Asking(n, 0, TRUE)}
    BY <1>11 DEF Open
  <2> QED
    BY <1>a, <2>1 DEF Clean, Quiet, Owing, Asking
<1>12. ASSUME NEW q \in reads, Serve(q) \/ Answer(q) \/ Fail(q)
       PROVE IF Clean' THEN Quiet' ELSE (pc \in {"reflush", "settle"})'
  <2>1. UNCHANGED <<pc, sending, swept, cost, pending, told, ch>>
    BY <1>12 DEF Serve, Answer, Fail
  <2>2. (\A p \in reads : p.first) => \A p \in reads' : p.first
    <3>1. q \in Read
      BY DEF Shapes, TypeOK
    <3>2. \A u : [q EXCEPT !.upto = u].first = q.first
      BY <3>1 DEF Read
    <3> QED
      BY <1>12, <3>2 DEF Serve, Answer, Fail
  <2> QED
    BY <1>a, <2>1, <2>2 DEF Clean, Quiet, Owing
<1>13. CASE Break
  BY <1>13, <1>a DEF Break, Unhurt
<1> QED
  BY <1>1, <1>2, <1>3, <1>4, <1>5, <1>6, <1>7, <1>8, <1>9, <1>10, <1>11, <1>12, <1>13
     DEF Next, Publisher, Window

LEMMA NextKept == Shapes /\ QuietInv /\ KeptInv /\ [Next]_vars => KeptInv'
<1> SUFFICES ASSUME Shapes, QuietInv, KeptInv, Next, Unhurt', Clean' PROVE AllKept'
  <2>1. UNCHANGED vars /\ KeptInv => KeptInv'
    BY DEF KeptInv, Unhurt, Clean, AllKept, Kept, Due
  <2> QED
    BY <2>1 DEF KeptInv
<1>a. Unhurt /\ (Clean => Quiet /\ AllKept) /\ (~Clean => pc \in {"reflush", "settle"})
  BY HurtStays DEF QuietInv, KeptInv
<1>b. /\ ch \in Seq(Message) /\ Len(ch) \in Nat /\ Buffer \in Nat \ {0} /\ cost \in {0, 1}
      /\ dropped = 0 /\ sending \in Message /\ pending \in [Runs -> Nat \cup {None}]
      /\ log \in [Runs -> Nat] /\ seen \in [Runs -> SUBSET Nat] /\ reads \subseteq Read
  BY <1>a, FanoutAssumption DEF Shapes, TypeOK, Unhurt
<1>c. Clean
  <2>1. SUFFICES ASSUME ~Clean PROVE FALSE
    OBVIOUS
  <2>2. pc \in {"reflush", "settle"} /\ (swept \/ cost = 1)
    BY <1>a, <1>b, <2>1 DEF Clean
  <2>3. CASE Settle
    BY <1>b, <2>2, <2>3 DEF Settle, Unhurt
  <2>4. CASE ~Settle
    <3>1. UNCHANGED <<swept, cost>> \/ swept'
      BY <2>2, <2>4 DEF Next, Publisher, Window, OfferLine, OfferEnded, OfferNotice, Offer, Flush,
         FlushEnds, Try, Evict, Take, Open, Serve, Answer, Fail, Break
    <3> QED
      BY <2>1, <3>1 DEF Clean
  <2> QED
    BY <2>3, <2>4
<1>d. Quiet
  BY <1>a, <1>c
<1> SUFFICES ASSUME NEW r \in Runs, r \in feed', r \notin failed', NEW i \in 1 .. log'[r]
             PROVE Kept(r, i)'
  BY NextShapes DEF AllKept, Shapes, TypeOK
<1>e. ASSUME r \in feed, r \notin failed, i \in 1 .. log[r] PROVE Kept(r, i)
  BY <1>a, <1>c, <1>e DEF AllKept
<1> DEFINE Asked4 == \E q \in reads : Read4(q, r, i)
           Same   == r \in feed /\ r \notin failed /\ i \in 1 .. log[r]
<1>f. Same => i \in seen[r] \/ Due(r, i) \/ Queued(ch, r, i) \/ sending = Event(r, i) \/ Asked4
  BY <1>e DEF Kept
<1>g. ASSUME i \in seen'[r] \/ Due(r, i)' \/ Queued(ch', r, i) \/ sending' = Event(r, i) \/ Asked4'
      PROVE Kept(r, i)'
  BY <1>g DEF Kept, Queued, Due, Read4
<1> HIDE DEF Asked4
<1>o. ASSUME UNCHANGED <<log, ch, pending, feed, failed, seen, reads, sending>> PROVE Kept(r, i)'
  <2>1. Asked4' = Asked4 /\ (Due(r, i) => Due(r, i)')
    BY <1>o DEF Asked4, Due
  <2> QED
    BY <1>f, <1>g, <1>o, <2>1
<1>p. ASSUME ch' = Append(ch, sending), UNCHANGED <<log, pending, feed, failed, seen, reads>>
      PROVE Kept(r, i)'
  <2>1. Asked4' = Asked4 /\ (Due(r, i) => Due(r, i)')
    BY <1>p DEF Asked4, Due
  <2>2. Queued(ch, r, i) => Queued(ch', r, i)
    <3>1. \A k \in 1 .. Len(ch) : k \in 1 .. Len(ch') /\ ch'[k] = ch[k]
      BY <1>b, <1>p, AppendShapes
    <3> QED
      BY <3>1 DEF Queued
  <2>3. sending = Event(r, i) => Queued(ch', r, i)
    <3>1. Len(ch) + 1 \in 1 .. Len(ch') /\ ch'[Len(ch) + 1] = sending
      BY <1>b, <1>p, AppendShapes
    <3> QED
      BY <3>1 DEF Queued
  <2> QED
    BY <1>f, <1>g, <1>p, <2>1, <2>2, <2>3
<1>1. ASSUME NEW m, Offer(m), pc = "idle", UNCHANGED log \/ m = Event(r, i) \/ log'[r] = log[r]
      PROVE Kept(r, i)'
  <2>1. UNCHANGED <<ch, pending, feed, failed, seen, reads>> /\ sending' = m
    BY <1>1 DEF Offer
  <2>2. sending # Event(r, i)
    BY <1>1, <1>d DEF Quiet, Notice, Event
  <2>3. Asked4' = Asked4 /\ (Due(r, i) => Due(r, i)')
    BY <2>1 DEF Asked4, Due
  <2> QED
    BY <1>1, <1>f, <1>g, <2>1, <2>2, <2>3
<1>2. ASSUME NEW n \in Runs, OfferLine(n) PROVE Kept(r, i)'
  <2>1. Offer(Event(n, log[n] + 1)) /\ pc = "idle" /\ log' = [log EXCEPT ![n] = log[n] + 1]
    BY <1>2 DEF OfferLine, Offer
  <2>2. CASE n = r /\ i = log[r] + 1
    BY <1>1, <2>1, <2>2
  <2>3. CASE n # r
    BY <1>1, <1>b, <2>1, <2>3
  <2>4. CASE n = r /\ i # log[r] + 1
    <3>1. i \in 1 .. log[r]
      BY <1>b, <2>1, <2>4
    <3>2. /\ UNCHANGED <<ch, pending, feed, failed, seen, reads>> /\ sending # Event(r, i)
      BY <2>1, <1>d DEF Offer, Quiet, Notice, Event
    <3>3. Asked4' = Asked4 /\ (Due(r, i) => Due(r, i)')
      BY <3>2 DEF Asked4, Due
    <3> QED
      BY <1>f, <1>g, <3>1, <3>2, <3>3
  <2> QED
    BY <2>2, <2>3, <2>4
<1>3. ASSUME NEW n \in Runs, OfferEnded(n) PROVE Kept(r, i)'
  BY <1>1, <1>3 DEF OfferEnded, Offer
<1>4. CASE OfferNotice
  BY <1>1, <1>4 DEF OfferNotice, Offer
<1>5. ASSUME NEW n \in Runs, Flush(n) PROVE Kept(r, i)'
  BY <1>5, <1>d DEF Flush, Quiet, Clean
<1>6. CASE FlushEnds
  BY <1>6, <1>o DEF FlushEnds
<1>7. CASE Try /\ HasRoom
  BY <1>7, <1>p DEF Try
<1>8. CASE Try /\ ~HasRoom
  <2>1. Miss(sending) /\ UNCHANGED <<log, ch, sending, feed, failed, seen, reads>>
    BY <1>8 DEF Try
  <2>2. sending \in Message /\ Written(sending) /\ i \in Nat
    BY <1>b, <2>1 DEF Shapes, Real
  <2>3. Due(r, i) => Due(r, i)'
    BY <2>1, <2>2, MissCovers
  <2>4. Asked4' = Asked4
    BY <2>1 DEF Asked4
  <2> QED
    BY <1>f, <1>g, <2>1, <2>3, <2>4
<1>9. CASE Evict
  <2>1. CASE ch = << >>
    BY <1>9, <1>o, <2>1 DEF Evict
  <2>2. CASE ch # << >>
    <3>1. Head(ch).kind # "resync"
      BY <1>b, <1>d, <2>2, TailShapes DEF Quiet
    <3> QED
      BY <1>9, <2>2, <3>1 DEF Evict, CostOf, Clean
  <2> QED
    BY <2>1, <2>2
<1>10. CASE Settle
  <2>1. ~swept /\ HasRoom
    BY <1>10, <1>b DEF Settle, Unhurt
  <2> QED
    BY <1>10, <1>p, <2>1 DEF Settle
<1>11. CASE Take
  <2>1. /\ ch # << >> /\ ch' = Tail(ch) /\ Head(ch).kind # "resync"
        /\ UNCHANGED <<log, sending, pending, feed, failed>>
    <3>1. ch # << >> /\ ch' = Tail(ch) /\ UNCHANGED <<log, sending, pending, feed, failed>>
      BY <1>11 DEF Take
    <3> QED
      BY <1>b, <1>d, <3>1, TailShapes DEF Quiet
  <2>2. /\ i \in seen[r] => i \in seen'[r]
        /\ Head(ch) = Event(r, i) => i \in seen'[r]
    <3>1. CASE Listening(Head(ch).run) /\ Head(ch).kind = "event"
      <4>1. seen' = [seen EXCEPT ![Head(ch).run] = seen[Head(ch).run] \cup {Head(ch).at}]
        BY <1>11, <3>1 DEF Take
      <4> QED
        BY <1>b, <4>1 DEF Event
    <3>2. CASE ~(Listening(Head(ch).run) /\ Head(ch).kind = "event")
      <4>1. Head(ch) # Event(r, i)
        BY <2>1, <3>2 DEF Listening, Event
      <4>2. seen' = seen
        BY <1>11, <3>2 DEF Take
      <4> QED
        BY <4>1, <4>2
    <3> QED
      BY <3>1, <3>2
  <2>3. Queued(ch, r, i) => Head(ch) = Event(r, i) \/ Queued(ch', r, i)
    <3> SUFFICES ASSUME NEW k \in 1 .. Len(ch), ch[k] = Event(r, i), k # 1
                 PROVE Queued(ch', r, i)
      BY <2>1, TailShapes DEF Queued
    <3>1. k - 1 \in 1 .. Len(Tail(ch)) /\ (k - 1) + 1 = k
      BY <1>b, <2>1, TailShapes
    <3>2. Tail(ch)[k - 1] = ch[k]
      BY <2>1, <3>1, TailShapes
    <3> QED
      BY <2>1, <3>1, <3>2 DEF Queued
  <2>4. (Due(r, i) => Due(r, i)') /\ (Asked4 => Asked4')
    <3>1. reads' = reads
      BY <1>11, <2>1 DEF Take
    <3> QED
      BY <2>1, <3>1 DEF Due, Asked4
  <2> QED
    BY <1>f, <1>g, <2>1, <2>2, <2>3, <2>4
<1>12. ASSUME NEW n \in Runs, Open(n) PROVE Kept(r, i)'
  <2>1. /\ feed' = feed \cup {n} /\ reads' = reads \cup {Asking(n, 0, TRUE)}
        /\ UNCHANGED <<log, ch, sending, pending, failed, seen>>
    BY <1>12 DEF Open
  <2>2. CASE n = r
    <3>1. Asking(r, 0, TRUE) \in reads' /\ Read4(Asking(r, 0, TRUE), r, i)
      BY <1>b, <2>1, <2>2 DEF Asking, Read4
    <3> QED
      BY <1>g, <3>1 DEF Asked4
  <2>3. CASE n # r
    <3>1. Same /\ (Due(r, i) => Due(r, i)') /\ (Asked4 => Asked4')
      BY <2>1, <2>3 DEF Due, Asked4
    <3> QED
      BY <1>f, <1>g, <2>1, <3>1
  <2> QED
    BY <2>2, <2>3
<1>13. ASSUME NEW q \in reads, Serve(q) PROVE Kept(r, i)'
  <2>1. /\ reads' = (reads \ {q}) \cup {[q EXCEPT !.upto = log[q.run]]}
        /\ UNCHANGED <<log, ch, sending, pending, feed, failed, seen>>
    BY <1>13 DEF Serve
  <2>2. Read4(q, r, i) => Read4([q EXCEPT !.upto = log[q.run]], r, i)
    <3>1. q \in Read /\ i <= log[r]
      BY <1>b, <2>1
    <3> QED
      BY <3>1 DEF Read4, Read
  <2>3. (Due(r, i) => Due(r, i)') /\ (Asked4 => Asked4')
    BY <2>1, <2>2 DEF Due, Asked4
  <2> QED
    BY <1>f, <1>g, <2>1, <2>3
<1>14. ASSUME NEW q \in reads, Answer(q) PROVE Kept(r, i)'
  <2>1. /\ reads' = reads \ {q} /\ q.upto # None
        /\ seen' = [seen EXCEPT ![q.run] = seen[q.run] \cup Lines(q.run, q.from, q.upto)]
        /\ UNCHANGED <<log, ch, sending, pending, feed, failed>>
    BY <1>14 DEF Answer
  <2>2. i \in seen[r] => i \in seen'[r]
    BY <1>b, <2>1
  <2>3. Read4(q, r, i) => i \in seen'[r]
    <3>1. q.upto \in Nat /\ i >= 1
      BY <1>b, <2>1 DEF Read
    <3>2. Read4(q, r, i) => q.run = r /\ i \in Lines(q.run, q.from, q.upto)
      BY <2>1, <3>1 DEF Read4, Lines
    <3> QED
      BY <1>b, <2>1, <3>2
  <2>4. (Due(r, i) => Due(r, i)') /\ (Asked4 => Asked4' \/ Read4(q, r, i))
    BY <2>1 DEF Due, Asked4
  <2> QED
    BY <1>f, <1>g, <2>1, <2>2, <2>3, <2>4
<1>15. ASSUME NEW q \in reads, Fail(q) PROVE Kept(r, i)'
  <2>1. reads' = reads \ {q} /\ UNCHANGED <<log, ch, sending, pending, feed, seen>>
    BY <1>15 DEF Fail
  <2>2. q.first /\ failed' = failed \cup {q.run}
    BY <1>15, <1>d DEF Fail, Quiet
  <2>3. ~Read4(q, r, i)
    BY <2>2 DEF Read4
  <2>4. (Due(r, i) => Due(r, i)') /\ (Asked4 => Asked4')
    BY <2>1, <2>3 DEF Due, Asked4
  <2> QED
    BY <1>f, <1>g, <2>1, <2>2, <2>4
<1>16. CASE Break
  BY <1>16, <1>a DEF Break, Unhurt, Shapes, TypeOK
<1> QED
  BY <1>2, <1>3, <1>4, <1>5, <1>6, <1>7, <1>8, <1>9, <1>10, <1>11, <1>12, <1>13, <1>14, <1>15,
     <1>16 DEF Next, Publisher, Window

LEMMA InitUnhurt == Init => QuietInv /\ KeptInv
BY DEF Init, QuietInv, KeptInv, Quiet, AllKept, Owing, Clean

\* A transcript opened at any moment has no hole while nothing overflowed.
THEOREM NoHoleUntilOverflow == Spec => []NoHoleWithinBuffer
<1>1. Shapes /\ QuietInv /\ KeptInv /\ [Next]_vars => QuietInv' /\ KeptInv'
  BY NextQuiet, NextKept
<1>2. Shapes /\ QuietInv /\ KeptInv => NoHoleWithinBuffer
  <2> SUFFICES ASSUME Shapes, QuietInv, KeptInv, dropped = 0, breaks = 0, cost = 0,
                      pc \notin {"evict", "reflush", "settle"},
                      NEW r \in feed \ failed, NEW i \in 1 .. log[r]
               PROVE Covered(r, i) \/ Coming(r, i)
    BY DEF NoHoleWithinBuffer, NoHole
  <2>1. Kept(r, i)
    <3>1. Clean
      BY DEF QuietInv, Unhurt
    <3> QED
      BY <3>1 DEF KeptInv, AllKept, Unhurt
  <2> QED
    BY <2>1 DEF Kept, Covered, Coming, Due, Queued, Read4
<1> QED
  BY <1>1, <1>2, InitUnhurt, AlwaysShapes, PTL DEF Spec

-----------------------------------------------------------------------------
(* The published log.                                                       *)

USE DEF logVars, executor, disk, registry, watcher, given, NoCursor

-----------------------------------------------------------------------------
(* Types.                                                                   *)

Cursor == [offset : Nat, index : Nat, closed : BOOLEAN]

\* A line at the head of the log moves a cursor by one.
LEMMA AdvancedType ==
  ASSUME NEW c \in Cursor
  PROVE  /\ Advanced(c) \in Cursor
         /\ Advanced(c).offset = c.offset + 1 /\ Advanced(c).index = c.index + 1
BY DEF Advanced, Cursor

\* The watcher's place after it found a cursor is its own or the cursor's.
LEMMA TakeOverType ==
  ASSUME NEW c \in Cursor, at \in [offset : Nat, index : Nat]
  PROVE  /\ TakeOver(c) \in [offset : Nat, index : Nat]
         /\ TakeOver(c) = at \/ (TakeOver(c).offset = c.offset /\ TakeOver(c).index = c.index)
BY DEF TakeOver, Cursor

\* A cursor the registry made is among those made so far.
LEMMA MadeCursor ==
  ASSUME LogTypeOK, NEW k \in 0 .. Len(cursors), k # NoCursor
  PROVE  /\ k \in 1 .. Len(cursors) /\ cursors[k] \in Cursor
         /\ cursors[k].offset \in Nat /\ cursors[k].offset <= file
         /\ cursors[k].index \in Nat /\ cursors[k].closed \in BOOLEAN
<1>1. cursors \in Seq(Cursor) /\ \A i \in 1 .. Len(cursors) : cursors[i].offset <= file
  BY DEF LogTypeOK, Cursor
<1>2. k \in 1 .. Len(cursors)
  BY <1>1
<1>3. cursors[k] \in Cursor
  BY <1>1, <1>2
<1> QED
  BY <1>1, <1>2, <1>3 DEF Cursor

\* What is read is all there is past the watcher's place.
LEMMA ConsumedType ==
  ASSUME LogTypeOK
  PROVE  /\ Consumed \in [offset : Nat, index : Nat] /\ Consumed.offset = file
         /\ Consumed.index = at.index + (file - at.offset)
BY DEF LogTypeOK, Consumed

\* The parts of the state that hold cursors.
CursorTypes ==
  /\ cursors \in Seq(Cursor)
  /\ entry \in 0 .. Len(cursors) /\ held \in 0 .. Len(cursors) /\ locked \in 0 .. Len(cursors)
  /\ \A k \in 1 .. Len(cursors) : cursors[k].offset <= file

\* The parts that do not.
PlainTypes ==
  /\ file \in Nat /\ adopted \in Nat /\ turns \in Nat /\ asides \in Nat
  /\ status \in {"absent", "active", "ended"}
  /\ scene \in Scenes /\ host \in {"none"} \cup scene.hosts
  /\ stage \in Stages
  /\ sweep \in {"rest", "look", "tail", "release"}
  /\ known \in BOOLEAN /\ grace \in BOOLEAN
  /\ saw \in {"absent", "active", "ended"}

\* Where the watcher stands, and what was published.
ReadTypes ==
  /\ at \in [offset : Nat, index : Nat] /\ at.offset <= file
  /\ pub \in [1 .. LogLines -> Seq(Nat)]

\* The type invariant, part by part.
LEMMA TypeParts == LogTypeOK <=> CursorTypes /\ PlainTypes /\ ReadTypes
BY DEF LogTypeOK, CursorTypes, PlainTypes, ReadTypes, Cursor

\* An appended line keeps every cursor within the log.
LEMMA AppendCursors ==
  ASSUME LogTypeOK, AppendLine
  PROVE  CursorTypes'
<1>1. held \in 1 .. Len(cursors) /\ cursors[held] \in Cursor
  BY MadeCursor DEF LogTypeOK, AppendLine
<1>2. /\ cursors' = [cursors EXCEPT ![held] = Advanced(cursors[held])]
      /\ file' = file + 1 /\ held' = NoCursor /\ UNCHANGED <<entry, locked>>
  BY DEF AppendLine
<1>0. CursorTypes /\ file \in Nat
  BY TypeParts DEF LogTypeOK
<1>3. cursors' \in Seq(Cursor) /\ Len(cursors') = Len(cursors)
  BY <1>0, <1>1, <1>2, AdvancedType DEF CursorTypes
<1>4. ASSUME NEW k \in 1 .. Len(cursors) PROVE cursors'[k].offset <= file + 1
  <2>1. cursors[k].offset \in Nat /\ cursors[k].offset <= file
    BY MadeCursor, <1>0 DEF CursorTypes
  <2>2. cursors'[k] = IF k = held THEN Advanced(cursors[k]) ELSE cursors[k]
    BY <1>0, <1>1, <1>2 DEF CursorTypes
  <2> QED
    BY <1>0, <1>1, <2>1, <2>2, AdvancedType
<1> QED
  BY <1>0, <1>2, <1>3, <1>4 DEF CursorTypes

\* A cursor made for a run starts at the end of its log.
LEMMA OpenCursors ==
  ASSUME LogTypeOK, OpenCursor
  PROVE  CursorTypes'
<1>1. CASE entry # NoCursor
  BY <1>1 DEF OpenCursor, LogTypeOK, CursorTypes, Cursor
<1>2. CASE entry = NoCursor
  <2> DEFINE c == [offset |-> Extent, index |-> Extent, closed |-> FALSE]
  <2>1. c \in Cursor /\ c.offset = file
    BY DEF LogTypeOK, Cursor, Extent
  <2>2. cursors' = Append(cursors, c) /\ entry' = Len(cursors') /\ held' = entry' /\ UNCHANGED <<file, locked>>
    BY <1>2 DEF OpenCursor
  <2> HIDE DEF c
  <2>3. cursors' \in Seq(Cursor) /\ Len(cursors') = Len(cursors) + 1
    BY <2>1, <2>2 DEF LogTypeOK, Cursor
  <2>4. \A k \in 1 .. Len(cursors) : cursors'[k] = cursors[k]
    BY <2>2 DEF LogTypeOK
  <2>5. cursors'[Len(cursors) + 1] = c
    BY <2>2 DEF LogTypeOK
  <2>6. ASSUME NEW k \in 1 .. Len(cursors') PROVE cursors'[k].offset <= file
    <3>1. Len(cursors) \in Nat /\ file \in Nat
      BY DEF LogTypeOK
    <3>2. k \in 1 .. Len(cursors) \/ k = Len(cursors) + 1
      BY <2>3, <3>1
    <3>3. CASE k \in 1 .. Len(cursors)
      <4>1. cursors[k].offset <= file
        BY <3>3 DEF LogTypeOK
      <4> QED
        BY <2>4, <3>3, <4>1
    <3>4. CASE k = Len(cursors) + 1
      BY <2>1, <2>5, <3>1, <3>4
    <3> QED
      BY <3>2, <3>3, <3>4
  <2> QED
    BY <2>2, <2>3, <2>6 DEF LogTypeOK, CursorTypes
<1> QED
  BY <1>1, <1>2

\* A log that is closed leaves its cursor where it stood.
LEMMA ClosedCursors ==
  ASSUME LogTypeOK, CloseEntry
  PROVE  /\ cursors' \in Seq(Cursor) /\ Len(cursors') = Len(cursors)
         /\ \A k \in 1 .. Len(cursors) : /\ cursors'[k].offset = cursors[k].offset
                                         /\ cursors'[k].index = cursors[k].index
<1>1. CASE host = "app" /\ entry # NoCursor
  <2>1. entry \in 1 .. Len(cursors) /\ cursors[entry] \in Cursor
    BY <1>1, MadeCursor DEF LogTypeOK
  <2>2. cursors' = [cursors EXCEPT ![entry] = [cursors[entry] EXCEPT !.closed = TRUE]]
    BY <1>1 DEF CloseEntry
  <2>3. /\ [cursors[entry] EXCEPT !.closed = TRUE] \in Cursor
        /\ [cursors[entry] EXCEPT !.closed = TRUE].offset = cursors[entry].offset
        /\ [cursors[entry] EXCEPT !.closed = TRUE].index = cursors[entry].index
    BY <2>1 DEF Cursor
  <2>4. cursors \in Seq(Cursor)
    BY DEF LogTypeOK, Cursor
  <2> QED
    BY <2>1, <2>2, <2>3, <2>4
<1>2. CASE ~(host = "app" /\ entry # NoCursor)
  BY <1>2 DEF CloseEntry, LogTypeOK, Cursor
<1> QED
  BY <1>1, <1>2

\* Whatever the executor or another process does, no reader stands past the
\* end of the log.
LEMMA NextTypeOK == LogTypeOK /\ LogNext => LogTypeOK'
<1> SUFFICES ASSUME LogTypeOK, LogNext PROVE LogTypeOK'
  OBVIOUS
<1>0. CursorTypes /\ PlainTypes /\ ReadTypes
  BY TypeParts
<1>a. UNCHANGED <<cursors, entry, held, locked>> /\ file' \in {file, file + 1} => CursorTypes'
  <2> SUFFICES ASSUME UNCHANGED <<cursors, entry, held, locked>>, file' \in {file, file + 1}
               PROVE  CursorTypes'
    OBVIOUS
  <2>1. file \in Nat /\ file' \in Nat /\ file <= file'
    BY <1>0 DEF PlainTypes
  <2>2. \A k \in 1 .. Len(cursors) : cursors[k].offset \in Nat /\ cursors[k].offset <= file
    BY <1>0, MadeCursor DEF CursorTypes
  <2>3. /\ cursors' \in Seq(Cursor)
        /\ entry' \in 0 .. Len(cursors')
        /\ held' \in 0 .. Len(cursors')
        /\ locked' \in 0 .. Len(cursors')
    BY <1>0 DEF CursorTypes
  <2>4. \A k \in 1 .. Len(cursors') : cursors'[k].offset <= file'
    BY <2>1, <2>2
  <2> QED
    BY <2>3, <2>4 DEF CursorTypes
<1>b. UNCHANGED <<at, pub>> /\ file' \in {file, file + 1} => ReadTypes'
  BY <1>0 DEF ReadTypes, PlainTypes
<1>c. CursorTypes' /\ PlainTypes' /\ ReadTypes' => LogTypeOK'
  BY DEF LogTypeOK, CursorTypes, PlainTypes, ReadTypes, Cursor
<1> USE DEF PlainTypes, Stages
<1>1. ASSUME NEW h \in scene.hosts, NewRun(h) \/ NextTurn(h, "prelude") \/ NextTurn(h, "resume")
      PROVE  LogTypeOK'
  <2>1. PlainTypes'
    BY <1>0, <1>1 DEF NewRun, NextTurn
  <2> QED
    BY <1>1, <2>1, <1>a, <1>b, <1>c DEF NewRun, NextTurn
<1>2. CASE OpenCursor
  BY <1>0, <1>2, <1>b, <1>c, OpenCursors DEF OpenCursor
<1>3. CASE AppendLine
  <2>1. cursors[held].index + 1 \in Nat
    BY <1>3, MadeCursor DEF AppendLine, LogTypeOK
  <2>2. pub' \in [1 .. LogLines -> Seq(Nat)]
    <3>1. pub' = [pub EXCEPT ![file + 1] = Append(pub[file + 1], cursors[held].index + 1)]
      BY <1>3 DEF AppendLine, Publish
    <3>2. ASSUME file + 1 \in 1 .. LogLines
          PROVE  Append(pub[file + 1], cursors[held].index + 1) \in Seq(Nat)
      BY <1>0, <2>1, <3>2 DEF ReadTypes
    <3>3. pub \in [1 .. LogLines -> Seq(Nat)]
      BY <1>0 DEF ReadTypes
    <3> HIDE DEF ReadTypes
    <3> QED
      BY <3>1, <3>2, <3>3
  <2>3. ReadTypes'
    BY <1>0, <1>3, <2>2 DEF AppendLine, ReadTypes
  <2>4. PlainTypes'
    BY <1>0, <1>3 DEF AppendLine, AfterLine
  <2> QED
    BY <1>3, <2>3, <2>4, <1>c, AppendCursors
<1>4. CASE WriteLine
  <2>1. PlainTypes'
    BY <1>0, <1>4 DEF WriteLine, AfterLine
  <2> QED
    BY <1>4, <2>1, <1>a, <1>b, <1>c DEF WriteLine
<1>5. CASE EndPrepare \/ CloseLog
  <2>1. /\ CloseEntry /\ UNCHANGED <<file, entry, held, locked, at, pub>>
        /\ PlainTypes'
    BY <1>0, <1>5 DEF EndPrepare, CloseLog
  <2>2. CursorTypes'
    BY <1>0, <2>1, ClosedCursors DEF CursorTypes
  <2> QED
    BY <2>1, <2>2, <1>b, <1>c
<1>6. CASE StartSession \/ Finish
  <2>1. PlainTypes'
    BY <1>0, <1>6 DEF StartSession, Finish
  <2> QED
    BY <1>6, <2>1, <1>a, <1>b, <1>c DEF StartSession, Finish
<1>7. CASE Aside
  <2>1. PlainTypes'
    BY <1>0, <1>7 DEF Aside
  <2> QED
    BY <1>7, <2>1, <1>a, <1>b, <1>c DEF Aside
<1>8. CASE Check
  <2>1. PlainTypes'
    BY <1>0, <1>8 DEF Check, Lingers
  <2> QED
    BY <1>8, <2>1, <1>a, <1>b, <1>c DEF Check, Found
<1>9. CASE Look
  <2>1. PlainTypes' /\ CursorTypes'
    BY <1>0, <1>9 DEF Look, CursorTypes
  <2>2. at' \in [offset : Nat, index : Nat] /\ at'.offset <= file
    BY <1>0, <1>9, MadeCursor, TakeOverType DEF Look, ReadTypes, CursorTypes
  <2> QED
    BY <1>0, <1>9, <2>1, <2>2, <1>c DEF Look, ReadTypes
<1>10. CASE ReadOn
  <2>1. PlainTypes' /\ CursorTypes'
    BY <1>0, <1>10 DEF ReadOn, CursorTypes
  <2>2. \A i \in 1 .. LogLines : i > at.offset => at.index + (i - at.offset) \in Nat
    BY <1>0, LiveLogAssumption DEF ReadTypes
  <2>3. pub' \in [1 .. LogLines -> Seq(Nat)]
    BY <1>0, <1>10, <2>2 DEF ReadOn, ReadTypes
  <2>4. at' \in [offset : Nat, index : Nat] /\ at'.offset <= file
    BY <1>0, <1>10, ConsumedType DEF ReadOn
  <2> QED
    BY <1>10, <2>1, <2>3, <2>4, <1>c DEF ReadOn, ReadTypes
<1>11. CASE Release
  <2>1. PlainTypes' /\ CursorTypes'
    BY <1>0, <1>11 DEF Release, CursorTypes
  <2> QED
    BY <1>11, <2>1, <1>b, <1>c DEF Release
<1> QED
  BY <1>1, <1>2, <1>3, <1>4, <1>5, <1>6, <1>7, <1>8, <1>9, <1>10, <1>11 DEF LogNext, Turn, Sweep

\* The registry's cursors and the watcher's place stay within the log.
THEOREM LogTypeCorrect == LogSpec => []LogTypeOK
<1>1. LogInit => LogTypeOK
  <2> SUFFICES ASSUME LogInit PROVE LogTypeOK
    OBVIOUS
  <2>1. CursorTypes
    <3>1. cursors \in Seq(Cursor)
      BY DEF LogInit
    <3>2. Len(cursors) = 0 /\ entry = 0 /\ held = 0 /\ locked = 0
      BY DEF LogInit
    <3>3. 0 \in 0 .. 0 /\ 1 .. 0 = {}
      OBVIOUS
    <3> QED
      BY <3>1, <3>2, <3>3 DEF CursorTypes
  <2>2. PlainTypes
    <3>1. known \in BOOLEAN
      <4>1. adopted = 0 \/ adopted = 1
        BY DEF LogInit
      <4>2. CASE adopted = 0
        BY <4>2 DEF LogInit
      <4>3. CASE adopted = 1
        BY <4>3 DEF LogInit
      <4> QED
        BY <4>1, <4>2, <4>3
    <3>2. /\ file \in Nat /\ adopted \in Nat /\ turns \in Nat /\ asides \in Nat
          /\ scene \in Scenes /\ host \in {"none"} \cup scene.hosts
          /\ stage \in Stages /\ sweep = "rest"
      BY DEF LogInit, Stages
    <3>3. status \in {"absent", "ended"} /\ saw = status
      BY DEF LogInit
    <3>4. grace \in BOOLEAN
      BY DEF LogInit
    <3> QED
      BY <3>1, <3>2, <3>3, <3>4 DEF PlainTypes
  <2>3. ReadTypes
    BY DEF LogInit, ReadTypes
  <2> QED
    BY <2>1, <2>2, <2>3, TypeParts
<1>2. LogTypeOK /\ UNCHANGED logVars => LogTypeOK'
  BY DEF LogTypeOK
<1> QED
  BY <1>1, <1>2, NextTypeOK, PTL DEF LogSpec

-----------------------------------------------------------------------------
(* The published log is the file, when one executor alone writes it.        *)

\* The scenes in which one executor alone writes a run's log: the application,
\* or command lines and what fix appends beside their turns.
HostedScene(s) == s.hosts \subseteq {"app"} /\ s.asides = 0
PolledScene(s) == s.hosts \subseteq {"cli"}

\* An append under way has a line to write, and it is the application's.
Appending == held # NoCursor => host = "app" /\ Logging /\ file < LogLines

\* Offsets and indices count the same lines, whoever counts them.
InStep ==
  /\ at.offset = at.index
  /\ \A k \in 1 .. Len(cursors) : cursors[k].offset = cursors[k].index

\* A hosted run's cursor is at the end of the log, also one the sweep let go of
\* between the opening and the append, and every line appended was published.
HostedInv ==
  HostedScene(scene) =>
    /\ asides = 0
    /\ entry # NoCursor => cursors[entry].offset = file
    /\ held # NoCursor => cursors[held].offset = file /\ entry \in {NoCursor, held}
    /\ \A i \in 1 .. file : i > adopted => pub[i] # <<>>

\* A polled run has no cursor, and only the watcher publishes: what it has gone
\* past, once.
PolledInv ==
  PolledScene(scene) =>
    /\ cursors = <<>> /\ entry = NoCursor /\ held = NoCursor
    /\ \A i \in 1 .. LogLines : Len(pub[i]) <= 1 /\ (i > at.offset => pub[i] = <<>>)

\* Whatever line is published, it is under its place.
Placed == \A i \in 1 .. LogLines : \A k \in 1 .. Len(pub[i]) : pub[i][k] = i

\* What holds of the log and the cursors whoever writes: the invariants of the two
\* kinds of scene speak of their own.
HostInv == file <= LogLines /\ Appending /\ InStep /\ HostedInv /\ PolledInv

\* What holds besides of the lines published.
LogInv == HostInv /\ Placed /\ NothingPassedOver

\* No log is written by two executors that do not know of each other.
OneWriter == \A s \in Scenes : HostedScene(s) \/ PolledScene(s)

\* A line published is one more at its own line.
LEMMA PublishAt ==
  ASSUME LogTypeOK, NEW n \in 1 .. LogLines, NEW i \in Nat, Publish(n, i)
  PROVE  /\ pub'[n] = Append(pub[n], i)
         /\ \A m \in 1 .. LogLines : m # n => pub'[m] = pub[m]
BY DEF LogTypeOK, Publish

\* The lines an append, a poll or nothing publishes are within the bound.
LEMMA AppendingStep ==
  ASSUME LogTypeOK, Appending, file <= LogLines, LogNext
  PROVE  Appending' /\ file' <= LogLines
<1>0. file \in Nat /\ LogLines \in Nat
  BY LiveLogAssumption DEF LogTypeOK
<1> USE DEF Appending, Logging
<1>1. ASSUME NEW h \in scene.hosts, NewRun(h) \/ NextTurn(h, "prelude") \/ NextTurn(h, "resume")
      PROVE  Appending' /\ file' <= LogLines
  BY <1>1 DEF NewRun, NextTurn
<1>2. CASE OpenCursor \/ AppendLine \/ WriteLine
  BY <1>0, <1>2 DEF OpenCursor, AppendLine, WriteLine, AfterLine
<1>3. CASE EndPrepare \/ StartSession \/ Finish \/ CloseLog \/ Aside
  BY <1>0, <1>3 DEF EndPrepare, StartSession, Finish, CloseLog, Aside
<1>4. CASE Check \/ Look \/ ReadOn \/ Release
  BY <1>0, <1>4 DEF Check, Look, ReadOn, Release
<1> QED
  BY <1>1, <1>2, <1>3, <1>4 DEF LogNext, Turn, Sweep

\* Every reader counts offsets and indices alike.
LEMMA InStepStep ==
  ASSUME LogTypeOK, InStep, LogNext
  PROVE  InStep'
<1> USE DEF InStep
<1>1. ASSUME NEW h \in scene.hosts, NewRun(h) \/ NextTurn(h, "prelude") \/ NextTurn(h, "resume")
      PROVE  InStep'
  BY <1>1 DEF NewRun, NextTurn
<1>2. CASE OpenCursor
  <2>1. CASE entry # NoCursor
    BY <1>2, <2>1 DEF OpenCursor
  <2>2. CASE entry = NoCursor
    <3>1. /\ cursors' = Append(cursors, [offset |-> Extent, index |-> Extent, closed |-> FALSE])
          /\ at' = at
      BY <1>2, <2>2 DEF OpenCursor
    <3> QED
      BY <3>1 DEF LogTypeOK
  <2> QED
    BY <2>1, <2>2
<1>3. CASE AppendLine
  <2>1. held \in 1 .. Len(cursors) /\ cursors[held] \in Cursor
    BY <1>3, MadeCursor DEF AppendLine, LogTypeOK
  <2>2. cursors' = [cursors EXCEPT ![held] = Advanced(cursors[held])] /\ at' = at
    BY <1>3 DEF AppendLine
  <2>3. cursors \in Seq(Cursor)
    BY DEF LogTypeOK, Cursor
  <2> QED
    BY <2>1, <2>2, <2>3, AdvancedType
<1>4. CASE EndPrepare \/ CloseLog
  <2>1. CloseEntry /\ at' = at
    BY <1>4 DEF EndPrepare, CloseLog
  <2> QED
    BY <2>1, ClosedCursors
<1>5. CASE WriteLine \/ StartSession \/ Finish \/ Aside \/ Check \/ Release
  BY <1>5 DEF WriteLine, StartSession, Finish, Aside, Check, Found, Release
<1>6. CASE Look
  BY <1>6, MadeCursor, TakeOverType DEF Look, LogTypeOK
<1>7. CASE ReadOn
  <2>1. at'.offset = file /\ at'.index = at.index + (file - at.offset)
    BY <1>7, ConsumedType DEF ReadOn
  <2> QED
    BY <1>7, <2>1 DEF ReadOn, LogTypeOK
<1> QED
  BY <1>1, <1>2, <1>3, <1>4, <1>5, <1>6, <1>7 DEF LogNext, Turn, Sweep

\* What the watcher reads on it publishes, under its place.
LEMMA ReadOnPublishes ==
  ASSUME LogTypeOK, InStep, ReadOn, file <= LogLines, NEW i \in 1 .. LogLines
  PROVE  /\ i > at.offset /\ i <= file => pub'[i] = Append(pub[i], i)
         /\ ~(i > at.offset /\ i <= file) => pub'[i] = pub[i]
<1>1. pub'[i] = IF i > at.offset /\ i <= file
                THEN Append(pub[i], at.index + (i - at.offset)) ELSE pub[i]
  BY DEF ReadOn, LogTypeOK
<1>2. at.index + (i - at.offset) = i
  BY LiveLogAssumption DEF InStep, LogTypeOK
<1> QED
  BY <1>1, <1>2

\* The application's cursor and the log move together.
LEMMA HostedStep ==
  ASSUME LogTypeOK, Appending, InStep, file <= LogLines, HostedInv, LogNext
  PROVE  HostedInv'
<1> SUFFICES ASSUME HostedScene(scene)
             PROVE  /\ asides' = 0
                    /\ entry' # NoCursor => cursors'[entry'].offset = file'
                    /\ held' # NoCursor => cursors'[held'].offset = file' /\ entry' \in {NoCursor, held'}
                    /\ \A i \in 1 .. file' : i > adopted' => pub'[i] # <<>>
  <2>1. scene' = scene
    BY DEF LogNext, Turn, NewRun, NextTurn, OpenCursor, AppendLine, WriteLine, EndPrepare,
       StartSession, Finish, CloseLog, Aside, Sweep, Check, Look, ReadOn, Release
  <2> QED
    BY <2>1 DEF HostedInv, HostedScene
<1>0. /\ asides = 0 /\ scene.asides = 0 /\ host \in {"none", "app"}
      /\ entry # NoCursor => cursors[entry].offset = file
      /\ held # NoCursor => cursors[held].offset = file /\ entry \in {NoCursor, held}
      /\ \A i \in 1 .. file : i > adopted => pub[i] # <<>>
      /\ entry \in 0 .. Len(cursors) /\ held \in 0 .. Len(cursors) /\ file \in Nat
  BY DEF HostedInv, HostedScene, LogTypeOK
<1>1. ASSUME NEW h \in scene.hosts, NewRun(h) \/ NextTurn(h, "prelude") \/ NextTurn(h, "resume")
      PROVE  UNCHANGED <<asides, entry, cursors, held, file, adopted, pub>>
  BY <1>1 DEF NewRun, NextTurn
<1>2. CASE OpenCursor
  <2>1. CASE entry # NoCursor
    BY <1>0, <1>2, <2>1 DEF OpenCursor
  <2>2. CASE entry = NoCursor
    <3> DEFINE c == [offset |-> Extent, index |-> Extent, closed |-> FALSE]
    <3>1. /\ cursors' = Append(cursors, c) /\ entry' = Len(cursors') /\ held' = entry'
          /\ UNCHANGED <<asides, file, adopted, pub>>
      BY <1>2, <2>2 DEF OpenCursor
    <3>2. c.offset = file
      BY DEF Extent
    <3>3. cursors'[entry'] = c
      BY <3>1 DEF LogTypeOK
    <3> HIDE DEF c
    <3> QED
      BY <1>0, <3>1, <3>2, <3>3
  <2> QED
    BY <2>1, <2>2
<1>3. CASE AppendLine
  <2>1. held \in 1 .. Len(cursors) /\ cursors[held] \in Cursor /\ cursors[held].index = file
    BY <1>0, <1>3, MadeCursor DEF AppendLine, InStep
  <2>2. cursors' = [cursors EXCEPT ![held] = Advanced(cursors[held])]
        /\ file' = file + 1 /\ held' = NoCursor /\ Publish(file + 1, file + 1)
        /\ UNCHANGED <<asides, entry, adopted>>
    BY <1>3, <2>1 DEF AppendLine
  <2>3. file + 1 \in 1 .. LogLines
    BY <1>0, <1>3, LiveLogAssumption DEF AppendLine, Appending
  <2>4. entry # NoCursor => cursors'[entry].offset = file + 1
    <3> SUFFICES ASSUME entry # NoCursor PROVE cursors'[entry].offset = file + 1
      OBVIOUS
    <3>1. entry = held
      BY <1>0, <1>3 DEF AppendLine
    <3>2. cursors'[held] = Advanced(cursors[held])
      BY <2>1, <2>2 DEF LogTypeOK
    <3> QED
      BY <1>0, <2>1, <3>1, <3>2, AdvancedType
  <2>5. \A i \in 1 .. file + 1 : i > adopted => pub'[i] # <<>>
    <3> SUFFICES ASSUME NEW i \in 1 .. file + 1, i > adopted PROVE pub'[i] # <<>>
      OBVIOUS
    <3>0. /\ pub'[file + 1] = Append(pub[file + 1], file + 1)
          /\ \A m \in 1 .. LogLines : m # file + 1 => pub'[m] = pub[m]
      BY <1>0, <2>2, <2>3, PublishAt
    <3>1. CASE i = file + 1
      <4>1. pub[file + 1] \in Seq(Nat)
        BY <2>3 DEF LogTypeOK
      <4> QED
        BY <3>0, <3>1, <4>1
    <3>2. CASE i # file + 1
      <4>1. i \in 1 .. file /\ i \in 1 .. LogLines
        BY <1>0, <2>3, <3>2, LiveLogAssumption
      <4> QED
        BY <1>0, <3>0, <3>2, <4>1
    <3> QED
      BY <3>1, <3>2
  <2> QED
    BY <1>0, <2>2, <2>4, <2>5
<1>4. CASE EndPrepare \/ CloseLog
  <2>1. CloseEntry /\ UNCHANGED <<asides, entry, held, file, adopted, pub>>
    BY <1>4 DEF EndPrepare, CloseLog
  <2>2. \A k \in 1 .. Len(cursors) : cursors'[k].offset = cursors[k].offset
    BY <2>1, ClosedCursors
  <2>3. entry # NoCursor => entry \in 1 .. Len(cursors)
    BY <1>0, MadeCursor
  <2>4. held # NoCursor => held \in 1 .. Len(cursors)
    BY <1>0, MadeCursor
  <2> QED
    BY <1>0, <2>1, <2>2, <2>3, <2>4
<1>5. CASE StartSession \/ Finish \/ Check \/ Look
  BY <1>0, <1>5 DEF StartSession, Finish, Check, Look
<1>6. CASE WriteLine \/ Aside
  BY <1>0, <1>6 DEF WriteLine, Aside
<1>7. CASE ReadOn
  <2>1. \A i \in 1 .. file : i > adopted => pub'[i] # <<>>
    <3> SUFFICES ASSUME NEW i \in 1 .. file, i > adopted PROVE pub'[i] # <<>>
      OBVIOUS
    <3>1. i \in 1 .. LogLines
      BY <1>0, LiveLogAssumption
    <3>2. pub'[i] = Append(pub[i], i) \/ pub'[i] = pub[i]
      BY <1>7, <3>1, ReadOnPublishes
    <3>3. pub[i] \in Seq(Nat) /\ pub[i] # <<>>
      BY <1>0, <3>1 DEF LogTypeOK
    <3> QED
      BY <3>2, <3>3
  <2> QED
    BY <1>0, <1>7, <2>1 DEF ReadOn
<1>8. CASE Release
  BY <1>0, <1>8 DEF Release
<1> QED
  BY <1>0, <1>1, <1>2, <1>3, <1>4, <1>5, <1>6, <1>7, <1>8 DEF LogNext, Turn, Sweep

\* The watcher goes past each line of a run it alone publishes once.
LEMMA PolledStep ==
  ASSUME LogTypeOK, Appending, InStep, file <= LogLines, PolledInv, LogNext
  PROVE  PolledInv'
<1> SUFFICES ASSUME PolledScene(scene)
             PROVE  /\ cursors' = <<>> /\ entry' = NoCursor /\ held' = NoCursor
                    /\ \A i \in 1 .. LogLines :
                         Len(pub'[i]) <= 1 /\ (i > at'.offset => pub'[i] = <<>>)
  <2>1. scene' = scene
    BY DEF LogNext, Turn, NewRun, NextTurn, OpenCursor, AppendLine, WriteLine, EndPrepare,
       StartSession, Finish, CloseLog, Aside, Sweep, Check, Look, ReadOn, Release
  <2> QED
    BY <2>1 DEF PolledInv, PolledScene
<1>0. /\ host \in {"none", "cli"} /\ cursors = <<>> /\ entry = NoCursor /\ held = NoCursor
      /\ \A i \in 1 .. LogLines : Len(pub[i]) <= 1 /\ (i > at.offset => pub[i] = <<>>)
  BY DEF PolledInv, PolledScene, LogTypeOK
<1>1. CASE UNCHANGED <<cursors, entry, held, at, pub>>
  BY <1>0, <1>1
<1>2. CASE ReadOn
  <2>1. at'.offset = file /\ UNCHANGED <<cursors, entry, held>>
    BY <1>2, ConsumedType DEF ReadOn
  <2>2. ASSUME NEW i \in 1 .. LogLines
        PROVE  Len(pub'[i]) <= 1 /\ (i > file => pub'[i] = <<>>)
    <3>1. CASE i > at.offset /\ i <= file
      <4>1. pub'[i] = Append(<<>>, i)
        BY <1>0, <1>2, <3>1, ReadOnPublishes
      <4> QED
        BY <3>1, <4>1, LiveLogAssumption DEF LogTypeOK
    <3>2. CASE ~(i > at.offset /\ i <= file)
      <4>1. pub'[i] = pub[i] /\ (i > file => i > at.offset)
        BY <1>2, <3>2, LiveLogAssumption, ReadOnPublishes DEF LogTypeOK
      <4> QED
        BY <1>0, <4>1
    <3> QED
      BY <3>1, <3>2
  <2> QED
    BY <1>0, <2>1, <2>2
<1>3. LogNext => ReadOn \/ UNCHANGED <<cursors, entry, held, at, pub>>
  <2>1. ASSUME NEW h \in scene.hosts, NewRun(h) \/ NextTurn(h, "prelude") \/ NextTurn(h, "resume")
        PROVE  UNCHANGED <<cursors, entry, held, at, pub>>
    BY <2>1 DEF NewRun, NextTurn
  <2>2. CASE OpenCursor \/ AppendLine
    BY <1>0, <2>2 DEF OpenCursor, AppendLine
  <2>3. CASE WriteLine \/ StartSession \/ Finish \/ Aside
    BY <2>3 DEF WriteLine, StartSession, Finish, Aside
  <2>4. CASE EndPrepare \/ CloseLog
    BY <1>0, <2>4 DEF EndPrepare, CloseLog, CloseEntry
  <2>5. CASE Check \/ Look \/ Release
    BY <1>0, <2>5 DEF Check, Found, Look, Release
  <2> QED
    BY <2>1, <2>2, <2>3, <2>4, <2>5 DEF LogNext, Turn, Sweep
<1> QED
  BY <1>1, <1>2, <1>3

\* A line goes out under its place in the log.
LEMMA PlacedStep ==
  ASSUME LogTypeOK, InStep, Appending, file <= LogLines, HostedInv, PolledInv,
         HostedScene(scene) \/ PolledScene(scene), Placed, LogNext
  PROVE  Placed'
<1> USE DEF Placed
<1>0. file \in Nat /\ LogLines \in Nat
  BY LiveLogAssumption DEF LogTypeOK
<1>1. CASE AppendLine
  <2>1. held \in 1 .. Len(cursors) /\ cursors[held].index = file
    BY <1>1, MadeCursor DEF AppendLine, HostedInv, PolledInv, InStep, LogTypeOK
  <2>2. Publish(file + 1, file + 1) /\ file + 1 \in 1 .. LogLines
    BY <1>0, <1>1, <2>1 DEF AppendLine, Appending
  <2>3. /\ pub'[file + 1] = Append(pub[file + 1], file + 1)
        /\ \A m \in 1 .. LogLines : m # file + 1 => pub'[m] = pub[m]
    BY <1>0, <2>2, PublishAt
  <2>4. pub[file + 1] \in Seq(Nat)
    BY <2>2 DEF LogTypeOK
  <2>5. \A k \in 1 .. Len(pub'[file + 1]) : pub'[file + 1][k] = file + 1
    BY <2>2, <2>3, <2>4
  <2> QED
    BY <2>3, <2>5
<1>2. CASE ReadOn
  <2> SUFFICES ASSUME NEW i \in 1 .. LogLines PROVE \A k \in 1 .. Len(pub'[i]) : pub'[i][k] = i
    OBVIOUS
  <2>1. pub'[i] = Append(pub[i], i) \/ pub'[i] = pub[i]
    BY <1>2, ReadOnPublishes
  <2>2. pub[i] \in Seq(Nat) /\ \A k \in 1 .. Len(pub[i]) : pub[i][k] = i
    BY DEF LogTypeOK
  <2>3. CASE pub'[i] = pub[i]
    BY <2>2, <2>3
  <2>4. CASE pub'[i] = Append(pub[i], i)
    <3>1. /\ Len(pub'[i]) = Len(pub[i]) + 1 /\ pub'[i][Len(pub[i]) + 1] = i
          /\ \A k \in 1 .. Len(pub[i]) : pub'[i][k] = pub[i][k]
      BY <2>2, <2>4
    <3>2. Len(pub[i]) \in Nat
      BY <2>2
    <3> QED
      BY <2>2, <3>1, <3>2
  <2> QED
    BY <2>1, <2>3, <2>4
<1>3. LogNext => AppendLine \/ ReadOn \/ pub' = pub
  BY DEF LogNext, Turn, NewRun, NextTurn, OpenCursor, WriteLine, EndPrepare, StartSession, Finish,
     CloseLog, Aside, Sweep, Check, Look, Release
<1> QED
  BY <1>1, <1>2, <1>3

\* The watcher goes past what it publishes itself or what a cursor, which only
\* counts published lines, has gone past.
LEMMA PassedStep ==
  ASSUME LogTypeOK, InStep, file <= LogLines, HostedInv, PolledInv,
         HostedScene(scene) \/ PolledScene(scene), NothingPassedOver, LogNext
  PROVE  NothingPassedOver'
<1> USE DEF NothingPassedOver
<1>0. file \in Nat /\ LogLines \in Nat /\ at.offset \in Nat /\ at.offset <= file
  BY LiveLogAssumption DEF LogTypeOK
<1>1. CASE AppendLine
  <2>0. at' = at /\ adopted' = adopted /\ Publish(file + 1, cursors[held].index + 1)
    BY <1>1 DEF AppendLine
  <2>1. ASSUME NEW i \in 1 .. at.offset PROVE pub'[i] = pub[i]
    <3>1. i \in 1 .. LogLines /\ i # file + 1
      BY <1>0
    <3> QED
      BY <2>0, <3>1 DEF LogTypeOK, Publish
  <2> QED
    BY <2>0, <2>1
<1>2. CASE ReadOn
  <2>1. at'.offset = file /\ adopted' = adopted
    BY <1>2, ConsumedType DEF ReadOn
  <2>2. ASSUME NEW i \in 1 .. file, i > adopted PROVE pub'[i] # <<>>
    <3>1. i \in 1 .. LogLines /\ pub[i] \in Seq(Nat)
      BY <1>0 DEF LogTypeOK
    <3>2. CASE i > at.offset
      BY <1>0, <1>2, <3>1, <3>2, ReadOnPublishes
    <3>3. CASE ~(i > at.offset)
      <4>1. i \in 1 .. at.offset /\ pub'[i] = pub[i]
        BY <1>0, <1>2, <3>1, <3>3, ReadOnPublishes
      <4> QED
        BY <2>2, <4>1
    <3> QED
      BY <3>2, <3>3
  <2> QED
    BY <2>1, <2>2
<1>3. CASE Look
  <2>0. adopted' = adopted /\ pub' = pub
    BY <1>3 DEF Look
  <2>1. CASE entry = NoCursor
    BY <1>3, <2>0, <2>1 DEF Look
  <2>2. CASE entry # NoCursor
    <3>1. HostedScene(scene)
      BY <2>2 DEF PolledInv
    <3>2. \A i \in 1 .. file : i > adopted => pub[i] # <<>>
      BY <3>1 DEF HostedInv
    <3>3. at'.offset \in Nat /\ at'.offset <= file
      BY <1>0, <1>3, <2>2, MadeCursor, TakeOverType DEF Look, LogTypeOK
    <3> QED
      BY <1>0, <2>0, <3>2, <3>3
  <2> QED
    BY <2>1, <2>2
<1>4. LogNext => AppendLine \/ ReadOn \/ Look \/ UNCHANGED <<pub, at, adopted>>
  BY DEF LogNext, Turn, NewRun, NextTurn, OpenCursor, WriteLine, EndPrepare, StartSession, Finish,
     CloseLog, Aside, Sweep, Check, Found, Release
<1> QED
  BY <1>1, <1>2, <1>3, <1>4

\* Which scene a run is never changes.
LEMMA SceneStays == LogNext => scene' = scene
BY DEF LogNext, Turn, NewRun, NextTurn, OpenCursor, AppendLine, WriteLine, EndPrepare,
   StartSession, Finish, CloseLog, Aside, Sweep, Check, Look, ReadOn, Release

\* What holds whoever writes the run.
LEMMA HostInvariant == LogSpec => []HostInv
<1>1. LogInit => HostInv
  <2> SUFFICES ASSUME LogInit PROVE HostInv
    OBVIOUS
  <2>1. file \in {0, 1} /\ file <= LogLines
    BY LiveLogAssumption DEF LogInit
  <2>2. \A i \in 1 .. LogLines : pub[i] = <<>>
    BY DEF LogInit
  <2>3. Len(cursors) = 0 /\ at.offset = file /\ at.index = file /\ adopted = file
    BY DEF LogInit
  <2>4. HostedScene(scene) => asides = 0
    BY DEF LogInit
  <2> QED
    BY <2>1, <2>2, <2>3, <2>4 DEF LogInit, HostInv, Appending, InStep, HostedInv, PolledInv
<1>2. HostInv /\ UNCHANGED logVars => HostInv'
  BY DEF HostInv, Appending, Logging, InStep, HostedInv, HostedScene, PolledInv, PolledScene
<1>3. LogTypeOK /\ HostInv /\ LogNext => HostInv'
  BY AppendingStep, InStepStep, HostedStep, PolledStep DEF HostInv
<1>4. LogTypeOK /\ HostInv /\ [LogNext]_logVars => HostInv'
  BY <1>2, <1>3
<1> QED
  BY <1>1, <1>4, LogTypeCorrect, PTL DEF LogSpec

\* What holds of the lines published, where one kind of host writes the run.
LEMMA LogInvariant == ASSUME OneWriter PROVE LogSpec => []LogInv
<1>1. LogInit => Placed /\ NothingPassedOver
  <2> SUFFICES ASSUME LogInit PROVE Placed /\ NothingPassedOver
    OBVIOUS
  <2>1. \A i \in 1 .. LogLines : pub[i] = <<>>
    BY DEF LogInit
  <2>2. at.offset = file /\ adopted = file
    BY DEF LogInit
  <2> QED
    BY <2>1, <2>2 DEF LogInit, Placed, NothingPassedOver
<1>2. Placed /\ NothingPassedOver /\ UNCHANGED logVars => (Placed /\ NothingPassedOver)'
  BY DEF Placed, NothingPassedOver
<1>3. LogTypeOK /\ LogInv /\ LogNext => (Placed /\ NothingPassedOver)'
  <2> SUFFICES ASSUME LogTypeOK, LogInv, LogNext PROVE (Placed /\ NothingPassedOver)'
    OBVIOUS
  <2>1. HostedScene(scene) \/ PolledScene(scene)
    BY DEF OneWriter, LogTypeOK
  <2> QED
    BY <2>1, PlacedStep, PassedStep DEF LogInv, HostInv
<1>4. LogTypeOK /\ LogInv /\ [LogNext]_logVars => (Placed /\ NothingPassedOver)'
  BY <1>2, <1>3 DEF LogInv
<1> QED
  BY <1>1, <1>4, LogTypeCorrect, HostInvariant, PTL DEF LogSpec, LogInv

\* Where a run is written by the application alone, or by command lines alone,
\* each line is published under its place in the log, and the watcher goes past
\* no line that was not (live.go:76-118, watcher.go).
THEOREM LogIsPublished == ASSUME OneWriter PROVE LogSpec => []PublishedIsTheLog
<1>1. LogTypeOK /\ LogInv => PublishedIsTheLog
  <2> SUFFICES ASSUME LogTypeOK, LogInv PROVE PublishedIsTheLog
    OBVIOUS
  <2>1. \A i \in 1 .. file : i \in 1 .. LogLines
    BY LiveLogAssumption DEF LogInv, HostInv, LogTypeOK
  <2> QED
    BY <2>1 DEF LogInv, Placed, PublishedIsTheLog, IndexIsPlace
<1> QED
  BY <1>1, LogTypeCorrect, LogInvariant, PTL

\* Over any number of turns, polls and grace periods the watcher publishes a
\* line of a command-line run once.
THEOREM PublishedOnce == LogSpec => []OncePerLine
<1>1. LogTypeOK /\ HostInv => OncePerLine
  <2> SUFFICES ASSUME LogTypeOK, HostInv, scene.hosts = {"cli"}, NEW i \in 1 .. file
               PROVE  Len(pub[i]) <= 1
    BY DEF OncePerLine
  <2>1. i \in 1 .. LogLines
    BY LiveLogAssumption DEF HostInv, LogTypeOK
  <2> QED
    BY <2>1 DEF HostInv, PolledInv, PolledScene
<1> QED
  BY <1>1, LogTypeCorrect, HostInvariant, PTL

=============================================================================
