---------------------- MODULE FixturePublisherProofs -----------------------
(***************************************************************************)
(* Theorems about FixturePublisher, for every set of status codes, sides   *)
(* and odds times, every duration of the calls and every bound.            *)
(***************************************************************************)
EXTENDS FixturePublisher, SequenceTheorems, WellFoundedInduction, TLAPS

EventKinds == {"kickoff", "half-time", "second-half-start", "penalty-shootout-start",
               "full-time", "abandoned", "goal"}
Events == [seq : 1 .. MaxSeq, kind : EventKinds, ts : 1 .. MaxTs, side : Sides \cup {None}]

RecordShapes == [seq : 1 .. MaxSeq, ts : 1 .. MaxTs, code : Codes, status : Statuses,
                 gaps : Gaps, events : SUBSET Events]
ScoreRecords == {r \in RecordShapes : \A e \in r.events : e.seq = r.seq /\ e.ts = r.ts}
Machines == [seq : 0 .. MaxSeq, ts : 0 .. MaxTs, code : Codes \cup {None}, status : Statuses, gaps : Gaps]
ScoreEntries == [kind : {"score"}, record : ScoreRecords]
OddsEntries == [kind : {"odds"}, ts : OddsTimes]

Shapes ==
  /\ scores \in Seq(ScoreRecords) /\ oddsTs \in 0 .. MaxTs
  /\ queue \in Seq(ScoreEntries \cup OddsEntries) /\ Len(queue) <= MaxQueue
  /\ machine \in Machines /\ (machine.seq # 0 => machine.ts # 0)
  /\ up \in {"down", "opening", "open"} /\ stopping \in BOOLEAN
  /\ work \in {"idle", "calls", "settle"}
  /\ crashes \in 0 .. MaxCrashes /\ failures \in 0 .. MaxFailures

\* What was published follows from the facts.
Derived ==
  /\ calls \subseteq ExpectedCalls(scores)
  /\ {s.call : s \in settled} \subseteq calls

\* The scores in the log and in the queue have growing numbers, which an open
\* machine has seen; a publisher that is not open has none under way.
QueuedScores == {i \in DOMAIN queue : queue[i].kind = "score"}
InOrder ==
  /\ \A i, j \in DOMAIN scores : i < j => scores[i].seq < scores[j].seq
  /\ \A i, j \in QueuedScores : i < j => queue[i].record.seq < queue[j].record.seq
  /\ \A i \in DOMAIN scores, j \in QueuedScores : scores[i].seq < queue[j].record.seq
  /\ up = "open" =>
       /\ \A i \in DOMAIN scores : scores[i].seq <= machine.seq
       /\ \A j \in QueuedScores : queue[j].record.seq <= machine.seq
  /\ up # "open" => queue = <<>>
  /\ up = "opening" => work # "idle"
  /\ up = "down" => work = "idle"

\* Between two facts nothing is left to publish, as long as no append failed.
TasksEnd ==
  failures = 0 =>
    /\ work = "settle" => MissingCalls = {}
    /\ up = "open" /\ work = "idle" => MissingCalls = {} /\ DueSettlements = {}

\* As long as no append failed, each score but the first declares the break
\* before it, and the machine is where the last one left it.
Recorded == Range(scores) \cup {queue[i].record : i \in QueuedScores}
Declared(a, b) == b.seq = a.seq + 1 \/ <<a.ts, b.ts>> \in b.gaps
Chained ==
  failures = 0 =>
    /\ \A a, b \in Recorded :
         a.seq < b.seq /\ (\A c \in Recorded : c.seq <= a.seq \/ b.seq <= c.seq) => Declared(a, b)
    /\ up = "open" =>
         IF Recorded = {} THEN machine.seq = 0
         ELSE \E r \in Recorded : r.seq = machine.seq /\ r.ts = machine.ts

\* The inductive invariant.
PInv == Shapes /\ Derived /\ InOrder /\ TasksEnd /\ Chained /\ OneVerdict

-----------------------------------------------------------------------------
(* What the fold of a message gives. *)

LEMMA FoldShapes ==
  ASSUME NEW m \in Machines, m.seq # 0 => m.ts # 0,
         NEW seq \in 1 .. MaxSeq, NEW ts \in 1 .. MaxTs, NEW code \in Codes,
         NEW goals \in SUBSET Events, \A e \in goals : e.seq = seq /\ e.ts = ts
  PROVE  /\ StepTo(m, seq, ts, code) \in Machines
         /\ StepTo(m, seq, ts, code).seq = seq /\ StepTo(m, seq, ts, code).ts = ts
         /\ ScoreRecord(m, seq, ts, code, goals) \in ScoreRecords
<1>1. StatusOf(code) \in Statuses
  BY DEF Statuses
<1>2. GapsAt(m, seq, ts) \in Gaps
  BY BoundAssumption DEF GapsAt, Gaps, Machines
<1>3. m.gaps \cup GapsAt(m, seq, ts) \in Gaps
  BY <1>2 DEF Gaps, Machines
<1>4. StepTo(m, seq, ts, code) \in Machines
  BY <1>1, <1>3, BoundAssumption DEF StepTo, Machines
<1>5. /\ StepTo(m, seq, ts, code).seq = seq /\ StepTo(m, seq, ts, code).ts = ts
      /\ StepTo(m, seq, ts, code).status \in Statuses /\ StepTo(m, seq, ts, code).gaps \in Gaps
  BY <1>4 DEF StepTo, Machines
<1>6. /\ PhaseEvents(m, seq, ts, code) \in SUBSET Events
      /\ \A e \in PhaseEvents(m, seq, ts, code) : e.seq = seq /\ e.ts = ts
  BY DEF PhaseEvents, PhaseEvent, Events, EventKinds
<1>7. /\ EventsAt(m, seq, ts, code, goals) \in SUBSET Events
      /\ \A e \in EventsAt(m, seq, ts, code, goals) : e.seq = seq /\ e.ts = ts
  BY <1>6 DEF EventsAt
<1>8. ScoreRecord(m, seq, ts, code, goals) \in ScoreRecords
  BY <1>5, <1>7 DEF ScoreRecord, ScoreRecords, RecordShapes
<1>9. QED
  BY <1>4, <1>5, <1>8

LEMMA InitialShape == InitialMachine \in Machines /\ InitialMachine.seq = 0
BY BoundAssumption DEF InitialMachine, Machines, Statuses, Gaps

LEMMA LeastNumber ==
  ASSUME NEW T \in SUBSET Nat, T # {}
  PROVE  \E n \in T : \A k \in T : n <= k
<1> DEFINE R == {ss \in Nat \X Nat : ss[1] < ss[2]}
<1>1. IsWellFoundedOn(R, Nat)
  BY NatLessThanWellFounded DEF OpToRel
<1>1a. \A k, m \in Nat : k < m => <<k, m>> \in R
  OBVIOUS
<1> HIDE DEF R
<1>2. PICK n \in T : \A k \in T : ~(<<k, n>> \in R)
  BY <1>1, WFMin
<1>3. SUFFICES ASSUME NEW k \in T PROVE n <= k
  BY <1>2
<1>4. n \in Nat /\ k \in Nat /\ ~(k < n)
  BY <1>1a, <1>2
<1>5. QED
  BY <1>4

\* The calls that are missing have a first one.
LEMMA NextCallIsMissing ==
  ASSUME scores \in Seq(ScoreRecords), MissingCalls # {}
  PROVE  NextCall \in MissingCalls
<1>1. \A c \in MissingCalls : c.openedAt \in Nat
  <2>1. \A e \in EventsOf(scores) : e.ts \in Nat
    <3>1. \A r \in Range(scores) : r \in ScoreRecords
      BY DEF Range
    <3>2. \A r \in ScoreRecords : \A e \in r.events : e.ts \in Nat
      BY DEF ScoreRecords, RecordShapes, Events
    <3>3. QED
      BY <3>1, <3>2 DEF EventsOf
  <2>2. \A e : \A c \in CallsForEvent(e) : c.openedAt = e.ts
    BY DEF CallsForEvent, CallOf
  <2>3. QED
    BY <2>1, <2>2 DEF MissingCalls, ExpectedCalls
<1> DEFINE T == {c.openedAt : c \in MissingCalls}
<1>2. T # {} /\ T \subseteq Nat
  BY <1>1
<1> HIDE DEF T
<1>3. PICK n \in T : \A k \in T : n <= k
  BY <1>2, LeastNumber
<1>4. PICK c \in MissingCalls : n = c.openedAt
  BY <1>3 DEF T
<1>5. \A d \in MissingCalls : c.openedAt <= d.openedAt
  BY <1>3, <1>4 DEF T
<1>6. QED
  BY <1>4, <1>5 DEF NextCall

LEMMA InitPInv == Init => PInv
<1>1. SUFFICES ASSUME Init PROVE PInv
  OBVIOUS
<1> USE <1>1, BoundAssumption DEF Init, FeedInit
<1>2. Shapes
  <2>1. scores \in Seq(ScoreRecords) /\ queue \in Seq(ScoreEntries \cup OddsEntries) /\ Len(queue) <= MaxQueue
    OBVIOUS
  <2>2. machine \in Machines /\ machine.seq = 0
    BY InitialShape
  <2>3. oddsTs \in 0 .. MaxTs /\ crashes \in 0 .. MaxCrashes /\ failures \in 0 .. MaxFailures
    OBVIOUS
  <2>4. up \in {"down", "opening", "open"} /\ stopping \in BOOLEAN /\ work \in {"idle", "calls", "settle"}
    OBVIOUS
  <2>5. QED
    BY <2>1, <2>2, <2>3, <2>4 DEF Shapes
<1>3. EventsOf(scores) = {}
  BY DEF EventsOf, Range
<1>4. ExpectedCalls(scores) = {}
  BY <1>3 DEF ExpectedCalls
<1>5. MissingCalls = {} /\ DueSettlements = {}
  BY <1>4 DEF MissingCalls, DueSettlements, Decisions, Decided
<1>6. QueuedScores = {} /\ Recorded = {}
  BY DEF QueuedScores, Recorded, Range
<1>7. Derived /\ InOrder /\ OneVerdict
  BY <1>6 DEF Derived, InOrder, OneVerdict
<1>8. TasksEnd /\ Chained
  BY <1>5, <1>6, InitialShape DEF TasksEnd, Chained
<1>9. QED
  BY <1>2, <1>7, <1>8 DEF PInv

-----------------------------------------------------------------------------
(* What an action leaves alone keeps what is said about it. *)

LEMMA FeedFrame ==
  /\ Derived /\ OneVerdict /\ UNCHANGED feed => Derived' /\ OneVerdict'
  /\ UNCHANGED feed => MissingCalls' = MissingCalls /\ DueSettlements' = DueSettlements
  /\ UNCHANGED <<scores, queue>> => Recorded' = Recorded /\ QueuedScores' = QueuedScores
BY DEF feed, Derived, OneVerdict, MissingCalls, DueSettlements, Recorded, QueuedScores

\* No two records have one number.
LEMMA RecordNumbers ==
  ASSUME PInv
  PROVE  /\ \A i \in DOMAIN scores : scores[i] \in ScoreRecords /\ i \in Nat
         /\ \A i \in QueuedScores : queue[i].record \in ScoreRecords /\ i \in Nat
         /\ \A r \in Recorded : r \in ScoreRecords /\ r.seq \in Nat \ {0} /\ r.ts \in Nat \ {0}
<1>1. \A i \in DOMAIN scores : scores[i] \in ScoreRecords /\ i \in Nat
  BY DEF PInv, Shapes
<1>2. \A i \in QueuedScores : queue[i].record \in ScoreRecords /\ i \in Nat
  BY DEF PInv, Shapes, QueuedScores, ScoreEntries, OddsEntries
<1>3. \A z \in ScoreRecords : z.seq \in Nat \ {0} /\ z.ts \in Nat \ {0}
  BY DEF ScoreRecords, RecordShapes
<1>4. \A r \in Recorded : r \in ScoreRecords
  BY <1>1, <1>2 DEF Recorded, Range
<1>5. QED
  BY <1>1, <1>2, <1>3, <1>4

LEMMA OneRecordEach ==
  ASSUME PInv, NEW a \in Recorded, NEW b \in Recorded, a.seq = b.seq
  PROVE  a = b
<1>1. ASSUME NEW i \in DOMAIN scores, NEW j \in DOMAIN scores, scores[i].seq = scores[j].seq
      PROVE  i = j
  <2>1. i \in Nat /\ j \in Nat /\ scores[i].seq \in Nat
    BY RecordNumbers DEF ScoreRecords, RecordShapes
  <2>2. ~(i < j) /\ ~(j < i)
    BY <1>1, <2>1 DEF PInv, InOrder
  <2>3. QED
    BY <2>1, <2>2
<1>2. ASSUME NEW i \in QueuedScores, NEW j \in QueuedScores, queue[i].record.seq = queue[j].record.seq
      PROVE  i = j
  <2>1. i \in Nat /\ j \in Nat /\ queue[i].record.seq \in Nat
    BY RecordNumbers DEF ScoreRecords, RecordShapes
  <2>2. ~(i < j) /\ ~(j < i)
    BY <1>2, <2>1 DEF PInv, InOrder
  <2>3. QED
    BY <2>1, <2>2
<1>3. \A i \in DOMAIN scores, j \in QueuedScores : scores[i].seq # queue[j].record.seq
  BY RecordNumbers DEF PInv, InOrder, ScoreRecords, RecordShapes
<1>4. QED
  BY <1>1, <1>2, <1>3 DEF Recorded, Range

\* An entry at the end of the queue.
LEMMA Queued ==
  ASSUME PInv, NEW x \in ScoreEntries \cup OddsEntries, queue' = Append(queue, x)
  PROVE  /\ queue' \in Seq(ScoreEntries \cup OddsEntries) /\ Len(queue') = Len(queue) + 1
         /\ \A i \in DOMAIN queue : i \in DOMAIN queue' /\ queue'[i] = queue[i] /\ i < Len(queue) + 1
         /\ \A i \in DOMAIN queue' : i \in DOMAIN queue \/ i = Len(queue) + 1
         /\ Len(queue) + 1 \in DOMAIN queue' /\ queue'[Len(queue) + 1] = x
<1>1. queue \in Seq(ScoreEntries \cup OddsEntries)
  BY DEF PInv, Shapes
<1>2. QED
  BY <1>1, AppendProperties

LEMMA IngestOddsPInv ==
  ASSUME PInv, NEW ts \in OddsTimes, IngestOdds(ts)
  PROVE  PInv'
<1> DEFINE x == [kind |-> "odds", ts |-> ts]
<1>1. /\ up = "open" /\ Len(queue) < MaxQueue /\ queue' = Append(queue, x)
      /\ UNCHANGED <<feed, up, stopping, machine, work, crashes, failures>>
  BY DEF IngestOdds, Listening
<1>2. x \in OddsEntries /\ x.kind = "odds"
  BY DEF OddsEntries
<1> HIDE DEF x
<1>3. /\ queue' \in Seq(ScoreEntries \cup OddsEntries) /\ Len(queue') = Len(queue) + 1
      /\ \A i \in DOMAIN queue : i \in DOMAIN queue' /\ queue'[i] = queue[i] /\ i < Len(queue) + 1
      /\ \A i \in DOMAIN queue' : i \in DOMAIN queue \/ i = Len(queue) + 1
      /\ Len(queue) + 1 \in DOMAIN queue' /\ queue'[Len(queue) + 1] = x
  BY <1>1, <1>2, Queued
<1>4. Shapes'
  BY <1>1, <1>3, BoundAssumption DEF PInv, Shapes, feed
<1>5. QueuedScores' = QueuedScores /\ \A i \in QueuedScores : queue'[i] = queue[i]
  BY <1>2, <1>3 DEF QueuedScores
<1>6. Recorded' = Recorded
  BY <1>1, <1>5 DEF Recorded, feed
<1>7. InOrder'
  BY <1>1, <1>5 DEF PInv, InOrder, feed
<1>8. Chained'
  BY <1>1, <1>6 DEF PInv, Chained, Declared
<1>9. TasksEnd'
  BY <1>1, FeedFrame DEF PInv, TasksEnd
<1>10. QED
  BY <1>1, <1>4, <1>7, <1>8, <1>9, FeedFrame DEF PInv

LEMMA IngestScorePInv ==
  ASSUME PInv, NEW seq \in 1 .. MaxSeq, NEW ts \in 1 .. MaxTs, NEW code \in Codes,
         NEW goals \in SUBSET Events, \A e \in goals : e.seq = seq /\ e.ts = ts,
         IngestScore(seq, ts, code, goals)
  PROVE  PInv'
<1> DEFINE r == ScoreRecord(machine, seq, ts, code, goals)
           x == [kind |-> "score", record |-> r]
<1>1. /\ up = "open" /\ Len(queue) < MaxQueue /\ queue' = Append(queue, x)
      /\ seq > machine.seq /\ ts >= machine.ts /\ machine' = StepTo(machine, seq, ts, code)
      /\ UNCHANGED <<feed, up, stopping, work, crashes, failures>>
  BY DEF IngestScore, Listening
<1>2. machine \in Machines /\ (machine.seq # 0 => machine.ts # 0)
  BY DEF PInv, Shapes
<1>3. machine' \in Machines /\ machine'.seq = seq /\ machine'.ts = ts /\ r \in ScoreRecords
  BY <1>1, <1>2, FoldShapes
<1>4. r.seq = seq /\ r.ts = ts /\ r.gaps = machine.gaps \cup GapsAt(machine, seq, ts)
  BY DEF ScoreRecord, StepTo
<1> HIDE DEF r
<1>5. x \in ScoreEntries /\ x.kind = "score" /\ x.record = r
  BY <1>3 DEF ScoreEntries
<1> HIDE DEF x
<1>6. /\ queue' \in Seq(ScoreEntries \cup OddsEntries) /\ Len(queue') = Len(queue) + 1
      /\ \A i \in DOMAIN queue : i \in DOMAIN queue' /\ queue'[i] = queue[i] /\ i < Len(queue) + 1
      /\ \A i \in DOMAIN queue' : i \in DOMAIN queue \/ i = Len(queue) + 1
      /\ Len(queue) + 1 \in DOMAIN queue' /\ queue'[Len(queue) + 1] = x
  BY <1>1, <1>5, Queued
<1>7. Shapes'
  BY <1>1, <1>3, <1>6, BoundAssumption DEF PInv, Shapes, feed
<1>8. /\ QueuedScores' = QueuedScores \cup {Len(queue) + 1}
      /\ \A i \in QueuedScores : queue'[i] = queue[i] /\ i < Len(queue) + 1
      /\ queue'[Len(queue) + 1].record = r
  BY <1>5, <1>6 DEF QueuedScores
<1>9. /\ \A i \in DOMAIN scores : scores[i].seq \in Nat /\ scores[i].seq <= machine.seq
      /\ \A i \in QueuedScores : queue[i].record.seq \in Nat /\ queue[i].record.seq <= machine.seq
      /\ QueuedScores \subseteq Nat /\ Len(queue) \in Nat /\ machine.seq \in Nat
  <2>1. \A i \in DOMAIN scores : scores[i] \in ScoreRecords
    BY DEF PInv, Shapes
  <2>2. \A i \in QueuedScores : queue[i].record \in ScoreRecords /\ i \in Nat
    BY DEF PInv, Shapes, QueuedScores, ScoreEntries, OddsEntries
  <2>3. \A z \in ScoreRecords : z.seq \in Nat
    BY DEF ScoreRecords, RecordShapes
  <2>4. Len(queue) \in Nat /\ machine.seq \in Nat
    BY <1>2 DEF PInv, Shapes, Machines
  <2>5. QED
    BY <1>1, <2>1, <2>2, <2>3, <2>4 DEF PInv, InOrder
<1>10. InOrder'
  <2>1. \A i \in DOMAIN scores' : scores'[i].seq <= machine'.seq
    BY <1>1, <1>3, <1>9 DEF feed
  <2>2. \A j \in QueuedScores' : queue'[j].record.seq <= machine'.seq
    <3>1. SUFFICES ASSUME NEW j \in QueuedScores' PROVE queue'[j].record.seq <= seq
      BY <1>3
    <3>2. CASE j \in QueuedScores
      <4>1. queue'[j].record.seq = queue[j].record.seq /\ queue[j].record.seq \in Nat
            /\ queue[j].record.seq <= machine.seq
        BY <1>8, <1>9, <3>2
      <4>2. QED
        BY <1>1, <1>9, <4>1
    <3>3. CASE j = Len(queue) + 1
      BY <1>4, <1>8, <3>3
    <3>4. QED
      BY <1>8, <3>2, <3>3
  <2>3. \A i, j \in QueuedScores' : i < j => queue'[i].record.seq < queue'[j].record.seq
    <3>1. SUFFICES ASSUME NEW i \in QueuedScores', NEW j \in QueuedScores', i < j
                   PROVE  queue'[i].record.seq < queue'[j].record.seq
      OBVIOUS
    <3>2. i \in QueuedScores
      BY <1>8, <1>9, <3>1
    <3>3. CASE j \in QueuedScores
      BY <1>8, <3>1, <3>2, <3>3 DEF PInv, InOrder
    <3>4. CASE j = Len(queue) + 1
      <4>1. queue'[i].record.seq = queue[i].record.seq /\ queue[i].record.seq \in Nat
            /\ queue[i].record.seq <= machine.seq
        BY <1>8, <1>9, <3>2
      <4>2. queue'[j].record.seq = seq
        BY <1>4, <1>8, <3>4
      <4>3. QED
        BY <1>1, <1>9, <4>1, <4>2
    <3>5. QED
      BY <1>8, <3>3, <3>4
  <2>4. \A i \in DOMAIN scores', j \in QueuedScores' : scores'[i].seq < queue'[j].record.seq
    <3>1. SUFFICES ASSUME NEW i \in DOMAIN scores, NEW j \in QueuedScores'
                   PROVE  scores[i].seq < queue'[j].record.seq
      BY <1>1 DEF feed
    <3>2. CASE j \in QueuedScores
      BY <1>8, <3>1, <3>2 DEF PInv, InOrder
    <3>3. CASE j = Len(queue) + 1
      BY <1>1, <1>4, <1>8, <1>9, <3>3
    <3>4. QED
      BY <1>8, <3>2, <3>3
  <2>5. QED
    BY <1>1, <2>1, <2>2, <2>3, <2>4 DEF PInv, InOrder, feed
<1>11. Chained'
  <2>1. Recorded' = Recorded \cup {r}
    BY <1>1, <1>8 DEF Recorded, feed
  <2>2. \A c \in Recorded : c.seq \in Nat /\ c.seq <= machine.seq
    BY <1>9 DEF Recorded, Range
  <2>3. SUFFICES ASSUME failures = 0, NEW a \in Recorded', NEW b \in Recorded', a.seq < b.seq,
                        \A c \in Recorded' : c.seq <= a.seq \/ b.seq <= c.seq
                 PROVE  Declared(a, b)
    <3>1. r \in Recorded' /\ r.seq = machine'.seq /\ r.ts = machine'.ts
      BY <1>3, <1>4, <2>1
    <3>2. QED
      BY <1>1, <3>1 DEF Chained, Declared
  <2>4. a \in Recorded
    BY <1>1, <1>4, <1>9, <2>1, <2>2, <2>3
  <2>5. CASE b \in Recorded
    BY <2>1, <2>3, <2>4, <2>5 DEF PInv, Chained
  <2>6. CASE b = r
    <3>1. PICK z \in Recorded : z.seq = machine.seq /\ z.ts = machine.ts
      BY <1>1, <2>3, <2>4 DEF PInv, Chained
    <3>2. a.seq = machine.seq
      BY <1>1, <1>4, <1>9, <2>1, <2>2, <2>3, <2>4, <2>6, <3>1
    <3>3. a.ts = machine.ts
      BY <3>1, <3>2, <2>4, OneRecordEach
    <3>4. machine.seq # 0
      BY <2>4, <3>2, RecordNumbers
    <3>5. seq = machine.seq + 1 \/ <<machine.ts, ts>> \in GapsAt(machine, seq, ts)
      BY <3>4 DEF GapsAt
    <3>6. QED
      BY <1>4, <2>6, <3>2, <3>3, <3>5 DEF Declared
  <2>7. QED
    BY <2>1, <2>5, <2>6
<1>12. TasksEnd'
  BY <1>1, FeedFrame DEF PInv, TasksEnd
<1>13. QED
  BY <1>1, <1>7, <1>10, <1>11, <1>12, FeedFrame DEF PInv

-----------------------------------------------------------------------------
(* The tasks. *)

\* The head of the queue leaves it.
LEMMA Dequeued ==
  ASSUME PInv, queue # <<>>, queue' = Tail(queue)
  PROVE  /\ queue' \in Seq(ScoreEntries \cup OddsEntries) /\ Len(queue') <= MaxQueue
         /\ Head(queue) = queue[1] /\ 1 \in DOMAIN queue
         /\ queue[1] \in ScoreEntries \cup OddsEntries
         /\ \A i \in DOMAIN queue' : i \in Nat /\ i + 1 \in DOMAIN queue /\ queue'[i] = queue[i + 1]
         /\ \A i \in DOMAIN queue : i \in Nat /\ (i = 1 \/ (i - 1 \in DOMAIN queue' /\ queue'[i - 1] = queue[i]))
<1>1. queue \in Seq(ScoreEntries \cup OddsEntries) /\ Len(queue) <= MaxQueue
  BY DEF PInv, Shapes
<1>2. /\ Head(queue) = queue[1] /\ Head(queue) \in ScoreEntries \cup OddsEntries
      /\ Tail(queue) \in Seq(ScoreEntries \cup OddsEntries) /\ Len(Tail(queue)) = Len(queue) - 1
      /\ \A i \in 1 .. Len(Tail(queue)) : Tail(queue)[i] = queue[i + 1]
  BY <1>1, HeadTailProperties
<1>3. DOMAIN queue = 1 .. Len(queue) /\ DOMAIN queue' = 1 .. Len(queue') /\ Len(queue) \in Nat \ {0}
  BY <1>1, <1>2
<1>4. MaxQueue \in Nat
  BY BoundAssumption
<1>5. Len(queue') <= MaxQueue
  BY <1>1, <1>2, <1>3, <1>4
<1>6. ASSUME NEW i \in DOMAIN queue'
      PROVE  i \in Nat /\ i + 1 \in DOMAIN queue /\ queue'[i] = queue[i + 1]
  BY <1>2, <1>3, <1>6
<1>7. ASSUME NEW i \in DOMAIN queue, i # 1
      PROVE  i - 1 \in DOMAIN queue' /\ queue'[i - 1] = queue[i]
  <2>1. i - 1 \in 1 .. Len(Tail(queue)) /\ (i - 1) + 1 = i
    BY <1>2, <1>3, <1>7
  <2>2. QED
    BY <1>2, <1>3, <2>1
<1>8. QED
  BY <1>2, <1>3, <1>5, <1>6, <1>7

LEMMA AppendOddsPInv ==
  ASSUME PInv, AppendFact, Head(queue).kind # "score"
  PROVE  PInv'
<1>1. /\ up = "open" /\ work = "idle" /\ queue # <<>> /\ queue' = Tail(queue)
      /\ oddsTs' = (IF Head(queue).ts > oddsTs THEN Head(queue).ts ELSE oddsTs)
      /\ work' = "settle"
      /\ UNCHANGED <<scores, calls, settled, up, stopping, machine, crashes, failures>>
  BY DEF AppendFact
<1>2. /\ queue' \in Seq(ScoreEntries \cup OddsEntries) /\ Len(queue') <= MaxQueue
      /\ Head(queue) = queue[1] /\ 1 \in DOMAIN queue
      /\ queue[1] \in ScoreEntries \cup OddsEntries
      /\ \A i \in DOMAIN queue' : i \in Nat /\ i + 1 \in DOMAIN queue /\ queue'[i] = queue[i + 1]
      /\ \A i \in DOMAIN queue : i \in Nat /\ (i = 1 \/ (i - 1 \in DOMAIN queue' /\ queue'[i - 1] = queue[i]))
  BY <1>1, Dequeued
<1>3. Head(queue).ts \in 1 .. MaxTs
  BY <1>2, BoundAssumption DEF ScoreEntries, OddsEntries
<1>4. Shapes'
  <2>1. oddsTs' \in 0 .. MaxTs
    BY <1>1, <1>3, BoundAssumption DEF PInv, Shapes
  <2>2. QED
    BY <1>1, <1>2, <2>1 DEF PInv, Shapes
<1>5. /\ \A i \in QueuedScores' : i \in Nat /\ i + 1 \in QueuedScores /\ queue'[i] = queue[i + 1]
      /\ \A i \in QueuedScores : i - 1 \in QueuedScores' /\ queue'[i - 1] = queue[i]
  BY <1>2 DEF QueuedScores
<1>6. Recorded' = Recorded
  <2>1. {queue[i].record : i \in QueuedScores} = {queue'[i].record : i \in QueuedScores'}
    BY <1>5
  <2>2. QED
    BY <1>1, <2>1 DEF Recorded
<1>7. InOrder'
  <2>1. \A i, j \in QueuedScores' : i < j => queue'[i].record.seq < queue'[j].record.seq
    <3>1. SUFFICES ASSUME NEW i \in QueuedScores', NEW j \in QueuedScores', i < j
                   PROVE  queue'[i].record.seq < queue'[j].record.seq
      OBVIOUS
    <3>2. i + 1 \in QueuedScores /\ j + 1 \in QueuedScores /\ i + 1 < j + 1
      BY <1>5, <3>1
    <3>3. QED
      BY <1>5, <3>2 DEF PInv, InOrder
  <2>2. QED
    BY <1>1, <1>5, <2>1 DEF PInv, InOrder
<1>8. Chained'
  BY <1>1, <1>6 DEF PInv, Chained, Declared
<1>9. TasksEnd'
  BY <1>1 DEF PInv, TasksEnd, MissingCalls
<1>10. Derived' /\ OneVerdict'
  BY <1>1 DEF PInv, Derived, OneVerdict
<1>11. QED
  BY <1>4, <1>7, <1>8, <1>9, <1>10 DEF PInv

LEMMA AppendScorePInv ==
  ASSUME PInv, AppendFact, Head(queue).kind = "score"
  PROVE  PInv'
<1> DEFINE r == Head(queue).record
           n == Len(scores) + 1
<1>1. /\ up = "open" /\ work = "idle" /\ queue # <<>> /\ queue' = Tail(queue)
      /\ scores' = Append(scores, r) /\ work' = "calls"
      /\ UNCHANGED <<oddsTs, calls, settled, up, stopping, machine, crashes, failures>>
  BY DEF AppendFact
<1>2. /\ queue' \in Seq(ScoreEntries \cup OddsEntries) /\ Len(queue') <= MaxQueue
      /\ Head(queue) = queue[1] /\ 1 \in DOMAIN queue
      /\ queue[1] \in ScoreEntries \cup OddsEntries
      /\ \A i \in DOMAIN queue' : i \in Nat /\ i + 1 \in DOMAIN queue /\ queue'[i] = queue[i + 1]
      /\ \A i \in DOMAIN queue : i \in Nat /\ (i = 1 \/ (i - 1 \in DOMAIN queue' /\ queue'[i - 1] = queue[i]))
  BY <1>1, Dequeued
<1>3. 1 \in QueuedScores /\ r = queue[1].record /\ r \in ScoreRecords
  BY <1>2, RecordNumbers DEF QueuedScores
<1> HIDE DEF r
<1>4. /\ scores' \in Seq(ScoreRecords) /\ n \in DOMAIN scores' /\ scores'[n] = r /\ n \in Nat
      /\ \A i \in DOMAIN scores : i \in DOMAIN scores' /\ scores'[i] = scores[i] /\ i < n /\ i \in Nat
      /\ \A i \in DOMAIN scores' : i \in DOMAIN scores \/ i = n
  <2>1. scores \in Seq(ScoreRecords)
    BY DEF PInv, Shapes
  <2>2. QED
    BY <1>1, <1>3, <2>1, AppendProperties
<1> HIDE DEF n
<1>5. Shapes'
  BY <1>1, <1>2, <1>4 DEF PInv, Shapes
<1>6. /\ \A i \in QueuedScores' : i \in Nat /\ i + 1 \in QueuedScores /\ queue'[i] = queue[i + 1]
      /\ \A i \in QueuedScores : i = 1 \/ (i - 1 \in QueuedScores' /\ queue'[i - 1] = queue[i])
      /\ \A i \in QueuedScores' : 1 < i + 1
  BY <1>2 DEF QueuedScores
<1>7. Recorded' = Recorded
  <2>1. Range(scores') = Range(scores) \cup {r}
    BY <1>4 DEF Range
  <2>2. {queue[i].record : i \in QueuedScores} = {r} \cup {queue'[i].record : i \in QueuedScores'}
    BY <1>3, <1>6
  <2>3. QED
    BY <2>1, <2>2 DEF Recorded
<1>8. InOrder'
  <2>1. \A i, j \in QueuedScores' : i < j => queue'[i].record.seq < queue'[j].record.seq
    <3>1. SUFFICES ASSUME NEW i \in QueuedScores', NEW j \in QueuedScores', i < j
                   PROVE  queue'[i].record.seq < queue'[j].record.seq
      OBVIOUS
    <3>2. i + 1 \in QueuedScores /\ j + 1 \in QueuedScores /\ i + 1 < j + 1
      BY <1>6, <3>1
    <3>3. QED
      BY <1>6, <3>2 DEF PInv, InOrder
  <2>2. \A i \in DOMAIN scores', j \in QueuedScores' : scores'[i].seq < queue'[j].record.seq
    <3>1. SUFFICES ASSUME NEW i \in DOMAIN scores', NEW j \in QueuedScores'
                   PROVE  scores'[i].seq < queue'[j].record.seq
      OBVIOUS
    <3>2. j + 1 \in QueuedScores /\ 1 < j + 1 /\ queue'[j] = queue[j + 1]
      BY <1>6, <3>1
    <3>3. QED
      BY <1>3, <1>4, <3>1, <3>2 DEF PInv, InOrder
  <2>3. \A i, j \in DOMAIN scores' : i < j => scores'[i].seq < scores'[j].seq
    <3>1. SUFFICES ASSUME NEW i \in DOMAIN scores', NEW j \in DOMAIN scores', i < j
                   PROVE  scores'[i].seq < scores'[j].seq
      OBVIOUS
    <3>2. i \in DOMAIN scores
      BY <1>4, <3>1
    <3>3. QED
      BY <1>3, <1>4, <3>1, <3>2 DEF PInv, InOrder
  <2>4. /\ \A i \in DOMAIN scores' : scores'[i].seq <= machine.seq
        /\ \A j \in QueuedScores' : queue'[j].record.seq <= machine.seq
    BY <1>1, <1>3, <1>4, <1>6 DEF PInv, InOrder
  <2>5. QED
    BY <1>1, <2>1, <2>2, <2>3, <2>4 DEF InOrder
<1>9. Chained'
  BY <1>1, <1>7 DEF PInv, Chained, Declared
<1>10. TasksEnd'
  BY <1>1 DEF TasksEnd
<1>11. Derived'
  <2>1. EventsOf(scores) \subseteq EventsOf(scores')
    BY <1>4 DEF EventsOf, Range
  <2>2. ExpectedCalls(scores) \subseteq ExpectedCalls(scores')
    BY <2>1 DEF ExpectedCalls
  <2>3. QED
    BY <1>1, <2>2 DEF PInv, Derived
<1>12. OneVerdict'
  BY <1>1 DEF PInv, OneVerdict
<1>13. QED
  BY <1>5, <1>8, <1>9, <1>10, <1>11, <1>12 DEF PInv

LEMMA AppendCallPInv ==
  ASSUME PInv, AppendCall
  PROVE  PInv'
<1>1. /\ work = "calls" /\ MissingCalls # {} /\ calls' = calls \cup {NextCall}
      /\ UNCHANGED <<scores, oddsTs, settled, process, crashes, failures>>
  BY DEF AppendCall
<1>2. UNCHANGED <<up, stopping, machine, queue, work>>
  BY <1>1 DEF process
<1>3. NextCall \in ExpectedCalls(scores)
  BY <1>1, NextCallIsMissing DEF PInv, Shapes, MissingCalls
<1>4. Shapes' /\ InOrder' /\ OneVerdict'
  BY <1>1, <1>2 DEF PInv, Shapes, InOrder, OneVerdict, QueuedScores
<1>5. Recorded' = Recorded
  BY <1>1, <1>2 DEF Recorded, QueuedScores
<1>6. Chained'
  BY <1>1, <1>2, <1>5 DEF PInv, Chained, Declared
<1>7. TasksEnd'
  BY <1>1, <1>2 DEF TasksEnd
<1>8. Derived'
  BY <1>1, <1>3 DEF PInv, Derived
<1>9. QED
  BY <1>4, <1>6, <1>7, <1>8 DEF PInv

LEMMA DueIsUnsettled ==
  ASSUME DueSettlements # {}
  PROVE  /\ NextSettlement \in DueSettlements
         /\ NextSettlement.call \in calls
         /\ \A s \in settled : s.call # NextSettlement.call
<1>1. NextSettlement \in DueSettlements
  BY DEF NextSettlement
<1>2. QED
  BY <1>1 DEF DueSettlements, Decisions, Decided, Unsettled

LEMMA AppendSettlementPInv ==
  ASSUME PInv, AppendSettlement
  PROVE  PInv'
<1>1. /\ work # "idle" /\ CallsAreIn /\ DueSettlements # {}
      /\ settled' = settled \cup {NextSettlement} /\ work' = "settle"
      /\ UNCHANGED <<scores, oddsTs, calls, up, stopping, machine, queue, crashes, failures>>
  BY DEF AppendSettlement
<1>2. NextSettlement.call \in calls /\ \A s \in settled : s.call # NextSettlement.call
  BY <1>1, DueIsUnsettled
<1>3. Shapes' /\ InOrder'
  BY <1>1 DEF PInv, Shapes, InOrder, QueuedScores
<1>4. OneVerdict'
  BY <1>1, <1>2 DEF PInv, OneVerdict
<1>5. Recorded' = Recorded
  BY <1>1 DEF Recorded, QueuedScores
<1>6. Chained'
  BY <1>1, <1>5 DEF PInv, Chained, Declared
<1>7. TasksEnd'
  <2>1. MissingCalls' = MissingCalls
    BY <1>1 DEF MissingCalls
  <2>2. failures = 0 => MissingCalls = {}
    BY <1>1 DEF PInv, Shapes, TasksEnd, CallsAreIn
  <2>3. QED
    BY <1>1, <2>1, <2>2 DEF TasksEnd
<1>8. Derived'
  BY <1>1, <1>2 DEF PInv, Derived
<1>9. QED
  BY <1>3, <1>4, <1>6, <1>7, <1>8 DEF PInv

\* What the constructor makes of the latest score.
LEMMA CheckpointShape ==
  ASSUME PInv
  PROVE  /\ Checkpoint \in Machines /\ (Checkpoint.seq # 0 => Checkpoint.ts # 0)
         /\ \A i \in DOMAIN scores : scores[i].seq <= Checkpoint.seq
         /\ IF scores = <<>> THEN Checkpoint.seq = 0
            ELSE \E r \in Range(scores) : r.seq = Checkpoint.seq /\ r.ts = Checkpoint.ts
<1>1. scores \in Seq(ScoreRecords)
  BY DEF PInv, Shapes
<1>2. CASE scores = <<>>
  BY <1>2, InitialShape DEF Checkpoint
<1>3. CASE scores # <<>>
  <2> DEFINE n == Len(scores)
             r == scores[n]
  <2>1. n \in DOMAIN scores /\ r \in ScoreRecords /\ \A i \in DOMAIN scores : i \in Nat /\ (i = n \/ i < n)
    BY <1>1, <1>3
  <2>2. Last(scores) = r
    BY DEF Last
  <2> HIDE DEF n
  <2>3. Checkpoint = [seq |-> r.seq, ts |-> r.ts, code |-> r.code, status |-> r.status, gaps |-> r.gaps]
    BY <1>3, <2>2 DEF Checkpoint
  <2>4. \A i \in DOMAIN scores : scores[i].seq <= r.seq
    <3>1. SUFFICES ASSUME NEW i \in DOMAIN scores PROVE scores[i].seq <= r.seq
      OBVIOUS
    <3>2. scores[i] \in ScoreRecords /\ scores[i].seq \in Nat /\ r.seq \in Nat
      BY <1>1, <2>1 DEF ScoreRecords, RecordShapes
    <3>3. i < n => scores[i].seq < r.seq
      BY <2>1 DEF PInv, InOrder
    <3>4. QED
      BY <2>1, <3>2, <3>3
  <2>5. r \in Range(scores)
    BY <2>1 DEF Range
  <2>6. r.seq \in 0 .. MaxSeq /\ r.ts \in 0 .. MaxTs /\ r.ts # 0 /\ r.code \in Codes
        /\ r.status \in Statuses /\ r.gaps \in Gaps
    BY <2>1, BoundAssumption DEF ScoreRecords, RecordShapes
  <2> HIDE DEF r
  <2>7. Checkpoint \in Machines /\ Checkpoint.ts # 0
    BY <2>3, <2>6 DEF Machines
  <2>8. QED
    BY <1>3, <2>3, <2>4, <2>5, <2>7
<1>4. QED
  BY <1>2, <1>3

\* A publisher without publications to come.
LEMMA NoneQueued ==
  ASSUME queue = <<>>
  PROVE  QueuedScores = {} /\ Recorded = Range(scores)
BY DEF QueuedScores, Recorded

LEMMA EndTaskPInv ==
  ASSUME PInv, EndTask
  PROVE  PInv'
<1>1. /\ work # "idle" /\ CallsAreIn /\ DueSettlements = {}
      /\ work' = "idle" /\ up' = "open" /\ machine' = (IF up = "opening" THEN Checkpoint ELSE machine)
      /\ UNCHANGED <<feed, stopping, queue, crashes, failures>>
  BY DEF EndTask
<1>2. UNCHANGED <<scores, oddsTs, calls, settled>>
  BY <1>1 DEF feed
<1>3. machine' \in Machines /\ (machine'.seq # 0 => machine'.ts # 0)
  BY <1>1, CheckpointShape DEF PInv, Shapes
<1>4. Shapes'
  BY <1>1, <1>2, <1>3 DEF PInv, Shapes
<1>5. Recorded' = Recorded /\ QueuedScores' = QueuedScores
  BY <1>1, <1>2, FeedFrame
<1>6. Derived' /\ OneVerdict'
  BY <1>1, FeedFrame DEF PInv
<1>7. TasksEnd'
  <2>1. MissingCalls' = MissingCalls /\ DueSettlements' = DueSettlements
    BY <1>1, FeedFrame
  <2>2. failures = 0 => MissingCalls = {}
    BY <1>1 DEF PInv, Shapes, TasksEnd, CallsAreIn
  <2>3. QED
    BY <1>1, <2>1, <2>2 DEF TasksEnd
<1>8. CASE up = "opening"
  <2>1. queue = <<>> /\ machine' = Checkpoint
    BY <1>1, <1>8 DEF PInv, InOrder
  <2>2. QueuedScores = {} /\ Recorded = Range(scores)
    BY <2>1, NoneQueued
  <2>3. InOrder'
    BY <1>1, <1>2, <1>5, <2>1, <2>2, CheckpointShape DEF PInv, InOrder
  <2>4. Chained'
    <3>1. scores # <<>> => Range(scores) # {}
      BY CheckpointShape
    <3>2. scores = <<>> => Range(scores) = {}
      BY DEF Range
    <3>3. IF Recorded = {} THEN machine'.seq = 0
          ELSE \E r \in Recorded : r.seq = machine'.seq /\ r.ts = machine'.ts
      BY <2>1, <2>2, <3>1, <3>2, CheckpointShape
    <3>4. QED
      BY <1>1, <1>5, <3>3 DEF PInv, Chained, Declared
  <2>5. QED
    BY <1>4, <1>6, <1>7, <2>3, <2>4 DEF PInv
<1>9. CASE up # "opening"
  <2>1. up = "open" \/ up = "down"
    BY <1>9 DEF PInv, Shapes
  <2>2. machine' = machine
    BY <1>1, <1>9
  <2>3. up = "open"
    BY <1>1, <2>1 DEF PInv, InOrder
  <2>4. InOrder' /\ Chained'
    BY <1>1, <1>2, <1>5, <2>2, <2>3 DEF PInv, InOrder, Chained, Declared
  <2>5. QED
    BY <1>4, <1>6, <1>7, <2>4 DEF PInv
<1>10. QED
  BY <1>8, <1>9

-----------------------------------------------------------------------------
(* Failures and restarts. *)

\* A publisher that goes down keeps what it had published.
LEMMA DownPInv ==
  ASSUME PInv, Down, UNCHANGED feed,
         crashes' \in 0 .. MaxCrashes, failures' \in 0 .. MaxFailures, failures' = 0 => failures = 0
  PROVE  PInv'
<1>1. up' = "down" /\ stopping' = FALSE /\ machine' = InitialMachine /\ queue' = <<>> /\ work' = "idle"
  BY DEF Down
<1>2. UNCHANGED <<scores, oddsTs, calls, settled>>
  BY DEF feed
<1>3. Shapes'
  <2>1. queue' \in Seq(ScoreEntries \cup OddsEntries) /\ Len(queue') <= MaxQueue
    BY <1>1, BoundAssumption
  <2>2. machine' \in Machines /\ machine'.seq = 0
    BY <1>1, InitialShape
  <2>3. scores' \in Seq(ScoreRecords) /\ oddsTs' \in 0 .. MaxTs
    BY <1>2 DEF PInv, Shapes
  <2>4. QED
    BY <1>1, <2>1, <2>2, <2>3 DEF Shapes
<1>4. QueuedScores' = {} /\ Recorded' = Range(scores)
  BY <1>1, <1>2 DEF QueuedScores, Recorded
<1>5. InOrder'
  BY <1>1, <1>2, <1>4 DEF PInv, InOrder
<1>6. Derived' /\ OneVerdict'
  BY FeedFrame DEF PInv
<1>7. TasksEnd'
  BY <1>1 DEF TasksEnd
<1>8. Chained'
  <2>1. SUFFICES ASSUME failures' = 0, NEW a \in Range(scores), NEW b \in Range(scores), a.seq < b.seq,
                        \A c \in Range(scores) : c.seq <= a.seq \/ b.seq <= c.seq
                 PROVE  Declared(a, b)
    BY <1>1, <1>4 DEF Chained, Declared
  <2>2. \A j \in QueuedScores : b.seq <= queue[j].record.seq
    BY <2>1, RecordNumbers DEF PInv, InOrder, Range, ScoreRecords, RecordShapes
  <2>3. \A c \in Recorded : c.seq <= a.seq \/ b.seq <= c.seq
    BY <2>1, <2>2 DEF Recorded
  <2>4. a \in Recorded /\ b \in Recorded
    BY <2>1 DEF Recorded
  <2>5. QED
    BY <2>1, <2>3, <2>4 DEF PInv, Chained
<1>9. QED
  BY <1>3, <1>5, <1>6, <1>7, <1>8 DEF PInv

LEMMA CrashPInv ==
  ASSUME PInv, Crash
  PROVE  PInv'
<1>1. Down /\ crashes < MaxCrashes /\ crashes' = crashes + 1 /\ UNCHANGED feed /\ UNCHANGED failures
  BY DEF Crash
<1>2. crashes' \in 0 .. MaxCrashes /\ failures' \in 0 .. MaxFailures
  BY <1>1, BoundAssumption DEF PInv, Shapes
<1>3. QED
  BY <1>1, <1>2, DownPInv

LEMMA ClosePInv ==
  ASSUME PInv, Close
  PROVE  PInv'
<1>1. Down /\ UNCHANGED feed /\ UNCHANGED <<crashes, failures>>
  BY DEF Close
<1>2. crashes' \in 0 .. MaxCrashes /\ failures' \in 0 .. MaxFailures
  BY <1>1 DEF PInv, Shapes
<1>3. QED
  BY <1>1, <1>2, DownPInv

LEMMA OpenPInv ==
  ASSUME PInv, Open
  PROVE  PInv'
<1>1. /\ up = "down" /\ up' = "opening" /\ work' = "calls"
      /\ UNCHANGED <<feed, stopping, machine, queue, crashes, failures>>
  BY DEF Open, FirstRepair
<1>2. UNCHANGED <<scores, oddsTs, calls, settled>>
  BY <1>1 DEF feed
<1>3. Recorded' = Recorded /\ QueuedScores' = QueuedScores
  BY <1>1, <1>2, FeedFrame
<1>4. Shapes' /\ InOrder' /\ TasksEnd'
  BY <1>1, <1>2, <1>3 DEF PInv, Shapes, InOrder, TasksEnd
<1>5. Chained'
  BY <1>1, <1>2, <1>3 DEF PInv, Chained, Declared
<1>6. QED
  BY <1>1, <1>4, <1>5, FeedFrame DEF PInv

\* A failed append drops a publication or the rest of a task: order and shape
\* stay, and from here on a break may go undeclared.
LEMMA AppendFailsPInv ==
  ASSUME PInv, AppendFails
  PROVE  PInv'
<1>1. failures < MaxFailures /\ failures' = failures + 1 /\ UNCHANGED feed /\ UNCHANGED crashes
  BY DEF AppendFails
<1>2. failures' \in 0 .. MaxFailures /\ failures' # 0 /\ crashes' \in 0 .. MaxCrashes
  BY <1>1, BoundAssumption DEF PInv, Shapes
<1>3. UNCHANGED <<scores, oddsTs, calls, settled>>
  BY <1>1 DEF feed
<1>4. Derived' /\ OneVerdict' /\ TasksEnd' /\ Chained'
  BY <1>1, <1>2, FeedFrame DEF PInv, TasksEnd, Chained
<1>5. CASE /\ up = "open" /\ work = "idle" /\ queue # <<>>
           /\ queue' = Tail(queue) /\ stopping' = TRUE
           /\ UNCHANGED <<up, machine, work>>
  <2>1. /\ queue' \in Seq(ScoreEntries \cup OddsEntries) /\ Len(queue') <= MaxQueue
        /\ \A i \in DOMAIN queue' : i \in Nat /\ i + 1 \in DOMAIN queue /\ queue'[i] = queue[i + 1]
    BY <1>5, Dequeued
  <2>2. Shapes'
    BY <1>2, <1>3, <1>5, <2>1 DEF PInv, Shapes
  <2>3. \A i \in QueuedScores' : i \in Nat /\ i + 1 \in QueuedScores /\ queue'[i] = queue[i + 1]
    BY <2>1 DEF QueuedScores
  <2>4. \A i, j \in QueuedScores' : i < j => queue'[i].record.seq < queue'[j].record.seq
    <3>1. SUFFICES ASSUME NEW i \in QueuedScores', NEW j \in QueuedScores', i < j
                   PROVE  queue'[i].record.seq < queue'[j].record.seq
      OBVIOUS
    <3>2. i + 1 \in QueuedScores /\ j + 1 \in QueuedScores /\ i + 1 < j + 1
      BY <2>3, <3>1
    <3>3. QED
      BY <2>3, <3>2 DEF PInv, InOrder
  <2>5. InOrder'
    BY <1>3, <1>5, <2>3, <2>4 DEF PInv, InOrder
  <2>6. QED
    BY <1>4, <2>2, <2>5 DEF PInv
<1>6. CASE /\ up = "open" /\ work # "idle"
           /\ work' = "idle" /\ stopping' = TRUE
           /\ UNCHANGED <<up, machine, queue>>
  <2>1. Shapes'
    BY <1>2, <1>3, <1>6 DEF PInv, Shapes
  <2>2. InOrder'
    BY <1>3, <1>6 DEF PInv, InOrder, QueuedScores
  <2>3. QED
    BY <1>4, <2>1, <2>2 DEF PInv
<1>7. CASE up = "opening" /\ Down
  BY <1>1, <1>2, <1>7, DownPInv
<1>8. QED
  BY <1>5, <1>6, <1>7 DEF AppendFails

LEMMA NextPInv == PInv /\ [Next]_vars => PInv'
<1> SUFFICES ASSUME PInv, [Next]_vars PROVE PInv'
  OBVIOUS
<1>1. CASE \E seq \in 1 .. MaxSeq, ts \in 1 .. MaxTs, code \in Codes :
             \E goals \in {{}} \cup {{[seq |-> seq, kind |-> "goal", ts |-> ts, side |-> s]} : s \in Sides} :
               IngestScore(seq, ts, code, goals)
  <2>1. PICK seq \in 1 .. MaxSeq, ts \in 1 .. MaxTs, code \in Codes :
               \E goals \in {{}} \cup {{[seq |-> seq, kind |-> "goal", ts |-> ts, side |-> s]} : s \in Sides} :
                 IngestScore(seq, ts, code, goals)
    BY <1>1
  <2>2. PICK goals \in {{}} \cup {{[seq |-> seq, kind |-> "goal", ts |-> ts, side |-> s]} : s \in Sides} :
               IngestScore(seq, ts, code, goals)
    BY <2>1
  <2>3. goals \in SUBSET Events /\ \A e \in goals : e.seq = seq /\ e.ts = ts
    BY <2>2 DEF Events, EventKinds
  <2>4. QED
    BY <2>2, <2>3, IngestScorePInv
<1>2. CASE \E ts \in OddsTimes : IngestOdds(ts)
  BY <1>2, IngestOddsPInv
<1>3. CASE AppendFact
  BY <1>3, AppendOddsPInv, AppendScorePInv
<1>4. CASE AppendCall
  BY <1>4, AppendCallPInv
<1>5. CASE AppendSettlement
  BY <1>5, AppendSettlementPInv
<1>6. CASE EndTask
  BY <1>6, EndTaskPInv
<1>7. CASE Crash
  BY <1>7, CrashPInv
<1>8. CASE AppendFails
  BY <1>8, AppendFailsPInv
<1>9. CASE Close
  BY <1>9, ClosePInv
<1>10. CASE Open
  BY <1>10, OpenPInv
<1>11. CASE UNCHANGED vars
  <2>1. UNCHANGED <<scores, oddsTs, calls, settled, up, stopping, machine, queue, work, crashes, failures>>
    BY <1>11 DEF vars, feed, process
  <2>2. UNCHANGED feed
    BY <2>1 DEF feed
  <2>3. Recorded' = Recorded /\ QueuedScores' = QueuedScores
    BY <2>1, FeedFrame
  <2>4. Shapes' /\ InOrder'
    BY <2>1, <2>3 DEF PInv, Shapes, InOrder
  <2>5. Chained' /\ TasksEnd'
    BY <2>1, <2>2, <2>3, FeedFrame DEF PInv, Chained, Declared, TasksEnd
  <2>6. QED
    BY <2>2, <2>4, <2>5, FeedFrame DEF PInv
<1>12. QED
  BY <1>1, <1>2, <1>3, <1>4, <1>5, <1>6, <1>7, <1>8, <1>9, <1>10, <1>11 DEF Next, Ingest, Publish

\* Whatever crashes, fails and restarts: records have their shape, numbers
\* grow, calls and settlements follow from the facts before them.
THEOREM PublisherIsSound == Spec => []PInv
<1>1. Init => PInv
  BY InitPInv
<1>2. PInv /\ [Next]_vars => PInv'
  BY NextPInv
<1>3. QED
  BY <1>1, <1>2, PTL DEF Spec

\* A call has one verdict for good (settlement-rules.ts decides, the publisher
\* never asks about a settled call again).
THEOREM VerdictsAreFinal == Spec => []OneVerdict
<1>1. PInv => OneVerdict
  BY DEF PInv
<1>2. QED
  BY <1>1, PublisherIsSound, PTL

\* The shapes of TypeOK.
THEOREM PublisherTypes == Spec => []TypeOK
<1>1. PInv => TypeOK
  <2>1. SUFFICES ASSUME PInv PROVE TypeOK
    OBVIOUS
  <2>2. \A i \in DOMAIN scores : RecordOK(scores[i])
    BY <2>1, RecordNumbers DEF RecordOK, ScoreRecords, RecordShapes
  <2>3. QED
    BY <2>1, <2>2 DEF PInv, Shapes, Derived, TypeOK, Machines
<1>2. QED
  BY <1>1, PublisherIsSound, PTL

\* While no append has failed, every break between two published scores is
\* declared by the second, across crashes and repairs (ingest.ts:28).
THEOREM HolesDeclared == Spec => [](failures = 0 => HolesAreDeclared)
<1>1. PInv => (failures = 0 => HolesAreDeclared)
  <2>1. SUFFICES ASSUME PInv, failures = 0, NEW i \in 2 .. Len(scores), scores[i].seq # scores[i - 1].seq + 1
                 PROVE  <<scores[i - 1].ts, scores[i].ts>> \in scores[i].gaps
    BY DEF HolesAreDeclared
  <2>2. scores \in Seq(ScoreRecords)
    BY <2>1 DEF PInv, Shapes
  <2>3. i \in DOMAIN scores /\ i - 1 \in DOMAIN scores /\ i - 1 < i
    BY <2>1, <2>2
  <2> DEFINE a == scores[i - 1]
             b == scores[i]
  <2>4. a \in Recorded /\ b \in Recorded /\ a.seq < b.seq
    BY <2>1, <2>3 DEF Recorded, Range, PInv, InOrder
  <2>5. ASSUME NEW c \in Recorded PROVE c.seq <= a.seq \/ b.seq <= c.seq
    <3>1. CASE c \in Range(scores)
      <4>1. PICK j \in DOMAIN scores : c = scores[j]
        BY <3>1 DEF Range
      <4>2. j \in Nat /\ i \in Nat /\ i - 1 \in Nat
        BY <2>2, <2>3, <4>1
      <4>3. j < i - 1 \/ j = i - 1 \/ j = i \/ i < j
        BY <4>2
      <4>4. a.seq \in Nat /\ b.seq \in Nat /\ c.seq \in Nat
        BY <2>1, <2>4, <2>5, RecordNumbers
      <4>5. (j < i - 1 => c.seq < a.seq) /\ (i < j => b.seq < c.seq)
        BY <2>1, <2>3, <4>1 DEF PInv, InOrder
      <4>6. QED
        BY <4>1, <4>3, <4>4, <4>5
    <3>2. CASE c \in {queue[j].record : j \in QueuedScores}
      <4>1. b.seq < c.seq
        BY <2>1, <2>3, <3>2 DEF PInv, InOrder
      <4>2. b.seq \in Nat /\ c.seq \in Nat
        BY <2>1, <2>4, <2>5, RecordNumbers
      <4>3. QED
        BY <4>1, <4>2
    <3>3. QED
      BY <2>5, <3>1, <3>2 DEF Recorded
  <2>6. Declared(a, b)
    BY <2>1, <2>4, <2>5 DEF PInv, Chained
  <2>7. QED
    BY <2>1, <2>6 DEF Declared
<1>2. QED
  BY <1>1, PublisherIsSound, PTL

-----------------------------------------------------------------------------
(* The publisher implements FixtureFeed. *)

\* The settlements a reader of the complete log computes.
CompleteSettled == settled \cup Decisions(scores, oddsTs, Complete, settled)

\* The two modules compute the same calls and decisions.
LEMMA SameEvents ==
  \A log : /\ Atomic!EventsOf(log) = EventsOf(log) /\ Atomic!LastTs(log) = LastTs(log)
           /\ Atomic!Last(log) = Last(log) /\ Atomic!Range(log) = Range(log)
BY DEF Atomic!EventsOf, EventsOf, Atomic!LastTs, LastTs, Atomic!Range, Range, Atomic!Last, Last

LEMMA SameExpected == \A log : Atomic!ExpectedCalls(log) = ExpectedCalls(log)
<1>1. \A e : Atomic!CallsForEvent(e) = CallsForEvent(e)
  BY DEF Atomic!CallsForEvent, CallsForEvent, Atomic!CallOf, CallOf
<1>2. QED
  BY <1>1, SameEvents DEF Atomic!ExpectedCalls, ExpectedCalls

LEMMA SameContext == \A log, odds : Atomic!Context(log, odds) = Context(log, odds)
BY SameEvents DEF Atomic!Context, Context

LEMMA SameVerdict == \A c, x : Atomic!EvaluateCall(c, x) = EvaluateCall(c, x)
BY DEF Atomic!EvaluateCall, EvaluateCall, Atomic!GoalsIn, GoalsIn, Atomic!Crosses, Crosses,
       Atomic!Void, Void, Atomic!Settled, Settled, Atomic!Pending, Pending, Atomic!Abandoned, Abandoned,
       Atomic!WinningOption, WinningOption, Atomic!Fallback, Fallback, Atomic!FirstOf, FirstOf,
       Atomic!WindowComplete, WindowComplete, Atomic!Terminal, Terminal

LEMMA SameDecisions ==
  \A log, odds, cs, done : Atomic!Decisions(log, odds, cs, done) = Decisions(log, odds, cs, done)
BY SameContext, SameVerdict
   DEF Atomic!Decisions, Decisions, Atomic!Decided, Decided, Atomic!Unsettled, Unsettled,
       Atomic!Pending, Pending

\* A complete log has the calls its facts open.
LEMMA CompleteIsExpected ==
  ASSUME Derived
  PROVE  Complete = ExpectedCalls(scores)
BY DEF Derived, Complete, MissingCalls

\* A settlement appended is one the reader had computed.
LEMMA AppendedWasDue ==
  ASSUME NEW log, NEW odds, NEW cs, NEW done, NEW s \in Decisions(log, odds, cs, done)
  PROVE  (done \cup {s}) \cup Decisions(log, odds, cs, done \cup {s})
           = done \cup Decisions(log, odds, cs, done)
<1> DEFINE E(c) == EvaluateCall(c, Context(log, odds))
           U == Unsettled(cs, done)
           V == Unsettled(cs, done \cup {s})
<1>1. log # <<>>
  BY DEF Decisions, Decided
<1>2. s.call \in U /\ s = [call |-> s.call, decision |-> E(s.call)]
  BY DEF Decisions, Decided
<1>3. /\ Decisions(log, odds, cs, done) = {z \in {[call |-> c, decision |-> E(c)] : c \in U} : z.decision # Pending}
      /\ Decisions(log, odds, cs, done \cup {s})
           = {z \in {[call |-> c, decision |-> E(c)] : c \in V} : z.decision # Pending}
  BY <1>1 DEF Decisions, Decided
<1>4. V = U \ {s.call}
  BY DEF Unsettled
<1> HIDE DEF E, U, V
<1>5. \A z \in Decisions(log, odds, cs, done) : z = s \/ z \in Decisions(log, odds, cs, done \cup {s})
  <2>1. SUFFICES ASSUME NEW z \in Decisions(log, odds, cs, done), z # s
                 PROVE  z \in Decisions(log, odds, cs, done \cup {s})
    OBVIOUS
  <2>2. PICK c \in U : z = [call |-> c, decision |-> E(c)] /\ z.decision # Pending
    BY <1>3, <2>1
  <2>3. c # s.call
    BY <1>2, <2>1, <2>2
  <2>4. QED
    BY <1>3, <1>4, <2>2, <2>3
<1>6. Decisions(log, odds, cs, done \cup {s}) \subseteq Decisions(log, odds, cs, done)
  BY <1>3, <1>4
<1>7. QED
  BY <1>5, <1>6

LEMMA QuietStep ==
  ASSUME UNCHANGED feed
  PROVE  UNCHANGED <<scores, oddsTs, Complete, CompleteSettled>>
<1>1. UNCHANGED <<scores, oddsTs, calls, settled>>
  BY DEF feed
<1>2. Complete' = Complete
  BY <1>1 DEF Complete, MissingCalls
<1>3. QED
  BY <1>1, <1>2 DEF CompleteSettled

LEMMA CallIsQuiet ==
  ASSUME PInv, AppendCall
  PROVE  UNCHANGED <<scores, oddsTs, Complete, CompleteSettled>>
<1>1. UNCHANGED <<scores, oddsTs, settled>>
  BY DEF AppendCall
<1>2. Derived /\ Derived'
  BY AppendCallPInv DEF PInv
<1>3. Complete = ExpectedCalls(scores) /\ Complete' = ExpectedCalls(scores')
  BY <1>2 DEF Derived, Complete, MissingCalls
<1>4. QED
  BY <1>1, <1>3 DEF CompleteSettled

LEMMA SettlementIsQuiet ==
  ASSUME PInv, failures = 0, AppendSettlement
  PROVE  UNCHANGED <<scores, oddsTs, Complete, CompleteSettled>>
<1>1. /\ work # "idle" /\ CallsAreIn /\ DueSettlements # {}
      /\ settled' = settled \cup {NextSettlement}
      /\ UNCHANGED <<scores, oddsTs, calls>>
  BY DEF AppendSettlement
<1>2. MissingCalls = {}
  BY <1>1 DEF PInv, Shapes, TasksEnd, CallsAreIn
<1>3. Complete = calls /\ Complete' = calls
  BY <1>1, <1>2 DEF Complete, MissingCalls
<1>4. NextSettlement \in Decisions(scores, oddsTs, calls, settled)
  BY <1>1, DueIsUnsettled DEF DueSettlements
<1>5. (settled \cup {NextSettlement}) \cup Decisions(scores, oddsTs, calls, settled \cup {NextSettlement})
        = settled \cup Decisions(scores, oddsTs, calls, settled)
  BY <1>4, AppendedWasDue
<1>6. CompleteSettled = settled \cup Decisions(scores, oddsTs, calls, settled)
  BY <1>3 DEF CompleteSettled
<1>7. CompleteSettled' = (settled \cup {NextSettlement})
                           \cup Decisions(scores, oddsTs, calls, settled \cup {NextSettlement})
  BY <1>1, <1>3 DEF CompleteSettled
<1>8. QED
  BY <1>1, <1>3, <1>5, <1>6, <1>7

\* A fact is appended to a complete log.
LEMMA FactIsPublished ==
  ASSUME PInv, failures = 0, AppendFact
  PROVE  Atomic!FeedNext
<1>1. /\ up = "open" /\ work = "idle" /\ queue # <<>> /\ UNCHANGED <<calls, settled>>
  BY DEF AppendFact
<1>2. MissingCalls = {} /\ DueSettlements = {}
  BY <1>1 DEF PInv, TasksEnd
<1>3. Complete = calls /\ CompleteSettled = settled
  BY <1>2 DEF Complete, CompleteSettled, DueSettlements
<1>4. PInv'
  BY AppendScorePInv, AppendOddsPInv
<1>5. Complete' = Complete \cup ExpectedCalls(scores')
  BY <1>1, <1>3 DEF Complete, MissingCalls
<1>6. CompleteSettled' = CompleteSettled \cup Decisions(scores', oddsTs', Complete', CompleteSettled)
  BY <1>1, <1>3 DEF CompleteSettled
<1>7. Atomic!Consequences
  BY <1>5, <1>6, SameExpected, SameDecisions DEF Atomic!Consequences, CompleteSettled
<1>8. CASE Head(queue).kind = "score"
  <2> DEFINE r == Head(queue).record
  <2>1. scores' = Append(scores, r) /\ UNCHANGED oddsTs
    BY <1>8 DEF AppendFact
  <2>2. 1 \in DOMAIN queue /\ Head(queue) = queue[1]
    BY <1>1, Dequeued DEF AppendFact
  <2>3. 1 \in QueuedScores /\ r \in ScoreRecords
    BY <1>8, <2>2, RecordNumbers DEF QueuedScores
  <2>4. r.seq \in 1 .. MaxSeq /\ r.ts \in 1 .. MaxTs /\ \A e \in r.events : e.seq = r.seq /\ e.ts = r.ts
    BY <2>3 DEF ScoreRecords, RecordShapes
  <2>5. scores # <<>> => r.seq > Last(scores).seq
    <3>1. SUFFICES ASSUME scores # <<>> PROVE r.seq > Last(scores).seq
      OBVIOUS
    <3>2. Len(scores) \in DOMAIN scores /\ Last(scores) = scores[Len(scores)]
      BY <3>1 DEF PInv, Shapes, Last
    <3>3. Last(scores).seq \in Nat
      BY <3>2, RecordNumbers DEF ScoreRecords, RecordShapes
    <3>4. QED
      BY <1>8, <2>2, <2>3, <2>4, <3>2, <3>3 DEF PInv, InOrder
  <2>6. r \in Range(scores')
    <3>1. scores \in Seq(ScoreRecords)
      BY DEF PInv, Shapes
    <3>2. Len(scores) + 1 \in DOMAIN scores' /\ scores'[Len(scores) + 1] = r
      BY <2>1, <2>3, <3>1, AppendProperties
    <3>3. QED
      BY <3>2 DEF Range
  <2> HIDE DEF r
  <2>7. Atomic!PublishScore(r.seq, r.ts)
    BY <1>7, <2>1, <2>4, <2>5, <2>6, SameEvents DEF Atomic!PublishScore
  <2>8. QED
    BY <2>4, <2>7 DEF Atomic!FeedNext
<1>9. CASE Head(queue).kind # "score"
  <2> DEFINE ts == Head(queue).ts
  <2>1. oddsTs' = (IF ts > oddsTs THEN ts ELSE oddsTs) /\ UNCHANGED scores
    BY <1>9 DEF AppendFact
  <2>2. Head(queue) \in ScoreEntries \cup OddsEntries
    BY <1>1, Dequeued DEF AppendFact
  <2>3. ts \in 1 .. MaxTs
    BY <1>9, <2>2, BoundAssumption DEF ScoreEntries, OddsEntries
  <2> HIDE DEF ts
  <2>4. Atomic!PublishOdds(ts)
    BY <1>7, <2>1 DEF Atomic!PublishOdds
  <2>5. QED
    BY <2>3, <2>4 DEF Atomic!FeedNext
<1>10. QED
  BY <1>8, <1>9

\* As long as no append fails, a reader who completes the log sees it grow by
\* whole facts: crashes and repairs change nothing (PublishesAtomically).
THEOREM PublisherKeepsFeed == Spec /\ [](failures = 0) => PublishesAtomically
<1>1. Init => Atomic!FeedInit
  <2>1. SUFFICES ASSUME Init PROVE Atomic!FeedInit
    OBVIOUS
  <2>2. scores = <<>> /\ oddsTs = 0 /\ calls = {} /\ settled = {}
    BY <2>1 DEF Init, FeedInit
  <2>3. EventsOf(scores) = {}
    BY <2>2 DEF EventsOf, Range
  <2>4. Complete = {}
    BY <2>2, <2>3 DEF Complete, MissingCalls, ExpectedCalls
  <2>5. Decisions(scores, oddsTs, Complete, settled) = {}
    BY <2>2 DEF Decisions, Decided
  <2>6. QED
    BY <2>2, <2>4, <2>5 DEF Atomic!FeedInit
<1>2. PInv /\ failures = 0 /\ [Next]_vars
        => [Atomic!FeedNext]_<<scores, oddsTs, Complete, settled \cup Decisions(scores, oddsTs, Complete, settled)>>
  <2>1. SUFFICES ASSUME PInv, failures = 0, [Next]_vars
                 PROVE  Atomic!FeedNext \/ UNCHANGED <<scores, oddsTs, Complete, CompleteSettled>>
    BY DEF CompleteSettled
  <2>2. CASE Ingest
    <3>1. UNCHANGED feed
      BY <2>2 DEF Ingest, IngestScore, IngestOdds
    <3>2. QED
      BY <3>1, QuietStep
  <2>3. CASE AppendFact
    BY <2>1, <2>3, FactIsPublished
  <2>4. CASE AppendCall
    BY <2>1, <2>4, CallIsQuiet
  <2>5. CASE AppendSettlement
    BY <2>1, <2>5, SettlementIsQuiet
  <2>6. CASE EndTask \/ Crash \/ AppendFails \/ Close \/ Open
    <3>1. UNCHANGED feed
      BY <2>6 DEF EndTask, Crash, AppendFails, Close, Open
    <3>2. QED
      BY <3>1, QuietStep
  <2>7. CASE UNCHANGED vars
    <3>1. UNCHANGED feed
      BY <2>7 DEF vars
    <3>2. QED
      BY <3>1, QuietStep
  <2>8. QED
    BY <2>1, <2>2, <2>3, <2>4, <2>5, <2>6, <2>7 DEF Next, Publish
<1>3. QED
  BY <1>1, <1>2, PublisherIsSound, PTL DEF Spec, PublishesAtomically, Atomic!FeedSpec, Atomic!feed

-----------------------------------------------------------------------------
(* Phases begin once, while nothing has crashed or failed and every message *)
(* carries a status that has a place among the phases or ends the match.    *)

StatusIsKnown == Codes \subseteq DOMAIN Phase \cup {"AB"}
BeginCodes == {"H1", "HT", "H2"}
BeginsWith(e, c) == e.kind = PhaseEvent[c]

\* What has begun is over or is not behind the machine's phase.
Behind(e, m) ==
  \A c \in BeginCodes :
    BeginsWith(e, c) => m.status \in Final \/ (m.code \in DOMAIN Phase /\ Phase[c] <= Phase[m.code])

Begun == UNION {r.events : r \in Recorded}
OneBeginning == \A e, f \in Begun : \A c \in BeginCodes : BeginsWith(e, c) /\ BeginsWith(f, c) => e = f
PhasesKept ==
  crashes = 0 /\ failures = 0 =>
    /\ up = "open" /\ ~stopping
    /\ OneBeginning /\ \A e \in Begun : Behind(e, machine)

LEMMA PhaseFacts ==
  /\ DOMAIN Phase = {"H1", "HT", "H2", "FET", "PE", "FT"}
  /\ Phase["H1"] = 1 /\ Phase["HT"] = 2 /\ Phase["H2"] = 3
  /\ Phase["FET"] = 9 /\ Phase["PE"] = 11 /\ Phase["FT"] = 13
  /\ DOMAIN PhaseEvent = {"H1", "HT", "H2", "PE", "FT", "AB"}
  /\ PhaseEvent["H1"] = "kickoff" /\ PhaseEvent["HT"] = "half-time"
  /\ PhaseEvent["H2"] = "second-half-start" /\ PhaseEvent["PE"] = "penalty-shootout-start"
  /\ PhaseEvent["FT"] = "full-time" /\ PhaseEvent["AB"] = "abandoned"
BY DEF Phase, PhaseEvent

\* A message begins a phase the machine is not past, and leaves the machine in
\* it.
LEMMA StepBegins ==
  ASSUME StatusIsKnown, NEW m, NEW seq, NEW ts, NEW code \in Codes,
         NEW goals, \A e \in goals : e.kind = "goal"
  PROVE  /\ \A e : Behind(e, m) => Behind(e, StepTo(m, seq, ts, code))
         /\ \A e \in EventsAt(m, seq, ts, code, goals) : Behind(e, StepTo(m, seq, ts, code))
         /\ \A e \in EventsAt(m, seq, ts, code, goals), f \in EventsAt(m, seq, ts, code, goals) :
              \A c \in BeginCodes : BeginsWith(e, c) /\ BeginsWith(f, c) => e = f
         /\ \A e \in EventsAt(m, seq, ts, code, goals) : \A f : \A c \in BeginCodes :
              Behind(f, m) => ~(BeginsWith(e, c) /\ BeginsWith(f, c))
<1> DEFINE n == StepTo(m, seq, ts, code)
           E == EventsAt(m, seq, ts, code, goals)
<1>1. code \in {"H1", "HT", "H2", "FET", "PE", "FT", "AB"}
  BY PhaseFacts DEF StatusIsKnown
<1>2. /\ n.code = (IF TerminalRegression(m, code) \/ PhaseRegression(m, code) THEN m.code ELSE code)
      /\ n.status = (IF TerminalRegression(m, code) \/ PhaseRegression(m, code) THEN m.status ELSE StatusOf(code))
  BY DEF StepTo
<1> HIDE DEF n
<1>3. ASSUME ~TerminalRegression(m, code), m.status \in Final
      PROVE  StatusOf(code) \in Final /\ code \in {"FT", "AB"}
  <2>1. StatusOf(code) \in Final
    BY <1>3 DEF TerminalRegression
  <2>2. QED
    BY <1>1, <2>1 DEF StatusOf, Final
<1>4. code = "AB" => StatusOf(code) \in Final
  BY DEF StatusOf, Final
<1>5. \A e : Behind(e, m) => Behind(e, n)
  <2>1. SUFFICES ASSUME NEW e, NEW c \in BeginCodes, Behind(e, m), BeginsWith(e, c)
                 PROVE  n.status \in Final \/ (n.code \in DOMAIN Phase /\ Phase[c] <= Phase[n.code])
    BY DEF Behind
  <2>2. m.status \in Final \/ (m.code \in DOMAIN Phase /\ Phase[c] <= Phase[m.code])
    BY <2>1 DEF Behind
  <2>3. CASE TerminalRegression(m, code) \/ PhaseRegression(m, code)
    BY <1>2, <2>2, <2>3
  <2>4. CASE ~TerminalRegression(m, code) /\ ~PhaseRegression(m, code)
    <3>1. n.code = code /\ n.status = StatusOf(code)
      BY <1>2, <2>4
    <3>2. CASE m.status \in Final
      BY <1>3, <2>4, <3>1, <3>2
    <3>3. CASE code = "AB"
      BY <1>4, <3>1, <3>3
    <3>4. CASE m.status \notin Final /\ code # "AB"
      <4>1. code \in DOMAIN Phase /\ m.code \in DOMAIN Phase /\ ~(Phase[code] < Phase[m.code])
        BY <1>1, <2>2, <2>4, <3>4, PhaseFacts DEF PhaseRegression
      <4>2. Phase[code] \in Nat /\ Phase[m.code] \in Nat /\ Phase[c] \in Nat
        BY <4>1, PhaseFacts DEF BeginCodes
      <4>3. QED
        BY <2>2, <3>1, <3>4, <4>1, <4>2
    <3>5. QED
      BY <3>2, <3>3, <3>4
  <2>5. QED
    BY <2>3, <2>4
<1>6. ASSUME NEW e \in E, NEW c \in BeginCodes, BeginsWith(e, c)
      PROVE  /\ ~TerminalRegression(m, code) /\ ~PhaseRegression(m, code) /\ code # m.code
             /\ code = c /\ e = [seq |-> seq, kind |-> PhaseEvent[code], ts |-> ts, side |-> None]
  <2>1. e \notin goals
    BY <1>6, PhaseFacts DEF BeginsWith, BeginCodes
  <2>2. /\ ~TerminalRegression(m, code) /\ ~PhaseRegression(m, code) /\ e \in PhaseEvents(m, seq, ts, code)
    BY <1>6, <2>1 DEF EventsAt
  <2>3. /\ code # m.code /\ code \in DOMAIN PhaseEvent
        /\ e = [seq |-> seq, kind |-> PhaseEvent[code], ts |-> ts, side |-> None]
    BY <2>2 DEF PhaseEvents
  <2>4. PhaseEvent[code] = PhaseEvent[c]
    BY <1>6, <2>3 DEF BeginsWith
  <2>5. code = c
    BY <1>1, <2>3, <2>4, PhaseFacts DEF BeginCodes
  <2>6. QED
    BY <2>2, <2>3, <2>5
<1>7. \A e \in E : Behind(e, n)
  <2>1. SUFFICES ASSUME NEW e \in E, NEW c \in BeginCodes, BeginsWith(e, c)
                 PROVE  n.code \in DOMAIN Phase /\ Phase[c] <= Phase[n.code]
    BY DEF Behind
  <2>2. n.code = c
    BY <1>2, <1>6, <2>1
  <2>3. QED
    BY <2>2, PhaseFacts DEF BeginCodes
<1>8. \A e \in E, f \in E : \A c \in BeginCodes : BeginsWith(e, c) /\ BeginsWith(f, c) => e = f
  BY <1>6
<1>9. ASSUME NEW e \in E, NEW f, NEW c \in BeginCodes, Behind(f, m), BeginsWith(e, c), BeginsWith(f, c)
      PROVE  FALSE
  <2>1. /\ ~TerminalRegression(m, code) /\ ~PhaseRegression(m, code) /\ code # m.code /\ code = c
    BY <1>6, <1>9
  <2>2. m.status \notin Final
    BY <1>3, <2>1 DEF BeginCodes
  <2>3. m.code \in DOMAIN Phase /\ Phase[code] <= Phase[m.code]
    BY <1>9, <2>1, <2>2 DEF Behind
  <2>4. ~(Phase[code] < Phase[m.code])
    BY <2>1, <2>3, PhaseFacts DEF PhaseRegression, BeginCodes
  <2>5. QED
    BY <2>1, <2>3, <2>4, PhaseFacts DEF BeginCodes
<1>10. QED
  <2>1. \A e \in E : \A f : \A c \in BeginCodes : Behind(f, m) => ~(BeginsWith(e, c) /\ BeginsWith(f, c))
    BY <1>9
  <2> HIDE DEF E
  <2>2. QED
    BY <1>5, <1>7, <1>8, <2>1 DEF n, E

\* The events of the records when a message is folded.
LEMMA IngestBegins ==
  ASSUME StatusIsKnown, PInv, PhasesKept, crashes = 0, failures = 0,
         NEW seq \in 1 .. MaxSeq, NEW ts \in 1 .. MaxTs, NEW code \in Codes,
         NEW goals, \A e \in goals : e.kind = "goal",
         IngestScore(seq, ts, code, goals)
  PROVE  OneBeginning' /\ \A e \in Begun' : Behind(e, machine')
<1> DEFINE r == ScoreRecord(machine, seq, ts, code, goals)
           x == [kind |-> "score", record |-> r]
           E == EventsAt(machine, seq, ts, code, goals)
           n == StepTo(machine, seq, ts, code)
<1>1. queue' = Append(queue, x) /\ machine' = n /\ UNCHANGED scores
  BY DEF IngestScore, feed
<1>2. r.events = E
  BY DEF ScoreRecord
<1>3. x.kind = "score" /\ x.record = r
  OBVIOUS
<1>4. /\ \A e : Behind(e, machine) => Behind(e, n)
      /\ \A e \in E : Behind(e, n)
      /\ \A e \in E, f \in E : \A c \in BeginCodes : BeginsWith(e, c) /\ BeginsWith(f, c) => e = f
      /\ \A e \in E : \A f : \A c \in BeginCodes : Behind(f, machine) => ~(BeginsWith(e, c) /\ BeginsWith(f, c))
  BY StepBegins
<1> HIDE DEF r, E, n, x
<1>5. queue \in Seq(ScoreEntries \cup OddsEntries)
  BY DEF PInv, Shapes
<1>6. \A i \in DOMAIN queue' : queue'[i] = x \/ (i \in DOMAIN queue /\ queue'[i] = queue[i])
  <2>1. queue \in Seq(Range(queue) \cup {x})
    BY <1>5 DEF Range
  <2>2. QED
    BY <1>1, <2>1, AppendProperties
<1>7. Recorded' \subseteq Recorded \cup {r}
  <2>1. \A i \in QueuedScores' : queue'[i].record = r \/ (i \in QueuedScores /\ queue'[i] = queue[i])
    BY <1>3, <1>6 DEF QueuedScores
  <2>2. QED
    BY <1>1, <2>1 DEF Recorded
<1>8. Begun' \subseteq Begun \cup E
  BY <1>2, <1>7 DEF Begun
<1>9. \A e \in Begun : Behind(e, machine)
  BY DEF PhasesKept
<1>10. \A e \in Begun' : Behind(e, machine')
  BY <1>1, <1>4, <1>8, <1>9
<1>11. ASSUME NEW e \in Begun', NEW f \in Begun', NEW c \in BeginCodes, BeginsWith(e, c), BeginsWith(f, c)
       PROVE  e = f
  <2>1. CASE e \in Begun /\ f \in Begun
    BY <1>11, <2>1 DEF PhasesKept, OneBeginning
  <2>2. CASE e \in E /\ f \in E
    BY <1>4, <1>11, <2>2
  <2>3. CASE e \in E /\ f \in Begun
    BY <1>4, <1>9, <1>11, <2>3
  <2>4. CASE e \in Begun /\ f \in E
    BY <1>4, <1>9, <1>11, <2>4
  <2>5. QED
    BY <1>8, <1>11, <2>1, <2>2, <2>3, <2>4
<1>12. QED
  BY <1>10, <1>11 DEF OneBeginning

LEMMA FactLeavesRecords ==
  ASSUME PInv, AppendFact
  PROVE  Recorded' \subseteq Recorded
<1>1. queue # <<>> /\ queue' = Tail(queue)
  BY DEF AppendFact
<1>2. /\ 1 \in DOMAIN queue /\ Head(queue) = queue[1]
      /\ \A i \in DOMAIN queue' : i + 1 \in DOMAIN queue /\ queue'[i] = queue[i + 1]
  BY <1>1, Dequeued
<1>3. \A i \in QueuedScores' : i + 1 \in QueuedScores /\ queue'[i] = queue[i + 1]
  BY <1>2 DEF QueuedScores
<1>4. Range(scores') \subseteq Recorded
  <2>1. CASE Head(queue).kind = "score"
    <3>1. scores' = Append(scores, Head(queue).record) /\ 1 \in QueuedScores
      BY <1>2, <2>1 DEF AppendFact, QueuedScores
    <3>2. Head(queue).record \in Recorded
      BY <1>2, <3>1 DEF Recorded
    <3>3. scores \in Seq(ScoreRecords) /\ Head(queue).record \in ScoreRecords
      BY <1>2, <3>1, RecordNumbers DEF PInv, Shapes
    <3>4. \A i \in DOMAIN scores' : scores'[i] = Head(queue).record \/ (i \in DOMAIN scores /\ scores'[i] = scores[i])
      BY <3>1, <3>3, AppendProperties
    <3>5. QED
      BY <3>2, <3>4 DEF Recorded, Range
  <2>2. CASE Head(queue).kind # "score"
    BY <2>2 DEF AppendFact, Recorded
  <2>3. QED
    BY <2>1, <2>2
<1>5. QED
  BY <1>3, <1>4 DEF Recorded

LEMMA NextPhases ==
  ASSUME StatusIsKnown, PInv, PhasesKept, [Next]_vars
  PROVE  PhasesKept'
<1>1. SUFFICES ASSUME crashes' = 0, failures' = 0
               PROVE  up' = "open" /\ ~stopping' /\ OneBeginning' /\ \A e \in Begun' : Behind(e, machine')
  BY DEF PhasesKept
<1>2. crashes \in Nat /\ failures \in Nat
  BY BoundAssumption DEF PInv, Shapes
<1>3. ASSUME crashes = 0, failures = 0, up' = "open", UNCHANGED <<stopping, machine>>, Recorded' \subseteq Recorded
      PROVE  up' = "open" /\ ~stopping' /\ OneBeginning' /\ \A e \in Begun' : Behind(e, machine')
  <2>1. Begun' \subseteq Begun
    BY <1>3 DEF Begun
  <2>2. OneBeginning' /\ ~stopping'
    BY <1>3, <2>1 DEF PhasesKept, OneBeginning
  <2>3. QED
    BY <1>3, <2>1, <2>2 DEF PhasesKept
<1>4. ASSUME NEW seq \in 1 .. MaxSeq, NEW ts \in 1 .. MaxTs, NEW code \in Codes,
             NEW goals \in {{}} \cup {{[seq |-> seq, kind |-> "goal", ts |-> ts, side |-> s]} : s \in Sides},
             IngestScore(seq, ts, code, goals)
      PROVE  up' = "open" /\ ~stopping' /\ OneBeginning' /\ \A e \in Begun' : Behind(e, machine')
  <2>1. UNCHANGED <<up, stopping, crashes, failures>> /\ \A e \in goals : e.kind = "goal"
    BY <1>4 DEF IngestScore
  <2>2. QED
    BY <1>1, <1>4, <2>1, IngestBegins DEF PhasesKept
<1>5. CASE \E ts \in OddsTimes : IngestOdds(ts)
  <2>1. PICK ts \in OddsTimes : IngestOdds(ts)
    BY <1>5
  <2> DEFINE x == [kind |-> "odds", ts |-> ts]
  <2>2. x \in OddsEntries /\ x.kind = "odds"
    BY DEF OddsEntries
  <2>3. queue' = Append(queue, x) /\ UNCHANGED <<scores, up, stopping, machine, crashes, failures>>
    BY <2>1 DEF IngestOdds, feed
  <2> HIDE DEF x
  <2>4. /\ \A i \in DOMAIN queue : i \in DOMAIN queue' /\ queue'[i] = queue[i]
        /\ \A i \in DOMAIN queue' : i \in DOMAIN queue \/ i = Len(queue) + 1
        /\ queue'[Len(queue) + 1] = x
    BY <2>2, <2>3, Queued
  <2>5. \A i \in QueuedScores' : i \in QueuedScores /\ queue'[i] = queue[i]
    BY <2>2, <2>4 DEF QueuedScores
  <2>6. Recorded' \subseteq Recorded
    BY <2>3, <2>5 DEF Recorded
  <2>7. QED
    BY <1>1, <1>3, <2>3, <2>6 DEF PhasesKept
<1>6. CASE AppendFact
  BY <1>1, <1>3, <1>6, FactLeavesRecords DEF AppendFact, PhasesKept
<1>7. CASE AppendCall \/ AppendSettlement \/ UNCHANGED vars
  <2>1. UNCHANGED <<scores, queue, up, stopping, machine, crashes, failures>>
    BY <1>7 DEF AppendCall, AppendSettlement, vars, process, feed
  <2>2. QED
    BY <1>1, <1>3, <2>1, FeedFrame DEF PhasesKept
<1>8. CASE EndTask
  <2>1. UNCHANGED <<scores, queue, stopping, crashes, failures>> /\ up' = "open"
        /\ (up # "opening" => UNCHANGED machine)
    BY <1>8 DEF EndTask, feed
  <2>2. up = "open"
    BY <1>1, <2>1 DEF PhasesKept
  <2>3. QED
    BY <1>1, <1>3, <2>1, <2>2, FeedFrame
<1>9. CASE Crash \/ AppendFails \/ Close \/ Open
  <2>1. /\ Crash => crashes' = crashes + 1
        /\ AppendFails => failures' = failures + 1
        /\ (Close \/ Open) => (stopping \/ up = "down") /\ UNCHANGED <<crashes, failures>>
    BY DEF Crash, AppendFails, Close, Open
  <2>2. (Close \/ Open) => FALSE
    BY <1>1, <2>1 DEF PhasesKept
  <2>3. QED
    BY <1>1, <1>2, <1>9, <2>1, <2>2
<1>10. QED
  BY <1>4, <1>5, <1>6, <1>7, <1>8, <1>9 DEF Next, Publish, Ingest

\* While nothing crashes or fails and every message has a status, no stale
\* status makes a phase begin twice (fixture-machine.ts:39-41).
THEOREM PhasesBeginOnce ==
  ASSUME StatusIsKnown
  PROVE  Spec => []PhasesUntilRestart
<1>1. Init => PhasesKept
  <2>1. SUFFICES ASSUME Init PROVE PhasesKept
    OBVIOUS
  <2>2. scores = <<>> /\ queue = <<>> /\ up = "open" /\ stopping = FALSE
    BY <2>1 DEF Init, FeedInit
  <2>3. Recorded = {}
    BY <2>2, NoneQueued DEF Range
  <2>4. QED
    BY <2>2, <2>3 DEF PhasesKept, Begun, OneBeginning
<1>2. PInv /\ PhasesKept /\ [Next]_vars => PhasesKept'
  BY NextPhases
<1>3. PhasesKept => PhasesUntilRestart
  <2>1. SUFFICES ASSUME PhasesKept, crashes = 0, failures = 0,
                        NEW e \in EventsOf(scores), NEW f \in EventsOf(scores), e.kind = f.kind,
                        e.kind \in {"kickoff", "half-time", "second-half-start"}
                 PROVE  e = f
    BY DEF PhasesUntilRestart, PhasesHappenOnce
  <2>2. e \in Begun /\ f \in Begun
    BY <2>1 DEF EventsOf, Begun, Recorded
  <2>3. \E c \in BeginCodes : BeginsWith(e, c) /\ BeginsWith(f, c)
    BY <2>1, PhaseFacts DEF BeginsWith, BeginCodes
  <2>4. QED
    BY <2>1, <2>2, <2>3 DEF PhasesKept, OneBeginning
<1>4. QED
  BY <1>1, <1>2, <1>3, PublisherIsSound, PTL DEF Spec

-----------------------------------------------------------------------------
(* Feed time: a window that ran out has run out for the scores to come. *)

\* Later scores have later times, which an open machine has seen.
TimesGrow ==
  /\ \A a, b \in Recorded : a.seq < b.seq => a.ts <= b.ts
  /\ up = "open" => \A r \in Recorded : r.ts <= machine.ts

\* A call settled for want of a goal had been overtaken by feed time, unless
\* the match was over.
Overtaken(s) ==
  \/ oddsTs >= s.call.settlesBy
  \/ LastTs(scores) >= s.call.settlesBy
  \/ \E r \in Range(scores) : r.status \in Over
ClosedInTime ==
  \A s \in settled : s.decision.status = "settled" /\ s.decision.by = 0 => Overtaken(s)

LEMMA FirstOfIsOne ==
  ASSUME NEW events, events # {}, \A e \in events : e.ts \in Nat /\ e.seq \in Nat
  PROVE  FirstOf(events) \in events
<1> DEFINE T == {e.ts : e \in events}
<1>1. T # {} /\ T \subseteq Nat
  OBVIOUS
<1> HIDE DEF T
<1>2. PICK t \in T : \A k \in T : t <= k
  BY <1>1, LeastNumber
<1> DEFINE A == {e \in events : e.ts = t}
           Q == {e.seq : e \in A}
<1>3. A # {}
  BY <1>2 DEF T
<1>4. Q # {} /\ Q \subseteq Nat
  BY <1>3
<1> HIDE DEF A, Q
<1>5. PICK q \in Q : \A k \in Q : q <= k
  BY <1>4, LeastNumber
<1>6. PICK e \in A : e.seq = q
  BY <1>5 DEF Q
<1>7. e \in events /\ e.ts = t
  BY <1>6 DEF A
<1>8. ASSUME NEW f \in events
      PROVE  e.ts < f.ts \/ (e.ts = f.ts /\ e.seq <= f.seq)
  <2>1. t <= f.ts /\ t \in Nat /\ f.ts \in Nat
    BY <1>1, <1>2, <1>8 DEF T
  <2>2. CASE f.ts = t
    <3>1. f.seq \in Q
      BY <1>8, <2>2 DEF A, Q
    <3>2. QED
      BY <1>5, <1>6, <1>7, <2>2, <3>1
  <2>3. QED
    BY <1>7, <2>1, <2>2
<1>9. QED
  BY <1>7, <1>8 DEF FirstOf

\* A window call without a goal is settled when its window is complete.
LEMMA NoGoalDecision ==
  ASSUME NEW call, NEW c, \A e \in c.events : e.ts \in Nat /\ e.seq \in Nat \ {0},
         EvaluateCall(call, c).status = "settled", EvaluateCall(call, c).by = 0
  PROVE  WindowComplete(call, c) /\ c.status \notin Abandoned
<1>1. ~(\E gap \in c.gaps : Crosses(gap, call)) /\ c.status \notin Abandoned
  BY DEF EvaluateCall, Void
<1>2. CASE GoalsIn(call, c.events) # {}
  <2>1. FirstOf(GoalsIn(call, c.events)) \in c.events
    BY <1>2, FirstOfIsOne DEF GoalsIn
  <2>2. EvaluateCall(call, c).by = FirstOf(GoalsIn(call, c.events)).seq
    BY <1>1, <1>2 DEF EvaluateCall, Settled
  <2>3. QED
    BY <2>1, <2>2
<1>3. CASE GoalsIn(call, c.events) = {}
  BY <1>1, <1>3 DEF EvaluateCall, Pending
<1>4. QED
  BY <1>1, <1>2, <1>3

LEMMA EventNumbers ==
  ASSUME PInv
  PROVE  \A e \in EventsOf(scores) : e.ts \in Nat \ {0} /\ e.seq \in Nat \ {0}
<1>1. \A r \in Range(scores) : r \in ScoreRecords
  BY DEF PInv, Shapes, Range
<1>2. \A r \in ScoreRecords : \A e \in r.events : e.ts \in Nat \ {0} /\ e.seq \in Nat \ {0}
  BY DEF ScoreRecords, RecordShapes, Events
<1>3. QED
  BY <1>1, <1>2 DEF EventsOf

LEMMA CallTimes ==
  ASSUME PInv
  PROVE  \A c \in calls : c.settlesBy \in Nat /\ c.openedAt \in Nat
<1>1. \A c \in ExpectedCalls(scores) : c.settlesBy \in Nat /\ c.openedAt \in Nat
  BY EventNumbers, DurationAssumption DEF ExpectedCalls, CallsForEvent, CallOf
<1>2. QED
  BY <1>1 DEF PInv, Derived

LEMMA LastRecord ==
  ASSUME PInv
  PROVE  /\ LastTs(scores) \in Nat
         /\ \A r \in Range(scores) : r.seq <= Last(scores).seq
         /\ scores # <<>> => Last(scores) \in Range(scores) /\ LastTs(scores) = Last(scores).ts
<1>1. scores \in Seq(ScoreRecords)
  BY DEF PInv, Shapes
<1>2. CASE scores = <<>>
  BY <1>2 DEF LastTs, Range
<1>3. CASE scores # <<>>
  <2>1. Len(scores) \in DOMAIN scores /\ Last(scores) = scores[Len(scores)]
    BY <1>1, <1>3 DEF Last
  <2>2. ASSUME NEW i \in DOMAIN scores PROVE scores[i].seq <= Last(scores).seq
    <3>1. i \in Nat /\ (i = Len(scores) \/ i < Len(scores))
      BY <1>1, <2>2
    <3>2. scores[i].seq \in Nat /\ Last(scores).seq \in Nat
      BY <2>1, <2>2, RecordNumbers DEF ScoreRecords, RecordShapes
    <3>3. i < Len(scores) => scores[i].seq < Last(scores).seq
      BY <2>1, <2>2 DEF PInv, InOrder
    <3>4. QED
      BY <2>1, <3>1, <3>2, <3>3
  <2>3. Last(scores).ts \in Nat
    BY <2>1, RecordNumbers DEF ScoreRecords, RecordShapes
  <2>4. QED
    BY <1>3, <2>1, <2>2, <2>3 DEF LastTs, Range
<1>4. QED
  BY <1>2, <1>3

LEMMA NextTimes ==
  ASSUME PInv, TimesGrow, [Next]_vars
  PROVE  TimesGrow'
<1>1. ASSUME Recorded' \subseteq Recorded, up' = "open" => up = "open" /\ UNCHANGED machine
      PROVE  TimesGrow'
  BY <1>1 DEF TimesGrow
<1>2. ASSUME NEW seq \in 1 .. MaxSeq, NEW ts \in 1 .. MaxTs, NEW code \in Codes, NEW goals,
             IngestScore(seq, ts, code, goals)
      PROVE  TimesGrow'
  <2> DEFINE r == ScoreRecord(machine, seq, ts, code, goals)
             x == [kind |-> "score", record |-> r]
  <2>1. /\ up = "open" /\ queue' = Append(queue, x) /\ machine' = StepTo(machine, seq, ts, code)
        /\ seq > machine.seq /\ ts >= machine.ts /\ UNCHANGED <<scores, up>>
    BY <1>2 DEF IngestScore, Listening, feed
  <2>2. r.seq = seq /\ r.ts = ts /\ machine'.ts = ts
    BY <2>1 DEF ScoreRecord, StepTo
  <2>3. x.kind = "score" /\ x.record = r
    OBVIOUS
  <2> HIDE DEF x, r
  <2>4. \A i \in DOMAIN queue' : queue'[i] = x \/ (i \in DOMAIN queue /\ queue'[i] = queue[i])
    <3>1. queue \in Seq(Range(queue) \cup {x})
      BY DEF Range, PInv, Shapes
    <3>2. QED
      BY <2>1, <3>1, AppendProperties
  <2>5. Recorded' \subseteq Recorded \cup {r}
    <3>1. \A i \in QueuedScores' : queue'[i].record = r \/ (i \in QueuedScores /\ queue'[i] = queue[i])
      BY <2>3, <2>4 DEF QueuedScores
    <3>2. QED
      BY <2>1, <3>1 DEF Recorded
  <2>6. machine.seq \in Nat /\ machine.ts \in Nat
    BY DEF PInv, Shapes, Machines
  <2>7. \A a \in Recorded : a.seq \in Nat /\ a.ts \in Nat /\ a.seq <= machine.seq /\ a.ts <= machine.ts
    <3>1. \A a \in Recorded : a.seq <= machine.seq
      BY <2>1 DEF PInv, InOrder, Recorded, Range
    <3>2. QED
      BY <2>1, <3>1, RecordNumbers DEF TimesGrow
  <2>8. \A a \in Recorded' : a.ts <= ts
    BY <2>1, <2>2, <2>5, <2>6, <2>7
  <2>9. ASSUME NEW a \in Recorded', NEW b \in Recorded', a.seq < b.seq
        PROVE  a.ts <= b.ts
    <3>1. CASE b = r
      BY <2>2, <2>8, <2>9, <3>1
    <3>2. CASE b \in Recorded
      <4>1. a # r
        BY <2>1, <2>2, <2>6, <2>7, <2>9, <3>2
      <4>2. QED
        BY <2>5, <2>9, <3>2, <4>1 DEF TimesGrow
    <3>3. QED
      BY <2>5, <2>9, <3>1, <3>2
  <2>10. QED
    BY <2>1, <2>2, <2>8, <2>9 DEF TimesGrow
<1>3. CASE \E ts \in OddsTimes : IngestOdds(ts)
  <2>1. PICK ts \in OddsTimes : IngestOdds(ts)
    BY <1>3
  <2> DEFINE x == [kind |-> "odds", ts |-> ts]
  <2>2. x \in OddsEntries /\ x.kind = "odds"
    BY DEF OddsEntries
  <2>3. up = "open" /\ queue' = Append(queue, x) /\ UNCHANGED <<scores, up, machine>>
    BY <2>1 DEF IngestOdds, Listening, feed
  <2> HIDE DEF x
  <2>4. /\ \A i \in DOMAIN queue : i \in DOMAIN queue' /\ queue'[i] = queue[i]
        /\ \A i \in DOMAIN queue' : i \in DOMAIN queue \/ i = Len(queue) + 1
        /\ queue'[Len(queue) + 1] = x
    BY <2>2, <2>3, Queued
  <2>5. \A i \in QueuedScores' : i \in QueuedScores /\ queue'[i] = queue[i]
    BY <2>2, <2>4 DEF QueuedScores
  <2>6. Recorded' \subseteq Recorded
    BY <2>3, <2>5 DEF Recorded
  <2>7. QED
    BY <1>1, <2>3, <2>6
<1>4. CASE AppendFact
  BY <1>1, <1>4, FactLeavesRecords DEF AppendFact
<1>5. CASE AppendCall \/ AppendSettlement \/ Open \/ UNCHANGED vars
  <2>1. UNCHANGED <<scores, queue>> /\ (up' = "open" => up = "open" /\ UNCHANGED machine)
    BY <1>5 DEF AppendCall, AppendSettlement, Open, vars, process, feed
  <2>2. QED
    BY <1>1, <2>1, FeedFrame
<1>6. CASE Down /\ UNCHANGED feed
  <2>1. up' = "down" /\ queue' = <<>> /\ UNCHANGED scores
    BY <1>6 DEF Down, feed
  <2>2. QueuedScores' = {} /\ Recorded' = Range(scores)
    BY <2>1 DEF QueuedScores, Recorded
  <2>3. QED
    BY <1>1, <2>1, <2>2 DEF Recorded
<1>7. CASE Crash \/ Close
  BY <1>6, <1>7 DEF Crash, Close
<1>8. CASE AppendFails
  <2>1. CASE UNCHANGED <<up, machine, queue>> /\ UNCHANGED feed
    BY <1>1, <2>1, FeedFrame DEF feed
  <2>2. CASE /\ queue # <<>> /\ queue' = Tail(queue) /\ UNCHANGED <<up, machine>> /\ UNCHANGED feed
    <3>1. \A i \in DOMAIN queue' : i + 1 \in DOMAIN queue /\ queue'[i] = queue[i + 1]
      BY <2>2, Dequeued
    <3>2. \A i \in QueuedScores' : i + 1 \in QueuedScores /\ queue'[i] = queue[i + 1]
      BY <3>1 DEF QueuedScores
    <3>3. Recorded' \subseteq Recorded
      BY <2>2, <3>2 DEF Recorded, feed
    <3>4. QED
      BY <1>1, <2>2, <3>3
  <2>3. QED
    BY <1>6, <1>8, <2>1, <2>2 DEF AppendFails
<1>9. CASE EndTask
  <2>1. UNCHANGED <<scores, queue>> /\ machine' = (IF up = "opening" THEN Checkpoint ELSE machine)
        /\ work # "idle"
    BY <1>9 DEF EndTask, feed
  <2>2. Recorded' = Recorded
    BY <2>1, FeedFrame
  <2>3. CASE up = "opening"
    <3>1. queue = <<>> /\ Recorded = Range(scores)
      BY <2>3, NoneQueued DEF PInv, InOrder
    <3>2. ASSUME NEW r \in Recorded PROVE r.ts <= Checkpoint.ts
      <4>1. PICK l \in Recorded : l.seq = Checkpoint.seq /\ l.ts = Checkpoint.ts /\ r.seq <= l.seq
        <5>1. scores # <<>>
          BY <3>1, <3>2 DEF Range
        <5>2. QED
          BY <3>1, <3>2, <5>1, CheckpointShape DEF Range
      <4>2. r.seq = l.seq => r = l
        BY <3>2, OneRecordEach
      <4>3. r.seq < l.seq => r.ts <= l.ts
        BY <3>2 DEF TimesGrow
      <4>4. r.seq \in Nat /\ l.seq \in Nat /\ r.ts \in Nat
        BY <3>2, RecordNumbers
      <4>5. QED
        BY <4>1, <4>2, <4>3, <4>4
    <3>3. QED
      BY <2>1, <2>2, <2>3, <3>2 DEF TimesGrow
  <2>4. CASE up # "opening"
    <3>1. up = "open"
      BY <2>1, <2>4 DEF PInv, Shapes, InOrder
    <3>2. QED
      BY <1>1, <2>1, <2>2, <3>1
  <2>5. QED
    BY <2>3, <2>4
<1>10. QED
  BY <1>2, <1>3, <1>4, <1>5, <1>7, <1>8, <1>9 DEF Next, Ingest, Publish

\* What is appended is later than what is there.
LEMMA FactIsLater ==
  ASSUME PInv, TimesGrow, AppendFact
  PROVE  /\ oddsTs' >= oddsTs /\ LastTs(scores') >= LastTs(scores)
         /\ Range(scores) \subseteq Range(scores')
         /\ \A e \in EventsOf(scores') \ EventsOf(scores) : e.ts >= LastTs(scores)
<1>1. PInv'
  BY AppendScorePInv, AppendOddsPInv
<1>2. queue # <<>> /\ queue' = Tail(queue)
  BY DEF AppendFact
<1>3. 1 \in DOMAIN queue /\ Head(queue) = queue[1] /\ Head(queue) \in ScoreEntries \cup OddsEntries
  BY <1>2, Dequeued
<1>4. CASE Head(queue).kind = "score"
  <2> DEFINE r == Head(queue).record
  <2>1. scores' = Append(scores, r) /\ UNCHANGED oddsTs /\ 1 \in QueuedScores
    BY <1>3, <1>4 DEF AppendFact, QueuedScores
  <2>2. r \in ScoreRecords /\ r \in Recorded /\ r = queue[1].record
    BY <1>3, <2>1, RecordNumbers DEF Recorded
  <2> HIDE DEF r
  <2>3. scores \in Seq(ScoreRecords) /\ oddsTs \in Nat
    BY BoundAssumption DEF PInv, Shapes
  <2>4. /\ \A i \in DOMAIN scores' : (i = Len(scores) + 1 /\ scores'[i] = r) \/ (i \in DOMAIN scores /\ scores'[i] = scores[i])
        /\ \A i \in DOMAIN scores : i \in DOMAIN scores' /\ scores'[i] = scores[i]
        /\ scores' # <<>> /\ Len(scores') = Len(scores) + 1 /\ scores'[Len(scores) + 1] = r
    BY <2>1, <2>2, <2>3, AppendProperties
  <2>5. Range(scores) \subseteq Range(scores') /\ Range(scores') \subseteq Range(scores) \cup {r}
    BY <2>4 DEF Range
  <2>6. LastTs(scores') = r.ts
    BY <2>4 DEF LastTs, Last
  <2>7. LastTs(scores) <= r.ts
    <3>1. CASE scores = <<>>
      BY <2>2, <3>1 DEF LastTs, ScoreRecords, RecordShapes
    <3>2. CASE scores # <<>>
      <4>1. Last(scores) \in Range(scores) /\ LastTs(scores) = Last(scores).ts
        BY <3>2, LastRecord
      <4>2. Last(scores) \in Recorded /\ Last(scores).seq < r.seq
        BY <2>1, <2>2, <4>1 DEF Recorded, Range, PInv, InOrder
      <4>3. QED
        BY <2>2, <4>1, <4>2 DEF TimesGrow
    <3>3. QED
      BY <3>1, <3>2
  <2>8. \A e \in EventsOf(scores') \ EventsOf(scores) : e.ts = r.ts
    BY <2>2, <2>5 DEF EventsOf, ScoreRecords
  <2>9. LastTs(scores) \in Nat /\ r.ts \in Nat
    BY <2>2, LastRecord DEF ScoreRecords, RecordShapes
  <2>10. QED
    BY <2>1, <2>3, <2>5, <2>6, <2>7, <2>8, <2>9
<1>5. CASE Head(queue).kind # "score"
  <2>1. UNCHANGED scores /\ oddsTs' = (IF Head(queue).ts > oddsTs THEN Head(queue).ts ELSE oddsTs)
    BY <1>5 DEF AppendFact
  <2>2. Head(queue).ts \in Nat /\ oddsTs \in Nat /\ LastTs(scores) \in Nat
    <3>1. Head(queue).ts \in OddsTimes
      BY <1>3, <1>5 DEF ScoreEntries, OddsEntries
    <3>2. oddsTs \in Nat /\ OddsTimes \subseteq Nat
      BY BoundAssumption DEF PInv, Shapes
    <3>3. QED
      BY <3>1, <3>2, LastRecord
  <2>3. QED
    BY <2>1, <2>2
<1>6. QED
  BY <1>4, <1>5

LEMMA NextClosed ==
  ASSUME PInv, TimesGrow, ClosedInTime, [Next]_vars
  PROVE  ClosedInTime'
<1>1. ASSUME UNCHANGED <<scores, oddsTs, settled>>
      PROVE  ClosedInTime'
  BY <1>1 DEF ClosedInTime, Overtaken
<1>2. ASSUME UNCHANGED feed
      PROVE  ClosedInTime'
  BY <1>1, <1>2 DEF feed
<1>3. CASE AppendFact
  <2>1. SUFFICES ASSUME NEW s \in settled, s.decision.status = "settled", s.decision.by = 0
                 PROVE  Overtaken(s)'
    BY <1>3 DEF AppendFact, ClosedInTime
  <2>2. s.call \in calls
    BY <2>1 DEF PInv, Derived
  <2>3. s.call.settlesBy \in Nat
    BY <2>2, CallTimes
  <2>4. PInv'
    BY <1>3, AppendScorePInv, AppendOddsPInv
  <2>5. oddsTs \in Nat /\ oddsTs' \in Nat /\ LastTs(scores) \in Nat /\ LastTs(scores)' \in Nat
    <3>1. LastTs(scores) \in Nat /\ LastTs(scores') \in Nat
      <4>1. ASSUME NEW sc \in Seq(ScoreRecords) PROVE LastTs(sc) \in Nat
        <5>1. sc # <<>> => Last(sc) \in ScoreRecords
          BY DEF Last
        <5>2. QED
          BY <5>1 DEF LastTs, ScoreRecords, RecordShapes
      <4>2. scores \in Seq(ScoreRecords) /\ scores' \in Seq(ScoreRecords)
        BY <2>4 DEF PInv, Shapes
      <4>3. QED
        BY <4>1, <4>2
    <3>2. QED
      BY <2>4, <3>1, BoundAssumption DEF PInv, Shapes
  <2>6. Overtaken(s)
    BY <2>1 DEF ClosedInTime
  <2>7. oddsTs' >= oddsTs /\ LastTs(scores') >= LastTs(scores) /\ Range(scores) \subseteq Range(scores')
    BY <1>3, FactIsLater
  <2>8. QED
    BY <2>3, <2>5, <2>6, <2>7 DEF Overtaken
<1>4. CASE AppendSettlement
  <2>1. UNCHANGED <<scores, oddsTs>> /\ settled' = settled \cup {NextSettlement} /\ DueSettlements # {}
    BY <1>4 DEF AppendSettlement
  <2>2. PICK s : s = NextSettlement
    OBVIOUS
  <2> DEFINE c == Context(scores, oddsTs)
  <2>3. scores # <<>> /\ s.decision = EvaluateCall(s.call, c) /\ s.call \in calls
    BY <2>1, <2>2, DueIsUnsettled DEF DueSettlements, Decisions, Decided
  <2>4. ASSUME s.decision.status = "settled", s.decision.by = 0
        PROVE  Overtaken(s)
    <3>1. \A e \in c.events : e.ts \in Nat /\ e.seq \in Nat \ {0}
      BY EventNumbers DEF Context
    <3>2. c.status = Last(scores).status /\ (c.frontier = oddsTs \/ c.frontier = LastTs(scores))
      BY DEF Context
    <3>3. Last(scores) \in Range(scores)
      BY <2>3, LastRecord
    <3> HIDE DEF c
    <3>4. WindowComplete(s.call, c) /\ c.status \notin Abandoned
      BY <2>3, <2>4, <3>1, NoGoalDecision
    <3>5. c.frontier >= s.call.settlesBy \/ c.status \in Over
      BY <3>4 DEF WindowComplete, Over
    <3>6. QED
      BY <3>2, <3>3, <3>5 DEF Overtaken
  <2>5. \A z : Overtaken(z) => Overtaken(z)'
    BY <2>1 DEF Overtaken
  <2>6. SUFFICES ASSUME NEW z \in settled', z.decision.status = "settled", z.decision.by = 0
                 PROVE  Overtaken(z)
    BY <2>5 DEF ClosedInTime
  <2>7. z \in settled \/ z = s
    BY <2>1, <2>2, <2>6
  <2>8. QED
    BY <2>4, <2>6, <2>7 DEF ClosedInTime
<1>5. CASE AppendCall
  BY <1>1, <1>5 DEF AppendCall
<1>6. CASE Ingest \/ EndTask \/ Crash \/ AppendFails \/ Close \/ Open \/ UNCHANGED vars
  <2>1. UNCHANGED feed
    BY <1>6 DEF Ingest, IngestScore, IngestOdds, EndTask, Crash, AppendFails, Close, Open, vars
  <2>2. QED
    BY <1>2, <2>1
<1>7. QED
  BY <1>3, <1>4, <1>5, <1>6 DEF Next, Publish

\* While the match is on, a goal comes too late for a window that was settled
\* without it only when odds had run ahead of the scores, or at the window's last
\* moment behind another message of that moment (GoalsComeInTime).
THEOREM GoalsAreInTime == Spec => GoalsComeInTime
<1>1. Init => TimesGrow /\ ClosedInTime
  <2>1. SUFFICES ASSUME Init PROVE TimesGrow /\ ClosedInTime
    OBVIOUS
  <2>2. scores = <<>> /\ queue = <<>> /\ settled = {}
    BY <2>1 DEF Init, FeedInit
  <2>3. Recorded = {}
    BY <2>2, NoneQueued DEF Range
  <2>4. QED
    BY <2>2, <2>3 DEF TimesGrow, ClosedInTime
<1>2. PInv /\ TimesGrow /\ ClosedInTime /\ [Next]_vars => TimesGrow' /\ ClosedInTime'
  BY NextTimes, NextClosed
<1> DEFINE InTime == \A e \in EventsOf(scores') \ EventsOf(scores), s \in settled :
                       /\ s.decision.status = "settled" /\ s.decision.by = 0
                       /\ e \in GoalsIn(s.call, EventsOf(scores'))
                       => \/ oddsTs > LastTs(scores)
                          \/ \E r \in Range(scores) : r.status \in Over
                          \/ SharesLastMoment(e, s.call)
<1>3. PInv /\ TimesGrow /\ ClosedInTime /\ [Next]_vars => InTime
  <2>1. SUFFICES ASSUME PInv, TimesGrow, ClosedInTime, [Next]_vars,
                        NEW e \in EventsOf(scores') \ EventsOf(scores), NEW s \in settled,
                        s.decision.status = "settled", s.decision.by = 0,
                        e \in GoalsIn(s.call, EventsOf(scores')),
                        ~(\E r \in Range(scores) : r.status \in Over)
                 PROVE  oddsTs > LastTs(scores) \/ SharesLastMoment(e, s.call)
    OBVIOUS
  <2>2. AppendFact
    <3>1. scores' # scores
      BY <2>1
    <3>2. QED
      BY <2>1, <3>1 DEF Next, Publish, Ingest, IngestScore, IngestOdds, AppendCall, AppendSettlement,
                        EndTask, Crash, AppendFails, Close, Open, vars, feed
  <2>3. e.ts >= LastTs(scores)
    BY <2>1, <2>2, FactIsLater
  <2>4. oddsTs >= s.call.settlesBy \/ LastTs(scores) >= s.call.settlesBy
    BY <2>1 DEF ClosedInTime, Overtaken
  <2>5. s.call.settlesBy \in Nat
    BY <2>1, CallTimes DEF PInv, Derived
  <2>6. oddsTs \in Nat /\ LastTs(scores) \in Nat
    BY <2>1, LastRecord, BoundAssumption DEF PInv, Shapes
  <2>7. e.ts \in Nat
    <3>1. PInv'
      BY <2>1, <2>2, AppendScorePInv, AppendOddsPInv
    <3>2. \A r \in Range(scores') : r \in ScoreRecords
      BY <3>1 DEF PInv, Shapes, Range
    <3>3. \A r \in ScoreRecords : \A f \in r.events : f.ts \in Nat
      BY DEF ScoreRecords, RecordShapes, Events
    <3>4. QED
      BY <2>1, <3>2, <3>3 DEF EventsOf
  <2>8. e.ts <= s.call.settlesBy
    BY <2>1 DEF GoalsIn
  <2>9. QED
    BY <2>3, <2>4, <2>5, <2>6, <2>7, <2>8 DEF SharesLastMoment
<1>4. PInv /\ TimesGrow /\ ClosedInTime /\ [Next]_vars => [InTime]_vars
  BY <1>3
<1>5. QED
  BY <1>1, <1>2, <1>4, PublisherIsSound, PTL DEF Spec, GoalsComeInTime
=============================================================================
