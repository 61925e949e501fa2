--------------------------- MODULE FixtureConsumer ---------------------------
(***************************************************************************)
(* A peer's copy of the fixture plane: apps/desktop/workers/               *)
(* fixture-plane.js, for one fixture.                                      *)
(*                                                                         *)
(* The publisher's log is a constant: what it holds when, is a matter of   *)
(* which blocks have come.  A block comes to the peer's core by            *)
(* replication, in any order since the core is sparse, or as a proof of    *)
(* the relay, and is applied by four sources: the blocks on disk when the  *)
(* plane opens, the live reader, the request for the first block and the   *)
(* relay.  Feed indexes count from 1.                                      *)
(*                                                                         *)
(* Blocks decode, for the publisher encoded them.  The history of odds,    *)
(* the cards and the snapshots that were seen are left out.                *)
(***************************************************************************)
EXTENDS Naturals, Sequences

CONSTANTS
  Log,        \* what the publisher signed
  CallIds, EventIds,
  MaxWindow,  \* bound on frames of the relay that wait in relayApply
  MaxReopens  \* bound on the times the plane stops

Indexes == DOMAIN Log
Upserts == [kind : {"fixture.upsert"}]
Scores == [kind : {"fixture.score"}, seq : Nat \ {0}, events : SUBSET EventIds]
CallRecords == [kind : {"call.open", "call.settled"}, call : CallIds]

\* What FixturePublisher guarantees: scores in the order of their sequence, a call opened once,
\* and settled once and later.
ASSUME LogAssumption ==
  /\ Log \in Seq(Upserts \cup Scores \cup CallRecords)
  /\ \A i, j \in Indexes :
       /\ i < j /\ Log[i].kind = "fixture.score" /\ Log[j].kind = "fixture.score"
            => Log[i].seq < Log[j].seq
       /\ i # j /\ Log[i].kind = Log[j].kind /\ Log[i].kind \in {"call.open", "call.settled"}
            => Log[i].call # Log[j].call
  /\ \A i \in Indexes : Log[i].kind = "call.settled" =>
       \E j \in 1 .. (i - 1) : Log[j].kind = "call.open" /\ Log[j].call = Log[i].call

ASSUME ConsumerBounds == MaxWindow \in Nat \ {0} /\ MaxReopens \in Nat

VARIABLES
  core,                 \* indexes whose block is on disk
  plane,                \* "closed", "opening", "open" or "closing"
  cachedLength,         \* the core's length when the plane began to open
  openIndex,            \* the block that open looks at next
  streamStart,          \* the first block that was missing
  readerIndex,          \* the block that the live reader delivers next
  initialBlockRequest,  \* the first block is being fetched
  relayNext,            \* the index the relay sends next, 0 without a connection
  relayApply,           \* indexes of frames that wait for their turn
  seenRecordIndexes,
  projection,                \* the projection
  reopens

consumerVars == <<core, plane, cachedLength, openIndex, streamStart, readerIndex,
                  initialBlockRequest, relayNext, relayApply, seenRecordIndexes, projection, reopens>>

Entries == [call : CallIds, index : Indexes]
EmptyProjection == [seq |-> 0, events |-> {}, calls |-> {}, settlements |-> {}]
Positions == 1 .. (Len(Log) + 1)

ConsumerOK ==
  /\ core \subseteq Indexes
  /\ plane \in {"closed", "opening", "open", "closing"}
  /\ cachedLength \in 0 .. Len(Log)
  /\ openIndex \in Positions /\ streamStart \in Positions /\ readerIndex \in Positions
  /\ initialBlockRequest \in BOOLEAN
  /\ relayNext \in Positions \cup {0}
  /\ relayApply \in Seq(Indexes)
  /\ seenRecordIndexes \subseteq core
  /\ projection.seq \in Nat /\ projection.events \subseteq EventIds
  /\ projection.calls \subseteq Entries /\ projection.settlements \subseteq Entries
  /\ reopens \in 0 .. MaxReopens

ConsumerInit ==
  /\ core = {} /\ plane = "closed"
  /\ cachedLength = 0 /\ openIndex = 1 /\ streamStart = 1 /\ readerIndex = 1
  /\ initialBlockRequest = FALSE /\ relayNext = 0 /\ relayApply = <<>>
  /\ seenRecordIndexes = {} /\ projection = EmptyProjection
  /\ reopens = 0

-----------------------------------------------------------------------------
(* FixtureProjection.apply. *)

IsOpened(p, c) == \E e \in p.calls : e.call = c

\* A settlement of a call that was not opened is an error.
Applicable(p, r) == r.kind = "call.settled" => IsOpened(p, r.call)

\* A score that is not newer changes nothing.
WithScore(p, r) ==
  IF r.seq <= p.seq THEN p
  ELSE [p EXCEPT !.seq = r.seq, !.events = @ \cup r.events]

Entered(entries, c, i) ==
  IF \E e \in entries : e.call = c THEN entries ELSE entries \cup {[call |-> c, index |-> i]}

Projected(p, r, i) ==
  CASE r.kind = "fixture.score" -> WithScore(p, r)
    [] r.kind = "call.open" -> [p EXCEPT !.calls = Entered(@, r.call, i)]
    [] r.kind = "call.settled" -> [p EXCEPT !.settlements = Entered(@, r.call, i)]
    [] OTHER -> p

Seen(r, i) == IF Applicable(projection, r) THEN seenRecordIndexes \cup {i} ELSE seenRecordIndexes

\* _applyBlock: a record that cannot be applied is reported, and not seen.
ApplyBlock(r, i) ==
  IF i \in seenRecordIndexes THEN UNCHANGED <<seenRecordIndexes, projection>>
  ELSE /\ seenRecordIndexes' = Seen(r, i)
       /\ projection' = IF Applicable(projection, r) THEN Projected(projection, r, i) ELSE projection

-----------------------------------------------------------------------------
(* The core. *)

\* A block comes by replication.
Replicate ==
  /\ plane \in {"opening", "open"}
  /\ \E i \in Indexes \ core : core' = core \cup {i}
  /\ UNCHANGED <<plane, cachedLength, openIndex, streamStart, readerIndex, initialBlockRequest,
                 relayNext, relayApply, seenRecordIndexes, projection, reopens>>

-----------------------------------------------------------------------------
(* open *)

\* The length of the core is known to the last block it has, or further.
StartOpen ==
  /\ plane = "closed" /\ plane' = "opening"
  /\ \E n \in 0 .. Len(Log) : core \subseteq 1 .. n /\ cachedLength' = n
  /\ openIndex' = 1 /\ streamStart' = cachedLength' + 1
  /\ UNCHANGED <<core, readerIndex, initialBlockRequest, relayNext, relayApply,
                 seenRecordIndexes, projection, reopens>>

FaultSkipsHole(start, i) == start
FirstMissing(start, i) == IF i < start THEN i ELSE start

ReadCached ==
  /\ plane = "opening" /\ openIndex <= cachedLength
  /\ openIndex' = openIndex + 1
  /\ IF openIndex \in core
     THEN ApplyBlock(Log[openIndex], openIndex) /\ UNCHANGED streamStart
     ELSE streamStart' = FirstMissing(streamStart, openIndex) /\ UNCHANGED <<seenRecordIndexes, projection>>
  /\ UNCHANGED <<core, plane, cachedLength, readerIndex, initialBlockRequest, relayNext,
                 relayApply, reopens>>

\* The relay is dialled, the reader started and the first block asked for; the plane may have no relay.
FinishOpen ==
  /\ plane = "opening" /\ openIndex > cachedLength
  /\ plane' = "open"
  /\ relayNext' \in {0, streamStart}
  /\ readerIndex' = streamStart
  /\ initialBlockRequest' = (1 \notin seenRecordIndexes)
  /\ UNCHANGED <<core, cachedLength, openIndex, streamStart, relayApply, seenRecordIndexes,
                 projection, reopens>>

-----------------------------------------------------------------------------
(* The sources of an open plane. *)

ReaderTakes == ApplyBlock(Log[readerIndex], readerIndex)

\* The stream's data event.  close destroys the reader last.
ReaderDelivers ==
  /\ plane \in {"open", "closing"}
  /\ readerIndex \in core
  /\ ReaderTakes
  /\ readerIndex' = readerIndex + 1
  /\ UNCHANGED <<core, plane, cachedLength, openIndex, streamStart, initialBlockRequest,
                 relayNext, relayApply, reopens>>

\* assertVerifiedSnapshotAfterSync, when the snapshot is not there yet.
RequestInitialBlock ==
  /\ plane = "open" /\ 1 \notin seenRecordIndexes /\ ~initialBlockRequest
  /\ initialBlockRequest' = TRUE
  /\ UNCHANGED <<core, plane, cachedLength, openIndex, streamStart, readerIndex, relayNext,
                 relayApply, seenRecordIndexes, projection, reopens>>

\* The first block, or the end of the request's time.
InitialBlockComes ==
  /\ plane \in {"open", "closing"} /\ initialBlockRequest
  /\ initialBlockRequest' = FALSE
  /\ \/ 1 \in core /\ ApplyBlock(Log[1], 1)
     \/ UNCHANGED <<seenRecordIndexes, projection>>
  /\ UNCHANGED <<core, plane, cachedLength, openIndex, streamStart, readerIndex, relayNext,
                 relayApply, reopens>>

\* _consumeProofRelay: a frame takes its place in relayApply.
RelaySends ==
  /\ plane = "open" /\ relayNext \in Indexes
  /\ Len(relayApply) < MaxWindow
  /\ relayApply' = Append(relayApply, relayNext)
  /\ relayNext' = relayNext + 1
  /\ UNCHANGED <<core, plane, cachedLength, openIndex, streamStart, readerIndex,
                 initialBlockRequest, seenRecordIndexes, projection, reopens>>

\* The head of relayApply, and its proof is good.
RelayApplies ==
  /\ plane \in {"open", "closing"} /\ relayApply # <<>>
  /\ core' = core \cup {Head(relayApply)}
  /\ ApplyBlock(Log[Head(relayApply)], Head(relayApply))
  /\ relayApply' = Tail(relayApply)
  /\ UNCHANGED <<plane, cachedLength, openIndex, streamStart, readerIndex, initialBlockRequest,
                 relayNext, reopens>>

\* It is not, and the connection ends; the frames that came before that have their turn.
RelayRefuses ==
  /\ plane \in {"open", "closing"} /\ relayApply # <<>>
  /\ relayApply' = Tail(relayApply)
  /\ relayNext' = 0
  /\ UNCHANGED <<core, plane, cachedLength, openIndex, streamStart, readerIndex,
                 initialBlockRequest, seenRecordIndexes, projection, reopens>>

RelayFails ==
  /\ plane = "open" /\ relayNext # 0
  /\ relayNext' = 0
  /\ UNCHANGED <<core, plane, cachedLength, openIndex, streamStart, readerIndex,
                 initialBlockRequest, relayApply, seenRecordIndexes, projection, reopens>>

-----------------------------------------------------------------------------
(* close, and the end of the process. *)

Close ==
  /\ plane = "open" /\ plane' = "closing"
  /\ reopens < MaxReopens
  /\ relayNext' = 0
  /\ UNCHANGED <<core, cachedLength, openIndex, streamStart, readerIndex, initialBlockRequest,
                 relayApply, seenRecordIndexes, projection, reopens>>

\* The next plane starts from the core alone.
Forgotten ==
  /\ plane' = "closed"
  /\ reopens < MaxReopens /\ reopens' = reopens + 1
  /\ cachedLength' = 0 /\ openIndex' = 1 /\ streamStart' = 1 /\ readerIndex' = 1
  /\ initialBlockRequest' = FALSE /\ relayNext' = 0 /\ relayApply' = <<>>
  /\ seenRecordIndexes' = {} /\ projection' = EmptyProjection
  /\ UNCHANGED core

Closed == plane = "closing" /\ relayApply = <<>> /\ Forgotten

ProcessEnds == plane # "closed" /\ Forgotten

ConsumerNext ==
  \/ Replicate \/ StartOpen \/ ReadCached \/ FinishOpen
  \/ ReaderDelivers \/ RequestInitialBlock \/ InitialBlockComes
  \/ RelaySends \/ RelayApplies \/ RelayRefuses \/ RelayFails
  \/ Close \/ Closed \/ ProcessEnds

ConsumerSpec == ConsumerInit /\ [][ConsumerNext]_consumerVars

-----------------------------------------------------------------------------
(* Properties. *)

\* What a plane shows of calls carries the index under which the publisher signed it: answers
\* refer to a call by that index (callFeedIndex).  A settlement is shown with its call only.
IndexedAsSigned ==
  /\ \A e \in projection.calls :
       Log[e.index].kind = "call.open" /\ Log[e.index].call = e.call
  /\ \A e \in projection.settlements :
       /\ Log[e.index].kind = "call.settled" /\ Log[e.index].call = e.call
       /\ \E o \in projection.calls : o.call = e.call /\ o.index < e.index

\* The score is the latest of what was applied, whichever source brought it first.
LatestScore ==
  /\ \A i \in seenRecordIndexes : Log[i].kind = "fixture.score" => Log[i].seq <= projection.seq
  /\ projection.seq # 0 =>
       \E i \in seenRecordIndexes : Log[i].kind = "fixture.score" /\ Log[i].seq = projection.seq

\* Nothing is lost: whatever order the other sources brought blocks in, and whichever of them were
\* refused when they came too early, what is behind the reader is shown.
BehindReaderIsShown ==
  plane \in {"open", "closing"} => \A i \in 1 .. (readerIndex - 1) :
    /\ i \in seenRecordIndexes
    /\ Log[i].kind = "call.open" => [call |-> Log[i].call, index |-> i] \in projection.calls
    /\ Log[i].kind = "call.settled" => [call |-> Log[i].call, index |-> i] \in projection.settlements

\* The projection is the signed feed's, from whichever source its blocks came.
ProjectionFollowsFeed == IndexedAsSigned /\ LatestScore /\ BehindReaderIsShown
==============================================================================
