---------------------------- MODULE FixtureFeed -----------------------------
(***************************************************************************)
(* What the fixture publisher promises its readers: every fact of the feed *)
(* appears together with the calls it opens and the settlements it         *)
(* decides, once, and in the order of the facts, whatever happens to the   *)
(* process that writes them.                                               *)
(***************************************************************************)
EXTENDS SettleEngine, Sequences, SequencesExt

CONSTANTS MaxSeq, MaxTs

VARIABLES
  scores,   \* score records in the order of the feed
  oddsTs,   \* latest feed time of an odds record, 0 without one
  calls,    \* opened calls
  settled   \* settlements, [call, decision]

feed == <<scores, oddsTs, calls, settled>>

EventsOf(log) == UNION {r.events : r \in Range(log)}
LastTs(log) == IF log = <<>> THEN 0 ELSE Last(log).ts

\* SignedFixturePlaneState.context, once there is a score.
Context(log, odds) ==
  [events |-> EventsOf(log), gaps |-> Last(log).gaps, status |-> Last(log).status,
   frontier |-> IF odds > LastTs(log) THEN odds ELSE LastTs(log)]

ExpectedCalls(log) == UNION {CallsForEvent(e) : e \in EventsOf(log)}

\* pendingSettlementRecords on the calls of cs that are not settled in done.
Unsettled(cs, done) == cs \ {s.call : s \in done}

Decided(log, odds, cs) ==
  IF log = <<>> THEN {}
  ELSE {s \in {[call |-> c, decision |-> EvaluateCall(c, Context(log, odds))] : c \in cs} :
          s.decision # Pending}

FaultDecideAgain(log, odds, cs, done) == Decided(log, odds, cs) \ done
Decisions(log, odds, cs, done) == Decided(log, odds, Unsettled(cs, done))

-----------------------------------------------------------------------------

FeedInit == scores = <<>> /\ oddsTs = 0 /\ calls = {} /\ settled = {}

\* What follows from a new fact is there with it.
Consequences ==
  /\ calls' = calls \cup ExpectedCalls(scores')
  /\ settled' = settled \cup Decisions(scores', oddsTs', calls', settled)

PublishScore(seq, ts) ==
  /\ scores # <<>> => seq > Last(scores).seq
  /\ \E r \in Range(scores') : /\ scores' = Append(scores, r)
                            /\ r.seq = seq /\ r.ts = ts
                            /\ \A e \in r.events : e.seq = seq /\ e.ts = ts
  /\ UNCHANGED oddsTs
  /\ Consequences

PublishOdds(ts) ==
  /\ oddsTs' = IF ts > oddsTs THEN ts ELSE oddsTs
  /\ UNCHANGED scores
  /\ Consequences

FeedNext ==
  \/ \E seq \in 1 .. MaxSeq, ts \in 1 .. MaxTs : PublishScore(seq, ts)
  \/ \E ts \in 1 .. MaxTs : PublishOdds(ts)

FeedSpec == FeedInit /\ [][FeedNext]_feed
=============================================================================
