-------------------------- MODULE FixturePublisher --------------------------
(***************************************************************************)
(* The worker that signs the fixture plane: apps/worker/src/ingest.ts,     *)
(* publisher/fixture-publisher.ts and state/fixture-plane-state.ts, for    *)
(* one fixture.                                                            *)
(*                                                                         *)
(* The Hypercore is durable: scores, oddsTs, calls and settled are its     *)
(* records by kind, the scores in their order.  The publisher's projection *)
(* (SignedFixturePlaneState) and index are folds of the core, updated with *)
(* each append, so they are the same variables.  The FixtureMachine, the   *)
(* queue of publications behind appendTail and the task in progress are    *)
(* lost in a crash.                                                        *)
(*                                                                         *)
(* Odds records decide nothing about the calls that are made but how far   *)
(* feed time is known.  The two streams of the feed are independent.  The  *)
(* clean shutdown is the crash of an idle publisher.                       *)
(***************************************************************************)
EXTENDS FixtureFeed, FixtureMachine

CONSTANTS
  Codes,       \* status codes on scores messages, None for a message without
  Sides,       \* who scores, None when the feed does not tell
  OddsTimes,   \* feed times of odds messages
  MaxQueue,    \* bound on publications accepted and not yet appended
  MaxCrashes,
  MaxFailures  \* bound on appends that Hypercore rejects

ASSUME BoundAssumption ==
  /\ MaxSeq \in Nat /\ MaxTs \in Nat
  /\ MaxQueue \in Nat \ {0} /\ MaxCrashes \in Nat /\ MaxFailures \in Nat
  /\ OddsTimes \subseteq 1 .. MaxTs

VARIABLES
  up,        \* "down", "opening" or "open"
  stopping,  \* onPublisherError aborted the ingest
  machine,   \* the FixtureMachine
  queue,     \* publications waiting for their turn
  work,      \* what the task in progress appends: "idle", "calls", "settle"
  crashes, failures

process == <<up, stopping, machine, queue, work>>
vars == <<feed, process, crashes, failures>>

ScoreRecord(m, seq, ts, code, goals) ==
  LET next == StepTo(m, seq, ts, code) IN
  [seq |-> seq, ts |-> ts, code |-> code, status |-> next.status, gaps |-> next.gaps,
   events |-> EventsAt(m, seq, ts, code, goals)]

Statuses == {StatusOf(c) : c \in Codes} \cup {"scheduled"}
Gaps == SUBSET ((1 .. MaxTs) \X (1 .. MaxTs))

RecordOK(r) ==
  /\ r.seq \in 1 .. MaxSeq /\ r.ts \in 1 .. MaxTs /\ r.code \in Codes
  /\ r.status \in Statuses /\ r.gaps \in Gaps
  /\ \A e \in r.events : e.seq = r.seq /\ e.ts = r.ts

TypeOK ==
  /\ \A i \in DOMAIN scores : RecordOK(scores[i])
  /\ oddsTs \in 0 .. MaxTs
  /\ calls \subseteq ExpectedCalls(scores)
  /\ {s.call : s \in settled} \subseteq calls
  /\ up \in {"down", "opening", "open"} /\ stopping \in BOOLEAN
  /\ machine.seq \in 0 .. MaxSeq /\ machine.ts \in 0 .. MaxTs
  /\ machine.code \in Codes \cup {None} /\ machine.status \in Statuses /\ machine.gaps \in Gaps
  /\ Len(queue) <= MaxQueue
  /\ work \in {"idle", "calls", "settle"}
  /\ crashes \in 0 .. MaxCrashes /\ failures \in 0 .. MaxFailures

Init ==
  /\ FeedInit
  /\ up = "open" /\ stopping = FALSE
  /\ machine = InitialMachine
  /\ queue = <<>> /\ work = "idle"
  /\ crashes = 0 /\ failures = 0

-----------------------------------------------------------------------------
(* Ingest: a message is folded and its publication queued in one turn. *)

Listening == up = "open" /\ ~stopping /\ Len(queue) < MaxQueue

\* Messages are lost (seq jumps) but those of a fixture carry feed times in
\* the order of their numbers; stale and repeated ones are ignored.
IngestScore(seq, ts, code, goals) ==
  /\ Listening
  /\ seq > machine.seq /\ ts >= machine.ts
  /\ machine' = StepTo(machine, seq, ts, code)
  /\ queue' = Append(queue, [kind |-> "score", record |-> ScoreRecord(machine, seq, ts, code, goals)])
  /\ UNCHANGED <<feed, up, stopping, work, crashes, failures>>

IngestOdds(ts) ==
  /\ Listening
  /\ queue' = Append(queue, [kind |-> "odds", ts |-> ts])
  /\ UNCHANGED <<feed, up, stopping, machine, work, crashes, failures>>

-----------------------------------------------------------------------------
(* The task at the head of appendTail, one append at a time. *)

\* missingCallRecords and pendingSettlementRecords.
MissingCalls == ExpectedCalls(scores) \ calls
DueSettlements == Decisions(scores, oddsTs, calls, settled)

\* Their order: calls by the time they open, settlements by the call's id.
NextCall == CHOOSE c \in MissingCalls : \A d \in MissingCalls : c.openedAt <= d.openedAt
NextSettlement == CHOOSE s \in DueSettlements : TRUE

AppendFact ==
  /\ up = "open" /\ work = "idle" /\ queue # <<>>
  /\ LET fact == Head(queue) IN
     IF fact.kind = "score"
     THEN scores' = Append(scores, fact.record) /\ work' = "calls" /\ UNCHANGED oddsTs
     ELSE /\ oddsTs' = IF fact.ts > oddsTs THEN fact.ts ELSE oddsTs
          /\ work' = "settle" /\ UNCHANGED scores
  /\ queue' = Tail(queue)
  /\ UNCHANGED <<calls, settled, up, stopping, machine, crashes, failures>>

AppendCall ==
  /\ work = "calls" /\ MissingCalls # {}
  /\ calls' = calls \cup {NextCall}
  /\ UNCHANGED <<scores, oddsTs, settled, process, crashes, failures>>

FaultSettleFirst == TRUE
CallsAreIn == work = "calls" => MissingCalls = {}

AppendSettlement ==
  /\ work # "idle" /\ CallsAreIn /\ DueSettlements # {}
  /\ settled' = settled \cup {NextSettlement}
  /\ work' = "settle"
  /\ UNCHANGED <<scores, oddsTs, calls, up, stopping, machine, queue, crashes, failures>>

\* The constructor of FixtureMachine from the latest score record: the status
\* code is the one of the message.
FaultFreshMachine == InitialMachine
Checkpoint ==
  IF scores = <<>> THEN InitialMachine
  ELSE LET r == Last(scores) IN
       [seq |-> r.seq, ts |-> r.ts, code |-> r.code, status |-> r.status, gaps |-> r.gaps]

\* Nothing is left to append; the task that ends an open starts the ingest.
EndTask ==
  /\ work # "idle" /\ CallsAreIn /\ DueSettlements = {}
  /\ work' = "idle"
  /\ up' = "open"
  /\ machine' = IF up = "opening" THEN Checkpoint ELSE machine
  /\ UNCHANGED <<feed, stopping, queue, crashes, failures>>

-----------------------------------------------------------------------------
(* Failures and restarts. *)

Down ==
  /\ up' = "down" /\ stopping' = FALSE
  /\ machine' = InitialMachine /\ queue' = <<>> /\ work' = "idle"

Crash ==
  /\ up # "down" /\ crashes < MaxCrashes
  /\ Down
  /\ crashes' = crashes + 1
  /\ UNCHANGED <<feed, failures>>

\* core.append rejects.  The task ends where it is; appendTail goes on with
\* the publications behind it, and the ingest stops.  An open fails.
AppendFails ==
  /\ failures < MaxFailures
  /\ failures' = failures + 1
  /\ \/ /\ up = "open" /\ work = "idle" /\ queue # <<>>
        /\ queue' = Tail(queue)
        /\ stopping' = TRUE
        /\ UNCHANGED <<up, machine, work>>
     \/ /\ up = "open" /\ work # "idle" /\ ~(CallsAreIn /\ DueSettlements = {})
        /\ work' = "idle"
        /\ stopping' = TRUE
        /\ UNCHANGED <<up, machine, queue>>
     \/ /\ up = "opening" /\ ~(CallsAreIn /\ DueSettlements = {})
        /\ Down
  /\ UNCHANGED <<feed, crashes>>

\* After an error the worker flushes, closes the publisher and exits.
Close ==
  /\ up = "open" /\ stopping /\ queue = <<>> /\ work = "idle"
  /\ Down
  /\ UNCHANGED <<feed, crashes, failures>>

\* open: loadIndex, then reconcileDerivedRecords.
FaultNoReconcile == "settle"
FirstRepair == "calls"
Open ==
  /\ up = "down"
  /\ up' = "opening" /\ work' = FirstRepair
  /\ UNCHANGED <<feed, stopping, machine, queue, crashes, failures>>

-----------------------------------------------------------------------------

Publish == AppendFact \/ AppendCall \/ AppendSettlement \/ EndTask

Ingest ==
  \/ \E seq \in 1 .. MaxSeq, ts \in 1 .. MaxTs, code \in Codes :
       \E goals \in {{}} \cup {{[seq |-> seq, kind |-> "goal", ts |-> ts, side |-> s]} : s \in Sides} :
         IngestScore(seq, ts, code, goals)
  \/ \E ts \in OddsTimes : IngestOdds(ts)

Next == Ingest \/ Publish \/ Crash \/ AppendFails \/ Close \/ Open

Spec == Init /\ [][Next]_vars

\* The event loop runs the promise chain of appendTail as long as the process
\* lives, and runLive closes the publisher after an error; nothing makes an
\* operator restart the worker, and the feed owes nothing.
FairSpec == Spec /\ WF_vars(Publish) /\ WF_vars(Close)

-----------------------------------------------------------------------------
(* What must hold. *)

\* The publisher implements FixtureFeed: its log, completed with the calls and
\* settlements that follow from the facts in it, grows a fact at a time.  A
\* crash between a fact and its derived records, or between two of them, and
\* the repair when the publisher opens again change nothing a reader of the
\* complete log can tell.
Complete == calls \cup MissingCalls
Atomic == INSTANCE FixtureFeed
  WITH calls <- Complete, settled <- settled \cup Decisions(scores, oddsTs, Complete, settled)
PublishesAtomically == Atomic!FeedSpec

\* A call is settled once, with one decision, also when a gap or a status seen
\* later would have decided otherwise.
OneVerdict ==
  \A s, z \in settled : s.call = z.call => s = z

\* ingest.ts:28 says that continuing after a failed append would create an
\* incomplete public history: every break in the sequence numbers of the
\* published scores is declared as a gap by the record after it.
HolesAreDeclared ==
  \A i \in 2 .. Len(scores) :
    scores[i].seq # scores[i - 1].seq + 1 => <<scores[i - 1].ts, scores[i].ts>> \in scores[i].gaps

\* fixture-machine.ts:39-41: phases progress, so no stale status makes a
\* second kickoff, half-time or second half; a second one opens calls anew.
PhasesHappenOnce ==
  \A e, f \in EventsOf(scores) :
    e.kind = f.kind /\ e.kind \in {"kickoff", "half-time", "second-half-start"} => e = f

\* While the worker has not been restarted and every message has a status, the
\* machine keeps that promise.
PhasesUntilRestart == crashes = 0 /\ failures = 0 => PhasesHappenOnce

\* A goal does not appear inside the window of a call already settled without
\* one, up to the feed time that closes the window and is still in it, unless
\* odds had carried the frontier past the scores, the match had been played to
\* its end, or the window closed with a message of that very feed time, which
\* the message of the goal shares.
Over == Terminal \ Abandoned
SharesLastMoment(e, call) == e.ts = call.settlesBy /\ LastTs(scores) = e.ts
GoalsComeInTime ==
  [][\A e \in EventsOf(scores') \ EventsOf(scores), s \in settled :
       /\ s.decision.status = "settled" /\ s.decision.by = 0
       /\ e \in GoalsIn(s.call, EventsOf(scores'))
       => \/ oddsTs > LastTs(scores)
          \/ \E r \in Range(scores) : r.status \in Over
          \/ SharesLastMoment(e, s.call)]_vars

\* While the worker stays up, whatever a fact entails gets appended: no call is
\* stuck between two tasks, and a task under way gets there.
Settling == MissingCalls # {} \/ DueSettlements # {}
EveryCallSettles == []<>(~Settling \/ up = "down")
=============================================================================
