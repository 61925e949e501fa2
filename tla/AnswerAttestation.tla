------------------------- MODULE AnswerAttestation -------------------------
(***************************************************************************)
(* A member's answer to a live call: apps/desktop/workers/room-manager.js  *)
(* submitAnswer, the client in answer-attestor-client.js, the attestor     *)
(* service in apps/attestor/src with its durable receipt log, and the      *)
(* reference that ends up in the room.                                     *)
(*                                                                         *)
(* A try is one run of submitAnswer; its request id and answer id are both *)
(* drawn for it, and the option goes with them.  A member has one device   *)
(* and at most one connection to the service; a connection keeps the order *)
(* of its messages and loses those under way when it ends.  The fixture    *)
(* feed is known by the indices its records about a call have; members and *)
(* the service hold prefixes of it.  Calls lock, and the service receives, *)
(* on one clock.                                                           *)
(***************************************************************************)
EXTENDS Naturals, SequencesExt, FiniteSets

CONSTANTS
  Members, Calls, Rooms, Tries,
  Nobody,
  MaxClock,          \* bound on the clock
  MaxOther,         \* bound on the records of the feed about no call
  MaxInFlight,      \* maxInFlight of a client
  ServiceLimit      \* MAX_IN_FLIGHT_PER_CONNECTION

ASSUME NobodyAssumption == Nobody \notin Members
ASSUME TriesAssumption == IsFiniteSet(Tries)
ASSUME LimitAssumption == MaxClock \in Nat /\ MaxOther \in Nat /\ MaxInFlight \in Nat /\ ServiceLimit \in Nat

VARIABLES
  clock,
  feedLength, openIndex, settleIndex, locksAt,  \* the fixture feed
  copied,      \* length of the fixture feed a member knows
  sub,         \* what a try submits: user, call, room
  phase,       \* how far a try has come at its member
  waiters,     \* channelWaiters: tries that wait for a connection
  inFlight,      \* activeSubmissions
  link,        \* the connection to the service is ready
  requests, responses,   \* messages under way on a connection
  stored,      \* tokens in the members' AnswerAttestationStores
  references,  \* answer references in the rooms' views
  running,          \* the service runs
  handleTail,       \* submissions received and not responded to
  step,        \* how far the first of them has come
  served,      \* cursor of the service's FixtureCallFeed
  known,       \* the indices of the receipt log
  log          \* the receipt log

callFeed == <<feedLength, openIndex, settleIndex, locksAt>>
client == <<sub, phase, waiters, inFlight>>
wires == <<link, requests, responses>>
service == <<running, handleTail, step, served, known, log>>
attestVars == <<clock, callFeed, copied, client, wires, stored, references, service>>

ClockTimes == 0 .. MaxClock
Unused == [user |-> Nobody, call |-> Nobody, room |-> Nobody]
Submissions == [user : Members, call : Calls, room : Rooms]
Entries == [try : Tries, at : ClockTimes, live : BOOLEAN]
Receipts == [try : Tries, at : ClockTimes, length : Nat]
InFlight == {"waiting", "pending", "reading"}
Phases == InFlight \cup {"unused", "accepted", "referenced", "failed"}

CallFeedType ==
  /\ clock \in ClockTimes
  /\ feedLength \in Nat
  /\ openIndex \in [Calls -> Nat] /\ settleIndex \in [Calls -> Nat]
  /\ locksAt \in [Calls -> ClockTimes]
  /\ copied \in [Members -> Nat]
ClientType ==
  /\ sub \in [Tries -> Submissions \cup {Unused}]
  /\ phase \in [Tries -> Phases]
  /\ waiters \in [Members -> Seq(Tries)]
  /\ stored \subseteq Tries /\ references \subseteq Tries
WireType ==
  /\ link \in [Members -> BOOLEAN]
  /\ requests \in [Members -> Seq(Tries)]
  /\ responses \in [Members -> Seq([try : Tries, ok : BOOLEAN])]
ServiceType ==
  /\ running \in BOOLEAN
  /\ handleTail \in Seq(Entries)
  /\ step \in {"idle", "checked", "bound", "durable"}
  /\ served \in Nat
  /\ known \subseteq Tries
  /\ log \in Seq(Receipts)
PlacesType == inFlight \in [Members -> 0 .. MaxInFlight]

AttestOK == CallFeedType /\ ClientType /\ WireType /\ ServiceType /\ PlacesType

AttestInit ==
  /\ clock = 0
  /\ feedLength = 0 /\ openIndex = [c \in Calls |-> 0] /\ settleIndex = [c \in Calls |-> 0]
  /\ locksAt = [c \in Calls |-> 0]
  /\ copied = [u \in Members |-> 0]
  /\ sub = [t \in Tries |-> Unused]
  /\ phase = [t \in Tries |-> "unused"]
  /\ waiters = [u \in Members |-> <<>>] /\ inFlight = [u \in Members |-> 0]
  /\ link = [u \in Members |-> FALSE]
  /\ requests = [u \in Members |-> <<>>] /\ responses = [u \in Members |-> <<>>]
  /\ stored = {} /\ references = {}
  /\ running = TRUE /\ handleTail = <<>> /\ step = "idle"
  /\ served = 0 /\ known = {} /\ log = <<>>

-----------------------------------------------------------------------------
(* The clock and the pinned fixture feed. *)

OpenBy(n, c) == openIndex[c] \in 1 .. n
SettledBy(n, c) == settleIndex[c] \in 1 .. n

ClockTicks ==
  /\ clock < MaxClock
  /\ clock' = clock + 1
  /\ UNCHANGED <<callFeed, copied, client, wires, stored, references, service>>

PublishCall(c, lock) ==
  /\ openIndex[c] = 0
  /\ feedLength' = feedLength + 1
  /\ openIndex' = [openIndex EXCEPT ![c] = feedLength + 1]
  /\ locksAt' = [locksAt EXCEPT ![c] = lock]
  /\ UNCHANGED <<clock, settleIndex, copied, client, wires, stored, references, service>>

PublishSettlement(c) ==
  /\ openIndex[c] # 0 /\ settleIndex[c] = 0
  /\ feedLength' = feedLength + 1
  /\ settleIndex' = [settleIndex EXCEPT ![c] = feedLength + 1]
  /\ UNCHANGED <<clock, openIndex, locksAt, copied, client, wires, stored, references, service>>

\* Records that say nothing of a call: snapshots, events, odds.
OtherRecords ==
  feedLength - Cardinality({c \in Calls : openIndex[c] # 0})
             - Cardinality({c \in Calls : settleIndex[c] # 0})
PublishOther ==
  /\ OtherRecords < MaxOther
  /\ feedLength' = feedLength + 1
  /\ UNCHANGED <<clock, openIndex, settleIndex, locksAt, copied, client, wires, stored, references, service>>

Replicate(u) ==
  /\ copied[u] < feedLength
  /\ copied' = [copied EXCEPT ![u] = @ + 1]
  /\ UNCHANGED <<clock, callFeed, client, wires, stored, references, service>>

-----------------------------------------------------------------------------
(* A member's submissions. *)

SameAnswer(s, t) == sub[s].user = sub[t].user /\ sub[s].call = sub[t].call
Answered(u, c, r) == \E t \in references : sub[t] = [user |-> u, call |-> c, room |-> r]

\* EndTries(u, T, how): the tries T of u leave AnswerAttestorClient.submit; the
\* finally block gives their places back.
EndTries(u, T, how) ==
  /\ phase' = [t \in Tries |-> IF t \in T THEN how ELSE phase[t]]
  /\ inFlight' = [inFlight EXCEPT ![u] = @ - Cardinality(T)]

MayStart(u) == inFlight[u] < MaxInFlight

\* Which of the unused ids is drawn does not matter.
IsNextTry(t) == phase[t] = "unused" /\ t = CHOOSE s \in Tries : phase[s] = "unused"

\* Checks of submitAnswer against the room and the fixture replica, then
\* submit: sent at once, or waiting for a connection.
Submit(t, u, c, r) ==
  /\ IsNextTry(t)
  /\ OpenBy(copied[u], c) /\ ~SettledBy(copied[u], c)
  /\ ~Answered(u, c, r)
  /\ MayStart(u)
  /\ sub' = [sub EXCEPT ![t] = [user |-> u, call |-> c, room |-> r]]
  /\ inFlight' = [inFlight EXCEPT ![u] = @ + 1]
  /\ IF link[u]
     THEN /\ phase' = [phase EXCEPT ![t] = "pending"]
          /\ requests' = [requests EXCEPT ![u] = Append(@, t)]
          /\ UNCHANGED waiters
     ELSE /\ phase' = [phase EXCEPT ![t] = "waiting"]
          /\ waiters' = [waiters EXCEPT ![u] = Append(@, t)]
          /\ UNCHANGED requests
  /\ UNCHANGED <<clock, callFeed, copied, link, responses, stored, references, service>>

\* A channel to the service opens: everybody who waits for it sends.
Connect(u) ==
  /\ running /\ ~link[u]
  /\ link' = [link EXCEPT ![u] = TRUE]
  /\ requests' = [requests EXCEPT ![u] = waiters[u]]
  /\ phase' = [t \in Tries |-> IF t \in Range(waiters[u]) THEN "pending" ELSE phase[t]]
  /\ waiters' = [waiters EXCEPT ![u] = <<>>]
  /\ UNCHANGED <<clock, callFeed, copied, sub, inFlight, responses, stored, references, service>>

\* The request timer of a try that waits for a connection or an answer.  The
\* service is not told.
RequestTimeout(t) ==
  /\ phase[t] \in {"waiting", "pending"}
  /\ LET u == sub[t].user IN
     /\ EndTries(u, {t}, "failed")
     /\ \/ t \notin Range(waiters[u]) /\ UNCHANGED waiters
        \/ \E i \in DOMAIN waiters[u] :
             /\ waiters[u][i] = t
             /\ waiters' = [waiters EXCEPT ![u] = RemoveAt(@, i)]
  /\ UNCHANGED <<clock, callFeed, copied, sub, wires, stored, references, service>>

\* _onResponse: the answer to a try that is not pending is ignored.
Respond(u) ==
  /\ responses[u] # <<>>
  /\ LET answer == Head(responses[u]) IN
     CASE phase[answer.try] # "pending" -> UNCHANGED <<phase, inFlight>>
       [] phase[answer.try] = "pending" /\ answer.ok ->
            /\ phase' = [phase EXCEPT ![answer.try] = "reading"]
            /\ UNCHANGED inFlight
       [] OTHER -> EndTries(u, {answer.try}, "failed")
  /\ responses' = [responses EXCEPT ![u] = Tail(@)]
  /\ UNCHANGED <<clock, callFeed, copied, sub, waiters, link, requests, stored, references, service>>

\* The receipt block is read from the log's replica and the token persisted
\* before submit resolves.
Persist(t) == stored \cup {t}
ReadReceipt(t) ==
  /\ phase[t] = "reading"
  /\ \E i \in DOMAIN log : log[i].try = t
  /\ stored' = Persist(t)
  /\ EndTries(sub[t].user, {t}, "accepted")
  /\ UNCHANGED <<clock, callFeed, copied, sub, waiters, wires, references, service>>

\* The block did not replicate in time, or could not be stored.
ReadFails(t) ==
  /\ phase[t] = "reading"
  /\ EndTries(sub[t].user, {t}, "failed")
  /\ UNCHANGED <<clock, callFeed, copied, sub, waiters, wires, stored, references, service>>

\* verifyReference against the member's own fixture head, then room.append.
\* The reducer keeps one reference of a member to a call.
HeadCovers(u, length) == copied[u] >= length
FirstReference(t) == ~Answered(sub[t].user, sub[t].call, sub[t].room)
AppendReference(t) ==
  /\ phase[t] = "accepted"
  /\ \E i \in DOMAIN log :
       /\ log[i].try = t
       /\ IF HeadCovers(sub[t].user, log[i].length) /\ FirstReference(t)
          THEN /\ references' = references \cup {t}
               /\ phase' = [phase EXCEPT ![t] = "referenced"]
          ELSE /\ phase' = [phase EXCEPT ![t] = "failed"]
               /\ UNCHANGED references
  /\ UNCHANGED <<clock, callFeed, copied, sub, waiters, inFlight, wires, stored, service>>

\* removeConnection: pending tries fail; the messages under way are lost, and
\* what the service still answers on this channel is dropped.
FaultKeepPending(u) == {}
PendingOf(u) == {t \in Tries : phase[t] = "pending" /\ sub[t].user = u}
Disconnected(users) ==
  /\ link' = [u \in Members |-> link[u] /\ u \notin users]
  /\ requests' = [u \in Members |-> IF u \in users THEN <<>> ELSE requests[u]]
  /\ responses' = [u \in Members |-> IF u \in users THEN <<>> ELSE responses[u]]

Hangup(u) == [i \in DOMAIN handleTail |->
                [handleTail[i] EXCEPT !.live = @ /\ sub[handleTail[i].try].user # u]]

Disconnect(u) ==
  /\ link[u]
  /\ Disconnected({u})
  /\ EndTries(u, PendingOf(u), "failed")
  /\ handleTail' = Hangup(u)
  /\ UNCHANGED <<clock, callFeed, copied, sub, waiters, stored, references, running, step, served, known, log>>

\* The member's worker stops and starts again: nothing resumes its tries.
UnfinishedOf(u) ==
  {t \in Tries : phase[t] \in InFlight \cup {"accepted"} /\ sub[t].user = u}
RestartClient(u) ==
  /\ UnfinishedOf(u) # {}
  /\ Disconnected({u})
  /\ phase' = [t \in Tries |-> IF t \in UnfinishedOf(u) THEN "failed" ELSE phase[t]]
  /\ inFlight' = [inFlight EXCEPT ![u] = 0]
  /\ waiters' = [waiters EXCEPT ![u] = <<>>]
  /\ handleTail' = Hangup(u)
  /\ UNCHANGED <<clock, callFeed, copied, sub, stored, references, running, step, served, known, log>>

-----------------------------------------------------------------------------
(* The service. *)

Busy(u) ==
  Cardinality({i \in DOMAIN handleTail : handleTail[i].live /\ sub[handleTail[i].try].user = u}) >= ServiceLimit

\* onmessage: the time of receipt is taken before the submission queues.
ServiceReceive(u) ==
  /\ running /\ requests[u] # <<>>
  /\ LET t == Head(requests[u]) IN
     IF Busy(u)
     THEN /\ responses' = [responses EXCEPT ![u] = Append(@, [try |-> t, ok |-> FALSE])]
          /\ UNCHANGED handleTail
     ELSE /\ handleTail' = Append(handleTail, [try |-> t, at |-> clock, live |-> TRUE])
          /\ UNCHANGED responses
  /\ requests' = [requests EXCEPT ![u] = Tail(@)]
  /\ UNCHANGED <<clock, callFeed, copied, client, link, stored, references, running, step, served, known, log>>

\* The first submission is done with; the next one's turn comes.
Finish(ok) ==
  LET e == Head(handleTail) IN
  /\ handleTail' = Tail(handleTail)
  /\ step' = "idle"
  /\ responses' = IF e.live
                  THEN [responses EXCEPT ![sub[e.try].user] = Append(@, [try |-> e.try, ok |-> ok])]
                  ELSE responses

\* assertFresh: a new request and answer, of a member with none for the call.
Fresh(t) == t \notin known /\ \A k \in known : ~SameAnswer(k, t)
Check ==
  /\ handleTail # <<>> /\ step = "idle"
  /\ IF Fresh(Head(handleTail).try)
     THEN step' = "checked" /\ UNCHANGED <<handleTail, responses>>
     ELSE Finish(FALSE)
  /\ UNCHANGED <<clock, callFeed, copied, client, link, requests, stored, references, running, served, known, log>>

\* Refreshes the view of the fixture feed as far as it replicates, requires an
\* open call, a receipt before its lock, and takes the head.
FaultReceivedLate(e) == e.at <= locksAt[sub[e.try].call] + 1
ReceivedInTime(e) == e.at <= locksAt[sub[e.try].call]
OpenCall(n, c) == OpenBy(n, c) /\ ~SettledBy(n, c)
Bind ==
  /\ step = "checked"
  /\ \E n \in served .. feedLength :
       /\ served' = n
       /\ IF OpenCall(n, sub[Head(handleTail).try].call) /\ ReceivedInTime(Head(handleTail))
          THEN step' = "bound" /\ UNCHANGED <<handleTail, responses>>
          ELSE Finish(FALSE)
  /\ UNCHANGED <<clock, callFeed, copied, client, link, requests, stored, references, running, known, log>>

\* A block of the fixture feed does not come within its time; the blocks read
\* before it count.
FeedUnavailable ==
  /\ step = "checked" /\ served < feedLength
  /\ served' \in served .. feedLength - 1
  /\ Finish(FALSE)
  /\ UNCHANGED <<clock, callFeed, copied, client, link, requests, stored, references, running, known, log>>

\* The receipt is durable; the indices and the member learn of it next.
AppendReceipt ==
  /\ step = "bound"
  /\ log' = Append(log, [try |-> Head(handleTail).try, at |-> Head(handleTail).at, length |-> served])
  /\ step' = "durable"
  /\ UNCHANGED <<clock, callFeed, copied, client, wires, stored, references, running, handleTail, served, known>>

Remember ==
  /\ step = "durable"
  /\ known' = known \cup {Head(handleTail).try}
  /\ Finish(TRUE)
  /\ UNCHANGED <<clock, callFeed, copied, client, link, requests, stored, references, running, served, log>>

\* The process ends at any point; the log and the feed's blocks are on disk.
ServiceStop ==
  /\ running /\ running' = FALSE
  /\ handleTail' = <<>> /\ step' = "idle" /\ known' = {}
  /\ Disconnected(Members)
  /\ LET pending == {t \in Tries : phase[t] = "pending"} IN
     /\ phase' = [t \in Tries |-> IF t \in pending THEN "failed" ELSE phase[t]]
     /\ inFlight' = [u \in Members |-> inFlight[u] - Cardinality(PendingOf(u))]
  /\ UNCHANGED <<clock, callFeed, copied, sub, waiters, stored, references, served, log>>

\* ReceiptLog.open reads every receipt and refuses a log with two for one
\* answer.
Reloaded == {log[i].try : i \in DOMAIN log}
OneReceiptEach ==
  \A i, j \in DOMAIN log :
    log[i].try = log[j].try \/ SameAnswer(log[i].try, log[j].try) => i = j
ServiceStart ==
  /\ ~running /\ OneReceiptEach
  /\ running' = TRUE /\ known' = Reloaded
  /\ UNCHANGED <<clock, callFeed, copied, client, wires, stored, references, handleTail, step, served, log>>

-----------------------------------------------------------------------------
ServiceNext ==
  \/ \E u \in Members : ServiceReceive(u)
  \/ Check \/ Bind \/ FeedUnavailable \/ AppendReceipt \/ Remember
  \/ ServiceStop \/ ServiceStart

ClientNext ==
  \/ \E t \in Tries, u \in Members, c \in Calls, r \in Rooms : Submit(t, u, c, r)
  \/ \E t \in Tries : RequestTimeout(t) \/ ReadReceipt(t) \/ ReadFails(t) \/ AppendReference(t)
  \/ \E u \in Members : Connect(u) \/ Respond(u) \/ Disconnect(u) \/ RestartClient(u)

CallFeedNext ==
  \/ ClockTicks \/ PublishOther
  \/ \E c \in Calls : PublishSettlement(c) \/ \E lock \in ClockTimes : PublishCall(c, lock)
  \/ \E u \in Members : Replicate(u)

AttestNext == ServiceNext \/ ClientNext \/ CallFeedNext

AttestSpec == AttestInit /\ [][AttestNext]_attestVars

-----------------------------------------------------------------------------
(* What must hold. *)

\* What a try came to is accounted for, whatever was lost, late or stopped
\* meanwhile.  A token that submit returned is on the receipt log and in the
\* member's own store, so the room's members can read the receipt and the member
\* keeps it through a restart; and the count of submissions in flight, which
\* caps new ones, is the number of tries in flight, so that no place leaks.
TriesAreAccounted ==
  /\ \A t \in Tries : phase[t] \in {"accepted", "referenced"} =>
       t \in stored /\ \E i \in DOMAIN log : log[i].try = t
  /\ \A u \in Members :
       inFlight[u] = Cardinality({t \in Tries : phase[t] \in InFlight /\ sub[t].user = u})

\* Every receipt is bound to a prefix of the fixture feed in which its call is
\* open and not settled: whoever has that prefix can verify it, and nobody was
\* given a receipt for a call whose outcome the service had read.  A reference
\* in a room has a receipt that the member's own fixture replica verified, and a
\* member has one reference to a call in a room.
ReceiptsVerify ==
  /\ \A i \in DOMAIN log :
       LET c == sub[log[i].try].call IN
       OpenBy(log[i].length, c) /\ ~SettledBy(log[i].length, c) /\ log[i].length <= feedLength
  /\ \A t \in references :
       /\ \E i \in DOMAIN log : log[i].try = t /\ log[i].length <= copied[sub[t].user]
       /\ \A s \in references : sub[s] = sub[t] => s = t

\* An answer that was accepted counts, for everybody and for good.
AcceptedAnswersCount == TriesAreAccounted /\ ReceiptsVerify

AnswerOf(t) == [token |-> t, user |-> sub[t].user, call |-> sub[t].call]

\* The submissions received in time that the service is not done with.
OfferedTries ==
  {handleTail[i].try : i \in {j \in DOMAIN handleTail : handleTail[j].at <= locksAt[sub[handleTail[j].try].call]}}

Ledger == INSTANCE AnswerLedger WITH
  Users <- Members,
  Tokens <- Tries,
  offered <- {AnswerOf(t) : t \in OfferedTries},
  accepted <- {AnswerOf(t) : t \in Reloaded},
  locked <- {c \in Calls : openIndex[c] # 0 /\ locksAt[c] < clock}

\* The service keeps the ledger's promise through concurrency, retries, lost
\* answers and restarts: receipts only for submissions received before the
\* lock, one per member and call, none ever withdrawn.
LedgerSpec == Ledger!LedgerSpec
=============================================================================
