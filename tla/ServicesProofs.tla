---------------------------- MODULE ServicesProofs ----------------------------
(***************************************************************************)
(* Theorems about the services that sign logs: the answer attestor, for    *)
(* every set of members, calls and rooms, every finite number of tries and *)
(* every bound (AnswerAttestation), how the fixture worker reads the       *)
(* streams of TxLINE (FeedStreams), what receipts prove (ReceiptProofs),   *)
(* and, with FixturePublisherProofs, the whole of MCServices.              *)
(***************************************************************************)
EXTENDS MCServices, FixturePublisherProofs, FiniteSetTheorems, TLAPS

-----------------------------------------------------------------------------
(* The answer attestor. *)

\* What a try submits is fixed when it starts, about a call that is published.
TriesAreFixed ==
  /\ \A t \in Tries : phase[t] = "unused" <=> sub[t] = Unused
  /\ \A t \in Tries : sub[t] # Unused => openIndex[sub[t].call] # 0
  /\ \A t \in references : phase[t] = "referenced"

\* A member's queues hold tries of its own, and nobody waits twice.
QueuesAreOwn ==
  /\ \A u \in Members : \A i \in DOMAIN requests[u] : sub[requests[u][i]].user = u
  /\ \A u \in Members : \A i \in DOMAIN responses[u] : sub[responses[u][i].try].user = u
  /\ \A u \in Members : \A i \in DOMAIN waiters[u] :
       sub[waiters[u][i]].user = u /\ phase[waiters[u][i]] = "waiting"
  /\ \A u \in Members : \A i, j \in DOMAIN waiters[u] : waiters[u][i] = waiters[u][j] => i = j

\* The service knows the receipts of its log, but for one it is about to
\* remember; a submission that passed a check has still passed it.
TurnIsSound ==
  /\ \A i \in DOMAIN handleTail : sub[handleTail[i].try] # Unused
  /\ served <= feedLength
  /\ step # "idle" => handleTail # <<>>
  /\ ~running => handleTail = <<>> /\ known = {}
  /\ running /\ step # "durable" => known = Reloaded
  /\ step = "durable" => Reloaded = known \cup {Head(handleTail).try}
  /\ step \in {"checked", "bound"} => Fresh(Head(handleTail).try)
  /\ step = "bound" =>
       ReceivedInTime(Head(handleTail)) /\ OpenCall(served, sub[Head(handleTail).try].call)

\* The parts of AcceptedAnswersCount.
TokensAreKept ==
  \A t \in Tries : phase[t] \in {"accepted", "referenced"} =>
    t \in stored /\ \E i \in DOMAIN log : log[i].try = t

InFlightOf(u) == {t \in Tries : phase[t] \in InFlight /\ sub[t].user = u}
PlacesAddUp == \A u \in Members : inFlight[u] = Cardinality(InFlightOf(u))

ReceiptsBind ==
  \A i \in DOMAIN log :
    /\ sub[log[i].try] # Unused
    /\ OpenCall(log[i].length, sub[log[i].try].call)
    /\ log[i].length <= feedLength

ReferencesVerify ==
  \A t \in references :
    /\ \E i \in DOMAIN log : log[i].try = t /\ log[i].length <= copied[sub[t].user]
    /\ \A s \in references : sub[s] = sub[t] => s = t

\* The inductive invariant.
AInv ==
  /\ AttestOK
  /\ TriesAreFixed
  /\ QueuesAreOwn
  /\ TurnIsSound
  /\ OneReceiptEach
  /\ TokensAreKept
  /\ PlacesAddUp
  /\ ReceiptsBind
  /\ ReferencesVerify

-----------------------------------------------------------------------------
LEMMA AttestConstants ==
  /\ Nobody \notin Members /\ IsFiniteSet(Tries)
  /\ MaxClock \in Nat /\ MaxOther \in Nat /\ MaxInFlight \in Nat /\ ServiceLimit \in Nat
BY NobodyAssumption, TriesAssumption, LimitAssumption

\* A queue's elements after it is extended, after its first is taken and after
\* one of them is dropped.
LEMMA Extended ==
  ASSUME NEW S, NEW q \in Seq(S), NEW e \in S
  PROVE  /\ Append(q, e) \in Seq(S)
         /\ DOMAIN q \subseteq DOMAIN Append(q, e) /\ Len(q) + 1 \in DOMAIN Append(q, e)
         /\ Append(q, e)[Len(q) + 1] = e
         /\ \A i \in DOMAIN q : Append(q, e)[i] = q[i]
         /\ \A i \in DOMAIN Append(q, e) : i \in DOMAIN q \/ i = Len(q) + 1
         /\ Append(q, e) # <<>> /\ (q # <<>> => Head(Append(q, e)) = Head(q))
BY AppendProperties

LEMMA Taken ==
  ASSUME NEW S, NEW q \in Seq(S), q # <<>>
  PROVE  /\ Head(q) \in S /\ Tail(q) \in Seq(S)
         /\ 1 \in DOMAIN q /\ Head(q) = q[1]
         /\ \A i \in DOMAIN Tail(q) : i + 1 \in DOMAIN q /\ Tail(q)[i] = q[i + 1]
BY HeadTailProperties

LEMMA Dropped ==
  ASSUME NEW S, NEW q \in Seq(S), NEW k \in DOMAIN q
  PROVE  /\ RemoveAt(q, k) \in Seq(S)
         /\ Len(RemoveAt(q, k)) = Len(q) - 1
         /\ \A i \in DOMAIN RemoveAt(q, k) :
              RemoveAt(q, k)[i] = IF i < k THEN q[i] ELSE q[i + 1]
<1> DEFINE a == SubSeq(q, 1, k - 1)
           b == SubSeq(q, k + 1, Len(q))
<1>1. k \in 1 .. Len(q) /\ Len(q) \in Nat
  OBVIOUS
<1>2. /\ a \in Seq(S) /\ Len(a) = k - 1
      /\ \A i \in 1 .. k - 1 : a[i] = q[i]
  BY <1>1
<1>3. /\ b \in Seq(S) /\ Len(b) = Len(q) - k
      /\ \A i \in 1 .. Len(q) - k : b[i] = q[k + i]
  BY <1>1
<1> HIDE DEF a, b
<1>4. /\ a \o b \in Seq(S) /\ Len(a \o b) = Len(q) - 1
      /\ \A i \in 1 .. Len(q) - 1 : (a \o b)[i] = IF i <= k - 1 THEN a[i] ELSE b[i - (k - 1)]
  <2>1. /\ a \o b \in Seq(S) /\ Len(a \o b) = Len(a) + Len(b)
        /\ \A i \in 1 .. Len(a) + Len(b) : (a \o b)[i] = IF i <= Len(a) THEN a[i] ELSE b[i - Len(a)]
    BY <1>2, <1>3, ConcatProperties
  <2>2. Len(a) + Len(b) = Len(q) - 1
    BY <1>1, <1>2, <1>3
  <2>3. QED
    BY <1>2, <2>1, <2>2
<1>5. RemoveAt(q, k) = a \o b
  BY DEF RemoveAt, a, b
<1>6. ASSUME NEW i \in DOMAIN RemoveAt(q, k)
      PROVE  RemoveAt(q, k)[i] = IF i < k THEN q[i] ELSE q[i + 1]
  <2>1. i \in 1 .. Len(q) - 1
    BY <1>4, <1>5
  <2>2. CASE i < k
    <3>1. i \in 1 .. k - 1 /\ i <= k - 1
      BY <1>1, <2>1, <2>2
    <3>2. QED
      BY <1>2, <1>4, <1>5, <2>1, <2>2, <3>1
  <2>3. CASE ~(i < k)
    <3>1. i - (k - 1) \in 1 .. Len(q) - k /\ k + (i - (k - 1)) = i + 1
      BY <1>1, <2>1, <2>3
    <3>2. ~(i <= k - 1)
      BY <1>1, <2>1, <2>3
    <3>3. (a \o b)[i] = b[i - (k - 1)]
      BY <1>4, <2>1, <3>2
    <3>4. QED
      BY <1>3, <1>5, <3>1, <3>3, <2>3
  <2>4. QED
    BY <2>2, <2>3
<1>7. QED
  BY <1>4, <1>5, <1>6

LEMMA InitAInv == AttestInit => AInv
<1>1. SUFFICES ASSUME AttestInit PROVE AInv
  OBVIOUS
<1> USE <1>1, AttestConstants
<1>2. AttestOK
  <2>1. CallFeedType
    BY DEF AttestInit, CallFeedType, ClockTimes
  <2>2. ClientType
    BY DEF AttestInit, ClientType, Phases
  <2>3. WireType
    BY DEF AttestInit, WireType
  <2>4. ServiceType
    BY DEF AttestInit, ServiceType
  <2>5. PlacesType
    BY DEF AttestInit, PlacesType
  <2>6. QED
    BY <2>1, <2>2, <2>3, <2>4, <2>5 DEF AttestOK
<1>3. TriesAreFixed /\ QueuesAreOwn
  BY DEF AttestInit, TriesAreFixed, QueuesAreOwn
<1>4. TurnIsSound
  BY DEF AttestInit, TurnIsSound, Reloaded
<1>5. OneReceiptEach /\ TokensAreKept /\ ReceiptsBind /\ ReferencesVerify
  BY DEF AttestInit, OneReceiptEach, TokensAreKept, ReceiptsBind, ReferencesVerify
<1>6. PlacesAddUp
  <2>1. \A u \in Members : InFlightOf(u) = {}
    BY DEF AttestInit, InFlightOf, InFlight
  <2>2. QED
    BY <2>1, FS_EmptySet DEF AttestInit, PlacesAddUp
<1>7. QED
  BY <1>2, <1>3, <1>4, <1>5, <1>6 DEF AInv

\* What the service's queue and its log hold.
LEMMA Elements ==
  ASSUME ServiceType
  PROVE  /\ \A i \in DOMAIN log : log[i].try \in Tries /\ log[i].length \in Nat
         /\ \A i \in DOMAIN handleTail : handleTail[i].try \in Tries /\ handleTail[i].at \in ClockTimes
         /\ handleTail # <<>> =>
              /\ Head(handleTail) \in Entries /\ Tail(handleTail) \in Seq(Entries)
              /\ 1 \in DOMAIN handleTail /\ Head(handleTail) = handleTail[1]
<1>1. log \in Seq(Receipts) /\ handleTail \in Seq(Entries)
  BY DEF ServiceType
<1>2. \A i \in DOMAIN log : log[i] \in Receipts
  BY <1>1
<1>3. \A i \in DOMAIN handleTail : handleTail[i] \in Entries
  BY <1>1
<1>4. handleTail # <<>> =>
              /\ Head(handleTail) \in Entries /\ Tail(handleTail) \in Seq(Entries)
              /\ 1 \in DOMAIN handleTail /\ Head(handleTail) = handleTail[1]
  BY <1>1, Taken
<1>5. QED
  BY <1>2, <1>3, <1>4 DEF Receipts, Entries

-----------------------------------------------------------------------------
\* What an action leaves alone keeps what is said about it.
LEMMA AttestFrames ==
  /\ CallFeedType /\ UNCHANGED <<clock, callFeed, copied>> => CallFeedType'
  /\ ClientType /\ UNCHANGED <<sub, phase, waiters, stored, references>> => ClientType'
  /\ WireType /\ UNCHANGED wires => WireType'
  /\ ServiceType /\ UNCHANGED service => ServiceType'
  /\ PlacesType /\ UNCHANGED inFlight => PlacesType'
  /\ TriesAreFixed /\ UNCHANGED <<sub, phase, openIndex, references>> => TriesAreFixed'
  /\ QueuesAreOwn /\ UNCHANGED <<sub, phase, waiters, requests, responses>> => QueuesAreOwn'
  /\ TurnIsSound /\ UNCHANGED <<service, callFeed, sub>> => TurnIsSound'
  /\ OneReceiptEach /\ UNCHANGED <<log, sub>> => OneReceiptEach'
  /\ TokensAreKept /\ UNCHANGED <<phase, stored, log>> => TokensAreKept'
  /\ PlacesAddUp /\ UNCHANGED <<phase, sub, inFlight>> => PlacesAddUp'
  /\ ReceiptsBind /\ UNCHANGED <<log, sub, callFeed>> => ReceiptsBind'
  /\ ReferencesVerify /\ UNCHANGED <<references, log, copied, sub>> => ReferencesVerify'
<1>1. CallFeedType /\ UNCHANGED <<clock, callFeed, copied>> => CallFeedType'
  BY DEF CallFeedType, callFeed
<1>2. ClientType /\ UNCHANGED <<sub, phase, waiters, stored, references>> => ClientType'
  BY DEF ClientType
<1>3. WireType /\ UNCHANGED wires => WireType'
  BY DEF WireType, wires
<1>4. ServiceType /\ UNCHANGED service => ServiceType'
  BY DEF ServiceType, service
<1>5. PlacesType /\ UNCHANGED inFlight => PlacesType'
  BY DEF PlacesType
<1>6. TriesAreFixed /\ UNCHANGED <<sub, phase, openIndex, references>> => TriesAreFixed'
  BY DEF TriesAreFixed
<1>7. QueuesAreOwn /\ UNCHANGED <<sub, phase, waiters, requests, responses>> => QueuesAreOwn'
  BY DEF QueuesAreOwn
<1>8. TurnIsSound /\ UNCHANGED <<service, callFeed, sub>> => TurnIsSound'
  BY DEF TurnIsSound, service, callFeed, Reloaded, Fresh, SameAnswer, ReceivedInTime,
         OpenCall, OpenBy, SettledBy
<1>9. OneReceiptEach /\ UNCHANGED <<log, sub>> => OneReceiptEach'
  BY DEF OneReceiptEach, SameAnswer
<1>10. TokensAreKept /\ UNCHANGED <<phase, stored, log>> => TokensAreKept'
  BY DEF TokensAreKept
<1>11. PlacesAddUp /\ UNCHANGED <<phase, sub, inFlight>> => PlacesAddUp'
  BY DEF PlacesAddUp, InFlightOf
<1>12. ReceiptsBind /\ UNCHANGED <<log, sub, callFeed>> => ReceiptsBind'
  BY DEF ReceiptsBind, callFeed, OpenCall, OpenBy, SettledBy
<1>13. ReferencesVerify /\ UNCHANGED <<references, log, copied, sub>> => ReferencesVerify'
  BY DEF ReferencesVerify
<1>14. QED
  BY <1>1, <1>2, <1>3, <1>4, <1>5, <1>6, <1>7, <1>8, <1>9, <1>10, <1>11, <1>12, <1>13

-----------------------------------------------------------------------------
(* The fixture feed. *)

\* A record of the feed settles no call behind the service's back: what was
\* open in a prefix of the feed stays open in it.
LEMMA FeedGrows ==
  ASSUME AInv, feedLength' \in Nat, feedLength <= feedLength',
         UNCHANGED <<client, wires, stored, references, service>>,
         CallFeedType',
         \A c \in Calls : openIndex[c] # 0 => openIndex'[c] = openIndex[c] /\ locksAt'[c] = locksAt[c],
         \A c \in Calls : settleIndex'[c] = settleIndex[c] \/ settleIndex'[c] > feedLength,
         \A u \in Members : copied[u] <= copied'[u]
  PROVE  AInv'
<1> USE DEF client, wires, service
<1> DEFINE Call(t) == sub[t].call
<1>1. \A t \in Tries : sub[t] # Unused => sub[t] \in Submissions /\ Call(t) \in Calls /\ openIndex[Call(t)] # 0
  BY DEF AInv, AttestOK, ClientType, Submissions, TriesAreFixed
<1>2. \A t \in Tries : sub[t] # Unused =>
        openIndex'[Call(t)] = openIndex[Call(t)] /\ locksAt'[Call(t)] = locksAt[Call(t)]
  BY <1>1
<1>3. \A n \in Nat, c \in Calls : n <= feedLength /\ OpenCall(n, c) => OpenCall(n, c)'
  <2> SUFFICES ASSUME NEW n \in Nat, NEW c \in Calls, n <= feedLength, OpenCall(n, c)
               PROVE  OpenCall(n, c)'
    OBVIOUS
  <2>1. openIndex[c] \in 1 .. n /\ openIndex'[c] = openIndex[c]
    BY DEF OpenCall, OpenBy
  <2>2. settleIndex'[c] \notin 1 .. n
    BY DEF OpenCall, SettledBy, AInv, AttestOK, CallFeedType
  <2>3. QED
    BY <2>1, <2>2 DEF OpenCall, OpenBy, SettledBy
<1>4. AttestOK'
  BY AttestFrames DEF AInv, AttestOK
<1>5. TriesAreFixed'
  BY <1>1, <1>2 DEF AInv, TriesAreFixed
<1>6. QueuesAreOwn' /\ OneReceiptEach' /\ TokensAreKept' /\ PlacesAddUp'
  BY AttestFrames DEF AInv
<1>7. TurnIsSound'
  <2>1. served <= feedLength'
    BY DEF AInv, AttestOK, CallFeedType, ServiceType, TurnIsSound
  <2>2. handleTail # <<>> => /\ Head(handleTail).try \in Tries /\ Head(handleTail).at \in ClockTimes
                             /\ sub[Head(handleTail).try] # Unused
    BY Elements DEF AInv, AttestOK, TurnIsSound
  <2>3. ReceivedInTime(Head(handleTail)) /\ handleTail # <<>> => ReceivedInTime(Head(handleTail))'
    BY <1>2, <2>2 DEF ReceivedInTime
  <2>4. step = "bound" => OpenCall(served, Call(Head(handleTail).try))'
    <3>1. SUFFICES ASSUME step = "bound" PROVE OpenCall(served, Call(Head(handleTail).try))'
      OBVIOUS
    <3>2. handleTail # <<>> /\ OpenCall(served, Call(Head(handleTail).try)) /\ served <= feedLength
      BY <3>1 DEF AInv, TurnIsSound
    <3>3. Call(Head(handleTail).try) \in Calls
      BY <1>1, <2>2, <3>2
    <3>4. served \in Nat /\ served' = served /\ Call(Head(handleTail).try)' = Call(Head(handleTail).try)
      BY DEF AInv, AttestOK, ServiceType
    <3>5. QED
      BY <1>3, <3>2, <3>3, <3>4 DEF OpenCall, OpenBy, SettledBy
  <2>5. QED
    BY <2>1, <2>3, <2>4 DEF AInv, TurnIsSound, Reloaded, Fresh, SameAnswer
<1>8. ReceiptsBind'
  <2>1. SUFFICES ASSUME NEW i \in DOMAIN log
                 PROVE  OpenCall(log[i].length, Call(log[i].try))' /\ log[i].length <= feedLength'
    BY DEF AInv, ReceiptsBind
  <2>2. log[i].length \in Nat /\ log[i].try \in Tries
    BY Elements DEF AInv, AttestOK
  <2>3. sub[log[i].try] # Unused /\ OpenCall(log[i].length, Call(log[i].try)) /\ log[i].length <= feedLength
    BY DEF AInv, ReceiptsBind
  <2>4. Call(log[i].try) \in Calls
    BY <1>1, <2>2, <2>3
  <2>5. OpenCall(log[i].length, Call(log[i].try))'
    BY <1>3, <2>2, <2>3, <2>4 DEF OpenCall, OpenBy, SettledBy
  <2>6. QED
    BY <2>2, <2>3, <2>5 DEF AInv, AttestOK, CallFeedType
<1>9. ReferencesVerify'
  <2>1. \A t \in references : sub[t].user \in Members
    BY DEF AInv, AttestOK, ClientType, TriesAreFixed, Submissions
  <2>2. \A t \in references : copied[sub[t].user] <= copied'[sub[t].user]
    BY <2>1
  <2>3. SUFFICES ASSUME NEW t \in references
                 PROVE  \E i \in DOMAIN log : log[i].try = t /\ log[i].length <= copied'[sub[t].user]
    BY DEF AInv, ReferencesVerify
  <2>4. PICK i \in DOMAIN log : log[i].try = t /\ log[i].length <= copied[sub[t].user]
    BY DEF AInv, ReferencesVerify
  <2>5. log[i].length \in Nat /\ copied[sub[t].user] \in Nat /\ copied'[sub[t].user] \in Nat
    BY <2>1, Elements DEF AInv, AttestOK, CallFeedType
  <2>6. QED
    BY <2>1, <2>2, <2>4, <2>5
<1>10. QED
  BY <1>4, <1>5, <1>6, <1>7, <1>8, <1>9 DEF AInv

LEMMA CallFeedNextAInv == AInv /\ CallFeedNext => AInv'
<1>1. SUFFICES ASSUME AInv, CallFeedNext PROVE AInv'
  OBVIOUS
<1> USE DEF callFeed
<1>2. CallFeedType /\ feedLength <= feedLength
  BY <1>1 DEF AInv, AttestOK, CallFeedType
<1>2a. /\ \A u \in Members : copied[u] <= copied[u]
       /\ \A c \in Calls : openIndex[c] \in Nat /\ settleIndex[c] \in Nat
  BY <1>2 DEF CallFeedType
<1>3. CASE ClockTicks
  <2>1. clock' \in ClockTimes
    BY <1>2, <1>3, AttestConstants DEF ClockTicks, CallFeedType, ClockTimes
  <2>2. CallFeedType'
    BY <1>2, <1>3, <2>1 DEF ClockTicks, CallFeedType, ClockTimes
  <2>3. QED
    BY <1>1, <1>2, <1>2a, <1>3, <2>2, FeedGrows DEF ClockTicks, CallFeedType
<1>4. CASE PublishOther
  <2>1. CallFeedType' /\ feedLength <= feedLength'
    BY <1>2, <1>4 DEF PublishOther, CallFeedType, ClockTimes
  <2>2. QED
    BY <1>1, <1>2, <1>2a, <1>4, <2>1, FeedGrows DEF PublishOther, CallFeedType
<1>5. ASSUME NEW c \in Calls, PublishSettlement(c) PROVE AInv'
  <2>1. CallFeedType' /\ feedLength <= feedLength'
    BY <1>2, <1>5 DEF PublishSettlement, CallFeedType, ClockTimes
  <2>2. \A d \in Calls : settleIndex'[d] = settleIndex[d] \/ settleIndex'[d] > feedLength
    BY <1>2, <1>5 DEF PublishSettlement, CallFeedType
  <2>3. QED
    BY <1>1, <1>2a, <1>5, <2>1, <2>2, FeedGrows DEF PublishSettlement, CallFeedType
<1>6. ASSUME NEW c \in Calls, NEW lock \in ClockTimes, PublishCall(c, lock) PROVE AInv'
  <2>1. CallFeedType' /\ feedLength <= feedLength'
    BY <1>2, <1>6 DEF PublishCall, CallFeedType, ClockTimes
  <2>2. \A d \in Calls : openIndex[d] # 0 => openIndex'[d] = openIndex[d] /\ locksAt'[d] = locksAt[d]
    BY <1>2, <1>6 DEF PublishCall, CallFeedType
  <2>3. QED
    BY <1>1, <1>2a, <1>6, <2>1, <2>2, FeedGrows DEF PublishCall, CallFeedType
<1>7. ASSUME NEW u \in Members, Replicate(u) PROVE AInv'
  <2>1. CallFeedType' /\ \A v \in Members : copied[v] <= copied'[v]
    BY <1>2, <1>7 DEF Replicate, CallFeedType, ClockTimes
  <2>2. QED
    BY <1>1, <1>2, <1>2a, <1>7, <2>1, FeedGrows DEF Replicate, CallFeedType
<1>8. QED
  BY <1>1, <1>3, <1>4, <1>5, <1>6, <1>7 DEF CallFeedNext

-----------------------------------------------------------------------------
(* The members. *)

\* The tries that the service and the rooms know of have started.
LEMMA KnownTries ==
  ASSUME AInv
  PROVE  /\ \A t \in known : sub[t] # Unused
         /\ \A t \in Reloaded : sub[t] # Unused /\ t \in Tries
         /\ \A t \in references : sub[t] \in Submissions
         /\ handleTail # <<>> => sub[Head(handleTail).try] # Unused
         /\ \A t \in Tries : sub[t] = Unused => sub[t].user \notin Members
<1>1. \A t \in Reloaded : sub[t] # Unused /\ t \in Tries
  BY Elements DEF AInv, AttestOK, ReceiptsBind, Reloaded
<1>2. \A t \in known : sub[t] # Unused
  BY <1>1 DEF AInv, TurnIsSound
<1>3. \A t \in references : sub[t] \in Submissions
  BY DEF AInv, AttestOK, ClientType, TriesAreFixed
<1>4. handleTail # <<>> => sub[Head(handleTail).try] # Unused
  BY Elements DEF AInv, AttestOK, TurnIsSound
<1>5. QED
  BY <1>1, <1>2, <1>3, <1>4, AttestConstants DEF Unused

\* A try that starts is none of those.
LEMMA TriesStart ==
  ASSUME AInv, NEW t \in Tries, sub[t] = Unused, NEW a \in Submissions,
         sub' = [sub EXCEPT ![t] = a],
         UNCHANGED <<callFeed, copied, references, service>>
  PROVE  TurnIsSound' /\ OneReceiptEach' /\ ReceiptsBind' /\ ReferencesVerify'
<1>1. \A s \in Tries : sub[s] # Unused => sub'[s] = sub[s]
  BY DEF AInv, AttestOK, ClientType
<1>2. TurnIsSound'
  <2>1. \A i \in DOMAIN handleTail : sub'[handleTail[i].try] # Unused
    BY <1>1, Elements DEF AInv, AttestOK, TurnIsSound
  <2>2. known \subseteq Tries
    BY DEF AInv, AttestOK, ServiceType
  <2>3. handleTail # <<>> => Head(handleTail).try \in Tries
    BY Elements DEF AInv, AttestOK
  <2>4. step \in {"checked", "bound"} => Fresh(Head(handleTail).try)'
    BY <1>1, <2>2, <2>3, KnownTries DEF AInv, TurnIsSound, Fresh, SameAnswer, service
  <2>5. handleTail # <<>> => sub'[Head(handleTail).try] = sub[Head(handleTail).try]
    BY <1>1, <2>3, KnownTries
  <2>6. step = "bound" =>
          (ReceivedInTime(Head(handleTail)) /\ OpenCall(served, sub[Head(handleTail).try].call))'
    BY <2>5 DEF AInv, TurnIsSound, ReceivedInTime, OpenCall, OpenBy, SettledBy, callFeed, service
  <2>7. QED
    BY <2>1, <2>4, <2>6 DEF AInv, TurnIsSound, service, callFeed, Reloaded
<1>3. OneReceiptEach'
  <2>1. \A i \in DOMAIN log : sub'[log[i].try] = sub[log[i].try]
    BY <1>1, Elements DEF AInv, AttestOK, ReceiptsBind
  <2>2. QED
    BY <2>1 DEF AInv, OneReceiptEach, SameAnswer, service
<1>4. ReceiptsBind'
  <2>1. \A i \in DOMAIN log : sub'[log[i].try] = sub[log[i].try]
    BY <1>1, Elements DEF AInv, AttestOK, ReceiptsBind
  <2>2. QED
    BY <2>1 DEF AInv, ReceiptsBind, OpenCall, OpenBy, SettledBy, service, callFeed
<1>5. ReferencesVerify'
  <2>1. \A s \in references : sub'[s] = sub[s]
    BY <1>1 DEF AInv, AttestOK, ClientType, TriesAreFixed
  <2>2. QED
    BY <2>1 DEF AInv, ReferencesVerify, service
<1>6. QED
  BY <1>2, <1>3, <1>4, <1>5

LEMMA PlacesAreFinite ==
  \A u \in Members : IsFiniteSet(InFlightOf(u)) /\ Cardinality(InFlightOf(u)) \in Nat
<1>1. \A u \in Members : InFlightOf(u) \subseteq Tries
  BY DEF InFlightOf
<1>2. QED
  BY <1>1, AttestConstants, FS_Subset, FS_CardinalityType

LEMMA SubmitAInv ==
  ASSUME AInv, NEW t \in Tries, NEW u \in Members, NEW c \in Calls, NEW r \in Rooms,
         Submit(t, u, c, r)
  PROVE  AInv'
<1> DEFINE a == [user |-> u, call |-> c, room |-> r]
<1>1. a \in Submissions /\ a # Unused /\ a.user = u /\ a.call = c
  BY AttestConstants DEF Submissions, Unused
<1>2. sub[t] = Unused /\ phase[t] = "unused" /\ openIndex[c] # 0
  BY DEF Submit, IsNextTry, OpenBy, AInv, AttestOK, TriesAreFixed, CallFeedType, ClientType
<1>3. /\ sub' = [sub EXCEPT ![t] = a]
      /\ inFlight' = [inFlight EXCEPT ![u] = @ + 1]
      /\ inFlight[u] < MaxInFlight
      /\ UNCHANGED <<clock, callFeed, copied, link, responses, stored, references, service>>
  BY DEF Submit, MayStart
<1>4. \/ /\ phase' = [phase EXCEPT ![t] = "pending"]
         /\ requests' = [requests EXCEPT ![u] = Append(@, t)]
         /\ waiters' = waiters
      \/ /\ phase' = [phase EXCEPT ![t] = "waiting"]
         /\ waiters' = [waiters EXCEPT ![u] = Append(@, t)]
         /\ requests' = requests
  BY DEF Submit
<1> HIDE DEF a
<1>5. TurnIsSound' /\ OneReceiptEach' /\ ReceiptsBind' /\ ReferencesVerify'
  BY <1>1, <1>2, <1>3, TriesStart
<1>6. /\ sub'[t] = a /\ \A s \in Tries : s # t => sub'[s] = sub[s] /\ phase'[s] = phase[s]
      /\ phase'[t] \in {"pending", "waiting"}
  BY <1>3, <1>4 DEF AInv, AttestOK, ClientType
<1>7. AttestOK'
  <2>1. \A v \in Members : waiters'[v] \in Seq(Tries) /\ requests'[v] \in Seq(Tries)
    <3>1. Append(waiters[u], t) \in Seq(Tries) /\ Append(requests[u], t) \in Seq(Tries)
      BY Extended DEF AInv, AttestOK, ClientType, WireType
    <3>2. QED
      BY <1>4, <3>1 DEF AInv, AttestOK, ClientType, WireType
  <2>2. ClientType'
    BY <1>1, <1>3, <1>4, <2>1 DEF AInv, AttestOK, ClientType, Phases, InFlight
  <2>3. WireType'
    BY <1>3, <1>4, <2>1 DEF AInv, AttestOK, WireType
  <2>4. PlacesType'
    BY <1>3, AttestConstants DEF AInv, AttestOK, PlacesType
  <2>5. QED
    BY <1>3, <2>2, <2>3, <2>4, AttestFrames DEF AInv, AttestOK
<1>8. TriesAreFixed'
  BY <1>1, <1>2, <1>3, <1>6 DEF AInv, AttestOK, ClientType, TriesAreFixed, callFeed
<1>9. QueuesAreOwn'
  <2>1. \A s \in Tries : sub[s].user \in Members => s # t
    BY <1>2, KnownTries
  <2>2. \A v \in Members : \A i \in DOMAIN requests'[v] : sub'[requests'[v][i]].user = v
    <3>1. \A v \in Members : \A i \in DOMAIN requests[v] : sub'[requests[v][i]].user = v
      BY <1>6, <2>1 DEF AInv, AttestOK, WireType, QueuesAreOwn
    <3>2. \A v \in Members : v # u => requests'[v] = requests[v]
      BY <1>4 DEF AInv, AttestOK, WireType
    <3>3. requests'[u] = requests[u] \/ requests'[u] = Append(requests[u], t)
      BY <1>4 DEF AInv, AttestOK, WireType
    <3>4. ASSUME requests'[u] = Append(requests[u], t), NEW i \in DOMAIN requests'[u]
          PROVE  sub'[requests'[u][i]].user = u
      BY <3>1, <3>4, <1>6, <1>1, Extended DEF AInv, AttestOK, WireType
    <3>5. QED
      BY <3>1, <3>2, <3>3, <3>4
  <2>3. \A v \in Members : \A i \in DOMAIN responses'[v] : sub'[responses'[v][i].try].user = v
    BY <1>3, <1>6, <2>1 DEF AInv, AttestOK, WireType, QueuesAreOwn
  <2>4. \A v \in Members : \A i \in DOMAIN waiters[v] :
          waiters[v][i] # t /\ sub'[waiters[v][i]].user = v /\ phase'[waiters[v][i]] = "waiting"
    BY <1>6, <2>1 DEF AInv, AttestOK, ClientType, QueuesAreOwn
  <2>5. CASE waiters' = waiters
    BY <2>2, <2>3, <2>4, <2>5 DEF AInv, QueuesAreOwn
  <2>6. CASE phase' = [phase EXCEPT ![t] = "waiting"] /\ waiters' = [waiters EXCEPT ![u] = Append(@, t)]
    <3>1. \A v \in Members : v # u => waiters'[v] = waiters[v]
      BY <2>6 DEF AInv, AttestOK, ClientType
    <3>2. waiters'[u] = Append(waiters[u], t) /\ waiters[u] \in Seq(Tries) /\ phase'[t] = "waiting"
      BY <2>6 DEF AInv, AttestOK, ClientType
    <3>3. \A i \in DOMAIN waiters'[u] :
            sub'[waiters'[u][i]].user = u /\ phase'[waiters'[u][i]] = "waiting"
      BY <3>2, <2>4, <1>6, <1>1, Extended
    <3>4. \A i, j \in DOMAIN waiters'[u] : waiters'[u][i] = waiters'[u][j] => i = j
      BY <3>2, <2>4, Extended DEF AInv, QueuesAreOwn
    <3>5. QED
      BY <2>2, <2>3, <2>4, <3>1, <3>3, <3>4 DEF AInv, QueuesAreOwn
  <2>7. QED
    BY <1>4, <2>5, <2>6
<1>10. TokensAreKept'
  BY <1>3, <1>6 DEF AInv, TokensAreKept, service
<1>11. PlacesAddUp'
  <2>1. t \notin InFlightOf(u) /\ InFlightOf(u)' = InFlightOf(u) \cup {t}
    BY <1>1, <1>2, <1>6, AttestConstants DEF InFlightOf, InFlight
  <2>2. \A v \in Members : v # u => InFlightOf(v)' = InFlightOf(v)
    BY <1>1, <1>2, <1>6 DEF InFlightOf, InFlight
  <2>3. Cardinality(InFlightOf(u)') = Cardinality(InFlightOf(u)) + 1
    BY <2>1, PlacesAreFinite, FS_AddElement
  <2>4. QED
    BY <1>3, <2>2, <2>3 DEF AInv, AttestOK, PlacesType, PlacesAddUp
<1>12. QED
  BY <1>5, <1>7, <1>8, <1>9, <1>10, <1>11 DEF AInv

\* EndTries gives back as many places as tries leave.
LEMMA EndTriesCounts ==
  ASSUME AInv, NEW u \in Members, NEW T \in SUBSET InFlightOf(u),
         NEW how \in {"accepted", "failed"}, EndTries(u, T, how), sub' = sub
  PROVE  /\ PlacesType' /\ PlacesAddUp' /\ phase' \in [Tries -> Phases]
         /\ \A t \in Tries : phase'[t] = IF t \in T THEN how ELSE phase[t]
<1>1. /\ phase' \in [Tries -> Phases]
      /\ \A t \in Tries : phase'[t] = IF t \in T THEN how ELSE phase[t]
  BY DEF EndTries, AInv, AttestOK, ClientType, Phases, InFlight
<1>2. InFlightOf(u)' = InFlightOf(u) \ T /\ T \subseteq InFlightOf(u)
  BY <1>1 DEF InFlightOf, InFlight
<1>3. \A v \in Members : v # u => InFlightOf(v)' = InFlightOf(v)
  BY <1>1 DEF InFlightOf, InFlight
<1>4. IsFiniteSet(T) /\ Cardinality(T) \in Nat /\ Cardinality(T) <= Cardinality(InFlightOf(u))
  BY PlacesAreFinite, FS_Subset, FS_CardinalityType
<1>5. Cardinality(InFlightOf(u)') = Cardinality(InFlightOf(u)) - Cardinality(T)
  <2>1. InFlightOf(u) \cap T = T
    BY <1>2
  <2>2. QED
    BY <1>2, <2>1, PlacesAreFinite, FS_Difference
<1>6. inFlight[u] = Cardinality(InFlightOf(u)) /\ inFlight[u] \in 0 .. MaxInFlight
  BY DEF AInv, AttestOK, PlacesType, PlacesAddUp
<1>7. inFlight' = [inFlight EXCEPT ![u] = inFlight[u] - Cardinality(T)] /\ inFlight \in [Members -> 0 .. MaxInFlight]
  BY DEF EndTries, AInv, AttestOK, PlacesType
<1>8. inFlight[u] - Cardinality(T) \in 0 .. MaxInFlight
  BY <1>4, <1>6, AttestConstants
<1>9. PlacesType'
  BY <1>7, <1>8 DEF PlacesType
<1>10. PlacesAddUp'
  BY <1>3, <1>5, <1>6, <1>7 DEF AInv, PlacesAddUp
<1>11. QED
  BY <1>1, <1>9, <1>10

\* What concerns the receipts alone is kept by a member's action that leaves the
\* service's queue and the references as they are.
LEMMA MemberFrame ==
  ASSUME AInv, UNCHANGED <<clock, callFeed, copied, sub, service>>
  PROVE  /\ CallFeedType' /\ ServiceType' /\ TurnIsSound' /\ OneReceiptEach' /\ ReceiptsBind'
         /\ UNCHANGED references => ReferencesVerify'
BY AttestFrames DEF AInv, AttestOK, callFeed, service

LEMMA ConnectAInv ==
  ASSUME AInv, NEW u \in Members, Connect(u)
  PROVE  AInv'
<1>1. /\ requests' = [requests EXCEPT ![u] = waiters[u]]
      /\ phase' = [t \in Tries |-> IF t \in Range(waiters[u]) THEN "pending" ELSE phase[t]]
      /\ waiters' = [waiters EXCEPT ![u] = <<>>]
      /\ link' = [link EXCEPT ![u] = TRUE]
      /\ UNCHANGED <<clock, callFeed, copied, sub, inFlight, responses, stored, references, service>>
  BY DEF Connect
<1>2. \A t \in Range(waiters[u]) : sub[t].user = u /\ phase[t] = "waiting"
  BY DEF Range, AInv, QueuesAreOwn
<1>3. AttestOK'
  <2>1. ClientType'
    BY <1>1 DEF AInv, AttestOK, ClientType, Phases, InFlight
  <2>2. WireType'
    BY <1>1 DEF AInv, AttestOK, ClientType, WireType
  <2>3. QED
    BY <1>1, <2>1, <2>2, MemberFrame, AttestFrames DEF AInv, AttestOK
<1>4. TriesAreFixed'
  <2>1. \A t \in Tries : phase'[t] # phase[t] => phase[t] = "waiting" /\ phase'[t] = "pending"
    BY <1>1, <1>2
  <2>2. \A t \in references : t \in Tries
    BY DEF AInv, AttestOK, ClientType
  <2>3. QED
    BY <1>1, <2>1, <2>2 DEF AInv, TriesAreFixed, callFeed
<1>5. QueuesAreOwn'
  <2>1. \A v \in Members : v # u => requests'[v] = requests[v] /\ waiters'[v] = waiters[v]
    BY <1>1 DEF AInv, AttestOK, ClientType, WireType
  <2>2. requests'[u] = waiters[u] /\ waiters'[u] = <<>>
    BY <1>1 DEF AInv, AttestOK, ClientType, WireType
  <2>3. \A v \in Members : v # u => \A i \in DOMAIN waiters[v] : phase'[waiters[v][i]] = "waiting"
    BY <1>1, <1>2 DEF AInv, AttestOK, ClientType, QueuesAreOwn
  <2>4. \A v \in Members : \A i \in DOMAIN requests'[v] : sub[requests'[v][i]].user = v
    BY <2>1, <2>2 DEF AInv, QueuesAreOwn
  <2>5. \A v \in Members : \A i \in DOMAIN waiters'[v] :
          sub[waiters'[v][i]].user = v /\ phase'[waiters'[v][i]] = "waiting"
    BY <2>1, <2>2, <2>3 DEF AInv, QueuesAreOwn
  <2>6. \A v \in Members : \A i, j \in DOMAIN waiters'[v] : waiters'[v][i] = waiters'[v][j] => i = j
    BY <2>1, <2>2 DEF AInv, QueuesAreOwn
  <2>7. /\ sub' = sub
        /\ \A v \in Members : \A i \in DOMAIN responses'[v] : sub[responses'[v][i].try].user = v
    BY <1>1 DEF AInv, QueuesAreOwn
  <2>8. QED
    BY <2>4, <2>5, <2>6, <2>7 DEF QueuesAreOwn
<1>6. TokensAreKept'
  BY <1>1 DEF AInv, TokensAreKept, service
<1>7. PlacesAddUp'
  <2>1. \A v \in Members : InFlightOf(v)' = InFlightOf(v)
    BY <1>1, <1>2 DEF InFlightOf, InFlight
  <2>2. QED
    BY <1>1, <2>1 DEF AInv, PlacesAddUp
<1>8. QED
  BY <1>1, <1>3, <1>4, <1>5, <1>6, <1>7, MemberFrame DEF AInv

LEMMA RequestTimeoutAInv ==
  ASSUME AInv, NEW t \in Tries, RequestTimeout(t)
  PROVE  AInv'
<1> DEFINE u == sub[t].user
<1>1. /\ phase[t] \in {"waiting", "pending"}
      /\ EndTries(u, {t}, "failed")
      /\ UNCHANGED <<clock, callFeed, copied, sub, wires, stored, references, service>>
  BY DEF RequestTimeout
<1>2. u \in Members /\ {t} \in SUBSET InFlightOf(u)
  BY <1>1 DEF AInv, AttestOK, ClientType, Submissions, TriesAreFixed, InFlightOf, InFlight
<1> HIDE DEF u
<1>3. /\ PlacesType' /\ PlacesAddUp' /\ phase' \in [Tries -> Phases]
      /\ \A s \in Tries : phase'[s] = IF s = t THEN "failed" ELSE phase[s]
  BY <1>1, <1>2, EndTriesCounts
<1>4. waiters[u] \in Seq(Tries)
  BY <1>2 DEF AInv, AttestOK, ClientType
<1>5. /\ \A v \in Members : v # u => waiters'[v] = waiters[v]
      /\ waiters' \in [Members -> Seq(Tries)]
      /\ \A i \in DOMAIN waiters'[u] :
            \E j \in DOMAIN waiters[u] : waiters'[u][i] = waiters[u][j] /\ waiters[u][j] # t
      /\ \A i, j \in DOMAIN waiters'[u] : waiters'[u][i] = waiters'[u][j] => i = j
  <2>1. CASE t \notin Range(waiters[u]) /\ UNCHANGED waiters
    BY <1>2, <1>4, <2>1 DEF AInv, AttestOK, ClientType, QueuesAreOwn, Range
  <2>2. ASSUME NEW k \in DOMAIN waiters[u], waiters[u][k] = t,
               waiters' = [waiters EXCEPT ![u] = RemoveAt(@, k)]
        PROVE  <1>5!1 /\ <1>5!2 /\ <1>5!3 /\ <1>5!4
    <3>1. waiters'[u] = RemoveAt(waiters[u], k) /\ waiters'[u] \in Seq(Tries)
      BY <1>2, <1>4, <2>2, Dropped DEF AInv, AttestOK, ClientType
    <3>2. \A v \in Members : v # u => waiters'[v] = waiters[v]
      BY <2>2 DEF AInv, AttestOK, ClientType
    <3>3. waiters' \in [Members -> Seq(Tries)]
      BY <2>2, <3>1, <3>2 DEF AInv, AttestOK, ClientType
    <3>4. \A i, j \in DOMAIN waiters[u] : waiters[u][i] = waiters[u][j] => i = j
      BY <1>2 DEF AInv, QueuesAreOwn
    <3>5. \A i \in DOMAIN waiters'[u] :
            /\ i \in Nat
            /\ waiters'[u][i] = IF i < k THEN waiters[u][i] ELSE waiters[u][i + 1]
            /\ i \in DOMAIN waiters[u] /\ i + 1 \in DOMAIN waiters[u]
      <4>1. /\ RemoveAt(waiters[u], k) \in Seq(Tries)
            /\ Len(RemoveAt(waiters[u], k)) = Len(waiters[u]) - 1
            /\ \A i \in DOMAIN RemoveAt(waiters[u], k) :
                 RemoveAt(waiters[u], k)[i] = IF i < k THEN waiters[u][i] ELSE waiters[u][i + 1]
        BY <1>4, Dropped
      <4>2. DOMAIN waiters'[u] = 1 .. Len(waiters[u]) - 1
        BY <3>1, <4>1
      <4>3. DOMAIN waiters[u] = 1 .. Len(waiters[u]) /\ Len(waiters[u]) \in Nat
        BY <1>4
      <4>4. QED
        BY <3>1, <4>1, <4>2, <4>3
    <3>6. k \in Nat
      BY <1>4
    <3>7. \A i \in DOMAIN waiters'[u] :
            \E j \in DOMAIN waiters[u] : waiters'[u][i] = waiters[u][j] /\ waiters[u][j] # t
      <4>1. SUFFICES ASSUME NEW i \in DOMAIN waiters'[u]
                     PROVE  \E j \in DOMAIN waiters[u] : waiters'[u][i] = waiters[u][j] /\ waiters[u][j] # t
        OBVIOUS
      <4>2. CASE i < k
        BY <2>2, <3>4, <3>5, <3>6, <4>1, <4>2
      <4>3. CASE ~(i < k)
        <5>1. i + 1 # k
          BY <3>5, <3>6, <4>1, <4>3
        <5>2. QED
          BY <2>2, <3>4, <3>5, <4>1, <4>3, <5>1
      <4>4. QED
        BY <4>2, <4>3
    <3>8. \A i, j \in DOMAIN waiters'[u] : waiters'[u][i] = waiters'[u][j] => i = j
      BY <3>4, <3>5, <3>6
    <3>9. QED
      BY <3>2, <3>3, <3>7, <3>8
  <2>3. QED
    BY <2>1, <2>2 DEF RequestTimeout, u
<1>6. AttestOK'
  <2>1. ClientType'
    BY <1>1, <1>3, <1>5 DEF AInv, AttestOK, ClientType
  <2>2. QED
    BY <1>1, <1>3, <2>1, MemberFrame, AttestFrames DEF AInv, AttestOK
<1>7. TriesAreFixed'
  <2>1. \A s \in references : s \in Tries /\ phase[s] = "referenced"
    BY DEF AInv, AttestOK, ClientType, TriesAreFixed
  <2>2. QED
    BY <1>1, <1>3, <2>1 DEF AInv, TriesAreFixed, callFeed
<1>8. QueuesAreOwn'
  <2>1. \A v \in Members : v # u => \A i \in DOMAIN waiters[v] : waiters[v][i] \in Tries /\ waiters[v][i] # t
    BY DEF AInv, AttestOK, ClientType, QueuesAreOwn, u
  <2>2. \A i \in DOMAIN waiters[u] : waiters[u][i] \in Tries
    BY <1>4
  <2>3. \A v \in Members : \A i \in DOMAIN waiters'[v] :
          sub[waiters'[v][i]].user = v /\ phase'[waiters'[v][i]] = "waiting"
    BY <1>2, <1>3, <1>5, <2>1, <2>2 DEF AInv, QueuesAreOwn
  <2>4. \A v \in Members : \A i, j \in DOMAIN waiters'[v] : waiters'[v][i] = waiters'[v][j] => i = j
    BY <1>5 DEF AInv, QueuesAreOwn
  <2>5. QED
    BY <1>1, <2>3, <2>4 DEF AInv, QueuesAreOwn, wires
<1>9. TokensAreKept'
  BY <1>1, <1>3 DEF AInv, TokensAreKept, service
<1>10. QED
  BY <1>1, <1>3, <1>6, <1>7, <1>8, <1>9, MemberFrame DEF AInv

\* A try that leaves its queues of requests and responses as they are, or
\* shorter, leaves them to its own member.
LEMMA ShorterQueues ==
  ASSUME AInv, sub' = sub, UNCHANGED waiters,
         \A u \in Members : \A i \in DOMAIN requests'[u] :
           \E j \in DOMAIN requests[u] : requests'[u][i] = requests[u][j],
         \A u \in Members : \A i \in DOMAIN responses'[u] :
           \E j \in DOMAIN responses[u] : responses'[u][i] = responses[u][j],
         \A t \in Tries : phase[t] = "waiting" => phase'[t] = "waiting"
  PROVE  QueuesAreOwn'
<1>1. \A u \in Members : \A i \in DOMAIN requests'[u] : sub[requests'[u][i]].user = u
  BY DEF AInv, QueuesAreOwn
<1>2. \A u \in Members : \A i \in DOMAIN responses'[u] : sub[responses'[u][i].try].user = u
  BY DEF AInv, QueuesAreOwn
<1>3. \A u \in Members : \A i \in DOMAIN waiters[u] : waiters[u][i] \in Tries
  BY DEF AInv, AttestOK, ClientType
<1>4. QED
  BY <1>1, <1>2, <1>3 DEF AInv, QueuesAreOwn

LEMMA SameQueues ==
  ASSUME AInv, UNCHANGED <<sub, waiters, requests, responses>>,
         \A t \in Tries : phase[t] = "waiting" => phase'[t] = "waiting"
  PROVE  QueuesAreOwn'
BY ShorterQueues

LEMMA RespondAInv ==
  ASSUME AInv, NEW u \in Members, Respond(u)
  PROVE  AInv'
<1> DEFINE t == Head(responses[u]).try
           ok == Head(responses[u]).ok
<1>1. /\ responses[u] # <<>>
      /\ responses' = [responses EXCEPT ![u] = Tail(@)]
      /\ UNCHANGED <<clock, callFeed, copied, sub, waiters, link, requests, stored, references, service>>
      /\ \/ phase[t] # "pending" /\ UNCHANGED <<phase, inFlight>>
         \/ phase[t] = "pending" /\ phase' = [phase EXCEPT ![t] = "reading"] /\ UNCHANGED inFlight
         \/ phase[t] = "pending" /\ EndTries(u, {t}, "failed")
  BY DEF Respond
<1>2. responses[u] \in Seq([try : Tries, ok : BOOLEAN])
  BY DEF AInv, AttestOK, WireType
<1>3. /\ t \in Tries /\ sub[t].user = u /\ Tail(responses[u]) \in Seq([try : Tries, ok : BOOLEAN])
      /\ \A i \in DOMAIN Tail(responses[u]) : \E j \in DOMAIN responses[u] : Tail(responses[u])[i] = responses[u][j]
  <2>1. /\ Head(responses[u]) \in [try : Tries, ok : BOOLEAN]
        /\ Tail(responses[u]) \in Seq([try : Tries, ok : BOOLEAN])
        /\ 1 \in DOMAIN responses[u] /\ Head(responses[u]) = responses[u][1]
        /\ \A i \in DOMAIN Tail(responses[u]) : i + 1 \in DOMAIN responses[u] /\ Tail(responses[u])[i] = responses[u][i + 1]
    BY <1>1, <1>2, Taken
  <2>2. sub[responses[u][1].try].user = u
    BY <2>1 DEF AInv, QueuesAreOwn
  <2>3. \A i \in DOMAIN Tail(responses[u]) : \E j \in DOMAIN responses[u] : Tail(responses[u])[i] = responses[u][j]
    BY <2>1
  <2>4. QED
    BY <2>1, <2>2, <2>3
<1> HIDE DEF t, ok
<1>4. /\ PlacesType' /\ PlacesAddUp' /\ phase' \in [Tries -> Phases]
      /\ \A s \in Tries : phase'[s] # phase[s] => phase[s] = "pending" /\ phase'[s] \in {"reading", "failed"}
  <2>1. CASE UNCHANGED <<phase, inFlight>>
    BY <1>1, <2>1, AttestFrames DEF AInv, AttestOK, ClientType
  <2>2. CASE phase[t] = "pending" /\ phase' = [phase EXCEPT ![t] = "reading"] /\ UNCHANGED inFlight
    <3>1. phase' \in [Tries -> Phases] /\ \A s \in Tries : phase'[s] = IF s = t THEN "reading" ELSE phase[s]
      BY <1>3, <2>2 DEF AInv, AttestOK, ClientType, Phases, InFlight
    <3>2. \A v \in Members : InFlightOf(v)' = InFlightOf(v)
      BY <1>1, <2>2, <3>1 DEF InFlightOf, InFlight
    <3>3. PlacesType' /\ PlacesAddUp'
      BY <2>2, <3>2 DEF AInv, AttestOK, PlacesType, PlacesAddUp
    <3>4. QED
      BY <2>2, <3>1, <3>3
  <2>3. CASE phase[t] = "pending" /\ EndTries(u, {t}, "failed")
    <3>1. {t} \in SUBSET InFlightOf(u)
      BY <1>3, <2>3 DEF InFlightOf, InFlight
    <3>2. QED
      BY <1>1, <2>3, <3>1, EndTriesCounts
  <2>4. QED
    BY <1>1, <2>1, <2>2, <2>3
<1>5. AttestOK'
  <2>1. ClientType'
    BY <1>1, <1>4 DEF AInv, AttestOK, ClientType
  <2>2. WireType'
    BY <1>1, <1>3 DEF AInv, AttestOK, WireType
  <2>3. QED
    BY <1>1, <1>4, <2>1, <2>2, MemberFrame DEF AttestOK
<1>6. TriesAreFixed'
  <2>1. \A s \in references : s \in Tries
    BY DEF AInv, AttestOK, ClientType
  <2>2. QED
    BY <1>1, <1>4, <2>1 DEF AInv, TriesAreFixed, callFeed
<1>7. QueuesAreOwn'
  <2>1. \A v \in Members : v # u => responses'[v] = responses[v]
    BY <1>1 DEF AInv, AttestOK, WireType
  <2>2. responses'[u] = Tail(responses[u])
    BY <1>1 DEF AInv, AttestOK, WireType
  <2>3. \A v \in Members : \A i \in DOMAIN responses'[v] : \E j \in DOMAIN responses[v] : responses'[v][i] = responses[v][j]
    <3>1. SUFFICES ASSUME NEW v \in Members, NEW i \in DOMAIN responses'[v]
                   PROVE  \E j \in DOMAIN responses[v] : responses'[v][i] = responses[v][j]
      OBVIOUS
    <3>2. CASE v = u
      BY <1>3, <2>2, <3>2
    <3>3. CASE v # u
      BY <2>1, <3>3
    <3>4. QED
      BY <3>2, <3>3
  <2>4. \A s \in Tries : phase[s] = "waiting" => phase'[s] = "waiting"
    BY <1>4
  <2>5. QED
    BY <1>1, <2>3, <2>4, ShorterQueues
<1>8. TokensAreKept'
  BY <1>1, <1>4 DEF AInv, TokensAreKept, service
<1>9. QED
  BY <1>1, <1>4, <1>5, <1>6, <1>7, <1>8, MemberFrame DEF AInv

\* A try that is done with at its member, and what that may add to the tokens.
LEMMA LeaveAInv ==
  ASSUME AInv, NEW t \in Tries, phase[t] = "reading",
         NEW how \in {"accepted", "failed"}, EndTries(sub[t].user, {t}, how),
         UNCHANGED <<clock, callFeed, copied, sub, waiters, wires, references, service>>,
         stored \subseteq stored', stored' \subseteq Tries,
         how = "accepted" => t \in stored' /\ \E i \in DOMAIN log : log[i].try = t
  PROVE  AInv'
<1>1. sub[t].user \in Members /\ {t} \in SUBSET InFlightOf(sub[t].user)
  BY DEF AInv, AttestOK, ClientType, Submissions, TriesAreFixed, InFlightOf, InFlight
<1>2. /\ PlacesType' /\ PlacesAddUp' /\ phase' \in [Tries -> Phases]
      /\ \A s \in Tries : phase'[s] = IF s = t THEN how ELSE phase[s]
  BY <1>1, EndTriesCounts
<1>3. AttestOK'
  <2>1. ClientType'
    BY <1>2 DEF AInv, AttestOK, ClientType
  <2>2. QED
    BY <1>2, <2>1, MemberFrame, AttestFrames DEF AInv, AttestOK
<1>4. TriesAreFixed'
  <2>1. \A s \in references : s \in Tries
    BY DEF AInv, AttestOK, ClientType
  <2>2. QED
    BY <1>2, <2>1 DEF AInv, TriesAreFixed, callFeed
<1>5. QueuesAreOwn'
  BY <1>2, SameQueues DEF wires
<1>6. TokensAreKept'
  BY <1>2 DEF AInv, TokensAreKept, service
<1>7. QED
  BY <1>2, <1>3, <1>4, <1>5, <1>6, MemberFrame DEF AInv

LEMMA AppendReferenceAInv ==
  ASSUME AInv, NEW t \in Tries, AppendReference(t)
  PROVE  AInv'
<1>1. /\ phase[t] = "accepted"
      /\ UNCHANGED <<clock, callFeed, copied, sub, waiters, inFlight, wires, stored, service>>
  BY DEF AppendReference
<1>2. PICK i \in DOMAIN log :
        /\ log[i].try = t
        /\ IF HeadCovers(sub[t].user, log[i].length) /\ FirstReference(t)
           THEN references' = references \cup {t} /\ phase' = [phase EXCEPT ![t] = "referenced"]
           ELSE phase' = [phase EXCEPT ![t] = "failed"] /\ UNCHANGED references
  BY DEF AppendReference
<1>3. /\ phase'[t] \in {"referenced", "failed"} /\ \A s \in Tries : s # t => phase'[s] = phase[s]
      /\ references' \subseteq references \cup {t} /\ references \subseteq references'
      /\ t \in references' => phase'[t] = "referenced"
      /\ phase' \in [Tries -> Phases]
  <2>1. t \notin references
    BY <1>1 DEF AInv, TriesAreFixed
  <2>2. QED
    BY <1>2, <2>1 DEF AInv, AttestOK, ClientType, Phases
<1>4. sub[t] \in Submissions
  BY <1>1 DEF AInv, AttestOK, ClientType, TriesAreFixed
<1>5. AttestOK'
  <2>1. ClientType'
    BY <1>1, <1>3 DEF AInv, AttestOK, ClientType
  <2>2. QED
    BY <1>1, <2>1, MemberFrame, AttestFrames DEF AInv, AttestOK
<1>6. TriesAreFixed'
  <2>1. \A s \in references : s \in Tries /\ s # t
    BY <1>1 DEF AInv, AttestOK, ClientType, TriesAreFixed
  <2>2. QED
    BY <1>1, <1>3, <2>1 DEF AInv, TriesAreFixed, callFeed
<1>7. QueuesAreOwn'
  BY <1>1, <1>3, SameQueues DEF wires
<1>8. TokensAreKept'
  BY <1>1, <1>3 DEF AInv, TokensAreKept, service
<1>9. PlacesAddUp'
  <2>1. \A v \in Members : InFlightOf(v)' = InFlightOf(v)
    BY <1>1, <1>3 DEF InFlightOf, InFlight
  <2>2. QED
    BY <1>1, <2>1 DEF AInv, PlacesAddUp
<1>10. ReferencesVerify'
  <2>1. CASE UNCHANGED references
    BY <1>1, <2>1, MemberFrame
  <2>2. CASE HeadCovers(sub[t].user, log[i].length) /\ FirstReference(t) /\ references' = references \cup {t}
    <3>1. log[i].length <= copied[sub[t].user]
      BY <1>4, <2>2, Elements DEF HeadCovers, AInv, AttestOK, CallFeedType, Submissions
    <3>2. \A s \in references : sub[s] # sub[t]
      <4>1. sub[t] = [user |-> sub[t].user, call |-> sub[t].call, room |-> sub[t].room]
        BY <1>4 DEF Submissions
      <4>2. QED
        BY <2>2, <4>1 DEF FirstReference, Answered
    <3>3. QED
      BY <1>1, <1>2, <2>2, <3>1, <3>2 DEF AInv, ReferencesVerify, service
  <2>3. QED
    BY <1>2, <2>1, <2>2
<1>11. QED
  BY <1>1, <1>5, <1>6, <1>7, <1>8, <1>9, <1>10, MemberFrame DEF AInv

\* A connection that ends marks its submissions in the service's queue.
LEMMA HangupKeeps ==
  ASSUME AInv, NEW u \in Members, handleTail' = Hangup(u),
         UNCHANGED <<sub, callFeed, running, step, served, known, log>>
  PROVE  /\ ServiceType' /\ TurnIsSound'
         /\ DOMAIN handleTail' = DOMAIN handleTail
         /\ \A i \in DOMAIN handleTail :
              handleTail'[i].try = handleTail[i].try /\ handleTail'[i].at = handleTail[i].at
<1>1. handleTail \in Seq(Entries)
  BY DEF AInv, AttestOK, ServiceType
<1>2. DOMAIN handleTail' = DOMAIN handleTail
  BY DEF Hangup
<1>3. \A i \in DOMAIN handleTail :
        /\ handleTail[i] \in Entries /\ handleTail'[i] \in Entries
        /\ handleTail'[i].try = handleTail[i].try /\ handleTail'[i].at = handleTail[i].at
  <2>1. SUFFICES ASSUME NEW i \in DOMAIN handleTail
                 PROVE  /\ handleTail[i] \in Entries /\ handleTail'[i] \in Entries
                        /\ handleTail'[i].try = handleTail[i].try /\ handleTail'[i].at = handleTail[i].at
    OBVIOUS
  <2> DEFINE e == handleTail[i]
             b == e.live /\ sub[e.try].user # u
  <2>2. e \in Entries
    BY <1>1
  <2>3. handleTail'[i] = [e EXCEPT !.live = b]
    BY DEF Hangup
  <2>4. b \in BOOLEAN
    OBVIOUS
  <2> HIDE DEF e, b
  <2>5. [e EXCEPT !.live = b] \in Entries /\ [e EXCEPT !.live = b].try = e.try /\ [e EXCEPT !.live = b].at = e.at
    BY <2>2, <2>4 DEF Entries
  <2>6. QED
    BY <2>2, <2>3, <2>5 DEF e
<1>4. handleTail' \in Seq(Entries) /\ Len(handleTail') = Len(handleTail)
  <2>1. handleTail' \in [1 .. Len(handleTail) -> Entries] /\ Len(handleTail) \in Nat
    <3>1. handleTail' = [i \in DOMAIN handleTail |-> handleTail'[i]]
      BY DEF Hangup
    <3>2. DOMAIN handleTail = 1 .. Len(handleTail) /\ Len(handleTail) \in Nat
      BY <1>1
    <3>3. QED
      BY <1>3, <3>1, <3>2
  <2>2. QED
    BY <2>1
<1>5. ServiceType'
  BY <1>4 DEF AInv, AttestOK, ServiceType
<1>6. handleTail # <<>> => /\ handleTail' # <<>>
                           /\ Head(handleTail').try = Head(handleTail).try
                           /\ Head(handleTail').at = Head(handleTail).at
  BY <1>1, <1>3, <1>4
<1>7. handleTail = <<>> => handleTail' = <<>>
  BY <1>1, <1>4
<1>8. TurnIsSound'
  <2>1. \A i \in DOMAIN handleTail' : sub'[handleTail'[i].try] # Unused
    BY <1>2, <1>3 DEF AInv, TurnIsSound
  <2>2. step # "idle" => handleTail # <<>>
    BY DEF AInv, TurnIsSound
  <2>3. QED
    BY <1>6, <1>7, <2>1, <2>2 DEF AInv, TurnIsSound, Reloaded, Fresh, SameAnswer, ReceivedInTime,
                           OpenCall, OpenBy, SettledBy, callFeed
<1>9. QED
  BY <1>2, <1>3, <1>5, <1>8

LEMMA DisconnectedQueues ==
  ASSUME AInv, NEW users \in SUBSET Members, Disconnected(users)
  PROVE  /\ WireType'
         /\ \A v \in Members : \A i \in DOMAIN requests'[v] :
              \E j \in DOMAIN requests[v] : requests'[v][i] = requests[v][j]
         /\ \A v \in Members : \A i \in DOMAIN responses'[v] :
              \E j \in DOMAIN responses[v] : responses'[v][i] = responses[v][j]
<1>1. WireType'
  <2>1. link' \in [Members -> BOOLEAN]
    BY DEF Disconnected, AInv, AttestOK, WireType
  <2>2. requests' \in [Members -> Seq(Tries)]
    BY DEF Disconnected, AInv, AttestOK, WireType
  <2>3. responses' \in [Members -> Seq([try : Tries, ok : BOOLEAN])]
    <3> DEFINE R == [try : Tries, ok : BOOLEAN]
    <3>1. responses \in [Members -> Seq(R)]
      BY DEF AInv, AttestOK, WireType
    <3>2. responses' = [v \in Members |-> IF v \in users THEN <<>> ELSE responses[v]]
      BY DEF Disconnected
    <3> HIDE DEF R
    <3>3. responses' \in [Members -> Seq(R)]
      BY <3>1, <3>2
    <3>4. QED
      BY <3>3 DEF R
  <2>4. QED
    BY <2>1, <2>2, <2>3 DEF WireType
<1>2. \A v \in Members : /\ requests'[v] = <<>> \/ requests'[v] = requests[v]
                         /\ responses'[v] = <<>> \/ responses'[v] = responses[v]
  BY DEF Disconnected
<1>3. \A v \in Members : \A i \in DOMAIN requests'[v] :
        \E j \in DOMAIN requests[v] : requests'[v][i] = requests[v][j]
  BY <1>2
<1>4. \A v \in Members : \A i \in DOMAIN responses'[v] :
        \E j \in DOMAIN responses[v] : responses'[v][i] = responses[v][j]
  BY <1>2
<1>5. QED
  BY <1>1, <1>3, <1>4

LEMMA DisconnectAInv ==
  ASSUME AInv, NEW u \in Members, Disconnect(u)
  PROVE  AInv'
<1>1. /\ Disconnected({u}) /\ EndTries(u, PendingOf(u), "failed") /\ handleTail' = Hangup(u)
      /\ UNCHANGED <<clock, callFeed, copied, sub, waiters, stored, references, running, step, served, known, log>>
  BY DEF Disconnect
<1>2. PendingOf(u) \in SUBSET InFlightOf(u)
  BY DEF PendingOf, InFlightOf, InFlight
<1>3. /\ PlacesType' /\ PlacesAddUp' /\ phase' \in [Tries -> Phases]
      /\ \A s \in Tries : phase'[s] = IF s \in PendingOf(u) THEN "failed" ELSE phase[s]
  BY <1>1, <1>2, EndTriesCounts
<1>4. \A s \in Tries : phase'[s] # phase[s] => phase[s] = "pending" /\ phase'[s] = "failed"
  BY <1>3 DEF PendingOf
<1>5. AttestOK' /\ TurnIsSound'
  <2>1. ClientType'
    BY <1>1, <1>3 DEF AInv, AttestOK, ClientType
  <2>2. QED
    BY <1>1, <1>3, <2>1, HangupKeeps, DisconnectedQueues, AttestFrames DEF AInv, AttestOK
<1>6. TriesAreFixed'
  <2>1. \A s \in references : s \in Tries
    BY DEF AInv, AttestOK, ClientType
  <2>2. QED
    BY <1>1, <1>4, <2>1 DEF AInv, TriesAreFixed, callFeed
<1>7. QueuesAreOwn'
  <2>1. \A s \in Tries : phase[s] = "waiting" => phase'[s] = "waiting"
    BY <1>4
  <2>2. QED
    BY <1>1, <2>1, DisconnectedQueues, ShorterQueues
<1>8. TokensAreKept'
  BY <1>1, <1>4 DEF AInv, TokensAreKept
<1>9. OneReceiptEach' /\ ReceiptsBind' /\ ReferencesVerify'
  BY <1>1, AttestFrames DEF AInv
<1>10. QED
  BY <1>3, <1>5, <1>6, <1>7, <1>8, <1>9 DEF AInv

LEMMA RestartClientAInv ==
  ASSUME AInv, NEW u \in Members, RestartClient(u)
  PROVE  AInv'
<1>1. /\ Disconnected({u}) /\ handleTail' = Hangup(u)
      /\ phase' = [t \in Tries |-> IF t \in UnfinishedOf(u) THEN "failed" ELSE phase[t]]
      /\ inFlight' = [inFlight EXCEPT ![u] = 0]
      /\ waiters' = [waiters EXCEPT ![u] = <<>>]
      /\ UNCHANGED <<clock, callFeed, copied, sub, stored, references, running, step, served, known, log>>
  BY DEF RestartClient
<1>2. /\ phase' \in [Tries -> Phases]
      /\ \A s \in Tries : phase'[s] # phase[s] =>
           phase[s] \in InFlight \cup {"accepted"} /\ phase'[s] = "failed" /\ sub[s].user = u
  BY <1>1 DEF UnfinishedOf, AInv, AttestOK, ClientType, Phases
<1>3. AttestOK' /\ TurnIsSound'
  <2>1. ClientType'
    BY <1>1, <1>2 DEF AInv, AttestOK, ClientType
  <2>2. PlacesType'
    BY <1>1, AttestConstants DEF AInv, AttestOK, PlacesType
  <2>3. QED
    BY <1>1, <2>1, <2>2, HangupKeeps, DisconnectedQueues, AttestFrames DEF AInv, AttestOK
<1>4. TriesAreFixed'
  <2>1. \A s \in references : s \in Tries /\ phase[s] = "referenced"
    BY DEF AInv, AttestOK, ClientType, TriesAreFixed
  <2>2. \A s \in Tries : phase[s] = "unused" \/ phase[s] = "referenced" => phase'[s] = phase[s]
    BY <1>2 DEF InFlight
  <2>3. \A s \in Tries : phase'[s] = "unused" => phase[s] = "unused"
    BY <1>2
  <2>4. QED
    BY <1>1, <2>1, <2>2, <2>3 DEF AInv, TriesAreFixed, callFeed
<1>5. QueuesAreOwn'
  <2>1. \A v \in Members : v # u => waiters'[v] = waiters[v]
    BY <1>1 DEF AInv, AttestOK, ClientType
  <2>2. waiters'[u] = <<>>
    BY <1>1 DEF AInv, AttestOK, ClientType
  <2>3. \A v \in Members : v # u =>
          \A i \in DOMAIN waiters[v] : sub[waiters[v][i]].user = v /\ phase'[waiters[v][i]] = "waiting"
    <3>1. \A v \in Members : \A i \in DOMAIN waiters[v] :
            waiters[v][i] \in Tries /\ sub[waiters[v][i]].user = v /\ phase[waiters[v][i]] = "waiting"
      BY DEF AInv, AttestOK, ClientType, QueuesAreOwn
    <3>2. QED
      BY <1>2, <3>1
  <2>4. \A v \in Members : \A i \in DOMAIN waiters'[v] :
          sub[waiters'[v][i]].user = v /\ phase'[waiters'[v][i]] = "waiting"
    BY <2>1, <2>2, <2>3
  <2>5. \A v \in Members : \A i, j \in DOMAIN waiters'[v] : waiters'[v][i] = waiters'[v][j] => i = j
    BY <2>1, <2>2 DEF AInv, QueuesAreOwn
  <2>6. \A v \in Members : \A i \in DOMAIN requests'[v] : sub[requests'[v][i]].user = v
    BY <1>1, DisconnectedQueues DEF AInv, QueuesAreOwn
  <2>7. \A v \in Members : \A i \in DOMAIN responses'[v] : sub[responses'[v][i].try].user = v
    BY <1>1, DisconnectedQueues DEF AInv, QueuesAreOwn
  <2>8. sub' = sub
    BY <1>1
  <2>9. QED
    BY <2>4, <2>5, <2>6, <2>7, <2>8 DEF QueuesAreOwn
<1>6. TokensAreKept'
  BY <1>1, <1>2 DEF AInv, TokensAreKept
<1>7. PlacesAddUp'
  <2>1. InFlightOf(u)' = {}
    BY <1>1 DEF InFlightOf, UnfinishedOf, InFlight
  <2>2. \A v \in Members : v # u => InFlightOf(v)' = InFlightOf(v)
    BY <1>1, <1>2 DEF InFlightOf, UnfinishedOf
  <2>3. QED
    BY <1>1, <2>1, <2>2, FS_EmptySet DEF AInv, AttestOK, PlacesType, PlacesAddUp
<1>8. OneReceiptEach' /\ ReceiptsBind' /\ ReferencesVerify'
  BY <1>1, AttestFrames DEF AInv
<1>9. QED
  BY <1>3, <1>4, <1>5, <1>6, <1>7, <1>8 DEF AInv

LEMMA ClientNextAInv == AInv /\ ClientNext => AInv'
<1>1. SUFFICES ASSUME AInv, ClientNext PROVE AInv'
  OBVIOUS
<1>2. ASSUME NEW t \in Tries, NEW u \in Members, NEW c \in Calls, NEW r \in Rooms, Submit(t, u, c, r)
      PROVE  AInv'
  BY <1>1, <1>2, SubmitAInv
<1>3. ASSUME NEW t \in Tries, RequestTimeout(t) PROVE AInv'
  BY <1>1, <1>3, RequestTimeoutAInv
<1>4. ASSUME NEW t \in Tries, ReadReceipt(t) PROVE AInv'
  <2>1. stored' = stored \cup {t} /\ stored \subseteq Tries
    BY <1>1, <1>4 DEF ReadReceipt, Persist, AInv, AttestOK, ClientType
  <2>2. QED
    BY <1>1, <1>4, <2>1, LeaveAInv DEF ReadReceipt
<1>5. ASSUME NEW t \in Tries, ReadFails(t) PROVE AInv'
  <2>1. stored' = stored /\ stored \subseteq Tries
    BY <1>1, <1>5 DEF ReadFails, AInv, AttestOK, ClientType
  <2>2. QED
    BY <1>1, <1>5, <2>1, LeaveAInv DEF ReadFails
<1>6. ASSUME NEW t \in Tries, AppendReference(t) PROVE AInv'
  BY <1>1, <1>6, AppendReferenceAInv
<1>7. ASSUME NEW u \in Members, Connect(u) \/ Respond(u) \/ Disconnect(u) \/ RestartClient(u)
      PROVE  AInv'
  BY <1>1, <1>7, ConnectAInv, RespondAInv, DisconnectAInv, RestartClientAInv
<1>8. QED
  BY <1>1, <1>2, <1>3, <1>4, <1>5, <1>6, <1>7 DEF ClientNext

-----------------------------------------------------------------------------
(* The service. *)

\* What the service does changes nothing at the members.
LEMMA ServiceFrame ==
  ASSUME AInv, UNCHANGED <<clock, callFeed, copied, sub, phase, waiters, inFlight, stored, references>>
  PROVE  /\ CallFeedType' /\ ClientType' /\ PlacesType' /\ TriesAreFixed' /\ PlacesAddUp'
         /\ UNCHANGED log => OneReceiptEach' /\ ReceiptsBind' /\ TokensAreKept' /\ ReferencesVerify'
<1>1. CallFeedType' /\ ClientType' /\ PlacesType'
  BY AttestFrames DEF AInv, AttestOK
<1>2. TriesAreFixed' /\ PlacesAddUp'
  BY AttestFrames DEF AInv, callFeed
<1>3. UNCHANGED log => OneReceiptEach' /\ ReceiptsBind' /\ TokensAreKept' /\ ReferencesVerify'
  BY AttestFrames DEF AInv
<1>4. QED
  BY <1>1, <1>2, <1>3

\* An answer sent to a member is about a try of its own.
LEMMA AnswerSent ==
  ASSUME AInv, NEW v \in Members, NEW t \in Tries, sub[t].user = v, NEW ok \in BOOLEAN,
         responses' = [responses EXCEPT ![v] = Append(@, [try |-> t, ok |-> ok])],
         UNCHANGED <<sub, phase, waiters, link>>,
         requests' \in [Members -> Seq(Tries)],
         \A u \in Members : \A i \in DOMAIN requests'[u] :
           \E j \in DOMAIN requests[u] : requests'[u][i] = requests[u][j]
  PROVE  WireType' /\ QueuesAreOwn'
<1> DEFINE r == [try |-> t, ok |-> ok]
           R == [try : Tries, ok : BOOLEAN]
<1>1. r \in R /\ r.try = t
  OBVIOUS
<1>2. responses \in [Members -> Seq(R)] /\ responses' = [responses EXCEPT ![v] = Append(@, r)]
  BY DEF AInv, AttestOK, WireType
<1>3. WireType <=> link \in [Members -> BOOLEAN] /\ requests \in [Members -> Seq(Tries)] /\ responses \in [Members -> Seq(R)]
  BY DEF WireType
<1>3a. WireType' <=> link' \in [Members -> BOOLEAN] /\ requests' \in [Members -> Seq(Tries)] /\ responses' \in [Members -> Seq(R)]
  BY DEF WireType
<1> HIDE DEF r, R
<1>4. responses[v] \in Seq(R) /\ responses'[v] = Append(responses[v], r)
  BY <1>2
<1>5. Append(responses[v], r) \in Seq(R)
  BY <1>1, <1>4, Extended
<1>6. responses' \in [Members -> Seq(R)] /\ \A u \in Members : u # v => responses'[u] = responses[u]
  BY <1>2, <1>5
<1>7. WireType'
  BY <1>3, <1>3a, <1>6 DEF AInv, AttestOK
<1>8. \A u \in Members : \A i \in DOMAIN responses'[u] : sub[responses'[u][i].try].user = u
  <2>1. SUFFICES ASSUME NEW u \in Members, NEW i \in DOMAIN responses'[u]
                 PROVE  sub[responses'[u][i].try].user = u
    OBVIOUS
  <2>2. CASE u # v
    BY <1>6, <2>2 DEF AInv, QueuesAreOwn
  <2>3. CASE u = v /\ i \in DOMAIN responses[v]
    BY <1>1, <1>4, <2>3, Extended DEF AInv, QueuesAreOwn
  <2>4. CASE u = v /\ i \notin DOMAIN responses[v]
    BY <1>1, <1>4, <2>4, Extended
  <2>5. QED
    BY <2>2, <2>3, <2>4
<1>9. \A u \in Members : \A i \in DOMAIN requests'[u] : sub[requests'[u][i]].user = u
  BY DEF AInv, QueuesAreOwn
<1>10. QED
  BY <1>7, <1>8, <1>9 DEF AInv, QueuesAreOwn

LEMMA ServiceReceiveAInv ==
  ASSUME AInv, NEW u \in Members, ServiceReceive(u)
  PROVE  AInv'
<1> DEFINE t == Head(requests[u])
<1>1. /\ running /\ requests[u] # <<>>
      /\ requests' = [requests EXCEPT ![u] = Tail(@)]
      /\ \/ /\ responses' = [responses EXCEPT ![u] = Append(@, [try |-> t, ok |-> FALSE])]
            /\ UNCHANGED handleTail
         \/ /\ handleTail' = Append(handleTail, [try |-> t, at |-> clock, live |-> TRUE])
            /\ UNCHANGED responses
      /\ UNCHANGED <<clock, callFeed, copied, client, link, stored, references, running, step, served, known, log>>
  BY DEF ServiceReceive
<1>2. requests[u] \in Seq(Tries)
  BY DEF AInv, AttestOK, WireType
<1>3. /\ t \in Tries /\ Tail(requests[u]) \in Seq(Tries) /\ 1 \in DOMAIN requests[u] /\ t = requests[u][1]
      /\ \A i \in DOMAIN Tail(requests[u]) : i + 1 \in DOMAIN requests[u] /\ Tail(requests[u])[i] = requests[u][i + 1]
  BY <1>1, <1>2, Taken
<1>4. sub[t].user = u
  BY <1>3 DEF AInv, QueuesAreOwn
<1> HIDE DEF t
<1>5. /\ requests' \in [Members -> Seq(Tries)]
      /\ \A v \in Members : \A i \in DOMAIN requests'[v] :
           \E j \in DOMAIN requests[v] : requests'[v][i] = requests[v][j]
  <2>1. requests'[u] = Tail(requests[u]) /\ \A v \in Members : v # u => requests'[v] = requests[v]
    BY <1>1 DEF AInv, AttestOK, WireType
  <2>2. requests' \in [Members -> Seq(Tries)]
    BY <1>1, <1>3 DEF AInv, AttestOK, WireType
  <2>3. ASSUME NEW v \in Members, NEW i \in DOMAIN requests'[v]
        PROVE  \E j \in DOMAIN requests[v] : requests'[v][i] = requests[v][j]
    <3>1. CASE v = u
      BY <1>3, <2>1, <2>3, <3>1
    <3>2. CASE v # u
      BY <2>1, <2>3, <3>2
    <3>3. QED
      BY <3>1, <3>2
  <2>4. QED
    BY <2>2, <2>3
<1>6. /\ CallFeedType' /\ ClientType' /\ PlacesType' /\ TriesAreFixed' /\ PlacesAddUp'
      /\ OneReceiptEach' /\ ReceiptsBind' /\ TokensAreKept' /\ ReferencesVerify'
  BY <1>1, ServiceFrame DEF client
<1>7. WireType' /\ QueuesAreOwn'
  <2>1. CASE responses' = [responses EXCEPT ![u] = Append(@, [try |-> t, ok |-> FALSE])]
    BY <1>1, <1>3, <1>4, <1>5, <2>1, AnswerSent DEF client
  <2>2. CASE UNCHANGED responses
    <3>1. WireType'
      BY <1>1, <1>5, <2>2 DEF AInv, AttestOK, WireType
    <3>2. QueuesAreOwn'
      BY <1>1, <1>5, <2>2, ShorterQueues DEF client
    <3>3. QED
      BY <3>1, <3>2
  <2>3. QED
    BY <1>1, <2>1, <2>2
<1>8. ServiceType' /\ TurnIsSound'
  <2>1. CASE UNCHANGED handleTail
    BY <1>1, <2>1, AttestFrames DEF AInv, AttestOK, service, client
  <2>2. CASE handleTail' = Append(handleTail, [try |-> t, at |-> clock, live |-> TRUE])
    <3> DEFINE e == [try |-> t, at |-> clock, live |-> TRUE]
    <3>1. e \in Entries /\ e.try = t
      BY <1>3 DEF Entries, AInv, AttestOK, CallFeedType
    <3> HIDE DEF e
    <3>2. handleTail \in Seq(Entries) /\ handleTail' = Append(handleTail, e)
      BY <2>2 DEF AInv, AttestOK, ServiceType, e
    <3>3. /\ handleTail' \in Seq(Entries) /\ handleTail' # <<>>
          /\ handleTail # <<>> => Head(handleTail') = Head(handleTail)
          /\ \A i \in DOMAIN handleTail' : 
               (i \in DOMAIN handleTail /\ handleTail'[i] = handleTail[i]) \/ handleTail'[i] = e
      BY <3>1, <3>2, Extended
    <3>4. ServiceType'
      BY <1>1, <3>3 DEF AInv, AttestOK, ServiceType
    <3>5. sub[t] # Unused
      BY <1>3, <1>4, KnownTries
    <3>6. \A i \in DOMAIN handleTail' : sub'[handleTail'[i].try] # Unused
      BY <1>1, <3>1, <3>3, <3>5 DEF AInv, TurnIsSound, client
    <3>7. TurnIsSound'
      BY <1>1, <3>3, <3>6 DEF AInv, TurnIsSound, client, callFeed, Reloaded, Fresh, SameAnswer, ReceivedInTime,
                           OpenCall, OpenBy, SettledBy
    <3>8. QED
      BY <3>4, <3>7
  <2>3. QED
    BY <1>1, <2>1, <2>2
<1>9. QED
  BY <1>6, <1>7, <1>8 DEF AInv, AttestOK

\* A submission that is done with is answered, and the next one's turn comes.
LEMMA FinishKeeps ==
  ASSUME AInv, handleTail # <<>>, NEW ok \in BOOLEAN, Finish(ok),
         UNCHANGED <<sub, phase, waiters, link, requests>>
  PROVE  /\ WireType' /\ QueuesAreOwn'
         /\ handleTail' \in Seq(Entries) /\ step' = "idle"
         /\ \A i \in DOMAIN handleTail' : \E j \in DOMAIN handleTail : handleTail'[i] = handleTail[j]
<1> DEFINE t == Head(handleTail).try
<1>1. /\ t \in Tries /\ sub[t] \in Submissions /\ Tail(handleTail) \in Seq(Entries)
      /\ \A i \in DOMAIN Tail(handleTail) : i + 1 \in DOMAIN handleTail /\ Tail(handleTail)[i] = handleTail[i + 1]
  <2>1. handleTail \in Seq(Entries)
    BY DEF AInv, AttestOK, ServiceType
  <2>2. /\ Tail(handleTail) \in Seq(Entries)
        /\ \A i \in DOMAIN Tail(handleTail) : i + 1 \in DOMAIN handleTail /\ Tail(handleTail)[i] = handleTail[i + 1]
    BY <2>1, Taken
  <2>3. t \in Tries /\ sub[t] # Unused
    BY Elements, KnownTries DEF AInv, AttestOK, Entries
  <2>4. QED
    BY <2>2, <2>3 DEF AInv, AttestOK, ClientType
<1>2. /\ handleTail' = Tail(handleTail) /\ step' = "idle"
      /\ \/ responses' = responses
         \/ responses' = [responses EXCEPT ![sub[t].user] = Append(@, [try |-> t, ok |-> ok])]
  BY DEF Finish
<1> HIDE DEF t
<1>3. sub[t].user \in Members
  BY <1>1 DEF Submissions
<1>4. requests' \in [Members -> Seq(Tries)]
  BY DEF AInv, AttestOK, WireType
<1>5. \A u \in Members : \A i \in DOMAIN requests'[u] : \E j \in DOMAIN requests[u] : requests'[u][i] = requests[u][j]
  OBVIOUS
<1>6. CASE responses' = responses
  BY <1>1, <1>2, <1>6, AttestFrames DEF AInv, AttestOK, wires
<1>7. CASE responses' = [responses EXCEPT ![sub[t].user] = Append(@, [try |-> t, ok |-> ok])]
  <2>1. WireType' /\ QueuesAreOwn'
    BY <1>1, <1>3, <1>4, <1>5, <1>7, AnswerSent
  <2>2. QED
    BY <1>1, <1>2, <2>1
<1>8. QED
  BY <1>2, <1>6, <1>7

\* The first submission leaves, and with it what was known of it.
LEMMA TurnsOver ==
  ASSUME AInv, UNCHANGED <<sub, callFeed, running, log>>,
         handleTail' \in Seq(Entries), step' = "idle", running \/ handleTail' = <<>>,
         \A i \in DOMAIN handleTail' : \E j \in DOMAIN handleTail : handleTail'[i] = handleTail[j],
         served' \in Nat, served' <= feedLength,
         known' = IF running THEN Reloaded ELSE {}
  PROVE  ServiceType' /\ TurnIsSound'
<1>1. Reloaded \subseteq Tries
  BY KnownTries
<1>2. ServiceType'
  BY <1>1 DEF AInv, AttestOK, ServiceType
<1>3. \A i \in DOMAIN handleTail' : sub[handleTail'[i].try] # Unused
  BY DEF AInv, TurnIsSound
<1>4. TurnIsSound'
  BY <1>3 DEF AInv, TurnIsSound, Reloaded, callFeed
<1>5. QED
  BY <1>2, <1>4

LEMMA CheckAInv ==
  ASSUME AInv, Check
  PROVE  AInv'
<1>1. /\ handleTail # <<>> /\ step = "idle" /\ running /\ known = Reloaded
      /\ UNCHANGED <<clock, callFeed, copied, client, link, requests, stored, references, running, served, known, log>>
  BY DEF Check, AInv, TurnIsSound
<1>2. CallFeedType' /\ ClientType' /\ PlacesType' /\ TriesAreFixed' /\ PlacesAddUp'
      /\ OneReceiptEach' /\ ReceiptsBind' /\ TokensAreKept' /\ ReferencesVerify'
  BY <1>1, ServiceFrame DEF client
<1>3. CASE Fresh(Head(handleTail).try) /\ step' = "checked" /\ UNCHANGED <<handleTail, responses>>
  <2>1. WireType' /\ QueuesAreOwn'
    BY <1>1, <1>3, AttestFrames DEF AInv, AttestOK, wires, client
  <2>2. ServiceType'
    BY <1>1, <1>3 DEF AInv, AttestOK, ServiceType
  <2>3. TurnIsSound'
    BY <1>1, <1>3 DEF AInv, TurnIsSound, Fresh, SameAnswer, Reloaded, callFeed, client
  <2>4. QED
    BY <1>2, <2>1, <2>2, <2>3 DEF AInv, AttestOK
<1>4. CASE Finish(FALSE)
  <2>1. served \in Nat /\ served <= feedLength
    BY DEF AInv, AttestOK, ServiceType, TurnIsSound
  <2>2. QED
    BY <1>1, <1>2, <1>4, <2>1, FinishKeeps, TurnsOver DEF AInv, AttestOK, client
<1>5. QED
  BY <1>3, <1>4 DEF Check

LEMMA BindAInv ==
  ASSUME AInv, Bind \/ FeedUnavailable
  PROVE  AInv'
<1>1. /\ handleTail # <<>> /\ step = "checked" /\ running /\ known = Reloaded
      /\ Fresh(Head(handleTail).try)
      /\ UNCHANGED <<clock, callFeed, copied, client, link, requests, stored, references, running, known, log>>
  BY DEF Bind, FeedUnavailable, AInv, TurnIsSound
<1>2. served' \in Nat /\ served' <= feedLength
  <2>1. served \in Nat /\ feedLength \in Nat
    BY DEF AInv, AttestOK, CallFeedType, ServiceType
  <2>2. served' \in served .. feedLength \/ served' \in served .. feedLength - 1
    BY DEF Bind, FeedUnavailable
  <2>3. QED
    BY <2>1, <2>2
<1>3. CallFeedType' /\ ClientType' /\ PlacesType' /\ TriesAreFixed' /\ PlacesAddUp'
      /\ OneReceiptEach' /\ ReceiptsBind' /\ TokensAreKept' /\ ReferencesVerify'
  BY <1>1, ServiceFrame DEF client
<1>4. CASE /\ OpenCall(served', sub[Head(handleTail).try].call) /\ ReceivedInTime(Head(handleTail))
           /\ step' = "bound" /\ UNCHANGED <<handleTail, responses>>
  <2>1. WireType' /\ QueuesAreOwn'
    BY <1>1, <1>4, AttestFrames DEF AInv, AttestOK, wires, client
  <2>2. ServiceType'
    BY <1>1, <1>2, <1>4 DEF AInv, AttestOK, ServiceType
  <2>3. TurnIsSound'
    BY <1>1, <1>2, <1>4 DEF AInv, TurnIsSound, Fresh, SameAnswer, Reloaded, ReceivedInTime,
                          OpenCall, OpenBy, SettledBy, callFeed, client
  <2>4. QED
    BY <1>3, <2>1, <2>2, <2>3 DEF AInv, AttestOK
<1>5. CASE Finish(FALSE)
  BY <1>1, <1>2, <1>3, <1>5, FinishKeeps, TurnsOver DEF AInv, AttestOK, client
<1>6. QED
  BY <1>4, <1>5 DEF Bind, FeedUnavailable

LEMMA RememberAInv ==
  ASSUME AInv, Remember
  PROVE  AInv'
<1>1. /\ handleTail # <<>> /\ step = "durable" /\ running
      /\ known' = Reloaded /\ Finish(TRUE)
      /\ UNCHANGED <<clock, callFeed, copied, client, link, requests, stored, references, running, served, log>>
  BY DEF Remember, AInv, TurnIsSound
<1>2. served \in Nat /\ served <= feedLength
  BY DEF AInv, AttestOK, ServiceType, TurnIsSound
<1>3. CallFeedType' /\ ClientType' /\ PlacesType' /\ TriesAreFixed' /\ PlacesAddUp'
      /\ OneReceiptEach' /\ ReceiptsBind' /\ TokensAreKept' /\ ReferencesVerify'
  BY <1>1, ServiceFrame DEF client
<1>4. QED
  BY <1>1, <1>2, <1>3, FinishKeeps, TurnsOver DEF AInv, AttestOK, client

LEMMA AppendReceiptAInv ==
  ASSUME AInv, AppendReceipt
  PROVE  AInv'
<1> DEFINE h == Head(handleTail).try
           r == [try |-> h, at |-> Head(handleTail).at, length |-> served]
<1>1. /\ handleTail # <<>> /\ step = "bound" /\ running /\ known = Reloaded
      /\ Fresh(h) /\ OpenCall(served, sub[h].call)
      /\ log' = Append(log, r) /\ step' = "durable"
      /\ UNCHANGED <<clock, callFeed, copied, client, wires, stored, references, running, handleTail, served, known>>
  BY DEF AppendReceipt, AInv, TurnIsSound
<1>2. h \in Tries /\ sub[h] # Unused
  BY <1>1, Elements, KnownTries DEF AInv, AttestOK, Entries
<1>3. r \in Receipts /\ r.try = h /\ r.length = served
  BY <1>1, <1>2, Elements DEF Receipts, Entries, AInv, AttestOK, ServiceType
<1> HIDE DEF h, r
<1>4. /\ log \in Seq(Receipts) /\ log' \in Seq(Receipts)
      /\ DOMAIN log \subseteq DOMAIN log' /\ Len(log) + 1 \in DOMAIN log' /\ log'[Len(log) + 1] = r
      /\ \A i \in DOMAIN log : log'[i] = log[i]
      /\ \A i \in DOMAIN log' : i \in DOMAIN log \/ i = Len(log) + 1
  <2>1. log \in Seq(Receipts)
    BY DEF AInv, AttestOK, ServiceType
  <2>2. QED
    BY <1>1, <1>3, <2>1, Extended
<1>5. Reloaded' = Reloaded \cup {h}
  BY <1>3, <1>4 DEF Reloaded
<1>6. /\ CallFeedType' /\ ClientType' /\ WireType' /\ PlacesType'
      /\ TriesAreFixed' /\ PlacesAddUp' /\ QueuesAreOwn'
  BY <1>1, ServiceFrame, AttestFrames DEF client, wires, AInv, AttestOK
<1>7. ServiceType'
  BY <1>1, <1>4 DEF AInv, AttestOK, ServiceType
<1>8. TurnIsSound'
  <2>1. Head(handleTail') = Head(handleTail)
    BY <1>1
  <2>2. QED
    BY <1>1, <1>5, <2>1 DEF AInv, TurnIsSound, h, client, callFeed
<1>9. OneReceiptEach'
  <2>1. \A i \in DOMAIN log : log[i].try # h /\ ~SameAnswer(log[i].try, h)
    BY <1>1 DEF Fresh, Reloaded
  <2>2. \A i \in DOMAIN log : ~SameAnswer(h, log[i].try)
    BY <2>1 DEF SameAnswer
  <2>3. sub' = sub
    BY <1>1 DEF client
  <2>4. ASSUME NEW i \in DOMAIN log', NEW j \in DOMAIN log',
               log'[i].try = log'[j].try \/ SameAnswer(log'[i].try, log'[j].try)
        PROVE  i = j
    <3>1. CASE i \in DOMAIN log /\ j \in DOMAIN log
      BY <1>4, <2>4, <3>1 DEF AInv, OneReceiptEach
    <3>2. CASE i \in DOMAIN log /\ j \notin DOMAIN log
      BY <1>3, <1>4, <2>1, <2>4, <3>2
    <3>3. CASE i \notin DOMAIN log /\ j \in DOMAIN log
      BY <1>3, <1>4, <2>1, <2>2, <2>4, <3>3
    <3>4. CASE i \notin DOMAIN log /\ j \notin DOMAIN log
      BY <1>4, <3>4
    <3>5. QED
      BY <3>1, <3>2, <3>3, <3>4
  <2>5. QED
    BY <2>3, <2>4 DEF OneReceiptEach, SameAnswer
<1>10. ReceiptsBind'
  <2>1. served <= feedLength
    BY DEF AInv, TurnIsSound
  <2>2. \A i \in DOMAIN log' : \/ i \in DOMAIN log /\ log'[i] = log[i]
                               \/ log'[i] = r
    BY <1>4
  <2>3. \A i \in DOMAIN log' :
          /\ sub[log'[i].try] # Unused
          /\ OpenCall(log'[i].length, sub[log'[i].try].call)
          /\ log'[i].length <= feedLength
    BY <1>1, <1>2, <1>3, <2>1, <2>2 DEF AInv, ReceiptsBind
  <2>4. QED
    BY <1>1, <2>3 DEF ReceiptsBind, OpenCall, OpenBy, SettledBy, client, callFeed
<1>11. TokensAreKept' /\ ReferencesVerify'
  BY <1>1, <1>4 DEF AInv, TokensAreKept, ReferencesVerify, client
<1>12. QED
  BY <1>6, <1>7, <1>8, <1>9, <1>10, <1>11 DEF AInv, AttestOK

LEMMA ServiceStopAInv ==
  ASSUME AInv, ServiceStop
  PROVE  AInv'
<1>1. /\ running' = FALSE /\ handleTail' = <<>> /\ step' = "idle" /\ known' = {}
      /\ Disconnected(Members)
      /\ phase' = [t \in Tries |-> IF phase[t] = "pending" THEN "failed" ELSE phase[t]]
      /\ inFlight' = [u \in Members |-> inFlight[u] - Cardinality(PendingOf(u))]
      /\ UNCHANGED <<clock, callFeed, copied, sub, waiters, stored, references, served, log>>
  BY DEF ServiceStop
<1>2. /\ phase' \in [Tries -> Phases]
      /\ \A s \in Tries : phase'[s] # phase[s] => phase[s] = "pending" /\ phase'[s] = "failed"
  BY <1>1 DEF AInv, AttestOK, ClientType, Phases
<1>3. ASSUME NEW u \in Members
      PROVE  /\ Cardinality(InFlightOf(u)') = inFlight[u] - Cardinality(PendingOf(u))
             /\ inFlight[u] - Cardinality(PendingOf(u)) \in 0 .. MaxInFlight
  <2>1. PendingOf(u) \subseteq InFlightOf(u) /\ InFlightOf(u)' = InFlightOf(u) \ PendingOf(u)
    BY <1>1 DEF PendingOf, InFlightOf, InFlight
  <2>2. InFlightOf(u) \cap PendingOf(u) = PendingOf(u)
    BY <2>1
  <2>3. Cardinality(InFlightOf(u)') = Cardinality(InFlightOf(u)) - Cardinality(PendingOf(u))
    BY <2>1, <2>2, PlacesAreFinite, FS_Difference
  <2>4. Cardinality(PendingOf(u)) \in Nat /\ Cardinality(PendingOf(u)) <= Cardinality(InFlightOf(u))
    BY <2>1, PlacesAreFinite, FS_Subset, FS_CardinalityType
  <2>5. inFlight[u] = Cardinality(InFlightOf(u)) /\ inFlight[u] \in 0 .. MaxInFlight
    BY DEF AInv, AttestOK, PlacesType, PlacesAddUp
  <2>6. QED
    BY <2>3, <2>4, <2>5, AttestConstants
<1>4. PlacesType' /\ PlacesAddUp'
  BY <1>1, <1>3 DEF PlacesType, PlacesAddUp
<1>5. WireType' /\ QueuesAreOwn'
  <2>1. \A s \in Tries : phase[s] = "waiting" => phase'[s] = "waiting"
    BY <1>2
  <2>2. QED
    BY <1>1, <2>1, DisconnectedQueues, ShorterQueues
<1>6. TriesAreFixed'
  <2>1. \A s \in references : s \in Tries
    BY DEF AInv, AttestOK, ClientType
  <2>2. QED
    BY <1>1, <1>2, <2>1 DEF AInv, TriesAreFixed, callFeed
<1>7. AttestOK' /\ TurnIsSound'
  <2>1. ClientType'
    BY <1>1, <1>2 DEF AInv, AttestOK, ClientType
  <2>2. ServiceType'
    <3>1. served \in Nat /\ log \in Seq(Receipts)
      BY DEF AInv, AttestOK, ServiceType
    <3>2. <<>> \in Seq(Entries)
      OBVIOUS
    <3>3. QED
      BY <1>1, <3>1, <3>2 DEF ServiceType
  <2>3. TurnIsSound'
    BY <1>1 DEF AInv, TurnIsSound, callFeed
  <2>4. QED
    BY <1>1, <1>4, <1>5, <2>1, <2>2, <2>3, AttestFrames DEF AInv, AttestOK
<1>8. TokensAreKept'
  BY <1>1, <1>2 DEF AInv, TokensAreKept
<1>9. OneReceiptEach' /\ ReceiptsBind' /\ ReferencesVerify'
  BY <1>1, AttestFrames DEF AInv
<1>10. QED
  BY <1>4, <1>5, <1>6, <1>7, <1>8, <1>9 DEF AInv

LEMMA ServiceStartAInv ==
  ASSUME AInv, ServiceStart
  PROVE  AInv'
<1>1. /\ ~running /\ running' = TRUE /\ known' = Reloaded
      /\ handleTail = <<>> /\ step = "idle"
      /\ UNCHANGED <<clock, callFeed, copied, client, wires, stored, references, handleTail, step, served, log>>
  BY DEF ServiceStart, AInv, AttestOK, ServiceType, TurnIsSound
<1>2. CallFeedType' /\ ClientType' /\ PlacesType' /\ TriesAreFixed' /\ PlacesAddUp'
      /\ OneReceiptEach' /\ ReceiptsBind' /\ TokensAreKept' /\ ReferencesVerify'
  BY <1>1, ServiceFrame DEF client
<1>3. WireType' /\ QueuesAreOwn'
  BY <1>1, AttestFrames DEF AInv, AttestOK, client, wires
<1>4. ServiceType'
  BY <1>1, KnownTries DEF AInv, AttestOK, ServiceType
<1>5. TurnIsSound'
  BY <1>1 DEF AInv, TurnIsSound, Reloaded, callFeed
<1>6. QED
  BY <1>2, <1>3, <1>4, <1>5 DEF AInv, AttestOK

LEMMA NextAInv == AInv /\ [AttestNext]_attestVars => AInv'
<1>1. AInv /\ ServiceNext => AInv'
  BY ServiceReceiveAInv, CheckAInv, BindAInv, AppendReceiptAInv, RememberAInv, ServiceStopAInv,
     ServiceStartAInv DEF ServiceNext
<1>2. AInv /\ UNCHANGED attestVars => AInv'
  BY AttestFrames DEF AInv, AttestOK, attestVars, client, callFeed, wires, service
<1>3. QED
  BY <1>1, <1>2, ClientNextAInv, CallFeedNextAInv DEF AttestNext

-----------------------------------------------------------------------------
\* The invariant holds throughout.
THEOREM AttestationIsSound == AttestSpec => []AInv
BY InitAInv, NextAInv, PTL DEF AttestSpec

\* Every value stays in its type; in particular the count of submissions in
\* flight stays between nothing and its cap.
THEOREM AttestationTypes == AttestSpec => []AttestOK
<1>1. AInv => AttestOK
  BY DEF AInv
<1>2. QED
  BY <1>1, AttestationIsSound, PTL

\* Whatever is lost, late, repeated or stopped, a token a member was given is on
\* the receipt log and in its store, no place in flight leaks, every receipt is
\* bound to a prefix of the feed in which its call is open, and every reference
\* in a room has a receipt its member's replica verified.
THEOREM AnswersCount == AttestSpec => []AcceptedAnswersCount
<1>1. AInv => AcceptedAnswersCount
  <2>1. AInv => TriesAreAccounted
    BY DEF AInv, TokensAreKept, PlacesAddUp, InFlightOf, TriesAreAccounted
  <2>2. AInv => ReceiptsVerify
    BY DEF AInv, ReceiptsBind, ReferencesVerify, OpenCall, ReceiptsVerify
  <2>3. QED
    BY <2>1, <2>2 DEF AcceptedAnswersCount
<1>2. QED
  BY <1>1, AttestationIsSound, PTL

-----------------------------------------------------------------------------
(* The service implements the ledger. *)

\* What the ledger's variables stand for.
OfferedAnswers == {AnswerOf(t) : t \in OfferedTries}
AcceptedAnswers == {AnswerOf(t) : t \in Reloaded}
LockedCalls == {c \in Calls : openIndex[c] # 0 /\ locksAt[c] < clock}

LEMMA LedgerState ==
  Ledger!LedgerInit <=> OfferedAnswers = {} /\ AcceptedAnswers = {} /\ LockedCalls = {}
BY DEF Ledger!LedgerInit, OfferedAnswers, AcceptedAnswers, LockedCalls

\* The steps of the ledger.
LEMMA ForgetStep ==
  ASSUME OfferedAnswers' \subseteq OfferedAnswers, AcceptedAnswers' = AcceptedAnswers, LockedCalls' = LockedCalls
  PROVE  Ledger!LedgerNext
BY DEF Ledger!LedgerNext, Ledger!Forget, OfferedAnswers, AcceptedAnswers, LockedCalls

LEMMA LockStep ==
  ASSUME LockedCalls \subseteq LockedCalls', OfferedAnswers' = OfferedAnswers, AcceptedAnswers' = AcceptedAnswers
  PROVE  Ledger!LedgerNext
BY DEF Ledger!LedgerNext, Ledger!Lock, OfferedAnswers, AcceptedAnswers, LockedCalls

LEMMA OfferStep ==
  ASSUME NEW t \in Tries, sub[t] \in Submissions, sub[t].call \notin LockedCalls,
         OfferedAnswers' = OfferedAnswers \cup {AnswerOf(t)},
         AcceptedAnswers' = AcceptedAnswers, LockedCalls' = LockedCalls
  PROVE  Ledger!LedgerNext
<1>1. AnswerOf(t) \in Ledger!Answers /\ AnswerOf(t).call = sub[t].call
  BY DEF AnswerOf, Submissions, Ledger!Answers
<1>2. Ledger!Offer(AnswerOf(t))
  BY <1>1 DEF Ledger!Offer, OfferedAnswers, AcceptedAnswers, LockedCalls
<1>3. QED
  BY <1>1, <1>2 DEF Ledger!LedgerNext

LEMMA AcceptStep ==
  ASSUME NEW t \in Tries, sub[t] \in Submissions, AnswerOf(t) \in OfferedAnswers,
         \A k \in Reloaded : ~SameAnswer(k, t),
         AcceptedAnswers' = AcceptedAnswers \cup {AnswerOf(t)},
         OfferedAnswers' = OfferedAnswers, LockedCalls' = LockedCalls
  PROVE  Ledger!LedgerNext
<1>1. AnswerOf(t) \in Ledger!Answers
  BY DEF AnswerOf, Submissions, Ledger!Answers
<1>2. \A b \in AcceptedAnswers : ~Ledger!SameAnswer(AnswerOf(t), b)
  BY DEF AcceptedAnswers, Ledger!SameAnswer, SameAnswer, AnswerOf
<1>3. Ledger!Accept(AnswerOf(t))
  BY <1>1, <1>2 DEF Ledger!Accept, OfferedAnswers, AcceptedAnswers, LockedCalls
<1>4. QED
  BY <1>1, <1>3 DEF Ledger!LedgerNext

\* No step changes what a started try submits or when a published call locks.
KeepsTries ==
  /\ \A t \in Tries : sub[t] # Unused => sub'[t] = sub[t]
  /\ \A c \in Calls : openIndex[c] # 0 => locksAt'[c] = locksAt[c]

LEMMA StartedTries ==
  ASSUME AInv, KeepsTries, NEW t \in Tries, sub[t] # Unused
  PROVE  /\ sub[t] \in Submissions
         /\ AnswerOf(t)' = AnswerOf(t)
         /\ locksAt'[sub'[t].call] = locksAt[sub[t].call]
<1>1. sub[t] \in Submissions /\ sub'[t] = sub[t] /\ openIndex[sub[t].call] # 0
  BY DEF KeepsTries, AInv, AttestOK, ClientType, TriesAreFixed
<1>2. sub[t].call \in Calls
  BY <1>1 DEF Submissions
<1>3. locksAt'[sub'[t].call] = locksAt[sub[t].call]
  BY <1>1, <1>2 DEF KeepsTries
<1>4. AnswerOf(t)' = AnswerOf(t)
  BY <1>1 DEF AnswerOf
<1>5. QED
  BY <1>1, <1>3, <1>4

LEMMA QueuedTries ==
  ASSUME AInv
  PROVE  /\ \A j \in DOMAIN handleTail : handleTail[j].try \in Tries /\ sub[handleTail[j].try] # Unused
         /\ \A t \in Reloaded : t \in Tries /\ sub[t] # Unused
BY Elements, KnownTries DEF AInv, AttestOK, TurnIsSound

\* Submissions that stay in the queue stay offered, and no others become so.
LEMMA OfferedShrinks ==
  ASSUME AInv, KeepsTries,
         \A i \in DOMAIN handleTail' : \E j \in DOMAIN handleTail :
           handleTail'[i].try = handleTail[j].try /\ handleTail'[i].at = handleTail[j].at
  PROVE  OfferedAnswers' \subseteq OfferedAnswers
<1>1. SUFFICES ASSUME NEW t \in OfferedTries' PROVE t \in OfferedTries /\ AnswerOf(t)' = AnswerOf(t)
  BY DEF OfferedAnswers
<1>2. PICK i \in DOMAIN handleTail' :
        t = handleTail'[i].try /\ handleTail'[i].at <= locksAt'[sub'[handleTail'[i].try].call]
  BY <1>1 DEF OfferedTries
<1>3. PICK j \in DOMAIN handleTail : t = handleTail[j].try /\ handleTail[j].at <= locksAt'[sub'[t].call]
  BY <1>2
<1>4. AnswerOf(t)' = AnswerOf(t) /\ locksAt'[sub'[t].call] = locksAt[sub[t].call]
  BY <1>3, QueuedTries, StartedTries
<1>5. QED
  BY <1>3, <1>4 DEF OfferedTries

LEMMA OfferedStay ==
  ASSUME AInv, KeepsTries, DOMAIN handleTail' = DOMAIN handleTail,
         \A i \in DOMAIN handleTail :
           handleTail'[i].try = handleTail[i].try /\ handleTail'[i].at = handleTail[i].at
  PROVE  OfferedAnswers' = OfferedAnswers
<1>1. OfferedAnswers' \subseteq OfferedAnswers
  BY OfferedShrinks
<1>2. SUFFICES ASSUME NEW t \in OfferedTries PROVE t \in OfferedTries' /\ AnswerOf(t)' = AnswerOf(t)
  BY <1>1 DEF OfferedAnswers
<1>3. PICK j \in DOMAIN handleTail : t = handleTail[j].try /\ handleTail[j].at <= locksAt[sub[t].call]
  BY DEF OfferedTries
<1>4. AnswerOf(t)' = AnswerOf(t) /\ locksAt'[sub'[t].call] = locksAt[sub[t].call]
  BY <1>3, QueuedTries, StartedTries
<1>5. j \in DOMAIN handleTail' /\ handleTail'[j].try = t /\ handleTail'[j].at <= locksAt'[sub'[handleTail'[j].try].call]
  BY <1>3, <1>4
<1>6. t \in OfferedTries'
  BY <1>5 DEF OfferedTries
<1>7. QED
  BY <1>4, <1>6

LEMMA AcceptedStay ==
  ASSUME AInv, KeepsTries, UNCHANGED log
  PROVE  AcceptedAnswers' = AcceptedAnswers
<1>1. Reloaded' = Reloaded
  BY DEF Reloaded
<1>2. \A t \in Reloaded : AnswerOf(t)' = AnswerOf(t)
  BY QueuedTries, StartedTries
<1>3. QED
  BY <1>1, <1>2 DEF AcceptedAnswers

LEMMA SameTries ==
  ASSUME UNCHANGED <<sub, callFeed>>
  PROVE  KeepsTries
BY DEF KeepsTries, callFeed

LEMMA SameCalls ==
  ASSUME UNCHANGED <<clock, callFeed>>
  PROVE  LockedCalls' = LockedCalls
BY DEF LockedCalls, callFeed

\* The feed and the clock lock calls, and do nothing else.
LEMMA CallFeedRefines ==
  ASSUME AInv, CallFeedNext
  PROVE  Ledger!LedgerNext
<1> USE DEF callFeed, client, service
<1>1. UNCHANGED <<sub, handleTail, log>>
  BY DEF CallFeedNext, ClockTicks, PublishOther, PublishSettlement, PublishCall, Replicate
<1>2. clock \in Nat /\ openIndex \in [Calls -> Nat] /\ locksAt \in [Calls -> ClockTimes] /\ ClockTimes \subseteq Nat
  BY AttestConstants DEF AInv, AttestOK, CallFeedType, ClockTimes
<1>3. /\ \A c \in Calls : openIndex[c] # 0 => openIndex'[c] = openIndex[c] /\ locksAt'[c] = locksAt[c]
      /\ clock <= clock' /\ clock' \in Nat
  <2>1. CASE ClockTicks
    BY <1>2, <2>1 DEF ClockTicks
  <2>2. CASE PublishOther \/ (\E c \in Calls : PublishSettlement(c)) \/ (\E u \in Members : Replicate(u))
    BY <1>2, <2>2 DEF PublishOther, PublishSettlement, Replicate
  <2>3. ASSUME NEW c \in Calls, NEW lock \in ClockTimes, PublishCall(c, lock)
        PROVE  <1>3!1 /\ <1>3!2
    BY <1>2, <2>3 DEF PublishCall
  <2>4. QED
    BY <2>1, <2>2, <2>3 DEF CallFeedNext
<1>4. KeepsTries
  BY <1>1, <1>3 DEF KeepsTries
<1>5. LockedCalls \subseteq LockedCalls'
  <2>1. SUFFICES ASSUME NEW c \in Calls, openIndex[c] # 0, locksAt[c] < clock
                 PROVE  openIndex'[c] # 0 /\ locksAt'[c] < clock'
    BY DEF LockedCalls
  <2>2. locksAt[c] \in Nat
    BY <1>2
  <2>3. QED
    BY <1>2, <1>3, <2>1, <2>2
<1>6. OfferedAnswers' = OfferedAnswers /\ AcceptedAnswers' = AcceptedAnswers
  BY <1>1, <1>4, OfferedStay, AcceptedStay
<1>7. QED
  BY <1>5, <1>6, LockStep

\* Nothing the members do is an answer yet.
LEMMA ClientRefines ==
  ASSUME AInv, ClientNext
  PROVE  Ledger!LedgerNext
<1> USE DEF callFeed, client, service, wires
<1>1. UNCHANGED <<clock, callFeed, log>>
  BY DEF ClientNext, Submit, Connect, RequestTimeout, Respond, ReadReceipt, ReadFails, AppendReference,
         Disconnect, RestartClient
<1>2. KeepsTries
  <2>1. ASSUME NEW t \in Tries, NEW u \in Members, NEW c \in Calls, NEW r \in Rooms, Submit(t, u, c, r)
        PROVE  \A s \in Tries : sub[s] # Unused => sub'[s] = sub[s]
    BY <2>1 DEF Submit, IsNextTry, AInv, AttestOK, ClientType, TriesAreFixed
  <2>2. ASSUME NEW t \in Tries, RequestTimeout(t) \/ ReadReceipt(t) \/ ReadFails(t) \/ AppendReference(t)
        PROVE  sub' = sub
    BY <2>2 DEF RequestTimeout, ReadReceipt, ReadFails, AppendReference
  <2>3. ASSUME NEW u \in Members, Connect(u) \/ Respond(u) \/ Disconnect(u) \/ RestartClient(u)
        PROVE  sub' = sub
    BY <2>3 DEF Connect, Respond, Disconnect, RestartClient
  <2>4. QED
    BY <1>1, <2>1, <2>2, <2>3 DEF ClientNext, KeepsTries
<1>3. OfferedAnswers' = OfferedAnswers
  <2>1. ASSUME NEW u \in Members, Disconnect(u) \/ RestartClient(u)
        PROVE  OfferedAnswers' = OfferedAnswers
    BY <1>2, <2>1, HangupKeeps, OfferedStay DEF Disconnect, RestartClient
  <2>2. CASE UNCHANGED handleTail
    BY <1>2, <2>2, OfferedStay
  <2>3. UNCHANGED handleTail \/ \E u \in Members : Disconnect(u) \/ RestartClient(u)
    BY ZenonT(60) DEF ClientNext, Submit, Connect, RequestTimeout, Respond, ReadReceipt, ReadFails, AppendReference
  <2>4. QED
    BY <2>1, <2>2, <2>3
<1>4. QED
  BY <1>1, <1>2, <1>3, AcceptedStay, SameCalls, ForgetStep

LEMMA ReceiveRefines ==
  ASSUME AInv, NEW u \in Members, ServiceReceive(u)
  PROVE  Ledger!LedgerNext
<1> DEFINE t == Head(requests[u])
           e == [try |-> t, at |-> clock, live |-> TRUE]
<1>1. /\ requests[u] # <<>> /\ UNCHANGED <<clock, callFeed, sub, log>>
      /\ UNCHANGED handleTail \/ handleTail' = Append(handleTail, e)
  BY DEF ServiceReceive, client
<1>2. t \in Tries /\ sub[t] # Unused
  <2>1. requests[u] \in Seq(Tries)
    BY DEF AInv, AttestOK, WireType
  <2>2. t \in Tries /\ 1 \in DOMAIN requests[u] /\ t = requests[u][1]
    BY <1>1, <2>1, Taken
  <2>3. sub[t].user = u
    BY <2>2 DEF AInv, QueuesAreOwn
  <2>4. QED
    BY <2>2, <2>3, KnownTries
<1>3. KeepsTries
  BY <1>1, SameTries
<1>4. AcceptedAnswers' = AcceptedAnswers /\ LockedCalls' = LockedCalls
  BY <1>1, <1>3, AcceptedStay, SameCalls
<1>5. CASE UNCHANGED handleTail
  BY <1>3, <1>4, <1>5, OfferedStay, ForgetStep
<1>6. CASE handleTail' = Append(handleTail, e)
  <2> HIDE DEF t
  <2>1. handleTail \in Seq(Entries) /\ e \in Entries /\ e.try = t /\ e.at = clock
    BY <1>2 DEF Entries, AInv, AttestOK, ServiceType, CallFeedType
  <2> HIDE DEF e
  <2>2. /\ DOMAIN handleTail \subseteq DOMAIN handleTail' /\ Len(handleTail) + 1 \in DOMAIN handleTail'
        /\ handleTail'[Len(handleTail) + 1] = e
        /\ \A i \in DOMAIN handleTail : handleTail'[i] = handleTail[i]
        /\ \A i \in DOMAIN handleTail' : i \in DOMAIN handleTail \/ i = Len(handleTail) + 1
    BY <1>6, <2>1, Extended
  <2>3. OfferedTries' = OfferedTries \cup (IF clock <= locksAt[sub[t].call] THEN {t} ELSE {})
    BY <1>1, <2>1, <2>2 DEF OfferedTries, callFeed
  <2>4. \A s \in Tries : AnswerOf(s)' = AnswerOf(s)
    BY <1>1 DEF AnswerOf
  <2>5. OfferedTries' \subseteq Tries /\ OfferedTries \subseteq Tries
    BY <1>2, <2>3, Elements DEF OfferedTries, AInv, AttestOK
  <2>6. CASE clock <= locksAt[sub[t].call]
    <3>1. OfferedAnswers' = OfferedAnswers \cup {AnswerOf(t)}
      BY <2>3, <2>4, <2>5, <2>6 DEF OfferedAnswers
    <3>2. sub[t] \in Submissions
      BY <1>2, <1>3, StartedTries
    <3>3. sub[t].call \notin LockedCalls
      BY <2>6, <3>2, AttestConstants DEF LockedCalls, Submissions, AInv, AttestOK, CallFeedType, ClockTimes
    <3>4. QED
      BY <1>2, <1>4, <3>1, <3>2, <3>3, OfferStep
  <2>7. CASE ~(clock <= locksAt[sub[t].call])
    <3>1. OfferedAnswers' \subseteq OfferedAnswers
      BY <2>3, <2>4, <2>5, <2>7 DEF OfferedAnswers
    <3>2. QED
      BY <1>4, <3>1, ForgetStep
  <2>8. QED
    BY <2>6, <2>7
<1>7. QED
  BY <1>1, <1>5, <1>6

\* A receipt: of a submission on offer, by a member with none for the call.
LEMMA ReceiptRefines ==
  ASSUME AInv, AppendReceipt
  PROVE  Ledger!LedgerNext
<1> DEFINE h == Head(handleTail).try
           r == [try |-> h, at |-> Head(handleTail).at, length |-> served]
<1>1. /\ handleTail # <<>> /\ running /\ known = Reloaded /\ Fresh(h) /\ ReceivedInTime(Head(handleTail))
      /\ log' = Append(log, r)
      /\ UNCHANGED <<clock, callFeed, sub, handleTail>>
  BY DEF AppendReceipt, AInv, TurnIsSound, client
<1>2. /\ h \in Tries /\ 1 \in DOMAIN handleTail /\ handleTail[1].try = h /\ sub[h] # Unused
      /\ handleTail[1].at <= locksAt[sub[handleTail[1].try].call]
  BY <1>1, Elements, QueuedTries DEF AInv, AttestOK, ReceivedInTime
<1>3. KeepsTries
  BY <1>1, SameTries
<1>4. OfferedAnswers' = OfferedAnswers /\ LockedCalls' = LockedCalls
  BY <1>1, <1>3, OfferedStay, SameCalls
<1>5. AnswerOf(h) \in OfferedAnswers
  BY <1>2 DEF OfferedAnswers, OfferedTries
<1>6. sub[h] \in Submissions
  BY <1>2, <1>3, StartedTries
<1>7. \A k \in Reloaded : ~SameAnswer(k, h)
  BY <1>1 DEF Fresh
<1>8. AcceptedAnswers' = AcceptedAnswers \cup {AnswerOf(h)}
  <2>1. log \in Seq(Receipts) /\ r \in Receipts /\ r.try = h
    BY <1>2, <1>1, Elements DEF Receipts, Entries, AInv, AttestOK, ServiceType
  <2> HIDE DEF h, r
  <2>2. Reloaded' = Reloaded \cup {h}
    BY <1>1, <2>1, Extended DEF Reloaded
  <2>3. \A s \in Tries : AnswerOf(s)' = AnswerOf(s)
    BY <1>1 DEF AnswerOf
  <2>4. QED
    BY <1>2, <2>2, <2>3, QueuedTries DEF AcceptedAnswers
<1> HIDE DEF h, r
<1>9. QED
  BY <1>2, <1>4, <1>5, <1>6, <1>7, <1>8, AcceptStep

LEMMA ServiceRefines ==
  ASSUME AInv, ServiceNext
  PROVE  Ledger!LedgerNext
<1>1. ASSUME Check \/ Bind \/ FeedUnavailable \/ Remember \/ ServiceStop \/ ServiceStart
      PROVE  Ledger!LedgerNext
  <2>1. UNCHANGED <<clock, callFeed, sub, log>>
    BY <1>1 DEF Check, Bind, FeedUnavailable, Remember, ServiceStop, ServiceStart, client
  <2>2. \/ UNCHANGED handleTail
        \/ handleTail' = <<>>
        \/ handleTail # <<>> /\ handleTail' = Tail(handleTail)
    BY <1>1 DEF Check, Bind, FeedUnavailable, Remember, ServiceStop, ServiceStart, Finish, AInv, TurnIsSound
  <2>3. \A i \in DOMAIN handleTail' : \E j \in DOMAIN handleTail : handleTail'[i] = handleTail[j]
    <3>1. handleTail \in Seq(Entries)
      BY DEF AInv, AttestOK, ServiceType
    <3>2. CASE handleTail # <<>> /\ handleTail' = Tail(handleTail)
      BY <3>1, <3>2, Taken
    <3>3. QED
      BY <2>2, <3>2
  <2>4. OfferedAnswers' \subseteq OfferedAnswers
    BY <2>1, <2>3, SameTries, OfferedShrinks
  <2>5. QED
    BY <2>1, <2>4, SameTries, SameCalls, AcceptedStay, ForgetStep
<1>2. QED
  BY <1>1, ReceiveRefines, ReceiptRefines DEF ServiceNext

\* The service keeps the ledger's promise: a receipt only for a submission it
\* received before the call's lock, one for a member and call, none withdrawn,
\* through stops at any point, lost answers and repeated submissions.
THEOREM ServiceKeepsLedger == AttestSpec => LedgerSpec
<1>1. AttestInit => Ledger!LedgerInit
  BY LedgerState DEF AttestInit, OfferedAnswers, AcceptedAnswers, LockedCalls, OfferedTries, Reloaded
<1>2. AInv /\ [AttestNext]_attestVars => [Ledger!LedgerNext]_<<OfferedAnswers, AcceptedAnswers, LockedCalls>>
  <2>1. SUFFICES ASSUME AInv, [AttestNext]_attestVars
                 PROVE  Ledger!LedgerNext
    OBVIOUS
  <2>2. CASE AttestNext
    BY <2>1, <2>2, CallFeedRefines, ClientRefines, ServiceRefines DEF AttestNext
  <2>3. CASE UNCHANGED attestVars
    <3>1. UNCHANGED <<clock, callFeed, sub, handleTail, log>>
      BY <2>3 DEF attestVars, client, service
    <3>2. QED
      BY <2>1, <3>1, SameTries, SameCalls, OfferedStay, AcceptedStay, ForgetStep
  <2>4. QED
    BY <2>1, <2>2, <2>3
<1>3. AInv /\ [AttestNext]_attestVars =>
        [Ledger!LedgerNext]_<<{AnswerOf(t) : t \in OfferedTries}, {AnswerOf(t) : t \in Reloaded},
                              {c \in Calls : openIndex[c] # 0 /\ locksAt[c] < clock}>>
  BY <1>2 DEF OfferedAnswers, AcceptedAnswers, LockedCalls
<1>4. QED
  BY <1>1, <1>3, AttestationIsSound, PTL DEF AttestSpec, LedgerSpec, Ledger!LedgerSpec

-----------------------------------------------------------------------------
(* The streams.  A connection starts at most Overlap events before the      *)
(* cursor, and a break may leave the cursor there: after that many breaks a *)
(* stream is behind what it handed on by their sum, and no further.         *)

Lag(b) == (Overlap - 1) * b

StreamTypes ==
  /\ conn \in [Streams -> Stages] /\ breaks \in 0 .. MaxBreaks
  /\ lastEventId \in [Streams -> Nat] /\ upcoming \in [Streams -> Nat \ {0}]
  /\ handed \in [Streams -> Seq(Nat)]

Sequenced(s) == \A i \in 1 .. Len(handed[s]) : handed[s][i] = i

\* How far an open connection, and the cursor of a closed one, may be behind.
\* The first connection of a stream is not behind at all.
OpenLag(s) ==
  conn[s] = "open" =>
    /\ upcoming[s] <= Len(handed[s]) + 1 /\ Len(handed[s]) <= upcoming[s] + Lag(breaks)
    /\ Len(handed[s]) <= lastEventId[s] + Lag(breaks)
    /\ breaks = 0 => upcoming[s] = Len(handed[s]) + 1
ClosedLag(s) ==
  conn[s] \notin {"open", "ended"} =>
    IF breaks = 0 THEN Len(handed[s]) = 0
    ELSE Len(handed[s]) + Overlap - 1 <= lastEventId[s] + Lag(breaks)

StreamInv ==
  /\ StreamTypes
  /\ \A s \in Streams : Sequenced(s) /\ lastEventId[s] <= Len(handed[s]) /\ OpenLag(s) /\ ClosedLag(s)

LEMMA Bounds == /\ DedupeWindow \in Nat /\ Overlap \in Nat \ {0} /\ MaxEvents \in Nat /\ MaxBreaks \in Nat
                /\ MaxJwts \in Nat /\ Lag(MaxBreaks) < DedupeWindow
BY WindowAssumption DEF Lag

LEMMA LagGrows ==
  ASSUME NEW b \in Nat
  PROVE  /\ Lag(b) \in Nat /\ Lag(0) = 0 /\ Lag(b + 1) = Lag(b) + Overlap - 1
         /\ b <= MaxBreaks => Lag(b) <= Lag(MaxBreaks)
<1> DEFINE D == Overlap - 1
<1>1. D \in Nat
  BY Bounds
<1>2. D * b \in Nat /\ D * 0 = 0 /\ D * (b + 1) = D * b + D
  <2> HIDE DEF D
  <2>1. QED
    BY <1>1
<1>3. ASSUME b <= MaxBreaks PROVE D * b <= D * MaxBreaks
  <2>1. PICK c \in Nat : MaxBreaks = b + c
    <3>1. MaxBreaks - b \in Nat /\ MaxBreaks = b + (MaxBreaks - b)
      BY <1>3, Bounds
    <3>2. QED
      BY <3>1
  <2> HIDE DEF D
  <2>2. D * (b + c) = D * b + D * c /\ D * c \in Nat /\ D * b \in Nat
    BY <1>1
  <2>3. QED
    BY <2>1, <2>2
<1>4. QED
  BY <1>2, <1>3, Bounds DEF Lag

\* The end of a sequence.
LEMMA Suffix ==
  ASSUME NEW h \in Seq(Nat), NEW a \in 1 .. Len(h) + 1
  PROVE  LET t == SubSeq(h, a, Len(h))
         IN  /\ Len(t) = Len(h) - a + 1 /\ DOMAIN t = 1 .. Len(h) - a + 1
             /\ \A i \in 1 .. Len(h) - a + 1 : t[i] = h[a + i - 1]
<1>1. Len(h) \in Nat /\ \A i \in a .. Len(h) : h[i] \in Nat
  BY LenProperties
<1>2. /\ SubSeq(h, a, Len(h)) \in Seq(Nat)
      /\ Len(SubSeq(h, a, Len(h))) = IF a <= Len(h) THEN Len(h) - a + 1 ELSE 0
      /\ \A i \in 1 .. Len(h) - a + 1 : SubSeq(h, a, Len(h))[i] = h[a + i - 1]
  BY <1>1, SubSeqProperties
<1>3. Len(SubSeq(h, a, Len(h))) = Len(h) - a + 1
  BY <1>1, <1>2
<1>4. QED
  BY <1>2, <1>3, LenProperties

\* What is remembered are the last ids handed on.
LEMMA Remembered ==
  ASSUME NEW s \in Streams, handed[s] \in Seq(Nat), Sequenced(s), NEW id \in Nat
  PROVE  /\ id > Len(handed[s]) => id \notin Seen(s)
         /\ id >= 1 /\ id <= Len(handed[s]) /\ Len(handed[s]) < id + DedupeWindow => id \in Seen(s)
<1> DEFINE h == handed[s]
           N == Len(h)
           a == IF N > DedupeWindow THEN N - DedupeWindow + 1 ELSE 1
<1>1. N \in Nat /\ a \in 1 .. N + 1 /\ DOMAIN h = 1 .. N
  BY Bounds, LenProperties
<1>2. QED
  <2>1. DOMAIN LastIds(h) = 1 .. N - a + 1 /\ \A i \in 1 .. N - a + 1 : LastIds(h)[i] = h[a + i - 1]
    <3>1. LastIds(h) = SubSeq(h, a, Len(h))
      BY DEF LastIds
    <3> HIDE DEF h, a
    <3>2. h \in Seq(Nat)
      BY DEF h
    <3>3. QED
      BY <1>1, <3>1, <3>2, Suffix
  <2>2. \A i \in 1 .. N - a + 1 : LastIds(h)[i] = a + i - 1
    <3>1. \A i \in 1 .. N - a + 1 : a + i - 1 \in 1 .. N
      <4> HIDE DEF N, a
      <4>1. QED
        BY <1>1
    <3>2. QED
      BY <2>1, <3>1 DEF Sequenced
  <2>4. Seen(s) = {LastIds(h)[i] : i \in 1 .. N - a + 1}
    BY <2>1 DEF Seen, ToSet
  <2> HIDE DEF h
  <2>5. ASSUME id > N PROVE id \notin Seen(s)
    <3>1. \A i \in 1 .. N - a + 1 : LastIds(h)[i] # id
      BY <1>1, <2>2, <2>5
    <3>2. QED
      BY <2>4, <3>1
  <2>6. ASSUME id >= 1, id <= N, N < id + DedupeWindow PROVE id \in Seen(s)
    <3>1. id - a + 1 \in 1 .. N - a + 1
      BY <1>1, <2>6, Bounds
    <3>2. LastIds(h)[id - a + 1] = id
      BY <1>1, <2>2, <3>1
    <3>3. QED
      BY <2>4, <3>1, <3>2
  <2>7. QED
    BY <2>5, <2>6 DEF h

LEMMA InitStreams == StreamsInit => StreamInv
<1> SUFFICES ASSUME StreamsInit PROVE StreamInv
  OBVIOUS
<1>1. StreamTypes
  BY Bounds, EmptySeq DEF StreamsInit, StreamTypes, Stages
<1>2. \A s \in Streams : Len(handed[s]) = 0 /\ conn[s] = "down" /\ lastEventId[s] = 0
  BY DEF StreamsInit
<1>3. QED
  BY <1>1, <1>2 DEF StreamInv, Sequenced, OpenLag, ClosedLag, StreamsInit

\* A connection that is closed stays so, or nothing happens at all.
LEMMA StaysClosed ==
  ASSUME StreamInv, UNCHANGED events, NEW s \in Streams, NEW p \in Stages,
         conn[s] # "open", conn' = [conn EXCEPT ![s] = p], p # "open",
         conn[s] = "ended" => p = "ended"
  PROVE  StreamInv'
<1>1. UNCHANGED <<lastEventId, upcoming, handed, breaks>>
  BY DEF events
<1>2. \A t \in Streams : conn'[t] = IF t = s THEN p ELSE conn[t]
  BY DEF StreamInv, StreamTypes
<1>3. StreamTypes'
  BY <1>1 DEF StreamInv, StreamTypes
<1>4. ASSUME NEW t \in Streams
      PROVE  Sequenced(t)' /\ (lastEventId[t] <= Len(handed[t]))' /\ OpenLag(t)' /\ ClosedLag(t)'
  <2>1. Sequenced(t) /\ lastEventId[t] <= Len(handed[t]) /\ OpenLag(t) /\ ClosedLag(t)
    BY DEF StreamInv
  <2>2. QED
    BY <1>1, <1>2, <2>1 DEF Sequenced, OpenLag, ClosedLag
<1>5. QED
  BY <1>3, <1>4 DEF StreamInv

\* What adds up: a stream that has handed on len events, a connection that
\* starts at event n less than o before the cursor, and lags that grow.
LEMMA StartsBehind ==
  \A len, cursor, n, lag \in Nat, o \in Nat \ {0} :
    cursor < n + o /\ len + o - 1 <= cursor + lag => len <= n + lag /\ len <= cursor + lag
OBVIOUS

LEMMA FurtherBehind == \A len, n, lag, more \in Nat : len <= n + lag /\ lag <= more => len <= n + more
OBVIOUS

LEMMA StillBehind ==
  \A len, n, lag, more \in Nat, o \in Nat \ {0} : len + o - 1 <= n + lag /\ lag <= more => len + o - 1 <= n + more
OBVIOUS

\* A connection starts where the server takes the cursor.
LEMMA OpensBehind ==
  ASSUME StreamInv, NEW s \in Streams, conn[s] \notin {"open", "ended"}, Opened(s)
  PROVE  StreamInv'
<1>1. PICK n \in Starts(s) : upcoming' = [upcoming EXCEPT ![s] = n]
  BY DEF Opened
<1>2. UNCHANGED <<lastEventId, handed, breaks>> /\ conn' = [conn EXCEPT ![s] = "open"]
  BY DEF Opened
<1>3. StreamTypes
  BY DEF StreamInv
<1>4. lastEventId[s] \in Nat /\ breaks \in Nat /\ handed[s] \in Seq(Nat) /\ Len(handed[s]) \in Nat
  BY <1>3, LenProperties DEF StreamTypes
<1>5. n \in Nat \ {0} /\ n <= lastEventId[s] + 1 /\ lastEventId[s] < n + Overlap
  BY <1>4, Bounds DEF Starts
<1>6. \A t \in Streams : /\ conn'[t] = IF t = s THEN "open" ELSE conn[t]
                         /\ upcoming'[t] = IF t = s THEN n ELSE upcoming[t]
  BY <1>1, <1>2, <1>3 DEF StreamTypes
<1>7. StreamTypes'
  BY <1>1, <1>2, <1>3, <1>5 DEF StreamTypes, Stages
<1>8. ASSUME NEW t \in Streams
      PROVE  Sequenced(t)' /\ (lastEventId[t] <= Len(handed[t]))' /\ OpenLag(t)' /\ ClosedLag(t)'
  <2>1. Sequenced(t) /\ lastEventId[t] <= Len(handed[t]) /\ OpenLag(t) /\ ClosedLag(t)
    BY DEF StreamInv
  <2>2. CASE t # s
    BY <1>2, <1>6, <2>1, <2>2 DEF Sequenced, OpenLag, ClosedLag
  <2>3. CASE t = s
    <3>1. Lag(breaks) \in Nat /\ Lag(0) = 0
      BY <1>4, LagGrows
    <3>2. IF breaks = 0 THEN Len(handed[s]) = 0 ELSE Len(handed[s]) + Overlap - 1 <= lastEventId[s] + Lag(breaks)
      BY <2>1, <2>3 DEF ClosedLag
    <3>3. lastEventId[s] <= Len(handed[s])
      BY <2>1, <2>3
    <3>4. n <= Len(handed[s]) + 1 /\ (breaks = 0 => n = Len(handed[s]) + 1)
      BY <1>4, <1>5, <3>2, <3>3
    <3>5. Len(handed[s]) <= n + Lag(breaks) /\ Len(handed[s]) <= lastEventId[s] + Lag(breaks)
      <4>1. CASE breaks = 0
        BY <1>4, <1>5, <3>1, <3>2, <4>1
      <4>2. CASE breaks # 0
        BY <1>4, <1>5, <3>1, <3>2, <4>2, Bounds, StartsBehind
      <4>3. QED
        BY <4>1, <4>2
    <3>6. conn'[s] = "open" /\ upcoming'[s] = n /\ UNCHANGED <<lastEventId[s], handed[s], breaks>>
      BY <1>2, <1>6
    <3>7. OpenLag(s)'
      BY <3>4, <3>5, <3>6 DEF OpenLag
    <3>8. ClosedLag(s)'
      BY <3>6 DEF ClosedLag
    <3>9. Sequenced(s)' /\ (lastEventId[s] <= Len(handed[s]))'
      BY <1>2, <2>1, <2>3 DEF Sequenced
    <3>10. QED
      BY <2>3, <3>7, <3>8, <3>9
  <2>4. QED
    BY <2>2, <2>3
<1>9. QED
  BY <1>7, <1>8 DEF StreamInv

\* Another break: everybody may be further behind.
LEMMA BreakLeavesLag ==
  ASSUME StreamInv, NEW s \in Streams, NEW t \in Streams, t # s, breaks' = breaks + 1,
         UNCHANGED <<conn[t], lastEventId[t], upcoming[t], handed[t]>>
  PROVE  Sequenced(t)' /\ (lastEventId[t] <= Len(handed[t]))' /\ OpenLag(t)' /\ ClosedLag(t)'
<1>1. Sequenced(t) /\ lastEventId[t] <= Len(handed[t]) /\ OpenLag(t) /\ ClosedLag(t)
  BY DEF StreamInv
<1>2. /\ breaks \in Nat /\ lastEventId[t] \in Nat /\ upcoming[t] \in Nat
      /\ handed[t] \in Seq(Nat) /\ Len(handed[t]) \in Nat
  BY LenProperties DEF StreamInv, StreamTypes
<1>3. Lag(breaks) \in Nat /\ Lag(0) = 0 /\ Lag(breaks') = Lag(breaks) + Overlap - 1 /\ Overlap \in Nat \ {0}
  BY <1>2, LagGrows, Bounds
<1>4. Lag(breaks) <= Lag(breaks') /\ Lag(breaks') \in Nat /\ breaks' \in Nat /\ breaks' # 0
  BY <1>2, <1>3
<1>5. OpenLag(t)'
  <2>1. ASSUME conn[t] = "open"
        PROVE  /\ upcoming[t] <= Len(handed[t]) + 1 /\ Len(handed[t]) <= upcoming[t] + Lag(breaks)
               /\ Len(handed[t]) <= lastEventId[t] + Lag(breaks)
    BY <1>1, <2>1 DEF OpenLag
  <2>2. ASSUME conn[t] = "open"
        PROVE  Len(handed[t]) <= upcoming[t] + Lag(breaks') /\ Len(handed[t]) <= lastEventId[t] + Lag(breaks')
    BY <1>2, <1>3, <1>4, <2>1, <2>2, FurtherBehind
  <2>3. QED
    BY <1>4, <2>1, <2>2 DEF OpenLag
<1>6. ClosedLag(t)'
  <2>1. ASSUME conn[t] \notin {"open", "ended"} PROVE Len(handed[t]) + Overlap - 1 <= lastEventId[t] + Lag(breaks')
    <3>1. IF breaks = 0 THEN Len(handed[t]) = 0 ELSE Len(handed[t]) + Overlap - 1 <= lastEventId[t] + Lag(breaks)
      BY <1>1, <2>1 DEF ClosedLag
    <3>2. CASE breaks = 0
      BY <1>2, <1>3, <3>1, <3>2
    <3>3. CASE breaks # 0
      BY <1>2, <1>3, <1>4, <3>1, <3>3, StillBehind
    <3>4. QED
      BY <3>2, <3>3
  <2>2. QED
    BY <1>4, <2>1 DEF ClosedLag
<1>7. QED
  BY <1>1, <1>5, <1>6 DEF Sequenced

LEMMA BreakKeeps == ASSUME StreamInv, NEW s \in Streams, Break(s) PROVE StreamInv'
<1>1. /\ conn[s] = "open" /\ conn' = [conn EXCEPT ![s] = "down"] /\ breaks < MaxBreaks /\ breaks' = breaks + 1
      /\ UNCHANGED <<lastEventId, upcoming, handed>>
  BY DEF Break, Broken
<1>2. StreamTypes
  BY DEF StreamInv
<1>3. StreamTypes'
  BY <1>1, <1>2, Bounds DEF StreamTypes, Stages
<1>4. \A t \in Streams : conn'[t] = IF t = s THEN "down" ELSE conn[t]
  BY <1>1, <1>2 DEF StreamTypes
<1>5. Sequenced(s)' /\ (lastEventId[s] <= Len(handed[s]))' /\ OpenLag(s)' /\ ClosedLag(s)'
  <2>1. Sequenced(s) /\ lastEventId[s] <= Len(handed[s]) /\ OpenLag(s)
    BY DEF StreamInv
  <2>2. breaks \in Nat /\ lastEventId[s] \in Nat /\ handed[s] \in Seq(Nat) /\ Len(handed[s]) \in Nat
    BY <1>2, LenProperties DEF StreamTypes
  <2>3. Lag(breaks) \in Nat /\ Lag(breaks') = Lag(breaks) + Overlap - 1 /\ Overlap \in Nat \ {0}
    BY <1>1, <2>2, LagGrows, Bounds
  <2>4. Len(handed[s]) <= lastEventId[s] + Lag(breaks)
    BY <1>1, <2>1 DEF OpenLag
  <2>5. Len(handed[s]) + Overlap - 1 <= lastEventId[s] + Lag(breaks')
    BY <2>2, <2>3, <2>4
  <2>6. QED
    BY <1>1, <1>4, <2>1, <2>2, <2>5 DEF Sequenced, OpenLag, ClosedLag
<1>6. \A t \in Streams : t # s =>
        Sequenced(t)' /\ (lastEventId[t] <= Len(handed[t]))' /\ OpenLag(t)' /\ ClosedLag(t)'
  BY <1>1, <1>4, BreakLeavesLag
<1>7. QED
  BY <1>3, <1>5, <1>6 DEF StreamInv

\* An event is handed on when it follows what was handed on before, and is one
\* of those remembered otherwise.
LEMMA ReceiveKeeps == ASSUME StreamInv, NEW s \in Streams, Receive(s) PROVE StreamInv'
<1> DEFINE id == upcoming[s]
           N == Len(handed[s])
<1>1. StreamTypes /\ Sequenced(s) /\ lastEventId[s] <= N /\ OpenLag(s) /\ conn[s] = "open"
  BY DEF StreamInv, Receive
<1>2. id \in Nat \ {0} /\ breaks \in 0 .. MaxBreaks /\ breaks \in Nat /\ handed[s] \in Seq(Nat) /\ N \in Nat
  BY <1>1, LenProperties, Bounds DEF StreamTypes
<1>3. /\ Lag(breaks) \in Nat /\ Lag(breaks) <= Lag(MaxBreaks) /\ Lag(MaxBreaks) \in Nat
      /\ Lag(breaks + 1) = Lag(breaks) + Overlap - 1
  BY <1>2, LagGrows, Bounds
<1>4. id <= N + 1 /\ N <= id + Lag(breaks) /\ (breaks = 0 => id = N + 1)
  BY <1>1 DEF OpenLag
<1>5. N < id + DedupeWindow
  BY <1>2, <1>3, <1>4, Bounds
<1>6. id \in Seen(s) <=> id <= N
  BY <1>1, <1>2, <1>5, Remembered
<1>7. /\ lastEventId' = [lastEventId EXCEPT ![s] = id] /\ upcoming' = [upcoming EXCEPT ![s] = @ + 1]
      /\ IF id \in Seen(s)
         THEN UNCHANGED <<handed, conn, breaks>>
         ELSE handed' = [handed EXCEPT ![s] = Append(@, id)] /\ (UNCHANGED <<conn, breaks>> \/ Broken(s))
  BY DEF Receive
<1>8. \A t \in Streams : /\ lastEventId'[t] = IF t = s THEN id ELSE lastEventId[t]
                         /\ upcoming'[t] = IF t = s THEN id + 1 ELSE upcoming[t]
  BY <1>1, <1>7 DEF StreamTypes
<1>9. CASE id <= N
  <2>1. UNCHANGED <<handed, conn, breaks>> /\ breaks # 0
    BY <1>2, <1>4, <1>6, <1>7, <1>9
  <2>2. StreamTypes'
    BY <1>1, <1>2, <1>7, <2>1 DEF StreamTypes
  <2>3. ASSUME NEW t \in Streams
        PROVE  Sequenced(t)' /\ (lastEventId[t] <= Len(handed[t]))' /\ OpenLag(t)' /\ ClosedLag(t)'
    <3>1. Sequenced(t) /\ lastEventId[t] <= Len(handed[t]) /\ OpenLag(t) /\ ClosedLag(t)
      BY DEF StreamInv
    <3>2. CASE t = s
      <4>1. id + 1 <= N + 1 /\ N <= id + 1 + Lag(breaks) /\ N <= id + Lag(breaks)
        BY <1>2, <1>3, <1>4, <1>9
      <4>2. QED
        BY <1>1, <1>8, <1>9, <2>1, <3>1, <3>2, <4>1 DEF Sequenced, OpenLag, ClosedLag
    <3>3. CASE t # s
      BY <1>8, <2>1, <3>1, <3>3 DEF Sequenced, OpenLag, ClosedLag
    <3>4. QED
      BY <3>2, <3>3
  <2>4. QED
    BY <2>2, <2>3 DEF StreamInv
<1>10. CASE id = N + 1
  <2>1. /\ handed' = [handed EXCEPT ![s] = Append(@, id)]
        /\ \/ UNCHANGED <<conn, breaks>>
           \/ conn' = [conn EXCEPT ![s] = "down"] /\ breaks < MaxBreaks /\ breaks' = breaks + 1
    BY <1>2, <1>6, <1>7, <1>10 DEF Broken
  <2>2. \A t \in Streams : handed'[t] = IF t = s THEN Append(handed[s], id) ELSE handed[t]
    BY <1>1, <2>1 DEF StreamTypes
  <2>3. handed'[s] = Append(handed[s], id) /\ Append(handed[s], id) \in Seq(Nat) /\ Len(Append(handed[s], id)) = N + 1
        /\ \A i \in 1 .. N + 1 : Append(handed[s], id)[i] = i
    <3>1. handed'[s] = Append(handed[s], id)
      BY <2>2
    <3>2. /\ Append(handed[s], id) \in Seq(Nat) /\ Len(Append(handed[s], id)) = N + 1
          /\ \A i \in 1 .. N : Append(handed[s], id)[i] = handed[s][i]
          /\ Append(handed[s], id)[N + 1] = id
      BY <1>2, AppendProperties
    <3>3. \A i \in 1 .. N : handed[s][i] = i
      BY <1>1 DEF Sequenced
    <3>4. \A i \in 1 .. N + 1 : i \in 1 .. N \/ i = N + 1
      BY <1>2
    <3>5. QED
      BY <1>10, <3>1, <3>2, <3>3, <3>4
  <2>4. StreamTypes'
    <3>1. breaks' \in 0 .. MaxBreaks
      BY <1>2, <2>1, Bounds
    <3>2. conn' \in [Streams -> Stages]
      BY <1>1, <2>1 DEF StreamTypes, Stages
    <3>3. lastEventId' \in [Streams -> Nat] /\ upcoming' \in [Streams -> Nat \ {0}]
      BY <1>1, <1>2, <1>7 DEF StreamTypes
    <3>4. handed' \in [Streams -> Seq(Nat)]
      BY <1>1, <2>1, <2>3 DEF StreamTypes
    <3>5. QED
      BY <3>1, <3>2, <3>3, <3>4 DEF StreamTypes
  <2>5. Sequenced(s)' /\ (lastEventId[s] <= Len(handed[s]))'
    <3>1. Len(handed'[s]) = N + 1 /\ lastEventId'[s] = id
      BY <1>8, <2>3
    <3>2. \A i \in 1 .. Len(handed'[s]) : handed'[s][i] = i
      BY <2>3, <3>1
    <3>3. QED
      BY <1>2, <1>10, <3>1, <3>2 DEF Sequenced
  <2>6. CASE UNCHANGED <<conn, breaks>>
    <3>1. OpenLag(s)' /\ ClosedLag(s)'
      <4>1. upcoming'[s] = N + 2 /\ lastEventId'[s] = N + 1 /\ Len(handed'[s]) = N + 1
        <5>1. upcoming'[s] = id + 1 /\ lastEventId'[s] = id /\ Len(handed'[s]) = N + 1
          BY <1>8, <2>3
        <5>2. QED
          BY <1>2, <1>10, <5>1
      <4>2. QED
        BY <1>1, <1>2, <1>3, <2>6, <4>1 DEF OpenLag, ClosedLag
    <3>2. \A t \in Streams : t # s =>
            Sequenced(t)' /\ (lastEventId[t] <= Len(handed[t]))' /\ OpenLag(t)' /\ ClosedLag(t)'
      BY <1>8, <2>2, <2>6 DEF StreamInv, Sequenced, OpenLag, ClosedLag
    <3>3. QED
      BY <2>4, <2>5, <3>1, <3>2 DEF StreamInv
  <2>7. CASE conn' = [conn EXCEPT ![s] = "down"] /\ breaks < MaxBreaks /\ breaks' = breaks + 1
    <3>1. \A t \in Streams : conn'[t] = IF t = s THEN "down" ELSE conn[t]
      BY <1>1, <2>7 DEF StreamTypes
    <3>2. OpenLag(s)' /\ ClosedLag(s)'
      <4>1. lastEventId'[s] = N + 1 /\ Len(handed'[s]) = N + 1 /\ conn'[s] = "down" /\ breaks' # 0
        <5>1. lastEventId'[s] = id /\ Len(handed'[s]) = N + 1 /\ conn'[s] = "down"
          BY <1>8, <2>3, <3>1
        <5>2. QED
          BY <1>2, <1>10, <2>7, <5>1
      <4>2. N + 1 + Overlap - 1 <= N + 1 + Lag(breaks')
        BY <1>2, <1>3, <2>7, Bounds
      <4>3. QED
        BY <4>1, <4>2 DEF OpenLag, ClosedLag
    <3>3. \A t \in Streams : t # s =>
            Sequenced(t)' /\ (lastEventId[t] <= Len(handed[t]))' /\ OpenLag(t)' /\ ClosedLag(t)'
      BY <1>8, <2>2, <2>7, <3>1, BreakLeavesLag
    <3>4. QED
      BY <2>4, <2>5, <3>2, <3>3 DEF StreamInv
  <2>8. QED
    BY <2>1, <2>6, <2>7
<1>11. QED
  BY <1>2, <1>4, <1>9, <1>10

LEMMA StreamsStay == StreamInv /\ [StreamsNext]_feedVars => StreamInv'
<1> SUFFICES ASSUME StreamInv, [StreamsNext]_feedVars PROVE StreamInv'
  OBVIOUS
<1>1. ASSUME UNCHANGED <<conn, events>> PROVE StreamInv'
  BY <1>1 DEF StreamInv, StreamTypes, Sequenced, OpenLag, ClosedLag, events, Lag
<1>2. ASSUME NEW s \in Streams, OpenStream(s) \/ Retry(s) PROVE StreamInv'
  <2>1. conn[s] \in {"down", "retry"}
    BY <1>2 DEF OpenStream, Retry
  <2>2. CASE Opened(s)
    BY <2>1, <2>2, OpensBehind
  <2>3. CASE UNCHANGED events /\ \E p \in {"guest", "down"} : conn' = [conn EXCEPT ![s] = p]
    BY <2>1, <2>3, StaysClosed DEF Stages
  <2>4. QED
    BY <1>2, <2>2, <2>3 DEF OpenStream, Retry
<1>3. ASSUME NEW s \in Streams, Guest(s) \/ Activated(s) \/ Fails(s) PROVE StreamInv'
  <2>1. conn[s] \in {"guest", "activating", "retry"} /\ UNCHANGED events
    BY <1>3 DEF Guest, Activated, Fails
  <2>2. PICK p \in {"retry", "activating", "down"} : conn' = [conn EXCEPT ![s] = p]
    BY <1>3 DEF Guest, Activated, Fails
  <2>3. QED
    BY <2>1, <2>2, StaysClosed DEF Stages
<1>4. ASSUME Abort PROVE StreamInv'
  <2>1. UNCHANGED events /\ \A t \in Streams : conn'[t] = "ended"
    BY <1>4 DEF Abort
  <2>2. conn' \in [Streams -> Stages]
    BY <1>4 DEF Abort, Stages
  <2>3. QED
    BY <2>1, <2>2 DEF StreamInv, StreamTypes, Sequenced, OpenLag, ClosedLag, events
<1>5. QED
  BY <1>1, <1>2, <1>3, <1>4, ReceiveKeeps, BreakKeeps DEF StreamsNext, Expire, feedVars, events

\* The cursor and the window of ids together leave no event out and hand none on
\* twice, for every overlap, window and number of breaks that fit each other,
\* whatever the credentials do in between.
THEOREM EventsOnce == StreamsSpec => []EventsComeOnce
<1>1. StreamsSpec => []StreamInv
  BY InitStreams, StreamsStay, PTL DEF StreamsSpec
<1>2. StreamInv => EventsComeOnce
  BY LenProperties DEF StreamInv, StreamTypes, Sequenced, EventsComeOnce
<1>3. QED
  BY <1>1, <1>2, PTL

-----------------------------------------------------------------------------
(* Receipt proofs: the doubling of nextPowerOfTwo. *)

Doubles(n, u) == u = [k \in 0 .. n |-> IF k = 0 THEN 1 ELSE 2 * u[k - 1]]

LEMMA Doubling ==
  /\ Doubled = [k \in 0 .. MaxClaims |-> IF k = 0 THEN 1 ELSE 2 * Doubled[k - 1]]
  /\ \A k \in 0 .. MaxClaims : Doubled[k] \in Nat /\ Doubled[k] > k
  /\ Doubled[0] = 1 /\ \A k \in 1 .. MaxClaims : Doubled[k] = 2 * Doubled[k - 1]
<1> USE AnchorAssumption
<1>1. \E u : Doubles(MaxClaims, u)
  <2> DEFINE T == {n \in Nat : ~\E u : Doubles(n, u)}
  <2>1. SUFFICES ASSUME T # {} PROVE FALSE
    OBVIOUS
  <2>2. PICK n \in T : \A k \in T : n <= k
    BY <2>1, LeastNumber
  <2>3. n # 0
    <3>1. Doubles(0, [k \in 0 .. 0 |-> 1])
      BY DEF Doubles
    <3>2. QED
      BY <2>2, <3>1
  <2>4. PICK u : Doubles(n - 1, u)
    BY <2>2, <2>3
  <2>5. Doubles(n, [k \in 0 .. n |-> IF k = n THEN 2 * u[n - 1] ELSE u[k]])
    BY <2>2, <2>3, <2>4 DEF Doubles
  <2>6. QED
    BY <2>2, <2>5
<1>2. Doubles(MaxClaims, Doubled)
  BY <1>1 DEF Doubled, Doubles
<1>3. ASSUME NEW m \in 0 .. MaxClaims, ~(Doubled[m] \in Nat /\ Doubled[m] > m) PROVE FALSE
  <2> DEFINE T == {k \in 0 .. MaxClaims : ~(Doubled[k] \in Nat /\ Doubled[k] > k)}
  <2> m \in T /\ T \in SUBSET Nat
    BY <1>3
  <2> HIDE DEF T
  <2>1. PICK n \in T : \A k \in T : n <= k
    BY LeastNumber
  <2> USE DEF T
  <2>2. n # 0 
    BY <1>2 DEF Doubles
  <2>3. n - 1 \in 0 .. MaxClaims /\ n - 1 \notin T
    BY <2>1, <2>2
  <2>4. QED
    BY <1>2, <2>1, <2>2, <2>3 DEF Doubles
<1>4. Doubled[0] = 1 /\ \A k \in 1 .. MaxClaims : Doubled[k] = 2 * Doubled[k - 1]
  BY <1>2 DEF Doubles
<1>5. QED
  BY <1>2, <1>3, <1>4 DEF Doubles

LEMMA HeightFits ==
  ASSUME NEW n \in 1 .. MaxClaims
  PROVE  Height(n) \in 0 .. MaxClaims /\ Doubled[Height(n)] \in Nat /\ Doubled[Height(n)] >= n
<1> USE AnchorAssumption
<1> DEFINE T == {h \in 0 .. n : Doubled[h] >= n}
<1>1. n \in T /\ T \in SUBSET Nat
  BY Doubling
<1> HIDE DEF T
<1>2. PICK h \in T : \A k \in T : h <= k
  BY <1>1, LeastNumber
<1> USE DEF T
<1>3. \A k \in 0 .. h - 1 : Doubled[k] < n
  <2>1. ASSUME NEW k \in 0 .. h - 1 PROVE Doubled[k] < n
    <3>1. k \in 0 .. n /\ k \notin T /\ k \in 0 .. MaxClaims
      BY <1>2
    <3>2. Doubled[k] \in Nat
      BY <3>1, Doubling
    <3>3. QED
      BY <3>1, <3>2
  <2>2. QED
    BY <2>1
<1>4. /\ Height(n) \in 0 .. n /\ Doubled[Height(n)] >= n
  BY <1>2, <1>3 DEF Height
<1>5. Height(n) \in 0 .. MaxClaims
  BY <1>4
<1>6. QED
  BY <1>4, <1>5, Doubling

-----------------------------------------------------------------------------
(* The levels of a tree. *)

\* What a batch has: its claims in some order, and its height.
LEMMA BatchHashes ==
  ASSUME NEW b, Batchable(b)
  PROVE  /\ Cardinality(b) \in 1 .. MaxClaims
         /\ Hashes(b) \in [1 .. Cardinality(b) -> b]
         /\ \A c \in b : \E i \in 1 .. Cardinality(b) : Hashes(b)[i] = c
         /\ \A i, j \in 1 .. Cardinality(b) : Hashes(b)[i] = Hashes(b)[j] => i = j
<1>1. IsFiniteSet(b) /\ Cardinality(b) \in 1 .. MaxClaims
  BY DEF Batchable
<1>2. PICK f : f \in Bijection(1 .. Cardinality(b), b)
  BY <1>1, FS_CardinalityType DEF ExistsBijection
<1>3. f \in [1 .. Cardinality(b) -> b] /\ IsInjective(f)
  BY <1>2 DEF Bijection, Injection
<1>4. Hashes(b) \in [1 .. Cardinality(b) -> b] /\ IsInjective(Hashes(b))
  BY <1>3 DEF Hashes, SetToSeq
<1>5. Hashes(b) \in Injection(1 .. Cardinality(b), b)
  BY <1>4 DEF Injection
<1>6. Cardinality(1 .. Cardinality(b)) = Cardinality(b)
  BY <1>1, FS_Interval
<1>7. Hashes(b) \in Surjection(1 .. Cardinality(b), b)
  BY <1>1, <1>5, <1>6, FS_Injection
<1>8. QED
  BY <1>1, <1>4, <1>7 DEF Surjection, IsInjective

\* Rows that halve from n of them at the bottom.
Rises(b, n, u) == u = [k \in 0 .. n |-> IF k = 0 THEN Leaves(b) ELSE ParentLevel(u[k - 1])]

LEMMA LevelsRise ==
  ASSUME NEW b, Height(Cardinality(b)) \in Nat
  PROVE  Rises(b, Height(Cardinality(b)), Levels(b))
<1> DEFINE h == Height(Cardinality(b))
<1>1. \E u : Rises(b, h, u)
  <2> DEFINE T == {n \in Nat : ~\E u : Rises(b, n, u)}
  <2>1. SUFFICES ASSUME T # {} PROVE FALSE
    OBVIOUS
  <2>2. PICK n \in T : \A k \in T : n <= k
    BY <2>1, LeastNumber
  <2>3. n # 0
    <3>1. Rises(b, 0, [k \in 0 .. 0 |-> Leaves(b)])
      BY DEF Rises
    <3>2. QED
      BY <2>2, <3>1
  <2>4. PICK u : Rises(b, n - 1, u)
    BY <2>2, <2>3
  <2>5. Rises(b, n, [k \in 0 .. n |-> IF k = n THEN ParentLevel(u[n - 1]) ELSE u[k]])
    BY <2>2, <2>3, <2>4 DEF Rises
  <2>6. QED
    BY <2>2, <2>5
<1>2. QED
  BY <1>1 DEF Levels, Rises

LEMMA LenOfRow ==
  ASSUME NEW n \in Nat, NEW row, row = [i \in 1 .. n |-> row[i]]
  PROVE  Len(row) = n
<1>1. row \in [1 .. n -> {row[i] : i \in 1 .. n}]
  OBVIOUS
<1>2. row \in Seq({row[i] : i \in 1 .. n})
  BY <1>1
<1>3. Len(row) \in Nat /\ DOMAIN row = 1 .. Len(row) /\ DOMAIN row = 1 .. n
  BY <1>1, <1>2, LenProperties
<1>4. QED
  BY <1>3

\* The rows of a batch's tree halve from its size to one; each node is made of
\* the two below it.
LEMMA TreeOfBatch ==
  ASSUME NEW b, Batchable(b), NEW h, h = Height(Cardinality(b))
  PROVE  /\ h \in 0 .. MaxClaims /\ Cardinality(b) <= Doubled[h]
         /\ Levels(b)[0] = Leaves(b)
         /\ \A k \in 0 .. h : Levels(b)[k] = [i \in 1 .. Doubled[h - k] |-> Levels(b)[k][i]]
         /\ \A k \in 1 .. h : \A i \in 1 .. Doubled[h - k] :
              /\ Levels(b)[k][i] = <<"node", Levels(b)[k - 1][2 * i - 1], Levels(b)[k - 1][2 * i]>>
              /\ 2 * i \in 1 .. Doubled[h - (k - 1)]
         /\ Doubled[0] = 1
<1> USE AnchorAssumption
<1>1. Cardinality(b) \in 1 .. MaxClaims
  BY BatchHashes
<1>2. h \in 0 .. MaxClaims /\ Cardinality(b) <= Doubled[h]
  BY <1>1, HeightFits
<1>3. Levels(b) = [k \in 0 .. h |-> IF k = 0 THEN Leaves(b) ELSE ParentLevel(Levels(b)[k - 1])]
  BY <1>2, LevelsRise DEF Rises
<1>4. Levels(b)[0] = Leaves(b) /\ \A k \in 1 .. h : Levels(b)[k] = ParentLevel(Levels(b)[k - 1])
  BY <1>2, <1>3
<1>5. \A k \in 1 .. h :
        /\ Doubled[h - k] \in Nat /\ h - k \in 0 .. MaxClaims
        /\ Doubled[h - (k - 1)] = 2 * Doubled[h - k]
  <2>1. ASSUME NEW k \in 1 .. h
        PROVE  h - k \in 0 .. MaxClaims /\ h - (k - 1) \in 1 .. MaxClaims /\ (h - (k - 1)) - 1 = h - k
    BY <1>2
  <2>2. ASSUME NEW k \in 1 .. h
        PROVE  /\ Doubled[h - k] \in Nat
               /\ Doubled[h - (k - 1)] = 2 * Doubled[(h - (k - 1)) - 1]
    BY <2>1, Doubling, ZenonT(60)
  <2>3. QED
    BY <2>1, <2>2, ZenonT(60)
<1>6. Levels(b)[0] = [i \in 1 .. Doubled[h] |-> Levels(b)[0][i]]
  BY <1>4 DEF Leaves
<1>7. ASSUME NEW k \in 1 .. h, Levels(b)[k - 1] = [i \in 1 .. Doubled[h - (k - 1)] |-> Levels(b)[k - 1][i]]
      PROVE  /\ Levels(b)[k] = [i \in 1 .. Doubled[h - k] |-> Levels(b)[k][i]]
             /\ \A i \in 1 .. Doubled[h - k] :
                  /\ Levels(b)[k][i] = <<"node", Levels(b)[k - 1][2 * i - 1], Levels(b)[k - 1][2 * i]>>
                  /\ 2 * i \in 1 .. Doubled[h - (k - 1)]
  <2> DEFINE n == Doubled[h - k]
             row == Levels(b)[k - 1]
  <2>1. n \in Nat /\ Doubled[h - (k - 1)] = 2 * n
    BY <1>5
  <2>2. row = [i \in 1 .. 2 * n |-> row[i]]
    BY <1>7, <2>1
  <2>3. Len(row) = 2 * n
    <3> HIDE DEF row, n
    <3>1. QED
      BY <2>1, <2>2, LenOfRow
  <2>4. (2 * n) \div 2 = n
    BY <2>1
  <2>5. Levels(b)[k] = [i \in 1 .. n |-> <<"node", row[2 * i - 1], row[2 * i]>>]
    BY <1>4, <2>3, <2>4 DEF ParentLevel
  <2>6. QED
    BY <2>1, <2>5
<1>8. ASSUME NEW m \in 0 .. h, ~(Levels(b)[m] = [i \in 1 .. Doubled[h - m] |-> Levels(b)[m][i]])
      PROVE  FALSE
  <2> DEFINE T == {k \in 0 .. h : ~(Levels(b)[k] = [i \in 1 .. Doubled[h - k] |-> Levels(b)[k][i]])}
  <2> m \in T /\ T \in SUBSET Nat
    BY <1>2, <1>8
  <2> HIDE DEF T
  <2>1. PICK n \in T : \A k \in T : n <= k
    BY LeastNumber
  <2>2. n \in 0 .. h /\ n # 0
    <3>1. h - 0 = h
      BY <1>2
    <3>2. 0 \notin T
      BY <1>6, <3>1 DEF T
    <3>3. QED
      BY <2>1, <3>2 DEF T
  <2>3. n - 1 \in 0 .. h /\ n - 1 \notin T
    BY <1>2, <2>1, <2>2
  <2>4. n \in 1 .. h /\ Levels(b)[n - 1] = [i \in 1 .. Doubled[h - (n - 1)] |-> Levels(b)[n - 1][i]]
    BY <1>2, <2>2, <2>3 DEF T
  <2>5. QED
    BY <1>7, <2>1, <2>4 DEF T
<1>9. ASSUME NEW k \in 1 .. h PROVE Levels(b)[k - 1] = [i \in 1 .. Doubled[h - (k - 1)] |-> Levels(b)[k - 1][i]]
  <2>1. k - 1 \in 0 .. h
    BY <1>2
  <2>2. QED
    BY <1>8, <2>1
<1>10. Doubled[0] = 1
  BY Doubling
<1>11. \A k \in 0 .. h : Levels(b)[k] = [i \in 1 .. Doubled[h - k] |-> Levels(b)[k][i]]
  BY <1>8
<1>12. QED
  BY <1>2, <1>4, <1>7, <1>9, <1>10, <1>11

\* Trees of different heights have different roots: where the lower one has its
\* first leaf, the higher one has a node.
LEMMA HigherHasOtherRoot ==
  ASSUME NEW b, NEW d, Batchable(b), Batchable(d),
         Height(Cardinality(b)) < Height(Cardinality(d))
  PROVE  Root(b) # Root(d)
<1> DEFINE h == Height(Cardinality(b))
           g == Height(Cardinality(d))
           Same(n) == Levels(b)[h - n][1] = Levels(d)[g - n][1]
<1>1. h \in 0 .. MaxClaims /\ g \in 0 .. MaxClaims /\ h < g
  BY TreeOfBatch
<1>2. SUFFICES ASSUME Root(b) = Root(d) PROVE FALSE
  OBVIOUS
<1>3. Same(0)
  BY <1>1, <1>2 DEF Root
<1>4. ASSUME NEW n \in 1 .. h, Same(n - 1) PROVE Same(n)
  <2>1. /\ h - n \in 0 .. MaxClaims /\ h - (n - 1) \in 1 .. h /\ (h - (n - 1)) - 1 = h - n
        /\ g - n \in 0 .. MaxClaims /\ g - (n - 1) \in 1 .. g /\ (g - (n - 1)) - 1 = g - n
        /\ h - (h - (n - 1)) = n - 1 /\ g - (g - (n - 1)) = n - 1 /\ n - 1 \in 0 .. MaxClaims
    BY <1>1, AnchorAssumption
  <2>2. 1 \in 1 .. Doubled[n - 1]
    BY <2>1, Doubling
  <2>3. /\ Levels(b)[h - (n - 1)][1] = <<"node", Levels(b)[h - n][2 * 1 - 1], Levels(b)[h - n][2 * 1]>>
        /\ Levels(d)[g - (n - 1)][1] = <<"node", Levels(d)[g - n][2 * 1 - 1], Levels(d)[g - n][2 * 1]>>
    <3> HIDE DEF Same
    <3>1. \A k \in 1 .. h : \A i \in 1 .. Doubled[h - k] :
            Levels(b)[k][i] = <<"node", Levels(b)[k - 1][2 * i - 1], Levels(b)[k - 1][2 * i]>>
      BY TreeOfBatch
    <3>2. \A k \in 1 .. g : \A i \in 1 .. Doubled[g - k] :
            Levels(d)[k][i] = <<"node", Levels(d)[k - 1][2 * i - 1], Levels(d)[k - 1][2 * i]>>
      BY TreeOfBatch
    <3> HIDE DEF h, g
    <3>3. QED
      BY <2>1, <2>2, <3>1, <3>2
  <2>4. 2 * 1 - 1 = 1
    OBVIOUS
  <2>5. \A v, w, x, y : <<"node", v, w>> = <<"node", x, y>> => v = x
    OBVIOUS
  <2>6. Levels(b)[h - (n - 1)][1] = Levels(d)[g - (n - 1)][1]
    BY <1>4
  <2> HIDE DEF h, g
  <2>7. QED
    BY <2>3, <2>4, <2>5, <2>6
<1>5. Same(h)
  <2> DEFINE T == {n \in 0 .. h : ~Same(n)}
  <2>1. SUFFICES ASSUME h \in T PROVE FALSE
    BY <1>1
  <2>2. T \in SUBSET Nat /\ T # {}
    BY <1>1, <2>1
  <2> HIDE DEF T
  <2>3. PICK n \in T : \A k \in T : n <= k
    BY <2>2, LeastNumber
  <2>4. n \in 0 .. h /\ ~Same(n)
    BY <2>3 DEF T
  <2> HIDE DEF Same
  <2>5. n # 0
    BY <1>3, <2>4
  <2>6. n - 1 \in 0 .. h /\ n - 1 \notin T
    BY <1>1, <2>3, <2>4, <2>5
  <2>7. Same(n - 1)
    BY <2>6 DEF T
  <2>8. QED
    BY <1>1, <1>4, <2>4, <2>5, <2>7
<1>6. Levels(b)[0][1] = <<"leaf", Hashes(b)[1]>>
  <2>1. 1 \in 1 .. Doubled[h] /\ 1 <= Cardinality(b) /\ Levels(b)[0] = Leaves(b)
    BY <1>1, TreeOfBatch, BatchHashes, Doubling
  <2>2. QED
    BY <2>1 DEF Leaves
<1>7. Levels(d)[g - h][1] = <<"node", Levels(d)[g - h - 1][2 * 1 - 1], Levels(d)[g - h - 1][2 * 1]>>
  <2>1. g - h \in 1 .. g /\ g - (g - h) = h /\ 1 \in 1 .. Doubled[h]
    BY <1>1, Doubling
  <2>2. \A k \in 1 .. g : \A i \in 1 .. Doubled[g - k] :
          Levels(d)[k][i] = <<"node", Levels(d)[k - 1][2 * i - 1], Levels(d)[k - 1][2 * i]>>
    BY TreeOfBatch
  <2> HIDE DEF h, g, Same
  <2>3. QED
    BY <2>1, <2>2
<1>8. h - h = 0
  BY <1>1
<1>9. \A x, y, z : <<"leaf", x>> # <<"node", y, z>>
  OBVIOUS
<1>10. QED
  BY <1>5, <1>6, <1>7, <1>8, <1>9

\* Batches with one root are one: the trees agree from the root down to the
\* leaves, and a leaf is no padding.
LEMMA OneRootOneBatch ==
  ASSUME NEW b, NEW d, Batchable(b), Batchable(d), Root(b) = Root(d)
  PROVE  b = d
<1>a. Height(Cardinality(b)) = Height(Cardinality(d))
  <2>1. Height(Cardinality(b)) \in Nat /\ Height(Cardinality(d)) \in Nat
    BY TreeOfBatch, AnchorAssumption
  <2>2. ~(Height(Cardinality(b)) < Height(Cardinality(d))) /\ ~(Height(Cardinality(d)) < Height(Cardinality(b)))
    BY HigherHasOtherRoot
  <2>3. QED
    BY <2>1, <2>2
<1> DEFINE h == Height(Cardinality(b))
           Same(k) == \A i \in 1 .. Doubled[h - k] : Levels(b)[k][i] = Levels(d)[k][i]
<1>1. h \in Nat /\ Doubled[0] = 1
  BY TreeOfBatch
<1>2. Same(h)
  BY <1>a, <1>1 DEF Root
<1>3. ASSUME NEW k \in 1 .. h, Same(k) PROVE Same(k - 1)
  <2>1. SUFFICES ASSUME NEW j \in 1 .. Doubled[h - (k - 1)]
                 PROVE  Levels(b)[k - 1][j] = Levels(d)[k - 1][j]
    OBVIOUS
  <2>2. Doubled[h - k] \in Nat /\ Doubled[h - (k - 1)] = 2 * Doubled[h - k]
    <3>1. h \in 0 .. MaxClaims
      BY TreeOfBatch
    <3>2. h - k \in 0 .. MaxClaims /\ h - (k - 1) \in 1 .. MaxClaims /\ (h - (k - 1)) - 1 = h - k
      BY <3>1, AnchorAssumption
    <3>3. QED
      BY <3>2, Doubling
  <2>3. PICK i \in 1 .. Doubled[h - k] : j = 2 * i - 1 \/ j = 2 * i
    <3>1. (j + 1) \div 2 \in 1 .. Doubled[h - k] /\ (j = 2 * ((j + 1) \div 2) - 1 \/ j = 2 * ((j + 1) \div 2))
      BY <2>2
    <3>2. QED
      BY <3>1
  <2>4. /\ Levels(b)[k][i] = <<"node", Levels(b)[k - 1][2 * i - 1], Levels(b)[k - 1][2 * i]>>
        /\ Levels(d)[k][i] = <<"node", Levels(d)[k - 1][2 * i - 1], Levels(d)[k - 1][2 * i]>>
    BY <1>a, TreeOfBatch
  <2>5. Levels(b)[k][i] = Levels(d)[k][i]
    BY <1>3
  <2>6. QED
    BY <2>3, <2>4, <2>5
<1>4. Same(0)
  <2> DEFINE T == {n \in 0 .. h : Same(h - n)}
             R == {n \in 0 .. h : n \notin T}
  <2>1. CASE R = {}
    <3>1. h \in T
      BY <1>1, <2>1
    <3>2. QED
      BY <1>1, <3>1
  <2>2. CASE R # {}
    <3>0. R \in SUBSET Nat
      BY <1>1
    <3> HIDE DEF R
    <3>1. PICK n \in R : \A k \in R : n <= k
      BY <2>2, <3>0, LeastNumber
    <3>2. n \in 0 .. h /\ ~Same(h - n)
      BY <3>1 DEF R
    <3> HIDE DEF Same
    <3>3. n # 0
      BY <1>1, <1>2, <3>2
    <3>4. n - 1 \in 0 .. h /\ n - 1 \notin R
      BY <1>1, <3>1, <3>2, <3>3
    <3>5. Same(h - (n - 1))
      BY <3>4 DEF R
    <3>6. h - (n - 1) \in 1 .. h /\ (h - (n - 1)) - 1 = h - n
      BY <1>1, <3>2, <3>3
    <3>7. QED
      BY <1>3, <3>2, <3>5, <3>6
  <2>3. QED
    BY <2>1, <2>2
<1>5. /\ h - 0 = h /\ Levels(b)[0] = Leaves(b) /\ Levels(d)[0] = Leaves(d)
      /\ Doubled[h] \in Nat /\ Cardinality(b) <= Doubled[h] /\ Cardinality(d) <= Doubled[h]
      /\ Cardinality(b) \in Nat /\ Cardinality(d) \in Nat
  BY <1>a, <1>1, TreeOfBatch, BatchHashes, HeightFits, AnchorAssumption
<1>6. \A i \in 1 .. Doubled[h] :
        /\ Leaves(b)[i] = Leaves(d)[i]
        /\ Leaves(b)[i] = IF i <= Cardinality(b) THEN <<"leaf", Hashes(b)[i]>> ELSE <<"padding", i - 1>>
        /\ Leaves(d)[i] = IF i <= Cardinality(d) THEN <<"leaf", Hashes(d)[i]>> ELSE <<"padding", i - 1>>
  BY <1>a, <1>4, <1>5 DEF Leaves
<1>7. \A x, y : <<"leaf", x>> = <<"leaf", y>> => x = y
  OBVIOUS
<1>8. \A x, y : <<"leaf", x>> # <<"padding", y>>
  OBVIOUS
<1>9. Cardinality(b) = Cardinality(d)
  <2> HIDE DEF h, Same
  <2>1. CASE Cardinality(b) < Cardinality(d)
    <3>1. /\ Cardinality(b) + 1 \in 1 .. Doubled[h] /\ ~(Cardinality(b) + 1 <= Cardinality(b))
          /\ Cardinality(b) + 1 <= Cardinality(d)
      BY <1>5, <2>1
    <3>2. QED
      BY <1>6, <1>8, <3>1
  <2>2. CASE Cardinality(d) < Cardinality(b)
    <3>1. /\ Cardinality(d) + 1 \in 1 .. Doubled[h] /\ ~(Cardinality(d) + 1 <= Cardinality(d))
          /\ Cardinality(d) + 1 <= Cardinality(b)
      BY <1>5, <2>2
    <3>2. QED
      BY <1>6, <1>8, <3>1
  <2>3. QED
    BY <1>5, <2>1, <2>2
<1>10. \A i \in 1 .. Cardinality(b) : Hashes(b)[i] = Hashes(d)[i]
  <2> HIDE DEF h, Same
  <2>1. ASSUME NEW i \in 1 .. Cardinality(b) PROVE Hashes(b)[i] = Hashes(d)[i]
    <3>1. i \in 1 .. Doubled[h] /\ i <= Cardinality(b) /\ i <= Cardinality(d)
      BY <1>5, <1>9
    <3>2. QED
      BY <1>6, <1>7, <3>1
  <2>2. QED
    BY <2>1
<1>11. \A c \in b : c \in d
  BY <1>9, <1>10, BatchHashes
<1>12. \A c \in d : c \in b
  BY <1>9, <1>10, BatchHashes
<1>13. QED
  BY <1>11, <1>12

-----------------------------------------------------------------------------
(* Proofs of inclusion. *)

Halves(index, n, u) == u = [k \in 0 .. n |-> IF k = 0 THEN index ELSE u[k - 1] \div 2]

LEMMA PathHalves ==
  ASSUME NEW index, NEW height \in Nat
  PROVE  Halves(index, height, Path(index, height))
<1>1. \E u : Halves(index, height, u)
  <2> DEFINE T == {n \in Nat : ~\E u : Halves(index, n, u)}
  <2>1. SUFFICES ASSUME T # {} PROVE FALSE
    OBVIOUS
  <2>2. PICK n \in T : \A k \in T : n <= k
    BY <2>1, LeastNumber
  <2>3. n # 0
    <3>1. Halves(index, 0, [k \in 0 .. 0 |-> index])
      BY DEF Halves
    <3>2. QED
      BY <2>2, <3>1
  <2>4. PICK u : Halves(index, n - 1, u)
    BY <2>2, <2>3
  <2>5. Halves(index, n, [k \in 0 .. n |-> IF k = n THEN u[n - 1] \div 2 ELSE u[k]])
    BY <2>2, <2>3, <2>4 DEF Halves
  <2>6. QED
    BY <2>2, <2>5
<1>2. QED
  BY <1>1 DEF Path, Halves

\* The path from a leaf stays within the rows of the tree.
LEMMA PathStaysInTree ==
  ASSUME NEW h \in 0 .. MaxClaims, NEW index \in 0 .. Doubled[h] - 1
  PROVE  /\ Path(index, h)[0] = index
         /\ \A k \in 1 .. h : Path(index, h)[k] = Path(index, h)[k - 1] \div 2
         /\ \A k \in 0 .. h : Path(index, h)[k] \in 0 .. Doubled[h - k] - 1
<1> USE AnchorAssumption
<1> DEFINE at == Path(index, h)
<1>1. at[0] = index /\ \A k \in 1 .. h : at[k] = at[k - 1] \div 2
  BY PathHalves DEF Halves
<1>2. ASSUME NEW m \in 0 .. h, at[m] \notin 0 .. Doubled[h - m] - 1 PROVE FALSE
  <2> DEFINE T == {k \in 0 .. h : at[k] \notin 0 .. Doubled[h - k] - 1}
  <2>1. m \in T /\ T \in SUBSET Nat
    BY <1>2
  <2> HIDE DEF T, at
  <2>2. PICK n \in T : \A k \in T : n <= k
    BY <2>1, LeastNumber
  <2>3. n \in 0 .. h /\ at[n] \notin 0 .. Doubled[h - n] - 1
    BY <2>2 DEF T
  <2>4. n # 0
    <3>1. h - 0 = h
      OBVIOUS
    <3>2. QED
      BY <1>1, <2>3, <3>1
  <2>5. n - 1 \in 0 .. h /\ n - 1 \notin T /\ n \in 1 .. h
    BY <2>2, <2>3, <2>4
  <2>6. at[n - 1] \in 0 .. Doubled[h - (n - 1)] - 1 /\ at[n] = at[n - 1] \div 2
    BY <1>1, <2>5 DEF T
  <2>7. h - n \in 0 .. MaxClaims /\ h - (n - 1) \in 1 .. MaxClaims /\ (h - (n - 1)) - 1 = h - n
    BY <2>5
  <2>8. Doubled[h - (n - 1)] = 2 * Doubled[h - n] /\ Doubled[h - n] \in Nat
    BY <2>7, Doubling
  <2>9. QED
    BY <2>3, <2>6, <2>8
<1>3. QED
  BY <1>1, <1>2

Above(p, k, below) ==
  IF OnTheRight(Path(p.index, Len(p.siblings))[k - 1])
  THEN <<"node", p.siblings[k], below>>
  ELSE <<"node", below, p.siblings[k]>>
Bottom(p) == <<"leaf", p.claim>>
Climbs(p, n, u) ==
  u = [k \in 0 .. n |-> IF k = 0 THEN Bottom(p) ELSE Above(p, k, u[k - 1])]

LEMMA WalkClimbs ==
  ASSUME NEW p, Len(p.siblings) \in Nat
  PROVE  \E u : Climbs(p, Len(p.siblings), u) /\ Walk(p) = u[Len(p.siblings)]
<1>1. \E u : Climbs(p, Len(p.siblings), u)
  <2> DEFINE T == {n \in Nat : ~\E u : Climbs(p, n, u)}
  <2>1. SUFFICES ASSUME T # {} PROVE FALSE
    OBVIOUS
  <2>2. PICK n \in T : \A k \in T : n <= k
    BY <2>1, LeastNumber
  <2>3. n # 0
    <3>1. Climbs(p, 0, [k \in 0 .. 0 |-> Bottom(p)])
      BY DEF Climbs
    <3>2. QED
      BY <2>2, <3>1
  <2>4. PICK u : Climbs(p, n - 1, u)
    BY <2>2, <2>3
  <2>5. Climbs(p, n, [k \in 0 .. n |-> IF k = n THEN Above(p, n, u[n - 1]) ELSE u[k]])
    BY <2>2, <2>3, <2>4 DEF Climbs
  <2>6. QED
    BY <2>2, <2>5
<1> DEFINE u == CHOOSE u : Climbs(p, Len(p.siblings), u)
<1>2. Climbs(p, Len(p.siblings), u)
  BY <1>1
<1>3. Walk(p) = u[Len(p.siblings)]
  BY DEF Walk, Climbs, Above, Bottom
<1>4. QED
  BY <1>2, <1>3

\* The walk from a claim along the siblings of its path passes the nodes of the tree.
LEMMA ProofsShowClaims ==
  ASSUME NEW b, Batchable(b), NEW c \in b
  PROVE  Included(b, Proof(b, c), c)
<1> USE AnchorAssumption
<1> DEFINE h == Height(Cardinality(b))
           index == (CHOOSE i \in 1 .. Cardinality(b) : Hashes(b)[i] = c) - 1
           at == Path(index, h)
           p == Proof(b, c)
<1>1. h \in 0 .. MaxClaims /\ Doubled[h] \in Nat /\ Cardinality(b) \in Nat /\ Cardinality(b) <= Doubled[h]
  BY TreeOfBatch, HeightFits, BatchHashes
<1>2. index \in Int /\ index + 1 \in 1 .. Cardinality(b) /\ Hashes(b)[index + 1] = c
  <2>1. \E i \in 1 .. Cardinality(b) : Hashes(b)[i] = c
    BY BatchHashes
  <2> DEFINE i == CHOOSE i \in 1 .. Cardinality(b) : Hashes(b)[i] = c
  <2>2. i \in 1 .. Cardinality(b) /\ Hashes(b)[i] = c
    BY <2>1
  <2> HIDE DEF i
  <2>3. (i - 1) + 1 = i /\ i - 1 \in Int
    BY <1>1, <2>2
  <2>4. QED
    BY <2>2, <2>3 DEF i
<1>3. index \in 0 .. Doubled[h] - 1
  <2> HIDE DEF index, h
  <2>1. QED
    BY <1>1, <1>2
<1>4. /\ p.root = Root(b) /\ p.claim = c /\ p.index = index /\ p.count = Cardinality(b)
      /\ p.siblings = [k \in 1 .. h |-> Levels(b)[k - 1][IF OnTheRight(at[k - 1]) THEN at[k - 1] ELSE at[k - 1] + 2]]
  BY DEF Proof
<1> HIDE DEF p, index
<1>5. Len(p.siblings) = h
  <2>1. p.siblings = [k \in 1 .. h |-> p.siblings[k]]
    BY <1>4
  <2> HIDE DEF h
  <2>2. QED
    BY <1>1, <2>1, LenOfRow
<1>6. PICK u : Climbs(p, h, u) /\ Walk(p) = u[h]
  BY <1>1, <1>5, WalkClimbs
<1>7. /\ at[0] = index
      /\ \A k \in 1 .. h : at[k] = at[k - 1] \div 2
      /\ \A k \in 0 .. h : at[k] \in 0 .. Doubled[h - k] - 1
  BY <1>1, <1>3, PathStaysInTree
<1>8. /\ u[0] = <<"leaf", c>>
      /\ \A k \in 1 .. h : u[k] = IF OnTheRight(at[k - 1]) THEN <<"node", p.siblings[k], u[k - 1]>>
                                   ELSE <<"node", u[k - 1], p.siblings[k]>>
  <2>1. /\ u = [k \in 0 .. h |-> IF k = 0 THEN Bottom(p) ELSE Above(p, k, u[k - 1])]
        /\ Bottom(p) = <<"leaf", c>>
    BY <1>4, <1>6 DEF Climbs, Bottom
  <2>2. \A k : Above(p, k, u[k - 1]) = IF OnTheRight(at[k - 1]) THEN <<"node", p.siblings[k], u[k - 1]>>
                                      ELSE <<"node", u[k - 1], p.siblings[k]>>
    BY <1>4, <1>5 DEF Above
  <2> HIDE DEF at, h
  <2>3. u[0] = <<"leaf", c>> /\ \A k \in 1 .. h : u[k] = Above(p, k, u[k - 1])
    <3>1. h \in Nat
      BY <1>1
    <3>2. u[0] = Bottom(p)
      BY <2>1, <3>1
    <3>3. ASSUME NEW k \in 1 .. h PROVE u[k] = Above(p, k, u[k - 1])
      <4>1. k \in 0 .. h /\ k # 0
        BY <3>1
      <4>2. QED
        BY <2>1, <4>1
    <3>4. QED
      BY <2>1, <3>2, <3>3
  <2>4. QED
    BY <2>2, <2>3
<1>9. u[0] = Levels(b)[0][at[0] + 1]
  <2>1. index + 1 \in 1 .. Doubled[h] /\ Levels(b)[0] = Leaves(b) /\ index + 1 <= Cardinality(b)
    BY <1>2, <1>3, <1>1, TreeOfBatch
  <2>2. Leaves(b)[index + 1] = <<"leaf", Hashes(b)[index + 1]>>
    BY <2>1 DEF Leaves
  <2>3. QED
    BY <1>2, <1>7, <1>8, <2>1, <2>2
<1>10. ASSUME NEW k \in 1 .. h, u[k - 1] = Levels(b)[k - 1][at[k - 1] + 1]
       PROVE  u[k] = Levels(b)[k][at[k] + 1]
  <2> DEFINE j == at[k]
             i == at[k - 1]
  <2>1. k - 1 \in 0 .. h /\ k \in 0 .. h
    BY <1>1
  <2>2. j \in 0 .. Doubled[h - k] - 1 /\ i \in 0 .. Doubled[h - (k - 1)] - 1 /\ j = i \div 2
    BY <1>7, <2>1
  <2>3. Doubled[h - k] \in Nat
    <3>1. h - k \in 0 .. MaxClaims
      BY <1>1
    <3>2. QED
      BY <3>1, Doubling, ZenonT(60)
  <2>4. Levels(b)[k][j + 1] = <<"node", Levels(b)[k - 1][2 * (j + 1) - 1], Levels(b)[k - 1][2 * (j + 1)]>>
    <3>1. j + 1 \in 1 .. Doubled[h - k]
      BY <2>2, <2>3
    <3>2. QED
      BY <3>1, TreeOfBatch
  <2>5. p.siblings[k] = Levels(b)[k - 1][IF OnTheRight(i) THEN i ELSE i + 2]
    BY <1>4
  <2>6. u[k] = IF OnTheRight(i) THEN <<"node", p.siblings[k], u[k - 1]>> ELSE <<"node", u[k - 1], p.siblings[k]>>
    BY <1>8
  <2>7. i \in Int
    BY <2>2
  <2> HIDE DEF i, j, h
  <2>8. CASE OnTheRight(i)
    <3>1. i = 2 * (j + 1) - 1 /\ i + 1 = 2 * (j + 1)
      BY <2>2, <2>7, <2>8 DEF OnTheRight
    <3>2. QED
      BY <1>10, <2>4, <2>5, <2>6, <2>8, <3>1 DEF i, j
  <2>9. CASE ~OnTheRight(i)
    <3>1. i + 1 = 2 * (j + 1) - 1 /\ i + 2 = 2 * (j + 1)
      BY <2>2, <2>7, <2>9 DEF OnTheRight
    <3>2. QED
      BY <1>10, <2>4, <2>5, <2>6, <2>9, <3>1 DEF i, j
  <2>10. QED
    BY <2>8, <2>9
<1>11. u[h] = Levels(b)[h][at[h] + 1]
  <2> DEFINE T == {k \in 0 .. h : u[k] # Levels(b)[k][at[k] + 1]}
  <2>1. SUFFICES ASSUME h \in T PROVE FALSE
    BY <1>1
  <2>2. T \in SUBSET Nat
    BY <1>1
  <2> HIDE DEF T
  <2>3. PICK n \in T : \A k \in T : n <= k
    BY <2>1, <2>2, LeastNumber
  <2>4. n \in 0 .. h /\ u[n] # Levels(b)[n][at[n] + 1]
    BY <2>3 DEF T
  <2>5. n # 0
    BY <1>9, <2>4
  <2>6. n - 1 \in 0 .. h /\ n - 1 \notin T /\ n \in 1 .. h
    BY <1>1, <2>3, <2>4, <2>5
  <2>7. u[n - 1] = Levels(b)[n - 1][at[n - 1] + 1]
    BY <2>6 DEF T
  <2>8. QED
    BY <1>10, <2>4, <2>6, <2>7
<1>12. at[h] = 0
  <2>1. h \in 0 .. h /\ h - h = 0
    BY <1>1
  <2>2. at[h] \in 0 .. Doubled[0] - 1
    <3> HIDE DEF at, h
    <3>1. QED
      BY <1>7, <2>1
  <2>3. QED
    BY <2>2, Doubling
<1>13. Walk(p) = Root(b)
  BY <1>6, <1>11, <1>12 DEF Root
<1>14. QED
  BY <1>2, <1>4, <1>13 DEF Included, p

-----------------------------------------------------------------------------
(* The receipts. *)

ReceiptsInv ==
  /\ ProofsOK
  /\ \A b \in batches : Batchable(b)

LEMMA ReceiptsInvHolds == ProofsSpec => []ReceiptsInv
<1>1. ProofsInit => ReceiptsInv
  BY DEF ProofsInit, ProofsOK, ReceiptsInv
<1>2. ReceiptsInv /\ [ProofsNext]_proofVars => ReceiptsInv'
  <2>1. SUFFICES ASSUME ReceiptsInv, [ProofsNext]_proofVars PROVE ReceiptsInv'
    OBVIOUS
  <2>2. ASSUME NEW S \in SUBSET Claims, MakeBatch(S) PROVE ReceiptsInv'
    BY <2>1, <2>2 DEF MakeBatch, ProofsOK, ReceiptsInv
  <2>3. ASSUME NEW x \in Transactions, NEW b \in batches, Commit(x, b) \/ Anchor(x, b) PROVE ReceiptsInv'
    BY <2>1, <2>3 DEF Commit, Anchor, ProofsOK, ReceiptsInv
  <2>4. CASE UNCHANGED proofVars
    BY <2>1, <2>4 DEF proofVars, ProofsOK, ReceiptsInv
  <2>5. QED
    BY <2>1, <2>2, <2>3, <2>4 DEF ProofsNext
<1>3. QED
  BY <1>1, <1>2, PTL DEF ProofsSpec

\* A batch has one claim for a token.
LEMMA OneClaimForToken ==
  ASSUME NEW S, Batchable(S), NEW c \in S, NEW d \in S, c.token = d.token
  PROVE  c = d
<1> DEFINE T == {e.token : e \in S}
           f == [e \in S |-> e.token]
<1>1. IsFiniteSet(S) /\ Cardinality(T) = Cardinality(S)
  BY DEF Batchable
<1>2. f \in Surjection(S, T)
  BY DEF Surjection
<1>3. f \in Injection(S, T)
  <2> HIDE DEF f, T
  <2>1. QED
    BY <1>1, <1>2, FS_Surjection
<1>4. QED
  BY <1>3 DEF Injection, IsInjective

\* Every batch that is anchored has a transaction that committed its root.
LEMMA AnchoredHasTransaction ==
  ASSUME ReceiptsInv
  PROVE  Cardinality({b \in batches : ProofState(b) = "anchored"}) <=
           Cardinality({x \in Transactions : committed[x] # Nowhere})
<1> DEFINE A == {b \in batches : ProofState(b) = "anchored"}
           X == {x \in Transactions : committed[x] # Nowhere}
           f == [b \in A |-> CHOOSE x \in X : committed[x] = Root(b)]
<1>1. ASSUME NEW b \in A PROVE f[b] \in X /\ committed[f[b]] = Root(b)
  <2>1. PICK a \in anchors : Anchored(b, a)
    BY DEF ProofState
  <2>2. a.transaction \in Transactions /\ committed[a.transaction] = Root(b) /\ Root(b) # Nowhere
    BY <2>1, AnchorAssumption DEF Anchored, ReceiptsInv, ProofsOK
  <2>3. \E x \in X : committed[x] = Root(b)
    BY <2>2
  <2>4. QED
    BY <2>3
<1>2. \A b, d \in A : f[b] = f[d] => b = d
  BY <1>1, OneRootOneBatch DEF ReceiptsInv
<1>3. f \in Injection(A, X)
  BY <1>1, <1>2 DEF Injection, IsInjective
<1>4. IsFiniteSet(X)
  BY AnchorAssumption, FS_Subset
<1> HIDE DEF f, A, X
<1>5. Cardinality(A) <= Cardinality(X)
  BY <1>3, <1>4, FS_Injection
<1>6. QED
  BY <1>5 DEF A, X

\* receipt-proofs.ts:4: a proof shows its claim in its batch and nothing else, a
\* batch counts an answer once, and a transaction anchors one batch, for every
\* feed, every set of answers and batches of every size.
THEOREM ReceiptsAreSound == ProofsSpec => []ReceiptsProveThemselves
<1>1. ReceiptsInv => ReceiptsProveThemselves
  <2>1. SUFFICES ASSUME ReceiptsInv PROVE ReceiptsProveThemselves
    OBVIOUS
  <2>2. \A b \in batches : Batchable(b)
    BY <2>1 DEF ReceiptsInv
  <2>3. ASSUME NEW b \in batches, NEW d \in batches, NEW c \in b, NEW e \in d
        PROVE  Included(d, Proof(b, c), e) <=> b = d /\ c = e
    <3>1. ASSUME b = d, c = e PROVE Included(d, Proof(b, c), e)
      BY <2>2, <3>1, ProofsShowClaims
    <3>2. ASSUME Included(d, Proof(b, c), e) PROVE b = d /\ c = e
      <4>1. Root(b) = Root(d) /\ c = e
        BY <3>2 DEF Included, Proof
      <4>2. QED
        BY <2>2, <4>1, OneRootOneBatch
    <3>3. QED
      BY <3>1, <3>2
  <2>4. \A b \in batches : \A c, d \in b : c.token = d.token => c = d
    BY <2>2, OneClaimForToken
  <2>5. QED
    BY <2>1, <2>3, <2>4, AnchoredHasTransaction DEF ReceiptsProveThemselves
<1>2. QED
  BY <1>1, ReceiptsInvHolds, PTL

-----------------------------------------------------------------------------
(* The services, together (MCServices). *)

LEMMA ProofsStayInShape == ProofsSpec => []ProofsOK
<1>1. ProofsInit => ProofsOK
  BY DEF ProofsInit, ProofsOK
<1>2. ProofsOK /\ [ProofsNext]_proofVars => ProofsOK'
  <2>1. SUFFICES ASSUME ProofsOK, [ProofsNext]_proofVars PROVE ProofsOK'
    OBVIOUS
  <2>2. ASSUME NEW S \in SUBSET Claims, MakeBatch(S) PROVE ProofsOK'
    BY <2>1, <2>2 DEF MakeBatch, ProofsOK
  <2>3. ASSUME NEW x \in Transactions, NEW b \in batches, Commit(x, b) \/ Anchor(x, b) PROVE ProofsOK'
    BY <2>1, <2>3 DEF Commit, Anchor, ProofsOK
  <2>4. CASE UNCHANGED proofVars
    BY <2>1, <2>4 DEF proofVars, ProofsOK
  <2>5. QED
    BY <2>1, <2>2, <2>3, <2>4 DEF ProofsNext
<1>3. QED
  BY <1>1, <1>2, PTL DEF ProofsSpec

\* What StreamTypes leaves open: the credentials are of a JWT that was issued,
\* and nothing is handed on that the server does not have.
Credentials ==
  /\ strict \in BOOLEAN /\ {jwt, apiToken, activation, issued, expired} \subseteq 0 .. MaxJwts
  /\ bearer \in [Streams -> 0 .. MaxJwts]
WithinFeed ==
  \A s \in Streams :
    /\ lastEventId[s] <= MaxEvents /\ upcoming[s] <= MaxEvents + 1
    /\ \A i \in 1 .. Len(handed[s]) : handed[s][i] <= MaxEvents

LEMMA CredentialsStay == Credentials /\ [StreamsNext]_feedVars => Credentials'
<1> SUFFICES ASSUME Credentials, [StreamsNext]_feedVars PROVE Credentials'
  OBVIOUS
<1>1. ASSUME NEW s \in Streams, Guest(s) PROVE Credentials'
  <2>1. issued' \in 0 .. MaxJwts /\ jwt' = issued' /\ UNCHANGED <<strict, apiToken, activation, expired>>
    BY <1>1, Bounds DEF Guest, Credentials
  <2>2. bearer' = bearer \/ bearer' = [bearer EXCEPT ![s] = jwt']
    BY <1>1 DEF Guest
  <2>3. QED
    BY <2>1, <2>2 DEF Credentials
<1>2. ASSUME NEW s \in Streams, Activated(s) PROVE Credentials'
  BY <1>2 DEF Activated, Credentials, events
<1>3. ASSUME Expire PROVE Credentials'
  BY <1>3 DEF Expire, Credentials
<1>4. ASSUME \/ \E s \in Streams : OpenStream(s) \/ Retry(s) \/ Fails(s) \/ Receive(s) \/ Break(s)
             \/ Abort \/ UNCHANGED feedVars
      PROVE  UNCHANGED credentials
  <2>1. ASSUME NEW s \in Streams, Opened(s) PROVE UNCHANGED credentials
    BY <2>1 DEF Opened, credentials
  <2>2. ASSUME NEW s \in Streams, OpenStream(s) \/ Retry(s) PROVE UNCHANGED credentials
    BY <2>1, <2>2 DEF OpenStream, Retry, credentials
  <2>3. ASSUME NEW s \in Streams, Fails(s) \/ Receive(s) \/ Break(s) PROVE UNCHANGED credentials
    BY <2>3 DEF Fails, Receive, Break, credentials
  <2>4. ASSUME Abort \/ UNCHANGED feedVars PROVE UNCHANGED credentials
    BY <2>4 DEF Abort, feedVars, credentials
  <2>5. QED
    BY <1>4, <2>2, <2>3, <2>4
<1>5. UNCHANGED credentials => Credentials'
  BY DEF credentials, Credentials
<1>6. QED
  BY <1>1, <1>2, <1>3, <1>4, <1>5 DEF StreamsNext

LEMMA FeedStays == ASSUME StreamInv, WithinFeed, [StreamsNext]_feedVars PROVE WithinFeed'
<1>1. StreamTypes /\ MaxEvents \in Nat
  BY Bounds DEF StreamInv
<1>2. ASSUME NEW s \in Streams, Opened(s) PROVE WithinFeed'
  <2>1. PICK n \in Starts(s) : upcoming' = [upcoming EXCEPT ![s] = n]
    BY <1>2 DEF Opened
  <2>2. n \in Nat /\ n <= lastEventId[s] + 1 /\ lastEventId[s] \in Nat /\ lastEventId[s] <= MaxEvents
    BY <1>1, <2>1 DEF Starts, StreamTypes, WithinFeed
  <2>3. UNCHANGED <<lastEventId, handed>> /\ n <= MaxEvents + 1
    BY <1>1, <1>2, <2>2 DEF Opened
  <2>4. QED
    BY <1>1, <2>1, <2>3 DEF StreamTypes, WithinFeed
<1>3. ASSUME NEW s \in Streams, Receive(s) PROVE WithinFeed'
  <2> DEFINE id == upcoming[s]
  <2>1. id \in Nat /\ id <= MaxEvents /\ handed[s] \in Seq(Nat)
    BY <1>1, <1>3 DEF Receive, StreamTypes
  <2>2. /\ lastEventId' = [lastEventId EXCEPT ![s] = id] /\ upcoming' = [upcoming EXCEPT ![s] = id + 1]
        /\ handed' = handed \/ handed' = [handed EXCEPT ![s] = Append(handed[s], id)]
    BY <1>3 DEF Receive
  <2>3. /\ Len(Append(handed[s], id)) = Len(handed[s]) + 1 /\ Append(handed[s], id)[Len(handed[s]) + 1] = id
        /\ \A i \in 1 .. Len(handed[s]) : Append(handed[s], id)[i] = handed[s][i]
    BY <2>1, AppendProperties
  <2> HIDE DEF id
  <2>4. ASSUME NEW t \in Streams, NEW i \in 1 .. Len(handed'[t]) PROVE handed'[t][i] <= MaxEvents
    <3>1. CASE handed'[t] = handed[t]
      BY <2>4, <3>1 DEF WithinFeed
    <3>2. CASE t = s /\ handed' = [handed EXCEPT ![s] = Append(handed[s], id)]
      <4>1. handed'[t] = Append(handed[s], id)
        BY <1>1, <3>2 DEF StreamTypes
      <4>2. i \in 1 .. Len(handed[s]) \/ i = Len(handed[s]) + 1
        BY <2>1, <2>3, <2>4, <4>1, LenProperties
      <4>3. CASE i \in 1 .. Len(handed[s])
        BY <2>3, <4>1, <4>3 DEF WithinFeed
      <4>4. CASE i = Len(handed[s]) + 1
        BY <2>1, <2>3, <4>1, <4>4
      <4>5. QED
        BY <4>2, <4>3, <4>4
    <3>3. QED
      BY <1>1, <2>2, <3>1, <3>2 DEF StreamTypes
  <2>5. ASSUME NEW t \in Streams PROVE lastEventId'[t] <= MaxEvents /\ upcoming'[t] <= MaxEvents + 1
    BY <1>1, <2>1, <2>2 DEF StreamTypes, WithinFeed
  <2>6. QED
    BY <2>4, <2>5 DEF WithinFeed
<1>4. ASSUME UNCHANGED <<lastEventId, upcoming, handed>> PROVE WithinFeed'
  BY <1>4 DEF WithinFeed
<1>5. ASSUME NEW s \in Streams, OpenStream(s) \/ Retry(s) PROVE WithinFeed'
  BY <1>2, <1>4, <1>5 DEF OpenStream, Retry, events
<1>6. ASSUME \/ \E s \in Streams : Guest(s) \/ Activated(s) \/ Fails(s) \/ Break(s)
             \/ Expire \/ Abort \/ UNCHANGED feedVars
      PROVE  UNCHANGED <<lastEventId, upcoming, handed>>
  BY <1>6 DEF Guest, Activated, Fails, Break, Expire, Abort, events, feedVars
<1>7. QED
  BY <1>3, <1>4, <1>5, <1>6 DEF StreamsNext

LEMMA FeedStaysInShape == StreamsSpec => []StreamsOK
<1>1. StreamsInit => Credentials /\ WithinFeed
  <2>1. SUFFICES ASSUME StreamsInit PROVE Credentials /\ WithinFeed
    OBVIOUS
  <2>2. Credentials
    BY <2>1, Bounds, WindowAssumption DEF StreamsInit, Credentials
  <2>3. Len(<<>>) = 0
    BY EmptySeq
  <2>4. WithinFeed
    BY <2>1, <2>3, Bounds DEF StreamsInit, WithinFeed
  <2>5. QED
    BY <2>2, <2>4
<1>2. StreamInv /\ WithinFeed /\ [StreamsNext]_feedVars => WithinFeed'
  BY FeedStays
<1>3. ASSUME StreamInv, Credentials, WithinFeed PROVE StreamsOK
  <2>1. ASSUME NEW s \in Streams
        PROVE  /\ lastEventId[s] \in 0 .. MaxEvents /\ upcoming[s] \in 1 .. MaxEvents + 1
               /\ Len(handed[s]) <= MaxEvents
    <3>1. /\ lastEventId[s] \in Nat /\ upcoming[s] \in Nat \ {0} /\ Len(handed[s]) \in Nat /\ MaxEvents \in Nat
      BY <1>3, Bounds, LenProperties DEF StreamInv, StreamTypes
    <3>2. Len(handed[s]) # 0 => handed[s][Len(handed[s])] = Len(handed[s])
      BY <1>3, <3>1 DEF StreamInv, Sequenced
    <3>3. Len(handed[s]) <= MaxEvents
      BY <1>3, <3>1, <3>2 DEF WithinFeed
    <3>4. QED
      BY <1>3, <3>1, <3>3 DEF WithinFeed
  <2>2. QED
    BY <1>3, <2>1 DEF StreamInv, StreamTypes, Credentials, StreamsOK
<1>4. QED
  BY <1>1, <1>2, <1>3, CredentialsStay, InitStreams, StreamsStay, PTL DEF StreamsSpec

\* Each service runs as it would by itself.
LEMMA PartsOfServices == ServicesSpec => Spec /\ AttestSpec /\ ProofsSpec /\ StreamsSpec
<1>1. ServicesInit => Init /\ AttestInit /\ ProofsInit /\ StreamsInit
  BY DEF ServicesInit
<1> DEFINE serviceVars == <<part, vars, attestVars, proofVars, feedVars>>
<1>2. [ServicesNext]_serviceVars => [Next]_vars
  BY DEF ServicesNext
<1>3. [ServicesNext]_serviceVars => [AttestNext]_attestVars
  BY DEF ServicesNext
<1>4. [ServicesNext]_serviceVars => [ProofsNext]_proofVars
  BY DEF ServicesNext
<1>5. [ServicesNext]_serviceVars => [StreamsNext]_feedVars
  BY DEF ServicesNext
<1>6. QED
  BY <1>1, <1>2, <1>3, <1>4, <1>5, PTL DEF ServicesSpec, Spec, AttestSpec, ProofsSpec, StreamsSpec

\* The state of the two services, of the receipts and of the feed stays well
\* formed, whatever the feed brings and however often they stop.
THEOREM ServicesStayInShape == ServicesSpec => []ServicesOK
<1>1. TypeOK /\ AttestOK /\ ProofsOK /\ StreamsOK => ServicesOK
  BY DEF ServicesOK
<1>2. QED
  BY <1>1, PartsOfServices, PublisherTypes, AttestationTypes, ProofsStayInShape, FeedStaysInShape, PTL
=============================================================================
