# FullTime in TLA+

A verification development for FullTime, a peer-to-peer application in which
football fans share an encrypted room for a match. It models the parts of the
program whose behaviour depends on ordering, concurrency, crashes or limits,
checks them with TLC on small instances, and proves most of what the runs check
with TLAPS for every size of the system. `PROJECT.json` lists the components,
the runs with a mistake for each property that the property notices, the source
lines that each definition stands for, the hazards and the theorems.

## 1. The system

A desktop or mobile application starts one Bare *worker* process that owns one
identity, one Corestore and one Hyperswarm. Windows and browser tabs talk to it
through a bounded request/event protocol. The worker keeps an Autobase for every
room the user has joined: every member appends operations to its own writer
core, Autobase linearizes all cores into one order, and every replica replays
that order through the same deterministic reducer. Facts about matches come
from one signed *publisher* feed, and answers to live calls are witnessed by one
signed *attestor*; rooms only refer to them.

| component | state | operations | what makes it hard |
|---|---|---|---|
| Room reducer (`workers/room-view.js`) | the room record, members, writers, invites, admissions, reports, timeline items, votes, answers | one handler per operation type behind `applyRoomNodes` | operations of many authors in any order, repeated nodes, redundant counters and indices, limits |
| Room replica and pairing (`workers/room.js`, `room-manager.js`) | one Autobase, the requests of candidates, claims, the join under way | pair, serve, claim, restart, rejoin, leave | several hosts, requests served late or twice, a new writer key per join, timeouts and crashes |
| Room handles (`workers/room-manager.js`) | open rooms, leases, openings, joins | dispatch, create, join, open, suspend, trim | code that reads a map before an `await` and uses it afterwards |
| Room updates (`room.js`, `room-manager.js`, web hooks, mobile screen) | coalesced refreshes, events, reads in flight | refresh, send, read | projections that overtake each other |
| History and threads (`room-view.js`, web hooks) | cursor, loaded pages, the newest projection | load older, merge | pages and projections that shift against each other |
| Scoring (`room-intelligence.js`, `packages/shared`) | verified answers, settlements | project, rank | two implementations of one set of rules |
| Slip markets (web and mobile) | markets on chain, records under way, the poll's reference | create, confirm, attach, resume | lost answers, reloads and replaced views between three systems |
| Notifications (`notification-store.js`, `electron/`) | intents, queue, native notifications, timers | enqueue, drain, show, transition | two writes per intent, drains that join, late lifecycle calls |
| Presence (`presence-network.js`) | leases per session | frames, expiry, announce | reordered frames, asynchronous membership checks |
| Media (`encrypted-media.js`, `media-transfer.js`) | uploads, downloads, the media core | begin, chunk, commit, read, abort | concurrent transfers, limits, lost answers |
| Fixture publisher (`apps/worker`, `packages/shared`) | signed feed, fixture machine, queue of appends | ingest, append, settle, repair | a crash between a record and what is derived from it, failed appends |
| Feed transport (`apps/worker/src/txline`) | cursors, windows of ids, credentials | connect, receive, renew | streams that break among repeated events and share credentials |
| Fixture consumer (`workers/fixture-plane.js`) | sparse core, projection | open, block, relay, checkpoint | four sources of blocks in any order |
| Answer attestation (`answer-attestor-client.js`, `apps/attestor`) | tries, connections, receipt log, room reference | submit, receive, accept, verify | late answers, retries with new ids, a stop between log and answer |
| Receipt proofs (`packages/shared/src/receipt-proofs.ts`) | claims, batches, anchors | batch, prove, verify, restore | proofs that must fit one claim only |
| Peer controller and local host (`desktop/lib`, web bridge) | pending calls, readiness, event backlog, streams | request, answer, fail, close, publish, replay | a worker that fails while calls wait, streams counted after they broke |
| Start of a device (`network-manifest`, `device-secret`, `account-store`) | manifest cache, secret, sealed account | start, update, reset | a stop between any two writes |
| Worker protocol, schemas, replay tools, Electron shell, user interfaces | | | sequential tools, data conversions and presentation |

How they interact: `rooms.js` dispatches a request to the room manager, which
leases a room handle, runs the action on the `Room` object and returns; the
room appends an operation, Autobase linearizes, the reducer changes the view,
and the room's refresh sends the new projection back through the manager to the
windows, the notification store and presence. The fixture consumer replicates
the log that the publisher signs. An answer goes from the room manager to the
attestor, whose receipt a room operation then refers to.

What makes each part correct, in a phrase: the reducer keeps one truth in
several records; whoever pairs gets in once, on an invite, and is not lost on
the way; the manager neither loses nor closes a room in use; the publisher's
log is a function of the facts it signed; a peer shows what was signed; the
attestor admits one answer per member and call; what is asked for comes to an
end.

## 2. The modules

    SettleEngine <- FixtureMachine <--+
         ^                            |
         +------ FixtureFeed <--- FixturePublisher    (FixturePublisher implements FixtureFeed)
                 AnswerLedger <-- AnswerAttestation   (AnswerAttestation implements AnswerLedger)

    RoomMembership <-- RoomTimeline
         ^------------ RoomPairing

    module for TLC      puts side by side
    MCRoomMembership    RoomMembership
    MCRoomTimeline      RoomTimeline, SlipMarket, RoomScores, RoomPages      (one "topic" per behaviour)
    MCRequests          PeerController, RoomHandles, FixturePublisher, RoomUpdates   (one "part")
    MCServices          FixturePublisher, AnswerAttestation, ReceiptProofs, FeedStreams
    MCPeer              RoomPairing, Notifications, Presence, MediaTransfer, FixtureConsumer,
                        EventStreams, DeviceStart

The MC modules put modules that share no state into one instance: a behaviour
runs the one that `topic` or `part` names and leaves the others in an initial
state, so that the instance is their sum and not their product.

Definitions keep the names of the source. A definition called `Fault...` stands
before the definition it is a mistake in; no model uses it, and replacing the
definition by it shows that a property notices the mistake.

### The room

**RoomMembership** is the membership half of `applyRoomOperation`. Its variables
are the records of the Hyperbee view, one per key family (`member/`, `writer/`,
`invite/`, `invite-use/`, `admission/`, `joined/`, `referral/`,
`key-agreement/`, `report/`, `operation/`), the room record, and `base`, the
writers of the Autobase system view. There is one action per operation type,
and `NoEffect` for what the policy rejects; `Next` is one linearized node. The
acting user is the owner of the writer the node came from; clocks of different
authors are not ordered, and any writer may append any payload.

**RoomTimeline** adds items, replies and answers (`placed`, each with its
sequence number), reply counters, votes, reactions, market references, media
bindings and slow mode. Admissions, removals, departures and closing are
RoomMembership's actions with the notice each leaves. Behaviours start in a
room that every user has joined (`Started`), which RoomMembership reaches in as
many operations as there are users and one more.

**RoomPairing** is one device that joins, leaves and joins again: `joinRoom`,
`pair`, `rejoin`, the claim and `_handlePairingRequest`, on the same records. A
request may be served by any member, several times and long after the candidate
gave up; a join stops at a timeout, a crash or a quit between any two steps.

**RoomHandles** is the handle pool. A step is the code between two awaits; a
task is one `dispatch`, `createRoom` or `joinRoom`; `rooms`, `recency`,
`leases`, `opening` and `joining` are the maps of the class, and `handle` says
what each `Room` object is doing. `_makeRoomCapacity` and `_trimActiveRooms`
take one step per eviction and wait for the close of the victim. The order of
use is a sequence, so that two uses in one millisecond are ordered.

**RoomUpdates**, **RoomPages**, **RoomScores** and **SlipMarket** are what a
member's window or phone does with the room: how it learns that the room went
on, how it pages through it, the board it derives (with the second
implementation in `packages/shared` as operators named `Shared...`, against
which the first is compared), and how a poll gets its market. A refresh and an
update on its way may fail in the worker (`RefreshFails`, `UpdateDropped`): the
code tells the room's listeners of an error and nobody asks again. That a market
is confirmed and that its reference is stored are two steps of `SlipMarket`
(stage `keeping`, then `KeepReference`), between which the view may go or the
store may fail.

### Matches and answers

**SettleEngine** is `call-scheduler.ts` and `settle-engine.ts` for the two kinds
of call that are scheduled, **FixtureMachine** the fold of a fixture's messages.
**FixturePublisher** is the process that signs: ingest folds a message and
queues its publication in one turn; the task at the head of `appendTail`
appends the fact, then its calls, then its settlements, one Hypercore append at
a time; between any two appends the process may crash, an append may be
rejected, and `Open` repairs the log. **FixtureFeed** is what a reader is
promised: every fact appears together with the calls it opens and the
settlements it decides. The mapping of `PublishesAtomically` completes the log
with the derived records that are still missing, so that a crash and the repair
are stuttering steps. Modelled as in the code, and worth knowing: a score
record checkpoints the message's status code and not the machine's; the
frontier is the maximum of two independent streams; a window is closed by the
first message of its last feed time, although a goal of that time behind it
still belongs to the window (`settle-engine.ts:207`); a rejected append does not
stop the publications queued behind it.

**FeedStreams** is how the fixture worker reads TxLINE, **FixtureConsumer** how
a peer projects the publisher's log from blocks on disk, the live reader, the
first block and the relay.

**AnswerAttestation** is a member's answer from `submitAnswer` through its
connection, the serial service and the receipt log to the reference in the
room; **AnswerLedger** is what the service promises. **ReceiptProofs** has
claims, Merkle batches and anchors over hashes that are free terms.

### The device

**Notifications**, **Presence**, **MediaTransfer**, **EventStreams**,
**PeerController** and **DeviceStart** follow the files that their header
comments name. External to the repository, and modelled by how the code uses
them: blind pairing, TxLINE, the chain of the markets, the notification centre.

## 3. What the runs check

| run | configuration | result | question |
|---|---|---|---|
| `membership` | `RoomMembership_policy.cfg` | holds | Do members, writers, invites, admissions, referrals and reports stay consistent, whatever the order and repetition of operations? |
| `timeline` | `RoomTimeline_topics.cfg` | holds | Does the timeline add up through departures and rejoins, does a poll keep its market, do both implementations show one board, do pages reach everything? |
| `handles` | `Requests_fair.cfg` | holds | Does what is asked for come to an end: calls of the Electron process, requests for rooms, phase calls of the fixture worker, updates on their way to windows? |
| `publisher` | `Services_crash.cfg` | holds | Do the two signed logs keep their promises through crashes, is the feed read once and in order, does a receipt prove what it says and nothing else? |
| `peer` | `Peer_services.cfg` | holds | Does each part of a peer do so over timeouts, crashes, reordering and limits? |
| `report_roster` | `RoomMembership_roster.cfg` | violated | Can staff who all published a key always be sent a report? |
| `handles_ready` | `RoomHandles_ready.cfg` | violated | Does a request use a room only once it is open? |
| `pairing_rejoin` | `RoomPairing_rejoin.cfg` | violated | Is a member whose rejoin stopped half-way able to come back? |
| `publisher_restart` | `FixturePublisher_restart.cfg` | violated | Do phases happen once across a restart? |
| `publisher_failure` | `FixturePublisher_failure.cfg` | violated | Is every break in the published sequence declared as a gap? |
| `notifications_retry` | `Notifications_retry.cfg` | violated | Is a message that found no slot shown when slots are free again? |
| `updates_overlap` | `RoomUpdates_overlap.cfg` | violated | Does the phone's screen catch up after a burst of updates? |

The properties of the passing runs:

* Room: `MemberCountExact`, `OneLiveInvite`, `WritersMatchMembers`,
  `JoinsTraceBack` (every join leads back to the creator), `ReportStaysReadable`,
  `EntryIsRegular` (nobody enters past the checks of an admission);
  `HistoryAddsUp` (dense numbers, exact reply counts, truthful notices),
  `ReferencesHold` (quotes, votes, answers and attachments refer to what is
  there, once per user although users change writers), `SlowModeSpacing`,
  `ClosedIsFrozen`, `PollsKeepTheirMarket`, `BoardsAgree`,
  `PagesReachEverything`.
* Requests: `HandlesAreKept` (a leased room is not suspended, a room has one
  object, no open object is lost), `EndsWithinBound`, `EachCallEndsOnce`,
  `NobodyWaitsForever`, `EveryCallSettles`, `PhasesUntilRestart`, `WindowsFollow`.
* Services: `OneVerdict`, `HolesAreDeclared`, `GoalsComeInTime`,
  `PublishesAtomically`, `AcceptedAnswersCount`, `LedgerSpec`,
  `ReceiptsProveThemselves`, `EventsComeOnce`.
* Peer: `JoinsHold`, `OneIntentEach`, `ShownIsThere`, `TransfersGoThrough`,
  `ProjectionFollowsFeed`, `EventsReachPages`, `DevicesComeUpAgain`.

`TypeOK`, `RoomOK`, `RequestsOK`, `ServicesOK` and `PeerOK` are the type
invariants, the composed ones conjunctions of one per module.

`CHECK_DEADLOCK FALSE` is set everywhere because every model stops by itself:
operation ids, feed messages, frames, versions and `Room` objects are bounded,
and a publisher that crashed may stay down.

### Bounds, and why they are enough

* `membership`: seven operations by three users on four writers, three requests
  and two invites in a room for two. Six operations fill the room, free a place
  and let the same or another user in with a new writer; the seventh is the
  repetition, the claim, the key or the report that meets the result. Two clock
  values make expired invites and clocks that run back. Users, writers,
  requests, keys and reports are interchangeable (`Symmetry`).
* `report_roster`: eleven operations, one writer per user: the shortest
  violation needs a promotion on each side of a leave and a rejoin.
* `timeline`: the room starts populated, with five operations left: leave,
  rejoin and three contributions, or five contributions. Posts have one item and
  two replies over two clock values, so that there is a post in time, one too
  early and a clock set back; the other contributions are at one time, with two
  ids of most kinds, which is what a conflict needs. Of the two ids of items one
  is free and the other (`5`) is the id of the notice that a later operation
  leaves, so that a post takes a notice's place. Markets: two views, two polls
  and three markets, so that one can be lost, before or after its reference was
  stored, and made anew while another is raced. Scores: two fans and two calls, each decided, void or open. Pages: a
  window of 4 and pages of 2 stand for 200 and 100 and nine items for a long
  room; `PagesAssumption` says that no more than a window less a page comes
  between two projections that the window sees.
* `handles`: three requests are the fewest in which one opens, one shares and
  one evicts; a request that ended makes room for the next, so behaviours are
  not limited to three. One handle allowed makes every second room an eviction;
  two `Room` objects let a suspended room be opened again while the other is
  still closing. Three callers with two places cover the limit. The publisher
  has three messages, a crash and a rejected append in every order: a phase that
  goes back and forth. Three versions of a room are an update during a read and
  one after it, each of which the worker may fail to project. No symmetry: the
  run checks liveness.
* `publisher`: four messages with losses (sequence numbers jump), three feed
  times, one side, odds that pass the scores, two publications in the queue and
  one crash. Windows last one and two units, so a goal falls before, at and
  after the end of one, with another message of that feed time and without. One member with three tries of one call meets itself
  retrying beside a service that stops; what others take of the service is the
  counter `other`. Two batches of claims, one settled and one void call, one
  transaction. Streams of four events with a window of three ids and two breaks
  are as tight as `WindowAssumption` allows. A batch has up to `MaxClaims` = 3
  claims, the fewest that pad a tree; the code's limit is 4,096.
* `peer`: a room of three with two hosts and three requests, two faults or
  moderations; two messages for one slot; two sessions of one user, three
  frames; two uploads for one place beside three downloads, of which two may be
  begun at once (`MaxBegins`), one is read and one kept; a log of six
  records with two calls, a goal in the window of each and a settlement; three
  pages for two streams and a backlog of two; three manifests, secrets and
  identities, which is one stored, one newer and one after a reset, with clocks
  that are behind the newer one.
* The remaining violation runs use the smallest sets that show the disagreement.

### Fairness

`RoomHandles!Fairness` is weak fairness of every request's next step and of
every close. The first is the JavaScript event loop, which runs a continuation
once its await has ended; the awaits of an open or a pairing are bounded by
timeouts (`APPLY_TIMEOUT_MS`, `PAIRING_TIMEOUT_MS`). The second is that
`Room.close` ends: it awaits the closes of its Autobase, media and store,
swallowing their errors, and waits for no other request; that these library
calls return is assumed. Arrivals get none. `ControllerFairness` is the
timer of every call, the wake-up of calls that waited for the worker, and the
deadline and end of `close`; the worker's answers get none.

The publisher gets weak fairness of the promise chain of `appendTail`
(`Publish`) and of the shutdown of `runLive` after an error (`Close`). Nothing
makes an operator restart the worker and the feed owes no message, so `Open`
and ingest get none, and `EveryCallSettles` promises nothing for a worker that
is down. `WindowsFollow` needs no fairness. `notifications_retry` runs under
`NotifySpec`, with fairness of the drains, timers and calls that are under way.

### Disagreements between the code and what is said of it

* `report_roster`: a moderator who leaves and rejoins gets the role back without
  the roster cap (`room-view.js:338`). The staff then exceeds the cap and
  `reportRecipients` returns nobody, so every report is rejected, while
  `PEARS.md` says that reports are encrypted for the current staff.
* `handles_ready`: `ensureRoom` looks at the registered objects before the
  pending opens, and `_openRecord` registers the object before it opens it, so
  a second request runs on a room that is not open. A test expects the
  opposite; its stub registers the object after the wait.
* `pairing_rejoin`: a rejoin draws a writer key that only the running call
  knows. If a host admits it and the call ends before the restart, the room
  binds the member to a key whose secret is gone, and refuses every later one.
* `publisher_restart`: the status code a restart resumes from is that of the
  last message, also when that message was stale, and the next message with the
  current status begins the phase again and opens its calls again. A message
  without a status has the same effect without a restart.
* `publisher_failure`: a rejected append removes one publication from the queue
  and the ones behind it are appended, though their sequence numbers were
  computed as if it were there. The hole is not declared as a gap.
* `notifications_retry`: a drain that reads the queue while a lifecycle call
  resolves one of its entries fails as a whole, and the wake-up of that call
  was merged into it; nothing drains the queue again while slots are free.
* `updates_overlap`: a read that the phone's timer asks for while another is in
  flight joins it, although that one may have been answered before the update.

## 4. What is proved

Eight modules prove 53 listed theorems, for every value of the constants that
satisfies the named assumptions. They state 38 of the 40 properties of the
passing runs, every invariant and every action property; the other two are
liveness. Each is an induction over steps: an invariant that is inductive, one
lemma per action that it is kept, and the property from it. The properties were
checked by TLC before they were proved.

| module | inductive invariant | properties |
|---|---|---|
| `RoomMembershipProofs` | `IInv` and `Trail` | `TypeOK`, `MemberCountExact`, `OneLiveInvite`, `WritersMatchMembers`, `EntryIsRegular`, `JoinsTraceBack`, `ReportStaysReadable` |
| `RoomTimelineProofs` | `CInv`, on top of `IInv` and `Trail` | `HistoryAddsUp`, `ReferencesHold`, `SlowModeSpacing`, `ClosedIsFrozen` |
| `RoomClientProofs` | `PagesInv`, `SlipInv`, `ScoresInv` | `PagesReachEverything`, `PollsKeepTheirMarket`, `BoardsAgree`, `RoomOK` |
| `RoomHandlesProofs` | `HandlesInv` | `HandlesAreKept`, `EndsWithinBound` |
| `WorkerProofs` | `ControllerInv`, `UpdatesInv` | `EachCallEndsOnce`, `WindowsFollow`, `RequestsOK` |
| `FixturePublisherProofs` | `PInv` | `OneVerdict`, `HolesAreDeclared`, `PublishesAtomically`, `PhasesUntilRestart`, `GoalsComeInTime` |
| `ServicesProofs` | `AInv`, `StreamInv`, `ReceiptsInv` | `AcceptedAnswersCount`, `LedgerSpec`, `EventsComeOnce`, `ReceiptsProveThemselves`, `ServicesOK` |
| `PeerServicesProofs` | one per service | `JoinsHold`, `OneIntentEach`, `ShownIsThere`, `TransfersGoThrough`, `ProjectionFollowsFeed`, `EventsReachPages`, `DevicesComeUpAgain`, `PeerOK` |

A theorem is about the specification of its component. The runs check the same
formula on a composition that leaves the component's state alone while another
part runs; the theorems of `RoomOK`, `RequestsOK`, `ServicesOK` and `PeerOK`
are about the compositions, each of whose sides is shown to run as it would by
itself.

The library's induction theorems cannot be used for what a fold or a recursive
function computes, since they take an operator as a parameter. Such facts are
proved by the least counterexample instead: the least number (`LeastNumber`) or
the least set (`SmallestSet`) for which a statement fails is none. That a
recursive function exists at all is proved in the same way, up to each number.

### Why the invariants are what they are

**Membership.** That an admission keeps `owner` and `writerOf` inverse needs to
know that the new writer belonged to nobody or to the same user; that a
departure counts down correctly needs a member to be active; that the creator's
writer stays in `base` needs that nobody but the creator has its role. `IInv` is
the conjunction of these with `Records`, which says how the member records hang
together. `Trail` is a second induction, over the referrals: who refers has
joined, and a first join's referral has nobody behind it yet, so that no ring
can close. `RemovalIsFinal`, `EntriesConsumeRequests` and `EntriesAreRegular`
are about single steps and follow from `IInv`.

**Timeline.** `CInv` counts: sequence numbers are dense, a reply counter is the
number of replies, the notices of a user account for the user being a member
but for those whose id an item of a member had taken, since the reducer appends
a notice under `system_` and the operation's id only where no item is, and the
post that `lastPostAt` remembers is the last one. References point to
lower numbers, and votes and answers are keyed by the user and not by the
writer, which is what survives a rejoin. The rooms that behaviours start in
satisfy the membership invariants under `StartAssumption`, so `RoomStaysSound`
carries them over to a room with a timeline.

**Windows.** Pages: what was merged is contiguous from the cursor to the newest
projection, and a click's scan does not pass the cursor that it began at;
`PagesAssumption` is what keeps a projection from leaving a gap. Markets: every
reference in the room came from a confirmed creation for its poll whose
reference was stored (`recorded`), and two recorded for one poll mean two
creations that raced. A creation that ends between the confirmation and the
store leaves nothing to attach, and the retry mints a second market: the
property speaks of what was recorded. Updates: without an overlap and a failure
whatever is on its way is the latest version, and a window that does not show it
has something on its way; a failure (`dropped`) is forgotten with the next
update or refresh that starts at rest, which brings what was lost with it.

**Handles.** Counting leases is not enough: an eviction looks at leases, pending
opens and pending joins, and between two awaits a request may be in none of the
maps that another one looks at. `HandlesInv` says for each stage of a request
what the maps hold for it, that a promise and an unopened `Room` object have
exactly one owner, that an object belongs to one room for good, and that the
lease count of a room is the number of requests that hold one. `BoundIsRestored`
follows from the loop test of the last request, which by then is alone.

**Publisher.** `PInv` says that calls and settlements in the log follow from its
facts, that the task in progress ends where the facts say, that log and queue
are in order and chained (each message carries the number before it or declares
a gap), and that a call has one verdict. Two theorems have a hypothesis that the
property's run has as a bound: `HolesDeclared` and `PublishesAtomically` hold as
long as no append has failed, and `publisher_failure` shows what happens
otherwise; `PhasesBeginOnce` needs every message to have a status, and is about
the time between two starts. A goal that comes after its window was settled is
after the last score, because feed times do not decrease: either odds or the end
of the match had closed the window, or it was a score of the goal's own feed
time, which is the exception that `GoalsComeInTime` names. The refinement maps each append either to a
stutter or to `AppendFact`, whose derived records were due at that moment.

**Attestor.** `AInv` says that a member's queues hold its own tries and nobody
waits twice, that the service knows the receipts of its log except for one it is
about to remember, that a submission which passed a check of the current turn
still passes it, and that the places taken are the tries in flight. `LedgerSpec`
maps each step to `Offer`, `Forget`, `Accept`, `Lock` or a stutter.

**Peer.** The start of a device: what each stage has found on the disk, and that
manifests only get newer from the endpoint to the cache and to the start. After
a device came up, its cache or its build holds a manifest as new as the one it
came up with (`KeepsItsManifest`), so that a later start without the network
finds one; the phone looks at the manifest of its build first, and gives up
where that is newer than its clock, the one exception of `StartsSucceed`. A stored secret is only replaced together with the account
(`KeepsItsSecret`). The consumer: what is shown are the calls and settlements of the blocks that were
applied, each settlement after its call, and the reader has applied every block
that it passed. Presence: leases end, and what is shown was projected from
leases. Media: what was received is a prefix of the file, the media core has one
writer, and a download stands at the next chunk or, when an answer was lost, at
the one before; an export passes the count of downloads before its lookups and
its read and is registered after them, so that those kept and those under way
exceed the limit by the begins that overlap. Notifications: an intent is written before it is queued, and
nothing happens to a message before. Pairing uses the membership invariant and
adds that an admission is what its request said, and that what a host takes as
applied, or has signed, is in the room.

**Streams and calls.** A connection resumes at most `Overlap` events before the
cursor, and the cursor follows repeated events too, so a stream that breaks
among them falls back further each time: after b breaks by `(Overlap - 1) * b`
at most. `WindowAssumption` says that the window of ids is wider than that, which
the 5,000 ids of the code are for many breaks. The controller: nobody is pending
once the worker is known to be gone, and the number of pending calls is counted
where they are added.

**Receipts.** A root is a term made of the leaves, so two batches with one root
have equal trees (`Levels` are compared from the root down), equal leaves and
equal claims; the path of a leaf halves its index level by level, and the walk
along it rebuilds the node of the tree on each level, whatever the height.
A transaction commits one root once, which bounds the batches that are anchored.

**Boards.** A member has one answer per call, so scores stand for answers one by
one. A fold over a finite set can take any element first (`AnyFirst`) and gives
the same over a set whose elements stand for those of the first (`SameSum`).
Rows of different fans are in a strict total order: accuracies are compared by
cross products (`Fractions`), and each place is taken by the row with as many
rows before it (`Places`). Without the row of a user who has not scored, which
may be in the middle, the others keep their order (`BoardWithout`).

**Pages of a browser.** The backlog is the last ids without a hole, what a stream
still carries are the last ids too, and between a page's cursor and the start of
what its stream carries are only ids that had left the backlog when the stream
was opened. So whatever order streams end and resume in, a page hears each id at
most once, in order, and all those that the backlog still had.

### Assumptions

Sets of users, writers, members, requests, rooms, tasks, tries, callers, fans,
transactions and notification items are finite; `None`, `Nobody`, `Null`,
`NoRoom`, `Undecided` are none of the values they stand beside, and no root is
`Nowhere`; bounds are natural numbers, those of pools, pages, events and
batches positive where zero means nothing. The others say what a program or a
feed is like: clocks of accounts and leases (`PresenceAssumption`), a log as a
publisher signs it (`LogAssumption`), hosts who fit the room
(`PairingAssumption`), difficulties that are percentages
(`DifficultyAssumption`), the two of the windows above. TLC evaluates all of
them in the runs. `PhasesBeginOnce` has the hypothesis that every message has a
status (`StatusIsKnown`), which is not one of the module: without it the
property does not hold.

### Only model-checked

* Liveness: `NobodyWaitsForever` and `EveryCallSettles`, because the prover does
  not reason about fairness.
* That the seven disagreements of section 3 do occur: a theorem can say that
  something never happens, and a run shows that it does.

No module uses a `RECURSIVE` operator.

## 5. What is not modelled, and the plan

Left out for good: Autobase's own ordering, Hypercore, Corestore and Hyperswarm
(taken by what the code relies on), encryption and signatures, canonical
encodings and record schemas, framing, HTTP, the rendering of user interfaces,
replay and recording tools, and the external market program.

What the models leave out of the parts they cover, and what was seen there:

* Rooms: the room catalogue (a crash while creating orphans a room, an invite
  that fails after the room was stored, entries and projections that overwrite
  newer ones, overlapping read marks, a new name that reaches only open rooms);
  a re-linearization that moves items under a cursor; an append that succeeded
  and is re-ordered afterwards (`room.js:321`); closing the whole worker.
* Windows: `revision` is compared by nobody, so an overtaken projection or a
  late `getRoomState` sets a page back until the next event; more than a window
  less a page of items between two projections stay unseen; a poll outside the
  newest 200 items cannot get its market attached; a review of a rulebook races
  with its signature; the room radio and its announcements.
* Attestor: the frontier test of `submitAnswer`, more than one member in the
  run, receipts whose answer was lost and that only a retry would find.
* Publisher: fixture lists, `fixture.upsert`, threshold, market-read and crowd
  calls; `MAX_FIXTURE_PLANE_GAPS` cannot be reached, since a record is limited
  to 64 KiB (some 770 gaps), after which publishing throws.
* Feed: a renewal replays an activation that binds the old JWT (`auth.ts:95`),
  concurrent renewals may leave tokens of different issues, a CRLF may be cut.
* Consumer: cards, the history of odds, goals of an older score that are lost
  behind a hole until the plane is reopened.
* Device: a phone whose build brings a manifest newer than its clock does not
  start without the network, although its cache is valid
  (`network-manifest.ts:225`; modelled, and excepted by `StartsSucceed`) and
  `PEAR-ROOMS-HANDOFF.md:63` has a failed refresh use the cache; clocks set back,
  endpoints that go back to an older manifest, the loss of the manifest cache by
  a desktop reset (`PEAR-ROOMS-HANDOFF.md:286` and `main.js:334` differ).
* Peer: an event that a page's listener throws on, or that is not valid, and
  that moves its cursor all the same; clocks of devices that differ, which
  `Presence` takes to be one; the watcher's own typing flag; a drain that shows a dismissed message
  again; an intent without a queue entry after a crash; an export whose last
  answer is lost and starts anew; browser sessions, which end only at the limit
  of 32; the mobile controller, which has no failed state.
* Receipts: the hash of a referenced record is not compared with its block
  (`receipt-proofs.ts:317-331`).

Next: models of the room catalogue and of concurrent renewals; the two hazards
without a property (a rejoin that holds no lease, and a credential renewal that
a strict server refuses) once a document says what should hold.
