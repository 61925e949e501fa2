----------------------------- MODULE EventStreams -----------------------------
(***************************************************************************)
(* How events of the worker reach the pages of a browser: the event        *)
(* streams of apps/desktop/lib/local-host.js and their reader in           *)
(* apps/web/lib/data/live/peer-bridge.ts, for one browser session.         *)
(*                                                                         *)
(* An event is its id.  A page reads one stream and opens another when it  *)
(* breaks; the host notices later, and until then the stream counts        *)
(* against the session.  Heartbeats are left out.                          *)
(***************************************************************************)
EXTENDS Naturals, Sequences, FiniteSets, SequencesExt

CONSTANTS
  Pages,             \* subscriptions of the session
  MaxEventBacklog,   \* MAX_EVENT_BACKLOG
  MaxSubscriptions,  \* maxSseSubscriptionsPerSession
  MaxEvents          \* bound on the events published

ASSUME StreamsAssumption ==
  /\ MaxEventBacklog \in Nat \ {0} /\ MaxSubscriptions \in Nat \ {0} /\ MaxEvents \in Nat

VARIABLES
  lastId,   \* nextEventId - 1
  events,   \* the backlog
  sse,      \* pages whose stream is open at both ends
  stale,    \* streams that a page left and the host still counts
  wire,     \* what was written to a page's stream and not read
  cursor,   \* the last id a page got
  heard     \* what its listener was given

streamVars == <<lastId, events, sse, stale, wire, cursor, heard>>

EventIdsSoFar == 1 .. lastId

StreamsOK ==
  /\ lastId \in 0 .. MaxEvents
  /\ events \in Seq(EventIdsSoFar) /\ Len(events) <= MaxEventBacklog
  /\ sse \subseteq Pages /\ stale \in Nat
  /\ Cardinality(sse) + stale <= MaxSubscriptions
  /\ wire \in [Pages -> Seq(EventIdsSoFar)] /\ cursor \in [Pages -> 0 .. lastId]
  /\ heard \in [Pages -> Seq(EventIdsSoFar)]

StreamsInit ==
  /\ lastId = 0 /\ events = <<>>
  /\ sse = {} /\ stale = 0
  /\ wire = [p \in Pages |-> <<>>] /\ cursor = [p \in Pages |-> 0]
  /\ heard = [p \in Pages |-> <<>>]

FaultDropsNew(log) == IF Len(log) > MaxEventBacklog THEN Front(log) ELSE log
Bounded(log) == IF Len(log) > MaxEventBacklog THEN Tail(log) ELSE log

\* publishEvent
PublishEvent ==
  /\ lastId < MaxEvents /\ lastId' = lastId + 1
  /\ events' = Bounded(Append(events, lastId'))
  /\ wire' = [p \in Pages |-> IF p \in sse THEN Append(wire[p], lastId') ELSE wire[p]]
  /\ UNCHANGED <<sse, stale, cursor, heard>>

FaultCountsOpen == Cardinality(sse) < MaxSubscriptions
HasCapacity == Cardinality(sse) + stale < MaxSubscriptions

IsAfter(id, last) == id > last

\* The backlog after a cursor, in its order.
Missed(last) == {i \in DOMAIN events : IsAfter(events[i], last)}
NthOf(S, n) == CHOOSE i \in S : Cardinality({j \in S : j <= i}) = n
Replayed(last) == [n \in 1 .. Cardinality(Missed(last)) |-> events[NthOf(Missed(last), n)]]

\* openEventStream; without capacity the page tries again later.
OpenEventStream(p) ==
  /\ p \notin sse /\ HasCapacity
  /\ sse' = sse \cup {p}
  /\ wire' = [wire EXCEPT ![p] = Replayed(cursor[p])]
  /\ UNCHANGED <<lastId, events, stale, cursor, heard>>

\* The page's reader: consumeSseBlock.
Read(p) ==
  /\ p \in sse /\ wire[p] # <<>>
  /\ LET id == Head(wire[p]) IN
       /\ cursor' = [cursor EXCEPT ![p] = IF id > @ THEN id ELSE @]
       /\ heard' = [heard EXCEPT ![p] = Append(@, id)]
  /\ wire' = [wire EXCEPT ![p] = Tail(@)]
  /\ UNCHANGED <<lastId, events, sse, stale>>

\* A stream breaks with what is on it, and the host learns it later.
Break(p) ==
  /\ p \in sse
  /\ sse' = sse \ {p} /\ stale' = stale + 1
  /\ wire' = [wire EXCEPT ![p] = <<>>]
  /\ UNCHANGED <<lastId, events, cursor, heard>>

StreamClosed ==
  /\ stale > 0 /\ stale' = stale - 1
  /\ UNCHANGED <<lastId, events, sse, wire, cursor, heard>>

StreamsNext ==
  \/ PublishEvent \/ StreamClosed
  \/ \E p \in Pages : OpenEventStream(p) \/ Read(p) \/ Break(p)

StreamsSpec == StreamsInit /\ [][StreamsNext]_streamVars

-----------------------------------------------------------------------------
(* Properties. *)

Given(p) == heard[p] \o wire[p]

\* A listener is given every event at most once and in order, through breaks and replays: pages
\* show the room state that came last, whatever its revision.
HeardOnceInOrder ==
  \A p \in Pages : \A i, j \in DOMAIN Given(p) : i < j => Given(p)[i] < Given(p)[j]

\* A page with a stream has been given, or has on the wire, all that the last MaxEventBacklog ids
\* name: a page misses only what a break outlasted.
BacklogReachesPages ==
  \A p \in sse : \A id \in EventIdsSoFar :
    id > lastId - MaxEventBacklog => id \in Range(Given(p))

\* Events reach a page once, in order, and as far back as the backlog.
EventsReachPages == HeardOnceInOrder /\ BacklogReachesPages
==============================================================================
