----------------------------- MODULE FeedStreams -----------------------------
(***************************************************************************)
(* How the fixture worker reads TxLINE: runSseLoop, TxlineHttp and         *)
(* TxlineAuth of apps/worker/src/txline/, with the two streams that        *)
(* ingest.ts starts over one set of credentials.                           *)
(*                                                                         *)
(* TxLINE is external.  It numbers the events of a stream, resumes after   *)
(* the Last-Event-ID it is given or some events before, and refuses a      *)
(* guest JWT that expired.  activation.ts:6-9 calls the message that is    *)
(* signed for an activation a strict binding of transaction, leagues and   *)
(* JWT: a server in Strictness = TRUE holds the worker to it, and takes an *)
(* API token with the JWT it was issued under only.                        *)
(*                                                                         *)
(* JWTs are numbered as they are issued.  Backoff, parsing and the bytes   *)
(* of a frame that a connection cuts off are left out; a heartbeat is a    *)
(* chunk without an event.                                                 *)
(***************************************************************************)
EXTENDS Naturals, Sequences, SequencesExt

CONSTANTS
  Streams,       \* scores and odds
  Strictness,    \* the kinds of server
  DedupeWindow,  \* ids that SlidingIdSet remembers
  Overlap,       \* events that the server may send again
  MaxEvents,
  MaxBreaks,     \* bound on connections that break
  MaxJwts        \* bound on JWTs

\* A connection that repeats old events and breaks leaves the cursor behind;
\* the window must reach as far as all of them together set it back.
ASSUME WindowAssumption ==
  /\ {DedupeWindow, Overlap, MaxEvents, MaxBreaks, MaxJwts} \subseteq Nat
  /\ Overlap > 0 /\ (Overlap - 1) * MaxBreaks < DedupeWindow
  /\ MaxJwts > 0 /\ Strictness \subseteq BOOLEAN

VARIABLES
  strict,
  jwt, apiToken,  \* the credentials, as the JWT they are or were issued under
  activation,     \* cachedActivation: the JWT its signature binds, 0 for none
  issued,         \* JWTs issued
  expired,        \* those up to this one expired
  conn,           \* where each stream's connection is
  bearer,         \* the JWT of its activation request
  lastEventId, upcoming, handed,
  breaks

feedVars == <<strict, jwt, apiToken, activation, issued, expired, conn, bearer,
              lastEventId, upcoming, handed, breaks>>
credentials == <<strict, jwt, apiToken, activation, issued, expired, bearer>>
events == <<lastEventId, upcoming, handed, breaks>>

Stages == {"down", "guest", "activating", "retry", "open", "ended"}

StreamsOK ==
  /\ strict \in BOOLEAN
  /\ {jwt, apiToken, activation, issued, expired} \subseteq 0 .. MaxJwts
  /\ conn \in [Streams -> Stages] /\ bearer \in [Streams -> 0 .. MaxJwts]
  /\ lastEventId \in [Streams -> 0 .. MaxEvents]
  /\ upcoming \in [Streams -> 1 .. MaxEvents + 1]
  /\ \A s \in Streams : Len(handed[s]) <= MaxEvents
  /\ breaks \in 0 .. MaxBreaks

\* runLive has a JWT and an API token, given or by activateWithKeypair.
StreamsInit ==
  /\ strict \in Strictness
  /\ jwt = 1 /\ apiToken = 1 /\ issued = 1 /\ expired = 0
  /\ activation \in {0, 1}
  /\ conn = [s \in Streams |-> "down"] /\ bearer = [s \in Streams |-> 0]
  /\ lastEventId = [s \in Streams |-> 0] /\ upcoming = [s \in Streams |-> 1]
  /\ handed = [s \in Streams |-> <<>>]
  /\ breaks = 0

-----------------------------------------------------------------------------
(* Connecting: openStream and refresh. *)

Accepted == jwt > expired /\ (strict => apiToken = jwt)

\* Where the server begins: with its first events when no id is given.
FaultNoResume(s) == {1}
Starts(s) == {n \in 1 .. lastEventId[s] + 1 : n + Overlap > lastEventId[s]}

Opened(s) ==
  /\ conn' = [conn EXCEPT ![s] = "open"]
  /\ \E n \in Starts(s) : upcoming' = [upcoming EXCEPT ![s] = n]
  /\ UNCHANGED <<credentials, lastEventId, handed, breaks>>

OpenStream(s) ==
  /\ conn[s] = "down"
  /\ IF Accepted THEN Opened(s)
     ELSE /\ conn' = [conn EXCEPT ![s] = "guest"]
          /\ UNCHANGED <<credentials, events>>

\* The answer to /auth/guest/start; refresh goes on to activate in the same turn.
Guest(s) ==
  /\ conn[s] = "guest" /\ issued < MaxJwts
  /\ issued' = issued + 1 /\ jwt' = issued'
  /\ IF activation = 0
     THEN conn' = [conn EXCEPT ![s] = "retry"] /\ UNCHANGED bearer
     ELSE conn' = [conn EXCEPT ![s] = "activating"] /\ bearer' = [bearer EXCEPT ![s] = jwt']
  /\ UNCHANGED <<strict, apiToken, activation, expired, events>>

\* The answer to /api/token/activate: refresh replays a signature that binds an
\* older JWT, which only a server that does not look at it takes.
Activated(s) ==
  /\ conn[s] = "activating"
  /\ IF strict => activation = bearer[s]
     THEN conn' = [conn EXCEPT ![s] = "retry"] /\ apiToken' = bearer[s]
     ELSE conn' = [conn EXCEPT ![s] = "down"] /\ UNCHANGED apiToken
  /\ UNCHANGED <<strict, jwt, activation, issued, expired, bearer, events>>

\* The second fetch.
Retry(s) ==
  /\ conn[s] = "retry"
  /\ IF Accepted THEN Opened(s)
     ELSE conn' = [conn EXCEPT ![s] = "down"] /\ UNCHANGED <<credentials, events>>

\* A fetch of refresh or the second one fails.
Fails(s) ==
  /\ conn[s] \in {"guest", "activating", "retry"}
  /\ conn' = [conn EXCEPT ![s] = "down"]
  /\ UNCHANGED <<credentials, events>>

-----------------------------------------------------------------------------
(* Reading. *)

LastIds(seq) == SubSeq(seq, IF Len(seq) > DedupeWindow THEN Len(seq) - DedupeWindow + 1 ELSE 1, Len(seq))
Seen(s) == ToSet(LastIds(handed[s]))

Broken(s) == conn' = [conn EXCEPT ![s] = "down"] /\ breaks < MaxBreaks /\ breaks' = breaks + 1

\* An event of a chunk.  A handler that throws takes the connection with it.
Receive(s) ==
  /\ conn[s] = "open" /\ upcoming[s] <= MaxEvents
  /\ LET id == upcoming[s] IN
     /\ lastEventId' = [lastEventId EXCEPT ![s] = id]
     /\ IF id \in Seen(s)
        THEN UNCHANGED <<handed, conn, breaks>>
        ELSE /\ handed' = [handed EXCEPT ![s] = Append(@, id)]
             /\ UNCHANGED <<conn, breaks>> \/ Broken(s)
  /\ upcoming' = [upcoming EXCEPT ![s] = @ + 1]
  /\ UNCHANGED credentials

\* The end of the stream, an error of the reader or no bytes for the heartbeat's time.
Break(s) ==
  /\ conn[s] = "open"
  /\ Broken(s)
  /\ UNCHANGED <<credentials, lastEventId, upcoming, handed>>

-----------------------------------------------------------------------------

Expire ==
  /\ expired < issued /\ issued < MaxJwts
  /\ expired' = issued
  /\ UNCHANGED <<strict, jwt, apiToken, activation, issued, conn, bearer, events>>

\* A signal, or a publication that failed.
Abort ==
  /\ conn' = [s \in Streams |-> "ended"]
  /\ UNCHANGED <<credentials, events>>

StreamsNext ==
  \/ \E s \in Streams :
       OpenStream(s) \/ Guest(s) \/ Activated(s) \/ Retry(s) \/ Fails(s) \/ Receive(s) \/ Break(s)
  \/ Expire \/ Abort

StreamsSpec == StreamsInit /\ [][StreamsNext]_feedVars

-----------------------------------------------------------------------------
(* What must hold. *)

\* The ingest gets the events of a stream one after the other, each once, over
\* any connections that break, repeat events or find the credentials expired.
EventsComeOnce ==
  \A s \in Streams : \A i \in DOMAIN handed[s] : handed[s][i] = i
=============================================================================
