-------------------------------- MODULE MCPeer --------------------------------
(***************************************************************************)
(* What one desktop peer does that shares no state, as one instance for    *)
(* TLC: its start and its services.  A behaviour runs the one that part    *)
(* names, and the others stay in an initial state.                         *)
(* Messages are interchangeable, and so are sessions, imports and two of   *)
(* the pages, which are the same values.                                   *)
(***************************************************************************)
EXTENDS MCRoomPairing, Notifications, Presence, MediaTransfer, FixtureConsumer,
        EventStreams, DeviceStart

\* Two calls, a goal in the window of each, and one settlement.
MCLog ==
  <<[kind |-> "fixture.upsert"],
    [kind |-> "fixture.score", seq |-> 1, events |-> {"g1"}],
    [kind |-> "call.open", call |-> "d1"],
    [kind |-> "fixture.score", seq |-> 2, events |-> {"g2"}],
    [kind |-> "call.open", call |-> "d2"],
    [kind |-> "call.settled", call |-> "d1"]>>

VARIABLE part
peerVars == <<part, seen, pairVars, notifyVars, presenceVars, mediaVars, consumerVars, streamVars,
              deviceVars>>

PeerInit ==
  /\ part \in {"pairing", "notifications", "presence", "media", "consumer", "streams", "start"}
  /\ PairInit /\ NotifyInit /\ PresenceInit /\ MediaInit /\ ConsumerInit /\ StreamsInit
  /\ DeviceInit
  /\ part # "start" => device = "desktop" /\ clock = 0 /\ account = NoAccount

PeerNext ==
  /\ part' = part
  /\ IF part = "pairing" THEN PairNext ELSE UNCHANGED <<seen, pairVars>>
  /\ IF part = "notifications" THEN NotifyNext ELSE UNCHANGED notifyVars
  /\ IF part = "presence" THEN PresenceNext ELSE UNCHANGED presenceVars
  /\ IF part = "media" THEN MediaNext ELSE UNCHANGED mediaVars
  /\ IF part = "consumer" THEN ConsumerNext ELSE UNCHANGED consumerVars
  /\ IF part = "streams" THEN StreamsNext ELSE UNCHANGED streamVars
  /\ IF part = "start" THEN DeviceNext ELSE UNCHANGED deviceVars

PeerSpec == PeerInit /\ [][PeerNext]_peerVars

\* The state of each part is well formed.
PeerOK ==
  PairingOK /\ NotifyOK /\ PresenceOK /\ MediaOK /\ ConsumerOK /\ StreamsOK /\ DeviceOK

Symmetry == Permutations(Items)
=============================================================================
