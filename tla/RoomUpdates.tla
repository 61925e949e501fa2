----------------------------- MODULE RoomUpdates -----------------------------
(***************************************************************************)
(* How a window learns that a room went on: Room.refresh                   *)
(* (apps/desktop/workers/room.js), _handleRoomUpdate of room-manager.js,   *)
(* the hook useRoomState of apps/web/lib/data/hooks.ts and the RoomScreen  *)
(* of apps/mobile/app/index.tsx.                                           *)
(*                                                                         *)
(* The room's view is a version that grows.  A projection is the version   *)
(* it was read at, and an event carries one; the revision of an event is   *)
(* left out, for nobody compares it.  A page shows what the events bring   *)
(* and asks once for the state when it is mounted.  The phone waits two    *)
(* seconds after an event and then reads for itself, one read at a time.   *)
(* A refresh may fail, and so may the handling of a projection: both end   *)
(* in a room.error, which no window acts on, and nothing tries again       *)
(* before the room is refreshed for another reason.                        *)
(***************************************************************************)
EXTENDS Naturals, FiniteSets

CONSTANT MaxVersion  \* bound on the updates of the room

ASSUME VersionAssumption == MaxVersion \in Nat \ {0}

VARIABLES
  version,     \* what the local view holds
  refreshing,  \* Room._refreshing
  handling,    \* projections in _handleRoomUpdate, behind its awaits
  page,        \* what the page shows, 0 for nothing yet
  asked,       \* its room.state request
  phone,       \* what the phone shows
  failed,      \* the phone shows that its last read failed
  timer,       \* the phone's revisionTimer
  loads,       \* loadInFlight
  disturbed,   \* since the last rest two steps overlapped, or a window's read failed
  dropped      \* since the last rest a projection was lost in the worker

updateVars == <<version, refreshing, handling, page, asked, phone, failed, timer, loads, disturbed, dropped>>

\* What reads the view and is not through: {} when there is none, {Unread}
\* before it read the view, then the version it read.
Versions == 1 .. MaxVersion
Unread == 0
Reads == SUBSET ({Unread} \cup Versions)
ReadNow(reads) == (reads \ {Unread}) \cup {version}

UpdatesOK ==
  /\ version \in Versions
  /\ {refreshing, asked, loads} \subseteq Reads
  /\ Cardinality(refreshing) <= 1 /\ Cardinality(asked) <= 1 /\ Cardinality(loads) <= 1
  /\ handling \subseteq Versions
  /\ page \in 0 .. MaxVersion
  /\ phone \in 0 .. MaxVersion /\ failed \in BOOLEAN /\ timer \in BOOLEAN
  /\ disturbed \in BOOLEAN /\ dropped \in BOOLEAN

\* A room that was opened before, a page and a screen that are being mounted.
UpdatesInit ==
  /\ version = 1 /\ refreshing = {} /\ handling = {}
  /\ page = 0 /\ asked = {Unread}
  /\ phone = 0 /\ failed = FALSE /\ timer = FALSE /\ loads = {Unread}
  /\ disturbed = FALSE /\ dropped = FALSE

Rest == refreshing = {} /\ handling = {} /\ asked = {} /\ ~timer /\ loads = {}

-----------------------------------------------------------------------------
(* The worker. *)

\* refresh: a call while one is under way joins it.
RefreshCall ==
  refreshing' = IF refreshing = {} THEN {Unread} ELSE refreshing

\* Autobase applied operations of this device or of others: _onBaseUpdate.
Update ==
  /\ version < MaxVersion
  /\ version' = version + 1
  /\ RefreshCall
  /\ disturbed' = ~Rest
  /\ dropped' = (dropped /\ ~Rest)
  /\ UNCHANGED <<handling, page, asked, phone, failed, timer, loads>>

\* A receipt, a fixture record, presence or a read mark: the room is projected
\* anew, with what an earlier failure kept from the windows.
RefreshAgain ==
  /\ refreshing = {}
  /\ RefreshCall
  /\ disturbed' = (disturbed /\ ~Rest)
  /\ dropped' = (dropped /\ ~Rest)
  /\ UNCHANGED <<version, handling, page, asked, phone, failed, timer, loads>>

Read ==
  /\ Unread \in refreshing
  /\ refreshing' = ReadNow(refreshing)
  /\ UNCHANGED <<version, handling, page, asked, phone, failed, timer, loads, disturbed, dropped>>

\* The update of the base, a flush, the pair member's sync or the projection fails.
RefreshFails ==
  /\ refreshing # {}
  /\ refreshing' = {} /\ dropped' = TRUE
  /\ UNCHANGED <<version, handling, page, asked, phone, failed, timer, loads, disturbed>>

Emit ==
  /\ refreshing # {} /\ Unread \notin refreshing
  /\ handling' = handling \cup refreshing
  /\ refreshing' = {}
  /\ UNCHANGED <<version, page, asked, phone, failed, timer, loads, disturbed, dropped>>

\* The record is stored and the answers are checked; calls overtake each other there.
Event(v) ==
  /\ v \in handling
  /\ handling' = handling \ {v}
  /\ page' = v
  /\ timer' = TRUE
  /\ UNCHANGED <<version, refreshing, asked, phone, failed, loads, disturbed, dropped>>

\* The record is not stored, or the answers cannot be projected: no event.
UpdateDropped(v) ==
  /\ v \in handling
  /\ handling' = handling \ {v} /\ dropped' = TRUE
  /\ UNCHANGED <<version, refreshing, page, asked, phone, failed, timer, loads, disturbed>>

-----------------------------------------------------------------------------
(* The page: what it asked for is set whenever it comes. *)

Mount ==
  /\ asked = {}
  /\ asked' = {Unread}
  /\ disturbed' = (disturbed \/ ~Rest)
  /\ UNCHANGED <<version, refreshing, handling, page, phone, failed, timer, loads, dropped>>

Ask ==
  /\ Unread \in asked
  /\ asked' = ReadNow(asked)
  /\ UNCHANGED <<version, refreshing, handling, page, phone, failed, timer, loads, disturbed, dropped>>

\* The state arrives; or the request fails, and the page shows an error.
Set ==
  /\ \/ \E v \in asked \cap Versions : page' = v /\ UNCHANGED disturbed
     \/ asked # {} /\ page' = 0 /\ disturbed' = TRUE
  /\ asked' = {}
  /\ UNCHANGED <<version, refreshing, handling, phone, failed, timer, loads, dropped>>

-----------------------------------------------------------------------------
(* The phone: load, by the timer, a pull or the end of an action. *)

FaultOverlap == TRUE
MayLoad == loads = {}

\* A load while one is in flight is the one in flight.
Load ==
  IF MayLoad
  THEN loads' = loads \cup {Unread} /\ failed' = FALSE /\ UNCHANGED disturbed
  ELSE disturbed' = TRUE /\ UNCHANGED <<loads, failed>>

Tick ==
  /\ timer
  /\ timer' = FALSE
  /\ Load
  /\ UNCHANGED <<version, refreshing, handling, page, asked, phone, dropped>>

Pull ==
  /\ Load
  /\ UNCHANGED <<version, refreshing, handling, page, asked, phone, timer, dropped>>

LoadRead ==
  /\ Unread \in loads
  /\ loads' = ReadNow(loads)
  /\ UNCHANGED <<version, refreshing, handling, page, asked, phone, failed, timer, disturbed, dropped>>

Loaded(v) ==
  /\ v \in loads \cap Versions
  /\ loads' = loads \ {v}
  /\ phone' = v
  /\ UNCHANGED <<version, refreshing, handling, page, asked, failed, timer, disturbed, dropped>>

LoadFails ==
  /\ loads # {}
  /\ loads' = {} /\ failed' = TRUE /\ disturbed' = TRUE
  /\ UNCHANGED <<version, refreshing, handling, page, asked, phone, timer, dropped>>

-----------------------------------------------------------------------------

UpdatesNext ==
  \/ Update \/ RefreshAgain \/ Read \/ RefreshFails \/ Emit
  \/ \E v \in Versions : Event(v) \/ UpdateDropped(v)
  \/ Mount \/ Ask \/ Set
  \/ Tick \/ Pull \/ LoadRead \/ \E v \in Versions : Loaded(v) \/ LoadFails

UpdatesSpec == UpdatesInit /\ [][UpdatesNext]_updateVars

-----------------------------------------------------------------------------
(* What must hold. *)

\* index.tsx:167-169 says that after a burst of projections the screens need
\* one fresh read: a phone at rest whose last read did not fail shows the room,
\* when the worker lost none of the projections.
ScreensCatchUp == Rest /\ ~failed /\ ~dropped => phone = version

\* The phone never shows an older state after a newer one.
PhoneMovesForward == [][phone' >= phone]_updateVars

\* An update or a refresh that comes at rest, and is followed to the next rest
\* without a second update, a refresh or a load that was joined, or a failure, is
\* shown, and with it whatever earlier failures and overlaps had left unshown.
QuietUpdatesAreShown ==
  [](Rest /\ ~disturbed /\ ~dropped => page = version /\ phone = version)

\* Windows follow the room, as far as the code carries them: pages, which an
\* event of an overtaken projection or a late answer sets back, only in quiet.
WindowsFollow == PhoneMovesForward /\ QuietUpdatesAreShown
=============================================================================
