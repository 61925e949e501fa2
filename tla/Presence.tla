------------------------------ MODULE Presence ------------------------------
(***************************************************************************)
(* Presence and typing in one room as one device shows them:               *)
(* apps/desktop/workers/presence-network.js and lib/room-presence.js.      *)
(*                                                                         *)
(* The other devices flood signed frames, each passing on what it accepts  *)
(* for the first time.  The device that watches may get a frame at any     *)
(* time after it was sent or never; it takes those of a session in the     *)
(* order of their sequence and drops the others, so that what it takes     *)
(* next is any frame the session may have sent while it lived.  A session  *)
(* is one stay of a device in the room.  All clocks are one, and a unit of *)
(* it is at least the second between two runs of _expire.  The tracker has *)
(* room for every session.  The watcher's own typing flag, added to what   *)
(* the leases show, is left out.                                           *)
(***************************************************************************)
EXTENDS Naturals, FiniteSets

CONSTANTS
  People, Sessions,
  MaxDevices,    \* MAX_DEVICE_SESSIONS_PER_USER
  Skew,          \* CLOCK_SKEW_MS
  Lease,         \* PRESENCE_LEASE_MS
  TypingLease,   \* TYPING_LEASE_MS
  MaxFrames,     \* bound on the frames that come in time
  MaxNow         \* bound on the clock

ASSUME PresenceAssumption ==
  /\ MaxDevices \in Nat \ {0} /\ Skew \in Nat
  /\ Lease \in Nat \ {0} /\ TypingLease \in 1 .. Lease
  /\ MaxFrames \in Nat /\ MaxNow \in Nat \ {0}

VARIABLES
  now,
  userOf,     \* whose device a session belongs to
  endedAt,    \* when a session ended, 0 while it lives
  members,    \* users with an active member record, as the watcher's view has it
  removedAt,  \* when the view last lost one
  frames,     \* how many frames came in time
  lookups,    \* accepted frames that wait for the member record
  leases,     \* remote of the room, 0 for none
  presence    \* room.presence

world == <<now, userOf, endedAt, members, removedAt>>
watcher == <<frames, lookups, leases, presence>>
presenceVars == <<world, watcher>>

Instants == 1 .. MaxNow
Signals == {"online", "offline", "typing", "quiet"}
Frames == [session : Sessions, signal : Signals, issuedAt : Instants]
Waits == [session : Sessions, signal : Signals, receivedAt : Instants]
NoLease == [until |-> 0, typingUntil |-> 0]
Leased == {s \in Sessions : leases[s].until # 0}
DevicesOf(u) == {s \in Leased : userOf[s] = u}

PresenceOK ==
  /\ now \in Instants /\ userOf \in [Sessions -> People]
  /\ endedAt \in [Sessions -> 0 .. MaxNow]
  /\ members \subseteq People /\ removedAt \in [People -> 0 .. MaxNow]
  /\ frames \in 0 .. MaxFrames
  /\ lookups \subseteq Waits
  /\ leases \in [Sessions -> [until : Nat, typingUntil : Nat]]
  /\ presence \subseteq People \X BOOLEAN
  /\ \A u \in People : Cardinality(DevicesOf(u)) <= MaxDevices

PresenceInit ==
  /\ now = 1 /\ userOf \in [Sessions -> People]
  /\ endedAt = [s \in Sessions |-> 0]
  /\ members = People /\ removedAt = [u \in People |-> 0]
  /\ frames = 0 /\ lookups = {}
  /\ leases = [s \in Sessions |-> NoLease] /\ presence = {}

-----------------------------------------------------------------------------
(* The other devices. *)

\* What announce and setTyping may have sent: heartbeats, frames for new
\* channels, typing while the user types, and "offline" when the device leaves
\* the room, closes or finds its member removed, by its own view of the room.
SentBy(s) == [session : {s}, signal : Signals,
              issuedAt : {t \in Instants : t <= now /\ (endedAt[s] # 0 => t <= endedAt[s])}]

\* removeRoom, close, or the device just stops.
End(s) ==
  /\ endedAt[s] = 0 /\ endedAt' = [endedAt EXCEPT ![s] = now]
  /\ UNCHANGED <<now, userOf, members, removedAt, watcher>>

RemovePerson(u) ==
  /\ u \in members /\ members' = members \ {u}
  /\ removedAt' = [removedAt EXCEPT ![u] = now]
  /\ UNCHANGED <<now, userOf, endedAt, watcher>>

Rejoin(u) ==
  /\ u \notin members /\ members' = members \cup {u}
  /\ UNCHANGED <<now, userOf, endedAt, removedAt, watcher>>

-----------------------------------------------------------------------------
(* The device that watches. *)

FaultTimeless(f) == TRUE
InTime(f) == now - f.issuedAt <= Skew

\* _receive until it waits for the member record.  Of a late frame only its
\* sequence counts.
Receive(f) ==
  /\ frames < MaxFrames /\ InTime(f)
  /\ frames' = frames + 1
  /\ lookups' = lookups \cup {[session |-> f.session, signal |-> f.signal, receivedAt |-> now]}
  /\ UNCHANGED <<world, leases, presence>>

\* _projectPresence: one entry for a user of whom a lease runs.
Projection(l, at) ==
  LET users == {userOf[s] : s \in {s \in Sessions : l[s].until > at}} IN
  {<<u, \E s \in Sessions : userOf[s] = u /\ l[s].until > at /\ l[s].typingUntil > at>> : u \in users}
Shown(next) == next
Project(l, at) == presence' = Shown(Projection(l, at))

IsMember(s) == userOf[s] \in members
HasDeviceSlot(s) == s \in Leased \/ Cardinality(DevicesOf(userOf[s])) < MaxDevices

\* The lease after the frame; a typing frame needs one that runs.
Renewed(lease, signal, at) ==
  CASE signal = "online" -> [lease EXCEPT !.until = at + Lease]
    [] signal = "offline" -> NoLease
    [] signal = "typing" -> [lease EXCEPT !.typingUntil = at + TypingLease]
    [] signal = "quiet" -> [lease EXCEPT !.typingUntil = 0]
Applies(f) ==
  /\ IsMember(f.session) /\ HasDeviceSlot(f.session)
  /\ f.signal \in {"typing", "quiet"} => leases[f.session].until > f.receivedAt

\* The rest of _receive; lookups end in any order.
Lookup(f) ==
  /\ f \in lookups /\ lookups' = lookups \ {f}
  /\ IF Applies(f)
     THEN /\ leases' = [leases EXCEPT ![f.session] = Renewed(@, f.signal, f.receivedAt)]
          /\ Project(leases', f.receivedAt)
     ELSE UNCHANGED <<leases, presence>>
  /\ UNCHANGED <<world, frames>>

Expired(s) == s \in Leased /\ leases[s].until <= now
Lapsed(s) == s \in Leased /\ ~Expired(s) /\ leases[s].typingUntil \in 1 .. now
Expire ==
  /\ \E s \in Sessions : Expired(s) \/ Lapsed(s)
  /\ leases' = [s \in Sessions |->
       IF Expired(s) THEN NoLease
       ELSE IF Lapsed(s) THEN [leases[s] EXCEPT !.typingUntil = 0] ELSE leases[s]]
  /\ Project(leases', now)
  /\ UNCHANGED <<world, frames, lookups>>

\* The room is suspended and opened again; the tracker remembers.
Reopen ==
  /\ lookups' = {} /\ leases' = [s \in Sessions |-> NoLease] /\ presence' = {}
  /\ UNCHANGED <<world, frames>>

\* _expire runs before the clock goes on.
Tick ==
  /\ now < MaxNow /\ now' = now + 1
  /\ \A s \in Sessions : ~Expired(s) /\ ~Lapsed(s)
  /\ UNCHANGED <<userOf, endedAt, members, removedAt, watcher>>

PresenceNext ==
  \/ \E s \in Sessions : End(s) \/ \E f \in SentBy(s) : Receive(f)
  \/ \E u \in People : RemovePerson(u) \/ Rejoin(u)
  \/ \E f \in lookups : Lookup(f)
  \/ Expire \/ Reopen \/ Tick

PresenceSpec == PresenceInit /\ [][PresenceNext]_presenceVars

-----------------------------------------------------------------------------
(* What must hold. *)

\* The lease of a session that has ended runs out within the skew and one
\* lease, even if its goodbye was lost, came before an older frame, was
\* overtaken while it waited for the member record, or if a frame of it was
\* passed around for long.
DeadFadesOut ==
  \A s \in Leased : endedAt[s] # 0 => leases[s].until <= endedAt[s] + Skew + Lease

\* A member that was removed is shown for one lease at most, whatever frames
\* of it still go around.
RemovedFadesOut ==
  \A s \in Leased : userOf[s] \notin members => leases[s].until <= removedAt[userOf[s]] + Lease

\* What the room shows is what the leases say: everybody with a lease that
\* runs and nobody without a lease, typing likewise.
ShownMatchesLeases ==
  \A u \in People :
    /\ (\E s \in DevicesOf(u) : leases[s].until > now) => \E t \in BOOLEAN : <<u, t>> \in presence
    /\ (\E t \in BOOLEAN : <<u, t>> \in presence) => DevicesOf(u) # {}
    /\ (\E s \in DevicesOf(u) : leases[s].until > now /\ leases[s].typingUntil > now) => <<u, TRUE>> \in presence
    /\ <<u, TRUE>> \in presence => \E s \in DevicesOf(u) : leases[s].typingUntil # 0

\* The room shows who is there: somebody who is not fades out in time, and what
\* is shown is what the leases say.
ShownIsThere == DeadFadesOut /\ RemovedFadesOut /\ ShownMatchesLeases
=============================================================================
