----------------------------- MODULE RoomHandles -----------------------------
(***************************************************************************)
(* The open room handles of apps/desktop/workers/room-manager.js: how      *)
(* concurrent requests acquire, open, share, suspend and close the Room    *)
(* objects (each an open Autobase) that the worker keeps for at most       *)
(* maxActiveRoomHandles rooms.                                             *)
(*                                                                         *)
(* The worker is one JavaScript thread.  A step is the code a request runs *)
(* between two awaits; the requests interleave at the awaits.  A request   *)
(* is a task of one of three kinds:                                        *)
(*   dispatch  dispatch(action, {roomId}), which holds a lease on the room *)
(*   create    createRoom, on a room id it just drew                       *)
(*   join      joinRoom, without a lease                                   *)
(* What a request does with the room it obtained (using) is abstract.      *)
(*                                                                         *)
(* Room objects are numbered as they are reserved; the number also names   *)
(* the promise of openingRooms or joining under which it is opened.        *)
(*                                                                         *)
(* A definition named Fault... is not part of the model: it is a plausible *)
(* mistake in the definition that follows it, kept to show that the        *)
(* properties notice it.                                                   *)
(***************************************************************************)
EXTENDS Integers, Sequences, FiniteSets, SequencesExt

CONSTANTS
  Rooms,       \* room ids
  NoRoom,      \* the room of a task that is idle
  Tasks,       \* requests in progress at once
  Stored,      \* rooms with a record when the worker starts
  Kinds,       \* kinds of requests that arrive
  MaxHandles,  \* maxActiveRoomHandles
  MaxMade      \* bound on the Room objects made

ASSUME StoredAssumption == Stored \subseteq Rooms /\ NoRoom \notin Rooms
ASSUME KindsAssumption == Kinds \subseteq {"dispatch", "create", "join"}
ASSUME FiniteAssumption == IsFiniteSet(Rooms) /\ IsFiniteSet(Tasks)
ASSUME HandleBoundAssumption == MaxHandles \in Nat \ {0} /\ MaxMade \in Nat

VARIABLES
  rooms,     \* this.rooms: the Room object registered for a room, 0 for none
  recency,   \* this.roomLastUsed: rooms from the least to the most recently used
  leases,    \* this.roomLeases
  records,   \* this.roomRecords
  opening,   \* this.openingRooms: a promise, 0 for none
  joining,   \* this.joining: a promise, 0 for none
  made,      \* Room objects reserved so far
  handle,    \* what each Room object is doing
  outcome,   \* what its promise resolved to
  task       \* where each request is

handlesVars == <<rooms, recency, leases, records, opening, joining, made, handle, outcome, task>>

Objects == 1 .. MaxMade
HandleStates ==
  {"none", "opening", "open", "suspending", "suspended", "failing", "failed"}
Places ==
  {"idle", "evicting", "ready", "opening", "aborting", "awaiting", "sharing",
   "using", "failed", "trimming"}

\* room: what the request is about; object: the Room object or promise it works
\* on; victim: the Room object whose close it awaits.
Entry(at, kind, r, object) ==
  [at |-> at, kind |-> kind, room |-> r, object |-> object, victim |-> 0]
Idle == Entry("idle", "dispatch", NoRoom, 0)

HandlesOK ==
  /\ rooms \in [Rooms -> 0 .. MaxMade]
  /\ recency \in Seq(Rooms) /\ IsInjective(recency)
  /\ leases \in [Rooms -> 0 .. Cardinality(Tasks)]
  /\ records \in SUBSET Rooms
  /\ opening \in [Rooms -> 0 .. MaxMade]
  /\ joining \in [Rooms -> 0 .. MaxMade]
  /\ made \in 0 .. MaxMade
  /\ handle \in [Objects -> HandleStates]
  /\ outcome \in [Objects -> {"pending", "ok", "failed"}]
  /\ task \in [Tasks -> [at : Places, kind : {"dispatch", "create", "join"},
                         room : Rooms \cup {NoRoom},
                         object : 0 .. MaxMade, victim : 0 .. MaxMade]]

HandlesInit ==
  /\ rooms = [r \in Rooms |-> 0]
  /\ recency = <<>>
  /\ leases = [r \in Rooms |-> 0]
  /\ records = Stored
  /\ opening = [r \in Rooms |-> 0]
  /\ joining = [r \in Rooms |-> 0]
  /\ made = 0
  /\ handle = [h \in Objects |-> "none"]
  /\ outcome = [h \in Objects |-> "pending"]
  /\ task = [t \in Tasks |-> Idle]

-----------------------------------------------------------------------------
(* Choosing and suspending a room. *)

Registered == {r \in Rooms : rooms[r] # 0}

\* _touchRoom on a registered room.
Touched(r) == Append(RemoveFirst(recency, r), r)

\* Rooms that may be suspended for the sake of room r.
Evictable(r) ==
  {v \in Registered \ {r} : leases[v] = 0 /\ opening[v] = 0 /\ joining[v] = 0}

UsedBefore(v, u) == \E i, j \in DOMAIN recency : i < j /\ recency[i] = v /\ recency[j] = u

\* _leastRecentlyUsedIdleRoom: none of them was used before it.
Victims(r) == {v \in Evictable(r) : \A u \in Evictable(r) \ {v} : UsedBefore(v, u)}

\* suspendRoom up to its first await: the victim leaves the maps before its
\* Room object is closed, and task t, whose entry is e, awaits the close.
\* order is the order of use, which the step may have changed before.
Suspend(t, e, order, place) ==
  \E v \in Victims(e.room) :
    /\ rooms' = [rooms EXCEPT ![v] = 0]
    /\ recency' = RemoveFirst(order, v)
    /\ handle' = [handle EXCEPT ![rooms[v]] = "suspending"]
    /\ task' = [task EXCEPT ![t] = [e EXCEPT !.at = place, !.victim = rooms[v]]]

Proceed(t, e, place) ==
  /\ task' = [task EXCEPT ![t] = [e EXCEPT !.at = place, !.victim = 0]]
  /\ UNCHANGED <<rooms, recency, handle>>

\* _makeRoomCapacity has to evict first.
Crowded(r) == Cardinality(Registered) >= MaxHandles /\ rooms[r] = 0

\* The loop of _makeRoomCapacity from a test to the next await.  A request that
\* finds nothing to evict fails with ROOM_CAPACITY_BUSY.
Capacity(t, e) ==
  \/ Crowded(e.room) /\ Suspend(t, e, recency, "evicting")
  \/ Crowded(e.room) /\ Evictable(e.room) = {} /\ Proceed(t, e, "aborting")
  \/ ~Crowded(e.room) /\ Proceed(t, e, "ready")

\* The loop of _trimActiveRooms, at the end of a dispatch or a creation.
FaultOneTooMany == Cardinality(Registered) > MaxHandles + 1
TooMany == Cardinality(Registered) > MaxHandles
Trim(t, e, order) ==
  \/ TooMany /\ Suspend(t, e, order, "trimming")
  \/ /\ ~TooMany \/ Evictable(e.room) = {}
     /\ task' = [task EXCEPT ![t] = Idle]
     /\ recency' = order
     /\ UNCHANGED <<rooms, handle>>

-----------------------------------------------------------------------------
(* A request arrives.  The rest of its synchronous prologue depends on what *)
(* the maps hold for its room.                                              *)

\* The Room object is registered, open or not: the request goes on with it.
Find(t, kind, r) ==
  /\ rooms[r] # 0
  /\ task' = [task EXCEPT ![t] = Entry("using", kind, r, rooms[r])]
  /\ recency' = IF kind = "dispatch" THEN Touched(r) ELSE recency
  /\ UNCHANGED <<rooms, opening, joining, made, handle>>

\* The request awaits the promise of another one.
Share(t, kind, r, promise, place) ==
  /\ rooms[r] = 0 /\ promise # 0
  /\ task' = [task EXCEPT ![t] = Entry(place, kind, r, promise)]
  /\ UNCHANGED <<rooms, recency, opening, joining, made, handle>>

\* It reserves a Room object and makes room for it.
Reserve(t, kind, r) ==
  /\ rooms[r] = 0 /\ made < MaxMade
  /\ made' = made + 1
  /\ Capacity(t, Entry("idle", kind, r, made + 1))

\* ensureRoom for a room that has a record.
PendingOpen(r) == opening[r]
OpenStored(t, kind, r) ==
  \/ Share(t, kind, r, PendingOpen(r), "awaiting")
  \/ /\ PendingOpen(r) = 0
     /\ Reserve(t, kind, r)
     /\ opening' = [opening EXCEPT ![r] = made']
     /\ UNCHANGED joining

\* dispatch: the lease is taken before the room is looked up.
Dispatch(t, r) ==
  /\ task[t] = Idle
  /\ leases' = [leases EXCEPT ![r] = @ + 1]
  /\ \/ Find(t, "dispatch", r)
     \/ r \in records /\ OpenStored(t, "dispatch", r)
     \/ /\ r \notin records /\ rooms[r] = 0
        /\ task' = [task EXCEPT ![t] = Entry("failed", "dispatch", r, 0)]
        /\ UNCHANGED <<rooms, recency, opening, joining, made, handle>>
  /\ UNCHANGED <<records, outcome>>

\* createRoom draws a room id that nobody knows yet.
Create(t, r) ==
  /\ task[t] = Idle
  /\ r \notin records
  /\ \A other \in Tasks : task[other].room # r
  /\ Reserve(t, "create", r)
  /\ UNCHANGED <<leases, records, opening, joining, outcome>>

\* joinRoom, after it verified the fixture of the invite; there is no invite to
\* a room that is still being created.
Join(t, r) ==
  /\ task[t] = Idle
  /\ \A other \in Tasks : task[other].kind = "create" => task[other].room # r
  /\ \/ Find(t, "join", r)
     \/ r \in records /\ OpenStored(t, "join", r)
     \/ r \notin records /\ Share(t, "join", r, joining[r], "sharing")
     \/ /\ r \notin records /\ joining[r] = 0
        /\ Reserve(t, "join", r)
        /\ joining' = [joining EXCEPT ![r] = made']
        /\ UNCHANGED opening
  /\ UNCHANGED <<leases, records, outcome>>

-----------------------------------------------------------------------------
(* Opening a Room object: _openRecord, createRoom and _joinRoom. *)

\* The evicted room is closed: the capacity is tested again.
Evicted(t) ==
  /\ task[t].at = "evicting"
  /\ handle[task[t].victim] = "suspended"
  /\ Capacity(t, task[t])
  /\ UNCHANGED <<leases, records, opening, joining, made, outcome>>

\* The Room object is made and registered, then opened.  A joining request has
\* paired first, however long that took.
Make(t) ==
  LET r == task[t].room IN
  /\ task[t].at = "ready"
  /\ rooms' = [rooms EXCEPT ![r] = task[t].object]
  /\ recency' = Touched(r)
  /\ leases' = IF task[t].kind = "create" THEN [leases EXCEPT ![r] = @ + 1] ELSE leases
  /\ handle' = [handle EXCEPT ![task[t].object] = "opening"]
  /\ task' = [task EXCEPT ![t].at = "opening"]
  /\ UNCHANGED <<records, opening, joining, made, outcome>>

\* Nobody answered the pairing request.
PairingFails(t) ==
  /\ task[t].at = "ready"
  /\ joining[task[t].room] = task[t].object
  /\ task' = [task EXCEPT ![t].at = "aborting"]
  /\ UNCHANGED <<rooms, recency, leases, records, opening, joining, made, handle, outcome>>

\* The promise of object h settles and leaves the map it is in.
Forget(book, r, h) == IF book[r] = h THEN [book EXCEPT ![r] = 0] ELSE book

Settle(t, result) ==
  LET r == task[t].room
      h == task[t].object IN
  /\ outcome' = [outcome EXCEPT ![h] = result]
  /\ opening' = Forget(opening, r, h)
  /\ joining' = Forget(joining, r, h)

\* A join that paired ends here; the others go on with the room.
Opened(t) ==
  LET r == task[t].room
      h == task[t].object IN
  /\ task[t].at = "opening"
  /\ handle' = [handle EXCEPT ![h] = "open"]
  /\ records' = records \cup {r}
  /\ Settle(t, "ok")
  /\ task' = [task EXCEPT ![t] = IF joining[r] = h THEN Idle ELSE [@ EXCEPT !.at = "using"]]
  /\ UNCHANGED <<rooms, recency, leases, made>>

\* Whatever is registered for the room is dropped and the Room object closed.
\* The failure may come before or after the record was stored.
OpenFails(t) ==
  LET r == task[t].room IN
  /\ task[t].at = "opening"
  /\ rooms' = [rooms EXCEPT ![r] = 0]
  /\ handle' = [handle EXCEPT ![task[t].object] = "failing"]
  /\ records' \in {records, records \cup {r}}
  /\ task' = [task EXCEPT ![t].at = "aborting"]
  /\ UNCHANGED <<recency, leases, opening, joining, made, outcome>>

\* A refused request has no Room object to close.
FaultAwaitClose(h) == handle[h] = "failed"
NothingToClose(h) == handle[h] \in {"none", "failed"}

\* The request fails: it was refused, could not pair, or closed its Room object.
Abort(t) ==
  /\ task[t].at = "aborting"
  /\ NothingToClose(task[t].object)
  /\ Settle(t, "failed")
  /\ task' = [task EXCEPT ![t] =
       IF @.kind = "join" \/ (@.kind = "create" /\ handle[@.object] = "none")
       THEN Idle ELSE [@ EXCEPT !.at = "failed"]]
  /\ UNCHANGED <<rooms, recency, leases, records, made, handle>>

\* Room.close ends.
Closed(h) ==
  /\ handle[h] \in {"suspending", "failing"}
  /\ handle' = [handle EXCEPT ![h] = IF @ = "suspending" THEN "suspended" ELSE "failed"]
  /\ UNCHANGED <<rooms, recency, leases, records, opening, joining, made, outcome, task>>

-----------------------------------------------------------------------------
(* Using a room and letting it go. *)

\* The awaited promise settled.  A dispatch looks the room up again
\* (requireRoom); a join keeps the Room object the promise returned.
Resume(t) ==
  LET e == task[t]
      found == IF e.kind = "dispatch" THEN rooms[e.room] ELSE e.object IN
  /\ e.at \in {"awaiting", "sharing"}
  /\ outcome[e.object] # "pending"
  /\ task' = [task EXCEPT ![t] =
       IF e.at = "awaiting" /\ outcome[e.object] = "ok" /\ found # 0
       THEN [e EXCEPT !.at = "using", !.object = found]
       ELSE IF e.kind = "dispatch" THEN [e EXCEPT !.at = "failed"] ELSE Idle]
  /\ UNCHANGED <<rooms, recency, leases, records, opening, joining, made, handle, outcome>>

\* _releaseRoomLease.
FaultDropAllLeases(r) == [leases EXCEPT ![r] = 0]
WithoutLease(r) == [leases EXCEPT ![r] = @ - 1]

\* dispatch touches the room once its action succeeded.
Succeed(t) ==
  LET r == task[t].room IN
  /\ task[t].at = "using" /\ task[t].kind = "dispatch"
  /\ leases' = WithoutLease(r)
  /\ Trim(t, task[t], IF rooms[r] # 0 THEN Touched(r) ELSE recency)
  /\ UNCHANGED <<records, opening, joining, made, outcome>>

\* A creation ends, or a dispatch whose action failed: the lease is given back
\* and the room trimmed.
Finish(t) ==
  LET e == task[t] IN
  /\ e.at \in {"using", "failed"} /\ e.kind # "join"
  /\ leases' = WithoutLease(e.room)
  /\ Trim(t, e, recency)
  /\ UNCHANGED <<records, opening, joining, made, outcome>>

FinishJoin(t) ==
  /\ task[t].at = "using" /\ task[t].kind = "join"
  /\ task' = [task EXCEPT ![t] = Idle]
  /\ UNCHANGED <<rooms, recency, leases, records, opening, joining, made, handle, outcome>>

Trimmed(t) ==
  /\ task[t].at = "trimming"
  /\ handle[task[t].victim] = "suspended"
  /\ Trim(t, task[t], recency)
  /\ UNCHANGED <<leases, records, opening, joining, made, outcome>>

-----------------------------------------------------------------------------

Arrive(t, r) ==
  \/ "dispatch" \in Kinds /\ Dispatch(t, r)
  \/ "create" \in Kinds /\ Create(t, r)
  \/ "join" \in Kinds /\ Join(t, r)

\* What a request does once it arrived.
Advance(t) ==
  \/ Evicted(t) \/ Make(t) \/ PairingFails(t)
  \/ Opened(t) \/ OpenFails(t) \/ Abort(t)
  \/ Resume(t) \/ Succeed(t) \/ Finish(t) \/ FinishJoin(t) \/ Trimmed(t)

HandlesNext ==
  \/ \E t \in Tasks, r \in Rooms : Arrive(t, r)
  \/ \E t \in Tasks : Advance(t)
  \/ \E h \in Objects : Closed(h)

HandlesSpec == HandlesInit /\ [][HandlesNext]_handlesVars

\* The event loop runs every continuation whose await is over.  The awaited opens
\* and closes end: pairing and applying wait up to a timeout, and Room.close
\* awaits the closes of its store and cores and swallows their errors.
Fairness ==
  /\ \A t \in Tasks : WF_handlesVars(Advance(t))
  /\ \A h \in Objects : WF_handlesVars(Closed(h))

-----------------------------------------------------------------------------
(* What must hold. *)

\* A request that holds a lease never has its Room object suspended under it by
\* the eviction or trimming of another request, whatever requests share the
\* room, however they acquired it and in whatever order they end.
LeasedIsNotSuspended ==
  \A t \in Tasks :
    task[t].at = "using" /\ task[t].kind # "join" =>
      handle[task[t].object] \notin {"suspending", "suspended"}

\* PEAR-ROOMS-HANDOFF.md: room opens are deduplicated.  No two requests open a
\* room's Autobase at the same time, and a Room object that is open is
\* registered: no failed open, eviction or second open loses track of one, which
\* nothing would ever close.
OneObjectPerRoom ==
  /\ \A r \in Rooms :
       Cardinality({t \in Tasks : task[t].room = r /\ task[t].at \in {"ready", "opening"}}) <= 1
  /\ \A h \in Objects : handle[h] \in {"opening", "open"} => \E r \in Rooms : rooms[r] = h

\* A request works on the one open object of its room, to its end.
HandlesAreKept == LeasedIsNotSuspended /\ OneObjectPerRoom

\* PEAR-ROOMS-HANDOFF.md: a bounded LRU of active handles.  Requests overshoot
\* the bound while they run, and a join, which never trims, may leave it
\* exceeded; but when the last request in progress is a dispatch or a creation
\* that got past its capacity test, it ends with the bound restored.
EndsWithinBound ==
  [][\A t \in Tasks :
       /\ task[t].kind # "join" /\ task[t].at \notin {"idle", "aborting"}
       /\ \A other \in Tasks : task'[other] = Idle
       => Cardinality(Registered') <= MaxHandles]_handlesVars

\* A request runs on a room whose open has ended: concurrent lazy access shares
\* the open instead of using a Room object that is not ready.
UsesOpenedRoom ==
  \A t \in Tasks : task[t].at = "using" => handle[task[t].object] # "opening"

\* Every request ends, also those that wait for each other's opens and closes.
EveryRequestEnds == \A t \in Tasks : []<>(task[t] = Idle)
=============================================================================
