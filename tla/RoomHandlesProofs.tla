-------------------------- MODULE RoomHandlesProofs --------------------------
(***************************************************************************)
(* Theorems about the room handles of RoomHandles: whatever requests come  *)
(* and however they interleave, a leased room is not suspended, no Room    *)
(* object is lost or opened twice, and the bound is restored.              *)
(***************************************************************************)
EXTENDS RoomHandles, FiniteSetTheorems, SequenceTheorems, TLAPS

-----------------------------------------------------------------------------
(* The inductive invariant. *)

Opening == {"evicting", "ready", "opening"}
\* A request that settles the promise of its Room object.
Owning == Opening \cup {"aborting"}

EntryType == [at : Places, kind : {"dispatch", "create", "join"}, room : Rooms \cup {NoRoom},
              object : 0 .. MaxMade, victim : 0 .. MaxMade]

HandleTypes ==
  /\ rooms \in [Rooms -> 0 .. MaxMade] /\ leases \in [Rooms -> Nat] /\ records \in SUBSET Rooms
  /\ opening \in [Rooms -> 0 .. MaxMade] /\ joining \in [Rooms -> 0 .. MaxMade]
  /\ made \in 0 .. MaxMade /\ handle \in [Objects -> HandleStates]
  /\ task \in [Tasks -> EntryType]

\* What an entry of a request looks like.
WellFormed(e, n) ==
  /\ e \in EntryType
  /\ e.at = "idle" => e = Idle
  /\ e.at # "idle" => e.room \in Rooms
  /\ e.at \in Owning \cup {"using"} => e.object # 0
  /\ e.at = "awaiting" => e.kind # "create"
  /\ e.at = "sharing" => e.kind = "join"
  /\ e.at \in {"failed", "trimming"} => e.kind # "join"
  /\ e.object <= n
InPlace == \A t \in Tasks : WellFormed(task[t], made)

\* A Room object is of one room.
Homes ==
  /\ \A t, u \in Tasks : task[t].object = task[u].object /\ task[t].object # 0 => task[t].room = task[u].room
  /\ \A t \in Tasks, r \in Rooms : rooms[r] = task[t].object /\ rooms[r] # 0 => task[t].room = r
  /\ \A r, q \in Rooms : rooms[r] = rooms[q] /\ rooms[r] # 0 => r = q
  /\ \A r \in Rooms : rooms[r] <= made

\* Every promise has a request that settles it.
Owns(t, r, h) == task[t].at \in Owning /\ task[t].room = r /\ task[t].object = h
Promises ==
  \A r \in Rooms :
    /\ opening[r] # 0 => r \in records /\ \E t \in Tasks : Owns(t, r, opening[r]) /\ task[t].kind # "create"
    /\ joining[r] # 0 => \E t \in Tasks : Owns(t, r, joining[r]) /\ task[t].kind = "join"

\* A request that opens a stored room stands in openingRooms, one that joins or
\* creates a room knows that there is no record yet.
Owners ==
  \A t \in Tasks : LET e == task[t] IN e.at \in Owning =>
    /\ e.kind = "dispatch" => opening[e.room] = e.object
    /\ e.kind = "join" => opening[e.room] = e.object \/ joining[e.room] = e.object
    /\ e.at \in Opening /\ (e.kind = "create" \/ joining[e.room] = e.object) => e.room \notin records

\* One request opens a room at a time, and each its own Room object.
OneEach ==
  \A t, u \in Tasks :
    /\ task[t].at \in Owning /\ task[u].at \in Owning /\ task[t].object = task[u].object => t = u
    /\ task[t].at \in Opening /\ task[u].at \in Opening /\ task[t].room = task[u].room => t = u

\* What the Room objects do, hd being what each does and rm those registered.
Unborn == \A h \in Objects : h > made => handle[h] = "none"
Stage(e, hd, rm) ==
  /\ e.at \in {"evicting", "ready"} => hd[e.object] = "none" /\ rm[e.room] = 0
  /\ e.at = "opening" => hd[e.object] = "opening" /\ rm[e.room] = e.object
  /\ e.at = "aborting" => hd[e.object] \in {"none", "failing", "failed"}
  /\ e.at = "using" /\ e.kind # "join" => hd[e.object] \notin {"suspending", "suspended"}
Stages == \A t \in Tasks : Stage(task[t], handle, rooms)
Kept ==
  /\ \A r \in Rooms : rooms[r] # 0 => handle[rooms[r]] \in {"opening", "open"}
  /\ \A h \in Objects : handle[h] = "opening" => \E t \in Tasks : task[t].at = "opening" /\ task[t].object = h
  /\ \A h \in Objects : handle[h] \in {"opening", "open"} => \E r \in Rooms : rooms[r] = h

\* Who holds a lease: a dispatch until it trims, a creation from the time its
\* Room object is made.
Holds(e, hd) ==
  \/ e.kind = "dispatch" /\ e.at \notin {"idle", "trimming"}
  \/ e.kind = "create" /\ (\/ e.at \in {"opening", "using", "failed"}
                           \/ e.at = "aborting" /\ hd[e.object] # "none")
Holders(r) == {t \in Tasks : Holds(task[t], handle) /\ task[t].room = r}
Leased == \A r \in Rooms : leases[r] = Cardinality(Holders(r))

HandlesInv ==
  HandleTypes /\ InPlace /\ Homes /\ Promises /\ Owners /\ OneEach /\ Unborn /\ Stages /\ Kept /\ Leased

LEMMA Finite == /\ IsFiniteSet(Rooms) /\ IsFiniteSet(Tasks) /\ MaxHandles \in Nat \ {0} /\ MaxMade \in Nat
                /\ NoRoom \notin Rooms
BY FiniteAssumption, HandleBoundAssumption, StoredAssumption

LEMMA Changed ==
  ASSUME HandleTypes, NEW t \in Tasks, NEW e, task' = [task EXCEPT ![t] = e]
  PROVE  /\ \A u \in Tasks : task'[u] = IF u = t THEN e ELSE task[u]
         /\ e \in EntryType => task' \in [Tasks -> EntryType]
BY DEF HandleTypes

LEMMA Moved ==
  ASSUME NEW e \in EntryType, NEW p \in Places, NEW v \in 0 .. MaxMade, NEW f,
         f = [e EXCEPT !.at = p, !.victim = v]
  PROVE  f \in EntryType /\ f.at = p /\ f.kind = e.kind /\ f.room = e.room /\ f.object = e.object
BY DEF EntryType

\* The count of the leases follows those who hold them.
LEMMA LeaseCount ==
  ASSUME HandleTypes, Leased, NEW t \in Tasks, NEW e, task' = [task EXCEPT ![t] = e],
         \A u \in Tasks : u # t => (Holds(task[u], handle') <=> Holds(task[u], handle)),
         \/ Holds(e, handle') /\ Holds(task[t], handle) /\ e.room = task[t].room /\ leases' = leases
         \/ ~Holds(e, handle') /\ ~Holds(task[t], handle) /\ leases' = leases
         \/ /\ Holds(e, handle') /\ ~Holds(task[t], handle) /\ e.room \in Rooms
            /\ leases' = [leases EXCEPT ![e.room] = @ + 1]
         \/ /\ ~Holds(e, handle') /\ Holds(task[t], handle) /\ task[t].room \in Rooms
            /\ leases' = [leases EXCEPT ![task[t].room] = @ - 1]
  PROVE  leases' \in [Rooms -> Nat] /\ Leased'
<1>1. \A u \in Tasks : task'[u] = IF u = t THEN e ELSE task[u]
  BY Changed
<1>2. ASSUME NEW r \in Rooms
      PROVE  Holders(r)' = IF Holds(e, handle') /\ e.room = r THEN Holders(r) \cup {t} ELSE Holders(r) \ {t}
  BY <1>1 DEF Holders
<1>3. \A r \in Rooms : t \in Holders(r) <=> Holds(task[t], handle) /\ task[t].room = r
  BY DEF Holders
<1>4. \A r \in Rooms : IsFiniteSet(Holders(r)) /\ Cardinality(Holders(r)) \in Nat
  BY Finite, FS_Subset, FS_CardinalityType DEF Holders
<1>5. \A r \in Rooms :
        /\ t \notin Holders(r) => Cardinality(Holders(r) \cup {t}) = Cardinality(Holders(r)) + 1
        /\ t \in Holders(r) => Cardinality(Holders(r) \ {t}) = Cardinality(Holders(r)) - 1
                               /\ Cardinality(Holders(r) \ {t}) \in Nat
  BY <1>4, FS_AddElement, FS_RemoveElement, FS_CardinalityType
<1>6. \A r \in Rooms : /\ t \in Holders(r) => Holders(r) \cup {t} = Holders(r)
                       /\ t \notin Holders(r) => Holders(r) \ {t} = Holders(r)
  OBVIOUS
<1>7. leases \in [Rooms -> Nat] /\ \A r \in Rooms : leases[r] = Cardinality(Holders(r))
  BY DEF HandleTypes, Leased
<1>8. ASSUME NEW r \in Rooms PROVE leases'[r] = Cardinality(Holders(r)') /\ leases'[r] \in Nat
  <2>1. CASE Holds(e, handle') /\ Holds(task[t], handle) /\ e.room = task[t].room /\ leases' = leases
    BY <1>2, <1>3, <1>4, <1>6, <1>7, <2>1
  <2>2. CASE ~Holds(e, handle') /\ ~Holds(task[t], handle) /\ leases' = leases
    BY <1>2, <1>3, <1>4, <1>6, <1>7, <2>2
  <2>3. CASE /\ Holds(e, handle') /\ ~Holds(task[t], handle) /\ e.room \in Rooms
             /\ leases' = [leases EXCEPT ![e.room] = @ + 1]
    <3>1. leases'[r] = IF r = e.room THEN leases[r] + 1 ELSE leases[r]
      BY <1>7, <2>3
    <3>2. CASE r = e.room
      <4>1. t \notin Holders(r) /\ Holders(r)' = Holders(r) \cup {t}
        BY <1>2, <1>3, <2>3, <3>2
      <4>2. QED
        BY <1>4, <1>5, <1>7, <3>1, <3>2, <4>1
    <3>3. CASE r # e.room
      BY <1>2, <1>3, <1>4, <1>6, <1>7, <2>3, <3>1, <3>3
    <3>4. QED
      BY <3>2, <3>3
  <2>4. CASE /\ ~Holds(e, handle') /\ Holds(task[t], handle) /\ task[t].room \in Rooms
             /\ leases' = [leases EXCEPT ![task[t].room] = @ - 1]
    BY <1>2, <1>3, <1>4, <1>5, <1>6, <1>7, <2>4
  <2>5. QED
    BY <2>1, <2>2, <2>3, <2>4
<1>9. leases' \in [Rooms -> Nat]
  <2>1. \E f \in [Rooms -> Int] : leases' = f
    BY <1>7
  <2>2. QED
    BY <1>8, <2>1
<1>10. QED
  BY <1>8, <1>9 DEF Leased

LEMMA InitHandles == HandlesInit => HandlesInv
<1> SUFFICES ASSUME HandlesInit PROVE HandlesInv
  OBVIOUS
<1>1. Idle \in EntryType /\ Idle.at = "idle" /\ Idle.object = 0 /\ Idle.kind = "dispatch" /\ Idle.room = NoRoom
  BY Finite DEF Idle, Entry, EntryType, Places
<1>2. \A t \in Tasks : task[t] = Idle
  BY DEF HandlesInit
<1>3. HandleTypes
  BY <1>1, Finite, StoredAssumption DEF HandlesInit, HandleTypes, Objects, HandleStates
<1>4. InPlace /\ Homes /\ Promises /\ Owners /\ OneEach
  BY <1>1, <1>2, Finite DEF HandlesInit, InPlace, WellFormed, Homes, Promises, Owners, OneEach, Owning, Opening
<1>5. Unborn /\ Stages /\ Kept
  BY <1>1, <1>2 DEF HandlesInit, Unborn, Stages, Stage, Kept
<1>6. Leased
  <2>1. \A r \in Rooms : Holders(r) = {}
    BY <1>1, <1>2 DEF Holders, Holds
  <2>2. QED
    BY <2>1, FS_EmptySet DEF HandlesInit, Leased
<1>7. QED
  BY <1>3, <1>4, <1>5, <1>6 DEF HandlesInv

-----------------------------------------------------------------------------
(* An eviction.  The room that is chosen is open, and nobody who holds a    *)
(* lease works on its Room object.                                          *)

Evicts ==
  \E r \in Rooms : \E v \in Evictable(r) :
    rooms' = [rooms EXCEPT ![v] = 0] /\ handle' = [handle EXCEPT ![rooms[v]] = "suspending"]
MayEvict == Evicts \/ UNCHANGED <<rooms, handle>>

EvictionFacts ==
  /\ rooms' \in [Rooms -> 0 .. MaxMade] /\ handle' \in [Objects -> HandleStates]
  /\ \A r \in Rooms : \/ rooms'[r] = rooms[r]
                      \/ /\ rooms'[r] = 0 /\ rooms[r] \in Objects
                         /\ handle[rooms[r]] = "open" /\ handle'[rooms[r]] = "suspending"
  /\ \A h \in Objects :
       \/ handle'[h] = handle[h]
       \/ /\ handle[h] = "open" /\ handle'[h] = "suspending" /\ \A r \in Rooms : rooms'[r] # h
          /\ \A t \in Tasks : task[t].at = "using" /\ task[t].kind # "join" => task[t].object # h

LEMMA Eviction == ASSUME HandlesInv, MayEvict PROVE EvictionFacts
<1>1. CASE UNCHANGED <<rooms, handle>>
  BY <1>1 DEF EvictionFacts, HandlesInv, HandleTypes
<1>2. CASE Evicts
  <2>1. PICK v \in UNION {Evictable(r) : r \in Rooms} :
          rooms' = [rooms EXCEPT ![v] = 0] /\ handle' = [handle EXCEPT ![rooms[v]] = "suspending"]
    BY <1>2 DEF Evicts
  <2>2. HandleTypes
    BY DEF HandlesInv
  <2>3. v \in Rooms /\ rooms[v] # 0 /\ leases[v] = 0 /\ opening[v] = 0 /\ joining[v] = 0
    BY DEF Evictable, Registered
  <2>4. rooms[v] \in Objects
    BY <2>2, <2>3 DEF HandleTypes, Objects
  <2>5. Holders(v) = {}
    BY <2>3, Finite, FS_Subset, FS_EmptySet DEF HandlesInv, Leased, Holders
  <2>6. \A t \in Tasks : task[t].object = rooms[v] => task[t].room = v
    BY <2>3 DEF HandlesInv, Homes
  <2>7. handle[rooms[v]] = "open"
    <3>1. handle[rooms[v]] \in {"opening", "open"}
      BY <2>3 DEF HandlesInv, Kept
    <3>2. ASSUME handle[rooms[v]] = "opening" PROVE FALSE
      <4>1. PICK t \in Tasks : task[t].at = "opening" /\ task[t].object = rooms[v]
        BY <2>4, <3>2 DEF HandlesInv, Kept
      <4>2. task[t].room = v /\ task[t].at \in Owning
        BY <2>6, <4>1 DEF Owning, Opening
      <4>3. task[t].kind = "create"
        <5>1. task[t].kind \in {"dispatch", "create", "join"}
          BY <2>2 DEF HandleTypes, EntryType
        <5>2. QED
          BY <2>3, <4>1, <4>2, <5>1 DEF HandlesInv, Owners
      <4>4. t \in Holders(v)
        BY <4>1, <4>2, <4>3 DEF Holders, Holds
      <4>5. QED
        BY <2>5, <4>4
    <3>3. QED
      BY <3>1, <3>2
  <2>8. ASSUME NEW t \in Tasks, task[t].at = "using", task[t].kind # "join" PROVE task[t].object # rooms[v]
    <3>1. task[t].kind \in {"dispatch", "create"}
      BY <2>2, <2>8 DEF HandleTypes, EntryType
    <3>2. Holds(task[t], handle)
      BY <2>8, <3>1 DEF Holds
    <3>3. QED
      BY <2>5, <2>6, <3>2 DEF Holders
  <2>9. \A q \in Rooms : rooms'[q] = IF q = v THEN 0 ELSE rooms[q]
    BY <2>1, <2>2 DEF HandleTypes
  <2>10. \A h \in Objects : handle'[h] = IF h = rooms[v] THEN "suspending" ELSE handle[h]
    BY <2>1, <2>2, <2>4 DEF HandleTypes
  <2>11. \A q \in Rooms : rooms'[q] # rooms[v]
    BY <2>3, <2>9 DEF HandlesInv, Homes
  <2>12. rooms' \in [Rooms -> 0 .. MaxMade] /\ handle' \in [Objects -> HandleStates]
    <3>1. rooms' \in [Rooms -> 0 .. MaxMade]
      <4>1. 0 \in 0 .. MaxMade /\ rooms \in [Rooms -> 0 .. MaxMade]
        BY <2>2, Finite DEF HandleTypes
      <4>2. QED
        BY <2>1, <4>1
    <3>2. handle' \in [Objects -> HandleStates]
      BY <2>1, <2>2, <2>4 DEF HandleTypes, HandleStates
    <3>3. QED
      BY <3>1, <3>2
  <2>13. QED
    BY <2>4, <2>7, <2>8, <2>9, <2>10, <2>11, <2>12 DEF EvictionFacts
<1>3. QED
  BY <1>1, <1>2 DEF MayEvict

\* What an eviction leaves as it was.
LEMMA EvictionLeaves ==
  ASSUME HandlesInv, MayEvict, made' \in Nat, made' >= made
  PROVE  /\ EvictionFacts /\ Unborn'
         /\ \A t \in Tasks : Stage(task[t], handle', rooms')
         /\ \A t \in Tasks : Holds(task[t], handle') <=> Holds(task[t], handle)
         /\ \A r, q \in Rooms : rooms'[r] = rooms'[q] /\ rooms'[r] # 0 => r = q
         /\ \A r \in Rooms : rooms'[r] <= made /\ (rooms'[r] # 0 => rooms'[r] = rooms[r])
         /\ \A r \in Rooms : rooms'[r] # 0 => handle'[rooms'[r]] \in {"opening", "open"}
         /\ \A h \in Objects : handle'[h] = "opening" => handle[h] = "opening"
         /\ \A h \in Objects : handle'[h] \in {"opening", "open"} => \E r \in Rooms : rooms'[r] = h
<1>1. EvictionFacts
  BY Eviction
<1>2. HandleTypes
  BY DEF HandlesInv
<1>3. \A t \in Tasks : task[t].object # 0 => task[t].object \in Objects
  BY <1>2 DEF HandleTypes, EntryType, Objects
<1>4. \A r \in Rooms : /\ rooms[r] \in Nat /\ rooms'[r] \in Nat /\ (rooms[r] # 0 => rooms[r] \in Objects)
                       /\ (rooms'[r] # 0 => rooms'[r] = rooms[r])
  BY <1>1, <1>2 DEF HandleTypes, EvictionFacts, Objects
<1>5. Unborn'
  <2>1. made \in Nat /\ Objects \subseteq Nat
    BY <1>2 DEF HandleTypes, Objects
  <2>2. ASSUME NEW h \in Objects, h > made' PROVE handle'[h] = "none"
    <3>1. handle[h] = "none"
      BY <2>1, <2>2 DEF HandlesInv, Unborn
    <3>2. handle'[h] = handle[h] \/ handle[h] = "open"
      BY <1>1 DEF EvictionFacts
    <3>3. QED
      BY <3>1, <3>2
  <2>3. QED
    BY <2>2 DEF Unborn
<1>6. ASSUME NEW t \in Tasks PROVE Stage(task[t], handle', rooms') /\ (Holds(task[t], handle') <=> Holds(task[t], handle))
  <2> DEFINE e == task[t]
  <2>1. Stage(e, handle, rooms) /\ WellFormed(e, made)
    BY DEF HandlesInv, Stages, InPlace
  <2>2. e.at \in Owning \cup {"using"} => e.object \in Objects /\ e.room \in Rooms
    BY <1>3, <2>1 DEF WellFormed, Owning, Opening
  <2>3. e.at \in {"evicting", "ready"} => handle'[e.object] = "none" /\ rooms'[e.room] = 0
    BY <1>1, <2>1, <2>2 DEF Stage, EvictionFacts, Owning, Opening
  <2>4. e.at = "opening" => handle'[e.object] = "opening" /\ rooms'[e.room] = e.object
    BY <1>1, <2>1, <2>2 DEF Stage, EvictionFacts, Owning, Opening
  <2>5. e.at = "aborting" => handle'[e.object] = handle[e.object]
    BY <1>1, <2>1, <2>2 DEF Stage, EvictionFacts, Owning, Opening
  <2>6. e.at = "using" /\ e.kind # "join" => handle'[e.object] \notin {"suspending", "suspended"}
    BY <1>1, <2>1, <2>2 DEF Stage, EvictionFacts
  <2>7. QED
    BY <2>1, <2>3, <2>4, <2>5, <2>6 DEF Stage, Holds
<1>7. \A r, q \in Rooms : rooms'[r] = rooms'[q] /\ rooms'[r] # 0 => r = q
  BY <1>4 DEF HandlesInv, Homes
<1>8. \A r \in Rooms : rooms'[r] <= made
  BY <1>2, <1>4 DEF HandlesInv, Homes, HandleTypes
<1>9. \A r \in Rooms : rooms'[r] # 0 => handle'[rooms'[r]] \in {"opening", "open"}
  BY <1>1, <1>4 DEF EvictionFacts, HandlesInv, Kept
<1>10. \A h \in Objects : handle'[h] = "opening" => handle[h] = "opening"
  BY <1>1 DEF EvictionFacts
<1>11. ASSUME NEW h \in Objects, handle'[h] \in {"opening", "open"} PROVE \E r \in Rooms : rooms'[r] = h
  <2>1. handle'[h] = handle[h]
    BY <1>1, <1>11 DEF EvictionFacts
  <2>2. PICK r \in Rooms : rooms[r] = h
    BY <1>11, <2>1 DEF HandlesInv, Kept
  <2>3. rooms'[r] = rooms[r]
    BY <1>1, <1>11, <2>2 DEF EvictionFacts
  <2>4. QED
    BY <2>2, <2>3
<1>12. QED
  BY <1>1, <1>4, <1>5, <1>6, <1>7, <1>8, <1>9, <1>10, <1>11

-----------------------------------------------------------------------------
(* The steps of requests that settle no promise: they find a room, wait for *)
(* one that is being opened, use it, let it go and trim.                    *)

\* The Room object of an entry is known: some request works on it, or it is
\* registered for the room.
Known(e) ==
  e.object # 0 => \/ rooms[e.room] = e.object
                  \/ \E u \in Tasks : task[u].object = e.object /\ task[u].room = e.room

LEMMA OutsideKeeps ==
  ASSUME HandlesInv, MayEvict, UNCHANGED <<records, opening, joining, made>>,
         NEW t \in Tasks, NEW e, task' = [task EXCEPT ![t] = e], WellFormed(e, made), Known(e),
         task[t].at \notin Owning, e.at \notin Owning,
         e.at = "using" /\ e.kind # "join" => handle'[e.object] \notin {"suspending", "suspended"},
         leases' \in [Rooms -> Nat], Leased'
  PROVE  HandlesInv'
<1>1. /\ \A u \in Tasks : task'[u] = IF u = t THEN e ELSE task[u]
      /\ task' \in [Tasks -> EntryType]
  BY Changed DEF HandlesInv, WellFormed
<1>2. HandleTypes /\ InPlace /\ Homes /\ Promises /\ Owners /\ OneEach /\ Stages /\ Kept
  BY DEF HandlesInv
<1>3. /\ EvictionFacts /\ Unborn'
      /\ \A u \in Tasks : Stage(task[u], handle', rooms')
      /\ \A r, q \in Rooms : rooms'[r] = rooms'[q] /\ rooms'[r] # 0 => r = q
      /\ \A r \in Rooms : rooms'[r] <= made /\ (rooms'[r] # 0 => rooms'[r] = rooms[r])
      /\ \A r \in Rooms : rooms'[r] # 0 => handle'[rooms'[r]] \in {"opening", "open"}
      /\ \A h \in Objects : handle'[h] = "opening" => handle[h] = "opening"
      /\ \A h \in Objects : handle'[h] \in {"opening", "open"} => \E r \in Rooms : rooms'[r] = h
  <2>1. made' \in Nat /\ made' >= made
    BY <1>2 DEF HandleTypes
  <2>2. QED
    BY <2>1, EvictionLeaves
<1>4. HandleTypes'
  BY <1>1, <1>2, <1>3 DEF HandleTypes, EvictionFacts
<1>5. InPlace'
  BY <1>1, <1>2 DEF InPlace
<1>6. Homes'
  <2>1. \A u \in Tasks : e.object = task[u].object /\ e.object # 0 => e.room = task[u].room
    <3>1. ASSUME NEW u \in Tasks, e.object = task[u].object, e.object # 0 PROVE e.room = task[u].room
      <4>1. e.room \in Rooms
        BY <3>1 DEF WellFormed, Idle, Entry
      <4>2. CASE rooms[e.room] = e.object
        BY <1>2, <3>1, <4>1, <4>2 DEF Homes
      <4>3. CASE \E w \in Tasks : task[w].object = e.object /\ task[w].room = e.room
        BY <1>2, <3>1, <4>3 DEF Homes
      <4>4. QED
        BY <3>1, <4>2, <4>3 DEF Known
    <3>2. QED
      BY <3>1
  <2>2. \A r \in Rooms : rooms[r] = e.object /\ rooms[r] # 0 => e.room = r
    <3>1. ASSUME NEW r \in Rooms, rooms[r] = e.object, rooms[r] # 0 PROVE e.room = r
      <4>1. e.room \in Rooms
        BY <3>1 DEF WellFormed, Idle, Entry
      <4>2. QED
        BY <1>2, <3>1, <4>1 DEF Known, Homes
    <3>2. QED
      BY <3>1
  <2>3. \A u, w \in Tasks : task'[u].object = task'[w].object /\ task'[u].object # 0 => task'[u].room = task'[w].room
    BY <1>1, <1>2, <2>1 DEF Homes
  <2>4. \A u \in Tasks, r \in Rooms : rooms'[r] = task'[u].object /\ rooms'[r] # 0 => task'[u].room = r
    BY <1>1, <1>2, <1>3, <2>2 DEF Homes
  <2>5. QED
    BY <1>3, <2>3, <2>4 DEF Homes
<1>7. Promises'
  <2>1. \A u \in Tasks : task[u].at \in Owning => task'[u] = task[u]
    BY <1>1
  <2>2. QED
    BY <1>2, <2>1 DEF Promises, Owns
<1>8. Owners'
  BY <1>1, <1>2 DEF Owners, Owning
<1>9. OneEach'
  BY <1>1, <1>2 DEF OneEach, Owning
<1>10. Stages'
  <2>1. Stage(e, handle', rooms')
    BY DEF Stage, Owning, Opening
  <2>2. QED
    BY <1>1, <1>3, <2>1 DEF Stages
<1>11. Kept'
  <2>1. ASSUME NEW h \in Objects, handle'[h] = "opening" PROVE \E u \in Tasks : task'[u].at = "opening" /\ task'[u].object = h
    <3>1. PICK u \in Tasks : task[u].at = "opening" /\ task[u].object = h
      BY <1>2, <1>3, <2>1 DEF Kept
    <3>2. task'[u] = task[u]
      BY <1>1, <3>1 DEF Owning, Opening
    <3>3. QED
      BY <3>1, <3>2
  <2>2. QED
    BY <1>3, <2>1 DEF Kept
<1>12. QED
  BY <1>3, <1>4, <1>5, <1>6, <1>7, <1>8, <1>9, <1>10, <1>11 DEF HandlesInv

\* Find, Share and the failure of a dispatch to a room that is not there.
LEMMA FindKeeps ==
  ASSUME HandlesInv, NEW t \in Tasks, NEW r \in Rooms, NEW k \in {"dispatch", "join"}, task[t] = Idle,
         UNCHANGED records,
         leases' = IF k = "dispatch" THEN [leases EXCEPT ![r] = @ + 1] ELSE leases,
         \/ Find(t, k, r)
         \/ \E p \in {opening[r]} : Share(t, k, r, p, "awaiting")
         \/ k = "join" /\ \E p \in {joining[r]} : Share(t, k, r, p, "sharing")
         \/ /\ k = "dispatch" /\ task' = [task EXCEPT ![t] = Entry("failed", k, r, 0)]
            /\ UNCHANGED <<rooms, recency, opening, joining, made, handle>>
  PROVE  HandlesInv'
<1>1. /\ UNCHANGED <<rooms, opening, joining, made, handle, records>>
      /\ \E at \in {"using", "awaiting", "sharing", "failed"}, h \in {rooms[r], opening[r], joining[r], 0} :
           /\ task' = [task EXCEPT ![t] = Entry(at, k, r, h)]
           /\ at = "using" => h = rooms[r] /\ h # 0
           /\ at = "sharing" => k = "join"
           /\ at = "failed" => k = "dispatch" /\ h = 0
  BY DEF Find, Share
<1>2. PICK at \in {"using", "awaiting", "sharing", "failed"}, h \in {rooms[r], opening[r], joining[r], 0} :
           /\ task' = [task EXCEPT ![t] = Entry(at, k, r, h)]
           /\ at = "using" => h = rooms[r] /\ h # 0
           /\ at = "sharing" => k = "join"
           /\ at = "failed" => k = "dispatch" /\ h = 0
  BY <1>1
<1> DEFINE e == Entry(at, k, r, h)
<1>3. HandleTypes /\ InPlace /\ Homes /\ Promises /\ Stages /\ Kept
  BY DEF HandlesInv
<1>4. h \in 0 .. MaxMade /\ h <= made
  <2>1. h \in 0 .. MaxMade
    BY <1>3, Finite DEF HandleTypes
  <2>2. rooms[r] <= made
    BY <1>3 DEF Homes
  <2>3. opening[r] # 0 => opening[r] <= made
    BY <1>3 DEF Promises, Owns, InPlace, WellFormed
  <2>4. joining[r] # 0 => joining[r] <= made
    BY <1>3 DEF Promises, Owns, InPlace, WellFormed
  <2>5. 0 <= made
    BY <1>3 DEF HandleTypes
  <2>6. QED
    BY <2>1, <2>2, <2>3, <2>4, <2>5
<1>5. /\ e \in EntryType /\ e.at = at /\ e.kind = k /\ e.room = r /\ e.object = h
  BY <1>4, Finite DEF Entry, EntryType, Places
<1>6. WellFormed(e, made)
  BY <1>2, <1>4, <1>5 DEF WellFormed, Owning, Opening
<1>7. Known(e)
  <2>1. CASE h = rooms[r]
    BY <1>5, <2>1 DEF Known
  <2>2. CASE h = opening[r] \/ h = joining[r]
    BY <1>3, <1>5, <2>2 DEF Known, Promises, Owns
  <2>3. QED
    BY <1>2, <1>5, <2>1, <2>2 DEF Known
<1>8. task[t].at \notin Owning /\ e.at \notin Owning /\ ~Holds(task[t], handle)
  BY <1>5 DEF Owning, Opening, Idle, Entry, Holds
<1>9. e.at = "using" => handle'[e.object] \notin {"suspending", "suspended"}
  BY <1>1, <1>2, <1>3, <1>5 DEF Kept
<1>10. leases' \in [Rooms -> Nat] /\ Leased'
  <2>1. Holds(e, handle') <=> k = "dispatch"
    BY <1>5 DEF Holds
  <2>2. \A u \in Tasks : Holds(task[u], handle') <=> Holds(task[u], handle)
    BY <1>1
  <2> HIDE DEF e
  <2>3. QED
    BY <1>2, <1>3, <1>5, <1>8, <2>1, <2>2, LeaseCount DEF HandlesInv, e
<1> HIDE DEF e
<1>11. MayEvict
  BY <1>1 DEF MayEvict
<1>12. QED
  BY <1>1, <1>2, <1>6, <1>7, <1>8, <1>9, <1>10, <1>11, OutsideKeeps DEF e

LEMMA ResumeKeeps == ASSUME HandlesInv, NEW t \in Tasks, Resume(t) PROVE HandlesInv'
<1>1. HandleTypes /\ InPlace /\ Homes /\ Promises /\ Stages /\ Kept
  BY DEF HandlesInv
<1>2. /\ task[t].at \in {"awaiting", "sharing"} /\ UNCHANGED <<rooms, leases, records, opening, joining, made, handle>>
      /\ WellFormed(task[t], made)
  BY <1>1 DEF Resume, InPlace
<1> DEFINE r == task[t].room
           k == task[t].kind
           f == IF k = "dispatch" THEN rooms[r] ELSE task[t].object
           using == [task[t] EXCEPT !.at = "using", !.object = f]
           failed == [task[t] EXCEPT !.at = "failed"]
<1>3. task[t] \in EntryType /\ r \in Rooms /\ k \in {"dispatch", "join"} /\ f \in 0 .. MaxMade /\ f <= made
  BY <1>1, <1>2 DEF WellFormed, EntryType, HandleTypes, Homes
<1>4. PICK e \in {using, failed, Idle} :
        /\ task' = [task EXCEPT ![t] = e]
        /\ e = using => f # 0
        /\ e = failed => k = "dispatch"
        /\ e = Idle => k # "dispatch"
  <2>1. using.at = "using" /\ failed.at = "failed" /\ Idle.at = "idle"
    BY <1>3 DEF EntryType, Idle, Entry
  <2>2. \/ task' = [task EXCEPT ![t] = using] /\ f # 0
        \/ task' = [task EXCEPT ![t] = failed] /\ k = "dispatch"
        \/ task' = [task EXCEPT ![t] = Idle] /\ k # "dispatch"
    BY DEF Resume
  <2>3. QED
    BY <2>1, <2>2
<1> HIDE DEF f
<1>5. /\ using \in EntryType /\ using.at = "using" /\ using.kind = k /\ using.room = r /\ using.object = f
      /\ failed \in EntryType /\ failed.at = "failed" /\ failed.kind = k /\ failed.room = r
      /\ failed.object = task[t].object
      /\ Idle \in EntryType /\ Idle.at = "idle" /\ Idle.kind = "dispatch" /\ Idle.object = 0
  <2>1. "using" \in Places /\ "failed" \in Places
    BY DEF Places
  <2>2. using \in EntryType /\ using.at = "using" /\ using.kind = k /\ using.room = r /\ using.object = f
    BY <1>3, <2>1 DEF EntryType
  <2>3. /\ failed \in EntryType /\ failed.at = "failed" /\ failed.kind = k /\ failed.room = r
        /\ failed.object = task[t].object
    BY <1>3, <2>1 DEF EntryType
  <2>4. Idle \in EntryType /\ Idle.at = "idle" /\ Idle.kind = "dispatch" /\ Idle.object = 0
    BY Finite DEF EntryType, Places, Idle, Entry
  <2>5. QED
    BY <2>2, <2>3, <2>4
<1>6. WellFormed(e, made)
  <2>1. made \in Nat /\ task[t].object <= made
    BY <1>1, <1>2 DEF WellFormed, HandleTypes
  <2>2. CASE e = using
    BY <1>3, <1>4, <1>5, <2>2 DEF WellFormed, Owning, Opening
  <2>3. CASE e = failed
    BY <1>3, <1>4, <1>5, <2>1, <2>3 DEF WellFormed, Owning, Opening
  <2>4. CASE e = Idle
    BY <1>5, <2>1, <2>4 DEF WellFormed, Owning, Opening
  <2>5. QED
    BY <1>4, <2>2, <2>3, <2>4
<1>7. Known(e)
  <2>1. f = rooms[r] \/ f = task[t].object
    BY DEF f
  <2>2. QED
    BY <1>4, <1>5, <2>1, ZenonT(60) DEF Known
<1>8. task[t].at \notin Owning /\ e.at \notin Owning
  BY <1>2, <1>4, <1>5 DEF Owning, Opening
<1>9. e.at = "using" /\ e.kind # "join" => handle'[e.object] \notin {"suspending", "suspended"}
  <2>1. ASSUME e.at = "using", e.kind # "join" PROVE handle'[e.object] \notin {"suspending", "suspended"}
    <3>1. e = using /\ k = "dispatch"
      BY <1>3, <1>4, <1>5, <2>1
    <3>2. f = rooms[r] /\ f # 0
      BY <1>4, <3>1 DEF f
    <3>3. handle[rooms[r]] \in {"opening", "open"}
      BY <1>1, <1>3, <3>2 DEF Kept
    <3>4. QED
      BY <1>2, <1>5, <3>1, <3>2, <3>3
  <2>2. QED
    BY <2>1
<1>10. leases' \in [Rooms -> Nat] /\ Leased'
  <2>1. \/ Holds(e, handle') /\ Holds(task[t], handle) /\ e.room = task[t].room
        \/ ~Holds(e, handle') /\ ~Holds(task[t], handle)
    BY <1>2, <1>3, <1>4, <1>5 DEF Holds
  <2>2. \A u \in Tasks : Holds(task[u], handle') <=> Holds(task[u], handle)
    BY <1>2
  <2>3. QED
    BY <1>1, <1>2, <1>4, <2>1, <2>2, LeaseCount DEF HandlesInv
<1>11. MayEvict
  BY <1>2 DEF MayEvict
<1>12. QED
  BY <1>2, <1>4, <1>6, <1>7, <1>8, <1>9, <1>10, <1>11, OutsideKeeps

\* A request trims at its end, with what it has just let go, and again.
LEMMA TrimKeeps ==
  ASSUME HandlesInv, NEW t \in Tasks, NEW order, Trim(t, task[t], order), UNCHANGED <<records, opening, joining, made>>,
         task[t].kind # "join",
         \/ task[t].at \in {"using", "failed"} /\ leases' = WithoutLease(task[t].room)
         \/ task[t].at = "trimming" /\ leases' = leases
  PROVE  HandlesInv'
<1>1. HandleTypes /\ InPlace
  BY DEF HandlesInv
<1>2. WellFormed(task[t], made) /\ task[t] \in EntryType /\ task[t].room \in Rooms
  BY <1>1 DEF InPlace, WellFormed
<1>3. /\ MayEvict
      /\ \/ task' = [task EXCEPT ![t] = Idle]
         \/ \E v \in 0 .. MaxMade : task' = [task EXCEPT ![t] = [task[t] EXCEPT !.at = "trimming", !.victim = v]]
  <2>1. CASE Suspend(t, task[t], order, "trimming")
    <3>1. PICK v \in Victims(task[t].room) :
            /\ rooms' = [rooms EXCEPT ![v] = 0]
            /\ handle' = [handle EXCEPT ![rooms[v]] = "suspending"]
            /\ task' = [task EXCEPT ![t] = [task[t] EXCEPT !.at = "trimming", !.victim = rooms[v]]]
      BY <2>1 DEF Suspend
    <3>2. v \in Evictable(task[t].room) /\ v \in Rooms
      BY DEF Victims, Evictable, Registered
    <3>3. Evicts
      BY <1>2, <3>1, <3>2 DEF Evicts
    <3>4. rooms[v] \in 0 .. MaxMade
      BY <1>1, <3>2 DEF HandleTypes
    <3>5. QED
      BY <3>1, <3>3, <3>4 DEF MayEvict
  <2>2. CASE task' = [task EXCEPT ![t] = Idle] /\ UNCHANGED <<rooms, handle>>
    BY <2>2 DEF MayEvict
  <2>3. QED
    BY <2>1, <2>2 DEF Trim
<1>4. PICK e : /\ task' = [task EXCEPT ![t] = e] /\ e \in EntryType
               /\ \/ e = Idle
                  \/ /\ e.at = "trimming" /\ e.kind = task[t].kind /\ e.room = task[t].room
                     /\ e.object = task[t].object
  <2>1. Idle \in EntryType
    BY Finite DEF EntryType, Places, Idle, Entry
  <2>2. CASE task' = [task EXCEPT ![t] = Idle]
    BY <2>1, <2>2
  <2>3. CASE \E v \in 0 .. MaxMade : task' = [task EXCEPT ![t] = [task[t] EXCEPT !.at = "trimming", !.victim = v]]
    <3>1. PICK v \in 0 .. MaxMade : task' = [task EXCEPT ![t] = [task[t] EXCEPT !.at = "trimming", !.victim = v]]
      BY <2>3
    <3>2. "trimming" \in Places
      BY DEF Places
    <3> DEFINE g == [task[t] EXCEPT !.at = "trimming", !.victim = v]
    <3>3. /\ g \in EntryType /\ g.at = "trimming" /\ g.kind = task[t].kind /\ g.room = task[t].room
          /\ g.object = task[t].object
      BY <1>2, <3>2, Moved, ZenonT(60)
    <3>4. task' = [task EXCEPT ![t] = g]
      BY <3>1
    <3> HIDE DEF g
    <3>5. QED
      BY <3>3, <3>4
  <2>4. QED
    BY <1>3, <2>2, <2>3
<1>5. Idle.at = "idle" /\ Idle.kind = "dispatch" /\ Idle.object = 0
  BY DEF Idle, Entry
<1>6. WellFormed(e, made) /\ Known(e) /\ e.at \notin Owning \cup {"using"}
  BY <1>1, <1>2, <1>4, <1>5 DEF WellFormed, Known, Owning, Opening, HandleTypes
<1>7. task[t].at \notin Owning
  BY DEF Owning, Opening
<1>8. leases' \in [Rooms -> Nat] /\ Leased'
  <2>1. ~Holds(e, handle')
    BY <1>4, <1>5 DEF Holds
  <2>2. \A u \in Tasks : Holds(task[u], handle') <=> Holds(task[u], handle)
    <3>1. made' \in Nat /\ made' >= made
      BY <1>1 DEF HandleTypes
    <3>2. QED
      BY <1>3, <3>1, EvictionLeaves
  <2>3. \/ ~Holds(task[t], handle) /\ leases' = leases
        \/ Holds(task[t], handle) /\ leases' = [leases EXCEPT ![task[t].room] = @ - 1]
    BY <1>2 DEF Holds, WithoutLease, EntryType
  <2>4. QED
    BY <1>1, <1>2, <1>4, <2>1, <2>2, <2>3, LeaseCount DEF HandlesInv
<1>9. QED
  BY <1>3, <1>4, <1>6, <1>7, <1>8, OutsideKeeps

LEMMA FinishJoinKeeps == ASSUME HandlesInv, NEW t \in Tasks, FinishJoin(t) PROVE HandlesInv'
<1>1. /\ task[t].at = "using" /\ task[t].kind = "join" /\ task' = [task EXCEPT ![t] = Idle]
      /\ UNCHANGED <<rooms, leases, records, opening, joining, made, handle>>
  BY DEF FinishJoin
<1>2. HandleTypes /\ Idle \in EntryType /\ Idle.at = "idle" /\ Idle.kind = "dispatch" /\ Idle.object = 0
  BY Finite DEF HandlesInv, EntryType, Places, Idle, Entry
<1>3. WellFormed(Idle, made) /\ Known(Idle) /\ Idle.at \notin Owning /\ task[t].at \notin Owning
  BY <1>1, <1>2 DEF WellFormed, Known, Owning, Opening, HandleTypes
<1>4. leases' \in [Rooms -> Nat] /\ Leased'
  <2>1. ~Holds(Idle, handle') /\ ~Holds(task[t], handle)
    BY <1>1, <1>2 DEF Holds
  <2>2. \A u \in Tasks : Holds(task[u], handle') <=> Holds(task[u], handle)
    BY <1>1
  <2>3. QED
    BY <1>1, <1>2, <2>1, <2>2, LeaseCount DEF HandlesInv
<1>5. MayEvict
  BY <1>1 DEF MayEvict
<1>6. QED
  BY <1>1, <1>2, <1>3, <1>4, <1>5, OutsideKeeps

-----------------------------------------------------------------------------
(* The steps of a request that opens a room. *)

\* It evicts once more, goes on, is refused, or could not pair.
LEMMA OpenerKeeps ==
  ASSUME HandlesInv, MayEvict, UNCHANGED <<leases, records, opening, joining, made>>,
         NEW t \in Tasks, task[t].at \in {"evicting", "ready"},
         NEW p \in {"evicting", "ready", "aborting"}, NEW e \in EntryType, task' = [task EXCEPT ![t] = e],
         e.at = p, e.kind = task[t].kind, e.room = task[t].room, e.object = task[t].object
  PROVE  HandlesInv'
<1>1. /\ \A u \in Tasks : task'[u] = IF u = t THEN e ELSE task[u]
      /\ task' \in [Tasks -> EntryType]
  BY Changed DEF HandlesInv
<1>2. HandleTypes /\ InPlace /\ Homes /\ Promises /\ Owners /\ OneEach /\ Stages /\ Kept
  BY DEF HandlesInv
<1>3. /\ EvictionFacts /\ Unborn'
      /\ \A u \in Tasks : Stage(task[u], handle', rooms')
      /\ \A u \in Tasks : Holds(task[u], handle') <=> Holds(task[u], handle)
      /\ \A r, q \in Rooms : rooms'[r] = rooms'[q] /\ rooms'[r] # 0 => r = q
      /\ \A r \in Rooms : rooms'[r] <= made /\ (rooms'[r] # 0 => rooms'[r] = rooms[r])
      /\ \A r \in Rooms : rooms'[r] # 0 => handle'[rooms'[r]] \in {"opening", "open"}
      /\ \A h \in Objects : handle'[h] = "opening" => handle[h] = "opening"
      /\ \A h \in Objects : handle'[h] \in {"opening", "open"} => \E r \in Rooms : rooms'[r] = h
  <2>1. made' \in Nat /\ made' >= made
    BY <1>2 DEF HandleTypes
  <2>2. QED
    BY <2>1, EvictionLeaves
<1>4. HandleTypes'
  BY <1>1, <1>2, <1>3 DEF HandleTypes, EvictionFacts
<1>5. \A u \in Tasks : /\ task'[u].object = task[u].object /\ task'[u].room = task[u].room
                       /\ task'[u].kind = task[u].kind
                       /\ task'[u].at \in Owning <=> task[u].at \in Owning
                       /\ task'[u].at \in Opening => task[u].at \in Opening
  BY <1>1 DEF Owning, Opening
<1>6. InPlace'
  <2>1. WellFormed(task[t], made)
    BY <1>2 DEF InPlace
  <2>2. WellFormed(e, made)
    BY <2>1 DEF WellFormed, Owning, Opening
  <2>3. QED
    BY <1>1, <1>2, <2>2 DEF InPlace
<1>7. Homes'
  BY <1>2, <1>3, <1>5 DEF Homes
<1>8. Promises'
  <2>1. ASSUME NEW r \in Rooms
        PROVE  /\ opening'[r] # 0 => r \in records' /\ \E u \in Tasks : Owns(u, r, opening[r])' /\ task'[u].kind # "create"
               /\ joining'[r] # 0 => \E u \in Tasks : Owns(u, r, joining[r])' /\ task'[u].kind = "join"
    BY <1>2, <1>5 DEF Promises, Owns
  <2>2. QED
    BY <2>1 DEF Promises
<1>9. Owners'
  BY <1>2, <1>5 DEF Owners
<1>10. OneEach'
  BY <1>2, <1>5 DEF OneEach
<1>11. Stages'
  <2>1. Stage(task[t], handle', rooms') /\ Stage(e, handle', rooms')
    BY <1>3 DEF Stage
  <2>2. QED
    BY <1>1, <1>3, <2>1 DEF Stages
<1>12. Kept'
  <2>1. ASSUME NEW h \in Objects, handle'[h] = "opening" PROVE \E u \in Tasks : task'[u].at = "opening" /\ task'[u].object = h
    <3>1. PICK u \in Tasks : task[u].at = "opening" /\ task[u].object = h
      BY <1>2, <1>3, <2>1 DEF Kept
    <3>2. task'[u] = task[u]
      BY <1>1, <3>1
    <3>3. QED
      BY <3>1, <3>2
  <2>2. QED
    BY <1>3, <2>1 DEF Kept
<1>13. Leased'
  <2>1. handle'[e.object] = "none"
    BY <1>3 DEF Stage
  <2>2. Holds(e, handle') <=> Holds(task[t], handle)
    BY <2>1 DEF Holds
  <2>3. QED
    BY <1>2, <1>3, <2>2, LeaseCount DEF HandlesInv
<1>14. QED
  BY <1>3, <1>4, <1>6, <1>7, <1>8, <1>9, <1>10, <1>11, <1>12, <1>13 DEF HandlesInv

\* Capacity leaves the entry of a request at one of three places.
LEMMA CapacityMoves ==
  ASSUME HandlesInv, NEW t \in Tasks, NEW e \in EntryType, e.room \in Rooms, Capacity(t, e)
  PROVE  /\ MayEvict
         /\ \E f \in EntryType : /\ task' = [task EXCEPT ![t] = f] /\ f.at \in {"evicting", "ready", "aborting"}
                                 /\ f.kind = e.kind /\ f.room = e.room /\ f.object = e.object
<1>1. HandleTypes
  BY DEF HandlesInv
<1>2. {"evicting", "ready", "aborting"} \subseteq Places
  BY DEF Places
<1>3. ASSUME NEW p \in {"evicting", "ready", "aborting"}, NEW v \in 0 .. MaxMade,
             task' = [task EXCEPT ![t] = [e EXCEPT !.at = p, !.victim = v]]
      PROVE  \E f \in EntryType : /\ task' = [task EXCEPT ![t] = f] /\ f.at \in {"evicting", "ready", "aborting"}
                                  /\ f.kind = e.kind /\ f.room = e.room /\ f.object = e.object
  <2> DEFINE g == [e EXCEPT !.at = p, !.victim = v]
  <2>1. g \in EntryType /\ g.at = p /\ g.kind = e.kind /\ g.room = e.room /\ g.object = e.object
    <3>1. p \in Places
      BY <1>2
    <3>2. QED
      BY <3>1 DEF EntryType
  <2>2. task' = [task EXCEPT ![t] = g]
    BY <1>3
  <2> HIDE DEF g
  <2>3. QED
    BY <2>1, <2>2
<1>4. CASE Suspend(t, e, recency, "evicting")
  <2>1. PICK v \in Victims(e.room) :
          /\ rooms' = [rooms EXCEPT ![v] = 0]
          /\ handle' = [handle EXCEPT ![rooms[v]] = "suspending"]
          /\ task' = [task EXCEPT ![t] = [e EXCEPT !.at = "evicting", !.victim = rooms[v]]]
    BY <1>4 DEF Suspend
  <2>2. v \in Evictable(e.room) /\ v \in Rooms
    BY DEF Victims, Evictable, Registered
  <2>3. Evicts
    BY <2>1, <2>2 DEF Evicts
  <2>4. rooms[v] \in 0 .. MaxMade
    BY <1>1, <2>2 DEF HandleTypes
  <2>5. QED
    BY <1>3, <2>1, <2>3, <2>4 DEF MayEvict
<1>5. CASE Proceed(t, e, "ready") \/ Proceed(t, e, "aborting")
  <2>1. 0 \in 0 .. MaxMade
    BY Finite
  <2>2. QED
    BY <1>3, <1>5, <2>1 DEF Proceed, MayEvict
<1>6. QED
  BY <1>4, <1>5 DEF Capacity

LEMMA EvictedKeeps == ASSUME HandlesInv, NEW t \in Tasks, Evicted(t) \/ PairingFails(t) PROVE HandlesInv'
<1>1. task[t] \in EntryType /\ task[t].at \in {"evicting", "ready"} /\ task[t].room \in Rooms
  BY DEF Evicted, PairingFails, HandlesInv, HandleTypes, InPlace, WellFormed
<1>2. CASE Evicted(t)
  <2>1. /\ MayEvict
        /\ \E f \in EntryType : /\ task' = [task EXCEPT ![t] = f] /\ f.at \in {"evicting", "ready", "aborting"}
                                /\ f.kind = task[t].kind /\ f.room = task[t].room /\ f.object = task[t].object
    BY <1>1, <1>2, CapacityMoves DEF Evicted
  <2>2. UNCHANGED <<leases, records, opening, joining, made>>
    BY <1>2 DEF Evicted
  <2>3. QED
    BY <1>1, <2>1, <2>2, OpenerKeeps
<1>3. CASE PairingFails(t)
  <2> DEFINE f == [task[t] EXCEPT !.at = "aborting"]
  <2>1. /\ f \in EntryType /\ f.at = "aborting" /\ f.kind = task[t].kind /\ f.room = task[t].room
        /\ f.object = task[t].object
    BY <1>1 DEF EntryType, Places
  <2>2. task' = [task EXCEPT ![t] = f] /\ MayEvict /\ UNCHANGED <<leases, records, opening, joining, made>>
    BY <1>3 DEF PairingFails, MayEvict
  <2> HIDE DEF f
  <2>3. QED
    BY <1>1, <2>1, <2>2, OpenerKeeps
<1>4. QED
  BY <1>2, <1>3

\* How a request comes to open room r under a new promise: a room with a record
\* that nobody opens, a room of its own, or one without record that nobody joins.
Reservation(t, k, r) ==
  \/ /\ k \in {"dispatch", "join"} /\ r \in records /\ opening[r] = 0
     /\ opening' = [opening EXCEPT ![r] = made + 1] /\ joining' = joining
  \/ /\ k = "create" /\ r \notin records /\ \A u \in Tasks : task[u].room # r
     /\ UNCHANGED <<opening, joining>>
  \/ /\ k = "join" /\ r \notin records /\ joining[r] = 0 /\ \A u \in Tasks : task[u].kind = "create" => task[u].room # r
     /\ opening' = opening /\ joining' = [joining EXCEPT ![r] = made + 1]

LEMMA ReserveKeeps ==
  ASSUME HandlesInv, NEW t \in Tasks, NEW r \in Rooms, NEW k \in {"dispatch", "create", "join"}, task[t] = Idle,
         Reserve(t, k, r), Reservation(t, k, r), records' = records,
         leases' = IF k = "dispatch" THEN [leases EXCEPT ![r] = @ + 1] ELSE leases
  PROVE  HandlesInv'
<1>1. HandleTypes /\ InPlace /\ Homes /\ Promises /\ Owners /\ OneEach /\ Unborn /\ Stages /\ Kept
  BY DEF HandlesInv
<1> DEFINE n == made + 1
<1>2. made < MaxMade /\ made' = n /\ rooms[r] = 0 /\ n \in Nat /\ n \in 0 .. MaxMade /\ n \in Objects /\ made \in Nat
  BY <1>1, Finite DEF Reserve, HandleTypes, Objects
<1>3. /\ Entry("idle", k, r, n) \in EntryType /\ Entry("idle", k, r, n).kind = k
      /\ Entry("idle", k, r, n).room = r /\ Entry("idle", k, r, n).object = n
  BY <1>2, Finite DEF Entry, EntryType, Places
<1>4. /\ MayEvict
      /\ \E f \in EntryType : /\ task' = [task EXCEPT ![t] = f] /\ f.at \in {"evicting", "ready", "aborting"}
                              /\ f.kind = k /\ f.room = r /\ f.object = n
  BY <1>3, CapacityMoves DEF Reserve
<1>5. PICK e \in EntryType : /\ task' = [task EXCEPT ![t] = e] /\ e.at \in {"evicting", "ready", "aborting"}
                             /\ e.kind = k /\ e.room = r /\ e.object = n
  BY <1>4
<1>6. /\ \A u \in Tasks : task'[u] = IF u = t THEN e ELSE task[u]
      /\ task' \in [Tasks -> EntryType]
  BY <1>1, <1>5, Changed
<1>7. /\ EvictionFacts /\ Unborn'
      /\ \A u \in Tasks : Stage(task[u], handle', rooms')
      /\ \A u \in Tasks : Holds(task[u], handle') <=> Holds(task[u], handle)
      /\ \A q, v \in Rooms : rooms'[q] = rooms'[v] /\ rooms'[q] # 0 => q = v
      /\ \A q \in Rooms : rooms'[q] <= made /\ (rooms'[q] # 0 => rooms'[q] = rooms[q])
      /\ \A q \in Rooms : rooms'[q] # 0 => handle'[rooms'[q]] \in {"opening", "open"}
      /\ \A h \in Objects : handle'[h] = "opening" => handle[h] = "opening"
      /\ \A h \in Objects : handle'[h] \in {"opening", "open"} => \E q \in Rooms : rooms'[q] = h
  BY <1>2, <1>4, EvictionLeaves
<1>8. /\ \A u \in Tasks : task[u].object <= made /\ task[u].object \in Nat /\ task[u].object # n
      /\ task[t].at \notin Owning \cup {"opening"} /\ task[t].object = 0 /\ e.at \in Owning /\ e.at # "opening"
  <2>1. \A u \in Tasks : task[u].object <= made /\ task[u].object \in Nat
    BY <1>1 DEF InPlace, WellFormed, HandleTypes, EntryType
  <2>2. task[t].at \notin Owning \cup {"opening"} /\ task[t].object = 0 /\ e.at \in Owning /\ e.at # "opening"
    BY <1>5 DEF Idle, Entry, Owning, Opening
  <2>3. QED
    BY <1>2, <2>1, <2>2
<1>9. /\ opening' \in [Rooms -> 0 .. MaxMade] /\ joining' \in [Rooms -> 0 .. MaxMade]
      /\ \A q \in Rooms : opening'[q] = opening[q] \/ (q = r /\ opening'[r] = n /\ r \in records /\ k # "create")
      /\ \A q \in Rooms : joining'[q] = joining[q] \/ (q = r /\ joining'[r] = n /\ k = "join")
      /\ k = "dispatch" => opening'[r] = n
      /\ k = "join" => opening'[r] = n \/ joining'[r] = n
  <2>1. opening \in [Rooms -> 0 .. MaxMade] /\ joining \in [Rooms -> 0 .. MaxMade]
    BY <1>1 DEF HandleTypes
  <2>2. CASE /\ k \in {"dispatch", "join"} /\ r \in records /\ opening[r] = 0
             /\ opening' = [opening EXCEPT ![r] = made + 1] /\ joining' = joining
    BY <1>2, <2>1, <2>2
  <2>3. CASE k = "create" /\ UNCHANGED <<opening, joining>>
    BY <2>1, <2>3
  <2>4. CASE k = "join" /\ opening' = opening /\ joining' = [joining EXCEPT ![r] = made + 1]
    BY <1>2, <2>1, <2>4
  <2>5. QED
    BY <2>2, <2>3, <2>4 DEF Reservation
\* Nobody opens the room.
<1>10. ASSUME NEW u \in Tasks, task[u].at \in Opening PROVE task[u].room # r
  <2>1. SUFFICES ASSUME task[u].room = r PROVE FALSE
    OBVIOUS
  <2>2. task[u].at \in Owning /\ task[u].object # 0 /\ task[u].kind \in {"dispatch", "create", "join"}
    BY <1>1, <1>10 DEF Owning, InPlace, WellFormed, EntryType
  <2>3. /\ task[u].kind = "dispatch" => opening[r] = task[u].object
        /\ task[u].kind = "join" => opening[r] = task[u].object \/ joining[r] = task[u].object
        /\ task[u].kind = "create" \/ joining[r] = task[u].object => r \notin records
    BY <1>1, <1>10, <2>1, <2>2 DEF Owners
  <2>4. opening[r] # 0 => r \in records
    BY <1>1 DEF Promises
  <2>5. QED
    BY <2>1, <2>2, <2>3, <2>4 DEF Reservation
<1>11. HandleTypes'
  BY <1>1, <1>2, <1>6, <1>7, <1>9, Finite DEF HandleTypes, EvictionFacts
<1>12. InPlace'
  <2>1. \A u \in Tasks : WellFormed(task[u], n)
    <3>1. ASSUME NEW u \in Tasks PROVE WellFormed(task[u], n)
      <4>1. WellFormed(task[u], made) /\ task[u].object <= n
        BY <1>1, <1>2, <1>8 DEF InPlace
      <4>2. QED
        BY <4>1 DEF WellFormed
    <3>2. QED
      BY <3>1
  <2>2. WellFormed(e, n)
    BY <1>2, <1>5 DEF WellFormed
  <2>3. QED
    BY <1>2, <1>6, <2>1, <2>2 DEF InPlace
<1>13. Homes'
  <2>1. \A q \in Rooms : rooms'[q] # n /\ rooms'[q] <= n
    BY <1>2, <1>7, <1>11 DEF HandleTypes
  <2>2. \A u, w \in Tasks : task'[u].object = task'[w].object /\ task'[u].object # 0 => task'[u].room = task'[w].room
    BY <1>1, <1>5, <1>6, <1>8 DEF Homes
  <2>3. \A u \in Tasks, q \in Rooms : rooms'[q] = task'[u].object /\ rooms'[q] # 0 => task'[u].room = q
    BY <1>1, <1>5, <1>6, <1>7, <2>1 DEF Homes
  <2>4. QED
    BY <1>2, <1>7, <2>1, <2>2, <2>3 DEF Homes
<1>14. Promises'
  <2>1. \A u \in Tasks : task[u].at \in Owning => task'[u] = task[u]
    BY <1>6, <1>8
  <2>2. task'[t] = e
    BY <1>6
  <2>3. ASSUME NEW q \in Rooms, opening'[q] # 0
        PROVE  q \in records' /\ \E u \in Tasks : task'[u].at \in Owning /\ task'[u].room = q
                                                  /\ task'[u].object = opening'[q] /\ task'[u].kind # "create"
    <3>1. CASE opening'[q] = opening[q]
      BY <1>1, <2>1, <2>3, <3>1 DEF Promises, Owns
    <3>2. CASE q = r /\ opening'[r] = n /\ r \in records /\ k # "create"
      BY <1>5, <1>8, <2>2, <3>2
    <3>3. QED
      BY <1>9, <3>1, <3>2
  <2>4. ASSUME NEW q \in Rooms, joining'[q] # 0
        PROVE  \E u \in Tasks : task'[u].at \in Owning /\ task'[u].room = q
                                /\ task'[u].object = joining'[q] /\ task'[u].kind = "join"
    <3>1. CASE joining'[q] = joining[q]
      BY <1>1, <2>1, <2>4, <3>1 DEF Promises, Owns
    <3>2. CASE q = r /\ joining'[r] = n /\ k = "join"
      BY <1>5, <1>8, <2>2, <3>2
    <3>3. QED
      BY <1>9, <3>1, <3>2
  <2>5. QED
    BY <2>3, <2>4 DEF Promises, Owns
<1>15. Owners'
  <2>1. ASSUME NEW u \in Tasks, u # t, task[u].at \in Owning
        PROVE  /\ task[u].kind = "dispatch" => opening'[task[u].room] = task[u].object
               /\ task[u].kind = "join" => opening'[task[u].room] = task[u].object \/ joining'[task[u].room] = task[u].object
               /\ task[u].at \in Opening /\ (task[u].kind = "create" \/ joining'[task[u].room] = task[u].object)
                    => task[u].room \notin records
    <3>1. task[u].room \in Rooms /\ task[u].object # n /\ task[u].object # 0
      BY <1>1, <1>8, <2>1 DEF InPlace, WellFormed, Owning, Opening
    <3>2. opening[r] = 0 \/ opening'[r] = opening[r]
      BY <1>9 DEF Reservation
    <3>3. joining[r] = 0 \/ joining'[r] = joining[r]
      BY <1>9 DEF Reservation
    <3>4. QED
      BY <1>1, <1>9, <2>1, <3>1, <3>2, <3>3 DEF Owners
  <2>2. /\ e.kind = "dispatch" => opening'[e.room] = e.object
        /\ e.kind = "join" => opening'[e.room] = e.object \/ joining'[e.room] = e.object
    BY <1>5, <1>9
  <2>3. e.kind = "create" \/ joining'[e.room] = e.object => e.room \notin records
    <3>1. joining[r] # n
      <4>1. joining[r] # 0 => \E u \in Tasks : task[u].object = joining[r]
        BY <1>1 DEF Promises, Owns
      <4>2. QED
        BY <1>2, <1>8, <4>1
    <3>2. QED
      BY <1>5, <3>1 DEF Reservation
  <2>4. QED
    BY <1>6, <2>1, <2>2, <2>3 DEF Owners
<1>16. OneEach'
  BY <1>1, <1>5, <1>6, <1>8, <1>10 DEF OneEach
<1>17. Stages'
  <2>1. handle'[n] = "none"
    BY <1>2, <1>7, <1>1 DEF Unborn, EvictionFacts
  <2>2. rooms'[r] = 0
    BY <1>2, <1>7 DEF EvictionFacts
  <2>3. Stage(e, handle', rooms')
    BY <1>5, <2>1, <2>2 DEF Stage
  <2>4. QED
    BY <1>6, <1>7, <2>3 DEF Stages
<1>18. Kept'
  <2>1. ASSUME NEW h \in Objects, handle'[h] = "opening" PROVE \E u \in Tasks : task'[u].at = "opening" /\ task'[u].object = h
    <3>1. PICK u \in Tasks : task[u].at = "opening" /\ task[u].object = h
      BY <1>1, <1>7, <2>1 DEF Kept
    <3>2. task'[u] = task[u]
      BY <1>6, <1>8, <3>1
    <3>3. QED
      BY <3>1, <3>2
  <2>2. QED
    BY <1>7, <2>1 DEF Kept
<1>19. Leased'
  <2>1. handle'[n] = "none"
    BY <1>2, <1>7, <1>1 DEF Unborn, EvictionFacts
  <2>2. Holds(e, handle') <=> k = "dispatch"
    BY <1>5, <2>1 DEF Holds
  <2>3. ~Holds(task[t], handle)
    BY DEF Holds, Idle, Entry
  <2>4. QED
    BY <1>1, <1>5, <1>7, <2>2, <2>3, LeaseCount DEF HandlesInv
<1>20. leases' \in [Rooms -> Nat]
  BY <1>1 DEF HandleTypes
<1>21. QED
  BY <1>7, <1>11, <1>12, <1>13, <1>14, <1>15, <1>16, <1>17, <1>18, <1>19 DEF HandlesInv

\* A promise settles: nobody else has it.
LEMMA SettledKeeps ==
  ASSUME HandlesInv, NEW t \in Tasks, NEW result, NEW e, Settle(t, result), task[t].at \in Owning,
         task' = [task EXCEPT ![t] = e], WellFormed(e, made), e.at \notin Owning,
         e.object # 0 => e.object = task[t].object /\ e.room = task[t].room,
         UNCHANGED <<rooms, made>>,
         \/ records' = records
         \/ records' = records \cup {task[t].room} /\ task[t].at \in Opening
  PROVE  /\ opening' \in [Rooms -> 0 .. MaxMade] /\ joining' \in [Rooms -> 0 .. MaxMade]
         /\ InPlace' /\ Homes' /\ Promises' /\ Owners' /\ OneEach'
<1> DEFINE r == task[t].room
           h == task[t].object
<1>1. HandleTypes /\ InPlace /\ Homes /\ Promises /\ Owners /\ OneEach
  BY DEF HandlesInv
<1>2. r \in Rooms /\ h # 0 /\ h \in 0 .. MaxMade
  BY <1>1 DEF InPlace, WellFormed, Owning, Opening, EntryType
<1>3. \A u \in Tasks : task'[u] = IF u = t THEN e ELSE task[u]
  BY <1>1, Changed, ZenonT(60)
<1>4. opening' = Forget(opening, r, h) /\ joining' = Forget(joining, r, h)
  BY DEF Settle
<1>5. /\ opening' \in [Rooms -> 0 .. MaxMade] /\ joining' \in [Rooms -> 0 .. MaxMade]
      /\ \A q \in Rooms : opening'[q] = IF q = r /\ opening[r] = h THEN 0 ELSE opening[q]
      /\ \A q \in Rooms : joining'[q] = IF q = r /\ joining[r] = h THEN 0 ELSE joining[q]
  <2>1. opening \in [Rooms -> 0 .. MaxMade] /\ joining \in [Rooms -> 0 .. MaxMade] /\ 0 \in 0 .. MaxMade
    BY <1>1, Finite DEF HandleTypes
  <2> HIDE DEF r, h
  <2>2. QED
    BY <1>2, <1>4, <2>1 DEF Forget
<1>6. \A q \in Rooms : (opening'[q] # 0 => opening'[q] # h) /\ (joining'[q] # 0 => joining'[q] # h)
  <2>1. ASSUME NEW q \in Rooms, NEW u \in Tasks, Owns(u, q, h) PROVE q = r
    BY <1>1, <2>1 DEF Owns, OneEach
  <2>2. ASSUME NEW q \in Rooms, opening[q] = h PROVE q = r
    <3>1. PICK u \in Tasks : Owns(u, q, opening[q])
      BY <1>1, <1>2, <2>2 DEF Promises
    <3>2. QED
      BY <2>1, <2>2, <3>1
  <2>3. ASSUME NEW q \in Rooms, joining[q] = h PROVE q = r
    <3>1. PICK u \in Tasks : Owns(u, q, joining[q])
      BY <1>1, <1>2, <2>3 DEF Promises
    <3>2. QED
      BY <2>1, <2>3, <3>1
  <2>4. QED
    BY <1>5, <2>2, <2>3
<1>7. \A u \in Tasks : u # t /\ task[u].at \in Owning => task'[u] = task[u] /\ task[u].object # h
  BY <1>1, <1>3 DEF OneEach
<1>8. InPlace'
  BY <1>1, <1>3 DEF InPlace
<1>9. Homes'
  BY <1>1, <1>3 DEF Homes
<1>10. Promises'
  <2>1. ASSUME NEW q \in Rooms, opening'[q] # 0
        PROVE  q \in records' /\ \E u \in Tasks : Owns(u, q, opening[q])' /\ task'[u].kind # "create"
    <3>1. opening'[q] = opening[q] /\ opening[q] # h
      BY <1>5, <1>6, <2>1
    <3>2. PICK u \in Tasks : Owns(u, q, opening[q]) /\ task[u].kind # "create"
      BY <1>1, <2>1, <3>1 DEF Promises
    <3>3. task'[u] = task[u]
      BY <1>7, <3>1, <3>2 DEF Owns
    <3>4. q \in records'
      BY <1>1, <2>1, <3>1 DEF Promises
    <3>5. QED
      BY <3>1, <3>2, <3>3, <3>4 DEF Owns
  <2>2. ASSUME NEW q \in Rooms, joining'[q] # 0
        PROVE  \E u \in Tasks : Owns(u, q, joining[q])' /\ task'[u].kind = "join"
    <3>1. joining'[q] = joining[q] /\ joining[q] # h
      BY <1>5, <1>6, <2>2
    <3>2. PICK u \in Tasks : Owns(u, q, joining[q]) /\ task[u].kind = "join"
      BY <1>1, <2>2, <3>1 DEF Promises
    <3>3. task'[u] = task[u]
      BY <1>7, <3>1, <3>2 DEF Owns
    <3>4. QED
      BY <3>1, <3>2, <3>3 DEF Owns
  <2>3. QED
    BY <2>1, <2>2 DEF Promises
<1>11. Owners'
  <2>1. ASSUME NEW u \in Tasks, u # t, task[u].at \in Owning
        PROVE  /\ task[u].kind = "dispatch" => opening'[task[u].room] = task[u].object
               /\ task[u].kind = "join" => opening'[task[u].room] = task[u].object \/ joining'[task[u].room] = task[u].object
               /\ task[u].at \in Opening /\ (task[u].kind = "create" \/ joining'[task[u].room] = task[u].object)
                    => task[u].room \notin records'
    <3>1. task[u].room \in Rooms /\ task[u].object # h /\ task[u].object # 0
      BY <1>1, <1>7, <2>1 DEF InPlace, WellFormed, Owning, Opening
    <3>2. task[u].at \in Opening /\ records' # records => task[u].room # r
      BY <1>1, <2>1 DEF OneEach
    <3>3. QED
      BY <1>1, <1>5, <2>1, <3>1, <3>2 DEF Owners
  <2>2. QED
    BY <1>3, <2>1 DEF Owners
<1>12. OneEach'
  BY <1>1, <1>3 DEF OneEach, Owning
<1>13. QED
  BY <1>5, <1>8, <1>9, <1>10, <1>11, <1>12

LEMMA OpenedKeeps == ASSUME HandlesInv, NEW t \in Tasks, Opened(t) PROVE HandlesInv'
<1> DEFINE r == task[t].room
           h == task[t].object
<1>1. HandleTypes /\ InPlace /\ Homes /\ Promises /\ Owners /\ OneEach /\ Unborn /\ Stages /\ Kept
  BY DEF HandlesInv
<1>2. /\ task[t].at = "opening" /\ task[t].at \in Opening /\ task[t].at \in Owning
      /\ handle' = [handle EXCEPT ![h] = "open"] /\ records' = records \cup {r} /\ Settle(t, "ok")
      /\ UNCHANGED <<rooms, leases, made>>
  BY DEF Opened, Opening, Owning
<1>3. r \in Rooms /\ h # 0 /\ h \in Objects /\ task[t] \in EntryType /\ h <= made /\ made \in Nat
  BY <1>1, <1>2 DEF InPlace, WellFormed, Owning, Opening, EntryType, Objects, HandleTypes
<1>4. handle[h] = "opening" /\ rooms[r] = h
  BY <1>1, <1>2 DEF Stages, Stage
<1> DEFINE using == [task[t] EXCEPT !.at = "using"]
<1>5. /\ using \in EntryType /\ using.at = "using" /\ using.kind = task[t].kind /\ using.room = r /\ using.object = h
      /\ Idle \in EntryType /\ Idle.at = "idle" /\ Idle.kind = "dispatch" /\ Idle.object = 0
  <2>1. "using" \in Places
    BY DEF Places
  <2>2. using \in EntryType /\ using.at = "using" /\ using.kind = task[t].kind /\ using.room = r /\ using.object = h
    BY <1>3, <2>1 DEF EntryType
  <2>3. Idle \in EntryType /\ Idle.at = "idle" /\ Idle.kind = "dispatch" /\ Idle.object = 0
    BY Finite DEF EntryType, Places, Idle, Entry
  <2>4. QED
    BY <2>2, <2>3
\* Only a join has its promise in joining.
<1>6. joining[r] = h => task[t].kind = "join"
  <2>1. ASSUME joining[r] = h PROVE task[t].kind = "join"
    <3>1. PICK u \in Tasks : Owns(u, r, joining[r]) /\ task[u].kind = "join"
      BY <1>1, <1>3, <2>1 DEF Promises
    <3>2. u = t
      BY <1>1, <1>2, <2>1, <3>1 DEF Owns, OneEach
    <3>3. QED
      BY <3>1, <3>2
  <2>2. QED
    BY <2>1
<1>7. PICK e \in {using, Idle} : task' = [task EXCEPT ![t] = e] /\ (e = Idle => task[t].kind = "join")
  <2>1. \/ task' = [task EXCEPT ![t] = Idle] /\ joining[r] = h
        \/ task' = [task EXCEPT ![t] = using]
    BY DEF Opened
  <2>2. using # Idle
    <3> HIDE DEF using
    <3>1. QED
      BY <1>5
  <2>3. QED
    BY <1>6, <2>1, <2>2
<1> HIDE DEF using
<1>8. /\ \A u \in Tasks : task'[u] = IF u = t THEN e ELSE task[u]
      /\ e \in EntryType /\ task' \in [Tasks -> EntryType]
  BY <1>1, <1>5, <1>7, Changed
<1>9. WellFormed(e, made) /\ e.at \notin Owning /\ (e.object # 0 => e.object = h /\ e.room = r)
  BY <1>3, <1>5, <1>7 DEF WellFormed, Owning, Opening
<1>10. /\ opening' \in [Rooms -> 0 .. MaxMade] /\ joining' \in [Rooms -> 0 .. MaxMade]
       /\ InPlace' /\ Homes' /\ Promises' /\ Owners' /\ OneEach'
  BY <1>2, <1>7, <1>9, SettledKeeps
<1>11. \A g \in Objects : handle'[g] = IF g = h THEN "open" ELSE handle[g]
  BY <1>1, <1>2, <1>3 DEF HandleTypes
<1>12. HandleTypes'
  <2>1. handle' \in [Objects -> HandleStates]
    BY <1>1, <1>2 DEF HandleTypes, HandleStates
  <2>2. QED
    BY <1>1, <1>2, <1>3, <1>8, <1>10, <2>1 DEF HandleTypes
<1>13. Unborn'
  <2>1. ASSUME NEW g \in Objects, g > made PROVE handle'[g] = "none"
    <3>1. g # h
      BY <1>3, <2>1 DEF Objects
    <3>2. QED
      BY <1>1, <1>11, <2>1, <3>1 DEF Unborn
  <2>2. QED
    BY <1>2, <2>1 DEF Unborn
<1>14. \A u \in Tasks : task[u].object # 0 => task[u].object \in Objects
  BY <1>1 DEF HandleTypes, EntryType, Objects
<1>15. Stages'
  <2>1. ASSUME NEW u \in Tasks, u # t PROVE Stage(task[u], handle', rooms')
    <3>1. Stage(task[u], handle, rooms) /\ WellFormed(task[u], made)
      BY <1>1 DEF Stages, InPlace
    <3>2. task[u].at \in Owning => task[u].object \in Objects /\ task[u].object # h
      BY <1>1, <1>2, <1>14, <2>1, <3>1 DEF OneEach, WellFormed
    <3>3. task[u].at = "using" => task[u].object \in Objects
      BY <1>14, <3>1 DEF WellFormed
    <3>4. QED
      BY <1>2, <1>11, <3>1, <3>2, <3>3 DEF Stage, Owning, Opening
  <2>2. Stage(e, handle', rooms')
    BY <1>3, <1>5, <1>7, <1>11 DEF Stage
  <2>3. QED
    BY <1>8, <2>1, <2>2 DEF Stages
<1>16. Kept'
  <2>1. ASSUME NEW q \in Rooms, rooms'[q] # 0 PROVE handle'[rooms'[q]] \in {"opening", "open"}
    <3>1. rooms[q] \in Objects
      BY <1>1, <1>2, <2>1 DEF HandleTypes, Objects
    <3>2. QED
      BY <1>1, <1>2, <1>11, <2>1, <3>1 DEF Kept
  <2>2. ASSUME NEW g \in Objects, handle'[g] = "opening" PROVE \E u \in Tasks : task'[u].at = "opening" /\ task'[u].object = g
    <3>1. g # h /\ handle[g] = "opening"
      BY <1>11, <2>2
    <3>2. PICK u \in Tasks : task[u].at = "opening" /\ task[u].object = g
      BY <1>1, <3>1 DEF Kept
    <3>3. task'[u] = task[u]
      BY <1>8, <3>1, <3>2
    <3>4. QED
      BY <3>2, <3>3
  <2>3. ASSUME NEW g \in Objects, handle'[g] \in {"opening", "open"} PROVE \E q \in Rooms : rooms'[q] = g
    BY <1>1, <1>2, <1>3, <1>4, <1>11, <2>3 DEF Kept
  <2>4. QED
    BY <2>1, <2>2, <2>3 DEF Kept
<1>17. Leased'
  <2>1. \/ Holds(e, handle') /\ Holds(task[t], handle) /\ e.room = task[t].room
        \/ ~Holds(e, handle') /\ ~Holds(task[t], handle)
    <3>1. task[t].kind \in {"dispatch", "create", "join"}
      BY <1>3 DEF EntryType
    <3>2. QED
      BY <1>2, <1>5, <1>7, <3>1 DEF Holds
  <2>2. ASSUME NEW u \in Tasks, u # t PROVE Holds(task[u], handle') <=> Holds(task[u], handle)
    <3>1. task[u].at = "aborting" => task[u].object # h /\ task[u].object \in Objects
      BY <1>1, <1>2, <1>14, <2>2 DEF OneEach, InPlace, WellFormed, Owning
    <3>2. QED
      BY <1>11, <3>1 DEF Holds
  <2>3. QED
    BY <1>1, <1>2, <1>7, <2>1, <2>2, LeaseCount DEF HandlesInv
<1>18. QED
  BY <1>10, <1>12, <1>13, <1>15, <1>16, <1>17 DEF HandlesInv

LEMMA AbortKeeps == ASSUME HandlesInv, NEW t \in Tasks, Abort(t) PROVE HandlesInv'
<1> DEFINE r == task[t].room
           h == task[t].object
           failed == [task[t] EXCEPT !.at = "failed"]
<1>1. HandleTypes /\ InPlace /\ Homes /\ Promises /\ Owners /\ OneEach /\ Unborn /\ Stages /\ Kept
  BY DEF HandlesInv
<1>2. /\ task[t].at = "aborting" /\ task[t].at \in Owning /\ Settle(t, "failed")
      /\ UNCHANGED <<rooms, leases, made, handle, records>>
  BY DEF Abort, Owning
<1>3. /\ r \in Rooms /\ h # 0 /\ h \in Objects /\ task[t] \in EntryType /\ h <= made /\ made \in Nat
      /\ task[t].kind \in {"dispatch", "create", "join"}
  BY <1>1, <1>2 DEF InPlace, WellFormed, EntryType, Objects, HandleTypes
<1>4. /\ failed \in EntryType /\ failed.at = "failed" /\ failed.kind = task[t].kind /\ failed.room = r
      /\ failed.object = h
      /\ Idle \in EntryType /\ Idle.at = "idle" /\ Idle.kind = "dispatch" /\ Idle.object = 0
  <2>1. "failed" \in Places
    BY DEF Places
  <2>2. failed \in EntryType /\ failed.at = "failed" /\ failed.kind = task[t].kind /\ failed.room = r /\ failed.object = h
    BY <1>3, <2>1 DEF EntryType
  <2>3. Idle \in EntryType /\ Idle.at = "idle" /\ Idle.kind = "dispatch" /\ Idle.object = 0
    BY Finite DEF EntryType, Places, Idle, Entry
  <2>4. QED
    BY <2>2, <2>3
<1>5. PICK e \in {failed, Idle} :
        /\ task' = [task EXCEPT ![t] = e]
        /\ e = Idle <=> task[t].kind = "join" \/ (task[t].kind = "create" /\ handle[h] = "none")
  <2>1. \/ /\ task' = [task EXCEPT ![t] = Idle]
           /\ task[t].kind = "join" \/ (task[t].kind = "create" /\ handle[h] = "none")
        \/ /\ task' = [task EXCEPT ![t] = failed]
           /\ ~(task[t].kind = "join" \/ (task[t].kind = "create" /\ handle[h] = "none"))
    BY DEF Abort
  <2>2. failed # Idle
    <3> HIDE DEF failed
    <3>1. QED
      BY <1>4
  <2>3. QED
    BY <2>1, <2>2
<1> HIDE DEF failed
<1>6. /\ \A u \in Tasks : task'[u] = IF u = t THEN e ELSE task[u]
      /\ e \in EntryType /\ task' \in [Tasks -> EntryType]
  BY <1>1, <1>4, <1>5, Changed
<1>7. WellFormed(e, made) /\ e.at \notin Owning /\ (e.object # 0 => e.object = h /\ e.room = r)
  BY <1>3, <1>4, <1>5 DEF WellFormed, Owning, Opening
<1>8. /\ opening' \in [Rooms -> 0 .. MaxMade] /\ joining' \in [Rooms -> 0 .. MaxMade]
      /\ InPlace' /\ Homes' /\ Promises' /\ Owners' /\ OneEach'
  BY <1>2, <1>5, <1>7, SettledKeeps
<1>9. HandleTypes'
  BY <1>1, <1>2, <1>6, <1>8 DEF HandleTypes
<1>10. Unborn'
  BY <1>1, <1>2 DEF Unborn
<1>11. Stages'
  BY <1>1, <1>2, <1>4, <1>5, <1>6 DEF Stages, Stage
<1>12. Kept'
  <2>1. ASSUME NEW g \in Objects, handle'[g] = "opening" PROVE \E u \in Tasks : task'[u].at = "opening" /\ task'[u].object = g
    <3>1. PICK u \in Tasks : task[u].at = "opening" /\ task[u].object = g
      BY <1>1, <1>2, <2>1 DEF Kept
    <3>2. task'[u] = task[u]
      BY <1>2, <1>6, <3>1
    <3>3. QED
      BY <3>1, <3>2
  <2>2. QED
    BY <1>1, <1>2, <2>1 DEF Kept
<1>13. Leased'
  <2>1. \/ Holds(e, handle') /\ Holds(task[t], handle) /\ e.room = task[t].room
        \/ ~Holds(e, handle') /\ ~Holds(task[t], handle)
    BY <1>2, <1>3, <1>4, <1>5 DEF Holds
  <2>2. \A u \in Tasks : Holds(task[u], handle') <=> Holds(task[u], handle)
    BY <1>2
  <2>3. QED
    BY <1>1, <1>2, <1>5, <2>1, <2>2, LeaseCount DEF HandlesInv
<1>14. QED
  BY <1>8, <1>9, <1>10, <1>11, <1>12, <1>13 DEF HandlesInv

LEMMA ClosedKeeps == ASSUME HandlesInv, NEW h \in Objects, Closed(h) PROVE HandlesInv'
<1>1. HandleTypes /\ InPlace /\ Homes /\ Promises /\ Owners /\ OneEach /\ Unborn /\ Stages /\ Kept /\ Leased
  BY DEF HandlesInv
<1>2. /\ handle[h] \in {"suspending", "failing"}
      /\ handle' = [handle EXCEPT ![h] = IF @ = "suspending" THEN "suspended" ELSE "failed"]
      /\ UNCHANGED <<rooms, leases, records, opening, joining, made, task>>
  BY DEF Closed
<1>3. /\ \A g \in Objects : handle'[g] = IF g # h THEN handle[g]
                                         ELSE IF handle[h] = "suspending" THEN "suspended" ELSE "failed"
      /\ handle' \in [Objects -> HandleStates]
  BY <1>1, <1>2 DEF HandleTypes, HandleStates
<1>4. HandleTypes' /\ InPlace' /\ Homes' /\ Promises' /\ Owners' /\ OneEach'
  BY <1>1, <1>2, <1>3 DEF HandleTypes, InPlace, Homes, Promises, Owns, Owners, OneEach
<1>5. Unborn'
  BY <1>1, <1>2, <1>3 DEF Unborn
<1>6. \A t \in Tasks : task[t].at \in Owning \cup {"using"} => task[t].object \in Objects
  BY <1>1 DEF InPlace, WellFormed, EntryType, Objects
<1>7. Stages'
  <2>1. ASSUME NEW t \in Tasks PROVE Stage(task[t], handle', rooms)
    BY <1>1, <1>2, <1>3, <1>6 DEF Stages, Stage, Owning, Opening
  <2>2. QED
    BY <1>2, <2>1 DEF Stages
<1>8. Kept'
  <2>1. \A r \in Rooms : rooms[r] # 0 => rooms[r] \in Objects
    BY <1>1 DEF HandleTypes, Objects
  <2>2. QED
    BY <1>1, <1>2, <1>3, <2>1 DEF Kept
<1>9. Leased'
  <2>1. \A t \in Tasks : Holds(task[t], handle') <=> Holds(task[t], handle)
    BY <1>2, <1>3, <1>6 DEF Holds, Owning
  <2>2. \A r \in Rooms : Holders(r)' = Holders(r)
    BY <1>2, <2>1 DEF Holders
  <2>3. QED
    BY <1>1, <1>2, <2>2 DEF Leased
<1>10. QED
  BY <1>4, <1>5, <1>7, <1>8, <1>9 DEF HandlesInv

\* The open fails: its own Room object was registered, and no other.
LEMMA OpenFailsKeeps == ASSUME HandlesInv, NEW t \in Tasks, OpenFails(t) PROVE HandlesInv'
<1> DEFINE r == task[t].room
           h == task[t].object
           e == [task[t] EXCEPT !.at = "aborting"]
<1>1. HandleTypes /\ InPlace /\ Homes /\ Promises /\ Owners /\ OneEach /\ Unborn /\ Stages /\ Kept
  BY DEF HandlesInv
<1>2. /\ task[t].at = "opening" /\ task[t].at \in Opening /\ task[t].at \in Owning
      /\ rooms' = [rooms EXCEPT ![r] = 0] /\ handle' = [handle EXCEPT ![h] = "failing"]
      /\ records' \in {records, records \cup {r}} /\ task' = [task EXCEPT ![t] = e]
      /\ UNCHANGED <<leases, opening, joining, made>>
  BY DEF OpenFails, Opening, Owning
<1>3. /\ r \in Rooms /\ h # 0 /\ h \in Objects /\ task[t] \in EntryType /\ h <= made /\ made \in Nat
      /\ task[t].kind \in {"dispatch", "create", "join"}
  BY <1>1, <1>2 DEF InPlace, WellFormed, EntryType, Objects, HandleTypes
<1>4. handle[h] = "opening" /\ rooms[r] = h
  BY <1>1, <1>2 DEF Stages, Stage
<1>5. e \in EntryType /\ e.at = "aborting" /\ e.kind = task[t].kind /\ e.room = r /\ e.object = h
  <2>1. "aborting" \in Places
    BY DEF Places
  <2>2. QED
    BY <1>3, <2>1 DEF EntryType
<1> HIDE DEF e
<1>6. /\ \A u \in Tasks : task'[u] = IF u = t THEN e ELSE task[u]
      /\ task' \in [Tasks -> EntryType]
  BY <1>1, <1>2, <1>5, Changed
<1>7. \A q \in Rooms : rooms'[q] = IF q = r THEN 0 ELSE rooms[q]
  BY <1>1, <1>2, <1>3 DEF HandleTypes
<1>8. \A g \in Objects : handle'[g] = IF g = h THEN "failing" ELSE handle[g]
  BY <1>1, <1>2, <1>3 DEF HandleTypes
<1>9. \A u \in Tasks : u # t => /\ task'[u] = task[u]
                                /\ task[u].at \in Owning => task[u].object # h
                                /\ task[u].at \in Opening => task[u].room # r
  BY <1>1, <1>2, <1>6 DEF OneEach
<1>10. \A u \in Tasks : /\ task'[u].object = task[u].object /\ task'[u].room = task[u].room
                        /\ task'[u].kind = task[u].kind
                        /\ task'[u].at \in Owning <=> task[u].at \in Owning
                        /\ task'[u].at \in Opening => task[u].at \in Opening /\ u # t
  BY <1>2, <1>5, <1>6 DEF Owning, Opening
<1>11. HandleTypes'
  <2>1. handle' \in [Objects -> HandleStates]
    BY <1>1, <1>2 DEF HandleTypes, HandleStates
  <2>2. rooms' \in [Rooms -> 0 .. MaxMade]
    <3>1. 0 \in 0 .. MaxMade /\ rooms \in [Rooms -> 0 .. MaxMade]
      BY <1>1, Finite DEF HandleTypes
    <3>2. QED
      BY <1>2, <3>1
  <2>3. QED
    BY <1>1, <1>2, <1>3, <1>6, <2>1, <2>2 DEF HandleTypes
<1>12. InPlace'
  <2>1. WellFormed(e, made)
    BY <1>3, <1>5 DEF WellFormed
  <2>2. QED
    BY <1>1, <1>2, <1>6, <2>1 DEF InPlace
<1>13. Homes'
  <2>1. \A q \in Rooms : rooms'[q] # 0 => rooms'[q] = rooms[q]
    BY <1>7
  <2>2. \A q \in Rooms : rooms'[q] <= made'
    BY <1>1, <1>2, <1>3, <1>7 DEF Homes
  <2>3. QED
    BY <1>1, <1>10, <2>1, <2>2 DEF Homes
<1>14. Promises'
  <2>1. ASSUME NEW q \in Rooms
        PROVE  /\ opening'[q] # 0 => q \in records' /\ \E u \in Tasks : Owns(u, q, opening[q])' /\ task'[u].kind # "create"
               /\ joining'[q] # 0 => \E u \in Tasks : Owns(u, q, joining[q])' /\ task'[u].kind = "join"
    BY <1>1, <1>2, <1>10 DEF Promises, Owns
  <2>2. QED
    BY <2>1 DEF Promises
<1>15. Owners'
  <2>1. ASSUME NEW u \in Tasks, task[u].at \in Owning
        PROVE  /\ task[u].kind = "dispatch" => opening'[task[u].room] = task[u].object
               /\ task[u].kind = "join" => opening'[task[u].room] = task[u].object \/ joining'[task[u].room] = task[u].object
    BY <1>1, <1>2, <2>1 DEF Owners
  <2>2. ASSUME NEW u \in Tasks, u # t, task[u].at \in Opening, task[u].kind = "create" \/ joining'[task[u].room] = task[u].object
        PROVE  task[u].room \notin records'
    <3>1. task[u].room \notin records
      BY <1>1, <1>2, <2>2 DEF Owners, Owning
    <3>2. QED
      BY <1>2, <1>9, <2>2, <3>1
  <2>3. QED
    BY <1>10, <2>1, <2>2 DEF Owners
<1>16. OneEach'
  BY <1>1, <1>10 DEF OneEach
<1>17. Unborn'
  <2>1. ASSUME NEW g \in Objects, g > made PROVE handle'[g] = "none"
    <3>1. g # h
      BY <1>3, <2>1 DEF Objects
    <3>2. QED
      BY <1>1, <1>8, <2>1, <3>1 DEF Unborn
  <2>2. QED
    BY <1>2, <2>1 DEF Unborn
<1>18. Stages'
  <2>1. ASSUME NEW u \in Tasks, u # t PROVE Stage(task[u], handle', rooms')
    <3>1. Stage(task[u], handle, rooms) /\ WellFormed(task[u], made) /\ task[u] \in EntryType
      BY <1>1 DEF Stages, InPlace, WellFormed
    <3>2. task[u].at \in Owning \cup {"using"} => task[u].object \in Objects
      BY <3>1 DEF WellFormed, EntryType, Objects
    <3>3. task[u].at \in Opening => task[u].room \in Rooms
      BY <3>1 DEF WellFormed, Opening
    <3>4. QED
      BY <1>7, <1>8, <1>9, <2>1, <3>1, <3>2, <3>3 DEF Stage, Owning, Opening
  <2>2. Stage(e, handle', rooms')
    BY <1>3, <1>5, <1>8 DEF Stage
  <2>3. QED
    BY <1>6, <2>1, <2>2 DEF Stages
<1>19. Kept'
  <2>1. ASSUME NEW q \in Rooms, rooms'[q] # 0 PROVE handle'[rooms'[q]] \in {"opening", "open"}
    <3>1. q # r /\ rooms'[q] = rooms[q] /\ rooms[q] # 0 /\ rooms[q] \in Objects
      BY <1>1, <1>7, <2>1 DEF HandleTypes, Objects
    <3>2. rooms[q] # h
      BY <1>1, <1>3, <1>4, <3>1 DEF Homes
    <3>3. QED
      BY <1>1, <1>8, <3>1, <3>2 DEF Kept
  <2>2. ASSUME NEW g \in Objects, handle'[g] = "opening" PROVE \E u \in Tasks : task'[u].at = "opening" /\ task'[u].object = g
    <3>1. g # h /\ handle[g] = "opening"
      BY <1>8, <2>2
    <3>2. PICK u \in Tasks : task[u].at = "opening" /\ task[u].object = g
      BY <1>1, <3>1 DEF Kept
    <3>3. task'[u] = task[u]
      BY <1>9, <3>1, <3>2
    <3>4. QED
      BY <3>2, <3>3
  <2>3. ASSUME NEW g \in Objects, handle'[g] \in {"opening", "open"} PROVE \E q \in Rooms : rooms'[q] = g
    <3>1. g # h /\ handle[g] \in {"opening", "open"}
      BY <1>8, <2>3
    <3>2. PICK q \in Rooms : rooms[q] = g
      BY <1>1, <3>1 DEF Kept
    <3>3. QED
      BY <1>4, <1>7, <3>1, <3>2
  <2>4. QED
    BY <2>1, <2>2, <2>3 DEF Kept
<1>20. Leased'
  <2>1. \/ Holds(e, handle') /\ Holds(task[t], handle) /\ e.room = task[t].room
        \/ ~Holds(e, handle') /\ ~Holds(task[t], handle)
    <3>1. handle'[h] = "failing"
      BY <1>3, <1>8
    <3>2. QED
      BY <1>2, <1>3, <1>5, <3>1 DEF Holds
  <2>2. ASSUME NEW u \in Tasks, u # t PROVE Holds(task[u], handle') <=> Holds(task[u], handle)
    <3>1. task[u].at = "aborting" => task[u].object # h /\ task[u].object \in Objects
      BY <1>1, <1>9, <2>2 DEF InPlace, WellFormed, Owning, EntryType, Objects
    <3>2. QED
      BY <1>8, <3>1 DEF Holds
  <2>3. QED
    BY <1>1, <1>2, <2>1, <2>2, LeaseCount DEF HandlesInv
<1>21. QED
  BY <1>11, <1>12, <1>13, <1>14, <1>15, <1>16, <1>17, <1>18, <1>19, <1>20 DEF HandlesInv

LEMMA MakeKeeps == ASSUME HandlesInv, NEW t \in Tasks, Make(t) PROVE HandlesInv'
<1> DEFINE r == task[t].room
           h == task[t].object
           e == [task[t] EXCEPT !.at = "opening"]
<1>1. HandleTypes /\ InPlace /\ Homes /\ Promises /\ Owners /\ OneEach /\ Unborn /\ Stages /\ Kept
  BY DEF HandlesInv
<1>2. /\ task[t].at = "ready" /\ task[t].at \in Opening /\ task[t].at \in Owning
      /\ rooms' = [rooms EXCEPT ![r] = h] /\ handle' = [handle EXCEPT ![h] = "opening"]
      /\ task' = [task EXCEPT ![t] = e]
      /\ leases' = IF task[t].kind = "create" THEN [leases EXCEPT ![r] = @ + 1] ELSE leases
      /\ UNCHANGED <<records, opening, joining, made>>
  BY DEF Make, Opening, Owning
<1>3. /\ r \in Rooms /\ h # 0 /\ h \in Objects /\ task[t] \in EntryType /\ h <= made /\ made \in Nat
      /\ task[t].kind \in {"dispatch", "create", "join"} /\ h \in 0 .. MaxMade
  BY <1>1, <1>2 DEF InPlace, WellFormed, EntryType, Objects, HandleTypes, Owning, Opening
<1>4. handle[h] = "none" /\ rooms[r] = 0
  BY <1>1, <1>2 DEF Stages, Stage
<1>5. e \in EntryType /\ e.at = "opening" /\ e.kind = task[t].kind /\ e.room = r /\ e.object = h
  <2>1. "opening" \in Places
    BY DEF Places
  <2>2. QED
    BY <1>3, <2>1 DEF EntryType
<1> HIDE DEF e
<1>6. /\ \A u \in Tasks : task'[u] = IF u = t THEN e ELSE task[u]
      /\ task' \in [Tasks -> EntryType]
  BY <1>1, <1>2, <1>5, Changed
<1>7. \A q \in Rooms : rooms'[q] = IF q = r THEN h ELSE rooms[q]
  BY <1>1, <1>2, <1>3 DEF HandleTypes
<1>8. \A g \in Objects : handle'[g] = IF g = h THEN "opening" ELSE handle[g]
  BY <1>1, <1>2, <1>3 DEF HandleTypes
<1>9. \A u \in Tasks : u # t => /\ task'[u] = task[u]
                                /\ task[u].at \in Owning => task[u].object # h
                                /\ task[u].at \in Opening => task[u].room # r
  BY <1>1, <1>2, <1>6 DEF OneEach
<1>10. \A u \in Tasks : /\ task'[u].object = task[u].object /\ task'[u].room = task[u].room
                        /\ task'[u].kind = task[u].kind
                        /\ task'[u].at \in Owning <=> task[u].at \in Owning
                        /\ task'[u].at \in Opening <=> task[u].at \in Opening
  BY <1>2, <1>5, <1>6 DEF Owning, Opening
<1>11. \A q \in Rooms : rooms[q] # h
  BY <1>1, <1>3, <1>4 DEF Kept
<1>12. HandleTypes'
  <2>1. handle' \in [Objects -> HandleStates]
    BY <1>1, <1>2 DEF HandleTypes, HandleStates
  <2>2. rooms' \in [Rooms -> 0 .. MaxMade]
    BY <1>1, <1>2, <1>3 DEF HandleTypes
  <2>3. leases' \in [Rooms -> Nat]
    BY <1>1, <1>2, <1>3 DEF HandleTypes
  <2>4. QED
    BY <1>1, <1>2, <1>6, <2>1, <2>2, <2>3 DEF HandleTypes
<1>13. InPlace'
  <2>1. WellFormed(e, made)
    BY <1>3, <1>5 DEF WellFormed
  <2>2. QED
    BY <1>1, <1>2, <1>6, <2>1 DEF InPlace
<1>14. Homes'
  <2>1. \A u, w \in Tasks : task'[u].object = task'[w].object /\ task'[u].object # 0 => task'[u].room = task'[w].room
    BY <1>1, <1>10 DEF Homes
  <2>2. \A u \in Tasks, q \in Rooms : rooms'[q] = task'[u].object /\ rooms'[q] # 0 => task'[u].room = q
    BY <1>1, <1>7, <1>10 DEF Homes
  <2>3. \A q, v \in Rooms : rooms'[q] = rooms'[v] /\ rooms'[q] # 0 => q = v
    BY <1>1, <1>7, <1>11 DEF Homes
  <2>4. \A q \in Rooms : rooms'[q] <= made'
    BY <1>1, <1>2, <1>3, <1>7 DEF Homes
  <2>5. QED
    BY <2>1, <2>2, <2>3, <2>4 DEF Homes
<1>15. Promises'
  <2>1. ASSUME NEW q \in Rooms
        PROVE  /\ opening'[q] # 0 => q \in records' /\ \E u \in Tasks : Owns(u, q, opening[q])' /\ task'[u].kind # "create"
               /\ joining'[q] # 0 => \E u \in Tasks : Owns(u, q, joining[q])' /\ task'[u].kind = "join"
    BY <1>1, <1>2, <1>10 DEF Promises, Owns
  <2>2. QED
    BY <2>1 DEF Promises
<1>16. Owners'
  BY <1>1, <1>2, <1>10 DEF Owners
<1>17. OneEach'
  BY <1>1, <1>10 DEF OneEach
<1>18. Unborn'
  <2>1. ASSUME NEW g \in Objects, g > made PROVE handle'[g] = "none"
    <3>1. g # h
      BY <1>3, <2>1 DEF Objects
    <3>2. QED
      BY <1>1, <1>8, <2>1, <3>1 DEF Unborn
  <2>2. QED
    BY <1>2, <2>1 DEF Unborn
<1>19. Stages'
  <2>1. ASSUME NEW u \in Tasks, u # t PROVE Stage(task[u], handle', rooms')
    <3>1. Stage(task[u], handle, rooms) /\ WellFormed(task[u], made) /\ task[u] \in EntryType
      BY <1>1 DEF Stages, InPlace, WellFormed
    <3>2. task[u].at \in Owning \cup {"using"} => task[u].object \in Objects
      BY <3>1 DEF WellFormed, EntryType, Objects
    <3>3. task[u].at \in Opening => task[u].room \in Rooms
      BY <3>1 DEF WellFormed, Opening
    <3>4. QED
      BY <1>7, <1>8, <1>9, <2>1, <3>1, <3>2, <3>3 DEF Stage, Owning, Opening
  <2>2. Stage(e, handle', rooms')
    BY <1>3, <1>5, <1>7, <1>8 DEF Stage
  <2>3. QED
    BY <1>6, <2>1, <2>2 DEF Stages
<1>20. Kept'
  <2>1. ASSUME NEW q \in Rooms, rooms'[q] # 0 PROVE handle'[rooms'[q]] \in {"opening", "open"}
    <3>1. CASE q = r
      BY <1>3, <1>7, <1>8, <3>1
    <3>2. CASE q # r
      <4>1. rooms'[q] = rooms[q] /\ rooms[q] \in Objects /\ rooms[q] # 0
        BY <1>1, <1>7, <2>1, <3>2 DEF HandleTypes, Objects
      <4>2. QED
        BY <1>1, <1>8, <1>11, <4>1 DEF Kept
    <3>3. QED
      BY <3>1, <3>2
  <2>2. ASSUME NEW g \in Objects, handle'[g] = "opening" PROVE \E u \in Tasks : task'[u].at = "opening" /\ task'[u].object = g
    <3>1. CASE g = h
      BY <1>5, <1>6, <3>1
    <3>2. CASE g # h
      <4>1. PICK u \in Tasks : task[u].at = "opening" /\ task[u].object = g
        BY <1>1, <1>8, <2>2, <3>2 DEF Kept
      <4>2. task'[u] = task[u]
        BY <1>6, <3>2, <4>1
      <4>3. QED
        BY <4>1, <4>2
    <3>3. QED
      BY <3>1, <3>2
  <2>3. ASSUME NEW g \in Objects, handle'[g] \in {"opening", "open"} PROVE \E q \in Rooms : rooms'[q] = g
    <3>1. CASE g = h
      BY <1>3, <1>7, <3>1
    <3>2. CASE g # h
      <4>1. PICK q \in Rooms : rooms[q] = g
        BY <1>1, <1>8, <2>3, <3>2 DEF Kept
      <4>2. g # 0
        BY DEF Objects
      <4>3. rooms'[q] = g
        BY <1>4, <1>7, <4>1, <4>2
      <4>4. QED
        BY <4>3
    <3>3. QED
      BY <3>1, <3>2
  <2>4. QED
    BY <2>1, <2>2, <2>3 DEF Kept
<1>21. Leased'
  <2>1. handle'[h] = "opening"
    BY <1>3, <1>8
  <2>2. \/ /\ Holds(e, handle') /\ Holds(task[t], handle) /\ e.room = task[t].room /\ leases' = leases
        \/ /\ ~Holds(e, handle') /\ ~Holds(task[t], handle) /\ leases' = leases
        \/ /\ Holds(e, handle') /\ ~Holds(task[t], handle) /\ e.room \in Rooms
           /\ leases' = [leases EXCEPT ![e.room] = @ + 1]
    BY <1>2, <1>3, <1>5, <2>1 DEF Holds
  <2>3. ASSUME NEW u \in Tasks, u # t PROVE Holds(task[u], handle') <=> Holds(task[u], handle)
    <3>1. task[u].at = "aborting" => task[u].object # h /\ task[u].object \in Objects
      BY <1>1, <1>9, <2>3 DEF InPlace, WellFormed, Owning, EntryType, Objects
    <3>2. QED
      BY <1>8, <3>1 DEF Holds
  <2>4. QED
    BY <1>1, <1>2, <2>2, <2>3, LeaseCount DEF HandlesInv
<1>22. QED
  BY <1>12, <1>13, <1>14, <1>15, <1>16, <1>17, <1>18, <1>19, <1>20, <1>21 DEF HandlesInv

-----------------------------------------------------------------------------
(* The theorems. *)

LEMMA ArriveKeeps == ASSUME HandlesInv, NEW t \in Tasks, NEW r \in Rooms, Arrive(t, r) PROVE HandlesInv'
<1>1. HandleTypes
  BY DEF HandlesInv
<1>2. ASSUME NEW k \in {"dispatch", "join"}, task[t] = Idle, r \in records, OpenStored(t, k, r), records' = records,
             leases' = IF k = "dispatch" THEN [leases EXCEPT ![r] = @ + 1] ELSE leases
      PROVE  HandlesInv'
  <2>1. CASE Share(t, k, r, opening[r], "awaiting")
    BY <1>2, <2>1, FindKeeps
  <2>2. CASE opening[r] = 0 /\ Reserve(t, k, r) /\ opening' = [opening EXCEPT ![r] = made'] /\ joining' = joining
    <3>1. made' = made + 1
      BY <2>2 DEF Reserve
    <3>2. Reservation(t, k, r)
      BY <1>2, <2>2, <3>1 DEF Reservation
    <3>3. QED
      BY <1>2, <2>2, <3>2, ReserveKeeps
  <2>3. QED
    BY <1>2, <2>1, <2>2 DEF OpenStored, PendingOpen
<1>3. CASE Dispatch(t, r)
  <2>1. task[t] = Idle /\ leases' = [leases EXCEPT ![r] = @ + 1] /\ records' = records
    BY <1>3 DEF Dispatch
  <2>2. CASE Find(t, "dispatch", r)
    BY <2>1, <2>2, FindKeeps
  <2>3. CASE r \in records /\ OpenStored(t, "dispatch", r)
    BY <1>2, <2>1, <2>3
  <2>4. CASE /\ task' = [task EXCEPT ![t] = Entry("failed", "dispatch", r, 0)]
             /\ UNCHANGED <<rooms, recency, opening, joining, made, handle>>
    BY <2>1, <2>4, FindKeeps
  <2>5. QED
    BY <1>3, <2>2, <2>3, <2>4 DEF Dispatch
<1>4. CASE Create(t, r)
  <2>1. /\ task[t] = Idle /\ r \notin records /\ \A u \in Tasks : task[u].room # r
        /\ Reserve(t, "create", r) /\ UNCHANGED <<leases, records, opening, joining>>
    BY <1>4 DEF Create
  <2>2. Reservation(t, "create", r)
    BY <2>1 DEF Reservation
  <2>3. QED
    BY <2>1, <2>2, ReserveKeeps
<1>5. CASE Join(t, r)
  <2>1. /\ task[t] = Idle /\ \A u \in Tasks : task[u].kind = "create" => task[u].room # r
        /\ UNCHANGED <<leases, records>>
    BY <1>5 DEF Join
  <2>2. CASE Find(t, "join", r)
    BY <2>1, <2>2, FindKeeps
  <2>3. CASE r \in records /\ OpenStored(t, "join", r)
    BY <1>2, <2>1, <2>3
  <2>4. CASE r \notin records /\ Share(t, "join", r, joining[r], "sharing")
    BY <2>1, <2>4, FindKeeps
  <2>5. CASE /\ r \notin records /\ joining[r] = 0 /\ Reserve(t, "join", r)
             /\ joining' = [joining EXCEPT ![r] = made'] /\ opening' = opening
    <3>1. made' = made + 1
      BY <2>5 DEF Reserve
    <3>2. Reservation(t, "join", r)
      BY <2>1, <2>5, <3>1 DEF Reservation
    <3>3. QED
      BY <2>1, <2>5, <3>2, ReserveKeeps
  <2>6. QED
    BY <1>5, <2>2, <2>3, <2>4, <2>5 DEF Join
<1>6. QED
  BY <1>3, <1>4, <1>5 DEF Arrive

LEMMA HandlesStay == HandlesInv /\ [HandlesNext]_handlesVars => HandlesInv'
<1> SUFFICES ASSUME HandlesInv, [HandlesNext]_handlesVars PROVE HandlesInv'
  OBVIOUS
<1>1. CASE UNCHANGED handlesVars
  BY <1>1 DEF handlesVars, HandlesInv, HandleTypes, InPlace, Homes, Promises, Owns, Owners, OneEach, Unborn, Stages,
              Kept, Leased, Holders
<1>2. ASSUME NEW t \in Tasks, Succeed(t) \/ Finish(t) PROVE HandlesInv'
  <2>1. /\ task[t].at \in {"using", "failed"} /\ task[t].kind # "join" /\ leases' = WithoutLease(task[t].room)
        /\ UNCHANGED <<records, opening, joining, made>>
    BY <1>2 DEF Succeed, Finish
  <2>2. \E order \in {recency, Touched(task[t].room)} : Trim(t, task[t], order)
    BY <1>2 DEF Succeed, Finish
  <2>3. QED
    BY <2>1, <2>2, TrimKeeps
<1>3. ASSUME NEW t \in Tasks, Trimmed(t) PROVE HandlesInv'
  <2>1. /\ task[t].at = "trimming" /\ Trim(t, task[t], recency) /\ UNCHANGED <<leases, records, opening, joining, made>>
    BY <1>3 DEF Trimmed
  <2>2. task[t].kind # "join"
    BY <2>1 DEF HandlesInv, InPlace, WellFormed
  <2>3. QED
    BY <2>1, <2>2, TrimKeeps
<1>4. ASSUME NEW t \in Tasks, Advance(t) PROVE HandlesInv'
  BY <1>2, <1>3, <1>4, EvictedKeeps, MakeKeeps, OpenedKeeps, OpenFailsKeeps, AbortKeeps, ResumeKeeps, FinishJoinKeeps
     DEF Advance
<1>5. QED
  BY <1>1, <1>4, ArriveKeeps, ClosedKeeps DEF HandlesNext

\* The inductive invariant of the handles.
THEOREM HandlesAreSound == HandlesSpec => []HandlesInv
BY InitHandles, HandlesStay, PTL DEF HandlesSpec

LEMMA AtMostOne ==
  ASSUME NEW S, \A x, y \in S : x = y
  PROVE  Cardinality(S) <= 1
<1>1. CASE S = {}
  BY <1>1, FS_EmptySet
<1>2. CASE S # {}
  <2>1. PICK x : x \in S
    BY <1>2
  <2>2. S = {x}
    BY <2>1
  <2>3. QED
    BY <2>2, FS_Singleton
<1>3. QED
  BY <1>1, <1>2

\* A leased room is not suspended under the request that uses it, a room is
\* opened once at a time and no open Room object is lost, for any number of
\* rooms, requests and handles.
THEOREM HandlesStayKept == HandlesSpec => []HandlesAreKept
<1>1. HandlesInv => HandlesAreKept
  <2> SUFFICES ASSUME HandlesInv PROVE HandlesAreKept
    OBVIOUS
  <2>1. LeasedIsNotSuspended
    BY DEF HandlesInv, Stages, Stage, LeasedIsNotSuspended
  <2>2. ASSUME NEW r \in Rooms
        PROVE  Cardinality({t \in Tasks : task[t].room = r /\ task[t].at \in {"ready", "opening"}}) <= 1
    <3> DEFINE S == {t \in Tasks : task[t].room = r /\ task[t].at \in {"ready", "opening"}}
    <3>1. \A t, u \in S : t = u
      BY DEF HandlesInv, OneEach, Opening
    <3> HIDE DEF S
    <3>2. Cardinality(S) <= 1
      BY <3>1, AtMostOne
    <3>3. QED
      BY <3>2 DEF S
  <2>3. \A h \in Objects : handle[h] \in {"opening", "open"} => \E r \in Rooms : rooms[r] = h
    BY DEF HandlesInv, Kept
  <2>4. QED
    BY <2>1, <2>2, <2>3 DEF HandlesAreKept, OneObjectPerRoom
<1>2. QED
  BY <1>1, HandlesAreSound, PTL

\* When nothing else is in progress, nothing else is leased or being opened, so
\* that a request that trims finds every other room idle.
LEMMA AloneTrims ==
  ASSUME HandlesInv, NEW t \in Tasks, NEW order, Trim(t, task[t], order), task'[t] = Idle, task[t].at # "idle",
         \A u \in Tasks : u # t => task[u] = Idle
  PROVE  Cardinality(Registered') <= MaxHandles
<1>1. HandleTypes /\ InPlace /\ Promises /\ Leased
  BY DEF HandlesInv
<1> DEFINE r == task[t].room
<1>2. r \in Rooms /\ task[t] \in EntryType
  BY <1>1 DEF InPlace, WellFormed
<1>3. Idle.at = "idle" /\ Idle.kind = "dispatch" /\ Idle.room = NoRoom
  BY DEF Idle, Entry
<1>4. IsFiniteSet(Registered) /\ Cardinality(Registered) \in Nat
  BY Finite, FS_Subset, FS_CardinalityType DEF Registered
<1>5. rooms' = rooms /\ (~TooMany \/ Evictable(r) = {})
  <2>1. ASSUME Suspend(t, task[t], order, "trimming") PROVE FALSE
    <3>1. PICK v \in Victims(r) : task' = [task EXCEPT ![t] = [task[t] EXCEPT !.at = "trimming", !.victim = rooms[v]]]
      BY <2>1 DEF Suspend
    <3>2. task'[t].at = "trimming"
      BY <1>1, <1>2, <3>1 DEF HandleTypes, EntryType
    <3>3. QED
      BY <1>3, <3>2
  <2>2. QED
    BY <2>1 DEF Trim
<1>6. Registered' = Registered
  BY <1>5 DEF Registered
<1>7. CASE ~TooMany
  BY <1>4, <1>6, <1>7, Finite DEF TooMany
<1>8. CASE Evictable(r) = {}
  <2>1. ASSUME NEW v \in Rooms, v # r PROVE leases[v] = 0 /\ opening[v] = 0 /\ joining[v] = 0
    <3>1. \A u \in Tasks : task[u].room # v
      BY <1>3, <2>1, Finite
    <3>2. Holders(v) = {}
      BY <3>1 DEF Holders
    <3>3. leases[v] = 0
      BY <1>1, <3>2, FS_EmptySet DEF Leased
    <3>4. opening[v] = 0 /\ joining[v] = 0
      BY <1>1, <3>1 DEF Promises, Owns
    <3>5. QED
      BY <3>3, <3>4
  <2>2. Registered \subseteq {r}
    BY <1>8, <2>1 DEF Evictable, Registered
  <2>3. Cardinality(Registered) <= 1
    BY <2>2, AtMostOne
  <2>4. QED
    BY <1>4, <1>6, <2>3, Finite
<1>9. QED
  BY <1>5, <1>7, <1>8

\* The last request that ends with a trim ends with the bound restored.
THEOREM BoundIsRestored == HandlesSpec => EndsWithinBound
<1>1. HandlesInv /\ [HandlesNext]_handlesVars =>
        [\A t \in Tasks : /\ task[t].kind # "join" /\ task[t].at \notin {"idle", "aborting"}
                          /\ \A other \in Tasks : task'[other] = Idle
                          => Cardinality(Registered') <= MaxHandles]_handlesVars
  <2> SUFFICES ASSUME HandlesInv, HandlesNext, NEW t \in Tasks, task[t].kind # "join", task[t].at \notin {"idle", "aborting"},
                      \A other \in Tasks : task'[other] = Idle
               PROVE  Cardinality(Registered') <= MaxHandles
    OBVIOUS
  <2>1. HandleTypes /\ InPlace /\ Promises /\ OneEach
    BY DEF HandlesInv
  <2>2. Idle.at = "idle" /\ task[t] # Idle /\ task'[t] = Idle
    BY DEF Idle, Entry
  \* The step is one of the request itself.
  <2>3. ASSUME NEW u \in Tasks, u # t, NEW e, task' = [task EXCEPT ![u] = e] PROVE FALSE
    BY <2>1, <2>2, <2>3, Changed
  <2>4. ASSUME NEW u \in Tasks, NEW e, task' = [task EXCEPT ![u] = e]
        PROVE  u = t /\ e = Idle /\ \A w \in Tasks : w # t => task[w] = Idle
    <3>1. u = t
      BY <2>3, <2>4
    <3>2. task \in [Tasks -> EntryType]
      BY <2>1 DEF HandleTypes
    <3>3. task'[t] = e /\ \A w \in Tasks : w # t => task'[w] = task[w]
      BY <2>4, <3>1, <3>2
    <3>4. QED
      BY <3>1, <3>3
  <2>5. ASSUME NEW u \in Tasks, Advance(u) \/ \E r \in Rooms : Arrive(u, r) PROVE \E e : task' = [task EXCEPT ![u] = e]
    BY <2>5, ZenonT(60)
    DEF Advance, Arrive, Evicted, Make, PairingFails, Opened, OpenFails, Abort, Resume, Succeed, Finish,
                FinishJoin, Trimmed, Dispatch, Create, Join, OpenStored, Find, Share, Reserve, Capacity, Suspend,
                Proceed, Trim
  <2>6. ASSUME NEW r \in Rooms, Arrive(t, r) PROVE FALSE
    BY <2>2, <2>6 DEF Arrive, Dispatch, Create, Join
  <2>7. ~ \E h \in Objects : Closed(h)
    BY <2>2 DEF Closed
  <2>8. Advance(t) /\ \A w \in Tasks : w # t => task[w] = Idle
    <3>1. PICK u \in Tasks : Advance(u) \/ \E r \in Rooms : Arrive(u, r)
      BY <2>7 DEF HandlesNext
    <3>2. u = t /\ \A w \in Tasks : w # t => task[w] = Idle
      BY <2>4, <2>5, <3>1
    <3>3. QED
      BY <2>6, <3>1, <3>2
  <2>9. task[t] \in EntryType /\ WellFormed(task[t], made)
    BY <2>1 DEF InPlace, WellFormed
  <2>10. CASE Succeed(t) \/ Finish(t) \/ Trimmed(t)
    <3>1. \E order \in {recency, Touched(task[t].room)} : Trim(t, task[t], order)
      BY <2>10 DEF Succeed, Finish, Trimmed
    <3>2. QED
      BY <2>2, <2>8, <3>1, AloneTrims
  <2>11. CASE Evicted(t) \/ Make(t) \/ PairingFails(t) \/ OpenFails(t)
    <3>1. \E e \in EntryType : task' = [task EXCEPT ![t] = e] /\ e.at # "idle"
      <4>1. CASE Evicted(t)
        <5>1. task[t].room \in Rooms
          BY <2>2, <2>9 DEF WellFormed
        <5>2. QED
          BY <2>9, <4>1, <5>1, CapacityMoves DEF Evicted
      <4>2. CASE Make(t) \/ PairingFails(t) \/ OpenFails(t)
        <5>1. PICK p \in {"opening", "aborting"} : task' = [task EXCEPT ![t].at = p]
          BY <4>2 DEF Make, PairingFails, OpenFails
        <5>2. [task[t] EXCEPT !.at = p] \in EntryType /\ [task[t] EXCEPT !.at = p].at # "idle"
          BY <2>9 DEF EntryType, Places
        <5>3. QED
          BY <5>1, <5>2
      <4>3. QED
        BY <2>11, <4>1, <4>2
    <3>2. QED
      BY <2>2, <2>4, <3>1
  <2>12. CASE Opened(t)
    <3>1. task[t].at = "opening" /\ joining[task[t].room] = task[t].object
      <4>1. [task[t] EXCEPT !.at = "using"].at = "using"
        BY <2>9 DEF EntryType
      <4>2. QED
        BY <2>2, <2>4, <2>12, <4>1 DEF Opened
    <3>2. task[t].object # 0 /\ task[t].room \in Rooms /\ task[t].at \in Owning
      BY <2>9, <3>1 DEF WellFormed, Owning, Opening
    <3>3. PICK u \in Tasks : Owns(u, task[t].room, joining[task[t].room]) /\ task[u].kind = "join"
      BY <2>1, <3>1, <3>2 DEF Promises
    <3>4. u = t
      BY <2>1, <3>1, <3>2, <3>3 DEF Owns, OneEach
    <3>5. QED
      BY <3>3, <3>4
  <2>13. CASE Resume(t)
    <3>1. task[t].kind = "dispatch"
      BY <2>9, <2>13 DEF Resume, WellFormed, EntryType
    <3>2. \E e : task' = [task EXCEPT ![t] = e] /\ e.at # "idle"
      <4>1. \A f : [task[t] EXCEPT !.at = "using", !.object = f].at = "using"
        BY <2>9 DEF EntryType
      <4>2. [task[t] EXCEPT !.at = "failed"].at = "failed"
        BY <2>9 DEF EntryType
      <4>3. QED
        BY <2>13, <3>1, <4>1, <4>2 DEF Resume
    <3>3. QED
      BY <2>2, <2>4, <3>2
  <2>14. QED
    BY <2>8, <2>10, <2>11, <2>12, <2>13 DEF Advance, Abort, FinishJoin
<1>2. QED
  BY <1>1, HandlesAreSound, PTL DEF HandlesSpec, EndsWithinBound
-----------------------------------------------------------------------------
(* The order of use has every room once, and no more requests hold a lease  *)
(* on a room than there are.                                                *)

Once(order) == order \in Seq(Rooms) /\ IsInjective(order)

\* A room that leaves the order is gone from it, and the others stay as they were.
LEMMA LeavesOrder ==
  ASSUME NEW order, Once(order), NEW r
  PROVE  Once(RemoveFirst(order, r)) /\ \A i \in DOMAIN RemoveFirst(order, r) : RemoveFirst(order, r)[i] # r
<1> DEFINE rest == RemoveFirst(order, r)
<1>1. /\ DOMAIN order = 1 .. Len(order) /\ Len(order) \in Nat
      /\ \A i \in 1 .. Len(order) : order[i] \in Rooms
      /\ \A i, j \in 1 .. Len(order) : order[i] = order[j] => i = j
  BY LenProperties DEF Once, IsInjective
<1>2. CASE \A i \in 1 .. Len(order) : order[i] # r
  <2>1. rest = order
    BY <1>2 DEF RemoveFirst
  <2>2. QED
    BY <1>1, <1>2, <2>1
<1>3. CASE \E i \in 1 .. Len(order) : order[i] = r
  <2>1. PICK i \in 1 .. Len(order) : order[i] = r
    BY <1>3
  <2>2. {k \in 1 .. Len(order) : order[k] = r} = {i}
    BY <1>1, <2>1
  <2>3. Min({i}) = i
    BY <1>1, <2>1 DEF Min
  <2>4. rest = RemoveAt(order, i)
    BY <1>3, <2>2, <2>3 DEF RemoveFirst, SelectInSeq
  <2> DEFINE a == SubSeq(order, 1, i - 1)  b == SubSeq(order, i + 1, Len(order))
  <2>5. a \in Seq(Rooms) /\ Len(a) = i - 1 /\ \A k \in 1 .. i - 1 : a[k] = order[k]
    <3>1. /\ a \in Seq(Rooms) /\ Len(a) = IF 1 <= i - 1 THEN (i - 1) - 1 + 1 ELSE 0
          /\ \A k \in 1 .. (i - 1) - 1 + 1 : a[k] = order[1 + k - 1]
      <4>1. 1 \in Int /\ i - 1 \in Int /\ \A k \in 1 .. i - 1 : order[k] \in Rooms
        BY <1>1, <2>1
      <4>2. QED
        BY <4>1, SubSeqProperties
    <3> HIDE DEF a
    <3>2. Len(a) = i - 1
      BY <1>1, <2>1, <3>1
    <3>3. ASSUME NEW k \in 1 .. i - 1 PROVE a[k] = order[k]
      <4>1. k \in 1 .. (i - 1) - 1 + 1 /\ 1 + k - 1 = k
        BY <1>1, <2>1
      <4>2. a[k] = order[1 + k - 1]
        BY <3>1, <4>1
      <4>3. QED
        BY <4>1, <4>2
    <3>4. QED
      BY <3>1, <3>2, <3>3
  <2>6. /\ b \in Seq(Rooms) /\ Len(b) = Len(order) - i
        /\ \A k \in 1 .. Len(order) - i : b[k] = order[i + k]
    <3>1. /\ b \in Seq(Rooms)
          /\ Len(b) = IF i + 1 <= Len(order) THEN Len(order) - (i + 1) + 1 ELSE 0
          /\ \A k \in 1 .. Len(order) - (i + 1) + 1 : b[k] = order[(i + 1) + k - 1]
      <4>1. i + 1 \in Int /\ Len(order) \in Int /\ \A k \in i + 1 .. Len(order) : order[k] \in Rooms
        BY <1>1, <2>1
      <4>2. QED
        BY <4>1, SubSeqProperties
    <3> HIDE DEF b
    <3>2. Len(b) = Len(order) - i
      <4>1. Len(b) = IF i + 1 <= Len(order) THEN Len(order) - (i + 1) + 1 ELSE 0
        BY <3>1
      <4>2. i \in Nat /\ i <= Len(order) /\ Len(order) \in Nat
        BY <1>1, <2>1
      <4>3. QED
        BY <4>1, <4>2
    <3>3. ASSUME NEW k \in 1 .. Len(order) - i PROVE b[k] = order[i + k]
      <4>1. k \in 1 .. Len(order) - (i + 1) + 1 /\ (i + 1) + k - 1 = i + k
        BY <1>1, <2>1
      <4>2. b[k] = order[(i + 1) + k - 1]
        BY <3>1, <4>1
      <4>3. QED
        BY <4>1, <4>2
    <3>4. QED
      BY <3>1, <3>2, <3>3
  <2>7. rest = a \o b
    BY <2>4 DEF RemoveAt
  <2> HIDE DEF a, b, rest
  <2>8. /\ rest \in Seq(Rooms) /\ Len(rest) = Len(a) + Len(b)
        /\ \A k \in 1 .. Len(a) + Len(b) : rest[k] = IF k <= Len(a) THEN a[k] ELSE b[k - Len(a)]
    BY <2>5, <2>6, <2>7, ConcatProperties
  <2>9. \A k \in 1 .. Len(order) - 1 : rest[k] = IF k <= i - 1 THEN order[k] ELSE order[k + 1]
    <3>1. SUFFICES ASSUME NEW k \in 1 .. Len(order) - 1
                   PROVE  rest[k] = IF k <= i - 1 THEN order[k] ELSE order[k + 1]
      OBVIOUS
    <3>2. rest[k] = IF k <= i - 1 THEN a[k] ELSE b[k - (i - 1)]
      BY <1>1, <2>1, <2>5, <2>6, <2>8
    <3>3. CASE k <= i - 1
      BY <2>5, <3>2, <3>3
    <3>4. CASE ~(k <= i - 1)
      <4>1. k - (i - 1) \in 1 .. Len(order) - i /\ i + (k - (i - 1)) = k + 1
        BY <1>1, <2>1, <3>4
      <4>2. b[k - (i - 1)] = order[k + 1]
        BY <2>6, <4>1
      <4>3. QED
        BY <3>2, <3>4, <4>2
    <3>5. QED
      BY <3>3, <3>4
  <2>10. DOMAIN rest = 1 .. Len(order) - 1
    BY <1>1, <2>1, <2>5, <2>6, <2>8, LenProperties
  <2>11. \A j, k \in 1 .. Len(order) - 1 : rest[j] = rest[k] => j = k
    <3>1. SUFFICES ASSUME NEW j \in 1 .. Len(order) - 1, NEW k \in 1 .. Len(order) - 1, rest[j] = rest[k]
                   PROVE  j = k
      OBVIOUS
    <3>2. PICK x \in 1 .. Len(order) : rest[j] = order[x] /\ x = IF j <= i - 1 THEN j ELSE j + 1
      BY <1>1, <2>1, <2>9
    <3>3. PICK y \in 1 .. Len(order) : rest[k] = order[y] /\ y = IF k <= i - 1 THEN k ELSE k + 1
      BY <1>1, <2>1, <2>9
    <3>4. x = y
      BY <1>1, <3>1, <3>2, <3>3
    <3>5. QED
      BY <1>1, <2>1, <3>2, <3>3, <3>4
  <2>12. \A k \in 1 .. Len(order) - 1 : rest[k] # r
    <3>1. SUFFICES ASSUME NEW k \in 1 .. Len(order) - 1, rest[k] = r PROVE FALSE
      OBVIOUS
    <3>2. PICK x \in 1 .. Len(order) : rest[k] = order[x] /\ x # i
      BY <1>1, <2>1, <2>9
    <3>3. QED
      BY <1>1, <2>1, <3>1, <3>2
  <2>13. Once(rest) /\ \A k \in DOMAIN rest : rest[k] # r
    BY <2>8, <2>10, <2>11, <2>12 DEF Once, IsInjective
  <2>14. QED
    BY <2>13 DEF rest
<1>4. QED
  BY <1>2, <1>3

\* A room that is touched moves to the end.
LEMMA MovesToEnd == ASSUME Once(recency), NEW r \in Rooms PROVE Once(Touched(r))
<1> DEFINE rest == RemoveFirst(recency, r)
<1>1. Once(rest) /\ \A i \in DOMAIN rest : rest[i] # r
  BY LeavesOrder
<1> HIDE DEF rest
<1>2. rest \in Seq(Rooms) /\ DOMAIN rest = 1 .. Len(rest) /\ Len(rest) \in Nat
  BY <1>1, LenProperties DEF Once
<1> DEFINE more == Append(rest, r)
<1>3. /\ more \in Seq(Rooms) /\ Len(more) = Len(rest) + 1 /\ more[Len(rest) + 1] = r
      /\ \A i \in 1 .. Len(rest) : more[i] = rest[i]
  BY <1>2, AppendProperties
<1>4. DOMAIN more = 1 .. Len(rest) + 1
  BY <1>3, LenProperties
<1> HIDE DEF more
<1>5. \A i, j \in 1 .. Len(rest) + 1 : more[i] = more[j] => i = j
  <2>1. SUFFICES ASSUME NEW i \in 1 .. Len(rest) + 1, NEW j \in 1 .. Len(rest) + 1, more[i] = more[j] PROVE i = j
    OBVIOUS
  <2>2. \A k \in 1 .. Len(rest) + 1 : k = Len(rest) + 1 \/ k \in 1 .. Len(rest)
    BY <1>2
  <2>3. \A k, l \in 1 .. Len(rest) : rest[k] = rest[l] => k = l
    BY <1>1, <1>2 DEF Once, IsInjective
  <2>4. QED
    BY <1>1, <1>2, <1>3, <2>1, <2>2, <2>3
<1>6. Once(more)
  BY <1>3, <1>4, <1>5 DEF Once, IsInjective
<1>7. QED
  BY <1>6 DEF Touched, more, rest

LEMMA OrderStays ==
  ASSUME HandlesInv, Once(recency), [HandlesNext]_handlesVars
  PROVE  Once(recency')
<1>1. \A t \in Tasks : task[t].at # "idle" => task[t].room \in Rooms
  BY DEF HandlesInv, InPlace, WellFormed
<1>2. ASSUME NEW t, NEW e, NEW order, NEW place, Once(order), Suspend(t, e, order, place)
      PROVE  Once(recency')
  BY <1>2, LeavesOrder DEF Suspend
<1>3. ASSUME NEW t, NEW e, Capacity(t, e) PROVE Once(recency')
  BY <1>2, <1>3 DEF Capacity, Proceed
<1>4. ASSUME NEW t, NEW e, NEW order, Once(order), Trim(t, e, order) PROVE Once(recency')
  BY <1>2, <1>4 DEF Trim
<1>5. ASSUME NEW t \in Tasks, NEW r \in Rooms, Arrive(t, r) PROVE Once(recency')
  <2>1. Dispatch(t, r) \/ Create(t, r) \/ Join(t, r)
    BY <1>5 DEF Arrive
  <2>2. \/ recency' = recency
        \/ recency' = Touched(r)
        \/ \E kind : Reserve(t, kind, r)
    BY <2>1 DEF Dispatch, Create, Join, Find, Share, OpenStored
  <2>3. QED
    BY <1>3, <2>2, MovesToEnd DEF Reserve
<1>6. ASSUME NEW t \in Tasks, Advance(t) PROVE Once(recency')
  <2>1. Evicted(t) => Once(recency')
    BY <1>3 DEF Evicted
  <2>2. Make(t) => Once(recency')
    BY <1>1, MovesToEnd DEF Make
  <2>3. ASSUME Succeed(t) PROVE Once(recency')
    <3>1. Once(Touched(task[t].room))
      BY <1>1, <2>3, MovesToEnd DEF Succeed
    <3>2. Once(IF rooms[task[t].room] # 0 THEN Touched(task[t].room) ELSE recency)
      BY <3>1
    <3>3. QED
      BY <1>4, <2>3, <3>2 DEF Succeed
  <2>4. Finish(t) \/ Trimmed(t) => Once(recency')
    BY <1>4 DEF Finish, Trimmed
  <2>5. PairingFails(t) \/ Opened(t) \/ OpenFails(t) \/ Abort(t) \/ Resume(t) \/ FinishJoin(t) => recency' = recency
    BY DEF PairingFails, Opened, OpenFails, Abort, Resume, FinishJoin
  <2>6. QED
    BY <1>6, <2>1, <2>2, <2>3, <2>4, <2>5 DEF Advance
<1>7. ASSUME \/ \E h \in Objects : Closed(h)
             \/ UNCHANGED handlesVars
      PROVE  Once(recency')
  BY <1>7 DEF Closed, handlesVars
<1>8. QED
  BY <1>5, <1>6, <1>7 DEF HandlesNext

Outcomes == outcome \in [Objects -> {"pending", "ok", "failed"}]

LEMMA OutcomesStay == Outcomes /\ [HandlesNext]_handlesVars => Outcomes'
<1> SUFFICES ASSUME Outcomes, [HandlesNext]_handlesVars PROVE Outcomes'
  OBVIOUS
<1>1. \/ outcome' = outcome
      \/ \E t \in Tasks, result \in {"ok", "failed"} : Settle(t, result)
  BY DEF HandlesNext, Arrive, Dispatch, Create, Join, Advance, Evicted, Make, PairingFails, Opened, OpenFails, Abort,
         Resume, Succeed, Finish, FinishJoin, Trimmed, Closed, handlesVars
<1>2. QED
  BY <1>1 DEF Outcomes, Settle

\* The state of the handles is well formed: the order of use names every room at
\* most once, and no room has more leases than there are requests.
THEOREM HandlesStayInShape == HandlesSpec => []HandlesOK
<1>1. HandlesInit => Once(recency) /\ Outcomes
  <2>1. <<>> \in Seq(Rooms) /\ DOMAIN <<>> = {}
    BY EmptySeq
  <2>2. QED
    BY <2>1 DEF HandlesInit, Once, IsInjective, Outcomes
<1>2. HandlesInv /\ Once(recency) /\ Outcomes => HandlesOK
  <2>1. SUFFICES ASSUME HandlesInv, Once(recency), Outcomes PROVE HandlesOK
    OBVIOUS
  <2>2. ASSUME NEW r \in Rooms PROVE leases[r] \in 0 .. Cardinality(Tasks)
    <3>1. IsFiniteSet(Tasks) /\ Holders(r) \in SUBSET Tasks
      BY Finite DEF Holders
    <3>2. Cardinality(Holders(r)) <= Cardinality(Tasks)
      BY <3>1, FS_Subset
    <3>3. leases[r] = Cardinality(Holders(r)) /\ leases[r] \in Nat /\ Cardinality(Tasks) \in Nat
      BY <2>1, <3>1, FS_CardinalityType DEF HandlesInv, Leased, HandleTypes
    <3>4. QED
      BY <3>2, <3>3
  <2>3. leases \in [Rooms -> 0 .. Cardinality(Tasks)]
    BY <2>1, <2>2 DEF HandlesInv, HandleTypes
  <2>4. QED
    BY <2>1, <2>3 DEF HandlesInv, HandleTypes, Once, Outcomes, EntryType, HandlesOK
<1>3. HandlesInv /\ Once(recency) /\ [HandlesNext]_handlesVars => Once(recency)'
  BY OrderStays
<1>4. QED
  BY <1>1, <1>2, <1>3, OutcomesStay, HandlesAreSound, PTL DEF HandlesSpec
=============================================================================
