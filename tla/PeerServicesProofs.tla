-------------------------- MODULE PeerServicesProofs --------------------------
(***************************************************************************)
(* Theorems about what one desktop peer or phone does by itself and with   *)
(* others: its start (DeviceStart), the fixture plane it copies            *)
(* (FixtureConsumer), presence (Presence), attachments (MediaTransfer),    *)
(* the system notifications (Notifications), the event streams of its      *)
(* browser (EventStreams), how it joins a room and joins it again          *)
(* (RoomPairing, on the invariant of RoomMembershipProofs), and, with all  *)
(* of them, the whole of MCPeer.                                           *)
(***************************************************************************)
EXTENDS MCPeer,
        RoomMembershipProofs, FiniteSetTheorems, SequenceTheorems, TLAPS

-----------------------------------------------------------------------------
(* The start of a device. *)

Settled == {"configured", "writing", "unlocked", "identified", "running"}

DeviceTypes ==
  /\ device \in {"desktop", "phone"}
  /\ published \in 1 .. MaxIssued /\ bundled \in 0 .. published /\ clock \in 0 .. MaxIssued
  /\ cache \in 0 .. published /\ manifest \in 0 .. published
  /\ secret \in 0 .. Torn /\ profile \in 0 .. account.identity
  /\ account \in [identity : 0 .. MaxMade, sealedWith : 0 .. MaxMade]
  /\ made \in [secrets : 0 .. MaxMade, identities : 0 .. MaxMade]
  /\ ran \in [identity : 0 .. MaxMade, manifest : 0 .. published]
  /\ stage \in Settled \cup {"off", "fetched", "stale", "resetting", "failed"}

\* What a stage has established: the secret is whole before the account is
\* opened, and an account that is being archived is gone before its secret.
StageFacts ==
  /\ stage = "writing" => secret = Torn /\ made.secrets >= 1
  /\ stage \in {"unlocked", "identified", "running"} => secret \in 1 .. MaxMade
  /\ stage = "resetting" => account = NoAccount
  /\ account = NoAccount => ran.identity = 0

\* Manifests only get newer, from the endpoint to the cache and to the start.
ManifestFacts ==
  /\ cache <= clock
  /\ stage \in Settled =>
       Valid(manifest) /\ manifest <= (IF cache > bundled THEN cache ELSE bundled)
  /\ stage = "fetched" =>
       /\ Valid(manifest) /\ manifest >= cache /\ manifest >= bundled
       /\ ran.identity # 0 => manifest >= ran.manifest

\* What a device came up with stays valid and, unless its build brought a newer
\* one, in its cache.
KeepsItsManifest ==
  ran.identity # 0 =>
    /\ Valid(ran.manifest) /\ ran.manifest <= (IF cache > bundled THEN cache ELSE bundled)
    /\ stage \in {"configured", "writing", "unlocked", "identified"} => manifest >= ran.manifest

\* Past the manifest, a device that came up before makes nothing anew.
KeepsItsSecret == ran.identity # 0 => secret \in 1 .. MaxMade /\ stage # "writing"

DeviceInv ==
  /\ DeviceTypes /\ StageFacts /\ ManifestFacts
  /\ AccountStaysReadable /\ KeepsItsManifest /\ KeepsItsSecret

LEMMA InitDevice == DeviceInit => DeviceInv
<1> SUFFICES ASSUME DeviceInit PROVE DeviceInv
  OBVIOUS
<1> USE DeviceBounds
<1>1. /\ account \in {NoAccount, [identity |-> 1, sealedWith |-> 0]}
      /\ account.identity \in 0 .. 1 /\ account.sealedWith = 0
  BY DEF DeviceInit, NoAccount
<1>2. DeviceTypes
  BY <1>1 DEF DeviceInit, DeviceTypes, NoAccount, Torn, Settled
<1>3. StageFacts /\ ManifestFacts
  BY DEF DeviceInit, StageFacts, ManifestFacts, Settled
<1>4. AccountStaysReadable /\ KeepsItsManifest /\ KeepsItsSecret
  BY <1>1 DEF DeviceInit, AccountStaysReadable, KeepsItsManifest, KeepsItsSecret
<1>5. QED
  BY <1>2, <1>3, <1>4 DEF DeviceInv

\* The operator, the clock, updates and stops leave what is stored.
LEMMA SurroundingsKeepDevice ==
  ASSUME DeviceInv, Publish \/ ClockAdvances \/ Update \/ AppStops
  PROVE  DeviceInv'
<1> USE DeviceBounds
<1>1. CASE Publish
  BY <1>1 DEF Publish, stores, DeviceInv, DeviceTypes, StageFacts, ManifestFacts,
              AccountStaysReadable, KeepsItsManifest, KeepsItsSecret, Valid, NoAccount, Torn
<1>2. CASE ClockAdvances
  BY <1>2 DEF ClockAdvances, stores, DeviceInv, DeviceTypes, StageFacts, ManifestFacts,
              AccountStaysReadable, KeepsItsManifest, KeepsItsSecret, Valid, NoAccount, Torn
<1>3. CASE Update
  BY <1>3 DEF Update, stores, DeviceInv, DeviceTypes, StageFacts, ManifestFacts,
              AccountStaysReadable, KeepsItsManifest, KeepsItsSecret, Valid, NoAccount, Torn, Settled
<1>4. CASE AppStops
  BY <1>4 DEF AppStops, surroundings, stores, DeviceInv, DeviceTypes, StageFacts, ManifestFacts,
              AccountStaysReadable, KeepsItsManifest, KeepsItsSecret, Valid, NoAccount, Torn, Settled
<1>5. QED
  BY <1>1, <1>2, <1>3, <1>4

LEMMA ManifestKeepsDevice ==
  ASSUME DeviceInv, Fetch \/ FetchFails \/ WriteCache \/ FallBack
  PROVE  DeviceInv'
<1> USE DeviceBounds
<1>1. UNCHANGED <<device, published, bundled, clock, secret, account, profile, made, ran>>
  BY DEF Fetch, FetchFails, WriteCache, FallBack, Goes, surroundings
<1>2. CASE Fetch
  BY <1>1, <1>2 DEF Fetch, Goes, DeviceInv, DeviceTypes, StageFacts, ManifestFacts,
              AccountStaysReadable, KeepsItsManifest, KeepsItsSecret, Valid, NoAccount, Torn, Settled
<1>3. CASE FetchFails
  BY <1>1, <1>3 DEF FetchFails, Goes, DeviceInv, DeviceTypes, StageFacts, ManifestFacts,
              AccountStaysReadable, KeepsItsManifest, KeepsItsSecret, Valid, NoAccount, Torn, Settled
<1>4. CASE WriteCache
  BY <1>1, <1>4 DEF WriteCache, Goes, DeviceInv, DeviceTypes, StageFacts, ManifestFacts,
              AccountStaysReadable, KeepsItsManifest, KeepsItsSecret, Valid, NoAccount, Torn, Settled
<1>5. CASE FallBack
  BY <1>1, <1>5 DEF FallBack, Newer, Goes, DeviceInv, DeviceTypes, StageFacts, ManifestFacts,
              AccountStaysReadable, KeepsItsManifest, KeepsItsSecret, Valid, NoAccount, Torn, Settled
<1>6. QED
  BY <1>2, <1>3, <1>4, <1>5

LEMMA SecretKeepsDevice ==
  ASSUME DeviceInv, CreateSecret \/ WriteSecret \/ ReadSecret
  PROVE  DeviceInv'
<1> USE DeviceBounds
<1>1. CASE CreateSecret
  BY <1>1 DEF CreateSecret, NewSecret, surroundings, DeviceInv, DeviceTypes, StageFacts,
              ManifestFacts, AccountStaysReadable, KeepsItsManifest, KeepsItsSecret, Valid, NoAccount, Torn, Settled
<1>2. CASE WriteSecret
  BY <1>2 DEF WriteSecret, surroundings, DeviceInv, DeviceTypes, StageFacts,
              ManifestFacts, AccountStaysReadable, KeepsItsManifest, KeepsItsSecret, Valid, NoAccount, Torn, Settled
<1>3. CASE ReadSecret
  BY <1>3 DEF ReadSecret, surroundings, stores, DeviceInv, DeviceTypes, StageFacts,
              ManifestFacts, AccountStaysReadable, KeepsItsManifest, KeepsItsSecret, Valid, NoAccount, Torn, Settled
<1>4. QED
  BY <1>1, <1>2, <1>3

LEMMA AccountKeepsDevice ==
  ASSUME DeviceInv, LoadIdentity \/ LoadProfile
  PROVE  DeviceInv'
<1> USE DeviceBounds
<1>1. CASE LoadIdentity
  BY <1>1 DEF LoadIdentity, surroundings, DeviceInv, DeviceTypes, StageFacts,
              ManifestFacts, AccountStaysReadable, KeepsItsManifest, KeepsItsSecret, Valid, NoAccount, Torn, Settled
<1>2. CASE LoadProfile
  BY <1>2 DEF LoadProfile, surroundings, DeviceInv, DeviceTypes, StageFacts,
              ManifestFacts, AccountStaysReadable, KeepsItsManifest, KeepsItsSecret, Valid, NoAccount, Torn, Settled
<1>3. QED
  BY <1>1, <1>2

LEMMA ResetKeepsDevice ==
  ASSUME DeviceInv, ResetDesktop \/ ResetPhone
  PROVE  DeviceInv'
<1> USE DeviceBounds
<1>1. CASE ResetDesktop
  BY <1>1 DEF ResetDesktop, surroundings, DeviceInv, DeviceTypes, StageFacts,
              ManifestFacts, AccountStaysReadable, KeepsItsManifest, KeepsItsSecret, Valid, NoAccount, Torn, Settled
<1>2. CASE ResetPhone
  BY <1>2 DEF ResetPhone, PhoneReset, DeleteSecret, ArchiveStore, surroundings, DeviceInv, DeviceTypes,
              StageFacts, ManifestFacts, AccountStaysReadable, KeepsItsManifest, KeepsItsSecret, Valid, NoAccount,
              Torn, Settled
<1>3. QED
  BY <1>1, <1>2

LEMMA DeviceStays == DeviceInv /\ [DeviceNext]_deviceVars => DeviceInv'
<1> SUFFICES ASSUME DeviceInv, [DeviceNext]_deviceVars PROVE DeviceInv'
  OBVIOUS
<1>1. CASE UNCHANGED deviceVars
  BY <1>1 DEF deviceVars, DeviceInv, DeviceTypes, StageFacts, ManifestFacts,
     AccountStaysReadable, KeepsItsManifest, KeepsItsSecret, Valid
<1>2. CASE DeviceNext
  BY <1>2, SurroundingsKeepDevice, ManifestKeepsDevice, SecretKeepsDevice,
     AccountKeepsDevice, ResetKeepsDevice DEF DeviceNext
<1>3. QED
  BY <1>1, <1>2

LEMMA DeviceIsSound == DeviceSpec => []DeviceInv
BY InitDevice, DeviceStays, PTL DEF DeviceSpec

\* A start falls back to a manifest that is there, unless the build's is not valid yet.
LEMMA FallBackHolds ==
  ASSUME DeviceInv, FallBack, ran.identity # 0, bundled = 0 \/ Valid(bundled)
  PROVE  stage' # "failed"
<1> USE DeviceBounds
<1>1. Valid(cache) \/ Newer
  BY DEF DeviceInv, DeviceTypes, ManifestFacts, KeepsItsManifest, Valid, Newer
<1>2. QED
  BY <1>1 DEF FallBack, Goes

\* A step that fails a start is the fall back.
LEMMA NothingElseFails ==
  ASSUME DeviceInv, DeviceNext, ran.identity # 0, stage # "failed", stage' = "failed"
  PROVE  FallBack
<1> USE DeviceBounds
<1>1. ~ReadSecret
  BY DEF ReadSecret, DeviceInv, KeepsItsSecret, Torn
<1>2. ~LoadIdentity
  BY DEF LoadIdentity, DeviceInv, DeviceTypes, StageFacts, AccountStaysReadable
<1>3. QED
  BY <1>1, <1>2 DEF DeviceNext, Publish, ClockAdvances, Update, AppStops, Fetch, FetchFails, WriteCache,
     Goes, CreateSecret, WriteSecret, LoadProfile, ResetDesktop, ResetPhone

\* Wherever the app stops, the stored secret opens the stored account, and a
\* device that came up once does come up again, as who it was and with a manifest
\* that is not older: no start of it fails but the one whose build brought a
\* manifest that is not valid yet, for any number of manifests, secrets and
\* identities.
THEOREM DevicesStayUp == DeviceSpec => DevicesComeUpAgain
<1>1. DeviceInv /\ [DeviceNext]_deviceVars => [AccountStaysReadable']_deviceVars
  BY DeviceStays DEF DeviceInv
<1>2. DeviceInv /\ [DeviceNext]_deviceVars =>
        [ran.identity # 0 /\ stage # "failed" /\ stage' = "failed" =>
           stage = "stale" /\ bundled # 0 /\ ~Valid(bundled)]_deviceVars
  <2> SUFFICES ASSUME DeviceInv, DeviceNext, ran.identity # 0, stage # "failed", stage' = "failed"
               PROVE  stage = "stale" /\ bundled # 0 /\ ~Valid(bundled)
    OBVIOUS
  <2>1. FallBack
    BY NothingElseFails
  <2>2. QED
    BY <2>1, FallBackHolds DEF FallBack
<1>3. DeviceInv /\ [DeviceNext]_deviceVars =>
        [ran.identity # 0 /\ stage' = "running" =>
           ran'.identity = ran.identity /\ ran'.manifest >= ran.manifest]_deviceVars
  <2> SUFFICES ASSUME DeviceInv, DeviceNext, ran.identity # 0, stage' = "running"
               PROVE  ran'.identity = ran.identity /\ ran'.manifest >= ran.manifest
    OBVIOUS
  <2>1. ran.identity \in Nat /\ ran.manifest \in Nat
    BY DEF DeviceInv, DeviceTypes
  <2>2. CASE LoadProfile
    <3>1. account # NoAccount /\ account.identity = ran.identity /\ manifest >= ran.manifest
      BY <2>2 DEF LoadProfile, DeviceInv, StageFacts, AccountStaysReadable, KeepsItsManifest
    <3>2. ran' = [identity |-> account.identity, manifest |-> manifest]
      BY <2>2 DEF LoadProfile
    <3>3. QED
      BY <3>1, <3>2
  <2>3. CASE UNCHANGED ran
    BY <2>1, <2>3
  <2>4. QED
    BY <2>2, <2>3 DEF DeviceNext, Publish, ClockAdvances, Update, AppStops, Fetch, FetchFails, WriteCache,
       FallBack, Goes, CreateSecret, WriteSecret, ReadSecret, LoadIdentity, ResetDesktop, ResetPhone
<1>4. QED
  BY <1>1, <1>2, <1>3, DeviceIsSound, PTL DEF DeviceSpec, DevicesComeUpAgain, AccountIsNotLost,
     StartsSucceed, ComesUpAsBefore

-----------------------------------------------------------------------------
(* The copy of the fixture plane. *)

IsKind(i, kind) == Log[i].kind = kind
Entry(i) == [call |-> Log[i].call, index |-> i]

ConsumerTypes ==
  /\ core \subseteq Indexes /\ seenRecordIndexes \subseteq core
  /\ plane \in {"closed", "opening", "open", "closing"}
  /\ cachedLength \in 0 .. Len(Log)
  /\ openIndex \in Positions /\ streamStart \in Positions /\ readerIndex \in Positions
  /\ initialBlockRequest \in BOOLEAN /\ relayNext \in Positions \cup {0}
  /\ relayApply \in Seq(Indexes) /\ reopens \in 0 .. MaxReopens
  /\ projection \in [seq : Nat, events : SUBSET EventIds, calls : SUBSET Entries,
                     settlements : SUBSET Entries]

\* The projection is what the blocks seen say, in whatever order they came.
Shows ==
  /\ projection.calls = {Entry(i) : i \in {j \in seenRecordIndexes : IsKind(j, "call.open")}}
  /\ projection.settlements = {Entry(i) : i \in {j \in seenRecordIndexes : IsKind(j, "call.settled")}}
  /\ \A i \in seenRecordIndexes : IsKind(i, "call.settled") =>
       \E j \in seenRecordIndexes : j < i /\ IsKind(j, "call.open") /\ Log[j].call = Log[i].call

\* The reader starts behind a run of blocks that were all applied as they were
\* read from disk, and applies every block it passes.
BehindIsSeen ==
  /\ plane = "opening" => \A i \in Indexes : i < openIndex /\ i < streamStart => i \in seenRecordIndexes
  /\ plane = "opening" => openIndex <= cachedLength + 1 /\ streamStart <= cachedLength + 1
  /\ plane \in {"open", "closing"} => \A i \in Indexes : i < readerIndex => i \in seenRecordIndexes

ConsumerInv == ConsumerTypes /\ Shows /\ LatestScore /\ BehindIsSeen

\* The publisher's log: types, and what is said of calls and scores.
LEMMA LogFacts ==
  /\ Len(Log) \in Nat /\ Indexes = 1 .. Len(Log)
  /\ \A i \in Indexes :
       /\ Log[i].kind \in {"fixture.upsert", "fixture.score", "call.open", "call.settled"}
       /\ IsKind(i, "fixture.score") => Log[i].seq \in Nat \ {0} /\ Log[i].events \subseteq EventIds
       /\ IsKind(i, "call.open") \/ IsKind(i, "call.settled") =>
            Log[i].call \in CallIds /\ Entry(i) \in Entries
       /\ Entry(i).call = Log[i].call /\ Entry(i).index = i
       /\ IsKind(i, "call.settled") =>
            \E j \in Indexes : j < i /\ IsKind(j, "call.open") /\ Log[j].call = Log[i].call
  /\ \A i, j \in Indexes :
       /\ (IsKind(i, "call.open") /\ IsKind(j, "call.open")) \/ (IsKind(i, "call.settled") /\ IsKind(j, "call.settled"))
       /\ Log[i].call = Log[j].call
       => i = j
<1>1. Log \in Seq(Upserts \cup Scores \cup CallRecords)
  BY LogAssumption
<1>2. Len(Log) \in Nat /\ Indexes = 1 .. Len(Log) /\ \A i \in Indexes : Log[i] \in Upserts \cup Scores \cup CallRecords
  BY <1>1 DEF Indexes
<1>3. ASSUME NEW i \in Indexes
      PROVE  /\ Log[i].kind \in {"fixture.upsert", "fixture.score", "call.open", "call.settled"}
             /\ IsKind(i, "fixture.score") => Log[i].seq \in Nat \ {0} /\ Log[i].events \subseteq EventIds
             /\ IsKind(i, "call.open") \/ IsKind(i, "call.settled") => Log[i].call \in CallIds
  BY <1>2, <1>3 DEF IsKind, Upserts, Scores, CallRecords
<1>4. \A i \in Indexes : IsKind(i, "call.open") \/ IsKind(i, "call.settled") => Entry(i) \in Entries
  BY <1>3 DEF Entry, Entries
<1>5. ASSUME NEW i \in Indexes, IsKind(i, "call.settled")
      PROVE  \E j \in Indexes : j < i /\ IsKind(j, "call.open") /\ Log[j].call = Log[i].call
  <2>1. PICK j \in 1 .. (i - 1) : Log[j].kind = "call.open" /\ Log[j].call = Log[i].call
    BY <1>5, LogAssumption DEF IsKind
  <2>2. j \in Indexes /\ j < i
    BY <1>2
  <2>3. QED
    BY <2>1, <2>2 DEF IsKind
<1>6. \A i, j \in Indexes :
        /\ (IsKind(i, "call.open") /\ IsKind(j, "call.open")) \/ (IsKind(i, "call.settled") /\ IsKind(j, "call.settled"))
        /\ Log[i].call = Log[j].call
        => i = j
  BY LogAssumption DEF IsKind
<1>7. QED
  BY <1>2, <1>3, <1>4, <1>5, <1>6 DEF Entry

LEMMA InitConsumer == ConsumerInit => ConsumerInv
<1> SUFFICES ASSUME ConsumerInit PROVE ConsumerInv
  OBVIOUS
<1>1. Len(Log) \in Nat /\ MaxReopens \in Nat
  BY LogFacts, ConsumerBounds
<1>2. ConsumerTypes
  <2>1. EmptyProjection \in [seq : Nat, events : SUBSET EventIds, calls : SUBSET Entries,
                             settlements : SUBSET Entries]
    BY DEF EmptyProjection
  <2>2. 1 \in Positions /\ 0 \in 0 .. Len(Log) /\ 0 \in 0 .. MaxReopens
    BY <1>1 DEF Positions
  <2>3. relayApply \in Seq(Indexes)
    BY DEF ConsumerInit
  <2>4. QED
    BY <2>1, <2>2, <2>3 DEF ConsumerInit, ConsumerTypes
<1>3. Shows /\ LatestScore /\ BehindIsSeen
  BY DEF ConsumerInit, EmptyProjection, Shows, LatestScore, BehindIsSeen
<1>4. QED
  BY <1>2, <1>3 DEF ConsumerInv

\* A call whose opening was applied is shown, and only such a call.
LEMMA OpenedIsSeen ==
  ASSUME ConsumerInv, NEW i \in Indexes, IsKind(i, "call.settled")
  PROVE  Applicable(projection, Log[i]) <=>
           \E j \in seenRecordIndexes : j < i /\ IsKind(j, "call.open") /\ Log[j].call = Log[i].call
<1>1. seenRecordIndexes \subseteq Indexes
  BY DEF ConsumerInv, ConsumerTypes
<1>2. IsOpened(projection, Log[i].call) <=>
        \E j \in seenRecordIndexes : IsKind(j, "call.open") /\ Log[j].call = Log[i].call
  <2>1. projection.calls = {Entry(j) : j \in {k \in seenRecordIndexes : IsKind(k, "call.open")}}
    BY DEF ConsumerInv, Shows
  <2>2. \A j \in seenRecordIndexes : Entry(j).call = Log[j].call
    BY <1>1, LogFacts
  <2>3. QED
    BY <2>1, <2>2 DEF IsOpened
<1>3. PICK k \in Indexes : k < i /\ IsKind(k, "call.open") /\ Log[k].call = Log[i].call
  BY LogFacts
<1>4. \A j \in seenRecordIndexes : IsKind(j, "call.open") /\ Log[j].call = Log[i].call => j = k
  BY <1>1, <1>3, LogFacts
<1>5. QED
  BY <1>2, <1>3, <1>4 DEF Applicable, IsKind

\* A block is applied: what is shown, seen and latest go together.
LEMMA ApplyKeeps ==
  ASSUME ConsumerInv, NEW i \in Indexes, ApplyBlock(Log[i], i)
  PROVE  /\ seenRecordIndexes' \subseteq seenRecordIndexes \cup {i}
         /\ seenRecordIndexes \subseteq seenRecordIndexes'
         /\ projection' \in [seq : Nat, events : SUBSET EventIds, calls : SUBSET Entries,
                             settlements : SUBSET Entries]
         /\ Shows' /\ LatestScore'
         /\ (\A j \in Indexes : j < i => j \in seenRecordIndexes) => i \in seenRecordIndexes'
<1> DEFINE r == Log[i]
<1>1. /\ seenRecordIndexes \subseteq Indexes
      /\ projection \in [seq : Nat, events : SUBSET EventIds, calls : SUBSET Entries,
                         settlements : SUBSET Entries]
      /\ Shows /\ LatestScore
  BY DEF ConsumerInv, ConsumerTypes
<1>2. CASE i \in seenRecordIndexes
  <2>1. UNCHANGED <<seenRecordIndexes, projection>>
    BY <1>2 DEF ApplyBlock
  <2>2. QED
    BY <1>1, <1>2, <2>1 DEF Shows, LatestScore
<1>3. CASE i \notin seenRecordIndexes /\ ~Applicable(projection, r)
  <2>1. UNCHANGED <<seenRecordIndexes, projection>>
    BY <1>3 DEF ApplyBlock, Seen
  <2>2. IsKind(i, "call.settled")
    BY <1>3 DEF Applicable, IsKind
  <2>3. ~(\A j \in Indexes : j < i => j \in seenRecordIndexes)
    BY <1>3, <2>2, OpenedIsSeen, LogFacts
  <2>4. QED
    BY <1>1, <2>1, <2>3 DEF Shows, LatestScore
<1>4. CASE i \notin seenRecordIndexes /\ Applicable(projection, r)
  <2>1. seenRecordIndexes' = seenRecordIndexes \cup {i} /\ projection' = Projected(projection, r, i)
    BY <1>4 DEF ApplyBlock, Seen
  <2>2. IsKind(i, "call.settled") =>
          \E j \in seenRecordIndexes : j < i /\ IsKind(j, "call.open") /\ Log[j].call = r.call
    BY <1>4, OpenedIsSeen
  <2>3. CASE IsKind(i, "fixture.score")
    <3>1. projection' = WithScore(projection, r)
      BY <2>1, <2>3 DEF Projected, IsKind
    <3>2. r.seq \in Nat \ {0} /\ r.events \subseteq EventIds
      BY <2>3, LogFacts
    <3>3. /\ projection'.calls = projection.calls /\ projection'.settlements = projection.settlements
          /\ projection'.seq = IF r.seq <= projection.seq THEN projection.seq ELSE r.seq
          /\ projection' \in [seq : Nat, events : SUBSET EventIds, calls : SUBSET Entries,
                              settlements : SUBSET Entries]
      BY <1>1, <3>1, <3>2 DEF WithScore
    <3>4. Shows'
      BY <1>1, <2>1, <2>3, <3>3 DEF Shows, IsKind
    <3>5. LatestScore'
      <4>1. ASSUME NEW k \in seenRecordIndexes', IsKind(k, "fixture.score") PROVE Log[k].seq <= projection'.seq
        BY <1>1, <2>1, <3>2, <3>3, <4>1, LogFacts DEF LatestScore, IsKind
      <4>2. ASSUME projection'.seq # 0
            PROVE  \E k \in seenRecordIndexes' : IsKind(k, "fixture.score") /\ Log[k].seq = projection'.seq
        BY <1>1, <2>1, <2>3, <3>3, <4>2 DEF LatestScore, IsKind
      <4>3. QED
        BY <4>1, <4>2 DEF LatestScore, IsKind
    <3>6. QED
      BY <2>1, <3>3, <3>4, <3>5
  <2>4. CASE IsKind(i, "call.open")
    <3>1. ~\E e \in projection.calls : e.call = r.call
      BY <1>1, <1>4, <2>4, LogFacts DEF Shows, Entry
    <3>2. projection' = [projection EXCEPT !.calls = @ \cup {Entry(i)}]
      BY <2>1, <2>4, <3>1 DEF Projected, Entered, IsKind, Entry
    <3>3. /\ projection'.calls = projection.calls \cup {Entry(i)}
          /\ projection'.settlements = projection.settlements /\ projection'.seq = projection.seq
      BY <1>1, <3>2
    <3>4. projection' \in [seq : Nat, events : SUBSET EventIds, calls : SUBSET Entries,
                           settlements : SUBSET Entries]
      BY <1>1, <2>4, <3>2, LogFacts
    <3>5. Shows'
      <4>1. {j \in seenRecordIndexes' : IsKind(j, "call.open")}
              = {j \in seenRecordIndexes : IsKind(j, "call.open")} \cup {i}
        BY <2>1, <2>4
      <4>2. {j \in seenRecordIndexes' : IsKind(j, "call.settled")}
              = {j \in seenRecordIndexes : IsKind(j, "call.settled")}
        BY <2>1, <2>4 DEF IsKind
      <4>3. QED
        BY <1>1, <2>1, <2>4, <3>3, <4>1, <4>2 DEF Shows, IsKind
    <3>6. LatestScore'
      BY <1>1, <2>1, <2>4, <3>3 DEF LatestScore, IsKind
    <3>7. QED
      BY <2>1, <3>4, <3>5, <3>6
  <2>5. CASE IsKind(i, "call.settled")
    <3>1. ~\E e \in projection.settlements : e.call = r.call
      BY <1>1, <1>4, <2>5, LogFacts DEF Shows, Entry
    <3>2. projection' = [projection EXCEPT !.settlements = @ \cup {Entry(i)}]
      BY <2>1, <2>5, <3>1 DEF Projected, Entered, IsKind, Entry
    <3>3. /\ projection'.settlements = projection.settlements \cup {Entry(i)}
          /\ projection'.calls = projection.calls /\ projection'.seq = projection.seq
      BY <1>1, <3>2
    <3>4. projection' \in [seq : Nat, events : SUBSET EventIds, calls : SUBSET Entries,
                           settlements : SUBSET Entries]
      BY <1>1, <2>5, <3>2, LogFacts
    <3>5. Shows'
      <4>1. {j \in seenRecordIndexes' : IsKind(j, "call.settled")}
              = {j \in seenRecordIndexes : IsKind(j, "call.settled")} \cup {i}
        BY <2>1, <2>5
      <4>2. {j \in seenRecordIndexes' : IsKind(j, "call.open")}
              = {j \in seenRecordIndexes : IsKind(j, "call.open")}
        BY <2>1, <2>5 DEF IsKind
      <4>3. QED
        BY <1>1, <2>1, <2>2, <3>3, <4>1, <4>2 DEF Shows
    <3>6. LatestScore'
      BY <1>1, <2>1, <2>5, <3>3 DEF LatestScore, IsKind
    <3>7. QED
      BY <2>1, <3>4, <3>5, <3>6
  <2>6. CASE IsKind(i, "fixture.upsert")
    <3>1. projection' = projection
      BY <2>1, <2>6 DEF Projected, IsKind
    <3>2. Shows' /\ LatestScore'
      BY <1>1, <2>1, <2>6, <3>1 DEF Shows, LatestScore, IsKind
    <3>3. QED
      BY <1>1, <2>1, <3>1, <3>2
  <2>7. QED
    BY <2>3, <2>4, <2>5, <2>6, LogFacts DEF IsKind
<1>5. QED
  BY <1>2, <1>3, <1>4

LEMMA SourcesKeepConsumer ==
  ASSUME ConsumerInv, ReadCached \/ ReaderDelivers \/ InitialBlockComes \/ RelayApplies
  PROVE  ConsumerInv'
<1>0. /\ Len(Log) \in Nat /\ Indexes = 1 .. Len(Log) /\ seenRecordIndexes \subseteq core /\ core \subseteq Indexes
      /\ cachedLength \in 0 .. Len(Log) /\ openIndex \in Positions /\ streamStart \in Positions
      /\ readerIndex \in Positions /\ Positions = 1 .. Len(Log) + 1
  BY LogFacts DEF ConsumerInv, ConsumerTypes, Positions
<1>1. CASE ReadCached
  <2>1. /\ plane = "opening" /\ openIndex <= cachedLength /\ openIndex' = openIndex + 1
        /\ UNCHANGED <<core, plane, cachedLength, readerIndex, initialBlockRequest, relayNext,
                       relayApply, reopens>>
        /\ openIndex \in Indexes /\ openIndex' \in Positions
    BY <1>0, <1>1 DEF ReadCached
  <2>2. CASE openIndex \in core
    <3>1. ApplyBlock(Log[openIndex], openIndex) /\ streamStart' = streamStart
      BY <1>1, <2>2 DEF ReadCached
    <3>2. /\ seenRecordIndexes' \subseteq seenRecordIndexes \cup {openIndex}
          /\ seenRecordIndexes \subseteq seenRecordIndexes'
          /\ projection' \in [seq : Nat, events : SUBSET EventIds, calls : SUBSET Entries,
                              settlements : SUBSET Entries]
          /\ Shows' /\ LatestScore'
          /\ (\A j \in Indexes : j < openIndex => j \in seenRecordIndexes) => openIndex \in seenRecordIndexes'
      BY <2>1, <3>1, ApplyKeeps
    <3>3. ConsumerTypes'
      BY <1>0, <2>1, <2>2, <3>1, <3>2 DEF ConsumerInv, ConsumerTypes
    <3>4. ASSUME NEW j \in Indexes, j < openIndex', j < streamStart PROVE j \in seenRecordIndexes'
      <4>1. CASE j < openIndex
        BY <2>1, <3>2, <3>4, <4>1 DEF ConsumerInv, BehindIsSeen
      <4>2. CASE j = openIndex
        <5>1. \A k \in Indexes : k < openIndex => k \in seenRecordIndexes
          BY <1>0, <2>1, <3>4, <4>2 DEF ConsumerInv, BehindIsSeen
        <5>2. QED
          BY <3>2, <4>2, <5>1
      <4>3. QED
        BY <1>0, <2>1, <3>4, <4>1, <4>2
    <3>5. BehindIsSeen'
      BY <1>0, <2>1, <3>1, <3>4 DEF ConsumerInv, BehindIsSeen
    <3>6. QED
      BY <3>2, <3>3, <3>5 DEF ConsumerInv
  <2>3. CASE openIndex \notin core
    <3>1. /\ streamStart' = IF openIndex < streamStart THEN openIndex ELSE streamStart
          /\ UNCHANGED <<seenRecordIndexes, projection>>
      BY <1>1, <2>3 DEF ReadCached, FirstMissing
    <3>2. ConsumerTypes'
      BY <1>0, <2>1, <3>1 DEF ConsumerInv, ConsumerTypes
    <3>3. Shows' /\ LatestScore'
      BY <3>1 DEF ConsumerInv, Shows, LatestScore
    <3>4. BehindIsSeen'
      BY <1>0, <2>1, <3>1 DEF ConsumerInv, BehindIsSeen
    <3>5. QED
      BY <3>2, <3>3, <3>4 DEF ConsumerInv
  <2>4. QED
    BY <2>2, <2>3
<1>2. CASE ReaderDelivers
  <2>1. /\ plane \in {"open", "closing"} /\ readerIndex \in core
        /\ ApplyBlock(Log[readerIndex], readerIndex) /\ readerIndex' = readerIndex + 1
        /\ UNCHANGED <<core, plane, cachedLength, openIndex, streamStart, initialBlockRequest,
                       relayNext, relayApply, reopens>>
    BY <1>2 DEF ReaderDelivers, ReaderTakes
  <2>2. /\ seenRecordIndexes' \subseteq seenRecordIndexes \cup {readerIndex}
        /\ seenRecordIndexes \subseteq seenRecordIndexes'
        /\ projection' \in [seq : Nat, events : SUBSET EventIds, calls : SUBSET Entries,
                            settlements : SUBSET Entries]
        /\ Shows' /\ LatestScore'
        /\ (\A j \in Indexes : j < readerIndex => j \in seenRecordIndexes) => readerIndex \in seenRecordIndexes'
    BY <1>0, <2>1, ApplyKeeps
  <2>3. \A j \in Indexes : j < readerIndex' => j \in seenRecordIndexes'
    BY <1>0, <2>1, <2>2 DEF ConsumerInv, BehindIsSeen
  <2>4. ConsumerTypes'
    BY <1>0, <2>1, <2>2 DEF ConsumerInv, ConsumerTypes
  <2>5. BehindIsSeen'
    BY <2>1, <2>3 DEF BehindIsSeen
  <2>6. QED
    BY <2>2, <2>4, <2>5 DEF ConsumerInv
<1>3. CASE InitialBlockComes
  <2>1. /\ plane \in {"open", "closing"} /\ initialBlockRequest' = FALSE
        /\ UNCHANGED <<core, plane, cachedLength, openIndex, streamStart, readerIndex, relayNext,
                       relayApply, reopens>>
    BY <1>3 DEF InitialBlockComes
  <2>2. /\ seenRecordIndexes' \subseteq core /\ seenRecordIndexes \subseteq seenRecordIndexes'
        /\ projection' \in [seq : Nat, events : SUBSET EventIds, calls : SUBSET Entries,
                            settlements : SUBSET Entries]
        /\ Shows' /\ LatestScore'
    <3>1. CASE 1 \in core /\ ApplyBlock(Log[1], 1)
      BY <1>0, <3>1, ApplyKeeps
    <3>2. CASE UNCHANGED <<seenRecordIndexes, projection>>
      BY <1>0, <3>2 DEF ConsumerInv, ConsumerTypes, Shows, LatestScore
    <3>3. QED
      BY <1>3, <3>1, <3>2 DEF InitialBlockComes
  <2>3. ConsumerTypes'
    BY <1>0, <2>1, <2>2 DEF ConsumerInv, ConsumerTypes
  <2>4. BehindIsSeen'
    BY <2>1, <2>2 DEF ConsumerInv, BehindIsSeen
  <2>5. QED
    BY <2>2, <2>3, <2>4 DEF ConsumerInv
<1>4. CASE RelayApplies
  <2> DEFINE i == Head(relayApply)
  <2>1. /\ plane \in {"open", "closing"} /\ relayApply # <<>>
        /\ core' = core \cup {i} /\ ApplyBlock(Log[i], i) /\ relayApply' = Tail(relayApply)
        /\ UNCHANGED <<plane, cachedLength, openIndex, streamStart, readerIndex, initialBlockRequest,
                       relayNext, reopens>>
    BY <1>4 DEF RelayApplies
  <2>2. i \in Indexes /\ Tail(relayApply) \in Seq(Indexes)
    BY <2>1, HeadTailProperties DEF ConsumerInv, ConsumerTypes
  <2> HIDE DEF i
  <2>3. /\ seenRecordIndexes' \subseteq seenRecordIndexes \cup {i}
        /\ seenRecordIndexes \subseteq seenRecordIndexes'
        /\ projection' \in [seq : Nat, events : SUBSET EventIds, calls : SUBSET Entries,
                            settlements : SUBSET Entries]
        /\ Shows' /\ LatestScore'
    BY <2>1, <2>2, ApplyKeeps
  <2>4. ConsumerTypes'
    BY <1>0, <2>1, <2>2, <2>3 DEF ConsumerInv, ConsumerTypes
  <2>5. BehindIsSeen'
    BY <2>1, <2>3 DEF ConsumerInv, BehindIsSeen
  <2>6. QED
    BY <2>3, <2>4, <2>5 DEF ConsumerInv
<1>5. QED
  BY <1>1, <1>2, <1>3, <1>4

LEMMA PlaneKeepsConsumer ==
  ASSUME ConsumerInv,
         \/ Replicate \/ StartOpen \/ FinishOpen \/ RequestInitialBlock
         \/ RelaySends \/ RelayRefuses \/ RelayFails \/ Close
  PROVE  ConsumerInv'
<1>0. /\ Len(Log) \in Nat /\ Indexes = 1 .. Len(Log) /\ Positions = 1 .. Len(Log) + 1
      /\ ConsumerTypes /\ BehindIsSeen /\ MaxReopens \in Nat
  BY LogFacts, ConsumerBounds DEF ConsumerInv, Positions
<1>1. UNCHANGED <<seenRecordIndexes, projection, reopens>>
  BY DEF Replicate, StartOpen, FinishOpen, RequestInitialBlock, RelaySends, RelayRefuses, RelayFails, Close
<1>2. Shows' /\ LatestScore'
  BY <1>1 DEF ConsumerInv, Shows, LatestScore
<1>3. CASE Replicate
  BY <1>0, <1>1, <1>2, <1>3 DEF Replicate, ConsumerInv, ConsumerTypes, BehindIsSeen
<1>4. CASE StartOpen
  BY <1>0, <1>1, <1>2, <1>4 DEF StartOpen, ConsumerInv, ConsumerTypes, BehindIsSeen
<1>5. CASE FinishOpen
  BY <1>0, <1>1, <1>2, <1>5 DEF FinishOpen, ConsumerInv, ConsumerTypes, BehindIsSeen
<1>6. CASE RequestInitialBlock
  BY <1>0, <1>1, <1>2, <1>6 DEF RequestInitialBlock, ConsumerInv, ConsumerTypes, BehindIsSeen
<1>7. CASE RelaySends
  <2>1. relayApply' \in Seq(Indexes)
    BY <1>0, <1>7 DEF RelaySends, ConsumerTypes
  <2>2. relayNext' \in Positions
    BY <1>0, <1>7 DEF RelaySends
  <2>3. QED
    BY <1>0, <1>1, <1>2, <1>7, <2>1, <2>2 DEF RelaySends, ConsumerInv, ConsumerTypes, BehindIsSeen
<1>8. CASE RelayRefuses
  <2>1. relayApply' \in Seq(Indexes)
    BY <1>0, <1>8 DEF RelayRefuses, ConsumerTypes
  <2>2. QED
    BY <1>0, <1>1, <1>2, <1>8, <2>1 DEF RelayRefuses, ConsumerInv, ConsumerTypes, BehindIsSeen
<1>9. CASE RelayFails
  BY <1>0, <1>1, <1>2, <1>9 DEF RelayFails, ConsumerInv, ConsumerTypes, BehindIsSeen
<1>10. CASE Close
  BY <1>0, <1>1, <1>2, <1>10 DEF Close, ConsumerInv, ConsumerTypes, BehindIsSeen
<1>11. QED
  BY <1>3, <1>4, <1>5, <1>6, <1>7, <1>8, <1>9, <1>10

LEMMA ForgottenKeepsConsumer == ConsumerInv /\ Forgotten => ConsumerInv'
<1> SUFFICES ASSUME ConsumerInv, Forgotten PROVE ConsumerInv'
  OBVIOUS
<1>1. Len(Log) \in Nat /\ MaxReopens \in Nat /\ 1 \in Positions /\ 0 \in 0 .. Len(Log)
  BY LogFacts, ConsumerBounds DEF Positions
<1>2. EmptyProjection \in [seq : Nat, events : SUBSET EventIds, calls : SUBSET Entries,
                           settlements : SUBSET Entries]
  BY DEF EmptyProjection
<1>3. relayApply' \in Seq(Indexes)
  BY DEF Forgotten
<1>4. reopens' \in 0 .. MaxReopens
  BY <1>1 DEF Forgotten, ConsumerInv, ConsumerTypes
<1>5. ConsumerTypes'
  BY <1>1, <1>2, <1>3, <1>4 DEF Forgotten, ConsumerInv, ConsumerTypes
<1>6. Shows' /\ LatestScore' /\ BehindIsSeen'
  BY DEF Forgotten, EmptyProjection, Shows, LatestScore, BehindIsSeen
<1>7. QED
  BY <1>5, <1>6 DEF ConsumerInv

LEMMA ConsumerIsSound == ConsumerSpec => []ConsumerInv
<1>1. ConsumerInv /\ [ConsumerNext]_consumerVars => ConsumerInv'
  <2>1. SUFFICES ASSUME ConsumerInv, [ConsumerNext]_consumerVars PROVE ConsumerInv'
    OBVIOUS
  <2>2. CASE UNCHANGED consumerVars
    BY <2>1, <2>2 DEF consumerVars, ConsumerInv, ConsumerTypes, Shows, LatestScore, BehindIsSeen
  <2>3. CASE ConsumerNext
    BY <2>1, <2>3, SourcesKeepConsumer, PlaneKeepsConsumer, ForgottenKeepsConsumer
       DEF ConsumerNext, Closed, ProcessEnds
  <2>4. QED
    BY <2>1, <2>2, <2>3
<1>2. QED
  BY <1>1, InitConsumer, PTL DEF ConsumerSpec

\* Whatever order the sources bring blocks in and whichever are refused, a peer
\* shows calls and settlements under the indexes they were signed at, the latest
\* score, and everything behind its reader, for every log a publisher can sign.
THEOREM PeersFollowFeed == ConsumerSpec => []ProjectionFollowsFeed
<1>1. ASSUME ConsumerInv PROVE ProjectionFollowsFeed
  <2>1. seenRecordIndexes \subseteq Indexes /\ readerIndex \in Positions
    BY <1>1 DEF ConsumerInv, ConsumerTypes
  <2>2. \A i \in seenRecordIndexes : Entry(i).call = Log[i].call /\ Entry(i).index = i
    BY <2>1, LogFacts
  <2>3. IndexedAsSigned
    <3>1. \A e \in projection.calls : IsKind(e.index, "call.open") /\ Log[e.index].call = e.call
      BY <1>1, <2>2 DEF ConsumerInv, Shows
    <3>2. ASSUME NEW e \in projection.settlements
          PROVE  /\ IsKind(e.index, "call.settled") /\ Log[e.index].call = e.call
                 /\ \E o \in projection.calls : o.call = e.call /\ o.index < e.index
      <4>1. PICK i \in seenRecordIndexes : IsKind(i, "call.settled") /\ e = Entry(i)
        BY <1>1 DEF ConsumerInv, Shows
      <4>2. PICK j \in seenRecordIndexes : j < i /\ IsKind(j, "call.open") /\ Log[j].call = Log[i].call
        BY <1>1, <4>1 DEF ConsumerInv, Shows
      <4>3. Entry(j) \in projection.calls
        BY <1>1, <4>2 DEF ConsumerInv, Shows
      <4>4. QED
        BY <2>2, <4>1, <4>2, <4>3
    <3>3. QED
      BY <3>1, <3>2 DEF IndexedAsSigned, IsKind
  <2>4. BehindReaderIsShown
    <3>1. SUFFICES ASSUME plane \in {"open", "closing"}, NEW i \in 1 .. (readerIndex - 1)
                   PROVE  /\ i \in seenRecordIndexes
                          /\ IsKind(i, "call.open") => Entry(i) \in projection.calls
                          /\ IsKind(i, "call.settled") => Entry(i) \in projection.settlements
      BY DEF BehindReaderIsShown, IsKind, Entry
    <3>2. i \in Indexes /\ i < readerIndex
      BY <2>1, LogFacts DEF Positions
    <3>3. i \in seenRecordIndexes
      BY <1>1, <3>1, <3>2 DEF ConsumerInv, BehindIsSeen
    <3>4. QED
      BY <1>1, <3>3 DEF ConsumerInv, Shows
  <2>5. QED
    BY <1>1, <2>3, <2>4 DEF ConsumerInv, ProjectionFollowsFeed
<1>2. QED
  BY <1>1, ConsumerIsSound, PTL

-----------------------------------------------------------------------------
(* Presence. *)

PresenceTypes ==
  /\ now \in Instants /\ userOf \in [Sessions -> People]
  /\ endedAt \in [Sessions -> 0 .. MaxNow]
  /\ members \subseteq People /\ removedAt \in [People -> 0 .. MaxNow]
  /\ frames \in 0 .. MaxFrames /\ lookups \subseteq Waits
  /\ leases \in [Sessions -> [until : Nat, typingUntil : Nat]]

\* No lease reaches further than one lease from now, from the end of its session
\* and the skew, or from the removal of its member; a frame that waits for the
\* member record can still grant no more than that.
LeasesEnd ==
  /\ \A s \in Sessions : leases[s].until <= now + Lease
  /\ \A f \in lookups :
       /\ f.receivedAt <= now
       /\ endedAt[f.session] # 0 => f.receivedAt <= endedAt[f.session] + Skew

\* What is shown was projected from the leases there are, at some time up to now.
ShownWasProjected == \E at \in 0 .. now : presence = Projection(leases, at)

DevicesAreFew == \A u \in People : IsFiniteSet(DevicesOf(u)) /\ Cardinality(DevicesOf(u)) <= MaxDevices

PresenceInv ==
  /\ PresenceTypes /\ LeasesEnd /\ ShownWasProjected /\ DevicesAreFew
  /\ DeadFadesOut /\ RemovedFadesOut

LEMMA PresenceNumbers ==
  /\ Skew \in Nat /\ Lease \in Nat /\ Lease > 0 /\ TypingLease \in Nat /\ TypingLease > 0
  /\ TypingLease <= Lease /\ MaxFrames \in Nat /\ MaxNow \in Nat /\ MaxNow > 0
  /\ MaxDevices \in Nat
BY PresenceAssumption

\* A user is shown if a lease of hers ran, and as typing if such a lease typed.
LEMMA ProjectionShows ==
  ASSUME NEW l, NEW at, NEW u, NEW b \in BOOLEAN
  PROVE  <<u, b>> \in Projection(l, at) <=>
           /\ \E s \in Sessions : userOf[s] = u /\ l[s].until > at
           /\ b <=> \E s \in Sessions : userOf[s] = u /\ l[s].until > at /\ l[s].typingUntil > at
<1> DEFINE T(x) == \E s \in Sessions : userOf[s] = x /\ l[s].until > at /\ l[s].typingUntil > at
           users == {userOf[s] : s \in {s \in Sessions : l[s].until > at}}
<1>1. Projection(l, at) = {<<x, T(x)>> : x \in users}
  BY DEF Projection
<1>2. u \in users <=> \E s \in Sessions : userOf[s] = u /\ l[s].until > at
  OBVIOUS
<1>3. T(u) \in BOOLEAN
  OBVIOUS
<1> HIDE DEF T, users
<1>4. <<u, b>> \in {<<x, T(x)>> : x \in users} <=> u \in users /\ b = T(u)
  OBVIOUS
<1>5. <<u, b>> \in Projection(l, at) <=> u \in users /\ (b <=> T(u))
  BY <1>1, <1>3, <1>4
<1>6. QED
  BY <1>2, <1>5 DEF T

LEMMA InitPresence == PresenceInit => PresenceInv
<1> SUFFICES ASSUME PresenceInit PROVE PresenceInv
  OBVIOUS
<1> USE PresenceNumbers
<1>1. /\ now = 1 /\ userOf \in [Sessions -> People] /\ endedAt = [s \in Sessions |-> 0]
      /\ members = People /\ removedAt = [u \in People |-> 0] /\ frames = 0 /\ lookups = {}
      /\ leases = [s \in Sessions |-> NoLease] /\ presence = {}
  BY DEF PresenceInit
<1>2. NoLease \in [until : Nat, typingUntil : Nat] /\ NoLease.until = 0
  BY DEF NoLease
<1>3. PresenceTypes
  BY <1>1, <1>2 DEF PresenceTypes, Instants
<1>4. LeasesEnd /\ DeadFadesOut /\ RemovedFadesOut
  BY <1>1, <1>2 DEF LeasesEnd, DeadFadesOut, RemovedFadesOut, Leased
<1>5. presence = Projection(leases, 0) /\ ShownWasProjected
  <2>1. {s \in Sessions : leases[s].until > 0} = {}
    BY <1>1, <1>2
  <2>2. Projection(leases, 0) = {}
    BY <2>1 DEF Projection
  <2>3. QED
    BY <1>1, <2>2 DEF ShownWasProjected
<1>6. DevicesAreFew
  <2>1. \A u \in People : DevicesOf(u) = {}
    BY <1>1, <1>2 DEF DevicesOf, Leased
  <2>2. QED
    BY <2>1, FS_EmptySet DEF DevicesAreFew
<1>7. QED
  BY <1>3, <1>4, <1>5, <1>6 DEF PresenceInv

LEMMA ProjectedStill ==
  ASSUME ShownWasProjected, UNCHANGED <<userOf, leases, presence>>, now \in Nat, now' \in Nat, now <= now'
  PROVE  ShownWasProjected'
<1>1. PICK at \in 0 .. now : presence = Projection(leases, at)
  BY DEF ShownWasProjected
<1>2. at \in 0 .. now' /\ presence' = Projection(leases, at)'
  BY <1>1 DEF Projection
<1>3. QED
  BY <1>2 DEF ShownWasProjected, Projection

\* The other devices change nothing the watcher keeps.
LEMMA WorldKeepsPresence ==
  ASSUME PresenceInv,
         \/ \E s \in Sessions : End(s)
         \/ \E u \in People : RemovePerson(u) \/ Rejoin(u)
         \/ Tick
  PROVE  PresenceInv'
<1> USE PresenceNumbers
<1>1. UNCHANGED <<userOf, frames, lookups, leases, presence>>
  BY DEF End, RemovePerson, Rejoin, Tick, watcher
<1>2. now' \in Instants /\ now' \in Nat /\ now <= now' /\ now \in Nat
  BY DEF End, RemovePerson, Rejoin, Tick, PresenceInv, PresenceTypes, Instants
<1>3. /\ endedAt' \in [Sessions -> 0 .. MaxNow] /\ members' \subseteq People
      /\ removedAt' \in [People -> 0 .. MaxNow]
  BY DEF End, RemovePerson, Rejoin, Tick, PresenceInv, PresenceTypes, Instants
<1>4. /\ \A s \in Sessions : endedAt'[s] # endedAt[s] => endedAt'[s] = now
      /\ \A s \in Sessions : endedAt'[s] = 0 => endedAt[s] = 0
      /\ \A u \in People : u \notin members' => (u \notin members /\ removedAt'[u] = removedAt[u])
                                                \/ removedAt'[u] = now
  BY DEF End, RemovePerson, Rejoin, Tick, PresenceInv, PresenceTypes, Instants
<1>5. PresenceTypes'
  BY <1>1, <1>2, <1>3 DEF PresenceInv, PresenceTypes
<1>6. /\ \A s \in Sessions : leases[s].until \in Nat /\ userOf[s] \in People
      /\ \A f \in lookups : f.session \in Sessions /\ f.receivedAt \in Nat
  BY DEF PresenceInv, PresenceTypes, Waits, Instants
<1>7. LeasesEnd'
  <2>1. now' \in Nat /\ \A x \in Sessions : endedAt'[x] \in Nat
    BY <1>2, <1>3 DEF Instants
  <2>2. \A x \in Sessions : leases[x].until <= now' + Lease
    BY <1>2, <1>6, <2>1 DEF PresenceInv, LeasesEnd
  <2>3. ASSUME NEW f \in lookups
        PROVE  f.receivedAt <= now' /\ (endedAt'[f.session] # 0 => f.receivedAt <= endedAt'[f.session] + Skew)
    <3>1. f.receivedAt <= now /\ f.session \in Sessions /\ f.receivedAt \in Nat
      BY <1>6 DEF PresenceInv, LeasesEnd
    <3>2. CASE endedAt'[f.session] = endedAt[f.session]
      BY <1>2, <2>1, <3>1, <3>2 DEF PresenceInv, LeasesEnd
    <3>3. CASE endedAt'[f.session] = now
      BY <1>2, <2>1, <3>1, <3>3
    <3>4. QED
      BY <1>4, <3>1, <3>2, <3>3
  <2>4. QED
    BY <1>1, <2>2, <2>3 DEF LeasesEnd
<1>8. ShownWasProjected'
  BY <1>1, <1>2, ProjectedStill DEF PresenceInv
<1>9. DevicesAreFew'
  BY <1>1 DEF PresenceInv, DevicesAreFew, DevicesOf, Leased
<1>10. DeadFadesOut'
  BY <1>1, <1>2, <1>3, <1>4, <1>6 DEF PresenceInv, LeasesEnd, DeadFadesOut, Leased
<1>11. RemovedFadesOut'
  BY <1>1, <1>2, <1>3, <1>4, <1>6 DEF PresenceInv, LeasesEnd, RemovedFadesOut, Leased
<1>12. QED
  BY <1>5, <1>7, <1>8, <1>9, <1>10, <1>11 DEF PresenceInv

LEMMA ReceiveKeepsPresence ==
  ASSUME PresenceInv, NEW s \in Sessions, NEW f \in SentBy(s), Receive(f)
  PROVE  PresenceInv'
<1> USE PresenceNumbers
<1>1. /\ frames < MaxFrames /\ now - f.issuedAt <= Skew /\ frames' = frames + 1
      /\ lookups' = lookups \cup {[session |-> f.session, signal |-> f.signal, receivedAt |-> now]}
      /\ UNCHANGED <<now, userOf, endedAt, members, removedAt, leases, presence>>
  BY DEF Receive, InTime, world
<1>2. /\ f.session = s /\ f.signal \in Signals /\ f.issuedAt \in Nat /\ now \in Nat
      /\ endedAt[s] \in Nat /\ (endedAt[s] # 0 => f.issuedAt <= endedAt[s])
  BY DEF SentBy, Instants, PresenceInv, PresenceTypes
<1>3. PresenceTypes'
  BY <1>1, <1>2 DEF PresenceInv, PresenceTypes, Waits, Instants
<1>4. LeasesEnd'
  <2>1. ASSUME NEW g \in lookups'
        PROVE  g.receivedAt <= now /\ (endedAt[g.session] # 0 => g.receivedAt <= endedAt[g.session] + Skew)
    <3>1. CASE g \in lookups
      BY <3>1 DEF PresenceInv, LeasesEnd
    <3>2. CASE g = [session |-> f.session, signal |-> f.signal, receivedAt |-> now]
      <4>1. g.session = s /\ g.receivedAt = now
        BY <1>2, <3>2
      <4>2. endedAt[s] # 0 => now <= endedAt[s] + Skew
        BY <1>1, <1>2
      <4>3. QED
        BY <1>2, <4>1, <4>2
    <3>3. QED
      BY <1>1, <2>1, <3>1, <3>2
  <2>2. QED
    BY <1>1, <2>1 DEF PresenceInv, LeasesEnd
<1>5. ShownWasProjected'
  BY <1>1, <1>2, ProjectedStill DEF PresenceInv
<1>6. DevicesAreFew' /\ DeadFadesOut' /\ RemovedFadesOut'
  BY <1>1 DEF PresenceInv, DevicesAreFew, DevicesOf, Leased, DeadFadesOut, RemovedFadesOut
<1>7. QED
  BY <1>3, <1>4, <1>5, <1>6 DEF PresenceInv

LEMMA LookupKeepsPresence == ASSUME PresenceInv, NEW f \in lookups, Lookup(f) PROVE PresenceInv'
<1> USE PresenceNumbers
<1>1. /\ lookups' = lookups \ {f} /\ UNCHANGED <<now, userOf, endedAt, members, removedAt, frames>>
  BY DEF Lookup, world
<1>2. /\ now \in Nat /\ now \in Instants /\ f.session \in Sessions /\ f.signal \in Signals /\ f.receivedAt \in Nat
      /\ f.receivedAt <= now
      /\ endedAt[f.session] # 0 => f.receivedAt <= endedAt[f.session] + Skew
      /\ endedAt[f.session] \in Nat /\ userOf[f.session] \in People
  BY DEF PresenceInv, PresenceTypes, LeasesEnd, Waits, Instants
<1>3. CASE Applies(f)
  <2> DEFINE s == f.session  renewed == Renewed(leases[s], f.signal, f.receivedAt)
  <2>1. leases' = [leases EXCEPT ![s] = renewed] /\ presence' = Projection(leases', f.receivedAt)
    BY <1>3 DEF Lookup, Project, Shown
  <2>2. /\ userOf[s] \in members /\ HasDeviceSlot(s)
        /\ f.signal \in {"typing", "quiet"} => leases[s].until > f.receivedAt
    BY <1>3 DEF Applies, IsMember
  <2>3. leases[s] \in [until : Nat, typingUntil : Nat]
    BY <1>2 DEF PresenceInv, PresenceTypes
  <2>4. /\ renewed \in [until : Nat, typingUntil : Nat]
        /\ \/ renewed.until = f.receivedAt + Lease \/ renewed.until = 0
           \/ renewed.until = leases[s].until
        /\ f.signal \in {"typing", "quiet"} => renewed.until = leases[s].until
    BY <1>2, <2>3 DEF Renewed, NoLease, Signals
  <2> HIDE DEF renewed
  <2>5. /\ leases' \in [Sessions -> [until : Nat, typingUntil : Nat]]
        /\ leases'[s] = renewed /\ \A x \in Sessions \ {s} : leases'[x] = leases[x]
    BY <1>2, <2>1, <2>4 DEF PresenceInv, PresenceTypes
  <2>6. PresenceTypes'
    BY <1>1, <2>5 DEF PresenceInv, PresenceTypes
  <2>7. LeasesEnd'
    <3>1. \A x \in Sessions : leases'[x].until <= now + Lease
      BY <1>2, <2>3, <2>4, <2>5 DEF PresenceInv, PresenceTypes, LeasesEnd
    <3>2. QED
      BY <1>1, <3>1 DEF PresenceInv, LeasesEnd
  <2>8. ShownWasProjected'
    <3>1. f.receivedAt \in 0 .. now' /\ presence' = Projection(leases, f.receivedAt)'
      BY <1>1, <1>2, <2>1 DEF Projection
    <3>2. QED
      BY <3>1 DEF ShownWasProjected, Projection
  <2>9. DevicesAreFew'
    <3>1. SUFFICES ASSUME NEW u \in People
                   PROVE  IsFiniteSet(DevicesOf(u)') /\ Cardinality(DevicesOf(u)') <= MaxDevices
      BY DEF DevicesAreFew
    <3>2. IsFiniteSet(DevicesOf(u)) /\ Cardinality(DevicesOf(u)) <= MaxDevices
          /\ Cardinality(DevicesOf(u)) \in Nat
      BY FS_CardinalityType DEF PresenceInv, DevicesAreFew
    <3>3. DevicesOf(u)' \subseteq DevicesOf(u) \/ (u = userOf[s] /\ DevicesOf(u)' \subseteq DevicesOf(u) \cup {s})
      BY <1>1, <2>5 DEF DevicesOf, Leased
    <3>4. CASE DevicesOf(u)' \subseteq DevicesOf(u)
      <4>1. /\ IsFiniteSet(DevicesOf(u)') /\ Cardinality(DevicesOf(u)') <= Cardinality(DevicesOf(u))
            /\ Cardinality(DevicesOf(u)') \in Nat
        BY <3>2, <3>4, FS_Subset, FS_CardinalityType
      <4>2. QED
        BY <3>2, <4>1
    <3>5. CASE u = userOf[s] /\ DevicesOf(u)' \subseteq DevicesOf(u) \cup {s} /\ s \notin DevicesOf(u)
      <4>1. s \notin Leased
        BY <1>2, <3>5 DEF DevicesOf
      <4>2. Cardinality(DevicesOf(u)) < MaxDevices
        BY <2>2, <3>5, <4>1 DEF HasDeviceSlot
      <4>3. /\ IsFiniteSet(DevicesOf(u) \cup {s})
            /\ Cardinality(DevicesOf(u) \cup {s}) = Cardinality(DevicesOf(u)) + 1
        BY <3>2, <3>5, FS_AddElement
      <4>4. /\ IsFiniteSet(DevicesOf(u)')
            /\ Cardinality(DevicesOf(u)') <= Cardinality(DevicesOf(u) \cup {s})
            /\ Cardinality(DevicesOf(u)') \in Nat
        BY <3>5, <4>3, FS_Subset, FS_CardinalityType
      <4>5. QED
        BY <3>2, <4>2, <4>3, <4>4
    <3>6. QED
      BY <3>3, <3>4, <3>5
  <2>10. DeadFadesOut'
    <3>1. SUFFICES ASSUME NEW x \in Sessions, leases'[x].until # 0, endedAt[x] # 0
                   PROVE  leases'[x].until <= endedAt[x] + Skew + Lease
      BY <1>1 DEF DeadFadesOut, Leased
    <3>2. leases[x].until \in Nat /\ endedAt[x] \in Nat
      BY DEF PresenceInv, PresenceTypes
    <3>3. leases[x].until # 0 => leases[x].until <= endedAt[x] + Skew + Lease
      BY <3>1 DEF PresenceInv, DeadFadesOut, Leased
    <3>4. QED
      BY <1>2, <2>4, <2>5, <3>1, <3>2, <3>3
  <2>11. RemovedFadesOut'
    <3>1. SUFFICES ASSUME NEW x \in Sessions, leases'[x].until # 0, userOf[x] \notin members
                   PROVE  leases'[x].until <= removedAt[userOf[x]] + Lease
      BY <1>1 DEF RemovedFadesOut, Leased
    <3>2. leases'[x] = leases[x]
      BY <2>2, <2>5, <3>1
    <3>3. QED
      BY <3>1, <3>2 DEF PresenceInv, RemovedFadesOut, Leased
  <2>12. QED
    BY <2>6, <2>7, <2>8, <2>9, <2>10, <2>11 DEF PresenceInv
<1>4. CASE ~Applies(f)
  <2>1. UNCHANGED <<leases, presence>>
    BY <1>4 DEF Lookup
  <2>2. ShownWasProjected'
    BY <1>1, <1>2, <2>1, ProjectedStill DEF PresenceInv
  <2>3. PresenceTypes' /\ LeasesEnd'
    BY <1>1, <2>1 DEF PresenceInv, PresenceTypes, LeasesEnd
  <2>4. DevicesAreFew' /\ DeadFadesOut' /\ RemovedFadesOut'
    BY <1>1, <2>1 DEF PresenceInv, DevicesAreFew, DevicesOf, Leased, DeadFadesOut, RemovedFadesOut
  <2>5. QED
    BY <2>2, <2>3, <2>4 DEF PresenceInv
<1>5. QED
  BY <1>3, <1>4

\* Leases are dropped or lose their typing, and the rest is projected anew.
LEMMA DropKeepsPresence ==
  ASSUME PresenceInv, NEW at \in 0 .. now, presence' = Projection(leases', at),
         leases' \in [Sessions -> [until : Nat, typingUntil : Nat]],
         \A s \in Sessions : leases'[s].until \in {0, leases[s].until},
         UNCHANGED <<world, frames>>, lookups' \subseteq lookups
  PROVE  PresenceInv'
<1>1. UNCHANGED <<now, userOf, endedAt, members, removedAt>>
  BY DEF world
<1>2. PresenceTypes'
  BY <1>1 DEF PresenceInv, PresenceTypes
<1>3. LeasesEnd'
  <2>1. now \in Nat
    BY DEF PresenceInv, PresenceTypes, Instants
  <2>2. QED
    BY <1>1, <2>1, PresenceNumbers DEF PresenceInv, LeasesEnd
<1>4. ShownWasProjected'
  <2>1. at \in 0 .. now' /\ presence' = Projection(leases, at)'
    BY <1>1 DEF Projection
  <2>2. QED
    BY <2>1 DEF ShownWasProjected, Projection
<1>5. DevicesAreFew'
  <2>1. SUFFICES ASSUME NEW u \in People
                 PROVE  IsFiniteSet(DevicesOf(u)') /\ Cardinality(DevicesOf(u)') <= MaxDevices
    BY DEF DevicesAreFew
  <2>2. IsFiniteSet(DevicesOf(u)) /\ Cardinality(DevicesOf(u)) <= MaxDevices
    BY DEF PresenceInv, DevicesAreFew
  <2>3. DevicesOf(u)' \subseteq DevicesOf(u)
    BY <1>1 DEF DevicesOf, Leased
  <2>4. /\ IsFiniteSet(DevicesOf(u)') /\ Cardinality(DevicesOf(u)') <= Cardinality(DevicesOf(u))
        /\ Cardinality(DevicesOf(u)') \in Nat /\ Cardinality(DevicesOf(u)) \in Nat
    BY <2>2, <2>3, FS_Subset, FS_CardinalityType
  <2>5. QED
    BY <2>2, <2>4, PresenceNumbers
<1>6. DeadFadesOut' /\ RemovedFadesOut'
  BY <1>1 DEF PresenceInv, DeadFadesOut, RemovedFadesOut, Leased
<1>7. QED
  BY <1>2, <1>3, <1>4, <1>5, <1>6 DEF PresenceInv

LEMMA ExpireKeepsPresence == PresenceInv /\ (Expire \/ Reopen) => PresenceInv'
<1> SUFFICES ASSUME PresenceInv, Expire \/ Reopen PROVE PresenceInv'
  OBVIOUS
<1>1. now \in 0 .. now /\ leases \in [Sessions -> [until : Nat, typingUntil : Nat]]
  BY DEF PresenceInv, PresenceTypes, Instants
<1>2. NoLease \in [until : Nat, typingUntil : Nat] /\ NoLease.until = 0
  BY DEF NoLease
<1>3. CASE Expire
  <2>1. /\ leases' = [s \in Sessions |->
              IF Expired(s) THEN NoLease
              ELSE IF Lapsed(s) THEN [leases[s] EXCEPT !.typingUntil = 0] ELSE leases[s]]
        /\ presence' = Projection(leases', now) /\ UNCHANGED <<world, frames, lookups>>
    BY <1>3 DEF Expire, Project, Shown
  <2>2. \A s \in Sessions : [leases[s] EXCEPT !.typingUntil = 0] \in [until : Nat, typingUntil : Nat]
                            /\ [leases[s] EXCEPT !.typingUntil = 0].until = leases[s].until
    BY <1>1
  <2>3. /\ leases' \in [Sessions -> [until : Nat, typingUntil : Nat]]
        /\ \A s \in Sessions : leases'[s].until \in {0, leases[s].until}
    BY <1>1, <1>2, <2>1, <2>2
  <2>4. QED
    BY <1>1, <2>1, <2>3, DropKeepsPresence
<1>4. CASE Reopen
  <2>1. /\ lookups' = {} /\ leases' = [s \in Sessions |-> NoLease] /\ presence' = {}
        /\ UNCHANGED <<world, frames>>
    BY <1>4 DEF Reopen
  <2>2. Projection(leases', now) = {}
    <3>1. {s \in Sessions : leases'[s].until > now} = {}
      BY <1>1, <1>2, <2>1
    <3>2. QED
      BY <3>1 DEF Projection
  <2>3. /\ leases' \in [Sessions -> [until : Nat, typingUntil : Nat]]
        /\ \A s \in Sessions : leases'[s].until \in {0, leases[s].until}
    BY <1>2, <2>1
  <2>4. QED
    BY <1>1, <2>1, <2>2, <2>3, DropKeepsPresence
<1>5. QED
  BY <1>3, <1>4

LEMMA PresenceIsSound == PresenceSpec => []PresenceInv
<1>1. PresenceInv /\ [PresenceNext]_presenceVars => PresenceInv'
  <2>1. SUFFICES ASSUME PresenceInv, [PresenceNext]_presenceVars PROVE PresenceInv'
    OBVIOUS
  <2>2. CASE UNCHANGED presenceVars
    <3>1. UNCHANGED <<now, userOf, endedAt, members, removedAt, frames, lookups, leases, presence>>
      BY <2>2 DEF presenceVars, world, watcher
    <3>2. now \in Nat
      BY <2>1 DEF PresenceInv, PresenceTypes, Instants
    <3>3. ShownWasProjected'
      BY <2>1, <3>1, <3>2, ProjectedStill DEF PresenceInv
    <3>4. PresenceTypes' /\ LeasesEnd'
      BY <2>1, <3>1 DEF PresenceInv, PresenceTypes, LeasesEnd
    <3>5. DevicesAreFew' /\ DeadFadesOut' /\ RemovedFadesOut'
      BY <2>1, <3>1 DEF PresenceInv, DevicesAreFew, DevicesOf, Leased, DeadFadesOut, RemovedFadesOut
    <3>6. QED
      BY <3>3, <3>4, <3>5 DEF PresenceInv
  <2>3. CASE PresenceNext
    BY <2>1, <2>3, WorldKeepsPresence, ReceiveKeepsPresence, LookupKeepsPresence, ExpireKeepsPresence
       DEF PresenceNext
  <2>4. QED
    BY <2>1, <2>2, <2>3
<1>2. QED
  BY <1>1, InitPresence, PTL DEF PresenceSpec

\* Whoever is gone or removed fades out of the room within a lease and the skew,
\* and what is shown is what the leases say, for any number of people and
\* sessions and any lengths of leases.
THEOREM ShownAreThere == PresenceSpec => []ShownIsThere
<1>1. ASSUME PresenceInv PROVE ShownMatchesLeases
  <2>1. PICK at \in 0 .. now : presence = Projection(leases, at)
    BY <1>1 DEF PresenceInv, ShownWasProjected
  <2>2. now \in Nat /\ \A s \in Sessions : leases[s].until \in Nat /\ leases[s].typingUntil \in Nat
    BY <1>1 DEF PresenceInv, PresenceTypes, Instants
  <2>3. SUFFICES ASSUME NEW u \in People
                 PROVE  /\ (\E s \in DevicesOf(u) : leases[s].until > now)
                             => \E t \in BOOLEAN : <<u, t>> \in presence
                        /\ (\E t \in BOOLEAN : <<u, t>> \in presence) => DevicesOf(u) # {}
                        /\ (\E s \in DevicesOf(u) : leases[s].until > now /\ leases[s].typingUntil > now)
                             => <<u, TRUE>> \in presence
                        /\ <<u, TRUE>> \in presence => \E s \in DevicesOf(u) : leases[s].typingUntil # 0
    BY DEF ShownMatchesLeases
  <2> DEFINE runs == \E s \in Sessions : userOf[s] = u /\ leases[s].until > at
             types == \E s \in Sessions : userOf[s] = u /\ leases[s].until > at /\ leases[s].typingUntil > at
  <2>4. \A b \in BOOLEAN : <<u, b>> \in presence <=> runs /\ (b <=> types)
    BY <2>1, ProjectionShows
  <2>12. /\ \A s \in DevicesOf(u) : s \in Sessions /\ userOf[s] = u
         /\ \A t \in Nat : t > now => t > at
    BY <2>1, <2>2 DEF DevicesOf, Leased
  <2>5. (\E s \in DevicesOf(u) : leases[s].until > now) => runs
    BY <2>2, <2>12
  <2>6. (\E s \in DevicesOf(u) : leases[s].until > now /\ leases[s].typingUntil > now) => runs /\ types
    BY <2>2, <2>12
  <2>7. runs => DevicesOf(u) # {}
    BY <2>2 DEF DevicesOf, Leased
  <2>8. types => \E s \in DevicesOf(u) : leases[s].typingUntil # 0
    BY <2>2 DEF DevicesOf, Leased
  <2>9. runs \in BOOLEAN /\ types \in BOOLEAN
    OBVIOUS
  <2> HIDE DEF runs, types
  <2>10. /\ <<u, TRUE>> \in presence <=> runs /\ types
         /\ <<u, FALSE>> \in presence <=> runs /\ ~types
    BY <2>4
  <2>11. QED
    BY <2>5, <2>6, <2>7, <2>8, <2>9, <2>10
<1>2. PresenceInv => ShownIsThere
  BY <1>1 DEF PresenceInv, ShownIsThere
<1>3. QED
  BY <1>2, PresenceIsSound, PTL
-----------------------------------------------------------------------------
(* Attachments on their way (MediaTransfer). *)

Begins(s, t) == Len(s) <= Len(t) /\ \A i \in 1 .. Len(s) : s[i] = t[i]
Attachment == [id : Uploads, bytes : Files]

ImportTypes ==
  /\ file \in [Uploads -> Files \cup {<<>>}]
  /\ upload \in [Uploads -> {"new", "open", "committing", "gone"}]
  /\ chunks \in [Uploads -> Seq(Bytes)] /\ plaintext \in [Uploads -> Seq(Bytes)]
  /\ import \in [Uploads -> {"no", "room", "writing", "stored"}]
  /\ writing \subseteq Uploads /\ attachments \subseteq Attachment

\* An import collects the chunks of a whole file or finds them cleared.
UploadFacts(u) ==
  /\ Begins(chunks[u], file[u])
  /\ upload[u] = "new" => import[u] = "no" /\ chunks[u] = <<>>
  /\ upload[u] = "open" => import[u] = "no" /\ file[u] \in Files
  /\ import[u] # "no" => file[u] \in Files /\ chunks[u] \in {<<>>, file[u]}
  /\ import[u] \in {"writing", "stored"} => plaintext[u] = file[u]

AttachmentsAreTold == \A a \in attachments : a.bytes = file[a.id] /\ upload[a.id] # "new"

OneWriter ==
  /\ \A u, v \in writing : u = v
  /\ \A u \in writing : import[u] = "writing"

ImportInv == ImportTypes /\ AttachmentsAreTold /\ OneWriter /\ \A u \in Uploads : UploadFacts(u)

ReadTypes ==
  /\ download \in [Downloads -> {"new", "checked", "reading", "open", "gone"}]
  /\ item \in [Downloads -> SUBSET Attachment]
  /\ nextIndex \in [Downloads -> Nat] /\ lastIndex \in [Downloads -> Nat]
  /\ got \in [Downloads -> Seq(Bytes)]

\* A download reads one attachment; the window is at the next chunk or, when an
\* answer was lost, at the one before.
DownloadFacts(d) ==
  /\ lastIndex[d] = nextIndex[d]
  /\ download[d] \in {"new", "checked", "reading"} => nextIndex[d] = 0 /\ got[d] = <<>>
  /\ download[d] = "new" <=> item[d] = {}
  /\ item[d] # {} => Content(d) \in Files /\ Begins(got[d], Content(d))
  /\ download[d] = "open" => /\ nextIndex[d] < Len(Content(d))
                             /\ Len(got[d]) \in {nextIndex[d], nextIndex[d] - 1}

FewAreKept == IsFiniteSet(Kept) /\ IsFiniteSet(UnderWay) /\ PlaintextIsBounded

ReadInv == ReadTypes /\ FewAreKept /\ \A d \in Downloads : DownloadFacts(d)

MediaInv == ImportInv /\ ReadInv

LEMMA FileShape ==
  ASSUME NEW f \in Files
  PROVE  f \in Seq(Bytes) /\ Len(f) \in Nat \ {0} /\ f # <<>>
<1>1. PICK n \in 1 .. MaxChunks : f \in [1 .. n -> Bytes]
  BY DEF Files
<1>2. n \in Nat \ {0} /\ DOMAIN f = 1 .. n
  BY <1>1, MediaAssumption
<1>3. f \in Seq(Bytes)
  BY <1>1, <1>2, SeqDef
<1>4. Len(f) = n
  BY <1>2, <1>3, LenProperties
<1>5. QED
  BY <1>2, <1>3, <1>4, EmptySeq

LEMMA NothingBegins ==
  ASSUME NEW t \in Seq(Bytes)
  PROVE  Begins(<<>>, t)
BY LenProperties, EmptySeq DEF Begins

LEMMA NextBegins ==
  ASSUME NEW s \in Seq(Bytes), NEW t \in Seq(Bytes), Begins(s, t), Len(s) < Len(t)
  PROVE  LET r == Append(s, t[Len(s) + 1])
         IN  r \in Seq(Bytes) /\ Len(r) = Len(s) + 1 /\ Begins(r, t)
<1>1. Len(s) \in Nat /\ Len(t) \in Nat
  BY LenProperties
<1>2. t[Len(s) + 1] \in Bytes
  BY <1>1, ElementOfSeq
<1>3. QED
  BY <1>1, <1>2 DEF Begins

LEMMA WholeIsEqual ==
  ASSUME NEW s \in Seq(Bytes), NEW t \in Seq(Bytes), Begins(s, t), Len(s) = Len(t)
  PROVE  s = t
BY SeqEqual DEF Begins

LEMMA InitMedia == MediaInit => MediaInv
<1> SUFFICES ASSUME MediaInit PROVE MediaInv
  OBVIOUS
<1>1. <<>> \in Seq(Bytes) /\ Len(<<>>) = 0 /\ Begins(<<>>, <<>>)
  BY EmptySeq, NothingBegins
<1>2. ImportInv
  BY <1>1 DEF MediaInit, ImportInv, ImportTypes, AttachmentsAreTold, OneWriter, UploadFacts
<1>3. Kept = {} /\ Reading = {} /\ UnderWay = {}
  BY DEF MediaInit, Kept, Reading, UnderWay
<1>4. FewAreKept
  BY <1>3, FS_EmptySet, MediaAssumption DEF FewAreKept, PlaintextIsBounded
<1>5. ReadTypes /\ \A d \in Downloads : DownloadFacts(d)
  BY <1>1 DEF MediaInit, ReadTypes, DownloadFacts
<1>6. QED
  BY <1>2, <1>4, <1>5 DEF MediaInv, ReadInv

\* The two sides share only the attachments, which downloads copy.
LEMMA ImportsLeaveReads == ReadInv /\ UNCHANGED downloading => ReadInv'
BY DEF downloading, ReadInv, ReadTypes, FewAreKept, PlaintextIsBounded, Kept, Reading, UnderWay,
       DownloadFacts, Content

LEMMA ReadsLeaveImports == ImportInv /\ UNCHANGED uploading => ImportInv'
BY DEF uploading, ImportInv, ImportTypes, AttachmentsAreTold, OneWriter, UploadFacts

\* What ends an import: EndImport posts nothing or the file.
LEMMA EndKeepsImports ==
  ASSUME ImportInv, NEW u \in Uploads, NEW posted, EndImport(u, posted),
         upload[u] # "new", posted \subseteq Attachment, \A a \in posted : a.id = u /\ a.bytes = file[u]
  PROVE  ImportInv'
<1>1. /\ file' = file /\ upload' = [upload EXCEPT ![u] = "gone"] /\ chunks' = [chunks EXCEPT ![u] = <<>>]
      /\ import' = [import EXCEPT ![u] = "no"] /\ plaintext' = [plaintext EXCEPT ![u] = <<>>]
      /\ writing' = writing \ {u} /\ attachments' = attachments \cup posted
  BY DEF EndImport, Dispose, Released
<1>2. <<>> \in Seq(Bytes) /\ \A v \in Uploads : file[v] \in Seq(Bytes)
  BY EmptySeq, FileShape DEF ImportInv, ImportTypes
<1>3. ImportTypes'
  BY <1>1, <1>2 DEF ImportInv, ImportTypes
<1>4. AttachmentsAreTold'
  BY <1>1 DEF ImportInv, ImportTypes, AttachmentsAreTold, Attachment
<1>5. OneWriter'
  BY <1>1 DEF ImportInv, ImportTypes, OneWriter
<1>6. ASSUME NEW v \in Uploads PROVE UploadFacts(v)'
  <2>1. CASE v = u
    BY <1>1, <1>2, <2>1, NothingBegins DEF ImportInv, ImportTypes, UploadFacts
  <2>2. CASE v # u
    BY <1>1, <2>2 DEF ImportInv, ImportTypes, UploadFacts
  <2>3. QED
    BY <2>1, <2>2
<1>7. QED
  BY <1>3, <1>4, <1>5, <1>6 DEF ImportInv

LEMMA BeginKeepsImports ==
  ASSUME ImportInv, NEW u \in Uploads, NEW f \in Files, BeginUpload(u, f)
  PROVE  ImportInv'
<1>1. /\ upload[u] = "new" /\ upload' = [upload EXCEPT ![u] = "open"] /\ file' = [file EXCEPT ![u] = f]
      /\ UNCHANGED <<chunks, import, plaintext, writing, attachments>>
  BY DEF BeginUpload, IsNext
<1>2. ImportTypes'
  BY <1>1 DEF ImportInv, ImportTypes
<1>3. AttachmentsAreTold'
  BY <1>1 DEF ImportInv, ImportTypes, AttachmentsAreTold, Attachment
<1>4. OneWriter'
  BY <1>1 DEF ImportInv, ImportTypes, OneWriter
<1>5. ASSUME NEW v \in Uploads PROVE UploadFacts(v)'
  <2>1. CASE v = u
    BY <1>1, <2>1, FileShape, NothingBegins DEF ImportInv, ImportTypes, UploadFacts
  <2>2. CASE v # u
    BY <1>1, <2>2 DEF ImportInv, ImportTypes, UploadFacts
  <2>3. QED
    BY <2>1, <2>2
<1>6. QED
  BY <1>2, <1>3, <1>4, <1>5 DEF ImportInv

LEMMA AppendKeepsImports ==
  ASSUME ImportInv, NEW u \in Uploads, NEW index \in 0 .. Len(file[u]) - 1, AppendUpload(u, index)
  PROVE  ImportInv'
<1>1. /\ upload[u] = "open" /\ index = Len(chunks[u])
      /\ chunks' = [chunks EXCEPT ![u] = Append(chunks[u], file[u][Len(chunks[u]) + 1])]
      /\ UNCHANGED <<file, upload, import, plaintext, writing, attachments>>
  BY DEF AppendUpload, NextChunk
<1>2. file[u] \in Seq(Bytes) /\ chunks[u] \in Seq(Bytes) /\ Begins(chunks[u], file[u]) /\ import[u] = "no"
  BY <1>1, FileShape DEF ImportInv, ImportTypes, UploadFacts
<1>3. Len(chunks[u]) < Len(file[u])
  BY <1>1, <1>2, LenProperties
<1> DEFINE more == Append(chunks[u], file[u][Len(chunks[u]) + 1])
<1>4. more \in Seq(Bytes) /\ Begins(more, file[u])
  BY <1>2, <1>3, NextBegins
<1>5. chunks' = [chunks EXCEPT ![u] = more]
  BY <1>1
<1> HIDE DEF more
<1>6. ImportTypes'
  BY <1>1, <1>4, <1>5 DEF ImportInv, ImportTypes
<1>7. AttachmentsAreTold' /\ OneWriter'
  BY <1>1 DEF ImportInv, AttachmentsAreTold, OneWriter
<1>8. ASSUME NEW v \in Uploads PROVE UploadFacts(v)'
  <2>1. CASE v = u
    BY <1>1, <1>2, <1>4, <1>5, <2>1 DEF ImportInv, ImportTypes, UploadFacts
  <2>2. CASE v # u
    BY <1>1, <1>5, <2>2 DEF ImportInv, ImportTypes, UploadFacts
  <2>3. QED
    BY <2>1, <2>2
<1>9. QED
  BY <1>6, <1>7, <1>8 DEF ImportInv

LEMMA CommitKeepsImports ==
  ASSUME ImportInv, NEW u \in Uploads, CommitUpload(u)
  PROVE  ImportInv'
<1>1. /\ upload[u] = "open" /\ Len(chunks[u]) = Len(file[u])
      /\ upload' = [upload EXCEPT ![u] = "committing"] /\ import' = [import EXCEPT ![u] = "room"]
      /\ UNCHANGED <<file, chunks, plaintext, writing, attachments>>
  BY DEF CommitUpload, Complete
<1>2. file[u] \in Files /\ import[u] = "no" /\ chunks[u] = file[u]
  BY <1>1, FileShape, WholeIsEqual DEF ImportInv, ImportTypes, UploadFacts
<1>3. ImportTypes' /\ AttachmentsAreTold' /\ OneWriter'
  BY <1>1, <1>2 DEF ImportInv, ImportTypes, AttachmentsAreTold, OneWriter, Attachment
<1>4. ASSUME NEW v \in Uploads PROVE UploadFacts(v)'
  <2>1. CASE v = u
    BY <1>1, <1>2, <2>1 DEF ImportInv, ImportTypes, UploadFacts
  <2>2. CASE v # u
    BY <1>1, <2>2 DEF ImportInv, ImportTypes, UploadFacts
  <2>3. QED
    BY <2>1, <2>2
<1>5. QED
  BY <1>3, <1>4 DEF ImportInv

LEMMA CollectKeepsImports ==
  ASSUME ImportInv, NEW u \in Uploads, CollectImport(u)
  PROVE  ImportInv'
<1>1. import[u] = "room" /\ upload[u] # "new"
  BY DEF CollectImport, ImportInv, UploadFacts
<1>2. CASE ~(writing = {} /\ chunks[u] # <<>>)
  BY <1>1, <1>2, EndKeepsImports DEF CollectImport
<1>3. CASE writing = {} /\ chunks[u] # <<>>
  <2>1. /\ import' = [import EXCEPT ![u] = "writing"] /\ plaintext' = [plaintext EXCEPT ![u] = chunks[u]]
        /\ writing' = {u} /\ UNCHANGED <<file, upload, chunks, attachments>>
    BY <1>3 DEF CollectImport
  <2>2. chunks[u] = file[u]
    BY <1>1, <1>3 DEF ImportInv, UploadFacts
  <2>3. ImportTypes' /\ AttachmentsAreTold' /\ OneWriter'
    BY <2>1 DEF ImportInv, ImportTypes, AttachmentsAreTold, OneWriter, Attachment
  <2>4. ASSUME NEW v \in Uploads PROVE UploadFacts(v)'
    <3>1. CASE v = u
      BY <1>1, <2>1, <2>2, <3>1 DEF ImportInv, ImportTypes, UploadFacts
    <3>2. CASE v # u
      BY <2>1, <3>2 DEF ImportInv, ImportTypes, UploadFacts
    <3>3. QED
      BY <3>1, <3>2
  <2>5. QED
    BY <2>3, <2>4 DEF ImportInv
<1>4. QED
  BY <1>2, <1>3

LEMMA WriteKeepsImports ==
  ASSUME ImportInv, NEW u \in Uploads, WriteImport(u)
  PROVE  ImportInv'
<1>1. /\ import[u] = "writing" /\ import' = [import EXCEPT ![u] = "stored"] /\ writing' = writing \ {u}
      /\ UNCHANGED <<file, upload, chunks, plaintext, attachments>>
  BY DEF WriteImport, Released
<1>2. ImportTypes' /\ AttachmentsAreTold' /\ OneWriter'
  BY <1>1 DEF ImportInv, ImportTypes, AttachmentsAreTold, OneWriter, Attachment
<1>3. \A v \in Uploads : UploadFacts(v)'
  BY <1>1 DEF ImportInv, ImportTypes, UploadFacts
<1>4. QED
  BY <1>2, <1>3 DEF ImportInv

LEMMA PostKeepsImports ==
  ASSUME ImportInv, NEW u \in Uploads, PostImport(u) \/ ImportFails(u)
  PROVE  ImportInv'
<1>1. CASE PostImport(u)
  <2>1. upload[u] # "new" /\ plaintext[u] = file[u] /\ file[u] \in Files
    BY <1>1 DEF PostImport, ImportInv, UploadFacts
  <2> DEFINE posted == {[id |-> u, bytes |-> plaintext[u]]}
  <2>2. posted \subseteq Attachment /\ \A a \in posted : a.id = u /\ a.bytes = file[u]
    BY <2>1 DEF Attachment
  <2>3. EndImport(u, posted)
    BY <1>1 DEF PostImport
  <2> HIDE DEF posted
  <2>4. QED
    BY <2>1, <2>2, <2>3, EndKeepsImports
<1>2. CASE ImportFails(u)
  BY <1>2, EndKeepsImports DEF ImportFails, ImportInv, UploadFacts
<1>3. QED
  BY <1>1, <1>2

LEMMA DisposeKeepsImports ==
  ASSUME ImportInv, NEW u \in Uploads, AbortUpload(u) \/ UploadExpires(u)
  PROVE  ImportInv'
<1>1. /\ upload[u] = "open" /\ upload' = [upload EXCEPT ![u] = "gone"] /\ chunks' = [chunks EXCEPT ![u] = <<>>]
      /\ UNCHANGED <<file, import, plaintext, writing, attachments>>
  BY DEF AbortUpload, UploadExpires, Dispose
<1>2. <<>> \in Seq(Bytes) /\ file[u] \in Seq(Bytes)
  BY <1>1, EmptySeq, FileShape DEF ImportInv, UploadFacts
<1>3. ImportTypes' /\ AttachmentsAreTold' /\ OneWriter'
  BY <1>1, <1>2 DEF ImportInv, ImportTypes, AttachmentsAreTold, OneWriter, Attachment
<1>4. ASSUME NEW v \in Uploads PROVE UploadFacts(v)'
  <2>1. CASE v = u
    BY <1>1, <1>2, <2>1, NothingBegins DEF ImportInv, ImportTypes, UploadFacts
  <2>2. CASE v # u
    BY <1>1, <2>2 DEF ImportInv, ImportTypes, UploadFacts
  <2>3. QED
    BY <2>1, <2>2
<1>5. QED
  BY <1>3, <1>4 DEF ImportInv

LEMMA CloseKeepsImports == ImportInv /\ CloseMedia => ImportInv'
<1> SUFFICES ASSUME ImportInv, CloseMedia PROVE ImportInv'
  OBVIOUS
<1>1. /\ upload' = [u \in Uploads |-> IF upload[u] = "new" THEN "new" ELSE "gone"]
      /\ chunks' = [u \in Uploads |-> <<>>]
      /\ UNCHANGED <<file, import, plaintext, writing, attachments>>
  BY DEF CloseMedia
<1>2. <<>> \in Seq(Bytes) /\ \A v \in Uploads : file[v] \in Seq(Bytes)
  BY EmptySeq, FileShape DEF ImportInv, ImportTypes
<1>3. ImportTypes' /\ AttachmentsAreTold' /\ OneWriter'
  BY <1>1, <1>2 DEF ImportInv, ImportTypes, AttachmentsAreTold, OneWriter, Attachment
<1>4. ASSUME NEW v \in Uploads PROVE UploadFacts(v)'
  BY <1>1, <1>2, NothingBegins DEF ImportInv, ImportTypes, UploadFacts
<1>5. QED
  BY <1>3, <1>4 DEF ImportInv

LEMMA OneMore ==
  ASSUME NEW S, IsFiniteSet(S), NEW x
  PROVE  /\ IsFiniteSet(S \cup {x})
         /\ Cardinality(S \cup {x}) \in Nat /\ Cardinality(S \cup {x}) <= Cardinality(S) + 1
<1>1. /\ IsFiniteSet(S \cup {x})
      /\ Cardinality(S \cup {x}) = IF x \in S THEN Cardinality(S) ELSE Cardinality(S) + 1
  BY FS_AddElement
<1>2. Cardinality(S) \in Nat /\ Cardinality(S \cup {x}) \in Nat
  BY <1>1, FS_CardinalityType
<1>3. QED
  BY <1>1, <1>2

\* What the steps do to the exports that are under way, those among them that
\* read, and those that are kept.
SomeEnd == Kept' \subseteq Kept /\ UnderWay' \subseteq UnderWay /\ Reading' \subseteq Reading
OneBegins(d) ==
  /\ HasDownloadSlot /\ Cardinality(UnderWay) < MaxBegins
  /\ Kept' = Kept /\ UnderWay' = UnderWay \cup {d} /\ Reading' = Reading
OneReads(d) == HasReadSlot /\ Kept' = Kept /\ UnderWay' = UnderWay /\ Reading' = Reading \cup {d}
OneIsReady(d) ==
  /\ d \in UnderWay
  /\ Kept' = Kept \cup {d} /\ UnderWay' = UnderWay \ {d} /\ Reading' \subseteq Reading

LEMMA StillFew ==
  ASSUME FewAreKept, NEW d, SomeEnd \/ OneBegins(d) \/ OneReads(d) \/ OneIsReady(d)
  PROVE  FewAreKept'
<1> DEFINE k == Cardinality(Kept)
           w == Cardinality(UnderWay)
           r == Cardinality(Reading)
<1>1. IsFiniteSet(Kept) /\ IsFiniteSet(UnderWay) /\ IsFiniteSet(Reading)
  <2>1. Reading \subseteq UnderWay
    BY DEF Reading, UnderWay
  <2>2. QED
    BY <2>1, FS_Subset DEF FewAreKept
<1>2. k \in Nat /\ w \in Nat /\ r \in Nat
  BY <1>1, FS_CardinalityType
<1>3. MaxActiveDownloads \in Nat /\ MaxReads \in Nat /\ MaxBegins \in Nat
  BY MediaAssumption
<1>4. k + w <= MaxActiveDownloads - 1 + MaxBegins /\ r <= MaxReads
  BY DEF FewAreKept, PlaintextIsBounded
<1>5. SUFFICES /\ IsFiniteSet(Kept') /\ IsFiniteSet(UnderWay')
               /\ k' + w' <= MaxActiveDownloads - 1 + MaxBegins /\ r' <= MaxReads
  BY DEF FewAreKept, PlaintextIsBounded
<1>6. Reading' \subseteq Reading => r' \in Nat /\ r' <= r
  BY <1>1, FS_Subset, FS_CardinalityType
<1>7. UnderWay' \subseteq UnderWay => IsFiniteSet(UnderWay') /\ w' \in Nat /\ w' <= w
  BY <1>1, FS_Subset, FS_CardinalityType
<1>8. Kept' \subseteq Kept => IsFiniteSet(Kept') /\ k' \in Nat /\ k' <= k
  BY <1>1, FS_Subset, FS_CardinalityType
<1>9. CASE SomeEnd
  <2>1. /\ IsFiniteSet(Kept') /\ k' \in Nat /\ k' <= k
        /\ IsFiniteSet(UnderWay') /\ w' \in Nat /\ w' <= w
        /\ r' \in Nat /\ r' <= r
    BY <1>6, <1>7, <1>8, <1>9 DEF SomeEnd
  <2>2. k' + w' <= k + w
    BY <1>2, <2>1
  <2>3. k' + w' <= MaxActiveDownloads - 1 + MaxBegins
    BY <1>2, <1>3, <1>4, <2>1, <2>2
  <2>4. r' <= MaxReads
    BY <1>2, <1>3, <1>4, <2>1
  <2>5. QED
    BY <2>1, <2>3, <2>4
<1>10. CASE OneBegins(d)
  <2>1. k' = k /\ r' = r /\ IsFiniteSet(Kept') /\ k < MaxActiveDownloads /\ w < MaxBegins
    BY <1>1, <1>10 DEF OneBegins, HasDownloadSlot
  <2>2. IsFiniteSet(UnderWay') /\ w' \in Nat /\ w' <= w + 1
    BY <1>1, <1>10, OneMore DEF OneBegins
  <2>3. k' + w' <= MaxActiveDownloads - 1 + MaxBegins
    BY <1>2, <1>3, <2>1, <2>2
  <2>4. QED
    BY <1>4, <2>1, <2>2, <2>3
<1>11. CASE OneReads(d)
  <2>1. k' = k /\ w' = w /\ IsFiniteSet(Kept') /\ IsFiniteSet(UnderWay') /\ r < MaxReads
    BY <1>1, <1>11 DEF OneReads, HasReadSlot
  <2>2. r' \in Nat /\ r' <= r + 1
    BY <1>1, <1>11, OneMore DEF OneReads
  <2>3. QED
    BY <1>2, <1>3, <1>4, <2>1, <2>2
<1>12. CASE OneIsReady(d)
  <2>1. IsFiniteSet(Kept') /\ k' \in Nat /\ k' <= k + 1
    BY <1>1, <1>12, OneMore DEF OneIsReady
  <2>2. IsFiniteSet(UnderWay') /\ w' = w - 1
    BY <1>1, <1>12, FS_RemoveElement DEF OneIsReady
  <2>3. r' \in Nat /\ r' <= r
    BY <1>6, <1>12 DEF OneIsReady
  <2>4. k' + w' <= k + w
    BY <1>2, <2>1, <2>2
  <2>5. w' \in Nat
    BY <2>2, FS_CardinalityType DEF w
  <2>6. k' + w' <= MaxActiveDownloads - 1 + MaxBegins
    BY <1>2, <1>3, <1>4, <2>1, <2>4, <2>5
  <2>7. r' <= MaxReads
    BY <1>2, <1>3, <1>4, <2>3
  <2>8. QED
    BY <2>1, <2>2, <2>6, <2>7
<1>13. QED
  BY <1>9, <1>10, <1>11, <1>12

LEMMA BeginKeepsReads ==
  ASSUME MediaInv, NEW d \in Downloads, NEW a \in attachments, BeginDownload(d, a)
  PROVE  ReadInv'
<1>1. /\ download[d] = "new" /\ HasDownloadSlot /\ Cardinality(UnderWay) < MaxBegins
      /\ download' = [download EXCEPT ![d] = "checked"] /\ item' = [item EXCEPT ![d] = {a}]
      /\ UNCHANGED <<nextIndex, lastIndex, got>>
  BY DEF BeginDownload, IsNext
<1>2. a \in Attachment /\ a.bytes \in Files
  BY DEF MediaInv, ImportInv, ImportTypes, Attachment
<1>3. ReadTypes'
  BY <1>1, <1>2 DEF MediaInv, ReadInv, ReadTypes
<1>4. Kept' = Kept /\ UnderWay' = UnderWay \cup {d} /\ Reading' = Reading
  BY <1>1 DEF MediaInv, ReadInv, ReadTypes, Kept, UnderWay, Reading
<1>5. FewAreKept'
  BY <1>1, <1>4, StillFew DEF MediaInv, ReadInv, OneBegins
<1>6. ASSUME NEW e \in Downloads PROVE DownloadFacts(e)'
  <2>1. CASE e = d
    <3>1. (CHOOSE x \in {a} : TRUE) = a
      OBVIOUS
    <3>2. item'[d] = {a} /\ Content(d)' = a.bytes
      BY <1>1, <3>1 DEF Content, MediaInv, ReadInv, ReadTypes
    <3>3. a.bytes \in Seq(Bytes)
      BY <1>2, FileShape
    <3>4. nextIndex[d] = 0 /\ lastIndex[d] = 0 /\ got[d] = <<>>
      BY <1>1 DEF MediaInv, ReadInv, DownloadFacts
    <3>5. Begins(<<>>, a.bytes)
      BY <3>3, NothingBegins
    <3>6. QED
      BY <1>1, <1>2, <2>1, <3>2, <3>4, <3>5 DEF MediaInv, ReadInv, ReadTypes, DownloadFacts
  <2>2. CASE e # d
    BY <1>1, <2>2 DEF MediaInv, ReadInv, ReadTypes, DownloadFacts, Content
  <2>3. QED
    BY <2>1, <2>2
<1>7. QED
  BY <1>3, <1>5, <1>6 DEF ReadInv

LEMMA StartKeepsReads ==
  ASSUME ReadInv, NEW d \in Downloads, StartRead(d)
  PROVE  ReadInv'
<1>1. /\ download[d] = "checked" /\ UNCHANGED <<item, nextIndex, lastIndex, got>>
      /\ \/ HasReadSlot /\ download' = [download EXCEPT ![d] = "reading"]
         \/ download' = [download EXCEPT ![d] = "gone"]
  BY DEF StartRead
<1>2. ReadTypes'
  BY <1>1 DEF ReadInv, ReadTypes
<1>3. CASE HasReadSlot /\ download' = [download EXCEPT ![d] = "reading"]
  <2>1. Kept' = Kept /\ UnderWay' = UnderWay /\ Reading' = Reading \cup {d}
    BY <1>1, <1>3 DEF ReadInv, ReadTypes, Kept, UnderWay, Reading
  <2>2. FewAreKept'
    BY <1>3, <2>1, StillFew DEF ReadInv, OneReads
  <2>3. \A e \in Downloads : DownloadFacts(e)'
    BY <1>1, <1>3 DEF ReadInv, ReadTypes, DownloadFacts, Content
  <2>4. QED
    BY <1>2, <2>2, <2>3 DEF ReadInv
<1>4. CASE download' = [download EXCEPT ![d] = "gone"]
  <2>1. SomeEnd
    BY <1>1, <1>4 DEF ReadInv, ReadTypes, Kept, UnderWay, Reading, SomeEnd
  <2>2. FewAreKept'
    BY <2>1, StillFew DEF ReadInv
  <2>3. \A e \in Downloads : DownloadFacts(e)'
    BY <1>1, <1>4 DEF ReadInv, ReadTypes, DownloadFacts, Content
  <2>4. QED
    BY <1>2, <2>2, <2>3 DEF ReadInv
<1>5. QED
  BY <1>1, <1>3, <1>4

LEMMA ReadyKeepsReads ==
  ASSUME ReadInv, NEW d \in Downloads, DownloadReady(d)
  PROVE  ReadInv'
<1>1. /\ download[d] = "reading" /\ download' = [download EXCEPT ![d] = "open"]
      /\ UNCHANGED <<item, nextIndex, lastIndex, got>>
  BY DEF DownloadReady
<1>2. ReadTypes'
  BY <1>1 DEF ReadInv, ReadTypes
<1>3. OneIsReady(d)
  BY <1>1 DEF ReadInv, ReadTypes, Kept, UnderWay, Reading, OneIsReady
<1>4. FewAreKept'
  BY <1>3, StillFew DEF ReadInv
<1>5. ASSUME NEW e \in Downloads PROVE DownloadFacts(e)'
  <2>1. CASE e = d
    <3>1. nextIndex[d] = 0 /\ got[d] = <<>> /\ Content(d) \in Files
      BY <1>1 DEF ReadInv, DownloadFacts
    <3>2. Len(Content(d)) \in Nat \ {0} /\ Len(<<>>) = 0
      BY <3>1, FileShape, EmptySeq
    <3>3. Content(d)' = Content(d) /\ item[d] # {} /\ download'[d] = "open"
      BY <1>1 DEF Content, ReadInv, ReadTypes, DownloadFacts
    <3>4. lastIndex[d] = 0 /\ Begins(got[d], Content(d))
      BY <3>1, <3>3 DEF ReadInv, DownloadFacts
    <3>5. QED
      BY <1>1, <2>1, <3>1, <3>2, <3>3, <3>4 DEF DownloadFacts
  <2>2. CASE e # d
    BY <1>1, <2>2 DEF ReadInv, ReadTypes, DownloadFacts, Content
  <2>3. QED
    BY <2>1, <2>2
<1>6. QED
  BY <1>2, <1>4, <1>5 DEF ReadInv

LEMMA EndKeepsReads ==
  ASSUME ReadInv, NEW d \in Downloads, DownloadFails(d) \/ CloseDownload(d)
  PROVE  ReadInv'
<1>1. /\ download[d] \in {"checked", "reading", "open"} /\ download' = [download EXCEPT ![d] = "gone"]
      /\ UNCHANGED <<item, nextIndex, lastIndex, got>>
  BY DEF DownloadFails, CloseDownload, UnderWay
<1>2. ReadTypes'
  BY <1>1 DEF ReadInv, ReadTypes
<1>3. SomeEnd
  BY <1>1 DEF ReadInv, ReadTypes, Kept, UnderWay, Reading, SomeEnd
<1>4. FewAreKept'
  BY <1>3, StillFew DEF ReadInv
<1>5. \A e \in Downloads : DownloadFacts(e)'
  BY <1>1 DEF ReadInv, ReadTypes, DownloadFacts, Content
<1>6. QED
  BY <1>2, <1>4, <1>5 DEF ReadInv

\* Asking for the missing chunk moves the window on or, when the answer is
\* lost, leaves it one behind.
LEMMA ReadKeepsReads ==
  ASSUME ReadInv, NEW d \in Downloads, NEW answered \in BOOLEAN, ReadDownloadChunk(d, answered)
  PROVE  ReadInv'
<1> DEFINE index == Len(got[d])
           n == nextIndex[d]
           chunk == Content(d)[index + 1]
<1>1. /\ download[d] = "open" /\ item' = item
      /\ got' = [got EXCEPT ![d] = IF answered THEN Append(got[d], chunk) ELSE got[d]]
      /\ IF index = n
         THEN lastIndex' = [lastIndex EXCEPT ![d] = index + 1] /\ nextIndex' = [nextIndex EXCEPT ![d] = index + 1]
         ELSE UNCHANGED <<lastIndex, nextIndex>>
      /\ download' = [download EXCEPT ![d] = IF index + 1 < Len(Content(d)) THEN "open" ELSE "gone"]
  BY DEF ReadDownloadChunk, LastRead
<1>2. /\ Content(d) \in Files /\ Begins(got[d], Content(d)) /\ got[d] \in Seq(Bytes)
      /\ n \in Nat /\ lastIndex[d] = n /\ n < Len(Content(d)) /\ index \in {n, n - 1} /\ item[d] # {}
  BY <1>1 DEF ReadInv, ReadTypes, DownloadFacts
<1>3. index \in Nat /\ Len(Content(d)) \in Nat /\ Content(d) \in Seq(Bytes) /\ index < Len(Content(d))
  BY <1>2, FileShape, LenProperties
<1>4. /\ Append(got[d], chunk) \in Seq(Bytes) /\ Len(Append(got[d], chunk)) = index + 1
      /\ Begins(Append(got[d], chunk), Content(d))
  BY <1>2, <1>3, NextBegins
<1>5. /\ got'[d] \in Seq(Bytes) /\ Begins(got'[d], Content(d)) /\ Len(got'[d]) \in {index, index + 1}
      /\ \A e \in Downloads \ {d} : got'[e] = got[e]
      /\ got' \in [Downloads -> Seq(Bytes)]
  <2>1. CASE answered
    BY <1>1, <1>2, <1>4, <2>1 DEF ReadInv, ReadTypes
  <2>2. CASE ~answered
    BY <1>1, <1>2, <2>2 DEF ReadInv, ReadTypes
  <2>3. QED
    BY <2>1, <2>2
<1>6. /\ nextIndex'[d] = index + 1 /\ lastIndex'[d] = index + 1
      /\ \A e \in Downloads \ {d} : nextIndex'[e] = nextIndex[e] /\ lastIndex'[e] = lastIndex[e]
      /\ nextIndex' \in [Downloads -> Nat] /\ lastIndex' \in [Downloads -> Nat]
  <2>1. CASE index = n
    <3>1. /\ lastIndex' = [lastIndex EXCEPT ![d] = index + 1]
          /\ nextIndex' = [nextIndex EXCEPT ![d] = index + 1]
          /\ index + 1 \in Nat
      BY <1>1, <1>3, <2>1
    <3> HIDE DEF index, n
    <3>2. QED
      BY <3>1 DEF ReadInv, ReadTypes
  <2>2. CASE index # n
    BY <1>1, <1>2, <1>3, <2>2 DEF ReadInv, ReadTypes
  <2>3. QED
    BY <2>1, <2>2
<1>7. /\ download'[d] = IF index + 1 < Len(Content(d)) THEN "open" ELSE "gone"
      /\ \A e \in Downloads \ {d} : download'[e] = download[e]
      /\ download' \in [Downloads -> {"new", "checked", "reading", "open", "gone"}]
  BY <1>1 DEF ReadInv, ReadTypes
<1>8. \A e \in Downloads : Content(e)' = Content(e)
  BY <1>1 DEF Content
<1> HIDE DEF index, n, chunk
<1>9. ReadTypes'
  BY <1>1, <1>5, <1>6, <1>7 DEF ReadInv, ReadTypes
<1>10. SomeEnd
  BY <1>1, <1>7 DEF Kept, UnderWay, Reading, SomeEnd
<1>11. FewAreKept'
  BY <1>10, StillFew DEF ReadInv
<1>12. ASSUME NEW e \in Downloads PROVE DownloadFacts(e)'
  <2>1. CASE e = d
    BY <1>1, <1>2, <1>3, <1>5, <1>6, <1>7, <1>8, <2>1 DEF DownloadFacts
  <2>2. CASE e # d
    BY <1>1, <1>5, <1>6, <1>7, <1>8, <2>2 DEF ReadInv, DownloadFacts
  <2>3. QED
    BY <2>1, <2>2
<1>13. QED
  BY <1>9, <1>11, <1>12 DEF ReadInv

LEMMA CloseKeepsReads == ReadInv /\ CloseMedia => ReadInv'
<1> SUFFICES ASSUME ReadInv, CloseMedia PROVE ReadInv'
  OBVIOUS
<1>1. /\ download' = [d \in Downloads |-> IF download[d] = "open" THEN "gone" ELSE download[d]]
      /\ UNCHANGED <<item, nextIndex, lastIndex, got>>
  BY DEF CloseMedia
<1>2. ReadTypes' /\ \A e \in Downloads : DownloadFacts(e)'
  BY <1>1 DEF ReadInv, ReadTypes, DownloadFacts, Content
<1>3. SomeEnd
  BY <1>1 DEF ReadInv, ReadTypes, Kept, UnderWay, Reading, SomeEnd
<1>4. QED
  BY <1>2, <1>3, StillFew DEF ReadInv

LEMMA MediaIsSound == MediaSpec => []MediaInv
<1>1. MediaInv /\ [MediaNext]_mediaVars => MediaInv'
  <2>1. SUFFICES ASSUME MediaInv, [MediaNext]_mediaVars PROVE MediaInv'
    OBVIOUS
  <2>2. ImportInv /\ ReadInv
    BY <2>1 DEF MediaInv
  <2>3. ASSUME NEW u \in Uploads,
               \/ CommitUpload(u) \/ AbortUpload(u) \/ UploadExpires(u)
               \/ CollectImport(u) \/ WriteImport(u) \/ PostImport(u) \/ ImportFails(u)
               \/ \E f \in Files : BeginUpload(u, f)
               \/ \E index \in 0 .. Len(file[u]) - 1 : AppendUpload(u, index)
        PROVE  MediaInv'
    <3>1. UNCHANGED downloading
      BY <2>3 DEF CommitUpload, AbortUpload, UploadExpires, CollectImport, WriteImport, PostImport,
                  ImportFails, BeginUpload, AppendUpload, EndImport
    <3>2. ImportInv'
      BY <2>2, <2>3, BeginKeepsImports, AppendKeepsImports, CommitKeepsImports, CollectKeepsImports,
         WriteKeepsImports, PostKeepsImports, DisposeKeepsImports
    <3>3. QED
      BY <2>2, <3>1, <3>2, ImportsLeaveReads DEF MediaInv
  <2>4. ASSUME NEW d \in Downloads,
               \/ StartRead(d) \/ DownloadReady(d) \/ DownloadFails(d) \/ CloseDownload(d)
               \/ \E a \in attachments : BeginDownload(d, a)
               \/ \E answered \in BOOLEAN : ReadDownloadChunk(d, answered)
        PROVE  MediaInv'
    <3>1. UNCHANGED uploading
      BY <2>4 DEF StartRead, DownloadReady, DownloadFails, CloseDownload, BeginDownload, ReadDownloadChunk
    <3>2. ReadInv'
      BY <2>1, <2>2, <2>4, BeginKeepsReads, StartKeepsReads, ReadyKeepsReads, EndKeepsReads,
         ReadKeepsReads
    <3>3. QED
      BY <2>2, <3>1, <3>2, ReadsLeaveImports DEF MediaInv
  <2>5. CASE CloseMedia
    BY <2>2, <2>5, CloseKeepsImports, CloseKeepsReads DEF MediaInv
  <2>6. CASE UNCHANGED mediaVars
    BY <2>2, <2>6, ImportsLeaveReads, ReadsLeaveImports DEF MediaInv, mediaVars
  <2>7. QED
    BY <2>1, <2>3, <2>4, <2>5, <2>6 DEF MediaNext
<1>2. QED
  BY <1>1, InitMedia, PTL DEF MediaSpec

\* A file arrives whole and readable, and what a transfer took is free again,
\* for any number of transfers, any files and any limits.
THEOREM FilesGoThrough == MediaSpec => []TransfersGoThrough
<1>1. ASSUME MediaInv PROVE ReadsGoOn
  <2>1. ASSUME NEW d \in Downloads, item[d] # {} PROVE got[d] = SubSeq(Content(d), 1, Len(got[d]))
    <3>1. Content(d) \in Files /\ Begins(got[d], Content(d)) /\ got[d] \in Seq(Bytes)
      BY <1>1, <2>1 DEF MediaInv, ReadInv, ReadTypes, DownloadFacts
    <3>2. Content(d) \in Seq(Bytes) /\ Len(got[d]) \in Nat /\ Len(Content(d)) \in Nat
      BY <3>1, FileShape, LenProperties
    <3>3. \A i \in 1 .. Len(got[d]) : Content(d)[i] \in Bytes
      BY <3>1, <3>2, ElementOfSeq DEF Begins
    <3>4. /\ SubSeq(Content(d), 1, Len(got[d])) \in Seq(Bytes)
          /\ Len(SubSeq(Content(d), 1, Len(got[d]))) = Len(got[d])
          /\ \A i \in 1 .. Len(got[d]) : SubSeq(Content(d), 1, Len(got[d]))[i] = Content(d)[i]
      BY <3>2, <3>3, SubSeqProperties
    <3>5. QED
      BY <3>1, <3>4, SeqEqual DEF Begins
  <2>2. \A d \in Downloads : download[d] = "open" => Len(got[d]) \in {nextIndex[d], lastIndex[d] - 1}
    BY <1>1 DEF MediaInv, ReadInv, DownloadFacts
  <2>3. QED
    BY <2>1, <2>2 DEF ReadsGoOn
<1>2. ASSUME MediaInv PROVE WriterIsReleased
  <2>1. /\ \A u, v \in writing : u = v
        /\ \A u \in writing : import[u] = "writing"
    BY <1>2 DEF MediaInv, ImportInv, OneWriter
  <2>2. CASE writing = {}
    BY <2>1, <2>2, FS_EmptySet DEF WriterIsReleased
  <2>3. CASE writing # {}
    <3>1. PICK u \in writing : writing = {u}
      BY <2>1, <2>3
    <3>2. Cardinality(writing) = 1
      BY <3>1, FS_Singleton
    <3>3. QED
      BY <2>1, <3>2 DEF WriterIsReleased
  <2>4. QED
    BY <2>2, <2>3
<1>3. MediaInv => TransfersGoThrough
  BY <1>1, <1>2 DEF MediaInv, ImportInv, AttachmentsAreTold, ReadInv, FewAreKept, TransfersGoThrough,
                    FileGoesThrough, AttachmentIsTheFile, NothingIsHeld
<1>4. QED
  BY <1>3, MediaIsSound, PTL

-----------------------------------------------------------------------------
(* Notifications. *)

\* Nothing of the item has left the worker's enqueue: no queue entry, offer,
\* native notification or lifecycle call.
Untouched(i) ==
  /\ i \notin inbox /\ i \notin scanned /\ native[i] = "no"
  /\ \A o \in offers : o[1] # i
  /\ \A k \in DOMAIN calls : calls[k].item # i
  /\ \A c \in overdue : c.item # i

NotifyTypes ==
  /\ intent \in [Items -> IntentStates] /\ inbox \subseteq Items /\ scanned \subseteq Items
  /\ enqueueing \in [Items -> {"no", "unseen", "stored"}]
  /\ offers \subseteq Items \X IntentStates
  /\ native \in [Items -> {"no", "showing", "clicked", "presented"}]
  /\ calls \in Seq(LifecycleCalls) /\ overdue \subseteq LifecycleCalls

\* An intent is written before anybody hears of it, by one enqueue.
WrittenFirst ==
  \A i \in Items :
    /\ intent[i] = "none" \/ enqueueing[i] = "stored" => Untouched(i)
    /\ enqueueing[i] = "stored" => intent[i] = "queued"
    /\ enqueueing[i] # "no" => i \in knownItems

NotifyInv == NotifyTypes /\ QueueIsReadable /\ WrittenFirst /\ (app = "down" => \A i \in Items : enqueueing[i] = "no")

LEMMA InitNotify == NotifyInit => NotifyInv
<1> SUFFICES ASSUME NotifyInit PROVE NotifyInv
  OBVIOUS
<1>1. NotifyTypes
  BY EmptySeq DEF NotifyInit, NotifyTypes, IntentStates
<1>2. DOMAIN <<>> = {}
  BY EmptySeq
<1>3. QED
  BY <1>1, <1>2 DEF NotifyInit, NotifyInv, QueueIsReadable, WrittenFirst, Untouched

\* What a step must not do, stated of one item: it neither forgets an intent
\* nor queues it again, and only an enqueue adds to the queue.
Requeues(i) ==
  ~ (/\ intent[i] # "none" => intent'[i] # "none" /\ (intent'[i] = "queued" => intent[i] = "queued")
     /\ i \in inbox' \ inbox => enqueueing[i] = "stored")
Sound == NotifyInv' /\ \A i \in Items : ~Requeues(i)

LEMMA NothingStored == UNCHANGED store => \A i \in Items : ~Requeues(i)
BY DEF store, Requeues

\* Steps of the room's view, and the worker's enqueue.
LEMMA ArriveIsSound == ASSUME NotifyInv, NEW i \in Items, Arrive(i) \/ Withdraw(i) PROVE Sound
<1>1. UNCHANGED <<store, app, offers, presenter>>
  BY DEF Arrive, Withdraw, worker
<1>2. /\ knownItems \subseteq knownItems'
      /\ \/ enqueueing' = enqueueing
         \/ /\ Running /\ i \notin knownItems /\ i \in knownItems'
            /\ enqueueing' = [enqueueing EXCEPT ![i] = "unseen"]
  BY DEF Arrive, Withdraw, worker
<1>3. NotifyInv'
  BY <1>1, <1>2 DEF NotifyInv, NotifyTypes, QueueIsReadable, WrittenFirst, Untouched, store, presenter, Running
<1>4. QED
  BY <1>1, <1>3, NothingStored DEF Sound

LEMMA MutedIsSound == ASSUME NotifyInv, NEW i \in Items, Muted(i) PROVE Sound
<1>1. UNCHANGED <<store, app, offers, presenter, knownItems>> /\ enqueueing' = [enqueueing EXCEPT ![i] = "no"]
  BY DEF Muted
<1>2. NotifyInv'
  BY <1>1 DEF NotifyInv, NotifyTypes, QueueIsReadable, WrittenFirst, Untouched, store, presenter
<1>3. QED
  BY <1>1, <1>2, NothingStored DEF Sound

LEMMA StoreIsSound == ASSUME NotifyInv, NEW i \in Items, StoreIntent(i) PROVE Sound
<1>1. UNCHANGED <<inbox, app, knownItems, presenter>> /\ enqueueing[i] = "unseen" /\ app # "down"
  BY DEF StoreIntent, Running
<1>2. CASE intent[i] = "none"
  <2>1. /\ intent' = [intent EXCEPT ![i] = "queued"] /\ enqueueing' = [enqueueing EXCEPT ![i] = "stored"]
        /\ UNCHANGED offers
    BY <1>2 DEF StoreIntent, Missing
  <2>2. Untouched(i) /\ i \in knownItems
    BY <1>1, <1>2 DEF NotifyInv, WrittenFirst
  <2>3. \A j \in Items : Untouched(j)' <=> Untouched(j)
    BY <1>1, <2>1 DEF Untouched, presenter
  <2>4. NotifyTypes' /\ QueueIsReadable'
    BY <1>1, <2>1, <2>2 DEF NotifyInv, NotifyTypes, QueueIsReadable, IntentStates, presenter, Untouched
  <2>5. WrittenFirst'
    BY <1>1, <2>1, <2>2, <2>3 DEF NotifyInv, NotifyTypes, WrittenFirst
  <2>6. QED
    BY <1>1, <1>2, <2>1, <2>4, <2>5 DEF NotifyInv, NotifyTypes, Sound, Requeues
<1>3. CASE intent[i] # "none"
  <2>1. /\ intent' = intent /\ enqueueing' = [enqueueing EXCEPT ![i] = "no"]
        /\ offers' = offers \cup {<<i, intent[i]>>}
    BY <1>3 DEF StoreIntent, Missing
  <2>2. \A j \in Items : Untouched(j) /\ j # i => Untouched(j)'
    BY <1>1, <2>1 DEF Untouched, presenter
  <2>3. NotifyTypes' /\ QueueIsReadable'
    BY <1>1, <2>1 DEF NotifyInv, NotifyTypes, QueueIsReadable, presenter
  <2>4. WrittenFirst'
    BY <1>1, <1>3, <2>1, <2>2 DEF NotifyInv, NotifyTypes, WrittenFirst
  <2>5. QED
    BY <1>1, <2>1, <2>3, <2>4 DEF NotifyInv, Sound, Requeues
<1>4. QED
  BY <1>2, <1>3

LEMMA QueueIsSound == ASSUME NotifyInv, NEW i \in Items, QueueIntent(i) PROVE Sound
<1>1. /\ UNCHANGED <<intent, app, knownItems, presenter>> /\ enqueueing[i] = "stored" /\ app # "down"
      /\ inbox' = inbox \cup {i} /\ offers' = offers \cup {<<i, "queued">>}
      /\ enqueueing' = [enqueueing EXCEPT ![i] = "no"]
  BY DEF QueueIntent, Running
<1>2. intent[i] = "queued"
  BY <1>1 DEF NotifyInv, WrittenFirst
<1>3. \A j \in Items : Untouched(j) /\ j # i => Untouched(j)'
  BY <1>1 DEF Untouched, presenter
<1>4. NotifyTypes' /\ QueueIsReadable'
  BY <1>1, <1>2 DEF NotifyInv, NotifyTypes, QueueIsReadable, IntentStates, presenter
<1>5. WrittenFirst'
  BY <1>1, <1>2, <1>3 DEF NotifyInv, NotifyTypes, WrittenFirst
<1>6. QED
  BY <1>1, <1>4, <1>5 DEF NotifyInv, Sound, Requeues

\* The transition of a call for a touched item, with the calls that remain.
LEMMA TransitionIsSound ==
  ASSUME NotifyInv, NEW change \in LifecycleCalls, Transition(change), ~Untouched(change.item),
         UNCHANGED <<app, worker, native>>,
         calls' \in Seq(LifecycleCalls), \A k \in DOMAIN calls' : \E j \in DOMAIN calls : calls'[k] = calls[j],
         overdue' \subseteq overdue, scanned' \subseteq scanned \cup inbox'
  PROVE  Sound
<1>1. change.item \in Items /\ change.to \in IntentStates \ {"none", "queued"}
  BY DEF LifecycleCalls
<1>2. intent[change.item] # "none" /\ enqueueing[change.item] # "stored"
  BY <1>1 DEF NotifyInv, WrittenFirst
<1>3. /\ inbox' \subseteq inbox
      /\ \/ intent' = intent
         \/ intent' = [intent EXCEPT ![change.item] = change.to] /\ change.item \notin inbox'
  BY DEF Transition, Unqueue
<1>4. \A j \in Items : Untouched(j) => Untouched(j)'
  BY <1>3 DEF Untouched, worker
<1>5. \A j \in Items : /\ intent'[j] = "none" => intent[j] = "none"
                       /\ j # change.item => intent'[j] = intent[j]
  BY <1>1, <1>2, <1>3 DEF NotifyInv, NotifyTypes
<1>6. NotifyTypes'
  BY <1>1, <1>3 DEF NotifyInv, NotifyTypes, worker
<1>7. QueueIsReadable'
  BY <1>3, <1>5 DEF NotifyInv, NotifyTypes, QueueIsReadable
<1>8. WrittenFirst'
  BY <1>2, <1>4, <1>5 DEF NotifyInv, WrittenFirst, worker
<1>9. \A j \in Items : ~Requeues(j)
  BY <1>1, <1>3 DEF Requeues, NotifyInv, NotifyTypes
<1>10. QED
  BY <1>6, <1>7, <1>8, <1>9 DEF NotifyInv, Sound, worker

LEMMA CallIsSound == ASSUME NotifyInv, LifecycleCall PROVE Sound
<1> DEFINE change == Head(calls)
<1>1. /\ calls # <<>> /\ Transition(change) /\ calls' = Tail(calls)
      /\ UNCHANGED <<app, worker, native, overdue>>
      /\ (scanned' = scanned \/ scanned' = inbox')
  BY DEF LifecycleCall, Wake
<1>2. calls \in Seq(LifecycleCalls) /\ Len(calls) \in Nat \ {0} /\ DOMAIN calls = 1 .. Len(calls)
  BY <1>1, EmptySeq, LenProperties DEF NotifyInv, NotifyTypes
<1>3. /\ change \in LifecycleCalls /\ change = calls[1] /\ Tail(calls) \in Seq(LifecycleCalls)
      /\ Len(Tail(calls)) = Len(calls) - 1 /\ \A k \in 1 .. Len(Tail(calls)) : Tail(calls)[k] = calls[k + 1]
  BY <1>1, <1>2, HeadTailProperties
<1>4. ~Untouched(change.item)
  BY <1>2, <1>3 DEF Untouched
<1>5. \A k \in DOMAIN calls' : \E j \in DOMAIN calls : calls'[k] = calls[j]
  <2>1. DOMAIN calls' = 1 .. Len(calls) - 1
    BY <1>1, <1>3, LenProperties
  <2>2. \A k \in 1 .. Len(calls) - 1 : k + 1 \in DOMAIN calls /\ calls'[k] = calls[k + 1]
    BY <1>1, <1>2, <1>3
  <2>3. QED
    BY <2>1, <2>2
<1> HIDE DEF change
<1>6. QED
  BY <1>1, <1>3, <1>4, <1>5, TransitionIsSound

LEMMA LateIsSound == ASSUME NotifyInv, NEW change \in LifecycleCalls, PersistLate(change) PROVE Sound
<1>1. /\ change \in overdue /\ Transition(change) /\ overdue' = overdue \ {change}
      /\ UNCHANGED <<app, worker, native, calls, scanned>>
  BY DEF PersistLate
<1>2. ~Untouched(change.item)
  BY <1>1 DEF Untouched
<1>3. QED
  BY <1>1, <1>2, TransitionIsSound DEF NotifyInv, NotifyTypes

\* Steps that touch at most items that were touched before, and store nothing.
LEMMA ShellIsSound ==
  ASSUME NotifyInv, UNCHANGED <<store, knownItems, enqueueing>>, app' # "down",
         offers' \subseteq offers, overdue' \subseteq LifecycleCalls, scanned' \subseteq scanned \cup inbox,
         native' \in [Items -> {"no", "showing", "clicked", "presented"}],
         calls' \in Seq(LifecycleCalls),
         \A j \in Items : Untouched(j) =>
           /\ native'[j] = "no" /\ \A k \in DOMAIN calls' : calls'[k].item # j
           /\ \A c \in overdue' : c.item # j
  PROVE  Sound
<1>1. \A j \in Items : Untouched(j) => Untouched(j)'
  BY DEF Untouched, store
<1>2. NotifyTypes' /\ QueueIsReadable'
  BY DEF NotifyInv, NotifyTypes, QueueIsReadable, store
<1>3. WrittenFirst'
  BY <1>1 DEF NotifyInv, WrittenFirst, store
<1>4. QED
  BY <1>2, <1>3, NothingStored DEF NotifyInv, Sound

LEMMA OfferIsSound ==
  ASSUME NotifyInv, NEW i \in Items, NEW state \in IntentStates, Offer(i, state)
  PROVE  Sound
<1>1. /\ Running /\ <<i, state>> \in offers /\ offers' = offers \ {<<i, state>>}
      /\ UNCHANGED <<store, knownItems, enqueueing, calls, overdue>>
      /\ app' \in {app, "failed"}
      /\ scanned' = scanned \/ scanned' = inbox'
      /\ native' = native \/ native' = [native EXCEPT ![i] = "showing"]
  BY DEF Offer, Wake
<1>2. ~Untouched(i)
  BY <1>1 DEF Untouched
<1>3. app' # "down"
  BY <1>1 DEF Running
<1>4. /\ native' \in [Items -> {"no", "showing", "clicked", "presented"}]
      /\ \A j \in Items : Untouched(j) => native'[j] = "no"
  BY <1>1, <1>2 DEF NotifyInv, NotifyTypes, Untouched
<1>5. scanned' \subseteq scanned \cup inbox /\ calls' \in Seq(LifecycleCalls) /\ overdue' \subseteq LifecycleCalls
  BY <1>1 DEF NotifyInv, NotifyTypes, store
<1>6. \A j \in Items : Untouched(j) => /\ \A k \in DOMAIN calls' : calls'[k].item # j
                                       /\ \A c \in overdue' : c.item # j
  BY <1>1 DEF Untouched
<1>7. QED
  BY <1>1, <1>3, <1>4, <1>5, <1>6, ShellIsSound

LEMMA DrainIsSound == ASSUME NotifyInv, Drained \/ ReadIntents PROVE Sound
<1>1. /\ Running /\ UNCHANGED <<store, app, worker, calls, overdue>>
      /\ scanned' \subseteq scanned
      /\ native' \in [Items -> {"no", "showing", "clicked", "presented"}]
      /\ \A j \in Items : j \notin scanned => native'[j] = native[j]
  BY DEF Drained, ReadIntents, NotifyInv, NotifyTypes
<1>2. app' # "down" /\ calls' \in Seq(LifecycleCalls) /\ overdue' \subseteq LifecycleCalls /\ offers' \subseteq offers
  BY <1>1 DEF Running, NotifyInv, NotifyTypes, worker
<1>3. \A j \in Items : Untouched(j) => /\ native'[j] = "no" /\ \A k \in DOMAIN calls' : calls'[k].item # j
                                       /\ \A c \in overdue' : c.item # j
  BY <1>1 DEF Untouched
<1>4. QED
  BY <1>1, <1>2, <1>3, ShellIsSound DEF worker

\* Calls that are appended are for items that were on the screen.
LEMMA MoreCalls ==
  ASSUME NotifyInv, NEW n \in Nat, NEW more \in [1 .. n -> LifecycleCalls],
         calls' = calls \o more, \A k \in 1 .. n : native[more[k].item] # "no"
  PROVE  /\ calls' \in Seq(LifecycleCalls)
         /\ \A j \in Items : Untouched(j) => \A k \in DOMAIN calls' : calls'[k].item # j
<1>1. more \in Seq(LifecycleCalls) /\ calls \in Seq(LifecycleCalls)
  BY SeqDef DEF NotifyInv, NotifyTypes
<1>2. Len(more) = n
  BY <1>1, LenProperties
<1>3. /\ calls' \in Seq(LifecycleCalls) /\ Len(calls') = Len(calls) + n
      /\ \A k \in 1 .. Len(calls) + n : calls'[k] = IF k <= Len(calls) THEN calls[k] ELSE more[k - Len(calls)]
  BY <1>1, <1>2, ConcatProperties
<1>4. Len(calls) \in Nat /\ DOMAIN calls = 1 .. Len(calls) /\ DOMAIN calls' = 1 .. Len(calls) + n
  BY <1>1, <1>3, LenProperties
<1>5. ASSUME NEW j \in Items, Untouched(j), NEW k \in 1 .. Len(calls) + n PROVE calls'[k].item # j
  <2>1. CASE k <= Len(calls)
    BY <1>3, <1>4, <1>5, <2>1 DEF Untouched
  <2>2. CASE ~(k <= Len(calls))
    <3>1. k - Len(calls) \in 1 .. n
      BY <1>4, <2>2
    <3>2. calls'[k] = more[k - Len(calls)]
      BY <1>3, <2>2
    <3>3. QED
      BY <1>5, <3>1, <3>2 DEF Untouched
  <2>3. QED
    BY <2>1, <2>2
<1>6. QED
  BY <1>3, <1>4, <1>5

LEMMA EmitIsSound ==
  ASSUME NotifyInv, NEW i \in Items, app = "up", native[i] # "no",
         NEW state \in {"no", "clicked", "presented"},
         NEW n \in Nat, NEW steps \in [1 .. n -> IntentStates \ {"none", "queued"}],
         Emit(i, state, steps)
  PROVE  Sound
<1> DEFINE more == [k \in 1 .. n |-> [item |-> i, to |-> steps[k]]]
<1>1. /\ UNCHANGED <<store, app, worker, overdue, scanned>>
      /\ native' = [native EXCEPT ![i] = state] /\ calls' = calls \o more
  BY DEF Emit
<1>2. more \in [1 .. n -> LifecycleCalls] /\ \A k \in 1 .. n : native[more[k].item] # "no"
  BY DEF LifecycleCalls
<1> HIDE DEF more
<1>3. /\ calls' \in Seq(LifecycleCalls)
      /\ \A j \in Items : Untouched(j) => \A k \in DOMAIN calls' : calls'[k].item # j
  BY <1>1, <1>2, MoreCalls
<1>4. /\ native' \in [Items -> {"no", "showing", "clicked", "presented"}]
      /\ \A j \in Items : Untouched(j) => native'[j] = "no"
  BY <1>1 DEF NotifyInv, NotifyTypes, Untouched
<1>5. /\ offers' \subseteq offers /\ scanned' \subseteq scanned \cup inbox /\ overdue' \subseteq LifecycleCalls
      /\ app' # "down" /\ UNCHANGED <<knownItems, enqueueing>>
      /\ \A j \in Items : Untouched(j) => \A c \in overdue' : c.item # j
  BY <1>1 DEF NotifyInv, NotifyTypes, worker, Untouched
<1>6. QED
  BY <1>1, <1>3, <1>4, <1>5, ShellIsSound

LEMMA NativeIsSound ==
  ASSUME NotifyInv, NEW i \in Items, Show(i) \/ Click(i) \/ Dismiss(i) \/ FailNative(i)
  PROVE  Sound
<1> DEFINE Told == IntentStates \ {"none", "queued"}
<1>1. PICK state \in {"no", "clicked", "presented"},
           steps \in {<<>>, <<"presented">>, <<"presented", "opened">>, <<"opened">>, <<"dismissed">>, <<"failed">>} :
        app = "up" /\ native[i] # "no" /\ Emit(i, state, steps)
  BY DEF Show, Click, Dismiss, FailNative
<1>2. {"presented", "opened", "dismissed", "failed"} \subseteq Told
  BY DEF IntentStates, Resolved
<1>3. \E n \in Nat : steps \in [1 .. n -> Told]
  <2>1. \A e \in Told : <<e>> \in Seq(Told)
    OBVIOUS
  <2>2. \A e, f \in Told : <<e, f>> \in Seq(Told)
    OBVIOUS
  <2>3. <<>> \in Seq(Told)
    BY EmptySeq
  <2>4. steps \in Seq(Told)
    BY <1>2, <2>1, <2>2, <2>3
  <2>5. QED
    BY <2>4, LenProperties
<1>4. QED
  BY <1>1, <1>3, EmitIsSound

LEMMA TimeoutIsSound == ASSUME NotifyInv, LifecycleTimesOut PROVE Sound
<1>1. /\ Running /\ calls # <<>> /\ calls' = Tail(calls) /\ overdue' = overdue \cup {Head(calls)}
      /\ UNCHANGED <<store, app, worker, native, scanned>>
  BY DEF LifecycleTimesOut
<1>2. calls \in Seq(LifecycleCalls) /\ Len(calls) \in Nat \ {0} /\ DOMAIN calls = 1 .. Len(calls)
  BY <1>1, EmptySeq, LenProperties DEF NotifyInv, NotifyTypes
<1>3. /\ Head(calls) \in LifecycleCalls /\ Head(calls) = calls[1] /\ Tail(calls) \in Seq(LifecycleCalls)
      /\ Len(Tail(calls)) = Len(calls) - 1 /\ \A k \in 1 .. Len(Tail(calls)) : Tail(calls)[k] = calls[k + 1]
  BY <1>1, <1>2, HeadTailProperties
<1>4. DOMAIN calls' = 1 .. Len(calls) - 1
  BY <1>1, <1>3, LenProperties
<1>5. \A k \in 1 .. Len(calls) - 1 : k + 1 \in DOMAIN calls /\ calls'[k] = calls[k + 1]
  BY <1>1, <1>2, <1>3
<1>6. 1 \in DOMAIN calls
  BY <1>2
<1>7. \A j \in Items : Untouched(j) => /\ native'[j] = "no" /\ \A k \in DOMAIN calls' : calls'[k].item # j
                                       /\ \A c \in overdue' : c.item # j
  BY <1>1, <1>3, <1>4, <1>5, <1>6 DEF Untouched
<1>8. /\ offers' \subseteq offers /\ scanned' \subseteq scanned \cup inbox /\ overdue' \subseteq LifecycleCalls
      /\ app' # "down" /\ UNCHANGED <<knownItems, enqueueing>> /\ calls' \in Seq(LifecycleCalls)
      /\ native' \in [Items -> {"no", "showing", "clicked", "presented"}]
  BY <1>1, <1>3 DEF NotifyInv, NotifyTypes, worker, Running
<1>9. QED
  BY <1>1, <1>7, <1>8, ShellIsSound

LEMMA QuitIsSound == ASSUME NotifyInv, Quit PROVE Sound
<1>1. PICK order \in SetToSeqs(OnScreen) :
        calls' = calls \o [k \in DOMAIN order |->
          [item |-> order[k], to |-> IF native[order[k]] = "presented" THEN "dismissed" ELSE "failed"]]
  BY DEF Quit
<1> DEFINE n == Cardinality(OnScreen)
           more == [k \in 1 .. n |->
             [item |-> order[k], to |-> IF native[order[k]] = "presented" THEN "dismissed" ELSE "failed"]]
<1>2. order \in [1 .. n -> OnScreen]
  BY DEF SetToSeqs
<1>3. calls' = calls \o more
  BY <1>1, <1>2
<1>4. more \in [1 .. n -> LifecycleCalls] /\ \A k \in 1 .. n : native[more[k].item] # "no"
  BY <1>2 DEF LifecycleCalls, OnScreen, IntentStates, Resolved
<1>5. n \in Nat
  <2>1. OnScreen \subseteq Items
    BY DEF OnScreen
  <2>2. QED
    BY <2>1, NotifyAssumption, FS_Subset, FS_CardinalityType
<1> HIDE DEF more, n
<1>6. /\ calls' \in Seq(LifecycleCalls)
      /\ \A j \in Items : Untouched(j) => \A k \in DOMAIN calls' : calls'[k].item # j
  BY <1>3, <1>4, <1>5, MoreCalls
<1>7. /\ app' = "closing" /\ native' = [i \in Items |-> "no"] /\ UNCHANGED <<store, worker, overdue, scanned>>
  BY DEF Quit
<1>8. /\ offers' \subseteq offers /\ scanned' \subseteq scanned \cup inbox /\ overdue' \subseteq LifecycleCalls
      /\ app' # "down" /\ UNCHANGED <<knownItems, enqueueing>>
      /\ native' \in [Items -> {"no", "showing", "clicked", "presented"}]
      /\ \A j \in Items : Untouched(j) => native'[j] = "no" /\ \A c \in overdue' : c.item # j
  BY <1>7 DEF NotifyInv, NotifyTypes, worker, Untouched
<1>9. QED
  BY <1>6, <1>7, <1>8, ShellIsSound

LEMMA EndIsSound == ASSUME NotifyInv, Ended PROVE Sound
<1>1. /\ UNCHANGED store /\ enqueueing' = [i \in Items |-> "no"] /\ offers' = {}
      /\ native' = [i \in Items |-> "no"] /\ calls' = <<>> /\ overdue' = {} /\ scanned' = {}
  BY DEF Ended
<1>2. <<>> \in Seq(LifecycleCalls) /\ DOMAIN <<>> = {}
  BY EmptySeq
<1>3. NotifyTypes' /\ QueueIsReadable'
  BY <1>1, <1>2 DEF NotifyInv, NotifyTypes, QueueIsReadable, store
<1>4. WrittenFirst'
  BY <1>1, <1>2 DEF NotifyInv, WrittenFirst, Untouched, store
<1>5. QED
  BY <1>1, <1>3, <1>4, NothingStored DEF NotifyInv, Sound

LEMMA StartIsSound == ASSUME NotifyInv, Start PROVE Sound
<1>1. /\ app = "down" /\ app' = "up" /\ scanned' = inbox /\ knownItems' = shown
      /\ UNCHANGED <<store, enqueueing, offers, native, calls, overdue>>
  BY DEF Start
<1>2. \A i \in Items : enqueueing[i] = "no"
  BY <1>1 DEF NotifyInv
<1>3. \A j \in Items : Untouched(j) => Untouched(j)'
  BY <1>1 DEF Untouched, store
<1>4. NotifyInv'
  BY <1>1, <1>2, <1>3 DEF NotifyInv, NotifyTypes, QueueIsReadable, WrittenFirst, store
<1>5. QED
  BY <1>1, <1>4, NothingStored DEF Sound

LEMMA NotifyKeepsSound == NotifyInv /\ [NotifyNext]_notifyVars => Sound
<1> SUFFICES ASSUME NotifyInv, [NotifyNext]_notifyVars PROVE Sound
  OBVIOUS
<1>1. CASE UNCHANGED notifyVars
  BY <1>1, NothingStored
     DEF notifyVars, store, worker, presenter, NotifyInv, NotifyTypes, QueueIsReadable, WrittenFirst,
         Untouched, Sound
<1>2. CASE NotifyWorker
  BY <1>2, CallIsSound, DrainIsSound, MutedIsSound, StoreIsSound, QueueIsSound, LateIsSound DEF NotifyWorker
<1>3. CASE NotifyShell
  BY <1>3, DrainIsSound, NativeIsSound, OfferIsSound DEF NotifyShell
<1>4. CASE LifecycleTimesOut \/ Quit \/ Stop \/ Crash \/ Start
  BY <1>4, TimeoutIsSound, QuitIsSound, EndIsSound, StartIsSound DEF Stop, Crash
<1>5. CASE \E i \in Items : Arrive(i) \/ Withdraw(i) \/ Click(i)
  BY <1>5, ArriveIsSound, NativeIsSound
<1>6. QED
  BY <1>1, <1>2, <1>3, <1>4, <1>5 DEF NotifyNext

\* An item is offered by one intent at most, which can be read, whatever leaves
\* and enters the view, however often the app ends between two writes and in
\* whatever order late calls come, for any number of items.
THEOREM IntentsAreSingle == NotifySafety => OneIntentEach
<1>1. Sound => NotifyInv'
  BY DEF Sound
<1>2. Sound => \A i \in Items : /\ intent[i] # "none" => intent'[i] # "none" /\ (intent'[i] = "queued" => intent[i] = "queued")
                                /\ i \in inbox' \ inbox => enqueueing[i] = "stored"
  BY DEF Sound, Requeues
<1>3. NotifyInv => QueueIsReadable
  BY DEF NotifyInv
<1>4. NotifyInv /\ [NotifyNext]_notifyVars
        => [\A i \in Items : intent[i] # "none" => intent'[i] # "none" /\ (intent'[i] = "queued" => intent[i] = "queued")
                      /\ (i \in inbox' \ inbox => enqueueing[i] = "stored")]_notifyVars
  BY <1>2, NotifyKeepsSound
<1>5. QED
  BY <1>1, <1>3, <1>4, InitNotify, NotifyKeepsSound, PTL DEF NotifySafety, OneIntentEach, NeverRequeued

-----------------------------------------------------------------------------
(* Pairing (RoomPairing), on the invariant of the room's membership. *)

Steps == {"none", "asking", "confirmed", "opening", "waiting"}
Others == Users \ {Candidate}

\* The room: the other users keep the writers they had, and invites never end
\* by themselves.
RoomFacts ==
  /\ IInv /\ creator = Creator /\ joinedAt[Creator] = 1
  /\ \A u \in Others : writerOf[u] = IF u \in Hosts THEN FirstWriter[u] ELSE None
  /\ \A i \in issued : expiresAt[i] = Never

\* The device draws no key of another user, and asks with the key of its
\* namespace until its account has the room.
AskFacts ==
  /\ asked \in [Requests -> [key : Writers \cup {None}, invite : Invites \cup {None}]]
  /\ local \in Writers /\ catalog \in BOOLEAN
  /\ call \in [step : Steps, request : Requests \cup {None}, key : Writers \cup {None}, signer : Hosts \cup {None}]
  /\ call.step # "none" => call.request \in Asked /\ call.key = asked[call.request].key
  /\ \A u \in Others : local # FirstWriter[u] /\ \A q \in Asked : asked[q].key # FirstWriter[u]
  /\ ~catalog => local = FirstWriter[Candidate] /\ \A q \in Asked : asked[q].key = local

\* An admission is what its request said.
AdmittedFacts ==
  /\ \A q \in Requests : admission[q] # NoAdmission =>
       q \in Asked /\ admission[q] = AdmissionRecord(asked[q].invite, Candidate, asked[q].key)
  /\ ~catalog /\ writerOf[Candidate] # None => writerOf[Candidate] = local

\* What hosts took as applied, and what they signed, is in the room.
AnswerFacts ==
  /\ serving \subseteq Hosts \X Requests \X BOOLEAN /\ replies \subseteq Requests \X Hosts
  /\ \A s \in serving : s[2] \in Asked /\ (s[3] => admission[s[2]] # NoAdmission)
  /\ \A r \in replies : admission[r[1]] # NoAdmission

PairInv == RoomFacts /\ AskFacts /\ AdmittedFacts /\ AnswerFacts

LEMMA Parties ==
  /\ Candidate \in Users /\ Creator \in Others /\ Creator \in Hosts /\ Hosts \subseteq Others
  /\ \A u \in Users : FirstWriter[u] \in Writers
  /\ \A u \in Others : FirstWriter[u] # FirstWriter[Candidate]
BY PairingAssumption DEF Others

LEMMA InitPairing == PairInit => PairInv
<1> SUFFICES ASSUME PairInit PROVE PairInv
  OBVIOUS
<1> USE Constants
<1>1. Candidate \in Users /\ Creator \in Hosts /\ Hosts \in SUBSET Users /\ Candidate \notin Hosts
  BY Parties DEF Others
<1>2. IsFiniteSet(Hosts) /\ Cardinality(Hosts) \in 1 .. MaxMembers
  <2>1. Cardinality(Hosts) <= MaxMembers
    BY PairingAssumption
  <2>2. IsFiniteSet(Hosts) /\ Cardinality(Hosts) \in Nat /\ Cardinality(Hosts) >= 1
    BY <1>1, UserSets
  <2>3. QED
    BY <2>1, <2>2
<1>3. Never \in Nat /\ Never = MaxTime + 1
  BY DEF Never
<1>4. /\ \A u \in Users : writerOf[u] = IF u \in Hosts THEN FirstWriter[u] ELSE None
      /\ \A u \in Users : role[u] = IF u = Creator THEN "creator" ELSE IF u \in Hosts THEN "member" ELSE "none"
      /\ \A u \in Users : FirstWriter[u] \in Writers
      /\ active = Hosts /\ banned = {} /\ creator = Creator /\ closed = FALSE
  BY Parties DEF PairInit
<1> DEFINE first == CHOOSE j \in Invites : TRUE
<1>5. /\ first \in Invites /\ issued = {first} /\ activeInvite = first /\ revoked = {}
      /\ expiresAt = [j \in Invites |-> IF j = first THEN Never ELSE 0]
      /\ useCount = [j \in Invites |-> IF j = first THEN Cardinality(Hosts) - 1 ELSE 0]
      /\ inviteUse = [j \in Invites |-> IF j = first THEN Hosts \ {Creator} ELSE {}]
  BY PairingAssumption DEF PairInit
<1> HIDE DEF first
<1>6. \A w \in Writers : owner[w] = IF \E u \in Hosts : FirstWriter[u] = w
                                    THEN CHOOSE u \in Hosts : FirstWriter[u] = w ELSE None
  BY DEF PairInit
<1>7. \A u \in Hosts : owner[FirstWriter[u]] = u
  BY <1>1, <1>4, <1>6, PairingAssumption
<1>8. \A w \in Writers : owner[w] # None => owner[w] \in Hosts /\ FirstWriter[owner[w]] = w
  BY <1>6
<1>9. TypeOK
  <2>1. RoomType
    <3>1. name \in Names /\ memberCount = Cardinality(Hosts)
      BY DEF PairInit
    <3>2. creator \in Users \cup {None} /\ closed \in BOOLEAN /\ activeInvite \in Invites \cup {None}
      BY <1>1, <1>4, <1>5
    <3>3. memberCount \in 0 .. MaxMembers
      BY <1>2, <3>1
    <3>4. QED
      BY <3>1, <3>2, <3>3 DEF RoomType
  <2>2. MemberType
    BY <1>1, Parties DEF PairInit, MemberType, Roles
  <2>3. WriterType
    BY <1>1, <1>4, <1>8 DEF PairInit, WriterType
  <2>4. InviteType
    BY <1>1, <1>2, <1>3, <1>5 DEF InviteType
  <2>5. AdmissionType /\ StaffType
    BY DEF PairInit, AdmissionType, StaffType
  <2>6. QED
    BY <2>1, <2>2, <2>3, <2>4, <2>5 DEF PairInit, TypeOK
<1>10. Records
  BY <1>1, <1>4 DEF Records
<1>11. MemberCountExact
  BY DEF PairInit, MemberCountExact
<1>12. OneLiveInvite
  BY <1>4, <1>5 DEF OneLiveInvite, Live
<1>13. WriterSpeaksForOne
  BY <1>1, <1>4, <1>7, <1>8 DEF WriterSpeaksForOne
<1>14. WritersFollowMembers
  <2>1. base = {FirstWriter[u] : u \in Hosts}
    BY DEF PairInit
  <2>2. {FirstWriter[u] : u \in Hosts} = {writerOf[u] : u \in active \cup {creator}}
    BY <1>1, <1>4
  <2>3. QED
    BY <2>1, <2>2 DEF WritersFollowMembers
<1>15. CreatorStays
  BY <1>1, <1>4 DEF CreatorStays
<1>16. RoomFacts
  BY <1>1, <1>4, <1>5, <1>9, <1>10, <1>11, <1>12, <1>13, <1>14, <1>15 DEF RoomFacts, IInv, PairInit, Others
<1>17. Asked = {}
  BY DEF PairInit, Asked
<1>18. AskFacts
  BY <1>1, <1>17, Parties DEF PairInit, AskFacts, NoCall, Steps
<1>19. AdmittedFacts /\ AnswerFacts
  BY <1>1, <1>4 DEF PairInit, AdmittedFacts, AnswerFacts
<1>20. QED
  BY <1>16, <1>18, <1>19 DEF PairInv

LEMMA RoomStays == RoomFacts /\ UNCHANGED <<seen, view>> => RoomFacts'
<1> SUFFICES ASSUME RoomFacts, UNCHANGED <<seen, view>> PROVE RoomFacts'
  OBVIOUS
<1>1. StaffType' /\ seen' \in 0 .. MaxOps
  BY TypeFrame DEF RoomFacts, IInv, TypeOK, view
<1>2. IInv'
  BY <1>1, StaffIInv DEF RoomFacts, view
<1>3. QED
  BY <1>2 DEF RoomFacts, view, roomVars, memberVars, inviteVars

\* A request with a key that is no other user's, which is new or says what it
\* said before.
LEMMA AskKeeps ==
  ASSUME PairInv, NEW q \in Requests, NEW k \in Writers, NEW i \in Invites \cup {None},
         \A u \in Others : k # FirstWriter[u], ~catalog => k = local,
         q \notin Asked \/ asked[q] = [key |-> k, invite |-> i],
         asked' = [asked EXCEPT ![q] = [key |-> k, invite |-> i]],
         call' \in [step : Steps, request : {q}, key : {k}, signer : Hosts \cup {None}],
         replies' \subseteq replies, UNCHANGED <<seen, view, local, catalog, serving>>
  PROVE  PairInv'
<1> USE Constants
<1>1. RoomFacts'
  BY RoomStays DEF PairInv
<1>2. /\ asked' \in [Requests -> [key : Writers \cup {None}, invite : Invites \cup {None}]]
      /\ q \in Asked' /\ asked'[q].key = k /\ \A r \in Asked : r \in Asked' /\ asked'[r] = asked[r]
      /\ \A r \in Asked' : r = q \/ r \in Asked
  BY DEF PairInv, AskFacts, Asked
<1>3. AskFacts'
  BY <1>2 DEF PairInv, AskFacts
<1>4. admission' = admission /\ writerOf' = writerOf
  BY DEF view, memberVars
<1>5. AdmittedFacts'
  BY <1>2, <1>4 DEF PairInv, AdmittedFacts, AdmissionRecord
<1>6. AnswerFacts'
  BY <1>2, <1>4 DEF PairInv, AnswerFacts
<1>7. QED
  BY <1>1, <1>3, <1>5, <1>6 DEF PairInv

LEMMA CallsKeep ==
  ASSUME PairInv, NEW q \in Requests, NEW k \in Writers, FirstJoinCall(q, k) \/ RejoinCall(q, k)
  PROVE  PairInv'
<1>1. /\ asked' = [asked EXCEPT ![q] = [key |-> k, invite |-> activeInvite]]
      /\ call' = [NoCall EXCEPT !.step = "asking", !.request = q, !.key = k]
      /\ UNCHANGED <<seen, view, local, catalog, serving, replies>>
  BY DEF FirstJoinCall, RejoinCall, Ask
<1>2. activeInvite \in Invites \cup {None} /\ Asked \subseteq Requests
  BY DEF PairInv, RoomFacts, IInv, TypeOK, RoomType, Asked
<1>3. call' \in [step : Steps, request : {q}, key : {k}, signer : Hosts \cup {None}]
  BY <1>1 DEF NoCall, Steps
<1>4. CASE FirstJoinCall(q, k)
  <2>1. k = local
    BY <1>4 DEF FirstJoinCall, OwnKey
  <2>2. q \notin Asked \/ asked[q] = [key |-> k, invite |-> activeInvite]
    BY <1>2, <1>4 DEF FirstJoinCall, NewRequest
  <2>3. \A u \in Others : k # FirstWriter[u]
    BY <2>1 DEF PairInv, AskFacts
  <2>4. QED
    BY <1>1, <1>2, <1>3, <2>1, <2>2, <2>3, AskKeeps
<1>5. CASE RejoinCall(q, k)
  <2>1. Drawn \subseteq Writers
    BY Constants, Parties DEF PairInv, AskFacts, Drawn, Asked
  <2>2. k \notin Drawn /\ q \notin Asked /\ catalog
    BY <1>2, <1>5, <2>1 DEF RejoinCall, NewKey, NewRequest
  <2>3. \A u \in Others : k # FirstWriter[u]
    BY <2>2 DEF Drawn, Others
  <2>4. QED
    BY <1>1, <1>2, <1>3, <2>2, <2>3, AskKeeps
<1>6. QED
  BY <1>4, <1>5

LEMMA AskAgainKeeps == ASSUME PairInv, NEW q \in Requests, AskAgain(q) PROVE PairInv'
<1>1. /\ call.step = "asking" /\ catalog /\ call' = [call EXCEPT !.request = q]
      /\ asked' = [asked EXCEPT ![q] = asked[call.request]] /\ replies' = {}
      /\ UNCHANGED <<seen, view, local, catalog, serving>>
  BY DEF AskAgain
<1>2. q \notin Asked
  BY DEF AskAgain, NewRequest, Asked
<1> DEFINE said == asked[call.request]
<1>3. /\ call.request \in Asked /\ call.request \in Requests /\ call.key = said.key
      /\ said \in [key : Writers \cup {None}, invite : Invites \cup {None}] /\ said.key # None
  BY <1>1 DEF PairInv, AskFacts, Asked
<1>4. /\ said = [key |-> said.key, invite |-> said.invite] /\ said.key \in Writers
      /\ said.invite \in Invites \cup {None} /\ \A u \in Others : said.key # FirstWriter[u]
  BY <1>3 DEF PairInv, AskFacts
<1>5. call' \in [step : Steps, request : {q}, key : {said.key}, signer : Hosts \cup {None}]
  BY <1>1, <1>3 DEF PairInv, AskFacts
<1>6. asked' = [asked EXCEPT ![q] = [key |-> said.key, invite |-> said.invite]]
  BY <1>1, <1>4
<1> HIDE DEF said
<1>7. QED
  BY <1>1, <1>2, <1>4, <1>5, <1>6, AskKeeps

\* The device goes on with what it asked for, or gives up.
Follows ==
  \/ call' = NoCall
  \/ /\ call.step # "none"
     /\ call' \in [step : Steps, request : {call.request}, key : {call.key}, signer : Hosts \cup {None}]
GoOn ==
  /\ UNCHANGED <<seen, view, asked, serving>> /\ replies' \subseteq replies
  /\ local' = local \/ (call.step # "none" /\ local' = call.key)
  /\ catalog' = catalog \/ catalog' = TRUE
  /\ Follows

LEMMA GoesOn == ASSUME PairInv, GoOn PROVE PairInv'
<1> USE DEF GoOn, Follows
<1> USE Constants
<1>1. RoomFacts'
  BY RoomStays DEF PairInv
<1>2. Asked' = Asked
  BY DEF Asked
<1>3. call.step # "none" => /\ call.request \in Asked /\ call.key = asked[call.request].key /\ call.key \in Writers
                            /\ \A u \in Others : call.key # FirstWriter[u]
                            /\ ~catalog => call.key = local
  BY DEF PairInv, AskFacts, Asked
<1>4. local' \in Writers /\ (~catalog => local' = local) /\ \A u \in Others : local' # FirstWriter[u]
  BY <1>3 DEF PairInv, AskFacts
<1>5. /\ call' \in [step : Steps, request : Requests \cup {None}, key : Writers \cup {None}, signer : Hosts \cup {None}]
      /\ call'.step # "none" => call'.request \in Asked /\ call'.key = asked[call'.request].key
  <2>1. CASE call' = NoCall
    BY <2>1 DEF NoCall, Steps
  <2>2. CASE call' # NoCall
    BY <1>3, <2>2 DEF Asked
  <2>3. QED
    BY <2>1, <2>2
<1>6. catalog' \in BOOLEAN /\ (~catalog' => ~catalog)
  <2>1. catalog \in BOOLEAN
    BY DEF PairInv, AskFacts
  <2>2. CASE catalog' = catalog
    BY <2>1, <2>2
  <2>3. CASE catalog' = TRUE
    BY <2>3
  <2>4. QED
    BY <2>2, <2>3
<1>7. AskFacts'
  BY <1>2, <1>4, <1>5, <1>6 DEF PairInv, AskFacts
<1>8. admission' = admission /\ writerOf' = writerOf
  BY DEF view, memberVars
<1>9. AdmittedFacts' /\ AnswerFacts'
  BY <1>2, <1>4, <1>6, <1>8 DEF PairInv, AdmittedFacts, AnswerFacts, AdmissionRecord
<1>10. QED
  BY <1>1, <1>7, <1>9 DEF PairInv

LEMMA CandidateKeeps ==
  ASSUME PairInv,
         \/ OpenRoom \/ Denied \/ ApplyClaim \/ JoinReturns \/ CallEnds \/ CallTimesOut
         \/ \E q \in Requests, h \in Hosts : Confirmed(q, h)
  PROVE  PairInv'
<1>1. call \in [step : Steps, request : Requests \cup {None}, key : Writers \cup {None}, signer : Hosts \cup {None}]
  BY DEF PairInv, AskFacts
<1>2. CASE OpenRoom
  BY <1>1, <1>2, GoesOn DEF GoOn, Follows, OpenRoom, NextWriter, hostVars, Steps
<1>3. CASE Denied \/ CallEnds
  <2>1. UNCHANGED <<seen, view, asked, serving, local, catalog>> /\ replies' \subseteq replies /\ call' = NoCall
    BY <1>3 DEF Denied, CallEnds
  <2>2. QED
    BY <2>1, GoesOn DEF GoOn, Follows
<1>4. CASE ApplyClaim
  <2>1. UNCHANGED <<seen, view, asked, serving, replies, local, catalog>> /\ call.step # "none"
    BY <1>4 DEF ApplyClaim, hostVars
  <2>2. call' = NoCall \/ call' = [call EXCEPT !.step = "waiting"]
    BY <1>4 DEF ApplyClaim
  <2>3. [call EXCEPT !.step = "waiting"] \in
          [step : Steps, request : {call.request}, key : {call.key}, signer : Hosts \cup {None}]
    BY <1>1 DEF Steps
  <2>4. QED
    BY <2>1, <2>2, <2>3, GoesOn DEF GoOn, Follows
<1>5. CASE JoinReturns \/ CallTimesOut
  <2>1. /\ UNCHANGED <<seen, view, asked, serving, replies, local>> /\ call' = NoCall
        /\ catalog' = catalog \/ catalog' = TRUE
    BY <1>5 DEF JoinReturns, CallTimesOut, hostVars
  <2>2. QED
    BY <2>1, GoesOn DEF GoOn, Follows
<1>6. CASE \E q \in Requests, h \in Hosts : Confirmed(q, h)
  <2>1. PICK h \in Hosts : /\ call.step # "none" /\ call' = [call EXCEPT !.step = "confirmed", !.signer = h]
                           /\ UNCHANGED <<seen, view, asked, serving, local, catalog>> /\ replies' \subseteq replies
    BY <1>6 DEF Confirmed
  <2>2. call' \in [step : Steps, request : {call.request}, key : {call.key}, signer : Hosts \cup {None}]
    BY <1>1, <2>1 DEF Steps
  <2>3. QED
    BY <2>1, <2>2, GoesOn DEF GoOn, Follows
<1>7. QED
  BY <1>2, <1>3, <1>4, <1>5, <1>6

\* A host only answers for what is in the room.
LEMMA HostKeeps ==
  ASSUME PairInv, NEW q \in Requests, NEW h \in Hosts, Serve(h, q) \/ Confirm(h, q) \/ HostStops(h)
  PROVE  PairInv'
<1>1. UNCHANGED <<seen, view, asked, local, catalog, call>>
  BY DEF Serve, Confirm, HostStops, candidateVars
<1>2. RoomFacts'
  BY <1>1, RoomStays DEF PairInv
<1>3. AskFacts' /\ Asked' = Asked
  BY <1>1 DEF PairInv, AskFacts, Asked
<1>4. admission' = admission /\ writerOf' = writerOf
  BY <1>1 DEF view, memberVars
<1>5. AdmittedFacts'
  BY <1>1, <1>3, <1>4 DEF PairInv, AdmittedFacts, AdmissionRecord
<1>6. AnswerFacts'
  <2>1. CASE Serve(h, q)
    <3>1. /\ q \in Asked /\ replies' = replies
          /\ serving' = serving \/ serving' = serving \cup {<<h, q, FALSE>>}
      BY <2>1 DEF Serve
    <3>2. AnswerFacts
      BY DEF PairInv
    <3>3. serving' \subseteq Hosts \X Requests \X BOOLEAN
      <4>1. serving \subseteq Hosts \X Requests \X BOOLEAN
        BY <3>2 DEF AnswerFacts
      <4>2. <<h, q, FALSE>> \in Hosts \X Requests \X BOOLEAN
        OBVIOUS
      <4>3. CASE serving' = serving
        BY <4>1, <4>3
      <4>4. CASE serving' = serving \cup {<<h, q, FALSE>>}
        BY <4>1, <4>2, <4>4
      <4>5. QED
        BY <3>1, <4>3, <4>4
    <3>4. \A s \in serving' : s \in serving \/ s = <<h, q, FALSE>>
      BY <3>1
    <3>5. ASSUME NEW s \in serving' PROVE s[2] \in Asked' /\ (s[3] => admission'[s[2]] # NoAdmission)
      <4>1. CASE s = <<h, q, FALSE>>
        <5>1. s[2] = q /\ s[3] = FALSE
          BY <4>1
        <5>2. QED
          BY <1>3, <3>1, <5>1
      <4>2. CASE s \in serving
        BY <1>3, <1>4, <3>2, <4>2 DEF AnswerFacts
      <4>3. QED
        BY <3>4, <4>1, <4>2
    <3>6. QED
      BY <1>3, <1>4, <3>1, <3>2, <3>3, <3>5 DEF AnswerFacts
  <2>2. CASE Confirm(h, q)
    <3>1. <<h, q, TRUE>> \in serving /\ serving' \subseteq serving /\ replies' \subseteq replies \cup {<<q, h>>}
      BY <2>2 DEF Confirm, Heard
    <3>2. admission[q] # NoAdmission
      BY <3>1 DEF PairInv, AnswerFacts
    <3>3. QED
      BY <1>3, <1>4, <3>1, <3>2 DEF PairInv, AnswerFacts
  <2>3. CASE HostStops(h)
    BY <1>3, <1>4, <2>3 DEF HostStops, PairInv, AnswerFacts
  <2>4. QED
    BY <2>1, <2>2, <2>3
<1>7. QED
  BY <1>2, <1>3, <1>5, <1>6 DEF PairInv

LEMMA AnswersStay ==
  ASSUME AnswerFacts, NEW q \in Requests, NEW h \in Hosts, q \in Asked, Asked' = Asked, replies' = replies,
         \A r \in Requests : admission[r] # NoAdmission => admission'[r] # NoAdmission,
         \/ serving' = serving \ {<<h, q, FALSE>>}
         \/ admission'[q] # NoAdmission /\ serving' = (serving \ {<<h, q, FALSE>>}) \cup {<<h, q, TRUE>>}
  PROVE  AnswerFacts'
<1>1. serving' \subseteq Hosts \X Requests \X BOOLEAN
  <2>1. serving \subseteq Hosts \X Requests \X BOOLEAN
    BY DEF AnswerFacts
  <2>2. <<h, q, TRUE>> \in Hosts \X Requests \X BOOLEAN
    OBVIOUS
  <2>3. serving' \subseteq serving \cup {<<h, q, TRUE>>}
    OBVIOUS
  <2>4. QED
    BY <2>1, <2>2, <2>3
<1>2. \A s \in serving' : s \in serving \/ (s = <<h, q, TRUE>> /\ admission'[q] # NoAdmission)
  OBVIOUS
<1>3. ASSUME NEW s \in serving' PROVE s[2] \in Asked' /\ (s[3] => admission'[s[2]] # NoAdmission)
  <2>1. CASE s = <<h, q, TRUE>> /\ admission'[q] # NoAdmission
    <3>1. s[2] = q
      BY <2>1
    <3>2. QED
      BY <2>1, <3>1
  <2>2. CASE s \in serving
    <3>1. s \in Hosts \X Requests \X BOOLEAN
      BY <2>2 DEF AnswerFacts
    <3>2. s[2] \in Requests
      BY <3>1
    <3>3. QED
      BY <2>2, <3>2 DEF AnswerFacts
  <2>3. QED
    BY <1>2, <2>1, <2>2
<1>4. \A s \in serving' : s[2] \in Asked' /\ (s[3] => admission'[s[2]] # NoAdmission)
  BY <1>3
<1>5. \A r \in replies' : admission'[r[1]] # NoAdmission
  BY DEF AnswerFacts
<1>6. QED
  BY <1>1, <1>4, <1>5 DEF AnswerFacts

LEMMA AppendKeeps ==
  ASSUME PairInv, NEW q \in Requests, NEW h \in Hosts, AppendAdmission(h, q)
  PROVE  PairInv'
<1> USE Constants
<1>1. /\ <<h, q, FALSE>> \in serving /\ UNCHANGED <<seen, asked, local, catalog, call, replies>>
      /\ IF Admits(h, q) THEN Admit(1, q, asked[q].invite, Candidate, asked[q].key, Candidate)
                         ELSE UNCHANGED view
      /\ \/ serving' = serving \ {<<h, q, FALSE>>}
         \/ Accepted(h, q) /\ serving' = (serving \ {<<h, q, FALSE>>}) \cup {<<h, q, TRUE>>}
  BY DEF AppendAdmission, Answer, MarkerApplied, candidateVars
<1>2. AskFacts' /\ Asked' = Asked
  BY <1>1 DEF PairInv, AskFacts, Asked
<1>3. q \in Asked /\ asked[q].key \in Writers
  BY <1>1 DEF PairInv, AskFacts, AnswerFacts, Asked
<1>4. CASE ~Admits(h, q)
  <2>1. UNCHANGED view
    BY <1>1, <1>4
  <2>2. RoomFacts'
    BY <1>1, <2>1, RoomStays DEF PairInv
  <2>3. admission' = admission /\ writerOf' = writerOf
    BY <2>1 DEF view, memberVars
  <2>4. AdmittedFacts'
    BY <1>1, <1>2, <2>3 DEF PairInv, AdmittedFacts, AdmissionRecord
  <2>5. AnswerFacts'
    <3>1. Accepted(h, q) => admission[q] # NoAdmission
      BY <1>4 DEF Accepted, Repeats
    <3>2. QED
      BY <1>1, <1>2, <1>3, <2>3, <3>1, AnswersStay DEF PairInv
  <2>6. QED
    BY <1>2, <2>2, <2>4, <2>5 DEF PairInv
<1>5. CASE Admits(h, q)
  <2> DEFINE i == asked[q].invite
             k == asked[q].key
  <2>1. Admissible(1, q, i, Candidate, k) /\ Admit(1, q, i, Candidate, k, Candidate)
    BY <1>1, <1>5 DEF Admits
  <2>2. i \in Invites /\ creator # None /\ 1 \in Times /\ Candidate \in Users /\ k \in Writers
    BY <1>3, <2>1, Parties DEF Admissible, PairInv, RoomFacts, IInv, TypeOK, InviteType, Times, Others
  <2> HIDE DEF i, k
  <2>3. IInv'
    BY <1>1, <2>1, <2>2, AdmitIInv DEF PairInv, RoomFacts, IInv, TypeOK
  <2>4. /\ UNCHANGED <<creator, issued, expiresAt>>
        /\ \A u \in Others : writerOf'[u] = writerOf[u] /\ joinedAt'[u] = joinedAt[u]
        /\ writerOf'[Candidate] = k
        /\ admission' = [admission EXCEPT ![q] = AdmissionRecord(i, Candidate, k)]
    BY <2>1, <2>2 DEF Admit, PairInv, RoomFacts, IInv, TypeOK, MemberType, Others
  <2>5. RoomFacts'
    BY <2>3, <2>4, Parties DEF PairInv, RoomFacts
  <2>6. /\ admission'[q] = AdmissionRecord(i, Candidate, k) /\ admission'[q] # NoAdmission
        /\ \A r \in Requests \ {q} : admission'[r] = admission[r]
    BY <2>2, <2>4 DEF PairInv, RoomFacts, IInv, TypeOK, AdmissionType, AdmissionRecord, NoAdmission
  <2>7. AdmittedFacts'
    <3>1. ~catalog => k = local
      BY <1>3 DEF k, PairInv, AskFacts
    <3>2. \A r \in Requests : admission'[r] # NoAdmission =>
            r \in Asked /\ admission'[r] = AdmissionRecord(asked[r].invite, Candidate, asked[r].key)
      BY <1>3, <2>6 DEF i, k, PairInv, AdmittedFacts
    <3>3. QED
      BY <1>1, <1>2, <2>4, <3>1, <3>2 DEF AdmittedFacts
  <2>8. AnswerFacts'
    BY <1>1, <1>2, <1>3, <2>6, AnswersStay DEF PairInv
  <2>9. QED
    BY <1>2, <2>5, <2>7, <2>8 DEF PairInv
<1>6. QED
  BY <1>4, <1>5

\* The room changes otherwise.
LEMMA MovesKeep ==
  ASSUME PairInv, IInv', UNCHANGED <<seen, asked, candidateVars, hostVars>>,
         UNCHANGED <<creator, writerOf, joinedAt, admission>>, \A i \in issued' : expiresAt'[i] = Never
  PROVE  PairInv'
<1>1. RoomFacts'
  BY DEF PairInv, RoomFacts
<1>2. AskFacts' /\ Asked' = Asked
  BY DEF PairInv, AskFacts, Asked, candidateVars
<1>3. AdmittedFacts' /\ AnswerFacts'
  BY <1>2 DEF PairInv, AdmittedFacts, AnswerFacts, AdmissionRecord, candidateVars, hostVars
<1>4. QED
  BY <1>1, <1>2, <1>3 DEF PairInv

LEMMA LeaveKeeps == ASSUME PairInv, Leave PROVE PairInv'
<1> USE Constants
<1>1. /\ Candidate \in active /\ writerOf[Candidate] = local /\ MemberLeave(local)
      /\ UNCHANGED <<seen, asked, candidateVars, hostVars>>
  BY DEF Leave, HasLocalMembership
<1>2. local \in Writers /\ local # None /\ Candidate \in Users /\ Candidate # None
  BY Parties DEF PairInv, AskFacts
<1>3. owner[local] = Candidate
  BY <1>1, <1>2 DEF PairInv, RoomFacts, IInv, WriterSpeaksForOne
<1>4. joinedAt[Candidate] <= MaxTime /\ creator # None /\ Candidate \notin banned
  BY <1>1, <1>2, Parties DEF PairInv, RoomFacts, IInv, TypeOK, MemberType, Records, Others
<1>5. Authorised(local, MaxTime)
  BY <1>1, <1>2, <1>3, <1>4 DEF Authorised
<1>6. IInv'
  BY <1>1, <1>2, <1>5, MemberLeaveIInv DEF PairInv, RoomFacts, IInv, TypeOK
<1>7. UNCHANGED <<creator, writerOf, joinedAt, admission, issued, expiresAt>>
  BY <1>1 DEF MemberLeave, inviteVars
<1>8. QED
  BY <1>1, <1>6, <1>7, MovesKeep DEF PairInv, RoomFacts

LEMMA ModerateKeeps == ASSUME PairInv, Moderate PROVE PairInv'
<1> USE Constants
<1> DEFINE w == FirstWriter[Creator]
<1>1. UNCHANGED <<seen, asked, candidateVars, hostVars>> /\ seen' \in 0 .. MaxOps
  BY DEF Moderate, PairInv, RoomFacts, IInv, TypeOK
<1>2. w \in Writers /\ w # None /\ Creator \in Users /\ Creator # None /\ writerOf[Creator] = w /\ owner[w] = Creator
  BY Parties DEF PairInv, RoomFacts, IInv, WriterSpeaksForOne, Others
<1>3. CreatorActs(w) => Authorised(w, 1)
  <2>1. ASSUME ~closed PROVE Creator \in active /\ Creator \notin banned
    BY <1>2, <2>1 DEF PairInv, RoomFacts, IInv, CreatorStays, Records
  <2>2. QED
    BY <1>2, <2>1 DEF CreatorActs, Authorised, PairInv, RoomFacts
<1> HIDE DEF w
<1>4. CASE RoomClose(w)
  <2>1. IInv'
    BY <1>1, <1>3, <1>4, RoomCloseIInv DEF RoomClose, PairInv, RoomFacts
  <2>2. UNCHANGED <<creator, writerOf, joinedAt, admission, issued, expiresAt>>
    BY <1>4 DEF RoomClose, memberVars
  <2>3. QED
    BY <1>1, <2>1, <2>2, MovesKeep DEF PairInv, RoomFacts
<1>5. CASE \E i \in Invites \ issued : InviteCreate(w, 1, i, Never, Preview)
  <2>1. PICK i \in Invites \ issued : InviteCreate(w, 1, i, Never, Preview)
    BY <1>5
  <2>2. 1 \in Times /\ Never \in Expiries
    BY DEF Times, Expiries, Never
  <2>3. IInv'
    BY <1>1, <1>3, <2>1, <2>2, InviteCreateIInv DEF InviteCreate, PairInv, RoomFacts
  <2>4. UNCHANGED <<creator, writerOf, joinedAt, admission>> /\ \A j \in issued' : expiresAt'[j] = Never
    BY <2>1 DEF InviteCreate, memberVars, PairInv, RoomFacts, IInv, TypeOK, InviteType
  <2>5. QED
    BY <1>1, <2>3, <2>4, MovesKeep
<1>6. CASE \E u \in Users : MemberRemove(w, u)
  <2>1. PICK u \in Users : MemberRemove(w, u)
    BY <1>6
  <2>2. IInv'
    BY <1>1, <1>3, <2>1, MemberRemoveIInv DEF MemberRemove, PairInv, RoomFacts
  <2>3. UNCHANGED <<creator, writerOf, joinedAt, admission, issued, expiresAt>>
    BY <2>1 DEF MemberRemove, inviteVars
  <2>4. QED
    BY <1>1, <2>2, <2>3, MovesKeep DEF PairInv, RoomFacts
<1>7. QED
  BY <1>4, <1>5, <1>6 DEF Moderate, w

LEMMA PairingIsSound == PairSpec => []PairInv
<1>1. PairInv /\ [PairNext]_<<seen, pairVars>> => PairInv'
  <2>1. SUFFICES ASSUME PairInv, [PairNext]_<<seen, pairVars>> PROVE PairInv'
    OBVIOUS
  <2>2. CASE UNCHANGED <<seen, pairVars>>
    <3>1. UNCHANGED <<seen, view, asked, local, catalog, call, serving, replies>>
      BY <2>2 DEF pairVars, candidateVars, hostVars
    <3>2. RoomFacts'
      BY <2>1, <3>1, RoomStays DEF PairInv
    <3>3. admission' = admission /\ writerOf' = writerOf
      BY <3>1 DEF view, memberVars
    <3>4. QED
      BY <2>1, <3>1, <3>2, <3>3 DEF PairInv, AskFacts, AdmittedFacts, AnswerFacts, Asked, AdmissionRecord
  <2>3. CASE \E q \in Requests, k \in Writers : FirstJoinCall(q, k) \/ RejoinCall(q, k)
    BY <2>1, <2>3, CallsKeep
  <2>4. CASE \E q \in Requests, h \in Hosts :
               Confirmed(q, h) \/ Serve(h, q) \/ AppendAdmission(h, q) \/ Confirm(h, q)
    BY <2>1, <2>4, CandidateKeeps, HostKeeps, AppendKeeps
  <2>5. CASE OpenRoom \/ Denied \/ ApplyClaim \/ JoinReturns \/ CallEnds \/ CallTimesOut \/ Leave
    BY <2>1, <2>5, CandidateKeeps, LeaveKeeps
  <2>6. CASE \E q \in Requests : AskAgain(q)
    BY <2>1, <2>6, AskAgainKeeps
  <2>7. CASE \E h \in Hosts : HostStops(h)
    <3>1. \E q \in Requests : TRUE
      BY <2>1, <2>7 DEF HostStops, PairInv, AnswerFacts
    <3>2. QED
      BY <2>1, <2>7, <3>1, HostKeeps
  <2>8. QED
    BY <2>1, <2>2, <2>3, <2>4, <2>5, <2>6, <2>7, ModerateKeeps DEF PairNext
<1>2. QED
  BY <1>1, InitPairing, PTL DEF PairSpec

\* Pairing gives access that the room backs, and a join that stopped is not
\* lost, for any number of hosts, requests, keys and moderations.
THEOREM PairingHolds == PairSpec => []JoinsHold
<1> USE Constants
<1>1. ASSUME PairInv PROVE AccessIsBacked
  <2>1. \A r \in replies :
          admission[r[1]] = [invite |-> asked[r[1]].invite, user |-> Candidate, writer |-> asked[r[1]].key]
    BY <1>1 DEF PairInv, AnswerFacts, AdmittedFacts, AdmissionRecord
  <2>2. ASSUME Candidate \in active, local \in base PROVE writerOf[Candidate] = local
    <3>1. PICK u \in active \cup {creator} : local = writerOf[u]
      BY <1>1, <2>2, Parties DEF PairInv, RoomFacts, IInv, WritersFollowMembers, Others
    <3>2. u \in Users /\ local # None
      BY <1>1, <3>1, Parties DEF PairInv, RoomFacts, AskFacts, IInv, TypeOK, MemberType, Others
    <3>3. CASE u # Candidate
      BY <1>1, <3>1, <3>2, <3>3 DEF PairInv, RoomFacts, AskFacts, Others
    <3>4. QED
      BY <3>1, <3>3
  <2>3. QED
    BY <2>1, <2>2 DEF AccessIsBacked
<1>2. ASSUME PairInv PROVE JoinCanResume
  <2>1. SUFFICES ASSUME Candidate \in active, ~catalog PROVE
             /\ FirstJoinKeepsWriter
             /\ \A q \in Requests, h \in Hosts :
                  /\ Serves(h)
                  /\ q \in Asked => asked[q] = [key |-> local, invite |-> activeInvite]
                  => Admissible(1, q, activeInvite, Candidate, local) \/ Repeats(h, q)
    BY DEF JoinCanResume
  <2>2. Candidate \in Users /\ writerOf[Candidate] # None /\ Candidate \notin banned /\ writerOf[Candidate] = local
    BY <1>2, <2>1, Parties DEF PairInv, RoomFacts, IInv, Records, AdmittedFacts
  <2>3. owner[local] = Candidate
    BY <1>2, <2>2 DEF PairInv, RoomFacts, IInv, WriterSpeaksForOne
  <2>4. ASSUME NEW q \in Requests, NEW h \in Hosts, Serves(h), ~Repeats(h, q)
        PROVE  Admissible(1, q, activeInvite, Candidate, local)
    <3>1. ~closed /\ activeInvite \in Invites /\ admission[q] = NoAdmission
      BY <1>2, <2>4 DEF Serves, Repeats, PairInv, RoomFacts, IInv, TypeOK, RoomType
    <3>2. activeInvite \in issued /\ activeInvite \notin revoked
      BY <1>2, <3>1 DEF PairInv, RoomFacts, IInv, OneLiveInvite, Live
    <3>3. 1 < expiresAt[activeInvite]
      BY <1>2, <3>2 DEF PairInv, RoomFacts, Never
    <3>4. QED
      BY <2>1, <2>2, <2>3, <3>1, <3>2, <3>3 DEF Admissible, FreshRequest, Barred, HasPlace
  <2>5. FirstJoinKeepsWriter
    BY <2>2 DEF FirstJoinKeepsWriter
  <2>6. QED
    BY <2>4, <2>5
<1>3. PairInv => JoinsHold
  BY <1>1, <1>2 DEF JoinsHold
<1>4. QED
  BY <1>3, PairingIsSound, PTL

-----------------------------------------------------------------------------
(* The event streams of a browser. *)

\* The backlog is the last ids, as many as fit.
Base(p) == lastId - Len(wire[p])
BacklogInv ==
  /\ Len(events) = IF lastId < MaxEventBacklog THEN lastId ELSE MaxEventBacklog
  /\ \A i \in DOMAIN events : events[i] = lastId - Len(events) + i

\* A stream carries the last ids; between its start and the cursor are only
\* ids that had left the backlog when it was opened.
WireInv ==
  \A p \in Pages :
    /\ \A i \in DOMAIN wire[p] : wire[p][i] = Base(p) + i
    /\ Base(p) >= cursor[p]
    /\ p \notin sse => wire[p] = <<>>
    /\ p \in sse => Base(p) = cursor[p] \/ Base(p) + MaxEventBacklog <= lastId

HeardInv ==
  \A p \in Pages :
    /\ \A i, j \in DOMAIN heard[p] : i < j => heard[p][i] < heard[p][j]
    /\ \A i \in DOMAIN heard[p] : heard[p][i] <= cursor[p]
    /\ \A id \in 1 .. cursor[p] :
         id > lastId - MaxEventBacklog => \E i \in DOMAIN heard[p] : heard[p][i] = id

BrowserInv == IsFiniteSet(sse) /\ StreamsOK /\ BacklogInv /\ WireInv /\ HeardInv

LEMMA InitBrowser == StreamsInit => BrowserInv
<1> SUFFICES ASSUME StreamsInit PROVE BrowserInv
  OBVIOUS
<1> USE StreamsAssumption
<1>1. IsFiniteSet(sse) /\ Cardinality(sse) = 0
  BY FS_EmptySet DEF StreamsInit
<1>2. \A S : <<>> \in Seq(S)
  OBVIOUS
<1>3. StreamsOK
  BY <1>1, <1>2 DEF StreamsInit, StreamsOK, EventIdsSoFar
<1>4. BacklogInv /\ WireInv /\ HeardInv
  BY DEF StreamsInit, BacklogInv, WireInv, HeardInv, Base
<1>5. QED
  BY <1>1, <1>3, <1>4 DEF BrowserInv

\* The places of an interval, in order.
LEMMA NthOfInterval ==
  ASSUME NEW a \in Nat, NEW b \in Nat, NEW n \in 1 .. b - a + 1
  PROVE  NthOf(a .. b, n) = a + n - 1
<1>1. ASSUME NEW i \in a .. b PROVE Cardinality({j \in a .. b : j <= i}) = i - a + 1
  <2>1. {j \in a .. b : j <= i} = a .. i /\ a \in Int /\ i \in Int /\ ~(a > i)
    OBVIOUS
  <2>2. Cardinality(a .. i) = i - a + 1
    BY <2>1, FS_Interval
  <2>3. QED
    BY <2>1, <2>2
<1>2. a + n - 1 \in a .. b
  OBVIOUS
<1>3. \A i \in a .. b : Cardinality({j \in a .. b : j <= i}) = n <=> i = a + n - 1
  BY <1>1
<1>4. QED
  BY <1>2, <1>3 DEF NthOf

\* A replay is what of the last ids is after the cursor.
LEMMA ReplayShape ==
  ASSUME BrowserInv, NEW c \in 0 .. lastId
  PROVE  \E n \in Nat :
           /\ n <= Len(events) /\ Replayed(c) = [i \in 1 .. n |-> lastId - n + i]
           /\ lastId - n = c \/ (lastId - n > c /\ lastId - n + MaxEventBacklog <= lastId)
<1> USE StreamsAssumption
<1> DEFINE len == Len(events)
           from == IF c <= lastId - len THEN 1 ELSE c - (lastId - len) + 1
           n == len - from + 1
<1>1. /\ lastId \in Nat /\ len \in Nat /\ len <= lastId /\ DOMAIN events = 1 .. len
      /\ lastId < MaxEventBacklog => len = lastId
      /\ lastId >= MaxEventBacklog => len = MaxEventBacklog
      /\ \A i \in 1 .. len : events[i] = lastId - len + i
  <2>1. lastId \in Nat /\ events \in Seq(EventIdsSoFar)
    BY DEF BrowserInv, StreamsOK
  <2>2. len \in Nat /\ DOMAIN events = 1 .. len
    BY <2>1
  <2>3. /\ len = IF lastId < MaxEventBacklog THEN lastId ELSE MaxEventBacklog
        /\ \A i \in DOMAIN events : events[i] = lastId - len + i
    BY DEF BrowserInv, BacklogInv
  <2> HIDE DEF len
  <2>4. QED
    BY <2>1, <2>2, <2>3
<1> HIDE DEF len
<1>2. from \in 1 .. len + 1 /\ n \in Nat /\ n <= len
  BY <1>1
<1>3. \A i \in 1 .. len : lastId - len + i > c <=> i >= from
  BY <1>1
<1>4. lastId - n = c \/ (lastId - n > c /\ lastId - n + MaxEventBacklog <= lastId)
  BY <1>1
<1>5. Missed(c) = from .. len
  BY <1>1, <1>2, <1>3 DEF Missed, IsAfter
<1>6. Cardinality(Missed(c)) = n
  BY <1>1, <1>2, <1>5, FS_Interval
<1> HIDE DEF n, from
<1>7. ASSUME NEW i \in 1 .. n PROVE events[NthOf(Missed(c), i)] = lastId - n + i
  <2>1. n = len - from + 1 /\ from \in Nat
    BY <1>2 DEF n
  <2>2. NthOf(Missed(c), i) = from + i - 1
    BY <1>1, <1>5, <2>1, NthOfInterval
  <2>3. from + i - 1 \in 1 .. len
    BY <1>1, <1>2, <2>1
  <2>4. QED
    BY <1>1, <1>2, <2>1, <2>2, <2>3
<1>8. Replayed(c) = [i \in 1 .. n |-> lastId - n + i]
  BY <1>6, <1>7 DEF Replayed
<1>9. QED
  BY <1>1, <1>2, <1>4, <1>8 DEF len

LEMMA PublishKeepsStreams == BrowserInv /\ PublishEvent => BrowserInv'
<1> SUFFICES ASSUME BrowserInv, PublishEvent PROVE BrowserInv'
  OBVIOUS
<1> USE StreamsAssumption
<1>1. /\ lastId \in Nat /\ lastId' = lastId + 1 /\ lastId' <= MaxEvents
      /\ UNCHANGED <<sse, stale, cursor, heard>>
      /\ EventIdsSoFar \subseteq EventIdsSoFar' /\ lastId' \in EventIdsSoFar'
      /\ sse \subseteq Pages
  BY DEF PublishEvent, BrowserInv, StreamsOK, EventIdsSoFar
<1>2. \A s \in Seq(EventIdsSoFar) :
        /\ s \in Seq(EventIdsSoFar') /\ Append(s, lastId') \in Seq(EventIdsSoFar')
        /\ Len(Append(s, lastId')) = Len(s) + 1
        /\ \A i \in 1 .. Len(s) : Append(s, lastId')[i] = s[i]
        /\ Append(s, lastId')[Len(s) + 1] = lastId'
  <2>1. \A s \in Seq(EventIdsSoFar) : s \in Seq(EventIdsSoFar')
    BY <1>1, SeqMonotonic
  <2>2. QED
    BY <1>1, <2>1, AppendProperties
<1>3. events' \in Seq(EventIdsSoFar') /\ BacklogInv' /\ Len(events') <= MaxEventBacklog
  <2> DEFINE log == Append(events, lastId')
  <2>1. /\ events \in Seq(EventIdsSoFar)
        /\ Len(events) = IF lastId < MaxEventBacklog THEN lastId ELSE MaxEventBacklog
        /\ \A i \in 1 .. Len(events) : events[i] = lastId - Len(events) + i
    <3>1. events \in Seq(EventIdsSoFar)
      BY DEF BrowserInv, StreamsOK
    <3>2. DOMAIN events = 1 .. Len(events)
      BY <3>1
    <3>3. QED
      BY <3>1, <3>2 DEF BrowserInv, BacklogInv
  <2>2. /\ log \in Seq(EventIdsSoFar') /\ Len(log) = Len(events) + 1
        /\ \A i \in 1 .. Len(log) : log[i] = lastId' - Len(log) + i
    <3>1. /\ log \in Seq(EventIdsSoFar') /\ Len(log) = Len(events) + 1
          /\ \A i \in 1 .. Len(events) : log[i] = events[i]
          /\ log[Len(events) + 1] = lastId' /\ Len(events) \in Nat
      BY <1>2, <2>1
    <3> HIDE DEF log
    <3>2. ASSUME NEW i \in 1 .. Len(log) PROVE log[i] = lastId' - Len(log) + i
      <4>1. CASE i = Len(events) + 1
        BY <1>1, <3>1, <4>1
      <4>2. CASE i # Len(events) + 1
        <5>1. i \in 1 .. Len(events)
          BY <3>1, <4>2
        <5>2. QED
          BY <1>1, <2>1, <3>1, <5>1
      <4>3. QED
        BY <4>1, <4>2
    <3>3. QED
      BY <3>1, <3>2
  <2>3. events' = Bounded(log)
    BY DEF PublishEvent
  <2> HIDE DEF log
  <2>4. CASE Len(log) > MaxEventBacklog
    <3>1. /\ events' = Tail(log) /\ Tail(log) \in Seq(EventIdsSoFar') /\ Len(Tail(log)) = Len(log) - 1
          /\ \A i \in 1 .. Len(Tail(log)) : Tail(log)[i] = log[i + 1]
      BY <2>2, <2>3, <2>4, HeadTailProperties DEF Bounded
    <3>2. QED
      BY <1>1, <2>1, <2>2, <2>4, <3>1 DEF BacklogInv
  <2>5. CASE ~(Len(log) > MaxEventBacklog)
    <3>1. events' = log /\ DOMAIN log = 1 .. Len(log)
      BY <2>2, <2>3, <2>5 DEF Bounded
    <3>2. Len(events) \in Nat
      BY <2>1
    <3>3. QED
      BY <1>1, <2>1, <2>2, <2>5, <3>1, <3>2 DEF BacklogInv
  <2>6. QED
    BY <2>4, <2>5
<1>4. ASSUME NEW p \in Pages
      PROVE  /\ wire'[p] \in Seq(EventIdsSoFar')
             /\ wire'[p] = IF p \in sse THEN Append(wire[p], lastId') ELSE wire[p]
             /\ heard'[p] \in Seq(EventIdsSoFar') /\ cursor'[p] \in 0 .. lastId'
             /\ wire[p] \in Seq(EventIdsSoFar) /\ heard[p] \in Seq(EventIdsSoFar) /\ cursor[p] \in 0 .. lastId
  BY <1>1, <1>2 DEF BrowserInv, StreamsOK, PublishEvent
<1>5. WireInv'
  <2>1. SUFFICES ASSUME NEW p \in Pages
        PROVE /\ \A i \in DOMAIN wire'[p] : wire'[p][i] = Base(p)' + i
              /\ Base(p)' >= cursor'[p]
              /\ p \notin sse => wire'[p] = <<>>
              /\ p \in sse => Base(p)' = cursor'[p] \/ Base(p)' + MaxEventBacklog <= lastId'
    BY <1>1 DEF WireInv
  <2>2. /\ \A i \in 1 .. Len(wire[p]) : wire[p][i] = Base(p) + i
        /\ Base(p) >= cursor[p]
        /\ p \notin sse => wire[p] = <<>>
        /\ p \in sse => Base(p) = cursor[p] \/ Base(p) + MaxEventBacklog <= lastId
        /\ Base(p) = lastId - Len(wire[p]) /\ Len(wire[p]) \in Nat /\ Base(p) \in Int
    <3>1. DOMAIN wire[p] = 1 .. Len(wire[p]) /\ Len(wire[p]) \in Nat
      BY <1>4
    <3>2. Base(p) = lastId - Len(wire[p]) /\ Base(p) \in Int
      BY <1>1, <3>1 DEF Base
    <3>3. QED
      BY <3>1, <3>2 DEF BrowserInv, WireInv
  <2>3. CASE p \in sse
    <3>1. /\ Len(wire'[p]) = Len(wire[p]) + 1 /\ DOMAIN wire'[p] = 1 .. Len(wire'[p])
          /\ \A i \in 1 .. Len(wire[p]) : wire'[p][i] = wire[p][i]
          /\ wire'[p][Len(wire[p]) + 1] = lastId'
      <4>1. wire'[p] = Append(wire[p], lastId') /\ wire[p] \in Seq(EventIdsSoFar) /\ wire'[p] \in Seq(EventIdsSoFar')
        BY <1>4, <2>3
      <4>2. DOMAIN wire'[p] = 1 .. Len(wire'[p])
        BY <4>1
      <4>3. QED
        BY <1>2, <4>1, <4>2
    <3>2. Base(p)' = Base(p)
      BY <1>1, <2>2, <3>1 DEF Base
    <3>3. ASSUME NEW i \in DOMAIN wire'[p] PROVE wire'[p][i] = Base(p) + i
      <4>1. CASE i = Len(wire[p]) + 1
        BY <1>1, <2>2, <3>1, <4>1
      <4>2. CASE i # Len(wire[p]) + 1
        <5>1. i \in 1 .. Len(wire[p])
          BY <2>2, <3>1, <4>2
        <5>2. QED
          BY <2>2, <3>1, <5>1
      <4>3. QED
        BY <4>1, <4>2
    <3>4. QED
      <4>1. cursor'[p] = cursor[p] /\ cursor[p] \in Nat
        BY <1>1, <1>4
      <4>2. Base(p) = cursor'[p] \/ Base(p) + MaxEventBacklog <= lastId'
        <5>1. (Base(p) = cursor[p] \/ Base(p) + MaxEventBacklog <= lastId) /\ Base(p) \in Int
          BY <2>2, <2>3
        <5>2. lastId' = lastId + 1 /\ lastId \in Nat
          BY <1>1
        <5>3. QED
          BY <4>1, <5>1, <5>2
      <4>3. QED
        BY <2>2, <2>3, <3>2, <3>3, <4>1, <4>2
  <2>4. CASE p \notin sse
    <3>1. wire'[p] = <<>> /\ cursor'[p] = cursor[p] /\ Base(p)' = lastId'
      <4>1. wire'[p] = <<>> /\ cursor'[p] = cursor[p]
        BY <1>1, <1>4, <2>2, <2>4
      <4>2. Base(p)' = lastId' - Len(<<>>)
        BY <4>1 DEF Base
      <4>3. QED
        BY <1>1, <4>1, <4>2
    <3>2. QED
      BY <1>1, <1>4, <2>4, <3>1
  <2>5. QED
    BY <2>3, <2>4
<1>6. HeardInv'
  BY <1>1, <1>4 DEF BrowserInv, HeardInv
<1>7. StreamsOK' /\ IsFiniteSet(sse)'
  BY <1>1, <1>3, <1>4 DEF BrowserInv, StreamsOK, PublishEvent
<1>8. QED
  BY <1>3, <1>5, <1>6, <1>7 DEF BrowserInv

LEMMA OpenKeepsStreams == ASSUME BrowserInv, NEW p \in Pages, OpenEventStream(p) PROVE BrowserInv'
<1> USE StreamsAssumption
<1>1. /\ p \notin sse /\ sse' = sse \cup {p} /\ UNCHANGED <<lastId, events, stale, cursor, heard>>
      /\ wire' = [wire EXCEPT ![p] = Replayed(cursor[p])]
      /\ lastId \in Nat /\ cursor \in [Pages -> 0 .. lastId] /\ wire \in [Pages -> Seq(EventIdsSoFar)]
  BY DEF OpenEventStream, BrowserInv, StreamsOK
<1>2. PICK n \in Nat :
        /\ n <= Len(events) /\ Replayed(cursor[p]) = [i \in 1 .. n |-> lastId - n + i]
        /\ lastId - n = cursor[p] \/ (lastId - n > cursor[p] /\ lastId - n + MaxEventBacklog <= lastId)
  BY <1>1, ReplayShape
<1>3. Len(events) \in Nat /\ Len(events) <= lastId
  BY <1>1 DEF BrowserInv, StreamsOK, BacklogInv
<1>4. /\ wire'[p] = [i \in 1 .. n |-> lastId - n + i] /\ wire'[p] \in Seq(EventIdsSoFar)
      /\ Len(wire'[p]) = n /\ DOMAIN wire'[p] = 1 .. n
  BY <1>1, <1>2, <1>3 DEF EventIdsSoFar
<1>5. WireInv'
  <2>1. SUFFICES ASSUME NEW q \in Pages
        PROVE /\ \A i \in DOMAIN wire'[q] : wire'[q][i] = Base(q)' + i
              /\ Base(q)' >= cursor'[q]
              /\ q \notin sse' => wire'[q] = <<>>
              /\ q \in sse' => Base(q)' = cursor'[q] \/ Base(q)' + MaxEventBacklog <= lastId'
    BY DEF WireInv
  <2>2. CASE q = p
    BY <1>1, <1>2, <1>4, <2>2 DEF Base
  <2>3. CASE q # p
    <3>1. wire'[q] = wire[q] /\ (q \in sse' <=> q \in sse)
      BY <1>1, <2>3
    <3>2. QED
      BY <1>1, <3>1 DEF Base, BrowserInv, WireInv
  <2>4. QED
    BY <2>2, <2>3
<1>6. Cardinality(sse') + stale <= MaxSubscriptions /\ IsFiniteSet(sse')
  <2>1. IsFiniteSet(sse) /\ Cardinality(sse) + stale < MaxSubscriptions /\ stale \in Nat
    BY DEF OpenEventStream, HasCapacity, BrowserInv, StreamsOK
  <2>2. Cardinality(sse') = Cardinality(sse) + 1 /\ IsFiniteSet(sse') /\ Cardinality(sse) \in Nat
    BY <1>1, <2>1, FS_AddElement, FS_CardinalityType
  <2>3. QED
    BY <2>1, <2>2
<1>7. wire' \in [Pages -> Seq(EventIdsSoFar)]
  BY <1>1, <1>4
<1>8. BacklogInv' /\ HeardInv' /\ EventIdsSoFar' = EventIdsSoFar
  <2>1. EventIdsSoFar' = EventIdsSoFar
    BY <1>1 DEF EventIdsSoFar
  <2>2. BacklogInv'
    BY <1>1 DEF BrowserInv, BacklogInv
  <2>3. HeardInv'
    BY <1>1 DEF BrowserInv, HeardInv
  <2>4. QED
    BY <2>1, <2>2, <2>3
<1>9. StreamsOK'
  BY <1>1, <1>6, <1>7, <1>8 DEF BrowserInv, StreamsOK
<1>10. QED
  BY <1>5, <1>6, <1>8, <1>9 DEF BrowserInv

LEMMA ReadKeepsStreams == ASSUME BrowserInv, NEW p \in Pages, Read(p) PROVE BrowserInv'
<1> USE StreamsAssumption
<1>1. /\ p \in sse /\ wire[p] # <<>> /\ UNCHANGED <<lastId, events, sse, stale>>
      /\ lastId \in Nat /\ cursor \in [Pages -> 0 .. lastId] /\ wire \in [Pages -> Seq(EventIdsSoFar)]
      /\ heard \in [Pages -> Seq(EventIdsSoFar)] /\ wire' = [wire EXCEPT ![p] = Tail(wire[p])]
  BY DEF Read, BrowserInv, StreamsOK
<1> DEFINE id == Base(p) + 1
<1>2. /\ \A i \in 1 .. Len(wire[p]) : wire[p][i] = Base(p) + i
      /\ Base(p) >= cursor[p] /\ Base(p) = lastId - Len(wire[p])
      /\ Base(p) = cursor[p] \/ Base(p) + MaxEventBacklog <= lastId
      /\ Len(wire[p]) \in Nat \ {0}
  BY <1>1 DEF BrowserInv, WireInv, Base
<1>3. Head(wire[p]) = id /\ id \in EventIdsSoFar /\ id > cursor[p]
  <2>1. Head(wire[p]) = wire[p][1]
    BY <1>1, <1>2
  <2>2. QED
    BY <1>1, <1>2, <2>1 DEF EventIdsSoFar
<1>4. /\ wire'[p] = Tail(wire[p]) /\ wire'[p] \in Seq(EventIdsSoFar)
      /\ Len(wire'[p]) = Len(wire[p]) - 1
      /\ \A i \in 1 .. Len(wire'[p]) : wire'[p][i] = wire[p][i + 1]
  BY <1>1, HeadTailProperties
<1>5. cursor' = [cursor EXCEPT ![p] = id] /\ heard' = [heard EXCEPT ![p] = Append(heard[p], id)]
  BY <1>1, <1>3 DEF Read
<1> HIDE DEF id
<1>6. /\ heard'[p] \in Seq(EventIdsSoFar) /\ Len(heard'[p]) = Len(heard[p]) + 1
      /\ \A i \in 1 .. Len(heard[p]) : heard'[p][i] = heard[p][i]
      /\ heard'[p][Len(heard[p]) + 1] = id /\ cursor'[p] = id
  BY <1>1, <1>3, <1>5, AppendProperties
<1>7. Base(p)' = id /\ id = Base(p) + 1
  BY <1>1, <1>2, <1>4 DEF Base, id
<1>8. WireInv'
  <2>1. SUFFICES ASSUME NEW q \in Pages
        PROVE /\ \A i \in DOMAIN wire'[q] : wire'[q][i] = Base(q)' + i
              /\ Base(q)' >= cursor'[q]
              /\ q \notin sse' => wire'[q] = <<>>
              /\ q \in sse' => Base(q)' = cursor'[q] \/ Base(q)' + MaxEventBacklog <= lastId'
    BY DEF WireInv
  <2>2. CASE q = p
    <3>1. ASSUME NEW i \in DOMAIN wire'[p] PROVE wire'[p][i] = id + i
      <4>1. i \in 1 .. Len(wire'[p]) /\ i + 1 \in 1 .. Len(wire[p])
        BY <1>2, <1>4
      <4>2. wire[p][i + 1] = Base(p) + (i + 1)
        BY <1>2, <4>1
      <4>3. QED
        BY <1>1, <1>2, <1>4, <1>7, <4>1, <4>2
    <3>2. Base(p)' \in Nat
      BY <1>1, <1>3, <1>7 DEF EventIdsSoFar
    <3>3. QED
      BY <1>1, <1>6, <1>7, <2>2, <3>1, <3>2
  <2>3. CASE q # p
    <3>1. wire'[q] = wire[q] /\ cursor'[q] = cursor[q] /\ Base(q)' = Base(q)
      BY <1>1, <1>5, <2>3 DEF Base
    <3>2. QED
      BY <1>1, <3>1 DEF BrowserInv, WireInv
  <2>4. QED
    BY <2>2, <2>3
<1>9. HeardInv'
  <2>1. SUFFICES ASSUME NEW q \in Pages
        PROVE /\ \A i, j \in DOMAIN heard'[q] : i < j => heard'[q][i] < heard'[q][j]
              /\ \A i \in DOMAIN heard'[q] : heard'[q][i] <= cursor'[q]
              /\ \A k \in 1 .. cursor'[q] :
                   k > lastId - MaxEventBacklog => \E i \in DOMAIN heard'[q] : heard'[q][i] = k
    BY <1>1 DEF HeardInv
  <2>2. CASE q # p
    <3>1. heard'[q] = heard[q] /\ cursor'[q] = cursor[q]
      BY <1>1, <1>5, <2>2
    <3>2. QED
      BY <3>1 DEF BrowserInv, HeardInv
  <2>3. CASE q = p
    <3>1. /\ \A i, j \in 1 .. Len(heard[p]) : i < j => heard[p][i] < heard[p][j]
          /\ \A i \in 1 .. Len(heard[p]) : heard[p][i] <= cursor[p] /\ heard[p][i] \in Nat
          /\ \A k \in 1 .. cursor[p] :
               k > lastId - MaxEventBacklog => \E i \in 1 .. Len(heard[p]) : heard[p][i] = k
      <4>1. DOMAIN heard[p] = 1 .. Len(heard[p]) /\ \A i \in 1 .. Len(heard[p]) : heard[p][i] \in EventIdsSoFar
        BY <1>1
      <4>2. \A i \in EventIdsSoFar : i \in Nat
        BY DEF EventIdsSoFar
      <4>3. /\ \A i, j \in DOMAIN heard[p] : i < j => heard[p][i] < heard[p][j]
            /\ \A i \in DOMAIN heard[p] : heard[p][i] <= cursor[p]
            /\ \A k \in 1 .. cursor[p] :
                 k > lastId - MaxEventBacklog => \E i \in DOMAIN heard[p] : heard[p][i] = k
        BY <1>1 DEF BrowserInv, HeardInv
      <4>4. QED
        BY <4>1, <4>2, <4>3
    <3>2. DOMAIN heard'[p] = 1 .. Len(heard[p]) + 1 /\ Len(heard[p]) \in Nat /\ id \in Nat /\ cursor[p] \in Nat
      <4>1. heard'[p] \in Seq(EventIdsSoFar) /\ Len(heard'[p]) = Len(heard[p]) + 1 /\ heard[p] \in Seq(EventIdsSoFar)
        BY <1>1, <1>6
      <4>2. DOMAIN heard'[p] = 1 .. Len(heard[p]) + 1 /\ Len(heard[p]) \in Nat
        BY <4>1, LenProperties
      <4>3. id \in Nat
        BY <1>3 DEF EventIdsSoFar
      <4>4. cursor[p] \in Nat
        BY <1>1
      <4>5. QED
        BY <4>2, <4>3, <4>4
    <3>3. \A i, j \in DOMAIN heard'[p] : i < j => heard'[p][i] < heard'[p][j]
      <4>1. SUFFICES ASSUME NEW i \in DOMAIN heard'[p], NEW j \in DOMAIN heard'[p], i < j
                     PROVE  heard'[p][i] < heard'[p][j]
        OBVIOUS
      <4>2. i \in 1 .. Len(heard[p]) /\ heard'[p][i] = heard[p][i]
        BY <1>6, <3>2, <4>1
      <4>3. CASE j \in 1 .. Len(heard[p])
        BY <1>6, <3>1, <4>1, <4>2, <4>3
      <4>4. CASE j = Len(heard[p]) + 1
        <5>1. heard[p][i] <= cursor[p] /\ heard[p][i] \in Nat
          BY <3>1, <4>2
        <5>2. QED
          BY <1>3, <1>6, <3>2, <4>2, <4>4, <5>1
      <4>5. QED
        BY <3>2, <4>3, <4>4
    <3>4. ASSUME NEW i \in DOMAIN heard'[p] PROVE heard'[p][i] <= cursor'[p]
      <4>1. CASE i \in 1 .. Len(heard[p])
        <5>1. heard[p][i] <= cursor[p] /\ heard[p][i] \in Nat
          BY <3>1, <4>1
        <5>2. QED
          BY <1>3, <1>6, <3>2, <4>1, <5>1
      <4>2. CASE i = Len(heard[p]) + 1
        BY <1>6, <3>2, <4>2
      <4>3. QED
        BY <3>2, <4>1, <4>2
    <3>5. ASSUME NEW k \in 1 .. id, k > lastId - MaxEventBacklog
          PROVE  \E i \in DOMAIN heard'[p] : heard'[p][i] = k
      <4>1. CASE k = id
        BY <1>6, <3>2, <4>1
      <4>2. CASE k # id
        <5>1. k \in 1 .. cursor[p]
          <6>1. lastId \in Nat /\ Base(p) \in Int /\ id = Base(p) + 1
            BY <1>1, <1>2, <1>7
          <6>2. k \in Nat /\ k >= 1 /\ k <= Base(p)
            BY <3>2, <3>5, <4>2, <6>1
          <6>3. Base(p) = cursor[p] \/ Base(p) + MaxEventBacklog <= lastId
            BY <1>2
          <6>4. QED
            BY <3>2, <3>5, <6>1, <6>2, <6>3
        <5>2. PICK i \in 1 .. Len(heard[p]) : heard[p][i] = k
          BY <3>1, <3>5, <5>1
        <5>3. i \in DOMAIN heard'[p]
          BY <3>2
        <5>4. heard'[p][i] = k
          BY <1>6, <5>2
        <5>5. QED
          BY <5>3, <5>4
      <4>3. QED
        BY <4>1, <4>2
    <3>6. QED
      BY <1>6, <2>3, <3>3, <3>4, <3>5
  <2>4. QED
    BY <2>2, <2>3
<1>10. /\ wire' \in [Pages -> Seq(EventIdsSoFar)] /\ cursor' \in [Pages -> 0 .. lastId]
       /\ heard' \in [Pages -> Seq(EventIdsSoFar)]
  BY <1>1, <1>3, <1>4, <1>5, <1>6 DEF EventIdsSoFar
<1>11. QED
  BY <1>1, <1>8, <1>9, <1>10 DEF BrowserInv, StreamsOK, BacklogInv, EventIdsSoFar

LEMMA BreakKeepsStreams ==
  ASSUME BrowserInv, StreamClosed \/ \E p \in Pages : Break(p)
  PROVE  BrowserInv'
<1> USE StreamsAssumption
<1>1. CASE StreamClosed
  <2>1. stale' \in Nat /\ stale' <= stale /\ UNCHANGED <<lastId, events, sse, wire, cursor, heard>> /\ stale \in Nat
    BY <1>1 DEF StreamClosed, BrowserInv, StreamsOK
  <2>2. Cardinality(sse) \in Nat /\ Cardinality(sse) + stale <= MaxSubscriptions
    BY FS_CardinalityType DEF BrowserInv, StreamsOK
  <2>3. QED
    BY <2>1, <2>2 DEF BrowserInv, StreamsOK, BacklogInv, WireInv, HeardInv, EventIdsSoFar, Base
<1>2. ASSUME NEW p \in Pages, Break(p) PROVE BrowserInv'
  <2>1. /\ p \in sse /\ sse' = sse \ {p} /\ stale' = stale + 1 /\ wire' = [wire EXCEPT ![p] = <<>>]
        /\ UNCHANGED <<lastId, events, cursor, heard>>
        /\ wire \in [Pages -> Seq(EventIdsSoFar)] /\ <<>> \in Seq(EventIdsSoFar)
        /\ cursor \in [Pages -> 0 .. lastId] /\ lastId \in Nat
    BY <1>2 DEF Break, BrowserInv, StreamsOK
  <2>2. IsFiniteSet(sse') /\ stale' \in Nat /\ Cardinality(sse') + stale' <= MaxSubscriptions
    <3>1. IsFiniteSet(sse) /\ Cardinality(sse) \in Nat /\ Cardinality(sse) + stale <= MaxSubscriptions /\ stale \in Nat
      BY FS_CardinalityType DEF BrowserInv, StreamsOK
    <3>2. Cardinality(sse') = Cardinality(sse) - 1 /\ IsFiniteSet(sse')
      BY <2>1, <3>1, FS_RemoveElement
    <3>3. QED
      BY <2>1, <3>1, <3>2
  <2>3. wire' \in [Pages -> Seq(EventIdsSoFar)] /\ wire'[p] = <<>>
    BY <2>1
  <2>4. WireInv'
    <3>1. SUFFICES ASSUME NEW q \in Pages
          PROVE /\ \A i \in DOMAIN wire'[q] : wire'[q][i] = Base(q)' + i
                /\ Base(q)' >= cursor'[q]
                /\ q \notin sse' => wire'[q] = <<>>
                /\ q \in sse' => Base(q)' = cursor'[q] \/ Base(q)' + MaxEventBacklog <= lastId'
      BY DEF WireInv
    <3>2. CASE q = p
      BY <2>1, <2>3, <3>2 DEF Base
    <3>3. CASE q # p
      <4>1. wire'[q] = wire[q] /\ Base(q)' = Base(q) /\ (q \in sse' <=> q \in sse)
        BY <2>1, <3>3 DEF Base
      <4>2. QED
        BY <2>1, <4>1 DEF BrowserInv, WireInv
    <3>4. QED
      BY <3>2, <3>3
  <2>5. QED
    <3>1. BacklogInv' /\ HeardInv' /\ EventIdsSoFar' = EventIdsSoFar
      <4>1. EventIdsSoFar' = EventIdsSoFar
        BY <2>1 DEF EventIdsSoFar
      <4>2. BacklogInv'
        BY <2>1 DEF BrowserInv, BacklogInv
      <4>3. HeardInv'
        BY <2>1 DEF BrowserInv, HeardInv
      <4>4. QED
        BY <4>1, <4>2, <4>3
    <3>2. StreamsOK'
      BY <2>1, <2>2, <2>3, <3>1 DEF BrowserInv, StreamsOK
    <3>3. QED
      BY <2>2, <2>4, <3>1, <3>2 DEF BrowserInv
<1>3. QED
  BY <1>1, <1>2

THEOREM BrowserIsSound == StreamsSpec => []BrowserInv
<1>1. BrowserInv /\ [StreamsNext]_streamVars => BrowserInv'
  <2> SUFFICES ASSUME BrowserInv, [StreamsNext]_streamVars PROVE BrowserInv'
    OBVIOUS
  <2>1. CASE UNCHANGED streamVars
    BY <2>1 DEF BrowserInv, StreamsOK, BacklogInv, WireInv, HeardInv, EventIdsSoFar, Base, streamVars
  <2>2. CASE StreamsNext
    BY <2>2, PublishKeepsStreams, OpenKeepsStreams, ReadKeepsStreams, BreakKeepsStreams DEF StreamsNext
  <2>3. QED
    BY <2>1, <2>2
<1>2. QED
  BY <1>1, InitBrowser, PTL DEF StreamsSpec

LEMMA GivenShape ==
  ASSUME BrowserInv, NEW p \in Pages
  PROVE  /\ DOMAIN Given(p) = 1 .. Len(heard[p]) + Len(wire[p])
         /\ \A i \in 1 .. Len(heard[p]) : Given(p)[i] = heard[p][i] /\ heard[p][i] \in Nat
         /\ \A i \in 1 .. Len(wire[p]) : Given(p)[Len(heard[p]) + i] = Base(p) + i
         /\ Len(heard[p]) \in Nat /\ Len(wire[p]) \in Nat /\ DOMAIN heard[p] = 1 .. Len(heard[p])
         /\ cursor[p] \in Nat /\ lastId \in Nat /\ Base(p) = lastId - Len(wire[p])
         /\ Base(p) \in Int /\ Base(p) >= cursor[p]
<1>1. /\ heard[p] \in Seq(EventIdsSoFar) /\ wire[p] \in Seq(EventIdsSoFar)
      /\ cursor[p] \in 0 .. lastId /\ lastId \in Nat
  BY DEF BrowserInv, StreamsOK
<1>2. /\ DOMAIN wire[p] = 1 .. Len(wire[p]) /\ DOMAIN heard[p] = 1 .. Len(heard[p])
      /\ Len(heard[p]) \in Nat /\ Len(wire[p]) \in Nat
      /\ \A i \in 1 .. Len(heard[p]) : heard[p][i] \in EventIdsSoFar
  BY <1>1
<1>3. /\ \A i \in 1 .. Len(wire[p]) : wire[p][i] = Base(p) + i
      /\ Base(p) >= cursor[p]
  BY <1>2 DEF BrowserInv, WireInv
<1>4. Base(p) = lastId - Len(wire[p]) /\ Base(p) \in Int
  BY <1>1, <1>2 DEF Base
<1>5. /\ DOMAIN Given(p) = 1 .. Len(heard[p]) + Len(wire[p])
      /\ \A i \in 1 .. Len(heard[p]) : Given(p)[i] = heard[p][i]
      /\ \A i \in 1 .. Len(wire[p]) : Given(p)[Len(heard[p]) + i] = wire[p][i]
  <2>1. Given(p) \in Seq(EventIdsSoFar) /\ Len(Given(p)) = Len(heard[p]) + Len(wire[p])
    BY <1>1, ConcatProperties DEF Given
  <2>2. \A i \in 1 .. Len(heard[p]) + Len(wire[p]) :
          Given(p)[i] = IF i <= Len(heard[p]) THEN heard[p][i] ELSE wire[p][i - Len(heard[p])]
    BY <1>1, ConcatProperties DEF Given
  <2> DEFINE given == Given(p)  h == Len(heard[p])  w == Len(wire[p])
  <2>3. DOMAIN given = 1 .. h + w /\ h \in Nat /\ w \in Nat
    BY <1>2, <2>1
  <2>4. \A i \in 1 .. h + w : given[i] = IF i <= h THEN heard[p][i] ELSE wire[p][i - h]
    BY <2>2
  <2> HIDE DEF given, h, w
  <2>5. ASSUME NEW i \in 1 .. h PROVE given[i] = heard[p][i]
    <3>1. i \in 1 .. h + w /\ i <= h
      BY <2>3
    <3>2. QED
      BY <2>4, <3>1
  <2>6. ASSUME NEW i \in 1 .. w PROVE given[h + i] = wire[p][i]
    <3>1. h + i \in 1 .. h + w /\ ~(h + i <= h) /\ (h + i) - h = i
      BY <2>3
    <3>2. QED
      BY <2>4, <3>1
  <2>7. QED
    BY <2>3, <2>5, <2>6 DEF given, h, w
<1>6. EventIdsSoFar \subseteq Nat
  BY DEF EventIdsSoFar
<1>7. QED
  <2>1. \A i \in 1 .. Len(heard[p]) : heard[p][i] \in Nat
    BY <1>2, <1>6
  <2>2. cursor[p] \in Nat
    BY <1>1
  <2>3. \A i \in 1 .. Len(wire[p]) : Given(p)[Len(heard[p]) + i] = Base(p) + i
    BY <1>3, <1>5
  <2>4. QED
    BY <1>1, <1>2, <1>3, <1>4, <1>5, <2>1, <2>2, <2>3

\* A page hears every event that the backlog keeps, once and in order,
\* whatever breaks, for any number of pages and any length of the backlog.
THEOREM PagesHearEvents == StreamsSpec => []EventsReachPages
<1> USE StreamsAssumption
<1>1. BrowserInv => HeardOnceInOrder
  <2>1. SUFFICES ASSUME BrowserInv, NEW p \in Pages, NEW i \in DOMAIN Given(p), NEW j \in DOMAIN Given(p), i < j
                 PROVE  Given(p)[i] < Given(p)[j]
    BY DEF HeardOnceInOrder
  <2> DEFINE h == Len(heard[p])
  <2>2. /\ DOMAIN Given(p) = 1 .. h + Len(wire[p])
        /\ \A k \in 1 .. h : Given(p)[k] = heard[p][k] /\ heard[p][k] \in Nat
        /\ \A k \in 1 .. Len(wire[p]) : Given(p)[h + k] = Base(p) + k
        /\ h \in Nat /\ Len(wire[p]) \in Nat /\ cursor[p] \in Nat
        /\ Base(p) \in Int /\ Base(p) >= cursor[p]
        /\ \A k, m \in 1 .. h : heard[p][k] <= cursor[p] /\ (k < m => heard[p][k] < heard[p][m])
    BY <2>1, GivenShape DEF BrowserInv, HeardInv, StreamsOK
  <2> HIDE DEF h
  <2>3. CASE j \in 1 .. h
    BY <2>1, <2>2, <2>3
  <2>4. CASE i \in 1 .. h /\ j \notin 1 .. h
    <3>1. j - h \in 1 .. Len(wire[p]) /\ j = h + (j - h)
      BY <2>1, <2>2, <2>4
    <3>2. Given(p)[j] = Base(p) + (j - h)
      BY <2>2, <3>1
    <3>3. /\ heard[p][i] <= cursor[p] /\ Given(p)[i] = heard[p][i] /\ heard[p][i] \in Nat
          /\ j - h \in Nat /\ j - h >= 1
      BY <2>2, <2>4, <3>1
    <3>4. QED
      BY <2>2, <3>2, <3>3
  <2>5. CASE i \notin 1 .. h
    <3>1. /\ j - h \in 1 .. Len(wire[p]) /\ j = h + (j - h)
          /\ i - h \in 1 .. Len(wire[p]) /\ i = h + (i - h)
      BY <2>1, <2>2, <2>5
    <3>2. /\ Given(p)[j] = Base(p) + (j - h)
          /\ Given(p)[i] = Base(p) + (i - h)
      BY <2>2, <3>1
    <3>3. QED
      BY <2>1, <2>2, <3>1, <3>2
  <2>6. QED
    BY <2>1, <2>2, <2>3, <2>4, <2>5
<1>2. BrowserInv => BacklogReachesPages
  <2>1. SUFFICES ASSUME BrowserInv, NEW p \in sse, NEW id \in EventIdsSoFar, id > lastId - MaxEventBacklog
                 PROVE  \E i \in DOMAIN Given(p) : Given(p)[i] = id
    BY DEF BacklogReachesPages, Range
  <2>2. p \in Pages /\ id \in Nat /\ id <= lastId /\ id > 0
    BY <2>1 DEF BrowserInv, StreamsOK, EventIdsSoFar
  <2> DEFINE h == Len(heard[p])  w == Len(wire[p])  given == Given(p)
  <2>3. /\ DOMAIN given = 1 .. h + w
        /\ \A i \in 1 .. h : given[i] = heard[p][i]
        /\ \A i \in 1 .. w : given[h + i] = Base(p) + i
        /\ h \in Nat /\ w \in Nat /\ DOMAIN heard[p] = 1 .. h
        /\ cursor[p] \in Nat /\ lastId \in Nat /\ Base(p) = lastId - w /\ Base(p) \in Int
    BY <2>1, <2>2, GivenShape
  <2> HIDE DEF h, w, given
  <2>4. CASE id <= cursor[p]
    <3>1. PICK i \in DOMAIN heard[p] : heard[p][i] = id
      <4>1. \A k \in 1 .. cursor[p] :
              k > lastId - MaxEventBacklog => \E i \in DOMAIN heard[p] : heard[p][i] = k
        BY <2>1, <2>2 DEF BrowserInv, HeardInv
      <4>2. id \in 1 .. cursor[p]
        BY <2>2, <2>3, <2>4
      <4>3. QED
        BY <2>1, <4>1, <4>2
    <3>2. i \in 1 .. h + w /\ given[i] = id
      BY <2>3, <3>1
    <3>3. QED
      BY <2>3, <3>2 DEF given
  <2>5. CASE id > cursor[p]
    <3>1. Base(p) = cursor[p] \/ Base(p) + MaxEventBacklog <= lastId
      BY <2>1, <2>2 DEF BrowserInv, WireInv
    <3>2. id - Base(p) \in 1 .. w
      BY <2>1, <2>2, <2>3, <2>5, <3>1
    <3>3. given[h + (id - Base(p))] = Base(p) + (id - Base(p))
      BY <2>3, <3>2
    <3>4. h + (id - Base(p)) \in 1 .. h + w /\ Base(p) + (id - Base(p)) = id
      BY <2>2, <2>3, <3>2
    <3>5. QED
      BY <2>3, <3>3, <3>4 DEF given
  <2>6. id <= cursor[p] \/ id > cursor[p]
    BY <2>2, <2>3
  <2>7. QED
    BY <2>4, <2>5, <2>6
<1>3. BrowserInv => EventsReachPages
  BY <1>1, <1>2 DEF EventsReachPages
<1>4. QED
  BY <1>3, BrowserIsSound, PTL
-----------------------------------------------------------------------------
(* The whole peer (MCPeer): what its state may be. *)

LEMMA DeviceOKHolds == DeviceSpec => []DeviceOK
<1>1. DeviceInv => DeviceOK
  BY DeviceBounds DEF DeviceInv, DeviceTypes, ManifestFacts, DeviceOK, Settled
<1>2. QED
  BY <1>1, DeviceIsSound, PTL

LEMMA ConsumerOKHolds == ConsumerSpec => []ConsumerOK
<1>1. ConsumerInv => ConsumerOK
  BY DEF ConsumerInv, ConsumerTypes, ConsumerOK
<1>2. QED
  BY <1>1, ConsumerIsSound, PTL

LEMMA PresenceOKHolds == PresenceSpec => []PresenceOK
<1>1. ASSUME PresenceInv PROVE PresenceOK
  <2>1. PICK at \in 0 .. now : presence = Projection(leases, at)
    BY <1>1 DEF PresenceInv, ShownWasProjected
  <2>2. presence \subseteq People \X BOOLEAN
    <3> DEFINE T(u) == \E s \in Sessions :
                         userOf[s] = u /\ leases[s].until > at /\ leases[s].typingUntil > at
               users == {userOf[s] : s \in {s \in Sessions : leases[s].until > at}}
    <3>1. presence = {<<u, T(u)>> : u \in users}
      BY <2>1 DEF Projection
    <3>2. users \subseteq People /\ \A u \in users : T(u) \in BOOLEAN
      BY <1>1 DEF PresenceInv, PresenceTypes
    <3> HIDE DEF T, users
    <3>3. QED
      BY <3>1, <3>2
  <2>3. QED
    BY <1>1, <2>2 DEF PresenceInv, PresenceTypes, DevicesAreFew, PresenceOK
<1>2. QED
  BY <1>1, PresenceIsSound, PTL

\* Uploads take their slots one by one, and a download reads no further than
\* its last chunk.
MediaLimits ==
  /\ mediaClosed \in BOOLEAN
  /\ \A d \in Downloads : nextIndex[d] <= MaxChunks
  /\ IsFiniteSet(Unfinished(upload)) /\ Cardinality(Unfinished(upload)) <= MaxActiveUploads

LEMMA FewerUnfinished ==
  ASSUME MediaLimits, Unfinished(upload') \subseteq Unfinished(upload)
  PROVE  IsFiniteSet(Unfinished(upload')) /\ Cardinality(Unfinished(upload')) <= MaxActiveUploads
<1>1. /\ IsFiniteSet(Unfinished(upload'))
      /\ Cardinality(Unfinished(upload')) <= Cardinality(Unfinished(upload))
  BY FS_Subset DEF MediaLimits
<1>2. Cardinality(Unfinished(upload')) \in Nat /\ Cardinality(Unfinished(upload)) \in Nat
  BY <1>1, FS_CardinalityType DEF MediaLimits
<1>3. QED
  BY <1>1, <1>2, MediaAssumption DEF MediaLimits

LEMMA UploadsStayFew ==
  ASSUME ImportTypes, MediaLimits, [MediaNext]_mediaVars
  PROVE  IsFiniteSet(Unfinished(upload')) /\ Cardinality(Unfinished(upload')) <= MaxActiveUploads
<1>1. ASSUME NEW u \in Uploads, NEW f \in Files, BeginUpload(u, f)
      PROVE  IsFiniteSet(Unfinished(upload')) /\ Cardinality(Unfinished(upload')) <= MaxActiveUploads
  <2>1. Unfinished(upload') = Unfinished(upload) \cup {u}
    BY <1>1 DEF ImportTypes, BeginUpload, Unfinished
  <2> DEFINE held == Unfinished(upload)
  <2>2. /\ IsFiniteSet(held \cup {u})
        /\ Cardinality(held \cup {u}) <= Cardinality(held) + 1
        /\ Cardinality(held) \in Nat
    <3>1. IsFiniteSet(held)
      BY DEF MediaLimits
    <3> HIDE DEF held
    <3>2. Cardinality(held) \in Nat
      BY <3>1, FS_CardinalityType
    <3>3. /\ IsFiniteSet(held \cup {u})
          /\ Cardinality(held \cup {u}) = IF u \in held THEN Cardinality(held) ELSE Cardinality(held) + 1
      BY <3>1, FS_AddElement
    <3>4. QED
      BY <3>2, <3>3
  <2>3. Cardinality(Unfinished(upload)) < MaxActiveUploads
    BY <1>1 DEF BeginUpload, HasUploadSlot
  <2>4. Cardinality(Unfinished(upload) \cup {u}) \in Nat
    BY <2>2, FS_CardinalityType
  <2>5. QED
    BY <2>1, <2>2, <2>3, <2>4, MediaAssumption
<1>2. ASSUME NEW u \in Uploads,
             \/ CommitUpload(u) \/ AbortUpload(u) \/ UploadExpires(u)
             \/ CollectImport(u) \/ WriteImport(u) \/ PostImport(u) \/ ImportFails(u)
             \/ \E index \in 0 .. Len(file[u]) - 1 : AppendUpload(u, index)
      PROVE  Unfinished(upload') \subseteq Unfinished(upload)
  <2>1. \/ upload' = upload
        \/ upload' = [upload EXCEPT ![u] = "gone"]
        \/ upload[u] = "open" /\ upload' = [upload EXCEPT ![u] = "committing"]
    BY <1>2 DEF CommitUpload, AbortUpload, UploadExpires, CollectImport, WriteImport, PostImport,
                ImportFails, EndImport, Dispose, AppendUpload
  <2>2. QED
    BY <2>1 DEF ImportTypes, Unfinished
<1>3. ASSUME \/ \E d \in Downloads :
                  \/ StartRead(d) \/ DownloadReady(d) \/ DownloadFails(d) \/ CloseDownload(d)
                  \/ \E a \in attachments : BeginDownload(d, a)
                  \/ \E answered \in BOOLEAN : ReadDownloadChunk(d, answered)
             \/ UNCHANGED mediaVars
      PROVE  Unfinished(upload') \subseteq Unfinished(upload)
  BY <1>3 DEF StartRead, DownloadReady, DownloadFails, CloseDownload, BeginDownload, ReadDownloadChunk, mediaVars,
              uploading
<1>4. CloseMedia => Unfinished(upload') \subseteq Unfinished(upload)
  BY DEF ImportTypes, CloseMedia, Unfinished
<1>5. QED
  BY <1>1, <1>2, <1>3, <1>4, FewerUnfinished DEF MediaNext

LEMMA ReadsStayInside ==
  ASSUME MediaInv, MediaLimits, [MediaNext]_mediaVars, NEW d \in Downloads
  PROVE  nextIndex'[d] <= MaxChunks
<1>1. nextIndex \in [Downloads -> Nat] /\ nextIndex[d] <= MaxChunks
  BY DEF MediaInv, ReadInv, ReadTypes, MediaLimits
<1>2. ASSUME NEW e \in Downloads, NEW answered \in BOOLEAN, ReadDownloadChunk(e, answered)
      PROVE  nextIndex'[d] <= MaxChunks
  <2>1. nextIndex' \in {nextIndex, [nextIndex EXCEPT ![e] = nextIndex[e] + 1]} /\ download[e] = "open"
    BY <1>2 DEF ReadDownloadChunk
  <2>2. Content(e) \in Files /\ nextIndex[e] < Len(Content(e))
    BY <2>1 DEF MediaInv, ReadInv, DownloadFacts
  <2>3. PICK n \in 1 .. MaxChunks : Content(e) \in [1 .. n -> Bytes]
    BY <2>2 DEF Files
  <2>4. Len(Content(e)) = n /\ n \in Nat
    BY <2>3, <2>2, FileShape, LenProperties, MediaAssumption
  <2>5. QED
    BY <1>1, <2>1, <2>2, <2>4, MediaAssumption
<1>3. ASSUME \A e \in Downloads, answered \in BOOLEAN : ~ReadDownloadChunk(e, answered)
      PROVE  nextIndex' = nextIndex
  BY <1>3 DEF MediaNext, CommitUpload, AbortUpload, UploadExpires, CollectImport, WriteImport, PostImport,
              ImportFails, EndImport, AppendUpload, BeginUpload, StartRead, DownloadReady, DownloadFails,
              CloseDownload, BeginDownload, CloseMedia, downloading, mediaVars
<1>4. QED
  BY <1>1, <1>2, <1>3

LEMMA MediaOKHolds == MediaSpec => []MediaOK
<1>1. MediaInit => MediaLimits
  <2>1. MediaInit => Unfinished(upload) = {}
    BY DEF MediaInit, Unfinished
  <2>2. MediaInit => mediaClosed \in BOOLEAN /\ \A d \in Downloads : nextIndex[d] <= MaxChunks
    <3>1. 0 <= MaxChunks
      BY MediaAssumption
    <3>2. MediaInit => mediaClosed = FALSE /\ \A d \in Downloads : nextIndex[d] = 0
      BY DEF MediaInit
    <3>3. QED
      BY <3>1, <3>2
  <2>3. IsFiniteSet({}) /\ Cardinality({}) = 0 /\ 0 <= MaxActiveUploads
    BY FS_EmptySet, MediaAssumption
  <2>4. QED
    BY <2>1, <2>2, <2>3 DEF MediaLimits
<1>2. MediaInv /\ MediaLimits /\ [MediaNext]_mediaVars => MediaLimits'
  <2>1. SUFFICES ASSUME MediaInv, MediaLimits, [MediaNext]_mediaVars PROVE MediaLimits'
    OBVIOUS
  <2>2. mediaClosed' \in BOOLEAN
    BY <2>1 DEF MediaLimits, MediaNext, CommitUpload, AbortUpload, UploadExpires, CollectImport, WriteImport,
                PostImport, ImportFails, EndImport, AppendUpload, BeginUpload, StartRead, DownloadReady, DownloadFails,
                CloseDownload, BeginDownload, ReadDownloadChunk, CloseMedia, mediaVars
  <2>3. QED
    BY <2>1, <2>2, UploadsStayFew, ReadsStayInside DEF MediaLimits, MediaInv, ImportInv
<1>3. MediaInv /\ MediaLimits => MediaOK
  <2>1. SUFFICES ASSUME MediaInv, MediaLimits PROVE MediaOK
    OBVIOUS
  <2>2. ASSUME NEW d \in Downloads PROVE nextIndex[d] \in 0 .. MaxChunks /\ lastIndex[d] \in 0 .. MaxChunks
    BY <2>1, MediaAssumption DEF MediaInv, MediaLimits, ReadInv, ReadTypes, DownloadFacts
  <2>3. QED
    BY <2>1, <2>2 DEF MediaInv, MediaLimits, ImportInv, ImportTypes, Attachment, ReadInv, ReadTypes, MediaOK
<1>4. QED
  BY <1>1, <1>2, <1>3, MediaIsSound, PTL DEF MediaSpec

\* What NotifyTypes leaves open: the view, the state of the app and the limit
\* of the presenter.
NotifyRest ==
  /\ shown \subseteq Items /\ lapsed \in BOOLEAN
  /\ app \in {"up", "closing", "failed", "down"} /\ knownItems \subseteq Items
  /\ drain \in {"idle", "scanned", "answered"}
  /\ Cardinality(OnScreen) <= MaxActive

LEMMA ScreensAreFinite ==
  ASSUME NEW S, S \subseteq Items
  PROVE  IsFiniteSet(S) /\ Cardinality(S) \in Nat
BY NotifyAssumption, FS_Subset, FS_CardinalityType

LEMMA FewerOnScreen ==
  ASSUME NotifyRest, OnScreen' \subseteq OnScreen
  PROVE  Cardinality(OnScreen') <= MaxActive
<1>1. OnScreen \subseteq Items
  BY DEF OnScreen
<1>2. Cardinality(OnScreen') <= Cardinality(OnScreen)
  BY <1>1, ScreensAreFinite, FS_Subset
<1>3. Cardinality(OnScreen') \in Nat /\ Cardinality(OnScreen) \in Nat
  BY <1>1, ScreensAreFinite
<1>4. QED
  BY <1>2, <1>3, NotifyAssumption DEF NotifyRest

LEMMA OfferFitsScreen ==
  ASSUME NotifyTypes, NotifyRest, NEW i \in Items, NEW state \in IntentStates, Offer(i, state)
  PROVE  Cardinality(OnScreen') <= MaxActive
<1>1. \/ native' = native
      \/ FreeSlot(i) /\ native' = [native EXCEPT ![i] = "showing"]
  BY DEF Offer
<1>2. CASE native' = native
  BY <1>2, FewerOnScreen DEF OnScreen
<1>3. CASE FreeSlot(i) /\ native' = [native EXCEPT ![i] = "showing"]
  <2>1. OnScreen' = OnScreen \cup {i} /\ OnScreen \subseteq Items
    BY <1>3 DEF OnScreen, NotifyTypes
  <2>2. IsFiniteSet(OnScreen) /\ Cardinality(OnScreen) \in Nat
    BY <2>1, ScreensAreFinite
  <2>3. Cardinality(OnScreen') = Cardinality(OnScreen) + 1
    BY <1>3, <2>1, <2>2, FS_AddElement DEF FreeSlot
  <2>4. MaxActive - Cardinality(OnScreen) >= 1
    BY <1>3 DEF FreeSlot, Slots
  <2>5. QED
    BY <2>2, <2>3, <2>4, NotifyAssumption
<1>4. QED
  BY <1>1, <1>2, <1>3

LEMMA DrainFitsScreen ==
  ASSUME NotifyTypes, NotifyRest, Drained
  PROVE  Cardinality(OnScreen') <= MaxActive
<1>1. PICK P \in SUBSET (scanned \ OnScreen) :
        /\ Cardinality(P) = IF app # "up" THEN 0
                            ELSE IF Cardinality(scanned \ OnScreen) < Slots
                                 THEN Cardinality(scanned \ OnScreen) ELSE Slots
        /\ native' = [i \in Items |-> IF i \in P THEN "showing" ELSE native[i]]
  BY DEF Drained
<1>2. P \subseteq Items /\ scanned \ OnScreen \subseteq Items /\ OnScreen \subseteq Items
  BY DEF NotifyTypes, OnScreen
<1>3. /\ IsFiniteSet(P) /\ IsFiniteSet(OnScreen)
      /\ Cardinality(P) \in Nat /\ Cardinality(OnScreen) \in Nat /\ Cardinality(scanned \ OnScreen) \in Nat
  BY <1>2, ScreensAreFinite
<1>4. Cardinality(P) <= MaxActive - Cardinality(OnScreen)
  BY <1>1, <1>3, NotifyAssumption DEF NotifyRest, Slots
<1>5. OnScreen' = OnScreen \cup P
  BY <1>1, <1>2 DEF OnScreen
<1>6. OnScreen \cap P = {}
  OBVIOUS
<1>7. Cardinality(OnScreen \cup P) = Cardinality(OnScreen) + Cardinality(P)
  BY <1>3, <1>6, FS_Union, FS_EmptySet
<1>8. QED
  BY <1>3, <1>4, <1>5, <1>7, NotifyAssumption

LEMMA ScreenStaysSmall ==
  ASSUME NotifyTypes, NotifyRest, [NotifyNext]_notifyVars
  PROVE  Cardinality(OnScreen') <= MaxActive
<1>1. ASSUME NEW i \in Items, Show(i) \/ Click(i) \/ Dismiss(i) \/ FailNative(i)
      PROVE  OnScreen' \subseteq OnScreen
  BY <1>1 DEF Show, Click, Dismiss, FailNative, Emit, OnScreen, NotifyTypes
<1>2. ASSUME Quit \/ Stop \/ Crash PROVE OnScreen' \subseteq OnScreen
  BY <1>2 DEF Quit, Stop, Crash, Ended, OnScreen
<1>3. ASSUME \/ NotifyWorker \/ LifecycleTimesOut \/ Start \/ UNCHANGED notifyVars
             \/ \E i \in Items : Arrive(i) \/ Withdraw(i)
      PROVE  native' = native
  BY <1>3 DEF NotifyWorker, LifecycleCall, ReadIntents, Muted, StoreIntent, QueueIntent, PersistLate,
              LifecycleTimesOut, Start, Arrive, Withdraw, presenter, notifyVars
<1>4. native' = native => OnScreen' \subseteq OnScreen
  BY DEF OnScreen
<1>5. QED
  BY <1>1, <1>2, <1>3, <1>4, FewerOnScreen, OfferFitsScreen, DrainFitsScreen DEF NotifyNext, NotifyShell

LEMMA NotifyOKHolds == NotifySafety => []NotifyOK
<1>1. NotifyInit => NotifyRest
  <2>1. NotifyInit => OnScreen = {}
    BY DEF NotifyInit, OnScreen
  <2>2. Cardinality({}) = 0 /\ 0 <= MaxActive
    BY FS_EmptySet, NotifyAssumption
  <2>3. QED
    BY <2>1, <2>2 DEF NotifyInit, NotifyRest
<1>2. NotifyInv /\ NotifyRest /\ [NotifyNext]_notifyVars => NotifyRest'
  <2>1. SUFFICES ASSUME NotifyInv, NotifyRest, [NotifyNext]_notifyVars PROVE NotifyRest'
    OBVIOUS
  <2>2. shown' \subseteq Items /\ lapsed' \in BOOLEAN /\ app' \in {"up", "closing", "failed", "down"}
    BY <2>1 DEF NotifyRest, NotifyNext, NotifyWorker, NotifyShell, LifecycleCall, ReadIntents, Muted,
                StoreIntent, QueueIntent, PersistLate, Drained, Show, Dismiss, FailNative, Emit, Offer, Quit,
                LifecycleTimesOut, Stop, Crash, Ended, Start, Arrive, Withdraw, Click, notifyVars
  <2>3. knownItems' \subseteq Items
    BY <2>1 DEF NotifyRest, NotifyNext, NotifyWorker, NotifyShell, LifecycleCall, ReadIntents, Muted,
                StoreIntent, QueueIntent, PersistLate, Drained, Show, Dismiss, FailNative, Emit, Offer, Quit,
                LifecycleTimesOut, Stop, Crash, Ended, Start, Arrive, Withdraw, Click, worker, notifyVars
  <2>4. drain' \in {"idle", "scanned", "answered"}
    BY <2>1 DEF NotifyRest, NotifyNext, NotifyWorker, NotifyShell, LifecycleCall, ReadIntents, Muted,
                StoreIntent, QueueIntent, PersistLate, Drained, Show, Dismiss, FailNative, Emit, Offer, Quit,
                LifecycleTimesOut, Stop, Crash, Ended, Start, Arrive, Withdraw, Click, Wake, presenter,
                notifyVars
  <2>5. Cardinality(OnScreen') <= MaxActive
    BY <2>1, ScreenStaysSmall DEF NotifyInv
  <2>6. QED
    BY <2>2, <2>3, <2>4, <2>5 DEF NotifyRest, OnScreen
<1>3. NotifyInv /\ NotifyRest => NotifyOK
  BY DEF NotifyInv, NotifyTypes, NotifyRest, OnScreen, NotifyOK
<1>4. Sound => NotifyInv'
  BY DEF Sound
<1>5. QED
  BY <1>1, <1>2, <1>3, <1>4, InitNotify, NotifyKeepsSound, PTL DEF NotifySafety

LEMMA PairingOKHolds == PairSpec => []PairingOK
<1> DEFINE Rest == denials \subseteq Requests /\ pairFaults \in 0 .. MaxFaults
<1>1. PairInit => Rest
  BY PairingAssumption DEF PairInit
<1>2. Rest /\ [PairNext]_<<seen, pairVars>> => Rest'
  <2>1. SUFFICES ASSUME Rest, [PairNext]_<<seen, pairVars>> PROVE Rest'
    OBVIOUS
  <2>2. denials' \subseteq Requests
    BY <2>1, ZenonT(60)
    DEF PairNext, FirstJoinCall, RejoinCall, Ask, Confirmed, Serve, Heard, AppendAdmission, Answer,
                Confirm, OpenRoom, Denied, ApplyClaim, JoinReturns, CallEnds, CallTimesOut, Leave, AskAgain,
                HostStops, Moderate, hostVars, pairVars
  <2>3. UNCHANGED pairFaults \/ Fail
    BY <2>1 DEF PairNext, FirstJoinCall, RejoinCall, Confirmed, Serve, AppendAdmission,
                Confirm, OpenRoom, Denied, ApplyClaim, JoinReturns, CallEnds, CallTimesOut, Leave, AskAgain,
                HostStops, Moderate, pairVars
  <2>4. pairFaults' \in 0 .. MaxFaults
    BY <2>1, <2>3, PairingAssumption DEF Fail
  <2>5. QED
    BY <2>2, <2>4
<1>3. PairInv /\ Rest => PairingOK
  BY DEF PairInv, RoomFacts, IInv, TypeOK, AskFacts, AnswerFacts, Steps, PairingOK
<1>4. QED
  BY <1>1, <1>2, <1>3, PairingIsSound, PTL DEF PairSpec

\* Each part of a peer runs as it would by itself.
LEMMA PartsOfPeer ==
  PeerSpec => /\ PairSpec /\ NotifySafety /\ PresenceSpec /\ MediaSpec /\ ConsumerSpec
              /\ StreamsSpec /\ DeviceSpec
<1>1. PeerInit => /\ PairInit /\ NotifyInit /\ PresenceInit /\ MediaInit /\ ConsumerInit
                  /\ StreamsInit /\ DeviceInit
  BY DEF PeerInit
<1>2. [PeerNext]_peerVars => [PairNext]_<<seen, pairVars>>
  BY DEF PeerNext, peerVars
<1>3. [PeerNext]_peerVars => [NotifyNext]_notifyVars
  BY DEF PeerNext, peerVars
<1>4. [PeerNext]_peerVars => [PresenceNext]_presenceVars
  BY DEF PeerNext, peerVars
<1>5. [PeerNext]_peerVars => [MediaNext]_mediaVars
  BY DEF PeerNext, peerVars
<1>6. [PeerNext]_peerVars => [ConsumerNext]_consumerVars
  BY DEF PeerNext, peerVars
<1>7. [PeerNext]_peerVars => [StreamsNext]_streamVars
  BY DEF PeerNext, peerVars
<1>8. [PeerNext]_peerVars => [DeviceNext]_deviceVars
  BY DEF PeerNext, peerVars
<1>9. QED
  BY <1>1, <1>2, <1>3, <1>4, <1>5, <1>6, <1>7, <1>8, PTL
     DEF PeerSpec, PairSpec, NotifySafety, PresenceSpec, MediaSpec, ConsumerSpec, StreamsSpec, DeviceSpec

\* The state of each part of a peer stays well formed and within its limits:
\* uploads, devices, subscriptions and what is on the screen.
THEOREM PeersStayInShape == PeerSpec => []PeerOK
<1>1. BrowserInv => StreamsOK
  BY DEF BrowserInv
<1>2. PairingOK /\ NotifyOK /\ PresenceOK /\ MediaOK /\ ConsumerOK /\ StreamsOK /\ DeviceOK => PeerOK
  BY DEF PeerOK
<1>3. QED
  BY <1>1, <1>2, PartsOfPeer, PairingOKHolds, NotifyOKHolds, PresenceOKHolds, MediaOKHolds,
     ConsumerOKHolds, BrowserIsSound, DeviceOKHolds, PTL
=============================================================================
