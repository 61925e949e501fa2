----------------------------- MODULE WorkerProofs -----------------------------
(***************************************************************************)
(* Theorems about what is asked for and comes to an end: what the Electron *)
(* process promises those who call the peer worker (PeerController), how   *)
(* the windows of a member follow a room (RoomUpdates), and, with          *)
(* RoomHandlesProofs and FixturePublisherProofs, the whole of MCRequests.  *)
(***************************************************************************)
EXTENDS MCRequests, RoomHandlesProofs, FixturePublisherProofs

-----------------------------------------------------------------------------
(* Calls to the peer worker. *)

ControllerInv == ControllerOK /\ NobodyLeftBehind

LEMMA InitController == ControllerInit => ControllerInv
<1> SUFFICES ASSUME ControllerInit PROVE ControllerInv
  OBVIOUS
<1>1. PendingCalls = {}
  BY DEF ControllerInit, PendingCalls
<1>2. QED
  <2>1. Cardinality(PendingCalls) <= MaxPending
    BY <1>1, FS_EmptySet, ControllerAssumption
  <2>2. QED
    BY <1>1, <2>1 DEF ControllerInit, ControllerInv, ControllerOK, NobodyLeftBehind, Ended

LEMMA Fewer ==
  ASSUME ControllerInv, NEW P \in SUBSET PendingCalls
  PROVE  Cardinality(P) <= MaxPending
<1>1. IsFiniteSet(PendingCalls) /\ Cardinality(PendingCalls) <= MaxPending
  BY ControllerAssumption, FS_Subset DEF ControllerInv, ControllerOK, PendingCalls
<1>2. Cardinality(P) <= Cardinality(PendingCalls) /\ Cardinality(P) \in Nat /\ Cardinality(PendingCalls) \in Nat
  BY <1>1, FS_Subset, FS_CardinalityType
<1>3. QED
  BY <1>1, <1>2, ControllerAssumption

\* Rejecting what is pending leaves nobody who waits for the worker.
LEMMA RefusalEmpties ==
  ASSUME ControllerInv, call' = Refused
  PROVE  call' \in [Callers -> {"none", "early", "pending"} \cup Ended] /\ PendingCalls' = {}
BY DEF ControllerInv, ControllerOK, Refused, PendingCalls, Ended

LEMMA SubmitKeeps ==
  ASSUME ControllerInv, NEW c \in Callers, call[c] \in {"none", "early"}, Submit(c),
         UNCHANGED <<readyPromise, failure, life, closeCall, worker>>
  PROVE  ControllerInv'
<1>1. /\ call' \in [Callers -> {"none", "early", "pending"} \cup Ended] /\ inbox' \subseteq Callers
      /\ \A d \in Callers : d # c => call'[d] = call[d]
  BY DEF Submit, ControllerInv, ControllerOK, Ended
<1>2. CASE Available /\ HasRoom
  <2>1. PendingCalls' = PendingCalls \cup {c} /\ c \notin PendingCalls
    BY <1>1, <1>2 DEF Submit, PendingCalls, ControllerInv, ControllerOK
  <2>2. IsFiniteSet(PendingCalls) /\ Cardinality(PendingCalls) \in Nat
    BY ControllerAssumption, FS_Subset, FS_CardinalityType DEF PendingCalls
  <2>3. Cardinality(PendingCalls') = Cardinality(PendingCalls) + 1
    BY <2>1, <2>2, FS_AddElement
  <2>4. Cardinality(PendingCalls') <= MaxPending
    BY <1>2, <2>2, <2>3, ControllerAssumption DEF HasRoom
  <2>5. QED
    BY <1>1, <1>2, <2>4 DEF ControllerInv, ControllerOK, NobodyLeftBehind, Available
<1>3. CASE ~(Available /\ HasRoom)
  <2>1. PendingCalls' = PendingCalls
    BY <1>1, <1>3 DEF Submit, PendingCalls, ControllerInv, ControllerOK, Ended
  <2>2. QED
    BY <1>1, <2>1 DEF ControllerInv, ControllerOK, NobodyLeftBehind
<1>4. QED
  BY <1>2, <1>3

\* A step after which fewer wait.
LEMMA CallerLeaves ==
  ASSUME ControllerInv, call' \in [Callers -> {"none", "early", "pending"} \cup Ended],
         inbox' \subseteq Callers, PendingCalls' \subseteq PendingCalls,
         UNCHANGED <<readyPromise, failure, life, closeCall, worker>>
  PROVE  ControllerInv'
<1>1. Cardinality(PendingCalls') <= MaxPending
  BY Fewer
<1>2. QED
  BY <1>1 DEF ControllerInv, ControllerOK, NobodyLeftBehind

\* A step by which the worker or the controller ends.
LEMMA EndKeeps ==
  ASSUME ControllerInv, Fail \/ FinishClose, failure' \in BOOLEAN, worker' \in BOOLEAN,
         life' \in {"started", "closing", "closed"}, inbox' \subseteq Callers
  PROVE  ControllerInv'
<1>1. call' = Refused /\ readyPromise' = Rejected /\ closeCall' \in {"none", "pending", "ended"}
  BY DEF Fail, FinishClose, ControllerInv, ControllerOK
<1>2. readyPromise' \in {"starting", "ready", "rejected"}
  BY <1>1 DEF Rejected, ControllerInv, ControllerOK
<1>3. call' \in [Callers -> {"none", "early", "pending"} \cup Ended] /\ PendingCalls' = {}
  BY <1>1, RefusalEmpties
<1>4. Cardinality(PendingCalls') <= MaxPending
  BY <1>3, FS_EmptySet, ControllerAssumption
<1>5. QED
  BY <1>1, <1>2, <1>3, <1>4 DEF ControllerInv, ControllerOK, NobodyLeftBehind

LEMMA ControllerStays == ControllerInv /\ [ControllerNext]_controllerVars => ControllerInv'
<1> SUFFICES ASSUME ControllerInv, [ControllerNext]_controllerVars PROVE ControllerInv'
  OBVIOUS
<1>1. ASSUME NEW c \in Callers, Request(c) \/ Wake(c) PROVE ControllerInv'
  <2>1. call[c] \in {"none", "early"} /\ UNCHANGED <<readyPromise, failure, life, closeCall, worker>>
    BY <1>1 DEF Request, Wake
  <2>2. CASE Submit(c)
    BY <2>1, <2>2, SubmitKeeps
  <2>3. CASE UNCHANGED inbox /\ \E e \in {"early", "refused"} : call' = [call EXCEPT ![c] = e]
    <3>1. /\ call' \in [Callers -> {"none", "early", "pending"} \cup Ended] /\ inbox' \subseteq Callers
          /\ PendingCalls' \subseteq PendingCalls
      BY <2>3 DEF ControllerInv, ControllerOK, Ended, PendingCalls
    <3>2. QED
      BY <2>1, <3>1, CallerLeaves
  <2>4. QED
    BY <1>1, <2>2, <2>3 DEF Request, Wake
<1>2. ASSUME NEW c \in Callers, Timeout(c) \/ Answer(c) PROVE ControllerInv'
  <2>1. /\ call' \in [Callers -> {"none", "early", "pending"} \cup Ended] /\ inbox' \subseteq Callers
        /\ PendingCalls' \subseteq PendingCalls
    BY <1>2 DEF Timeout, Answer, StillPending, ControllerInv, ControllerOK, Ended, PendingCalls
  <2>2. UNCHANGED <<readyPromise, failure, life, closeCall, worker>>
    BY <1>2 DEF Timeout, Answer
  <2>3. QED
    BY <2>1, <2>2, CallerLeaves
<1>3. CASE BadFrame
  BY <1>3, EndKeeps DEF BadFrame, Fail, ControllerInv, ControllerOK
<1>4. CASE FinishClose
  BY <1>4, EndKeeps DEF FinishClose, ControllerInv, ControllerOK
<1>5. CASE WorkerExits
  <2>1. worker' = FALSE /\ inbox' = {} /\ life' = life
    BY <1>5 DEF WorkerExits
  <2>2. CASE Fail
    BY <2>1, <2>2, EndKeeps DEF Fail, ControllerInv, ControllerOK
  <2>3. CASE UNCHANGED <<failure, call, closeCall, readyPromise>>
    BY <2>1, <2>3 DEF ControllerInv, ControllerOK, NobodyLeftBehind, PendingCalls
  <2>4. QED
    BY <1>5, <2>2, <2>3 DEF WorkerExits
<1>6. CASE Ready \/ AnswerClose \/ ControllerClose \/ CloseTimeout
  <2>1. /\ call' = call /\ failure' = failure /\ (life' = "closed" => life = "closed")
        /\ life' \in {"started", "closing", "closed"} /\ closeCall' \in {"none", "pending", "ended"}
        /\ readyPromise' \in {"starting", "ready", "rejected"} /\ worker' = worker /\ inbox' = inbox
    BY <1>6 DEF Ready, AnswerClose, ControllerClose, CloseTimeout, ControllerInv, ControllerOK
  <2>2. QED
    BY <2>1 DEF ControllerInv, ControllerOK, NobodyLeftBehind, PendingCalls
<1>7. CASE UNCHANGED controllerVars
  BY <1>7 DEF controllerVars, ControllerInv, ControllerOK, NobodyLeftBehind, PendingCalls
<1>8. QED
  BY <1>1, <1>2, <1>3, <1>4, <1>5, <1>6, <1>7 DEF ControllerNext

ControllerSpec == ControllerInit /\ [][ControllerNext]_controllerVars

\* Never more requests are pending than the limit, and everything else of the
\* controller keeps its type.
THEOREM ControllerKeepsLimit == ControllerSpec => []ControllerOK
<1>1. ControllerInv => ControllerOK
  BY DEF ControllerInv
<1>2. QED
  BY <1>1, InitController, ControllerStays, PTL DEF ControllerSpec

\* Nobody waits for a worker that is known to be gone, and what a caller was
\* told stands, for any number of callers and any limit.
THEOREM CallsEndOnce == ControllerSpec => EachCallEndsOnce
<1>1. ControllerSpec => []NobodyLeftBehind
  <2>1. ControllerInv => NobodyLeftBehind
    BY DEF ControllerInv
  <2>2. QED
    BY <2>1, InitController, ControllerStays, PTL DEF ControllerSpec
<1>2. ControllerInv /\ [ControllerNext]_controllerVars =>
        [\A c \in Callers : call[c] \in Ended => call'[c] = call[c]]_controllerVars
  <2> SUFFICES ASSUME ControllerInv, ControllerNext, NEW c \in Callers, call[c] \in Ended
               PROVE  call'[c] = call[c]
    OBVIOUS
  <2>1. call \in [Callers -> {"none", "early", "pending"} \cup Ended] /\ call[c] \notin {"none", "early", "pending"}
    BY DEF ControllerInv, ControllerOK, Ended
  <2>2. ASSUME NEW d \in Callers, Request(d) \/ Wake(d) \/ Timeout(d) \/ Answer(d) PROVE call'[c] = call[c]
    BY <2>1, <2>2 DEF Request, Wake, Timeout, Answer, Submit, HasTimer, StillPending
  <2>3. ASSUME call' = Refused PROVE call'[c] = call[c]
    BY <2>1, <2>3 DEF Refused
  <2>4. QED
    BY <2>2, <2>3 DEF ControllerNext, Ready, AnswerClose, BadFrame, WorkerExits, Fail, ControllerClose, CloseTimeout, FinishClose
<1>3. QED
  BY <1>1, <1>2, InitController, ControllerStays, PTL DEF ControllerSpec, EachCallEndsOnce, OutcomeIsFinal

-----------------------------------------------------------------------------
(* Updates of a room.  As long as nothing overlapped and nothing was lost   *)
(* since the last rest, whatever is on its way is the room's latest state,  *)
(* and a window that does not show it has something on its way to it.       *)

Single(S) == \A v, w \in S : v = w

UpdateTypes ==
  /\ version \in Versions
  /\ {refreshing, asked, loads} \subseteq Reads
  /\ Single(refreshing) /\ Single(asked) /\ Single(loads)
  /\ handling \subseteq Versions
  /\ page \in 0 .. MaxVersion
  /\ phone \in 0 .. MaxVersion /\ failed \in BOOLEAN /\ timer \in BOOLEAN
  /\ disturbed \in BOOLEAN /\ dropped \in BOOLEAN

\* The phone's read in flight is not older than what the phone shows.
ReadsAhead == phone <= version /\ \A v \in loads : v # Unread => phone <= v /\ v <= version

InQuiet ==
  ~disturbed /\ ~dropped =>
    /\ handling \subseteq {version}
    /\ {refreshing, asked, loads} \subseteq SUBSET {Unread, version}
    /\ page = version \/ refreshing # {} \/ handling # {} \/ asked # {}
    /\ phone = version \/ refreshing # {} \/ handling # {} \/ timer \/ loads # {}

UpdatesInv == UpdateTypes /\ ReadsAhead /\ InQuiet

LEMMA Singles ==
  /\ Single({}) /\ \A v : Single({v})
  /\ \A S, T : Single(T) /\ S \subseteq T => Single(S)
BY DEF Single

LEMMA SomeReads == {} \in Reads /\ {Unread} \in Reads /\ \A v \in Versions : {v} \in Reads
BY DEF Reads

\* A read takes what the room has now.
LEMMA ReadsNow ==
  ASSUME UpdateTypes, NEW S \in Reads, Single(S), Unread \in S
  PROVE  ReadNow(S) = {version} /\ {version} \in Reads
<1>1. S = {Unread}
  BY DEF Single
<1>2. QED
  BY <1>1, SomeReads DEF ReadNow, UpdateTypes

LEMMA InitUpdates == UpdatesInit => UpdatesInv
<1> SUFFICES ASSUME UpdatesInit PROVE UpdatesInv
  OBVIOUS
<1>1. UpdateTypes
  <2>1. 1 \in Versions /\ 0 \in 0 .. MaxVersion
    BY VersionAssumption DEF Versions
  <2>2. QED
    BY <2>1, Singles, SomeReads DEF UpdatesInit, UpdateTypes
<1>2. ReadsAhead
  BY DEF UpdatesInit, ReadsAhead
<1>3. InQuiet
  BY DEF UpdatesInit, InQuiet
<1>4. QED
  BY <1>1, <1>2, <1>3 DEF UpdatesInv

LEMMA UpdatesStay == UpdatesInv /\ [UpdatesNext]_updateVars => UpdatesInv'
<1> SUFFICES ASSUME UpdatesInv, [UpdatesNext]_updateVars PROVE UpdateTypes' /\ ReadsAhead' /\ InQuiet'
  BY DEF UpdatesInv
<1>1. UpdateTypes /\ ReadsAhead /\ InQuiet
  BY DEF UpdatesInv
<1>2. Versions \subseteq Nat /\ Unread = 0 /\ version \in Nat /\ phone \in Nat /\ MaxVersion \in Nat
  BY <1>1, VersionAssumption DEF UpdateTypes, Versions, Unread
<1>3. CASE Update
  <2>1. version' = version + 1 /\ version' \in Versions
    BY <1>1, <1>2, <1>3 DEF Update, UpdateTypes, Versions
  <2>2. refreshing' \in Reads /\ Single(refreshing') /\ refreshing' # {}
    BY <1>1, <1>3, Singles, SomeReads DEF Update, RefreshCall, UpdateTypes
  <2>3. UpdateTypes'
    BY <1>1, <1>3, <2>1, <2>2 DEF Update, UpdateTypes
  <2>4. ReadsAhead'
    <3>1. \A v \in loads : v \in Nat
      <4>1. loads \in Reads
        BY <1>1 DEF UpdateTypes
      <4>2. loads \subseteq {0} \cup Versions
        BY <1>2, <4>1 DEF Reads
      <4>3. QED
        BY <1>2, <4>2
    <3>2. UNCHANGED <<loads, phone>>
      BY <1>3 DEF Update
    <3>3. phone <= version /\ \A v \in loads : v # Unread => phone <= v /\ v <= version
      BY <1>1 DEF ReadsAhead
    <3>4. QED
      BY <1>2, <2>1, <3>1, <3>2, <3>3 DEF ReadsAhead
  <2>5. InQuiet'
    <3>1. CASE Rest
      BY <1>3, <3>1 DEF Update, RefreshCall, Rest, InQuiet
    <3>2. CASE ~Rest
      BY <1>3, <3>2 DEF Update, InQuiet
    <3>3. QED
      BY <3>1, <3>2
  <2>6. QED
    BY <2>3, <2>4, <2>5
<1>4. CASE RefreshAgain
  <2>1. refreshing' = {Unread}
    BY <1>4 DEF RefreshAgain, RefreshCall
  <2>2. UpdateTypes'
    BY <1>1, <1>4, <2>1, Singles, SomeReads DEF RefreshAgain, UpdateTypes
  <2>3. ReadsAhead'
    BY <1>1, <1>4 DEF RefreshAgain, ReadsAhead
  <2>4. InQuiet'
    <3>1. CASE Rest
      BY <1>4, <2>1, <3>1 DEF RefreshAgain, Rest, InQuiet
    <3>2. CASE ~Rest
      BY <1>1, <1>4, <2>1, <3>2 DEF RefreshAgain, InQuiet
    <3>3. QED
      BY <3>1, <3>2
  <2>5. QED
    BY <2>2, <2>3, <2>4
<1>5. CASE Read
  <2>1. refreshing' = {version} /\ {version} \in Reads
    BY <1>1, <1>5, ReadsNow DEF Read, UpdateTypes
  <2>2. UpdateTypes'
    BY <1>1, <1>5, <2>1, Singles DEF Read, UpdateTypes
  <2>3. ReadsAhead' /\ InQuiet'
    BY <1>1, <1>5, <2>1 DEF Read, ReadsAhead, InQuiet
  <2>4. QED
    BY <2>2, <2>3
<1>6. CASE Emit
  <2>1. refreshing' = {} /\ handling' = handling \cup refreshing /\ refreshing \subseteq Versions /\ refreshing # {}
    BY <1>1, <1>6 DEF Emit, UpdateTypes, Reads
  <2>2. UpdateTypes'
    BY <1>1, <1>6, <2>1, Singles, SomeReads DEF Emit, UpdateTypes
  <2>3. ReadsAhead'
    BY <1>1, <1>6 DEF Emit, ReadsAhead
  <2>4. InQuiet'
    BY <1>1, <1>6, <2>1 DEF Emit, InQuiet
  <2>5. QED
    BY <2>2, <2>3, <2>4
<1>7. ASSUME NEW v \in Versions, Event(v) PROVE UpdateTypes' /\ ReadsAhead' /\ InQuiet'
  <2>1. UpdateTypes'
    BY <1>1, <1>2, <1>7 DEF Event, UpdateTypes, Versions
  <2>2. ReadsAhead' /\ InQuiet'
    BY <1>1, <1>7 DEF Event, ReadsAhead, InQuiet
  <2>3. QED
    BY <2>1, <2>2
<1>8. CASE Mount
  <2>1. UpdateTypes'
    BY <1>1, <1>8, Singles, SomeReads DEF Mount, UpdateTypes
  <2>2. ReadsAhead' /\ InQuiet'
    BY <1>1, <1>8 DEF Mount, ReadsAhead, InQuiet
  <2>3. QED
    BY <2>1, <2>2
<1>9. CASE Ask
  <2>1. asked' = {version} /\ {version} \in Reads
    BY <1>1, <1>9, ReadsNow DEF Ask, UpdateTypes
  <2>2. UpdateTypes'
    BY <1>1, <1>9, <2>1, Singles DEF Ask, UpdateTypes
  <2>3. ReadsAhead' /\ InQuiet'
    BY <1>1, <1>9, <2>1 DEF Ask, ReadsAhead, InQuiet
  <2>4. QED
    BY <2>2, <2>3
<1>10. CASE Set
  <2>1. page' \in 0 .. MaxVersion /\ disturbed' \in BOOLEAN
    <3>1. 0 \in 0 .. MaxVersion /\ \A v \in Versions : v \in 0 .. MaxVersion
      BY <1>2 DEF Versions
    <3>2. QED
      BY <1>1, <1>10, <3>1 DEF Set, UpdateTypes
  <2>2. UpdateTypes'
    BY <1>1, <1>10, <2>1, Singles, SomeReads DEF Set, UpdateTypes
  <2>3. ReadsAhead'
    BY <1>1, <1>10 DEF Set, ReadsAhead
  <2>4. InQuiet'
    <3>1. CASE disturbed' = TRUE
      BY <3>1 DEF InQuiet
    <3>2. ASSUME NEW v \in asked \cap Versions, page' = v, UNCHANGED disturbed PROVE InQuiet'
      <4>1. v # Unread
        BY <1>2, <3>2, VersionAssumption DEF Versions
      <4>2. QED
        BY <1>1, <1>10, <3>2, <4>1 DEF Set, InQuiet
    <3>3. QED
      BY <1>10, <3>1, <3>2 DEF Set
  <2>5. QED
    BY <2>2, <2>3, <2>4
<1>11. CASE Tick \/ Pull
  <2>1. \/ loads = {} /\ loads' = {Unread} /\ failed' = FALSE /\ UNCHANGED disturbed
        \/ disturbed' = TRUE /\ UNCHANGED <<loads, failed>>
    BY <1>11 DEF Tick, Pull, Load, MayLoad
  <2>2. UNCHANGED <<version, refreshing, handling, page, asked, phone, dropped>> /\ timer' \in BOOLEAN
    BY <1>1, <1>11 DEF Tick, Pull, UpdateTypes
  <2>3. loads' \in Reads /\ Single(loads')
    BY <1>1, <2>1, Singles, SomeReads DEF UpdateTypes
  <2>4. UpdateTypes'
    BY <1>1, <2>1, <2>2, <2>3 DEF UpdateTypes
  <2>5. ReadsAhead'
    BY <1>1, <2>1, <2>2 DEF ReadsAhead
  <2>6. InQuiet'
    BY <1>1, <2>1, <2>2 DEF InQuiet
  <2>7. QED
    BY <2>4, <2>5, <2>6
<1>12. CASE LoadRead
  <2>1. loads' = {version} /\ {version} \in Reads
    BY <1>1, <1>12, ReadsNow DEF LoadRead, UpdateTypes
  <2>2. UpdateTypes'
    BY <1>1, <1>12, <2>1, Singles DEF LoadRead, UpdateTypes
  <2>3. ReadsAhead' /\ InQuiet'
    BY <1>1, <1>2, <1>12, <2>1 DEF LoadRead, ReadsAhead, InQuiet
  <2>4. QED
    BY <2>2, <2>3
<1>13. ASSUME NEW v \in Versions, Loaded(v) PROVE UpdateTypes' /\ ReadsAhead' /\ InQuiet'
  <2>1. v # Unread /\ v \in loads /\ loads' = {} /\ phone' = v /\ v \in 0 .. MaxVersion
    BY <1>1, <1>2, <1>13 DEF Loaded, UpdateTypes, Single, Versions
  <2>2. UpdateTypes'
    BY <1>1, <1>13, <2>1, Singles, SomeReads DEF Loaded, UpdateTypes
  <2>3. ReadsAhead'
    BY <1>1, <1>13, <2>1 DEF Loaded, ReadsAhead
  <2>4. InQuiet'
    BY <1>1, <1>13, <2>1 DEF Loaded, InQuiet
  <2>5. QED
    BY <2>2, <2>3, <2>4
<1>14. CASE LoadFails
  <2>1. UpdateTypes'
    BY <1>1, <1>14, Singles, SomeReads DEF LoadFails, UpdateTypes
  <2>2. ReadsAhead' /\ InQuiet'
    BY <1>1, <1>14 DEF LoadFails, ReadsAhead, InQuiet
  <2>3. QED
    BY <2>1, <2>2
<1>15. CASE RefreshFails
  <2>1. UpdateTypes'
    BY <1>1, <1>15, Singles, SomeReads DEF RefreshFails, UpdateTypes
  <2>2. ReadsAhead' /\ InQuiet'
    BY <1>1, <1>15 DEF RefreshFails, ReadsAhead, InQuiet
  <2>3. QED
    BY <2>1, <2>2
<1>16. ASSUME NEW v \in Versions, UpdateDropped(v) PROVE UpdateTypes' /\ ReadsAhead' /\ InQuiet'
  <2>1. UpdateTypes'
    BY <1>1, <1>16 DEF UpdateDropped, UpdateTypes
  <2>2. ReadsAhead' /\ InQuiet'
    BY <1>1, <1>16 DEF UpdateDropped, ReadsAhead, InQuiet
  <2>3. QED
    BY <2>1, <2>2
<1>17. CASE UNCHANGED updateVars
  BY <1>1, <1>17 DEF updateVars, UpdateTypes, ReadsAhead, InQuiet
<1>18. QED
  BY <1>3, <1>4, <1>5, <1>6, <1>7, <1>8, <1>9, <1>10, <1>11, <1>12, <1>13, <1>14, <1>15, <1>16, <1>17
     DEF UpdatesNext

LEMMA UpdatesAreSound == UpdatesSpec => []UpdatesInv
BY InitUpdates, UpdatesStay, PTL DEF UpdatesSpec

\* The phone's reads do not overtake each other, and an update or a refresh that
\* comes when nothing is under way ends up on the page and on the phone unless it
\* is overlapped or fails, for any number of updates, projections and reads before
\* it and whatever they lost.
THEOREM UpdatesReachWindows == UpdatesSpec => WindowsFollow
<1>1. UpdatesInv /\ [UpdatesNext]_updateVars => [phone' >= phone]_updateVars
  <2> SUFFICES ASSUME UpdatesInv, UpdatesNext PROVE phone' >= phone
    OBVIOUS
  <2>1. phone \in Nat
    BY VersionAssumption DEF UpdatesInv, UpdateTypes
  <2>2. ASSUME NEW v \in Versions, Loaded(v) PROVE phone' >= phone
    BY <2>2, VersionAssumption DEF Loaded, UpdatesInv, ReadsAhead, Versions, Unread
  <2>3. CASE phone' = phone
    BY <2>1, <2>3
  <2>4. QED
    BY <2>2, <2>3 DEF UpdatesNext, Update, RefreshAgain, Read, RefreshFails, Emit, Event, UpdateDropped, Mount, Ask,
                      Set, Tick, Pull, LoadRead, LoadFails
<1>2. UpdatesInv => (Rest /\ ~disturbed /\ ~dropped => page = version /\ phone = version)
  BY DEF UpdatesInv, InQuiet, Rest
<1>3. QED
  BY <1>1, <1>2, UpdatesAreSound, PTL DEF UpdatesSpec, WindowsFollow, PhoneMovesForward, QuietUpdatesAreShown

\* What reads the view is one read at a time, of a version the room had.
THEOREM UpdatesStayInShape == UpdatesSpec => []UpdatesOK
<1>1. UpdatesInv => UpdatesOK
  <2> SUFFICES ASSUME UpdatesInv PROVE UpdatesOK
    OBVIOUS
  <2>1. ASSUME NEW S, Single(S) PROVE Cardinality(S) <= 1
    <3>1. S = {} \/ \E x : S = {x}
      BY <2>1 DEF Single
    <3>2. CASE S = {}
      BY <3>2, FS_EmptySet
    <3>3. ASSUME NEW x, S = {x} PROVE Cardinality(S) <= 1
      <4>1. Cardinality(S) = 1
        BY <3>3, FS_Singleton
      <4>2. QED
        BY <4>1
    <3>4. QED
      BY <3>1, <3>2, <3>3
  <2>2. QED
    BY <2>1 DEF UpdatesInv, UpdateTypes, UpdatesOK
<1>2. QED
  BY <1>1, UpdatesAreSound, PTL

-----------------------------------------------------------------------------
(* Requests, together (MCRequests). *)

\* Each side runs as it would by itself.
LEMMA SidesOfRequests == RequestsSpec => HandlesSpec /\ ControllerSpec /\ UpdatesSpec /\ Spec
<1>1. RequestsInit => HandlesInit /\ ControllerInit /\ UpdatesInit /\ Init
  BY DEF RequestsInit
<1>2. [RequestsNext]_requestVars => [HandlesNext]_handlesVars
  BY DEF RequestsNext, requestVars
<1>3. [RequestsNext]_requestVars => [ControllerNext]_controllerVars
  BY DEF RequestsNext, requestVars
<1>4. [RequestsNext]_requestVars => [UpdatesNext]_updateVars
  BY DEF RequestsNext, requestVars
<1>5. [RequestsNext]_requestVars => [Next]_vars
  BY DEF RequestsNext, requestVars
<1>6. QED
  BY <1>1, <1>2, <1>3, <1>4, <1>5, PTL DEF RequestsSpec, HandlesSpec, ControllerSpec, UpdatesSpec, Spec

\* The handles of rooms, the calls to the worker, the updates of a room and the
\* log of a fixture stay well formed and within their limits, for any number of each.
THEOREM RequestsStayInShape == RequestsSpec => []RequestsOK
<1>1. HandlesOK /\ ControllerOK /\ UpdatesOK /\ TypeOK => RequestsOK
  BY DEF RequestsOK
<1>2. QED
  BY <1>1, SidesOfRequests, HandlesStayInShape, ControllerKeepsLimit, UpdatesStayInShape, PublisherTypes, PTL
=============================================================================
