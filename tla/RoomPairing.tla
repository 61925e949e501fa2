----------------------------- MODULE RoomPairing -----------------------------
(***************************************************************************)
(* One device joins a room, leaves it and joins again: joinRoom of         *)
(* apps/desktop/workers/room-manager.js, and pair, rejoin, the admission   *)
(* claim and _handlePairingRequest of workers/room.js, on the room of      *)
(* RoomMembership.                                                         *)
(*                                                                         *)
(* Blind pairing is external: a request may be served by any member, by    *)
(* several, long after the candidate gave up, and again when it is found   *)
(* again; an answer may get lost.  Every replica sees one room here.  What *)
(* a replica that lags may do more is to publish its claim although its    *)
(* membership has been applied.                                            *)
(***************************************************************************)
EXTENDS RoomMembership

CONSTANTS
  Candidate, Hosts,   \* the user that joins; members whose devices serve
  Creator,            \* the host that created the room
  FirstWriter,        \* a user's first writer key: its core of the room's namespace
  MaxFaults           \* bound on crashes, timeouts, handlers that end early, moderations

ASSUME PairingAssumption ==
  /\ Candidate \in Users /\ Hosts \subseteq Users \ {Candidate} /\ Creator \in Hosts
  /\ FirstWriter \in [Users -> Writers]
  /\ \A u, v \in Users : FirstWriter[u] = FirstWriter[v] => u = v
  /\ Cardinality(Hosts) <= MaxMembers /\ Invites # {} /\ MaxFaults \in Nat

VARIABLES
  asked,     \* pairing requests made: the key and the invite of each
  local,     \* the candidate's local writer, durable
  catalog,   \* whether its account has a record of the room, durable
  call,      \* its joinRoom call
  serving,   \* requests that hosts handle: <<host, request, whether it was applied>>
  replies,   \* confirmations: <<request, host that signed the claim>>
  denials,   \* requests denied
  pairFaults

candidateVars == <<local, catalog, call>>
hostVars == <<serving, replies, denials>>
pairVars == <<view, asked, candidateVars, hostVars, pairFaults>>

NoCall == [step |-> "none", request |-> None, key |-> None, signer |-> None]
Asked == {q \in Requests : asked[q].key # None}
Drawn == {asked[q].key : q \in Asked} \cup {FirstWriter[u] : u \in Users}
\* Request ids and keys that nobody used before; which one does not matter.
NewRequest(q) == Requests # Asked /\ q = CHOOSE r \in Requests \ Asked : TRUE
NewKey(k) == Writers # Drawn /\ k = CHOOSE w \in Writers \ Drawn : TRUE

PairingOK ==
  /\ MemberType /\ WriterType /\ InviteType /\ AdmissionType
  /\ asked \in [Requests -> [key : Writers \cup {None}, invite : Invites \cup {None}]]
  /\ local \in Writers /\ catalog \in BOOLEAN
  /\ call \in [step : {"none", "asking", "confirmed", "opening", "waiting"},
               request : Requests \cup {None}, key : Writers \cup {None}, signer : Hosts \cup {None}]
  /\ serving \subseteq Hosts \X Requests \X BOOLEAN
  /\ replies \subseteq Requests \X Hosts /\ denials \subseteq Requests
  /\ pairFaults \in 0 .. MaxFaults

\* A room with its members and one invite; the candidate was never there.
PairInit ==
  /\ seen = 0
  /\ creator = Creator /\ closed = FALSE /\ name \in Names
  /\ memberCount = Cardinality(Hosts)
  /\ active = Hosts /\ banned = {} /\ referral = {}
  /\ role = [u \in Users |-> IF u = Creator THEN "creator" ELSE IF u \in Hosts THEN "member" ELSE "none"]
  /\ writerOf = [u \in Users |-> IF u \in Hosts THEN FirstWriter[u] ELSE None]
  /\ joinedAt = [u \in Users |-> IF u \in Hosts THEN 1 ELSE 0]
  /\ joined = Hosts
  /\ owner = [w \in Writers |-> IF \E u \in Hosts : FirstWriter[u] = w
                                THEN CHOOSE u \in Hosts : FirstWriter[u] = w ELSE None]
  /\ base = {FirstWriter[u] : u \in Hosts}
  /\ LET i == CHOOSE j \in Invites : TRUE IN
       /\ issued = {i}
       /\ activeInvite = i
       /\ expiresAt = [j \in Invites |-> IF j = i THEN Never ELSE 0]
       /\ useCount = [j \in Invites |-> IF j = i THEN Cardinality(Hosts) - 1 ELSE 0]
       /\ inviteUse = [j \in Invites |-> IF j = i THEN Hosts \ {Creator} ELSE {}]
  /\ revoked = {} /\ admission = [r \in Requests |-> NoAdmission]
  /\ keyOf = [u \in Users |-> None] /\ report = [r \in Reports |-> {}]
  /\ asked = [q \in Requests |-> [key |-> None, invite |-> None]]
  /\ local = FirstWriter[Candidate] /\ catalog = FALSE /\ call = NoCall
  /\ serving = {} /\ replies = {} /\ denials = {}
  /\ pairFaults = 0

Fail == pairFaults < MaxFaults /\ pairFaults' = pairFaults + 1

-----------------------------------------------------------------------------
(* The candidate. *)

\* pairCandidate, with the code of the current invite, which may be replaced
\* from then on.  The id of a request follows from what it says, which is why a
\* rejoin numbers its attempts.
Ask(q, k, i) ==
  /\ call' = [NoCall EXCEPT !.step = "asking", !.request = q, !.key = k]
  /\ asked' = [asked EXCEPT ![q] = [key |-> k, invite |-> i]]
  /\ UNCHANGED <<replies, denials>>

\* joinRoom without a catalog record: Room.pair, with the key of the namespace.
OwnKey(k) == k = local
FirstJoinCall(q, k) ==
  /\ call = NoCall /\ ~catalog /\ activeInvite # None /\ OwnKey(k)
  /\ \/ asked[q] = [key |-> k, invite |-> activeInvite]
     \/ NewRequest(q) /\ \A r \in Asked : asked[r].invite # activeInvite
  /\ Ask(q, k, activeInvite)
  /\ UNCHANGED <<seen, view, local, catalog, serving, pairFaults>>

\* joinRoom with one, by a user who is no member or cannot write: rejoin, with
\* a new key that only this call knows.
RejoinCall(q, k) ==
  /\ call = NoCall /\ catalog /\ activeInvite # None
  /\ Candidate \notin active \/ local \notin base
  /\ NewKey(k) /\ NewRequest(q)
  /\ Ask(q, k, activeInvite)
  /\ UNCHANGED <<seen, view, local, catalog, serving, pairFaults>>

Confirmed(q, h) ==
  /\ call.step = "asking" /\ call.request = q /\ <<q, h>> \in replies
  /\ call' = [call EXCEPT !.step = "confirmed", !.signer = h]
  /\ replies' = {} /\ denials' = {}
  /\ UNCHANGED <<seen, view, asked, local, catalog, serving, pairFaults>>

\* The room is opened, or restarted on the new writer.
NextWriter == call.key
OpenRoom ==
  /\ call.step = "confirmed"
  /\ local' = NextWriter /\ call' = [call EXCEPT !.step = "opening"]
  /\ UNCHANGED <<seen, view, asked, catalog, hostVars, pairFaults>>

Denied ==
  /\ call.step = "asking" /\ call.request \in denials
  /\ call' = NoCall /\ replies' = {} /\ denials' = {}
  /\ UNCHANGED <<seen, view, asked, local, catalog, serving, pairFaults>>

\* rejoin asks again, with the same key, when the invite was used.
AskAgain(q) ==
  /\ call.step = "asking" /\ call.request \in denials /\ catalog
  /\ NewRequest(q)
  /\ call' = [call EXCEPT !.request = q]
  /\ asked' = [asked EXCEPT ![q] = asked[call.request]]
  /\ replies' = {} /\ denials' = {}
  /\ UNCHANGED <<seen, view, local, catalog, serving, pairFaults>>

HasLocalMembership == Candidate \in active /\ writerOf[Candidate] = local

\* _applyAdmissionClaim, once the writer is authorized.  The admission the
\* claim repeats is recorded.
ClaimHolds == call.signer \in active /\ ~closed
ApplyClaim ==
  /\ call.step = "opening"
  /\ \/ HasLocalMembership /\ call' = [call EXCEPT !.step = "waiting"]
     \/ local \in base /\ call' = IF ClaimHolds THEN [call EXCEPT !.step = "waiting"] ELSE NoCall
  /\ UNCHANGED <<seen, view, asked, local, catalog, hostVars, pairFaults>>

\* waitForMembership ends and the account keeps the room.
JoinReturns ==
  /\ call.step = "waiting" /\ HasLocalMembership
  /\ catalog' = TRUE /\ call' = NoCall
  /\ UNCHANGED <<seen, view, asked, local, hostVars, pairFaults>>

\* PAIRING_TIMEOUT_MS at any wait, or the app ends.
CallEnds ==
  /\ call # NoCall /\ Fail
  /\ call' = NoCall /\ replies' = {} /\ denials' = {}
  /\ UNCHANGED <<seen, view, asked, local, catalog, serving>>

\* Nothing more will come of the wait: the timeout that has no bound.
CallTimesOut ==
  /\ \/ call.step = "opening" /\ ~HasLocalMembership /\ local \notin base
     \/ call.step = "waiting" /\ ~HasLocalMembership
  /\ call' = NoCall
  /\ UNCHANGED <<seen, view, asked, local, catalog, hostVars, pairFaults>>

Leave ==
  /\ call = NoCall /\ catalog /\ HasLocalMembership
  /\ MemberLeave(local)
  /\ UNCHANGED <<seen, asked, candidateVars, hostVars, pairFaults>>

-----------------------------------------------------------------------------
(* A host: _handlePairingRequest. *)

\* An answer reaches the candidate while it asks.  A request that nobody asks
\* any more and that was admitted changes nothing when it is served again.
AskedNow(q) == call.step = "asking" /\ call.request = q
Heard(answers, q, answer) == IF AskedNow(q) THEN answers \cup {answer} ELSE answers

Serves(h) == h \in active /\ ~closed /\ activeInvite # None
Current(q) == ~closed /\ activeInvite = asked[q].invite
Serve(h, q) ==
  /\ Serves(h) /\ q \in Asked
  /\ AskedNow(q) \/ (Current(q) /\ admission[q] = NoAdmission)
  /\ \A s \in serving : s[1] = h => s[2] # q
  /\ IF Current(q)
     THEN serving' = serving \cup {<<h, q, FALSE>>} /\ UNCHANGED denials
     ELSE denials' = Heard(denials, q, q) /\ UNCHANGED serving
  /\ UNCHANGED <<seen, view, asked, candidateVars, replies, pairFaults>>

\* member.admit as the reducer takes it, after whatever came in between.
Admits(h, q) ==
  /\ h \in active
  /\ Admissible(1, q, asked[q].invite, Candidate, asked[q].key)
Repeats(h, q) == h \in active /\ ~closed /\ admission[q] # NoAdmission
Accepted(h, q) == Admits(h, q) \/ Repeats(h, q)

Answer(h, q, applied) ==
  IF applied
  THEN serving' = (serving \ {<<h, q, FALSE>>}) \cup {<<h, q, TRUE>>} /\ UNCHANGED denials
  ELSE serving' = serving \ {<<h, q, FALSE>>} /\ denials' = Heard(denials, q, q)

\* The append may have been applied and its marker seen too late.
MarkerApplied(h, q) == Accepted(h, q)
AppendAdmission(h, q) ==
  /\ <<h, q, FALSE>> \in serving
  /\ IF Admits(h, q) THEN Admit(1, q, asked[q].invite, Candidate, asked[q].key, Candidate)
                     ELSE UNCHANGED view
  /\ \/ Answer(h, q, MarkerApplied(h, q)) /\ UNCHANGED pairFaults
     \/ Accepted(h, q) /\ Answer(h, q, FALSE) /\ Fail
  /\ UNCHANGED <<seen, asked, candidateVars, replies>>

Confirm(h, q) ==
  /\ <<h, q, TRUE>> \in serving
  /\ replies' = Heard(replies, q, <<q, h>>)
  /\ serving' = serving \ {<<h, q, TRUE>>}
  /\ UNCHANGED <<seen, view, asked, candidateVars, denials, pairFaults>>

HostStops(h) ==
  /\ \E s \in serving : s[1] = h
  /\ Fail /\ serving' = {s \in serving : s[1] # h}
  /\ UNCHANGED <<seen, view, asked, candidateVars, replies, denials>>

-----------------------------------------------------------------------------
(* The creator, and the other hosts. *)

Moderate ==
  /\ \/ RoomClose(FirstWriter[Creator])
     \/ \E i \in Invites \ issued : InviteCreate(FirstWriter[Creator], 1, i, Never, Preview)
     \/ \E u \in Users : MemberRemove(FirstWriter[Creator], u)
  /\ Fail
  /\ UNCHANGED <<seen, asked, candidateVars, hostVars>>

PairNext ==
  \/ \E q \in Requests, k \in Writers : FirstJoinCall(q, k) \/ RejoinCall(q, k)
  \/ \E q \in Requests, h \in Hosts :
       Confirmed(q, h) \/ Serve(h, q) \/ AppendAdmission(h, q) \/ Confirm(h, q)
  \/ OpenRoom \/ Denied \/ ApplyClaim \/ JoinReturns \/ CallEnds \/ CallTimesOut \/ Leave
  \/ \E q \in Requests : AskAgain(q)
  \/ \E h \in Hosts : HostStops(h)
  \/ Moderate

PairSpec == PairInit /\ [][PairNext]_<<seen, pairVars>>

-----------------------------------------------------------------------------
(* What must hold. *)

\* A claim that a host hands out names an admission the room has for that key
\* and invite, whichever hosts served the request beside it and whatever the
\* creator did between the host's check and its append.  A member whose device
\* can write is bound to that device's writer: joinRoom looks at the membership
\* and at base.writable only.
AccessIsBacked ==
  /\ \A r \in replies :
       admission[r[1]] = [invite |-> asked[r[1]].invite, user |-> Candidate, writer |-> asked[r[1]].key]
  /\ Candidate \in active /\ local \in base => writerOf[Candidate] = local

\* Until the account has the record, the writer that was admitted is the one the
\* namespace keeps.
FirstJoinKeepsWriter ==
  ~catalog /\ Candidate \in active => writerOf[Candidate] = local

\* room.js:907: a first join that stopped anywhere goes through when it is tried
\* again: the device still has the writer that was admitted, and whatever request
\* it makes with the current invite, new or asked before, the member that serves
\* it can answer with a claim.
JoinCanResume ==
  Candidate \in active /\ ~catalog =>
    /\ FirstJoinKeepsWriter
    /\ \A q \in Requests, h \in Hosts :
         /\ Serves(h)
         /\ q \in Asked => asked[q] = [key |-> local, invite |-> activeInvite]
         => Admissible(1, q, activeInvite, Candidate, local) \/ Repeats(h, q)

\* Pairing gives access that the room backs, and a join that stopped is not lost.
JoinsHold == AccessIsBacked /\ JoinCanResume

\* HANDOFF.md:77: "The real multi-peer room lifecycle now completes across
\* leave/rejoin": while no call is under way, a member's device is the writer the
\* room knows.  If it is not, every rejoin brings another key, which the room
\* refuses to an active member, and the device cannot even leave.
NotLockedOut ==
  call = NoCall /\ catalog /\ Candidate \in active => writerOf[Candidate] = local
=============================================================================
