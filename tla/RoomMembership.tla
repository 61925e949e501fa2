--------------------------- MODULE RoomMembership ---------------------------
(***************************************************************************)
(* The membership half of the room reducer, apps/desktop/workers/          *)
(* room-view.js: what one linearized Autobase node does to the room's      *)
(* members, writers, invites, admissions, roles and moderation roster.     *)
(*                                                                         *)
(* A node is an operation signed by the writer core it came from.  The     *)
(* reducer derives the acting user from that writer, never from the        *)
(* payload, so every action takes the writer w and the author's clock t,   *)
(* and the payload fields are the remaining parameters.  Clocks of         *)
(* different authors are not ordered: t is any member of Times.  Any       *)
(* writer may submit any payload: the reducer runs on every replica        *)
(* against whatever the writers appended.                                  *)
(*                                                                         *)
(* Signatures, encodings and display names are abstracted: a payload that  *)
(* fails them is a rejected operation (NoEffect).                          *)
(*                                                                         *)
(* A definition named Fault... is not part of the model: it is a plausible *)
(* mistake in the definition that follows it, kept to show that the        *)
(* properties notice it.                                                   *)
(***************************************************************************)
EXTENDS Integers, FiniteSets

CONSTANTS
  Users,       \* identities
  Writers,     \* Autobase writer keys
  Invites,     \* blind invite ids
  Requests,    \* blind pairing request ids
  Keys,        \* report key-agreement public keys
  Reports,     \* moderation report ids
  Names,       \* room names
  None,        \* the null of the JSON records
  MaxTime,     \* bound on the authors' clocks
  MaxOps,      \* bound on the operations linearized
  MaxMembers,  \* MAX_ROOM_MEMBERS
  MaxStaff     \* MAX_ROOM_MODERATORS

ASSUME FiniteAssumption == IsFiniteSet(Users) /\ IsFiniteSet(Writers)
ASSUME NoneAssumption ==
  /\ None \notin Users
  /\ None \notin Writers
  /\ None \notin Invites
  /\ None \notin Keys
ASSUME BoundAssumption ==
  /\ MaxTime \in Nat \ {0}
  /\ MaxOps \in Nat
  /\ MaxMembers \in Nat \ {0}
  /\ MaxStaff \in Nat \ {0}

VARIABLES
  seen,          \* operation/<id> markers: ids are numbered as they first appear
  creator,       \* meta/room.createdBy, None before room.create
  closed,        \* meta/room.isClosed
  name,          \* meta/room.name
  activeInvite,  \* meta/room.activeInviteId
  memberCount,   \* meta/room.memberCount
  active,        \* users whose member/<id>.active holds
  banned,        \* users whose member/<id>.banned holds
  role,          \* member/<id>.role
  writerOf,      \* member/<id>.writerKey, None without a member record
  joinedAt,      \* member/<id>.joinedAt
  joined,        \* users with a joined/<id> record
  referral,      \* referral/<referrer>/<member> records
  owner,         \* writer/<key> mapping
  base,          \* writers of the Autobase system view
  issued,        \* invites with an invite/<id> record
  revoked,       \* invites whose revokedAt is set
  expiresAt,     \* invite/<id>.expiresAt
  useCount,      \* invite/<id>.useCount
  inviteUse,     \* invite-use/<invite>/<user> records
  admission,     \* admission/<requestId> records
  keyOf,         \* key-agreement/<user>.publicKey
  report         \* report/<id>: the key wraps of its envelope, <<user, key>>

roomVars == <<creator, closed, name, activeInvite, memberCount>>
memberVars == <<active, banned, role, writerOf, joinedAt, joined, referral>>
writerVars == <<owner, base>>
inviteVars == <<issued, revoked, expiresAt, useCount, inviteUse>>
staffVars == <<keyOf, report>>
view == <<roomVars, memberVars, writerVars, inviteVars, admission, staffVars>>
vars == <<seen, view>>

Times == 1 .. MaxTime
\* expiresAt: null reads as a time no clock reaches.
Never == MaxTime + 1
Expiries == 2 .. Never
Roles == {"none", "member", "moderator", "creator"}
NoAdmission == [invite |-> None, user |-> None, writer |-> None]
Admissions == [invite : Invites, user : Users, writer : Writers]

RoomType ==
  /\ creator \in Users \cup {None}
  /\ closed \in BOOLEAN
  /\ name \in Names
  /\ activeInvite \in Invites \cup {None}
  /\ memberCount \in 0 .. MaxMembers

MemberType ==
  /\ active \in SUBSET Users
  /\ banned \in SUBSET Users
  /\ role \in [Users -> Roles]
  /\ writerOf \in [Users -> Writers \cup {None}]
  /\ joinedAt \in [Users -> 0 .. MaxTime]
  /\ joined \in SUBSET Users
  /\ referral \in SUBSET (Users \X Users)

WriterType ==
  /\ owner \in [Writers -> Users \cup {None}]
  /\ base \in SUBSET Writers

InviteType ==
  /\ issued \in SUBSET Invites
  /\ revoked \in SUBSET Invites
  /\ expiresAt \in [Invites -> 0 .. Never]
  /\ useCount \in [Invites -> Nat]
  /\ inviteUse \in [Invites -> SUBSET Users]

AdmissionType == admission \in [Requests -> Admissions \cup {NoAdmission}]

StaffType ==
  /\ keyOf \in [Users -> Keys \cup {None}]
  /\ report \in [Reports -> SUBSET (Users \X Keys)]

TypeOK ==
  /\ seen \in 0 .. MaxOps
  /\ RoomType /\ MemberType /\ WriterType
  /\ InviteType /\ AdmissionType /\ StaffType

Init ==
  /\ seen = 0
  /\ creator = None /\ closed = FALSE /\ name \in Names
  /\ activeInvite = None /\ memberCount = 0
  /\ active = {} /\ banned = {} /\ joined = {} /\ referral = {}
  /\ role = [u \in Users |-> "none"]
  /\ writerOf = [u \in Users |-> None]
  /\ joinedAt = [u \in Users |-> 0]
  /\ owner = [w \in Writers |-> None]
  \* The room is opened on the creator's bootstrap writer.
  /\ \E w \in Writers : base = {w}
  /\ issued = {} /\ revoked = {}
  /\ expiresAt = [i \in Invites |-> 0]
  /\ useCount = [i \in Invites |-> 0]
  /\ inviteUse = [i \in Invites |-> {}]
  /\ admission = [r \in Requests |-> NoAdmission]
  /\ keyOf = [u \in Users |-> None]
  /\ report = [r \in Reports |-> {}]

-----------------------------------------------------------------------------
(* Guards shared by the handlers. *)

\* applyRoomNodes skips an operation whose marker exists and marks every
\* other one, applied or not.
Unmarked(id) == id > seen
Mark(id) == seen' = id

\* actorForWriter and the checks before the switch.
Authorised(w, t) ==
  /\ creator # None
  /\ owner[w] # None
  /\ owner[w] \in active /\ owner[w] \notin banned
  /\ t >= joinedAt[owner[w]]

IsCreator(u) == role[u] = "creator"

\* The creator acting on a room that is still open.
CreatorActs(w) == IsCreator(owner[w]) /\ ~closed

\* host.removeable: Autobase keeps its last writer.
Removeable(w) == base # {w}

\* host.removeWriter on a member's writer.
FaultKeepWriter(u) == base
WithoutWriter(u) == base \ {writerOf[u]}

\* The invites revoked once the active one is.
FaultLeaveActive == revoked
RevokeActive == revoked \cup ({activeInvite} \ {None})

Staff == {u \in active : role[u] \in {"creator", "moderator"}}

\* The room facts an invite's signed preview repeats.
Preview == <<name, memberCount>>

\* reportRecipients: nobody when the roster is too large or lacks a key.
ReportRecipients ==
  IF Cardinality(Staff) > MaxStaff \/ \E u \in Staff : keyOf[u] = None
  THEN {}
  ELSE {<<u, keyOf[u]>> : u \in Staff}

-----------------------------------------------------------------------------
(* Operations of the room itself. *)

\* Only the bootstrap writer: room.create acknowledges no other one.
RoomCreate(w, t, u, n) ==
  /\ creator = None
  /\ w \in base
  /\ creator' = u /\ name' = n /\ memberCount' = 1
  /\ active' = active \cup {u}
  /\ role' = [role EXCEPT ![u] = "creator"]
  /\ writerOf' = [writerOf EXCEPT ![u] = w]
  /\ joinedAt' = [joinedAt EXCEPT ![u] = t]
  /\ joined' = joined \cup {u}
  /\ owner' = [owner EXCEPT ![w] = u]
  /\ UNCHANGED <<closed, activeInvite, banned, referral, base, inviteVars,
                 admission, staffVars>>

RoomRename(w, n) ==
  /\ CreatorActs(w)
  /\ name' = n
  /\ UNCHANGED <<creator, closed, activeInvite, memberCount, memberVars,
                 writerVars, inviteVars, admission, staffVars>>

RoomClose(w) ==
  /\ CreatorActs(w)
  /\ closed' = TRUE
  /\ revoked' = RevokeActive
  /\ activeInvite' = None
  /\ UNCHANGED <<creator, name, memberCount, memberVars, writerVars, issued,
                 expiresAt, useCount, inviteUse, admission, staffVars>>

-----------------------------------------------------------------------------
(* Invites: a new one replaces the active one. *)

InviteCreate(w, t, i, expiry, preview) ==
  /\ CreatorActs(w)
  /\ expiry > t
  /\ preview = Preview
  /\ revoked' = RevokeActive \ {i}
  /\ issued' = issued \cup {i}
  /\ expiresAt' = [expiresAt EXCEPT ![i] = expiry]
  /\ useCount' = [useCount EXCEPT ![i] = 0]
  /\ activeInvite' = i
  /\ UNCHANGED <<creator, closed, name, memberCount, memberVars, writerVars,
                 inviteUse, admission, staffVars>>

\* Allowed in a closed room as well.
InviteRevoke(w, i) ==
  /\ IsCreator(owner[w])
  /\ i \in issued /\ i \notin revoked
  /\ revoked' = revoked \cup {i}
  /\ activeInvite' = IF activeInvite = i THEN None ELSE activeInvite
  /\ UNCHANGED <<creator, closed, name, memberCount, memberVars, writerVars,
                 issued, expiresAt, useCount, inviteUse, admission, staffVars>>

-----------------------------------------------------------------------------
(* Admission, through a member that serves the pairing request             *)
(* (member.admit) or through the claim the candidate publishes itself      *)
(* (member.claim).                                                         *)

\* The record of f having referred u, if the reducer accepts it; a candidate
\* without a referral is one that names itself.
FaultAnyReferral(f, u) == {<<f, u>>}
AcceptedReferral(f, u) ==
  IF f # u /\ f \in active /\ f \notin banned THEN {<<f, u>>} ELSE {}

\* A request that was answered before admits nobody again.
FaultAnyRequest(r) == TRUE
FreshRequest(r) == admission[r] = NoAdmission

Barred(u) == u \in banned

\* MAX_ROOM_MEMBERS, for a user who is not a member already.
FaultHasOneTooMany(u) == u \notin active => memberCount <= MaxMembers
HasPlace(u) == u \notin active => memberCount < MaxMembers

\* The checks of applyMemberAdmission on user u entering with writer k by
\* request r and invite i.
Admissible(t, r, i, u, k) ==
  /\ ~closed
  /\ FreshRequest(r)
  /\ i \in issued /\ i \notin revoked /\ activeInvite = i
  /\ t < expiresAt[i]
  /\ ~Barred(u)
  /\ HasPlace(u)
  /\ u \in active => writerOf[u] = k
  /\ owner[k] \in {None, u}

\* A rejoining member brings a new writer; the mapping of the old one goes.
RotateOwner(u, k) ==
  [w \in Writers |->
     IF w = k THEN u
     ELSE IF u \notin active /\ w = writerOf[u] /\ owner[w] = u THEN None
     ELSE owner[w]]

FaultCountEveryEntry(u) == memberCount + 1
CountAfterEntry(u) == IF u \in active THEN memberCount ELSE memberCount + 1

\* Only the first join of a user is counted on an invite.
FirstJoin(u) == u \notin joined

AdmissionRecord(i, u, k) == [invite |-> i, user |-> u, writer |-> k]

\* What applyMemberAdmission writes.  f is the candidate's referrer.
Admit(t, r, i, u, k, f) ==
  /\ base' = IF u \in active THEN base ELSE base \cup {k}
  /\ owner' = RotateOwner(u, k)
  /\ role' = [role EXCEPT ![u] = IF @ = "none" THEN "member" ELSE @]
  /\ joinedAt' = [joinedAt EXCEPT ![u] = IF writerOf[u] = None THEN t ELSE @]
  /\ writerOf' = [writerOf EXCEPT ![u] = k]
  /\ active' = active \cup {u}
  /\ banned' = banned \ {u}
  /\ admission' = [admission EXCEPT ![r] = AdmissionRecord(i, u, k)]
  /\ memberCount' = CountAfterEntry(u)
  /\ joined' = joined \cup {u}
  /\ IF FirstJoin(u)
     THEN /\ inviteUse' = [inviteUse EXCEPT ![i] = @ \cup {u}]
          /\ useCount' = [useCount EXCEPT ![i] = @ + 1]
          /\ referral' = referral \cup AcceptedReferral(f, u)
     ELSE UNCHANGED <<inviteUse, useCount, referral>>
  /\ UNCHANGED <<creator, closed, name, activeInvite, issued, revoked,
                 expiresAt, staffVars>>

MemberAdmit(t, r, i, u, k, f) ==
  /\ Admissible(t, r, i, u, k)
  /\ Admit(t, r, i, u, k, f)

\* The claim is signed by member s and appended by the candidate's own writer
\* w, which need not be a writer of the room yet.
MemberClaim(w, t, s, r, i, u, f) ==
  /\ creator # None
  /\ s \in active /\ s \notin banned
  /\ Admissible(t, r, i, u, w)
  /\ Admit(t, r, i, u, w, f)

-----------------------------------------------------------------------------
(* Leaving, removal, roles. *)

MemberRemove(w, u) ==
  /\ CreatorActs(w)
  /\ u \in active /\ ~IsCreator(u)
  /\ Removeable(writerOf[u])
  /\ base' = WithoutWriter(u)
  /\ active' = active \ {u}
  /\ banned' = banned \cup {u}
  /\ memberCount' = memberCount - 1
  /\ UNCHANGED <<creator, closed, name, activeInvite, role, writerOf, joinedAt,
                 joined, referral, owner, inviteVars, admission, staffVars>>

MayLeave(u) == IsCreator(u) => closed

\* The creator leaves a closed room only, and keeps the bootstrap writer.
MemberLeave(w) ==
  LET u == owner[w] IN
  /\ MayLeave(u)
  /\ IF IsCreator(u)
     THEN UNCHANGED base
     ELSE Removeable(writerOf[u]) /\ base' = WithoutWriter(u)
  /\ active' = active \ {u}
  /\ banned' = banned \ {u}
  /\ memberCount' = memberCount - 1
  /\ UNCHANGED <<creator, closed, name, activeInvite, role, writerOf, joinedAt,
                 joined, referral, owner, inviteVars, admission, staffVars>>

MemberRole(w, u, newRole) ==
  /\ CreatorActs(w)
  /\ u \in active /\ ~IsCreator(u)
  /\ newRole = "moderator" /\ role[u] # "moderator" =>
       Cardinality(Staff) < MaxStaff
  /\ role' = [role EXCEPT ![u] = newRole]
  /\ UNCHANGED <<roomVars, active, banned, writerOf, joinedAt, joined, referral,
                 writerVars, inviteVars, admission, staffVars>>

-----------------------------------------------------------------------------
(* Moderation reports.  Neither handler looks at isClosed. *)

\* A user's report key never changes, so wraps made for it stay valid.
FaultAnyKey(u, key) == TRUE
KeyAccepted(u, key) == keyOf[u] \in {None, key}

MemberKeyAgreement(w, key) ==
  /\ KeyAccepted(owner[w], key)
  /\ keyOf' = [keyOf EXCEPT ![owner[w]] = key]
  /\ UNCHANGED <<roomVars, memberVars, writerVars, inviteVars, admission, report>>

\* wraps: the recipients and keys the reporter encrypted for, in its own view.
ModerationReport(w, r, wraps) ==
  /\ report[r] = {}
  /\ wraps # {} /\ wraps = ReportRecipients
  /\ report' = [report EXCEPT ![r] = wraps]
  /\ UNCHANGED <<roomVars, memberVars, writerVars, inviteVars, admission, keyOf>>

-----------------------------------------------------------------------------
(* Linearized nodes. *)

\* The switch of applyRoomOperation, behind the check of the acting writer.
\* Invite ids are fresh (the creator's device draws 32 random bytes for each)
\* and a candidate names a member as its referrer, or itself for none.
ActorOperation(w, t) ==
  /\ Authorised(w, t)
  /\ \/ \E n \in Names : RoomRename(w, n)
     \/ RoomClose(w)
     \/ \E i \in Invites \ issued, expiry \in Expiries, n \in Names, count \in 1 .. MaxMembers :
          InviteCreate(w, t, i, expiry, <<n, count>>)
     \/ \E i \in Invites : InviteRevoke(w, i)
     \/ \E r \in Requests, i \in Invites, u \in Users, k \in Writers :
          \E f \in active \cup {u} : MemberAdmit(t, r, i, u, k, f)
     \/ \E u \in Users : MemberRemove(w, u)
     \/ MemberLeave(w)
     \/ \E u \in Users, newRole \in {"member", "moderator"} : MemberRole(w, u, newRole)
     \/ \E key \in Keys : MemberKeyAgreement(w, key)
     \/ \E r \in Reports, wraps \in SUBSET (Users \X Keys) : ModerationReport(w, r, wraps)

\* The operations a writer may append before it belongs to a member.
NewcomerOperation(w, t) ==
  \/ \E u \in Users, n \in Names : RoomCreate(w, t, u, n)
  \/ \E s \in Users, r \in Requests, i \in Invites, u \in Users :
       \E f \in active \cup {u} : MemberClaim(w, t, s, r, i, u, f)

\* A malformed operation, one that room policy rejects, or the repetition of
\* an admission or key binding already recorded.
NoEffect == UNCHANGED view

\* Operation ids in order of first appearance; any of them may appear again.
Ids == {id \in 1 .. MaxOps : id <= seen + 1}

\* applyRoomNodes on one node: skipped if its id has a marker, marked whether
\* or not the operation applies.
Next ==
  \E id \in Ids :
    /\ Unmarked(id) /\ Mark(id)
    /\ \/ \E w \in Writers, t \in Times : ActorOperation(w, t) \/ NewcomerOperation(w, t)
       \/ NoEffect

Spec == Init /\ [][Next]_vars

-----------------------------------------------------------------------------
(* What must hold. *)

Live(i) == i \in issued /\ i \notin revoked

\* meta/room.memberCount, which gates the capacity check and is signed into
\* every invite preview, is exactly the number of active members, through
\* repeated admissions, claims, leaves, removals and rejoins.
MemberCountExact == memberCount = Cardinality(active)

\* The room never holds more members than it admits.
WithinCapacity == Cardinality(active) <= MaxMembers

\* An unrevoked invite is the room's active one, so regenerating or closing
\* leaves no earlier code that admits; a closed room has none.
OneLiveInvite ==
  /\ \A i \in Invites : Live(i) <=> i = activeInvite
  /\ closed => activeInvite = None

\* actorForWriter finds for each member the one writer bound to it.
WriterSpeaksForOne ==
  /\ \A u \in Users : writerOf[u] # None => owner[writerOf[u]] = u
  /\ \A w \in Writers : owner[w] # None => writerOf[owner[w]] = w

\* The Autobase writer set is the writers of the active members, and the
\* creator's writer, which host.removeWriter must never lose.
WritersFollowMembers ==
  creator # None =>
    base = {writerOf[u] : u \in active \cup {creator}}

\* The three places that bind a writer agree: no rotated writer still speaks for
\* a member, no writer speaks for two, and Autobase takes exactly the nodes of
\* the members that are there, through rejoins, claims and removals.
WritersMatchMembers == WriterSpeaksForOne /\ WritersFollowMembers

\* An open room keeps its creator: active, the only creator, and never banned.
CreatorStays ==
  /\ creator # None /\ ~closed => creator \in active
  /\ \A u \in Users : role[u] = "creator" <=> u = creator

\* Every admitted user is counted on exactly one invite, once.
EachJoinOnOneInvite ==
  /\ \A i \in Invites : useCount[i] = Cardinality(inviteUse[i])
  /\ \A i, j \in Invites : i # j => inviteUse[i] \cap inviteUse[j] = {}
  /\ joined = (UNION {inviteUse[i] : i \in Invites}) \cup ({creator} \ {None})

\* The referral records credited by influence form a forest: nobody is
\* referred twice, and no set of members referred one another in a ring.
ReferralForest ==
  /\ \A p, q \in referral : p[2] = q[2] => p = q
  /\ \A S \in (SUBSET Users) \ {{}} :
       \E u \in S : \A f \in S : <<f, u>> \notin referral

\* A member's current writer was admitted by a recorded request, whatever the
\* order in which admits, claims and rejoins were linearized.
WriterWasAdmitted ==
  \A u \in active \ {creator} :
    \E r \in Requests : admission[r].user = u /\ admission[r].writer = writerOf[u]

\* Membership is explained by what was recorded: what a first join credits stays
\* with the first join, however often the user leaves and rejoins through other
\* invites, and the writer a member has now was admitted.
JoinsTraceBack == EachJoinOnOneInvite /\ ReferralForest /\ WriterWasAdmitted

\* A removed member is never again a member.
BannedStaysOut == [][\A u \in banned : u \in banned' /\ u \notin active']_vars

\* A user who becomes active consumed a pairing request that had admitted
\* nobody: replaying an old admission never brings back a member who left.
EntryConsumesRequest ==
  [][\A u \in active' \ active :
       u # creator' =>
         \E r \in Requests : /\ admission[r] = NoAdmission
                             /\ admission'[r].user = u]_vars

\* Nobody enters past the checks of an admission, whichever of admit, claim and
\* their repeats comes first and whatever came between.
EntryIsRegular == BannedStaysOut /\ EntryConsumesRequest

\* The keys a stored report was wrapped for stay the keys of their users, so
\* its recipients can still open it after any number of leaves, rejoins and
\* writer rotations.
ReportStaysReadable ==
  \A r \in Reports : \A wrap \in report[r] : keyOf[wrap[1]] = wrap[2]

\* PEARS.md: reports are encrypted for the current staff recipient set.  Once
\* every staff member has published a key, that set can be addressed.
ReportsReachStaff ==
  (Staff # {} /\ \A u \in Staff : keyOf[u] # None) => ReportRecipients # {}
=============================================================================
