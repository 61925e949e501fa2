------------------------ MODULE RoomMembershipProofs ------------------------
(***************************************************************************)
(* Theorems about RoomMembership, for every set of users, writers and      *)
(* invites and every bound.                                                *)
(***************************************************************************)
EXTENDS RoomMembership, FiniteSetTheorems, TLAPS

\* What the member records say of one another.  Neither part is a goal of its
\* own: they carry the invariants through admission and leaving.
Records ==
  /\ \A u \in Users : writerOf[u] # None <=> role[u] # "none"
  /\ \A u \in active \cup banned : writerOf[u] # None
  /\ active \cap banned = {}
  /\ creator = None => \A u \in Users : writerOf[u] = None
  /\ creator = None => ~closed
  /\ creator # None => writerOf[creator] # None
  /\ creator = None => \A v, w \in base : v = w

\* The inductive invariant.
IInv ==
  /\ TypeOK
  /\ Records
  /\ MemberCountExact
  /\ OneLiveInvite
  /\ WriterSpeaksForOne
  /\ WritersFollowMembers
  /\ CreatorStays

-----------------------------------------------------------------------------
LEMMA Constants == /\ None \notin Users /\ None \notin Writers
                   /\ None \notin Invites /\ None \notin Keys
                   /\ MaxTime \in Nat \ {0} /\ MaxOps \in Nat
                   /\ MaxMembers \in Nat \ {0} /\ MaxStaff \in Nat \ {0}
BY NoneAssumption, BoundAssumption

\* The size of a set of users, and what adding or dropping one does to it.
LEMMA UserSets ==
  ASSUME NEW S \in SUBSET Users, NEW u \in Users
  PROVE  /\ IsFiniteSet(S) /\ Cardinality(S) \in Nat
         /\ Cardinality(S \cup {u}) = IF u \in S THEN Cardinality(S) ELSE Cardinality(S) + 1
         /\ Cardinality(S \ {u}) = IF u \in S THEN Cardinality(S) - 1 ELSE Cardinality(S)
         /\ u \in S => Cardinality(S) >= 1
<1>1. IsFiniteSet(S)
  BY FiniteAssumption, FS_Subset
<1>2. Cardinality(S) \in Nat
  BY <1>1, FS_CardinalityType
<1>3. Cardinality(S \cup {u}) = IF u \in S THEN Cardinality(S) ELSE Cardinality(S) + 1
  BY <1>1, FS_AddElement
<1>4. Cardinality(S \ {u}) = IF u \in S THEN Cardinality(S) - 1 ELSE Cardinality(S)
  BY <1>1, FS_RemoveElement
<1>5. u \in S => Cardinality(S) >= 1
  BY <1>1, <1>2, FS_EmptySet
<1>6. QED
  BY <1>1, <1>2, <1>3, <1>4, <1>5

LEMMA InitIInv == Init => IInv
<1>1. SUFFICES ASSUME Init PROVE IInv
  OBVIOUS
<1>2. TypeOK
  <2>1. RoomType
    <3>1. creator = None /\ activeInvite = None /\ closed = FALSE /\ name \in Names
      BY <1>1 DEF Init
    <3>2. memberCount \in 0 .. MaxMembers
      BY <1>1, Constants DEF Init
    <3>3. QED
      BY <3>1, <3>2 DEF RoomType
  <2>1c. WriterType
    BY <1>1 DEF Init, WriterType
  <2>1a. AdmissionType
    BY <1>1 DEF Init, AdmissionType
  <2>1b. StaffType
    BY <1>1 DEF Init, StaffType
  <2>2. MemberType
    BY <1>1, Constants DEF Init, MemberType, Roles
  <2>3. InviteType
    BY <1>1, Constants DEF Init, InviteType, Never
  <2>4. QED
    BY <1>1, <2>1, <2>1a, <2>1b, <2>1c, <2>2, <2>3, Constants DEF Init, TypeOK
<1>3. Records
  BY <1>1 DEF Init, Records
<1>4. MemberCountExact
  BY <1>1, FS_EmptySet DEF Init, MemberCountExact
<1>5. OneLiveInvite
  BY <1>1, Constants DEF Init, OneLiveInvite, Live
<1>6. WriterSpeaksForOne
  BY <1>1 DEF Init, WriterSpeaksForOne
<1>7. WritersFollowMembers /\ CreatorStays
  BY <1>1, Constants DEF Init, WritersFollowMembers, CreatorStays
<1>8. QED
  BY <1>2, <1>3, <1>4, <1>5, <1>6, <1>7 DEF IInv

-----------------------------------------------------------------------------
(* What an operation leaves alone keeps what is said about it. *)

LEMMA InviteFrame ==
  ASSUME OneLiveInvite, UNCHANGED <<closed, activeInvite, issued, revoked>>
  PROVE  OneLiveInvite'
BY DEF OneLiveInvite, Live

LEMMA TypeFrame ==
  /\ RoomType /\ UNCHANGED roomVars => RoomType'
  /\ MemberType /\ UNCHANGED memberVars => MemberType'
  /\ WriterType /\ UNCHANGED writerVars => WriterType'
  /\ InviteType /\ UNCHANGED inviteVars => InviteType'
  /\ AdmissionType /\ UNCHANGED admission => AdmissionType'
  /\ StaffType /\ UNCHANGED staffVars => StaffType'
<1>1. RoomType /\ UNCHANGED roomVars => RoomType'
  BY DEF RoomType, roomVars
<1>2. MemberType /\ UNCHANGED memberVars => MemberType'
  BY DEF MemberType, memberVars
<1>3. WriterType /\ UNCHANGED writerVars => WriterType'
  BY DEF WriterType, writerVars
<1>4. InviteType /\ UNCHANGED inviteVars => InviteType'
  BY DEF InviteType, inviteVars
<1>5. (AdmissionType /\ UNCHANGED admission => AdmissionType')
  BY DEF AdmissionType
<1>6. (StaffType /\ UNCHANGED staffVars => StaffType')
  BY DEF StaffType, staffVars
<1>7. QED
  BY <1>1, <1>2, <1>3, <1>4, <1>5, <1>6

\* Operations that touch no member and no writer.
LEMMA MemberFrame ==
  ASSUME IInv, UNCHANGED <<memberVars, writerVars, creator, memberCount>>
  PROVE  /\ MemberCountExact' /\ WriterSpeaksForOne' /\ WritersFollowMembers'
         /\ (closed' = closed \/ closed') /\ creator # None =>
              Records' /\ CreatorStays'
<1>1. UNCHANGED <<active, banned, role, writerOf, joined, owner, base, creator, memberCount>>
  BY DEF memberVars, writerVars
<1>2. MemberCountExact' /\ WriterSpeaksForOne'
  BY <1>1 DEF IInv, MemberCountExact, WriterSpeaksForOne
<1>3. WritersFollowMembers'
  BY <1>1 DEF IInv, WritersFollowMembers
<1>4. (closed' = closed \/ closed') /\ creator # None => Records' /\ CreatorStays'
  BY <1>1 DEF IInv, Records, CreatorStays
<1>5. QED
  BY <1>2, <1>3, <1>4

-----------------------------------------------------------------------------
(* One lemma per operation. *)

LEMMA RoomCreateIInv ==
  ASSUME IInv, seen' \in 0 .. MaxOps, NEW w \in Writers, NEW t \in Times,
         NEW u \in Users, NEW n \in Names, RoomCreate(w, t, u, n)
  PROVE  IInv'
<1> USE Constants
<1>1. TypeOK'
  <2>1. RoomType'
    BY DEF IInv, TypeOK, RoomType, RoomCreate
  <2>2. MemberType'
    BY DEF IInv, TypeOK, MemberType, RoomCreate, Times, Roles
  <2>3. WriterType'
    BY DEF IInv, TypeOK, WriterType, RoomCreate
  <2>4. InviteType' /\ AdmissionType' /\ StaffType'
    BY DEF IInv, TypeOK, InviteType, AdmissionType, StaffType, RoomCreate, inviteVars, staffVars
  <2>5. QED
    BY <2>1, <2>2, <2>3, <2>4 DEF TypeOK
<1>2. active = {} /\ banned = {} /\ \A v \in Users : role[v] = "none" /\ writerOf[v] = None
  BY DEF IInv, TypeOK, MemberType, Records, RoomCreate
<1>3. Records'
  BY <1>2 DEF IInv, TypeOK, MemberType, RoomType, Records, RoomCreate
<1>4. MemberCountExact'
  <2>1. active' = {u}
    BY <1>2 DEF RoomCreate
  <2>2. QED
    BY <2>1, FS_Singleton DEF RoomCreate, MemberCountExact
<1>5. OneLiveInvite'
  BY InviteFrame DEF IInv, RoomCreate, inviteVars
<1>6. \A v \in Writers : owner[v] = None
  BY <1>2 DEF IInv, TypeOK, WriterType, WriterSpeaksForOne
<1>7. WriterSpeaksForOne'
  BY <1>2, <1>6 DEF IInv, TypeOK, MemberType, WriterType, WriterSpeaksForOne, RoomCreate
<1>8. WritersFollowMembers'
  BY <1>2 DEF IInv, TypeOK, MemberType, WriterType, Records, WritersFollowMembers, RoomCreate
<1>9. CreatorStays'
  BY <1>2 DEF IInv, TypeOK, MemberType, CreatorStays, RoomCreate
<1>10. QED
  BY <1>1, <1>3, <1>4, <1>5, <1>7, <1>8, <1>9 DEF IInv

LEMMA RoomRenameIInv ==
  ASSUME IInv, seen' \in 0 .. MaxOps, NEW w, NEW t, NEW n \in Names,
         Authorised(w, t), RoomRename(w, n)
  PROVE  IInv'
<1>1. TypeOK'
  <2>1. RoomType'
    BY DEF IInv, TypeOK, RoomType, RoomRename
  <2>2. QED
    BY <2>1, TypeFrame DEF IInv, TypeOK, RoomRename
<1>2. OneLiveInvite'
  BY InviteFrame DEF IInv, RoomRename, inviteVars
<1>3. QED
  BY <1>1, <1>2, MemberFrame DEF IInv, RoomRename, Authorised

LEMMA RoomCloseIInv ==
  ASSUME IInv, seen' \in 0 .. MaxOps, NEW w, NEW t, Authorised(w, t), RoomClose(w)
  PROVE  IInv'
<1>1. TypeOK'
  <2>1. RoomType'
    BY DEF IInv, TypeOK, RoomType, RoomClose
  <2>2. InviteType'
    BY DEF IInv, TypeOK, RoomType, InviteType, RoomClose, RevokeActive
  <2>3. QED
    BY <2>1, <2>2, TypeFrame DEF IInv, TypeOK, RoomClose
<1>2. OneLiveInvite'
  BY Constants DEF IInv, TypeOK, RoomType, InviteType, OneLiveInvite, Live, RoomClose, RevokeActive
<1>3. QED
  BY <1>1, <1>2, MemberFrame DEF IInv, RoomClose, Authorised

LEMMA InviteCreateIInv ==
  ASSUME IInv, seen' \in 0 .. MaxOps, NEW w, NEW t \in Times, NEW i \in Invites,
         NEW expiry \in Expiries, NEW preview,
         Authorised(w, t), InviteCreate(w, t, i, expiry, preview)
  PROVE  IInv'
<1>1. TypeOK'
  <2>1. RoomType'
    BY DEF IInv, TypeOK, RoomType, InviteCreate
  <2>2. InviteType'
    BY Constants DEF IInv, TypeOK, RoomType, InviteType, InviteCreate, RevokeActive,
                     Expiries, Never
  <2>3. QED
    BY <2>1, <2>2, TypeFrame DEF IInv, TypeOK, InviteCreate
<1>2. OneLiveInvite'
  BY Constants DEF IInv, TypeOK, RoomType, InviteType, OneLiveInvite, Live, InviteCreate,
                   RevokeActive, CreatorActs
<1>3. QED
  BY <1>1, <1>2, MemberFrame DEF IInv, InviteCreate, Authorised

LEMMA InviteRevokeIInv ==
  ASSUME IInv, seen' \in 0 .. MaxOps, NEW w, NEW t, NEW i \in Invites,
         Authorised(w, t), InviteRevoke(w, i)
  PROVE  IInv'
<1>1. TypeOK'
  <2>1. RoomType'
    BY DEF IInv, TypeOK, RoomType, InviteRevoke
  <2>2. InviteType'
    BY DEF IInv, TypeOK, InviteType, InviteRevoke
  <2>3. QED
    BY <2>1, <2>2, TypeFrame DEF IInv, TypeOK, InviteRevoke
<1>2. OneLiveInvite'
  BY Constants DEF IInv, TypeOK, RoomType, InviteType, OneLiveInvite, Live, InviteRevoke
<1>3. QED
  BY <1>1, <1>2, MemberFrame DEF IInv, InviteRevoke, Authorised

-----------------------------------------------------------------------------
(* Admission: the writer mapping is where the invariant is delicate. *)

LEMMA AdmitIInv ==
  ASSUME IInv, seen' \in 0 .. MaxOps, NEW t \in Times, NEW r \in Requests,
         NEW i \in Invites, NEW u \in Users, NEW k \in Writers,
         NEW f \in active \cup {u}, creator # None,
         Admissible(t, r, i, u, k), Admit(t, r, i, u, k, f)
  PROVE  IInv'
<1> USE Constants
<1>1. TypeOK'
  <2>1. RoomType'
    BY DEF IInv, TypeOK, RoomType, Admissible, HasPlace, Admit, CountAfterEntry
  <2>2. f \in Users
    BY DEF IInv, TypeOK, MemberType
  <2>3. referral' \in SUBSET (Users \X Users)
    BY <2>2 DEF IInv, TypeOK, MemberType, Admit, AcceptedReferral
  <2>4. MemberType'
    BY <2>3 DEF IInv, TypeOK, MemberType, Admit, Times, Roles
  <2>5. WriterType'
    BY DEF IInv, TypeOK, WriterType, Admit, RotateOwner
  <2>6. InviteType'
    BY DEF IInv, TypeOK, InviteType, Admit
  <2>7. AdmissionType'
    BY DEF IInv, TypeOK, AdmissionType, Admit, AdmissionRecord, Admissions
  <2>8. StaffType'
    BY TypeFrame DEF IInv, TypeOK, Admit
  <2>9. QED
    BY <2>1, <2>4, <2>5, <2>6, <2>7, <2>8 DEF TypeOK
<1>2. Records'
  BY DEF IInv, TypeOK, MemberType, Records, Admissible, Admit
<1>3. MemberCountExact'
  BY UserSets DEF IInv, TypeOK, MemberType, MemberCountExact, Admit, CountAfterEntry
<1>4. OneLiveInvite'
  BY InviteFrame DEF IInv, Admit
<1>5. WriterSpeaksForOne'
  <2>1. ASSUME NEW v \in Users, writerOf'[v] # None
        PROVE  owner'[writerOf'[v]] = v
    BY <2>1 DEF IInv, TypeOK, MemberType, WriterType, WriterSpeaksForOne, Admissible, Admit,
                RotateOwner
  <2>2. ASSUME NEW x \in Writers, owner'[x] # None
        PROVE  writerOf'[owner'[x]] = x
    BY <2>2 DEF IInv, TypeOK, MemberType, WriterType, WriterSpeaksForOne, Admissible, Admit,
                RotateOwner
  <2>3. QED
    BY <2>1, <2>2 DEF WriterSpeaksForOne
<1>6. WritersFollowMembers'
  <2>1. creator \in active /\ creator' = creator
    BY DEF IInv, CreatorStays, Admissible, Admit
  <2>2. CASE u \in active
    <3>1. writerOf' = writerOf /\ active' = active /\ base' = base
      BY <2>2 DEF IInv, TypeOK, MemberType, Admissible, Admit
    <3>2. QED
      BY <2>1, <3>1 DEF IInv, WritersFollowMembers
  <2>3. CASE u \notin active
    <3>1. base = {writerOf[v] : v \in active}
      BY <2>1 DEF IInv, WritersFollowMembers
    <3>2. base' = {writerOf'[v] : v \in active \cup {u}}
      BY <2>3, <3>1 DEF IInv, TypeOK, MemberType, Admit
    <3>3. active \cup {u} = active' \cup {creator'}
      BY <2>1 DEF Admit
    <3>4. QED
      BY <3>2, <3>3 DEF WritersFollowMembers
  <2>4. QED
    BY <2>2, <2>3
<1>7. CreatorStays'
  BY DEF IInv, TypeOK, MemberType, CreatorStays, Admissible, Admit
<1>8. QED
  BY <1>1, <1>2, <1>3, <1>4, <1>5, <1>6, <1>7 DEF IInv

-----------------------------------------------------------------------------
(* Leaving and removal, by way of what both do to user u. *)

LEMMA DepartIInv ==
  ASSUME IInv, seen' \in 0 .. MaxOps, NEW u \in active,
         creator # None,
         IF u = creator THEN closed /\ base' = base ELSE base' = base \ {writerOf[u]},
         active' = active \ {u},
         banned' \in SUBSET Users, banned' \subseteq banned \cup {u},
         memberCount' = memberCount - 1,
         UNCHANGED <<creator, closed, name, activeInvite, role, writerOf, joinedAt,
                     joined, referral, owner, inviteVars, admission, staffVars>>
  PROVE  IInv'
<1> USE Constants
<1>0. u \in Users
  BY DEF IInv, TypeOK, MemberType
<1>1. MemberCountExact' /\ memberCount >= 1
  BY <1>0, UserSets DEF IInv, TypeOK, MemberType, MemberCountExact
<1>2. TypeOK'
  <2>1. RoomType'
    BY <1>1 DEF IInv, TypeOK, RoomType
  <2>2. MemberType'
    BY DEF IInv, TypeOK, MemberType
  <2>3. WriterType'
    BY DEF IInv, TypeOK, WriterType
  <2>4. QED
    BY <2>1, <2>2, <2>3, TypeFrame DEF IInv, TypeOK
<1>3. Records'
  BY <1>0 DEF IInv, Records
<1>4. OneLiveInvite'
  BY InviteFrame DEF IInv, inviteVars
<1>5. WriterSpeaksForOne'
  BY DEF IInv, WriterSpeaksForOne
<1>6. WritersFollowMembers'
  <2>1. CASE u = creator
    <3>1. active' \cup {creator'} = active \cup {creator}
      BY <2>1
    <3>2. QED
      BY <2>1, <3>1 DEF IInv, WritersFollowMembers
  <2>2. CASE u # creator
    <3>1. \A v \in Users : v # u /\ writerOf[v] # None => writerOf[v] # writerOf[u]
      BY <1>0 DEF IInv, Records, WriterSpeaksForOne
    <3>2. \A v \in active' \cup {creator} : v \in Users /\ v # u /\ writerOf[v] # None
      BY <2>2 DEF IInv, TypeOK, RoomType, MemberType, Records
    <3>3. active \cup {creator} = (active' \cup {creator}) \cup {u}
      BY <2>2
    <3>4. base = {writerOf[v] : v \in active \cup {creator}}
      BY DEF IInv, WritersFollowMembers
    <3>5. base' = {writerOf[v] : v \in active' \cup {creator}}
      BY <2>2, <3>1, <3>2, <3>3, <3>4
    <3>6. QED
      BY <3>5 DEF WritersFollowMembers
  <2>3. QED
    BY <2>1, <2>2
<1>7. CreatorStays'
  BY DEF IInv, CreatorStays
<1>8. QED
  BY <1>1, <1>2, <1>3, <1>4, <1>5, <1>6, <1>7 DEF IInv

LEMMA MemberRemoveIInv ==
  ASSUME IInv, seen' \in 0 .. MaxOps, NEW w, NEW t, NEW u \in Users,
         Authorised(w, t), MemberRemove(w, u)
  PROVE  IInv'
<1>1. creator # None /\ u # creator
  BY DEF IInv, CreatorStays, Authorised, MemberRemove, IsCreator
<1>2. banned' \in SUBSET Users
  BY DEF IInv, TypeOK, MemberType, MemberRemove
<1>3. QED
  BY <1>1, <1>2, DepartIInv DEF MemberRemove, WithoutWriter

LEMMA MemberLeaveIInv ==
  ASSUME IInv, seen' \in 0 .. MaxOps, NEW w \in Writers, NEW t,
         Authorised(w, t), MemberLeave(w)
  PROVE  IInv'
<1>1. creator # None /\ owner[w] \in active /\ owner[w] \in Users
  BY DEF IInv, TypeOK, MemberType, Authorised
<1>2. IsCreator(owner[w]) <=> owner[w] = creator
  BY <1>1 DEF IInv, CreatorStays, IsCreator
<1>3. banned' \in SUBSET Users /\ banned' \subseteq banned \cup {owner[w]}
  BY DEF IInv, TypeOK, MemberType, MemberLeave
<1>4. QED
  BY <1>1, <1>2, <1>3, DepartIInv DEF MemberLeave, WithoutWriter, MayLeave

-----------------------------------------------------------------------------
LEMMA MemberRoleIInv ==
  ASSUME IInv, seen' \in 0 .. MaxOps, NEW w, NEW t, NEW u \in Users,
         NEW newRole \in {"member", "moderator"}, Authorised(w, t), MemberRole(w, u, newRole)
  PROVE  IInv'
<1>1. UNCHANGED <<active, banned, writerOf, joinedAt, joined, referral, creator, closed>>
  BY DEF MemberRole, roomVars
<1>2. MemberType'
  BY <1>1 DEF IInv, TypeOK, MemberType, MemberRole, Roles
<1>3. TypeOK'
  BY <1>2, TypeFrame DEF IInv, TypeOK, MemberRole
<1>4. Records' /\ CreatorStays'
  BY <1>1, Constants DEF IInv, TypeOK, MemberType, WriterType, Records, CreatorStays, MemberRole,
                         IsCreator, Authorised, writerVars
<1>5. MemberCountExact' /\ WriterSpeaksForOne' /\ WritersFollowMembers'
  BY <1>1 DEF IInv, MemberCountExact, WriterSpeaksForOne, WritersFollowMembers, MemberRole,
              roomVars, writerVars
<1>6. OneLiveInvite'
  BY InviteFrame DEF IInv, MemberRole, roomVars, inviteVars
<1>7. QED
  BY <1>3, <1>4, <1>5, <1>6 DEF IInv

LEMMA StaffIInv ==
  ASSUME IInv, seen' \in 0 .. MaxOps, StaffType',
         UNCHANGED <<roomVars, memberVars, writerVars, inviteVars, admission>>
  PROVE  IInv'
<1>1. TypeOK'
  BY TypeFrame DEF IInv, TypeOK
<1>2. UNCHANGED <<creator, closed, memberCount, activeInvite, issued, revoked, active, banned,
                  role, writerOf, owner, base>>
  BY DEF roomVars, memberVars, writerVars, inviteVars
<1>3. Records' /\ CreatorStays' /\ MemberCountExact'
  BY <1>2 DEF IInv, Records, CreatorStays, MemberCountExact
<1>4. WriterSpeaksForOne' /\ WritersFollowMembers'
  BY <1>2 DEF IInv, WriterSpeaksForOne, WritersFollowMembers
<1>5. QED
  BY <1>1, <1>2, <1>3, <1>4, InviteFrame DEF IInv

LEMMA StaffOperationIInv ==
  ASSUME IInv, seen' \in 0 .. MaxOps, NEW w \in Writers, NEW t, Authorised(w, t),
         \/ \E key \in Keys : MemberKeyAgreement(w, key)
         \/ \E r \in Reports, wraps \in SUBSET (Users \X Keys) : ModerationReport(w, r, wraps)
  PROVE  IInv'
<1>1. CASE \E key \in Keys : MemberKeyAgreement(w, key)
  <2>1. StaffType'
    BY <1>1 DEF IInv, TypeOK, StaffType, MemberKeyAgreement
  <2>2. QED
    BY <1>1, <2>1, StaffIInv DEF MemberKeyAgreement
<1>2. CASE \E r \in Reports, wraps \in SUBSET (Users \X Keys) : ModerationReport(w, r, wraps)
  <2>1. StaffType'
    BY <1>2 DEF IInv, TypeOK, StaffType, ModerationReport
  <2>2. QED
    BY <1>2, <2>1, StaffIInv DEF ModerationReport
<1>3. QED
  BY <1>1, <1>2

-----------------------------------------------------------------------------
(* The step of applyRoomNodes. *)

LEMMA ActorOperationIInv ==
  ASSUME IInv, seen' \in 0 .. MaxOps, NEW w \in Writers, NEW t \in Times, ActorOperation(w, t)
  PROVE  IInv'
<1>1. Authorised(w, t) /\ creator # None
  BY DEF ActorOperation, Authorised
<1>2. CASE \E n \in Names : RoomRename(w, n)
  BY <1>1, <1>2, RoomRenameIInv
<1>3. CASE RoomClose(w)
  BY <1>1, <1>3, RoomCloseIInv
<1>4. CASE \E i \in Invites \ issued, expiry \in Expiries, n \in Names, count \in 1 .. MaxMembers :
             InviteCreate(w, t, i, expiry, <<n, count>>)
  BY <1>1, <1>4, InviteCreateIInv
<1>5. CASE \E i \in Invites : InviteRevoke(w, i)
  BY <1>1, <1>5, InviteRevokeIInv
<1>6. CASE \E r \in Requests, i \in Invites, u \in Users, k \in Writers :
             \E f \in active \cup {u} : MemberAdmit(t, r, i, u, k, f)
  BY <1>1, <1>6, AdmitIInv DEF MemberAdmit
<1>7. CASE \E u \in Users : MemberRemove(w, u)
  BY <1>1, <1>7, MemberRemoveIInv
<1>8. CASE MemberLeave(w)
  BY <1>1, <1>8, MemberLeaveIInv
<1>9. CASE \E u \in Users, newRole \in {"member", "moderator"} : MemberRole(w, u, newRole)
  BY <1>1, <1>9, MemberRoleIInv
<1>10. CASE \/ \E key \in Keys : MemberKeyAgreement(w, key)
            \/ \E r \in Reports, wraps \in SUBSET (Users \X Keys) : ModerationReport(w, r, wraps)
  BY <1>1, <1>10, StaffOperationIInv
<1>11. QED
  BY <1>2, <1>3, <1>4, <1>5, <1>6, <1>7, <1>8, <1>9, <1>10 DEF ActorOperation

LEMMA NextIInv == IInv /\ [Next]_vars => IInv'
<1>1. SUFFICES ASSUME IInv, [Next]_vars PROVE IInv'
  OBVIOUS
<1>2. CASE UNCHANGED vars
  <2>1. seen' \in 0 .. MaxOps /\ StaffType'
    BY <1>1, <1>2, TypeFrame DEF IInv, TypeOK, vars, view
  <2>2. QED
    BY <1>1, <1>2, <2>1, StaffIInv DEF vars, view
<1>3. ASSUME NEW id \in Ids, Unmarked(id), Mark(id),
             \/ \E w \in Writers, t \in Times : ActorOperation(w, t) \/ NewcomerOperation(w, t)
             \/ NoEffect
      PROVE  IInv'
  <2>1. seen' \in 0 .. MaxOps
    BY <1>3, Constants DEF Ids, Mark
  <2>2. CASE \E w \in Writers, t \in Times : ActorOperation(w, t)
    BY <1>1, <2>1, <2>2, ActorOperationIInv
  <2>3. CASE \E w \in Writers, t \in Times : NewcomerOperation(w, t)
    <3>1. PICK w \in Writers, t \in Times : NewcomerOperation(w, t)
      BY <2>3
    <3>2. CASE \E u \in Users, n \in Names : RoomCreate(w, t, u, n)
      BY <1>1, <2>1, <3>2, RoomCreateIInv
    <3>3. CASE \E s \in Users, r \in Requests, i \in Invites, u \in Users :
                 \E f \in active \cup {u} : MemberClaim(w, t, s, r, i, u, f)
      BY <1>1, <2>1, <3>3, AdmitIInv DEF MemberClaim
    <3>4. QED
      BY <3>1, <3>2, <3>3 DEF NewcomerOperation
  <2>4. CASE NoEffect
    <3>1. StaffType'
      BY <1>1, <2>4, TypeFrame DEF IInv, TypeOK, NoEffect, view
    <3>2. QED
      BY <1>1, <2>1, <2>4, <3>1, StaffIInv DEF NoEffect, view
  <2>5. QED
    BY <1>3, <2>2, <2>3, <2>4
<1>4. QED
  BY <1>1, <1>2, <1>3 DEF Next

-----------------------------------------------------------------------------
(* The theorems. *)

LEMMA Inductive == Spec => []IInv
<1>1. Init => IInv
  BY InitIInv
<1>2. IInv /\ [Next]_vars => IInv'
  BY NextIInv
<1>3. QED
  BY <1>1, <1>2, PTL DEF Spec

\* Every variable keeps its type; the member count stays between 0 and
\* MAX_ROOM_MEMBERS.
THEOREM TypeCorrect == Spec => []TypeOK
<1>1. IInv => TypeOK
  BY DEF IInv
<1>2. QED
  BY <1>1, Inductive, PTL

\* meta/room.memberCount is the number of active members and never exceeds the
\* room's capacity.
THEOREM MemberCountIsExact == Spec => [](MemberCountExact /\ WithinCapacity)
<1>1. IInv => MemberCountExact /\ WithinCapacity
  BY Constants DEF IInv, TypeOK, RoomType, MemberCountExact, WithinCapacity
<1>2. QED
  BY <1>1, Inductive, PTL

\* At most one invite admits, and none once the room is closed.
THEOREM InvitesAreSingle == Spec => []OneLiveInvite
<1>1. IInv => OneLiveInvite
  BY DEF IInv
<1>2. QED
  BY <1>1, Inductive, PTL

\* Writers and members correspond one to one, and the Autobase writer set is
\* exactly the writers of those who may write.
THEOREM WritersAreMembers == Spec => []WritersMatchMembers
<1>1. IInv => WritersMatchMembers
  BY DEF IInv, WritersMatchMembers
<1>2. QED
  BY <1>1, Inductive, PTL

\* No sequence of operations leaves an open room without its creator.
THEOREM CreatorIsKept == Spec => []CreatorStays
<1>1. IInv => CreatorStays
  BY DEF IInv
<1>2. QED
  BY <1>1, Inductive, PTL

-----------------------------------------------------------------------------
(* What a step never does. *)

\* What BannedStaysOut and EntryConsumesRequest say of a step.
BannedKeptOut == \A u \in banned : u \in banned' /\ u \notin active'
EntrantsWereAdmitted ==
  \A u \in active' \ active :
    u # creator' => \E r \in Requests : admission[r] = NoAdmission /\ admission'[r].user = u

\* Both ways into the room: nobody barred enters, and the request is used up.
LEMMA AdmitStep ==
  ASSUME IInv, NEW t \in Times, NEW r \in Requests, NEW i \in Invites, NEW u \in Users,
         NEW k \in Writers, NEW f, Admissible(t, r, i, u, k), Admit(t, r, i, u, k, f)
  PROVE  BannedKeptOut /\ EntrantsWereAdmitted
<1>1. active' = active \cup {u} /\ banned' = banned \ {u} /\ u \notin banned
  BY DEF Admissible, Admit, Barred
<1>2. BannedKeptOut
  BY <1>1 DEF IInv, Records, BannedKeptOut
<1>3. admission[r] = NoAdmission /\ admission' = [admission EXCEPT ![r] = AdmissionRecord(i, u, k)]
  BY DEF Admissible, Admit, FreshRequest
<1>4. admission'[r].user = u
  BY <1>3 DEF IInv, TypeOK, AdmissionType, AdmissionRecord
<1>5. QED
  BY <1>1, <1>2, <1>3, <1>4 DEF EntrantsWereAdmitted

\* Every other operation but room.create brings nobody in.
LEMMA OthersStep ==
  ASSUME IInv, active' \subseteq active, banned \subseteq banned'
  PROVE  BannedKeptOut /\ EntrantsWereAdmitted
BY DEF IInv, Records, BannedKeptOut, EntrantsWereAdmitted

LEMMA ActorStep ==
  ASSUME IInv, NEW w \in Writers, NEW t \in Times, ActorOperation(w, t)
  PROVE  BannedKeptOut /\ EntrantsWereAdmitted
<1>1. CASE \E r \in Requests, i \in Invites, u \in Users, k \in Writers :
             \E f \in active \cup {u} : MemberAdmit(t, r, i, u, k, f)
  BY <1>1, AdmitStep DEF MemberAdmit
<1>2. CASE \E u \in Users : MemberRemove(w, u)
  <2>1. active' \subseteq active /\ banned \subseteq banned'
    BY <1>2 DEF MemberRemove
  <2>2. QED
    BY <2>1, OthersStep
<1>3. CASE MemberLeave(w)
  <2>1. owner[w] \in active
    BY DEF ActorOperation, Authorised
  <2>2. active' \subseteq active /\ banned \subseteq banned'
    BY <1>3, <2>1 DEF MemberLeave, IInv, Records
  <2>3. QED
    BY <2>2, OthersStep
<1>4. ASSUME UNCHANGED <<active, banned>>
      PROVE  BannedKeptOut /\ EntrantsWereAdmitted
  BY <1>4, OthersStep
<1>5. CASE \/ \E n \in Names : RoomRename(w, n)
           \/ RoomClose(w)
           \/ \E i \in Invites \ issued, expiry \in Expiries, n \in Names, count \in 1 .. MaxMembers :
                InviteCreate(w, t, i, expiry, <<n, count>>)
           \/ \E i \in Invites : InviteRevoke(w, i)
  <2>1. UNCHANGED memberVars
    BY <1>5 DEF RoomRename, RoomClose, InviteCreate, InviteRevoke
  <2>2. QED
    BY <1>4, <2>1 DEF memberVars
<1>6. CASE \/ \E u \in Users, newRole \in {"member", "moderator"} : MemberRole(w, u, newRole)
           \/ \E key \in Keys : MemberKeyAgreement(w, key)
           \/ \E r \in Reports, wraps \in SUBSET (Users \X Keys) : ModerationReport(w, r, wraps)
  <2>1. UNCHANGED <<active, banned>>
    BY <1>6 DEF MemberRole, MemberKeyAgreement, ModerationReport, memberVars
  <2>2. QED
    BY <1>4, <2>1
<1>7. QED
  BY <1>1, <1>2, <1>3, <1>5, <1>6 DEF ActorOperation

LEMMA NewcomerStep ==
  ASSUME IInv, NEW w \in Writers, NEW t \in Times, NewcomerOperation(w, t)
  PROVE  BannedKeptOut /\ EntrantsWereAdmitted
<1>1. CASE \E u \in Users, n \in Names : RoomCreate(w, t, u, n)
  <2>1. PICK u \in Users, n \in Names : RoomCreate(w, t, u, n)
    BY <1>1
  <2>2. banned = {}
    <3>1. creator = None /\ banned \subseteq Users
      BY <2>1 DEF RoomCreate, IInv, TypeOK, MemberType
    <3>2. QED
      BY <3>1 DEF IInv, Records
  <2>3. active' = active \cup {u} /\ creator' = u
    BY <2>1 DEF RoomCreate
  <2>4. QED
    BY <2>2, <2>3 DEF BannedKeptOut, EntrantsWereAdmitted
<1>2. CASE \E s \in Users, r \in Requests, i \in Invites, u \in Users :
             \E f \in active \cup {u} : MemberClaim(w, t, s, r, i, u, f)
  BY <1>2, AdmitStep DEF MemberClaim
<1>3. QED
  BY <1>1, <1>2 DEF NewcomerOperation

LEMMA StepKeepsOut == IInv /\ Next => BannedKeptOut /\ EntrantsWereAdmitted
<1>1. SUFFICES ASSUME IInv, Next PROVE BannedKeptOut /\ EntrantsWereAdmitted
  OBVIOUS
<1>2. CASE \E w \in Writers, t \in Times : ActorOperation(w, t)
  BY <1>1, <1>2, ActorStep
<1>3. CASE \E w \in Writers, t \in Times : NewcomerOperation(w, t)
  BY <1>1, <1>3, NewcomerStep
<1>4. CASE NoEffect
  <2>1. UNCHANGED <<active, banned>>
    BY <1>4 DEF NoEffect, view, memberVars
  <2>2. QED
    BY <1>1, <2>1, OthersStep
<1>5. QED
  BY <1>1, <1>2, <1>3, <1>4 DEF Next

\* A removed member never gets back in, by any admission, claim or replay.
THEOREM RemovalIsFinal == Spec => BannedStaysOut
<1>1. IInv /\ [Next]_vars => [\A u \in banned : u \in banned' /\ u \notin active']_vars
  BY StepKeepsOut DEF BannedKeptOut
<1>2. QED
  BY <1>1, Inductive, PTL DEF Spec, BannedStaysOut

\* Whoever becomes a member uses up a pairing request that had admitted nobody.
THEOREM EntriesConsumeRequests == Spec => EntryConsumesRequest
<1>1. IInv /\ [Next]_vars =>
        [\A u \in active' \ active :
           u # creator' =>
             \E r \in Requests : /\ admission[r] = NoAdmission
                                 /\ admission'[r].user = u]_vars
  BY StepKeepsOut DEF EntrantsWereAdmitted
<1>2. QED
  BY <1>1, Inductive, PTL DEF Spec, EntryConsumesRequest

\* Nobody enters past the checks of an admission.
THEOREM EntriesAreRegular == Spec => EntryIsRegular
  BY RemovalIsFinal, EntriesConsumeRequests DEF EntryIsRegular

-----------------------------------------------------------------------------
(* What the room's records say of the past. *)

\* What carries the records of joins and referrals: whoever is a member, has
\* joined, and so have both ends of a referral; an invite that was never
\* issued counts nobody.
Trail ==
  /\ active \subseteq joined
  /\ referral \subseteq joined \X joined
  /\ \A i \in Invites \ issued : inviteUse[i] = {}
  /\ JoinsTraceBack
  /\ ReportStaysReadable

LEMMA InitTrail == Init => Trail
<1>1. SUFFICES ASSUME Init PROVE Trail
  OBVIOUS
<1>2. EachJoinOnOneInvite
  BY <1>1, FS_EmptySet DEF Init, EachJoinOnOneInvite
<1>3. ReferralForest /\ WriterWasAdmitted
  BY <1>1 DEF Init, ReferralForest, WriterWasAdmitted
<1>4. QED
  BY <1>1, <1>2, <1>3 DEF Init, Trail, JoinsTraceBack, ReportStaysReadable

\* Operations that record no join, whoever leaves.
LEMMA TrailFrame ==
  ASSUME Trail, active' \subseteq active, issued \subseteq issued', ReportStaysReadable',
         UNCHANGED <<creator, writerOf, joined, referral, useCount, inviteUse, admission>>
  PROVE  Trail'
<1>1. EachJoinOnOneInvite'
  BY DEF Trail, JoinsTraceBack, EachJoinOnOneInvite
<1>2. ReferralForest'
  BY DEF Trail, JoinsTraceBack, ReferralForest
<1>3. WriterWasAdmitted'
  BY DEF Trail, JoinsTraceBack, WriterWasAdmitted
<1>4. QED
  BY <1>1, <1>2, <1>3 DEF Trail, JoinsTraceBack

LEMMA ReportFrame ==
  ReportStaysReadable /\ UNCHANGED staffVars => ReportStaysReadable'
BY DEF ReportStaysReadable, staffVars

LEMMA RoomCreateTrail ==
  ASSUME IInv, Trail, NEW w \in Writers, NEW t \in Times, NEW u \in Users, NEW n \in Names,
         RoomCreate(w, t, u, n)
  PROVE  Trail'
<1>1. active = {} /\ u # None
  BY Constants DEF IInv, TypeOK, MemberType, Records, RoomCreate
<1>2. EachJoinOnOneInvite'
  <2>1. /\ joined' = joined \cup {u} /\ creator = None /\ creator' = u
        /\ useCount' = useCount /\ inviteUse' = inviteUse
    BY DEF RoomCreate, inviteVars
  <2>2. joined' = (UNION {inviteUse'[i] : i \in Invites}) \cup ({creator'} \ {None})
    BY <1>1, <2>1 DEF Trail, JoinsTraceBack, EachJoinOnOneInvite
  <2>3. QED
    BY <2>1, <2>2 DEF Trail, JoinsTraceBack, EachJoinOnOneInvite
<1>3. ReferralForest'
  BY DEF Trail, JoinsTraceBack, ReferralForest, RoomCreate
<1>4. WriterWasAdmitted'
  BY <1>1 DEF WriterWasAdmitted, RoomCreate
<1>5. QED
  BY <1>2, <1>3, <1>4, ReportFrame DEF Trail, JoinsTraceBack, RoomCreate, inviteVars

\* A new invite counts nobody.
LEMMA InviteCreateTrail ==
  ASSUME IInv, Trail, NEW w, NEW t \in Times, NEW i \in Invites \ issued, NEW expiry, NEW preview,
         InviteCreate(w, t, i, expiry, preview)
  PROVE  Trail'
<1>1. useCount' = useCount
  <2>1. useCount[i] = 0
    BY FS_EmptySet DEF Trail, JoinsTraceBack, EachJoinOnOneInvite
  <2>2. QED
    BY <2>1 DEF InviteCreate, IInv, TypeOK, InviteType
<1>2. QED
  BY <1>1, TrailFrame, ReportFrame DEF InviteCreate, memberVars, Trail

\* A first join is counted on the invite that admits, and its referral is a leaf.
LEMMA AdmitTrail ==
  ASSUME IInv, Trail, NEW t \in Times, NEW r \in Requests, NEW i \in Invites, NEW u \in Users,
         NEW k \in Writers, NEW f, Admissible(t, r, i, u, k), Admit(t, r, i, u, k, f)
  PROVE  Trail'
<1>1. active' = active \cup {u} /\ joined' = joined \cup {u} /\ creator' = creator
  BY DEF Admit
<1>2. referral' \subseteq joined' \X joined' /\ (u \in joined => referral' = referral)
  BY <1>1 DEF Trail, Admit, AcceptedReferral, FirstJoin
<1>3. EachJoinOnOneInvite'
  <2>1. CASE u \in joined
    <3>1. joined' = joined /\ inviteUse' = inviteUse /\ useCount' = useCount
      BY <1>1, <2>1 DEF Admit, FirstJoin
    <3>2. QED
      BY <1>1, <3>1 DEF Trail, JoinsTraceBack, EachJoinOnOneInvite
  <2>2. CASE u \notin joined
    <3>1. /\ inviteUse' = [inviteUse EXCEPT ![i] = @ \cup {u}]
          /\ useCount' = [useCount EXCEPT ![i] = @ + 1]
      BY <2>2 DEF Admit, FirstJoin
    <3>2. \A j \in Invites : u \notin inviteUse[j]
      BY <2>2 DEF Trail, JoinsTraceBack, EachJoinOnOneInvite
    <3>3. inviteUse \in [Invites -> SUBSET Users] /\ useCount \in [Invites -> Nat]
      BY DEF IInv, TypeOK, InviteType
    <3>4. \A j \in Invites : inviteUse'[j] = IF j = i THEN inviteUse[j] \cup {u} ELSE inviteUse[j]
      BY <3>1, <3>3
    <3>5. \A j \in Invites : useCount'[j] = Cardinality(inviteUse'[j])
      <4>1. ASSUME NEW j \in Invites PROVE useCount'[j] = Cardinality(inviteUse'[j])
        <5>1. useCount[j] = Cardinality(inviteUse[j])
          BY DEF Trail, JoinsTraceBack, EachJoinOnOneInvite
        <5>2. Cardinality(inviteUse[j] \cup {u}) = Cardinality(inviteUse[j]) + 1
          BY <3>2, <3>3, UserSets
        <5>3. QED
          BY <3>1, <3>3, <3>4, <5>1, <5>2
      <4>2. QED
        BY <4>1
    <3>6. ASSUME NEW j \in Invites, NEW l \in Invites, j # l
          PROVE  inviteUse'[j] \cap inviteUse'[l] = {}
      <4>1. inviteUse[j] \cap inviteUse[l] = {} /\ u \notin inviteUse[j] /\ u \notin inviteUse[l]
        BY <3>2, <3>6 DEF Trail, JoinsTraceBack, EachJoinOnOneInvite
      <4>2. QED
        BY <3>4, <3>6, <4>1
    <3>7. (UNION {inviteUse'[j] : j \in Invites}) = (UNION {inviteUse[j] : j \in Invites}) \cup {u}
      BY <3>4
    <3>8. joined' = (UNION {inviteUse'[j] : j \in Invites}) \cup ({creator'} \ {None})
      BY <1>1, <3>7 DEF Trail, JoinsTraceBack, EachJoinOnOneInvite
    <3>9. QED
      BY <3>5, <3>6, <3>8 DEF EachJoinOnOneInvite
  <2>3. QED
    BY <2>1, <2>2
<1>4. ReferralForest'
  <2>1. CASE referral' = referral
    BY <2>1 DEF Trail, JoinsTraceBack, ReferralForest
  <2>2. CASE referral' # referral
    <3>1. u \notin joined /\ f # u /\ referral' = referral \cup {<<f, u>>}
      BY <2>2 DEF Admit, FirstJoin, AcceptedReferral
    <3>2. \A p \in referral : p[1] # u /\ p[2] # u
      BY <3>1 DEF Trail
    <3>3. \A p, q \in referral' : p[2] = q[2] => p = q
      BY <3>1, <3>2 DEF Trail, JoinsTraceBack, ReferralForest
    <3>4. ASSUME NEW S \in (SUBSET Users) \ {{}}
          PROVE  \E v \in S : \A g \in S : <<g, v>> \notin referral'
      <4>1. CASE S \ {u} = {}
        <5>1. u \in S /\ \A g \in S : g = u
          BY <4>1
        <5>2. <<u, u>> \notin referral'
          BY <3>1, <3>2
        <5>3. QED
          BY <5>1, <5>2
      <4>2. CASE S \ {u} # {}
        <5>1. PICK v \in S \ {u} : \A g \in S \ {u} : <<g, v>> \notin referral
          BY <4>2 DEF Trail, JoinsTraceBack, ReferralForest
        <5>2. <<u, v>> \notin referral
          BY <3>2
        <5>3. QED
          BY <3>1, <5>1, <5>2
      <4>3. QED
        BY <4>1, <4>2
    <3>5. QED
      BY <3>3, <3>4 DEF ReferralForest
  <2>3. QED
    BY <2>1, <2>2
<1>5. WriterWasAdmitted'
  <2>1. admission[r] = NoAdmission /\ admission' = [admission EXCEPT ![r] = AdmissionRecord(i, u, k)]
    BY DEF Admissible, Admit, FreshRequest
  <2>2. writerOf' = [writerOf EXCEPT ![u] = k]
    BY DEF Admit
  <2>3. admission'[r].user = u /\ admission'[r].writer = k /\ writerOf'[u] = k
    BY <2>1, <2>2 DEF IInv, TypeOK, AdmissionType, MemberType, AdmissionRecord
  <2>4. ASSUME NEW v \in active' \ {creator'}
        PROVE  \E q \in Requests : admission'[q].user = v /\ admission'[q].writer = writerOf'[v]
    <3>1. CASE v = u
      BY <2>3, <3>1
    <3>2. CASE v # u
      <4>1. v \in active \ {creator} /\ v \in Users
        BY <1>1, <3>2 DEF IInv, TypeOK, MemberType
      <4>2. PICK q \in Requests : admission[q].user = v /\ admission[q].writer = writerOf[v]
        BY <4>1 DEF Trail, JoinsTraceBack, WriterWasAdmitted
      <4>3. q # r
        BY <2>1, <4>1, <4>2, Constants DEF NoAdmission
      <4>4. admission'[q] = admission[q] /\ writerOf'[v] = writerOf[v]
        BY <2>1, <2>2, <3>2, <4>1, <4>3 DEF IInv, TypeOK, AdmissionType, MemberType
      <4>5. QED
        BY <4>2, <4>4
    <3>3. QED
      BY <3>1, <3>2
  <2>5. QED
    BY <2>4 DEF WriterWasAdmitted
<1>6. \A j \in Invites \ issued' : inviteUse'[j] = {}
  BY DEF Trail, IInv, TypeOK, InviteType, Admissible, Admit
<1>7. ReportStaysReadable'
  BY ReportFrame DEF Trail, Admit
<1>8. active' \subseteq joined'
  BY <1>1 DEF Trail
<1>9. QED
  BY <1>2, <1>3, <1>4, <1>5, <1>6, <1>7, <1>8 DEF Trail, JoinsTraceBack

\* Keys are never replaced, and a report is wrapped for the keys there are.
LEMMA StaffTrail ==
  ASSUME IInv, Trail, NEW w \in Writers, NEW t, Authorised(w, t),
         \/ \E key \in Keys : MemberKeyAgreement(w, key)
         \/ \E r \in Reports, wraps \in SUBSET (Users \X Keys) : ModerationReport(w, r, wraps)
  PROVE  Trail'
<1> USE Constants
<1>1. keyOf \in [Users -> Keys \cup {None}] /\ report \in [Reports -> SUBSET (Users \X Keys)]
  BY DEF IInv, TypeOK, StaffType
<1>2. CASE \E key \in Keys : MemberKeyAgreement(w, key)
  <2>1. \A v \in Users : keyOf[v] # None => keyOf'[v] = keyOf[v]
    BY <1>1, <1>2 DEF MemberKeyAgreement, KeyAccepted
  <2>2. ReportStaysReadable'
    BY <1>1, <1>2, <2>1 DEF Trail, ReportStaysReadable, MemberKeyAgreement
  <2>3. QED
    BY <1>2, <2>2, TrailFrame DEF MemberKeyAgreement, roomVars, memberVars, inviteVars
<1>3. CASE \E r \in Reports, wraps \in SUBSET (Users \X Keys) : ModerationReport(w, r, wraps)
  <2>1. PICK r \in Reports, wraps \in SUBSET (Users \X Keys) : ModerationReport(w, r, wraps)
    BY <1>3
  <2>2. \A wrap \in wraps : keyOf[wrap[1]] = wrap[2]
    BY <2>1 DEF ModerationReport, ReportRecipients
  <2>3. report' = [report EXCEPT ![r] = wraps] /\ keyOf' = keyOf
    BY <2>1 DEF ModerationReport
  <2>4. ReportStaysReadable'
    BY <1>1, <2>2, <2>3 DEF Trail, ReportStaysReadable
  <2>5. QED
    BY <2>1, <2>4, TrailFrame DEF ModerationReport, roomVars, memberVars, inviteVars
<1>4. QED
  BY <1>2, <1>3

\* The other operations of a member record nothing of the kind.
LEMMA OthersTrail ==
  ASSUME IInv, Trail, NEW w \in Writers, NEW t \in Times,
         \/ \E n \in Names : RoomRename(w, n)
         \/ RoomClose(w)
         \/ \E i \in Invites : InviteRevoke(w, i)
         \/ \E u \in Users : MemberRemove(w, u)
         \/ MemberLeave(w)
         \/ \E u \in Users, newRole \in {"member", "moderator"} : MemberRole(w, u, newRole)
  PROVE  Trail'
<1>1. /\ active' \subseteq active /\ UNCHANGED issued
      /\ UNCHANGED <<creator, writerOf, joined, referral, useCount, inviteUse, admission, staffVars>>
  BY DEF RoomRename, RoomClose, InviteRevoke, MemberRemove, MemberLeave, MemberRole,
         roomVars, memberVars, inviteVars
<1>2. QED
  BY <1>1, TrailFrame, ReportFrame DEF Trail

LEMMA NextTrail == IInv /\ Trail /\ [Next]_vars => Trail'
<1>1. SUFFICES ASSUME IInv, Trail, [Next]_vars PROVE Trail'
  OBVIOUS
<1>2. CASE UNCHANGED view
  BY <1>1, <1>2, TrailFrame, ReportFrame DEF view, roomVars, memberVars, inviteVars, Trail
<1>3. ASSUME NEW w \in Writers, NEW t \in Times, ActorOperation(w, t) PROVE Trail'
  <2>1. Authorised(w, t)
    BY <1>3 DEF ActorOperation
  <2>2. CASE \E i \in Invites \ issued, expiry \in Expiries, n \in Names, count \in 1 .. MaxMembers :
               InviteCreate(w, t, i, expiry, <<n, count>>)
    BY <1>1, <2>2, InviteCreateTrail
  <2>3. CASE \E r \in Requests, i \in Invites, u \in Users, k \in Writers :
               \E f \in active \cup {u} : MemberAdmit(t, r, i, u, k, f)
    BY <1>1, <2>3, AdmitTrail DEF MemberAdmit
  <2>4. CASE \/ \E key \in Keys : MemberKeyAgreement(w, key)
             \/ \E r \in Reports, wraps \in SUBSET (Users \X Keys) : ModerationReport(w, r, wraps)
    BY <1>1, <2>1, <2>4, StaffTrail
  <2>5. QED
    BY <1>1, <1>3, <2>2, <2>3, <2>4, OthersTrail DEF ActorOperation
<1>4. ASSUME NEW w \in Writers, NEW t \in Times, NewcomerOperation(w, t) PROVE Trail'
  <2>1. CASE \E u \in Users, n \in Names : RoomCreate(w, t, u, n)
    BY <1>1, <2>1, RoomCreateTrail
  <2>2. CASE \E s \in Users, r \in Requests, i \in Invites, u \in Users :
               \E f \in active \cup {u} : MemberClaim(w, t, s, r, i, u, f)
    BY <1>1, <2>2, AdmitTrail DEF MemberClaim
  <2>3. QED
    BY <1>4, <2>1, <2>2 DEF NewcomerOperation
<1>5. QED
  BY <1>1, <1>2, <1>3, <1>4 DEF Next, NoEffect, vars

LEMMA TrailHolds == Spec => []Trail
<1>1. Init => Trail
  BY InitTrail
<1>2. IInv /\ Trail /\ [Next]_vars => Trail'
  BY NextTrail
<1>3. QED
  BY <1>1, <1>2, Inductive, PTL DEF Spec

\* Each join is counted on one invite and once, referrals never form a ring, and
\* the writer that a member has was admitted.
THEOREM JoinsAreTraceable == Spec => []JoinsTraceBack
<1>1. Trail => JoinsTraceBack
  BY DEF Trail
<1>2. QED
  BY <1>1, TrailHolds, PTL

\* The keys that a stored report was wrapped for stay the keys of their users.
THEOREM ReportsStayReadable == Spec => []ReportStaysReadable
<1>1. Trail => ReportStaysReadable
  BY DEF Trail
<1>2. QED
  BY <1>1, TrailHolds, PTL
=============================================================================
