------------------------- MODULE RoomTimelineProofs -------------------------
(***************************************************************************)
(* Theorems about RoomTimeline, for every set of users, writers, items,    *)
(* polls and media, every slow mode and every bound.                       *)
(***************************************************************************)
EXTENDS RoomTimeline, RoomMembershipProofs

\* The records of u of some kinds, and the replies to an item.
OfUser(u, kinds) == {e \in placed : e.author = u /\ e.kind \in kinds}
RepliesTo(id) == {e \in placed : e.kind = "reply" /\ e.ref = id}

Shapes ==
  /\ seen \in Nat
  /\ active \subseteq Users /\ owner \in [Writers -> Users \cup {None}]
  /\ slowMode \in Nat /\ lastPostAt \in [Users -> 0 .. MaxTime]
  /\ replyCount \in [Targets -> Nat]
  /\ votes \subseteq Polls \X Users \X Options
  /\ mediaCore \in [Users -> Cores \cup {None}]
  /\ \A e \in placed : /\ e.at \in Times /\ e.author \in Users
                       /\ e.kind \in Posts \cup Notices \cup {"answer"}
                       /\ e.kind \in Notices => e.id \in 1 .. seen
                       /\ e.file # None => e.kind = "text" /\ e.file \in Attachments

\* An item id names one message, poll or notice.
OneItemEach ==
  \A e, f \in placed :
    e.kind \notin {"reply", "answer"} /\ f.kind \notin {"reply", "answer"} /\ e.id = f.id => e = f

\* Sequence numbers without a gap or a repetition.
Dense ==
  /\ sequence \in Nat /\ IsFiniteSet(placed)
  /\ {e.seq : e \in placed} = 1 .. sequence
  /\ Cardinality(placed) = sequence

RepliesCounted == \A id \in Targets : replyCount[id] = Cardinality(RepliesTo(id))

Entries == {"created", "joined"}
Departures == {"removed", "left"}
Accounted ==
  \A u \in Users :
    Cardinality(OfUser(u, Entries)) - Cardinality(OfUser(u, Departures)) - (IF u \in active THEN 1 ELSE 0)
      \in -Cardinality(NoticesTaken) .. Cardinality(NoticesTaken)

\* What member/<id>.lastPostAt remembers.
LatestPost(p, S) ==
  p.kind \in Posts /\ \A q \in S : q.kind \in Posts /\ q.author = p.author => q.seq <= p.seq
LastPosts == \A p \in placed : LatestPost(p, placed) => lastPostAt[p.author] = p.at

\* The inductive invariant.
CInv ==
  /\ Shapes /\ Dense /\ OneItemEach /\ RepliesCounted /\ Accounted
  /\ LastPosts /\ RefersBack /\ OneChoiceEach

-----------------------------------------------------------------------------
(* The room as it starts. *)

LEMMA StartIsDense ==
  ASSUME TimelineInit
  PROVE  Dense /\ OneItemEach /\ Accounted /\ RepliesCounted /\ seen \in Nat
         /\ active = Users /\ owner \in [Writers -> Users \cup {None}]
         /\ \A e \in placed : /\ e.kind \in Entries /\ e.author \in Users /\ e.at = 1
                              /\ e.id \in 1 .. seen /\ e.ref = None /\ e.file = None
<1>1. PICK c \in Users, i \in Invites, bind \in Injection(Users, Writers) :
             \E request \in Injection(Users \ {c}, Requests) : Started(c, i, bind, request)
  BY DEF TimelineInit
<1>2. PICK request \in Injection(Users \ {c}, Requests) : Started(c, i, bind, request)
  BY <1>1
<1> DEFINE n == Cardinality(Users)
<1>3. PICK order \in {f \in Bijection(Users, 1 .. n) : f[c] = 1} :
             placed = {Record(order[u], IF u = c THEN "created" ELSE "joined",
                              IF u = c THEN 1 ELSE order[u] + 1, u, 1, None, None) : u \in Users}
  BY <1>2 DEF Started
<1>4. sequence = n /\ seen = n + 1 /\ active = Users /\ IsFiniteSet(Users) /\ n \in Nat
  BY <1>2, FiniteAssumption, FS_CardinalityType DEF Started
<1>5. order \in [Users -> 1 .. n] /\ order \in Bijection(Users, 1 .. n)
  BY <1>3 DEF Bijection, Injection
<1>6. /\ \A u, v \in Users : order[u] = order[v] => u = v
      /\ \A k \in 1 .. n : \E u \in Users : order[u] = k
  BY <1>5 DEF Bijection, Injection, Surjection, IsInjective
<1> HIDE DEF n
<1> DEFINE R(u) == Record(order[u], IF u = c THEN "created" ELSE "joined",
                          IF u = c THEN 1 ELSE order[u] + 1, u, 1, None, None)
<1>7. placed = {R(u) : u \in Users}
  BY <1>3
<1>8. \A u \in Users : /\ R(u).seq = order[u] /\ R(u).author = u /\ R(u).at = 1
                       /\ R(u).kind \in Entries /\ R(u).ref = None /\ R(u).file = None
                       /\ R(u).id = IF u = c THEN 1 ELSE order[u] + 1
  BY DEF Record, Entries
<1> HIDE DEF R
<1>9. \A e \in placed : /\ e.kind \in Entries /\ e.author \in Users /\ e.at = 1
                        /\ e.id \in 1 .. seen /\ e.ref = None /\ e.file = None
  <2>1. \A u \in Users : R(u).id \in 1 .. n + 1
    BY <1>4, <1>5, <1>8
  <2>2. QED
    BY <1>4, <1>7, <1>8, <2>1
<1>10. Dense
  <2> DEFINE g == [u \in Users |-> R(u)]
  <2>1. g \in Bijection(Users, placed)
    <3>1. g \in [Users -> placed]
      BY <1>7
    <3>2. \A a, b \in Users : g[a] = g[b] => a = b
      BY <1>8
    <3>3. \A e \in placed : \E u \in Users : g[u] = e
      BY <1>7
    <3>4. QED
      BY <3>1, <3>2, <3>3 DEF Bijection, Injection, Surjection, IsInjective
  <2>2. IsFiniteSet(placed) /\ Cardinality(placed) = n
    BY <1>4, <2>1, FS_Bijection DEF ExistsBijection, n
  <2>3. {e.seq : e \in placed} = 1 .. n
    <3>1. \A e \in placed : e.seq \in 1 .. n
      BY <1>5, <1>7, <1>8
    <3>2. \A k \in 1 .. n : \E e \in placed : e.seq = k
      BY <1>6, <1>7, <1>8
    <3>3. QED
      BY <3>1, <3>2
  <2>4. QED
    BY <1>4, <2>2, <2>3 DEF Dense, n
<1>11. Accounted
  <2>0. Cardinality(NoticesTaken) \in Nat
    <3>1. NoticesTaken \in SUBSET placed /\ IsFiniteSet(placed)
      BY <1>10 DEF NoticesTaken, Items, Dense
    <3>2. QED
      BY <3>1, FS_Subset, FS_CardinalityType
  <2>1. SUFFICES ASSUME NEW u \in Users
                 PROVE  Cardinality(OfUser(u, Entries)) = 1 /\ Cardinality(OfUser(u, Departures)) = 0
    BY <1>4, <2>0 DEF Accounted
  <2>2. OfUser(u, Entries) = {R(u)}
    BY <1>7, <1>8, <2>1 DEF OfUser
  <2>3. OfUser(u, Departures) = {}
    BY <1>9 DEF OfUser, Entries, Departures
  <2>4. QED
    BY <2>2, <2>3, FS_Singleton, FS_EmptySet
<1>12. RepliesCounted
  <2>1. \A id \in Targets : RepliesTo(id) = {}
    BY <1>9 DEF RepliesTo, Entries
  <2>2. QED
    BY <2>1, FS_EmptySet DEF RepliesCounted, TimelineInit
<1>13. owner \in [Writers -> Users \cup {None}]
  BY <1>2 DEF Started
<1>14. OneItemEach
  <2>1. \A u, v \in Users : R(u).id = R(v).id => u = v
    BY <1>4, <1>5, <1>6, <1>8
  <2>2. QED
    BY <1>7, <2>1 DEF OneItemEach
<1>15. QED
  BY <1>4, <1>9, <1>10, <1>11, <1>12, <1>13, <1>14

LEMMA InitCInv == TimelineInit => CInv
<1>1. SUFFICES ASSUME TimelineInit PROVE CInv
  OBVIOUS
<1>2. /\ Dense /\ OneItemEach /\ Accounted /\ RepliesCounted /\ seen \in Nat
      /\ active = Users /\ owner \in [Writers -> Users \cup {None}]
      /\ \A e \in placed : /\ e.kind \in Entries /\ e.author \in Users /\ e.at = 1
                           /\ e.id \in 1 .. seen /\ e.ref = None /\ e.file = None
  BY <1>1, StartIsDense
<1>3. /\ slowMode = 0 /\ lastPostAt = [u \in Users |-> 0] /\ replyCount = [j \in Targets |-> 0]
      /\ votes = {} /\ mediaCore = [u \in Users |-> None]
  BY <1>1 DEF TimelineInit
<1>4. Shapes
  BY <1>2, <1>3, BoundAssumption DEF Shapes, Times, Entries, Notices
<1>5. LastPosts
  BY <1>2 DEF LastPosts, LatestPost, Posts, Entries
<1>6. RefersBack
  BY <1>2 DEF RefersBack, Entries
<1>7. OneChoiceEach
  BY <1>2, <1>3 DEF OneChoiceEach, Entries
<1>8. QED
  BY <1>2, <1>4, <1>5, <1>6, <1>7 DEF CInv

-----------------------------------------------------------------------------
(* A record that is placed. *)

\* The record is new, comes after all others and keeps the numbers dense.
LEMMA Placed ==
  ASSUME Dense, NEW kind, NEW id, NEW u, NEW t, NEW ref, NEW file, Place(kind, id, u, t, ref, file)
  PROVE  \E r : /\ r = Record(sequence + 1, kind, id, u, t, ref, file)
                /\ r.kind = kind /\ r.id = id /\ r.author = u /\ r.at = t /\ r.ref = ref /\ r.file = file
                /\ r.seq = sequence + 1 /\ sequence \in Nat
                /\ r \notin placed /\ placed' = placed \cup {r} /\ IsFiniteSet(placed)
                /\ \A e \in placed : e.seq \in Nat /\ e.seq <= sequence
                /\ Dense'
<1>1. PICK r : r = Record(sequence + 1, kind, id, u, t, ref, file)
  OBVIOUS
<1>2. /\ r.kind = kind /\ r.id = id /\ r.author = u /\ r.at = t /\ r.ref = ref /\ r.file = file
      /\ r.seq = sequence + 1
  BY <1>1 DEF Record
<1>3. /\ sequence \in Nat /\ IsFiniteSet(placed) /\ {e.seq : e \in placed} = 1 .. sequence
      /\ Cardinality(placed) = sequence
  BY DEF Dense
<1>4. \A e \in placed : e.seq \in Nat /\ e.seq <= sequence
  BY <1>3
<1>5. r \notin placed
  BY <1>2, <1>3, <1>4
<1>6. placed' = placed \cup {r} /\ sequence' = sequence + 1
  BY <1>1 DEF Place, NextSequence
<1>7. IsFiniteSet(placed') /\ Cardinality(placed') = sequence + 1
  BY <1>3, <1>5, <1>6, FS_AddElement
<1>8. {e.seq : e \in placed'} = 1 .. sequence + 1
  <2>1. {e.seq : e \in placed'} = {e.seq : e \in placed} \cup {r.seq}
    BY <1>6
  <2>2. QED
    BY <1>2, <1>3, <2>1
<1>9. Dense'
  BY <1>3, <1>6, <1>7, <1>8 DEF Dense
<1>10. QED
  BY <1>1, <1>2, <1>3, <1>4, <1>5, <1>6, <1>9

\* What one more record does to the counts.
LEMMA OneMoreOfUser ==
  ASSUME IsFiniteSet(placed), NEW r, r \notin placed, placed' = placed \cup {r}, NEW u, NEW kinds
  PROVE  /\ Cardinality(OfUser(u, kinds)) \in Nat
         /\ Cardinality(OfUser(u, kinds)') =
              Cardinality(OfUser(u, kinds)) + (IF r.author = u /\ r.kind \in kinds THEN 1 ELSE 0)
<1>1. OfUser(u, kinds) \in SUBSET placed /\ r \notin OfUser(u, kinds)
  BY DEF OfUser
<1>2. IsFiniteSet(OfUser(u, kinds)) /\ Cardinality(OfUser(u, kinds)) \in Nat
  BY <1>1, FS_Subset, FS_CardinalityType
<1>3. OfUser(u, kinds)' = IF r.author = u /\ r.kind \in kinds THEN OfUser(u, kinds) \cup {r} ELSE OfUser(u, kinds)
  BY DEF OfUser
<1>4. Cardinality(OfUser(u, kinds) \cup {r}) = Cardinality(OfUser(u, kinds)) + 1
  BY <1>1, <1>2, FS_AddElement
<1>5. QED
  BY <1>2, <1>3, <1>4

LEMMA OneMoreReplyTo ==
  ASSUME IsFiniteSet(placed), NEW r, r \notin placed, placed' = placed \cup {r}, NEW id
  PROVE  /\ Cardinality(RepliesTo(id)) \in Nat
         /\ Cardinality(RepliesTo(id)') =
              Cardinality(RepliesTo(id)) + (IF r.kind = "reply" /\ r.ref = id THEN 1 ELSE 0)
<1>1. RepliesTo(id) \in SUBSET placed /\ r \notin RepliesTo(id)
  BY DEF RepliesTo
<1>2. IsFiniteSet(RepliesTo(id)) /\ Cardinality(RepliesTo(id)) \in Nat
  BY <1>1, FS_Subset, FS_CardinalityType
<1>3. RepliesTo(id)' = IF r.kind = "reply" /\ r.ref = id THEN RepliesTo(id) \cup {r} ELSE RepliesTo(id)
  BY DEF RepliesTo
<1>4. Cardinality(RepliesTo(id) \cup {r}) = Cardinality(RepliesTo(id)) + 1
  BY <1>1, <1>2, FS_AddElement
<1>5. QED
  BY <1>2, <1>3, <1>4

\* The items that hold ids of notices do not get fewer.
LEMMA TakenStays ==
  ASSUME Shapes, IsFiniteSet(placed'), placed \subseteq placed', seen' \in {seen, seen + 1}
  PROVE  /\ Cardinality(NoticesTaken) \in Nat /\ Cardinality(NoticesTaken') \in Nat
         /\ Cardinality(NoticesTaken) <= Cardinality(NoticesTaken')
         /\ NoticesTaken # NoticesTaken' => Cardinality(NoticesTaken) < Cardinality(NoticesTaken')
<1>1. 1 .. seen \subseteq 1 .. seen'
  BY DEF Shapes
<1>2. NoticesTaken \in SUBSET NoticesTaken' /\ NoticesTaken' \in SUBSET placed'
  BY <1>1 DEF NoticesTaken, Items
<1>3. IsFiniteSet(NoticesTaken')
  BY <1>2, FS_Subset
<1>4. /\ IsFiniteSet(NoticesTaken) /\ Cardinality(NoticesTaken) <= Cardinality(NoticesTaken')
      /\ Cardinality(NoticesTaken) = Cardinality(NoticesTaken') => NoticesTaken = NoticesTaken'
  BY <1>2, <1>3, FS_Subset
<1>5. QED
  BY <1>3, <1>4, FS_CardinalityType

\* A post, an answer or a notice that refers to what is there keeps the
\* invariant.
LEMMA PlaceCInv ==
  ASSUME CInv, NEW kind, NEW id, NEW u \in Users, NEW t \in Times, NEW ref, NEW file,
         kind \in Posts \cup Notices \cup {"answer"}, seen' = seen + 1,
         kind \in Notices => id = NoticeId,
         kind \notin {"reply", "answer"} => NewItem(id),
         Place(kind, id, u, t, ref, file),
         active' \subseteq Users, owner' \in [Writers -> Users \cup {None}],
         UNCHANGED <<slowMode, votes, mediaCore>>,
         lastPostAt' = IF kind \in Posts THEN [lastPostAt EXCEPT ![u] = t] ELSE lastPostAt,
         replyCount' = IF kind = "reply" THEN OneMoreReply(ref) ELSE replyCount,
         kind = "reply" => ref \in Targets,
         \A v \in Users \ {u} : v \in active' <=> v \in active,
         IF kind \in Entries THEN u \notin active /\ u \in active'
         ELSE IF kind \in Departures THEN u \in active /\ u \notin active'
         ELSE u \in active' <=> u \in active,
         kind = "reply" \/ (kind = "text" /\ ref # None) =>
           \E p \in placed : p.kind \notin {"reply", "answer"} /\ p.id = ref,
         file # None => /\ kind = "text" /\ file \in Attachments
                        /\ OwnCore(u, file) /\ UnusedMedia(u, file),
         kind = "answer" => NewAnswer(u, ref, id)
  PROVE  CInv'
<1>1. PICK r : /\ r.kind = kind /\ r.id = id /\ r.author = u /\ r.at = t /\ r.ref = ref /\ r.file = file
               /\ r.seq = sequence + 1 /\ sequence \in Nat
               /\ r \notin placed /\ placed' = placed \cup {r} /\ IsFiniteSet(placed)
               /\ \A e \in placed : e.seq \in Nat /\ e.seq <= sequence
               /\ Dense'
  <2>1. \E r : /\ r = Record(sequence + 1, kind, id, u, t, ref, file)
               /\ r.kind = kind /\ r.id = id /\ r.author = u /\ r.at = t /\ r.ref = ref /\ r.file = file
               /\ r.seq = sequence + 1 /\ sequence \in Nat
               /\ r \notin placed /\ placed' = placed \cup {r} /\ IsFiniteSet(placed)
               /\ \A e \in placed : e.seq \in Nat /\ e.seq <= sequence
               /\ Dense'
    BY Placed DEF CInv
  <2>2. QED
    BY <2>1
<1>2. replyCount' \in [Targets -> Nat] /\ RepliesCounted'
  <2>1. \A j \in Targets : replyCount[j] \in Nat /\ replyCount[j] = Cardinality(RepliesTo(j))
    BY DEF CInv, Shapes, RepliesCounted
  <2>2. \A j : Cardinality(RepliesTo(j)') =
                 Cardinality(RepliesTo(j)) + (IF kind = "reply" /\ ref = j THEN 1 ELSE 0)
    BY <1>1, OneMoreReplyTo
  <2>3. CASE kind = "reply"
    <3>1. replyCount' = [replyCount EXCEPT ![ref] = @ + 1] /\ ref \in Targets
      BY <2>3 DEF OneMoreReply
    <3>2. replyCount' \in [Targets -> Nat]
      BY <3>1 DEF CInv, Shapes
    <3>3. \A j \in Targets : replyCount'[j] = replyCount[j] + (IF ref = j THEN 1 ELSE 0)
      BY <2>1, <3>1 DEF CInv, Shapes
    <3>4. QED
      BY <2>1, <2>2, <2>3, <3>2, <3>3 DEF RepliesCounted
  <2>4. CASE kind # "reply"
    BY <2>1, <2>2, <2>4 DEF CInv, Shapes, RepliesCounted
  <2>5. QED
    BY <2>3, <2>4
<1>3. lastPostAt' \in [Users -> 0 .. MaxTime]
  BY BoundAssumption DEF CInv, Shapes, Times
<1>4. Shapes'
  <2>1. seen' \in Nat /\ 1 .. seen \subseteq 1 .. seen' /\ seen + 1 \in 1 .. seen'
    BY DEF CInv, Shapes
  <2>2. \A e \in placed' : /\ e.at \in Times /\ e.author \in Users
                           /\ e.kind \in Posts \cup Notices \cup {"answer"}
                           /\ e.kind \in Notices => e.id \in 1 .. seen'
                           /\ e.file # None => e.kind = "text" /\ e.file \in Attachments
    <3>1. SUFFICES ASSUME NEW e \in placed'
                   PROVE  /\ e.at \in Times /\ e.author \in Users
                          /\ e.kind \in Posts \cup Notices \cup {"answer"}
                          /\ e.kind \in Notices => e.id \in 1 .. seen'
                          /\ e.file # None => e.kind = "text" /\ e.file \in Attachments
      OBVIOUS
    <3>2. CASE e \in placed
      BY <2>1, <3>2 DEF CInv, Shapes
    <3>3. CASE e = r
      BY <1>1, <2>1, <3>3 DEF NoticeId
    <3>4. QED
      BY <1>1, <3>2, <3>3
  <2>3. QED
    BY <1>2, <1>3, <2>1, <2>2 DEF CInv, Shapes
<1>5. Accounted'
  <2>0. /\ Cardinality(NoticesTaken) \in Nat /\ Cardinality(NoticesTaken') \in Nat
        /\ Cardinality(NoticesTaken) <= Cardinality(NoticesTaken')
    BY <1>1, TakenStays DEF CInv, Dense
  <2>1. SUFFICES ASSUME NEW v \in Users
                 PROVE  Cardinality(OfUser(v, Entries)') - Cardinality(OfUser(v, Departures)')
                          - (IF v \in active' THEN 1 ELSE 0)
                        \in -Cardinality(NoticesTaken') .. Cardinality(NoticesTaken')
    BY DEF Accounted
  <2>2. /\ Cardinality(OfUser(v, Entries)) \in Nat /\ Cardinality(OfUser(v, Departures)) \in Nat
        /\ Cardinality(OfUser(v, Entries)') =
             Cardinality(OfUser(v, Entries)) + (IF u = v /\ kind \in Entries THEN 1 ELSE 0)
        /\ Cardinality(OfUser(v, Departures)') =
             Cardinality(OfUser(v, Departures)) + (IF u = v /\ kind \in Departures THEN 1 ELSE 0)
    BY <1>1, OneMoreOfUser
  <2>3. Cardinality(OfUser(v, Entries)) - Cardinality(OfUser(v, Departures)) - (IF v \in active THEN 1 ELSE 0)
          \in -Cardinality(NoticesTaken) .. Cardinality(NoticesTaken)
    BY DEF CInv, Accounted
  <2>4. kind \in Entries => kind \notin Departures
    BY DEF Entries, Departures
  <2>5. CASE v # u
    BY <2>0, <2>2, <2>3, <2>5
  <2>6. CASE v = u
    BY <2>0, <2>2, <2>3, <2>4, <2>6
  <2>7. QED
    BY <2>5, <2>6
<1>6. LastPosts'
  <2>1. SUFFICES ASSUME NEW p \in placed', LatestPost(p, placed') PROVE lastPostAt'[p.author] = p.at
    BY DEF LastPosts, LatestPost
  <2>2. CASE p = r
    <3>1. kind \in Posts
      BY <1>1, <2>1, <2>2 DEF LatestPost
    <3>2. QED
      BY <1>1, <2>2, <3>1 DEF CInv, Shapes
  <2>3. CASE p \in placed
    <3>1. LatestPost(p, placed) /\ p.author \in Users
      BY <1>1, <2>1, <2>3 DEF LatestPost, CInv, Shapes
    <3>2. lastPostAt[p.author] = p.at
      BY <2>3, <3>1 DEF CInv, LastPosts
    <3>3. kind \in Posts => p.author # u
      <4>1. SUFFICES ASSUME kind \in Posts, p.author = u PROVE FALSE
        OBVIOUS
      <4>2. r \in placed' /\ r.kind \in Posts /\ r.author = p.author
        BY <1>1, <4>1
      <4>3. sequence + 1 <= p.seq /\ p.seq \in Nat /\ p.seq <= sequence
        BY <1>1, <2>1, <2>3, <4>2 DEF LatestPost
      <4>4. QED
        BY <1>1, <4>3
    <3>4. lastPostAt'[p.author] = lastPostAt[p.author]
      BY <3>1, <3>3 DEF CInv, Shapes
    <3>5. QED
      BY <3>2, <3>4
  <2>4. QED
    BY <1>1, <2>2, <2>3
<1>7. RefersBack'
  <2>1. \A e \in placed' : e.kind = "reply" \/ (e.kind = "text" /\ e.ref # None) =>
          \E p \in placed' : p.kind \notin {"reply", "answer"} /\ p.id = e.ref /\ p.seq < e.seq
    <3>1. SUFFICES ASSUME NEW e \in placed', e.kind = "reply" \/ (e.kind = "text" /\ e.ref # None)
                   PROVE  \E p \in placed' : p.kind \notin {"reply", "answer"} /\ p.id = e.ref /\ p.seq < e.seq
      OBVIOUS
    <3>2. CASE e = r
      <4>1. PICK p \in placed : p.kind \notin {"reply", "answer"} /\ p.id = ref
        BY <1>1, <3>1, <3>2
      <4>2. p.seq < r.seq /\ p \in placed'
        BY <1>1, <4>1
      <4>3. QED
        BY <1>1, <3>2, <4>1, <4>2
    <3>3. CASE e \in placed
      BY <1>1, <3>1, <3>3 DEF CInv, RefersBack
    <3>4. QED
      BY <1>1, <3>2, <3>3
  <2>2. \A e \in placed' : e.file # None =>
          /\ mediaCore[e.author] = e.file.core
          /\ \A f \in placed' : f.file # None /\ f.author = e.author /\ f.file.media = e.file.media => f = e
    <3>1. SUFFICES ASSUME NEW e \in placed', e.file # None
                   PROVE  /\ mediaCore[e.author] = e.file.core
                          /\ \A f \in placed' : f.file # None /\ f.author = e.author
                                                  /\ f.file.media = e.file.media => f = e
      OBVIOUS
    <3>2. \A f \in placed : f.file # None => f.kind = "text"
      BY DEF CInv, Shapes
    <3>3. CASE e = r
      <4>1. mediaCore[u] = file.core /\ UnusedMedia(u, file)
        BY <1>1, <3>1, <3>3 DEF OwnCore
      <4>2. QED
        BY <1>1, <3>2, <3>3, <4>1 DEF UnusedMedia
    <3>4. CASE e \in placed
      <4>1. mediaCore[e.author] = e.file.core
        BY <3>1, <3>4 DEF CInv, RefersBack
      <4>2. ASSUME NEW f \in placed', f.file # None, f.author = e.author, f.file.media = e.file.media
            PROVE  f = e
        <5>1. CASE f \in placed
          BY <3>1, <3>4, <4>2, <5>1 DEF CInv, RefersBack
        <5>2. CASE f = r
          <6>1. UnusedMedia(u, file)
            BY <1>1, <4>2, <5>2
          <6>2. e.kind = "text"
            BY <3>1, <3>2, <3>4
          <6>3. QED
            BY <1>1, <3>1, <3>4, <4>2, <5>2, <6>1, <6>2 DEF UnusedMedia
        <5>3. QED
          BY <1>1, <4>2, <5>1, <5>2
      <4>3. QED
        BY <4>1, <4>2
    <3>5. QED
      BY <1>1, <3>3, <3>4
  <2>3. QED
    BY <2>1, <2>2 DEF RefersBack
<1>8. OneChoiceEach'
  <2>1. ASSUME NEW a \in placed', NEW b \in placed', a.kind = "answer", b.kind = "answer",
               a.id = b.id \/ (a.author = b.author /\ a.ref = b.ref)
        PROVE  a = b
    <3>1. CASE a \in placed /\ b \in placed
      BY <2>1, <3>1 DEF CInv, OneChoiceEach
    <3>2. CASE a = r /\ b \in placed
      BY <1>1, <2>1, <3>2 DEF NewAnswer
    <3>3. CASE a \in placed /\ b = r
      BY <1>1, <2>1, <3>3 DEF NewAnswer
    <3>4. QED
      BY <1>1, <2>1, <3>1, <3>2, <3>3
  <2>2. QED
    BY <2>1 DEF CInv, OneChoiceEach
<1>9. OneItemEach'
  BY <1>1 DEF CInv, OneItemEach, NewItem
<1>10. QED
  BY <1>1, <1>2, <1>4, <1>5, <1>6, <1>7, <1>8, <1>9 DEF CInv

-----------------------------------------------------------------------------
(* The operations. *)

\* Nothing is placed and nobody comes or goes.
LEMMA QuietCInv ==
  ASSUME CInv, seen' \in {seen, seen + 1}, UNCHANGED <<sequence, lastPostAt, placed, replyCount>>,
         active' = active, owner' \in [Writers -> Users \cup {None}],
         slowMode' \in Nat,
         votes' = votes \/ \E p \in Polls, u \in Users, o \in Options :
                             NotVoted(u, p, o) /\ votes' = votes \cup {<<p, u, o>>},
         mediaCore' = mediaCore \/ \E u \in Users, core \in Cores :
                             FirstCore(u, core) /\ mediaCore' = [mediaCore EXCEPT ![u] = core]
  PROVE  CInv'
<1>1. Shapes'
  <2>1. votes' \subseteq Polls \X Users \X Options
    BY DEF CInv, Shapes
  <2>2. mediaCore' \in [Users -> Cores \cup {None}]
    BY DEF CInv, Shapes
  <2>3. seen' \in Nat /\ 1 .. seen \subseteq 1 .. seen'
    BY DEF CInv, Shapes
  <2>4. QED
    BY <2>1, <2>2, <2>3 DEF CInv, Shapes
<1>2. Dense' /\ OneItemEach' /\ RepliesCounted' /\ LastPosts'
  BY DEF CInv, Dense, OneItemEach, RepliesCounted, RepliesTo, LastPosts
<1>3. RefersBack'
  <2>1. ASSUME NEW e \in placed, e.file # None
        PROVE  mediaCore'[e.author] = e.file.core
    <3>1. e.author \in Users /\ e.file \in Attachments /\ mediaCore[e.author] = e.file.core
      BY <2>1 DEF CInv, Shapes, RefersBack
    <3>2. mediaCore[e.author] # None
      BY <3>1, CoreAssumption DEF Attachments
    <3>3. QED
      BY <3>1, <3>2 DEF FirstCore, CInv, Shapes
  <2>2. QED
    BY <2>1 DEF CInv, RefersBack
<1>4. OneChoiceEach'
  <2>1. ASSUME NEW v \in votes', NEW x \in votes', v[1] = x[1], v[2] = x[2]
        PROVE  v = x
    <3>1. CASE votes' = votes
      BY <2>1, <3>1 DEF CInv, OneChoiceEach
    <3>2. CASE \E p \in Polls, u \in Users, o \in Options :
                 NotVoted(u, p, o) /\ votes' = votes \cup {<<p, u, o>>}
      <4>1. PICK p \in Polls, u \in Users, o \in Options :
                   NotVoted(u, p, o) /\ votes' = votes \cup {<<p, u, o>>}
        BY <3>2
      <4>2. ASSUME NEW y \in votes, y[1] = p, y[2] = u PROVE FALSE
        <5>1. y \in Polls \X Users \X Options
          BY <4>2 DEF CInv, Shapes
        <5>2. y = <<p, u, y[3]>> /\ y[3] \in Options
          BY <4>2, <5>1
        <5>3. QED
          BY <4>1, <4>2, <5>2 DEF NotVoted
      <4>3. CASE v \in votes /\ x \in votes
        BY <2>1, <4>3 DEF CInv, OneChoiceEach
      <4>4. QED
        BY <2>1, <4>1, <4>2, <4>3
    <3>3. QED
      BY <3>1, <3>2
  <2>2. QED
    BY <2>1 DEF CInv, OneChoiceEach
<1>5. Accounted'
  <2>1. /\ Cardinality(NoticesTaken) \in Nat /\ Cardinality(NoticesTaken') \in Nat
        /\ Cardinality(NoticesTaken) <= Cardinality(NoticesTaken')
    BY TakenStays DEF CInv, Dense
  <2>2. SUFFICES ASSUME NEW v \in Users
                 PROVE  Cardinality(OfUser(v, Entries)') - Cardinality(OfUser(v, Departures)')
                          - (IF v \in active' THEN 1 ELSE 0)
                        \in -Cardinality(NoticesTaken') .. Cardinality(NoticesTaken')
    BY DEF Accounted
  <2>3. /\ OfUser(v, Entries)' = OfUser(v, Entries) /\ OfUser(v, Departures)' = OfUser(v, Departures)
        /\ active' = active
    BY DEF OfUser
  <2>4. Cardinality(OfUser(v, Entries)) - Cardinality(OfUser(v, Departures)) - (IF v \in active THEN 1 ELSE 0)
          \in -Cardinality(NoticesTaken) .. Cardinality(NoticesTaken)
    BY DEF CInv, Accounted
  <2>5. Cardinality(OfUser(v, Entries)) \in Nat /\ Cardinality(OfUser(v, Departures)) \in Nat
    <3>1. \A kinds : OfUser(v, kinds) \in SUBSET placed /\ IsFiniteSet(placed)
      BY DEF OfUser, CInv, Dense
    <3>2. QED
      BY <3>1, FS_Subset, FS_CardinalityType
  <2>6. QED
    BY <2>1, <2>3, <2>4, <2>5
<1>6. QED
  BY <1>1, <1>2, <1>3, <1>4, <1>5 DEF CInv

\* A notice is dropped because of an item that has its id.
LEMMA DroppedCInv ==
  ASSUME CInv, seen' = seen + 1, NEW u \in Users, ~NewItem(NoticeId),
         UNCHANGED <<sequence, placed, slowMode, lastPostAt, replyCount, votes, mediaCore>>,
         active' \subseteq Users, owner' \in [Writers -> Users \cup {None}],
         \A v \in Users \ {u} : v \in active' <=> v \in active
  PROVE  CInv'
<1>1. Shapes'
  <2>1. seen' \in Nat /\ 1 .. seen \subseteq 1 .. seen'
    BY DEF CInv, Shapes
  <2>2. QED
    BY <2>1 DEF CInv, Shapes
<1>2. Dense' /\ OneItemEach' /\ RepliesCounted' /\ LastPosts'
  BY DEF CInv, Dense, OneItemEach, RepliesCounted, RepliesTo, LastPosts
<1>3. RefersBack' /\ OneChoiceEach'
  BY DEF CInv, RefersBack, OneChoiceEach
<1>4. /\ Cardinality(NoticesTaken) \in Nat /\ Cardinality(NoticesTaken') \in Nat
      /\ Cardinality(NoticesTaken) < Cardinality(NoticesTaken')
  <2>1. PICK e \in placed : e.kind \notin {"reply", "answer"} /\ e.id = seen + 1
    BY DEF NewItem, NoticeId
  <2>2. seen \in Nat /\ e.id \notin 1 .. seen /\ e.id \in 1 .. seen'
    BY <2>1 DEF CInv, Shapes
  <2>3. e.kind \in {"text", "poll"}
    BY <2>1, <2>2 DEF CInv, Shapes, Posts
  <2>4. e \notin NoticesTaken /\ e \in NoticesTaken'
    BY <2>1, <2>2, <2>3 DEF NoticesTaken, Items
  <2>5. QED
    BY <2>4, TakenStays DEF CInv, Dense
<1>5. Accounted'
  <2>1. SUFFICES ASSUME NEW v \in Users
                 PROVE  Cardinality(OfUser(v, Entries)') - Cardinality(OfUser(v, Departures)')
                          - (IF v \in active' THEN 1 ELSE 0)
                        \in -Cardinality(NoticesTaken') .. Cardinality(NoticesTaken')
    BY DEF Accounted
  <2>2. OfUser(v, Entries)' = OfUser(v, Entries) /\ OfUser(v, Departures)' = OfUser(v, Departures)
    BY DEF OfUser
  <2>3. Cardinality(OfUser(v, Entries)) - Cardinality(OfUser(v, Departures)) - (IF v \in active THEN 1 ELSE 0)
          \in -Cardinality(NoticesTaken) .. Cardinality(NoticesTaken)
    BY DEF CInv, Accounted
  <2>4. Cardinality(OfUser(v, Entries)) \in Nat /\ Cardinality(OfUser(v, Departures)) \in Nat
    <3>1. \A kinds : OfUser(v, kinds) \in SUBSET placed /\ IsFiniteSet(placed)
      BY DEF OfUser, CInv, Dense
    <3>2. QED
      BY <3>1, FS_Subset, FS_CardinalityType
  <2>5. QED
    BY <1>4, <2>2, <2>3, <2>4
<1>6. QED
  BY <1>1, <1>2, <1>3, <1>5 DEF CInv

LEMMA EntryCInv ==
  ASSUME CInv, seen' = seen + 1, NEW t \in Times, NEW r \in Requests, NEW i \in Invites, NEW u \in Users, NEW k \in Writers,
         Admit(t, r, i, u, k, u), EntryNotice(u, t)
  PROVE  CInv'
<1>1. active' = active \cup {u} /\ owner' = RotateOwner(u, k)
  BY DEF Admit
<1>2. owner' \in [Writers -> Users \cup {None}] /\ active' \subseteq Users
  BY <1>1 DEF RotateOwner, CInv, Shapes
<1>3. lastPostAt' = lastPostAt /\ UNCHANGED <<slowMode, replyCount, votes, reactions, market, mediaCore>>
  BY DEF EntryNotice, KeepLastPost
<1>4. CASE u \in active
  <2>1. UNCHANGED <<sequence, placed>> /\ active' = active
    BY <1>1, <1>4 DEF EntryNotice, News
  <2>2. QED
    BY <1>2, <1>3, <2>1, QuietCInv DEF CInv, Shapes
<1>5. CASE u \notin active
  <2>1. SystemItem("joined", u, t)
    BY <1>5 DEF EntryNotice, News
  <2> DEFINE kind == "joined"
  <2>2. /\ kind \notin Posts /\ kind \in Entries /\ kind # "reply" /\ kind # "text" /\ kind # "answer"
        /\ kind \in Notices
    BY DEF Posts, Entries, Notices
  <2>3. \A v \in Users \ {u} : v \in active' <=> v \in active
    BY <1>1
  <2>4. u \notin active /\ u \in active'
    BY <1>1, <1>5
  <2> HIDE DEF kind
  <2>5. CASE NewItem(NoticeId)
    <3>1. Place(kind, NoticeId, u, t, None, None)
      BY <2>1, <2>5 DEF kind, SystemItem
    <3>2. QED
      BY <1>2, <1>3, <2>2, <2>3, <2>4, <2>5, <3>1, PlaceCInv
  <2>6. CASE ~NewItem(NoticeId)
    <3>1. UNCHANGED <<sequence, placed>>
      BY <2>1, <2>6 DEF SystemItem
    <3>2. QED
      BY <1>2, <1>3, <2>3, <2>6, <3>1, DroppedCInv
  <2>7. QED
    BY <2>5, <2>6
<1>6. QED
  BY <1>4, <1>5

LEMMA DepartureCInv ==
  ASSUME CInv, seen' = seen + 1, NEW kind \in Departures, NEW u \in active, NEW t \in Times,
         active' = active \ {u}, UNCHANGED owner, Notice(kind, u, t)
  PROVE  CInv'
<1>1. /\ SystemItem(kind, u, t)
      /\ UNCHANGED <<slowMode, lastPostAt, replyCount, votes, reactions, market, mediaCore>>
  BY DEF Notice
<1>2. /\ kind \notin Posts /\ kind \notin Entries /\ kind # "reply" /\ kind # "text" /\ kind # "answer"
      /\ kind \in Notices
  BY DEF Posts, Entries, Departures, Notices
<1>3. u \in Users /\ active' \subseteq Users /\ owner' \in [Writers -> Users \cup {None}]
  BY DEF CInv, Shapes
<1>4. \A v \in Users \ {u} : v \in active' <=> v \in active
  OBVIOUS
<1>5. u \notin active'
  OBVIOUS
<1>6. CASE NewItem(NoticeId)
  <2>1. Place(kind, NoticeId, u, t, None, None)
    BY <1>1, <1>6 DEF SystemItem
  <2>2. QED
    BY <1>1, <1>2, <1>3, <1>4, <1>5, <1>6, <2>1, PlaceCInv
<1>7. CASE ~NewItem(NoticeId)
  <2>1. UNCHANGED <<sequence, placed>>
    BY <1>1, <1>7 DEF SystemItem
  <2>2. QED
    BY <1>1, <1>3, <1>4, <1>7, <2>1, DroppedCInv
<1>8. QED
  BY <1>6, <1>7

LEMMA MembershipCInv ==
  ASSUME CInv, seen' = seen + 1, NEW w \in Writers, NEW t \in Times, MembershipOperation(w, t)
  PROVE  CInv'
<1>1. CASE \E r \in Requests, i \in Invites, u \in Users, k \in Writers :
             MemberAdmit(t, r, i, u, k, u) /\ EntryNotice(u, t)
  BY <1>1, EntryCInv DEF MemberAdmit
<1>2. CASE \E u \in Users : MemberRemove(w, u) /\ Notice("removed", u, t)
  <2>1. PICK u \in Users : MemberRemove(w, u) /\ Notice("removed", u, t)
    BY <1>2
  <2>2. u \in active /\ active' = active \ {u} /\ UNCHANGED owner
    BY <2>1 DEF MemberRemove
  <2>3. QED
    BY <2>1, <2>2, DepartureCInv DEF Departures
<1>3. CASE Authorised(w, t) /\ MemberLeave(w) /\ Notice("left", owner[w], t)
  <2>1. owner[w] \in active /\ active' = active \ {owner[w]} /\ UNCHANGED owner
    BY <1>3 DEF MemberLeave, Authorised
  <2>2. QED
    BY <1>3, <2>1, DepartureCInv DEF Departures
<1>4. CASE RoomClose(w) /\ UNCHANGED timeline
  <2>1. UNCHANGED <<active, owner, sequence, slowMode, lastPostAt, placed, replyCount, votes, mediaCore>>
    BY <1>4 DEF RoomClose, memberVars, writerVars, timeline, content
  <2>2. QED
    BY <2>1, QuietCInv DEF CInv, Shapes
<1>5. CASE \E s \in Users, r \in Requests, i \in Invites, u \in Users :
             MemberClaim(w, t, s, r, i, u, u) /\ EntryNotice(u, t)
  BY <1>5, EntryCInv DEF MemberClaim
<1>6. QED
  BY <1>1, <1>2, <1>3, <1>4, <1>5 DEF MembershipOperation

\* A record that is no notice.
LEMMA ContributionCInv ==
  ASSUME CInv, seen' = seen + 1, NEW kind \in Posts \cup {"answer"}, NEW id, NEW u \in Users, NEW t \in Times, NEW ref, NEW file,
         kind \in {"text", "poll"} => NewItem(id),
         Place(kind, id, u, t, ref, file), UNCHANGED <<active, owner, slowMode, votes, mediaCore>>,
         lastPostAt' = IF kind \in Posts THEN [lastPostAt EXCEPT ![u] = t] ELSE lastPostAt,
         replyCount' = IF kind = "reply" THEN OneMoreReply(ref) ELSE replyCount,
         kind = "reply" => ref \in Targets,
         kind = "reply" \/ (kind = "text" /\ ref # None) =>
           \E p \in placed : p.kind \notin {"reply", "answer"} /\ p.id = ref,
         file # None => /\ kind = "text" /\ file \in Attachments
                        /\ OwnCore(u, file) /\ UnusedMedia(u, file),
         kind = "answer" => NewAnswer(u, ref, id)
  PROVE  CInv'
<1>1. /\ kind \notin Entries /\ kind \notin Departures /\ kind \notin Notices
      /\ kind \in Posts \cup Notices \cup {"answer"} /\ kind \notin {"reply", "answer"} => NewItem(id)
  BY DEF Posts, Entries, Departures, Notices
<1>2. active' \subseteq Users /\ owner' \in [Writers -> Users \cup {None}]
  BY DEF CInv, Shapes
<1>3. QED
  BY <1>1, <1>2, PlaceCInv

LEMMA TimelineCInv ==
  ASSUME CInv, seen' = seen + 1, NEW u \in Users, NEW t \in Times, TimelineOperation(u, t), UNCHANGED view
  PROVE  CInv'
<1>1. UNCHANGED <<active, owner>> /\ owner' \in [Writers -> Users \cup {None}]
  BY DEF view, memberVars, writerVars, CInv, Shapes
<1>2. CASE \E seconds \in SlowModes : SlowMode(u, seconds)
  <2>1. slowMode' \in Nat /\ UNCHANGED <<sequence, lastPostAt, placed, replyCount, votes, mediaCore>>
    BY <1>2, SlowModeAssumption DEF SlowMode, content
  <2>2. QED
    BY <1>1, <2>1, QuietCInv
<1>3. CASE \E id \in ItemIds, quoted \in ItemIds \cup {None}, file \in Attachments \cup {None} :
             Message(u, t, id, quoted, file)
  <2>1. PICK id \in ItemIds, quoted \in ItemIds \cup {None}, file \in Attachments \cup {None} :
               Message(u, t, id, quoted, file)
    BY <1>3
  <2>2. /\ NewItem(id)
        /\ quoted # None => Quotable(quoted)
        /\ file # None => OwnCore(u, file) /\ UnusedMedia(u, file)
        /\ Place("text", id, u, t, quoted, file) /\ lastPostAt' = [lastPostAt EXCEPT ![u] = t]
        /\ UNCHANGED <<slowMode, replyCount, votes, mediaCore>>
    BY <2>1 DEF Message, Post
  <2>3. quoted # None => \E p \in placed : p.kind \notin {"reply", "answer"} /\ p.id = quoted
    BY <2>2 DEF Quotable, Items
  <2> DEFINE kind == "text"
  <2>4. kind \in Posts /\ kind # "reply" /\ kind # "answer" /\ kind = "text"
    BY DEF Posts
  <2> HIDE DEF kind
  <2>5. Place(kind, id, u, t, quoted, file)
    BY <2>2, <2>4
  <2>6. QED
    BY <1>1, <2>2, <2>3, <2>4, <2>5, ContributionCInv
<1>4. CASE \E id \in ItemIds, p \in Polls : CreatePoll(u, t, id, p)
  <2>1. PICK id \in ItemIds, p \in Polls : CreatePoll(u, t, id, p)
    BY <1>4
  <2>2. /\ NewItem(id)
        /\ Place("poll", id, u, t, p, None) /\ lastPostAt' = [lastPostAt EXCEPT ![u] = t]
        /\ UNCHANGED <<slowMode, replyCount, votes, mediaCore>>
    BY <2>1 DEF CreatePoll, Post
  <2> DEFINE kind == "poll"
  <2>3. kind \in Posts /\ kind # "reply" /\ kind # "answer" /\ kind # "text"
    BY DEF Posts
  <2>4. Place(kind, id, u, t, p, None)
    BY <2>2
  <2> HIDE DEF kind
  <2>5. QED
    BY <1>1, <2>2, <2>3, <2>4, ContributionCInv
<1>5. CASE \E id \in ReplyIds, item \in Targets : Reply(u, t, id, item)
  <2>1. PICK id \in ReplyIds, item \in Targets : Reply(u, t, id, item)
    BY <1>5
  <2>2. /\ \E e \in placed : e.kind \notin {"reply", "answer"} /\ e.id = item
        /\ Place("reply", id, u, t, item, None) /\ lastPostAt' = [lastPostAt EXCEPT ![u] = t]
        /\ replyCount' = OneMoreReply(item)
        /\ UNCHANGED <<slowMode, votes, mediaCore>>
    BY <2>1 DEF Reply, Post
  <2> DEFINE kind == "reply"
  <2>3. kind \in Posts /\ kind = "reply" /\ kind # "answer" /\ kind # "text" /\ kind # "poll"
    BY DEF Posts
  <2> HIDE DEF kind
  <2>4. Place(kind, id, u, t, item, None)
    BY <2>2, <2>3
  <2>5. QED
    BY <1>1, <2>2, <2>3, <2>4, ContributionCInv
<1>6. CASE \E p \in Polls, option \in Options : Vote(u, p, option)
  <2>1. PICK p \in Polls, option \in Options : Vote(u, p, option)
    BY <1>6
  <2>2. /\ NotVoted(u, p, option) /\ votes' = votes \cup {<<p, u, option>>}
        /\ UNCHANGED <<sequence, slowMode, lastPostAt, placed, replyCount, mediaCore>>
    BY <2>1 DEF Vote
  <2>3. QED
    BY <1>1, <2>2, QuietCInv DEF CInv, Shapes
<1>7. CASE \E item \in ItemIds : React(u, item)
  <2>1. UNCHANGED <<sequence, slowMode, lastPostAt, placed, replyCount, votes, mediaCore>>
    BY <1>7 DEF React
  <2>2. QED
    BY <1>1, <2>1, QuietCInv DEF CInv, Shapes
<1>8. CASE \E p \in Polls, m \in Markets : AttachMarket(u, p, m)
  <2>1. UNCHANGED <<sequence, slowMode, lastPostAt, placed, replyCount, votes, mediaCore>>
    BY <1>8 DEF AttachMarket
  <2>2. QED
    BY <1>1, <2>1, QuietCInv DEF CInv, Shapes
<1>9. CASE \E call \in Calls, token \in Tokens : Answer(u, t, call, token)
  <2>1. PICK call \in Calls, token \in Tokens : Answer(u, t, call, token)
    BY <1>9
  <2>2. /\ NewAnswer(u, call, token) /\ Place("answer", token, u, t, call, None)
        /\ UNCHANGED <<slowMode, lastPostAt, replyCount, votes, mediaCore>>
    BY <2>1 DEF Answer
  <2> DEFINE kind == "answer"
  <2>3. kind \notin Posts /\ kind = "answer" /\ kind # "reply" /\ kind # "text" /\ kind # "poll"
    BY DEF Posts
  <2> HIDE DEF kind
  <2>4. Place(kind, token, u, t, call, None)
    BY <2>2, <2>3
  <2>5. QED
    BY <1>1, <2>2, <2>3, <2>4, ContributionCInv
<1>10. CASE \E core \in Cores : BindMediaCore(u, core)
  <2>1. PICK core \in Cores : BindMediaCore(u, core)
    BY <1>10
  <2>2. /\ FirstCore(u, core) /\ mediaCore' = [mediaCore EXCEPT ![u] = core]
        /\ UNCHANGED <<sequence, slowMode, lastPostAt, placed, replyCount, votes>>
    BY <2>1 DEF BindMediaCore
  <2>3. QED
    BY <1>1, <2>2, QuietCInv DEF CInv, Shapes
<1>11. QED
  BY <1>2, <1>3, <1>4, <1>5, <1>6, <1>7, <1>8, <1>9, <1>10 DEF TimelineOperation

LEMMA NextCInv == CInv /\ [TimelineNext]_<<vars, timeline>> => CInv'
<1>1. SUFFICES ASSUME CInv, [TimelineNext]_<<vars, timeline>> PROVE CInv'
  OBVIOUS
<1>2. CASE UNCHANGED <<vars, timeline>>
  <2>1. UNCHANGED <<seen, active, owner, sequence, slowMode, lastPostAt, placed, replyCount, votes, mediaCore>>
    BY <1>2 DEF vars, view, memberVars, writerVars, timeline, content
  <2>2. QED
    BY <1>1, <2>1, QuietCInv DEF CInv, Shapes
<1>3. CASE TimelineNext
  <2>0. PICK id \in Ids :
          /\ Unmarked(id) /\ Mark(id)
          /\ \E w \in Writers, t \in Times :
               \/ MembershipOperation(w, t)
               \/ Authorised(w, t) /\ TimelineOperation(owner[w], t) /\ UNCHANGED view
    BY <1>3 DEF TimelineNext
  <2>1. PICK w \in Writers, t \in Times :
               \/ MembershipOperation(w, t)
               \/ Authorised(w, t) /\ TimelineOperation(owner[w], t) /\ UNCHANGED view
    BY <2>0
  <2>5. seen' = seen + 1
    BY <1>1, <2>0, Constants DEF Ids, Unmarked, Mark, CInv, Shapes
  <2>2. CASE MembershipOperation(w, t)
    BY <1>1, <2>2, <2>5, MembershipCInv
  <2>3. CASE Authorised(w, t) /\ TimelineOperation(owner[w], t) /\ UNCHANGED view
    <3>1. owner[w] \in Users
      BY <1>1, <2>3 DEF Authorised, CInv, Shapes
    <3>2. QED
      BY <1>1, <2>3, <2>5, <3>1, TimelineCInv
  <2>4. QED
    BY <2>1, <2>2, <2>3
<1>4. QED
  BY <1>1, <1>2, <1>3

\* Whatever members post, answer, vote and attach while others come and go,
\* the timeline's records, counters and references stay consistent.
THEOREM TimelineIsSound == TimelineSpec => []CInv
<1>1. TimelineInit => CInv
  BY InitCInv
<1>2. CInv /\ [TimelineNext]_<<vars, timeline>> => CInv'
  BY NextCInv
<1>3. QED
  BY <1>1, <1>2, PTL DEF TimelineSpec

\* Numbers without a gap, reply counts and notices that tell who is in the room
\* (room-view.js writes the counters again in most handlers).
THEOREM HistoryIsTold == TimelineSpec => []HistoryAddsUp
<1>1. CInv => HistoryAddsUp
  <2>1. SUFFICES ASSUME CInv PROVE HistoryAddsUp
    OBVIOUS
  <2>2. SequenceIsDense
    BY <2>1 DEF CInv, Dense, OneItemEach, RepliesCounted, RepliesTo, SequenceIsDense
  <2>3. NoticesTellMembership
    BY <2>1 DEF CInv, Accounted, OfUser, Entries, Departures, NoticesTellMembership
  <2>4. QED
    BY <2>2, <2>3 DEF HistoryAddsUp
<1>2. QED
  BY <1>1, TimelineIsSound, PTL

\* Replies and quotes refer back, attachments name their author's core, nobody
\* votes or answers twice.
THEOREM ReferencesStand == TimelineSpec => []ReferencesHold
<1>1. CInv => ReferencesHold
  BY DEF CInv, ReferencesHold
<1>2. QED
  BY <1>1, TimelineIsSound, PTL

-----------------------------------------------------------------------------
(* What a step may not do. *)

\* A post passes slow mode against the latest post of its author.
SpacedPosts ==
  \A e \in placed' \ placed : e.kind \in Posts /\ slowMode # 0 =>
    \A p \in placed :
      /\ p.kind \in Posts /\ p.author = e.author
      /\ \A q \in placed : q.kind \in Posts /\ q.author = e.author => q.seq <= p.seq
      => e.at - p.at >= slowMode

FrozenWhenClosed ==
  closed => /\ \A e \in placed' \ placed : e.kind = "left"
            /\ UNCHANGED <<replyCount, votes, reactions, market, mediaCore>>

LEMMA PostIsSpaced ==
  ASSUME CInv, NEW kind, NEW id, NEW u \in Users, NEW t \in Times, NEW ref, NEW file,
         Place(kind, id, u, t, ref, file), kind \in Posts => PassesSlowMode(u, t)
  PROVE  SpacedPosts
<1>1. SUFFICES ASSUME NEW e \in placed' \ placed, e.kind \in Posts, slowMode # 0,
                      NEW p \in placed, p.kind \in Posts, p.author = e.author,
                      \A q \in placed : q.kind \in Posts /\ q.author = e.author => q.seq <= p.seq
               PROVE  e.at - p.at >= slowMode
  BY DEF SpacedPosts
<1>2. e = Record(NextSequence, kind, id, u, t, ref, file)
  BY <1>1 DEF Place
<1>3. e.kind = kind /\ e.author = u /\ e.at = t
  BY <1>2 DEF Record
<1>4. lastPostAt[u] = p.at
  BY <1>1, <1>3 DEF CInv, LastPosts, LatestPost
<1>5. p.at # 0
  BY BoundAssumption DEF CInv, Shapes, Times
<1>6. QED
  BY <1>1, <1>3, <1>4, <1>5 DEF PassesSlowMode

LEMMA QuietIsSpaced == UNCHANGED placed => SpacedPosts
BY DEF SpacedPosts

LEMMA StepIsSpaced == CInv /\ [TimelineNext]_<<vars, timeline>> => SpacedPosts
<1>1. SUFFICES ASSUME CInv, TimelineNext PROVE SpacedPosts
  BY QuietIsSpaced DEF timeline, content
<1>2. PICK w \in Writers, t \in Times :
             \/ MembershipOperation(w, t)
             \/ Authorised(w, t) /\ TimelineOperation(owner[w], t)
  BY <1>1 DEF TimelineNext
<1>3. ASSUME NEW kind \in Notices, NEW id, NEW u \in Users, Place(kind, id, u, t, None, None)
      PROVE  SpacedPosts
  BY <1>1, <1>3, PostIsSpaced DEF Notices, Posts
<1>4. ASSUME NEW kind \in Notices, NEW u \in Users, SystemItem(kind, u, t)
      PROVE  SpacedPosts
  BY <1>3, <1>4, QuietIsSpaced DEF SystemItem
<1>5. ASSUME NEW u \in Users, EntryNotice(u, t)
      PROVE  SpacedPosts
  BY <1>5, <1>4, QuietIsSpaced DEF EntryNotice, Notices
<1>6. CASE MembershipOperation(w, t)
  <2>1. CASE \E r \in Requests, i \in Invites, u \in Users, k \in Writers :
               MemberAdmit(t, r, i, u, k, u) /\ EntryNotice(u, t)
    BY <1>5, <2>1
  <2>2. CASE \E u \in Users : MemberRemove(w, u) /\ Notice("removed", u, t)
    BY <1>4, <2>2 DEF Notice, Notices
  <2>3. CASE Authorised(w, t) /\ MemberLeave(w) /\ Notice("left", owner[w], t)
    <3>1. owner[w] \in Users
      BY <1>1, <2>3 DEF Authorised, CInv, Shapes
    <3>2. QED
      BY <1>4, <2>3, <3>1 DEF Notice, Notices
  <2>4. CASE RoomClose(w) /\ UNCHANGED timeline
    BY <2>4, QuietIsSpaced DEF timeline, content
  <2>5. CASE \E s \in Users, r \in Requests, i \in Invites, u \in Users :
               MemberClaim(w, t, s, r, i, u, u) /\ EntryNotice(u, t)
    BY <1>5, <2>5
  <2>6. QED
    BY <1>6, <2>1, <2>2, <2>3, <2>4, <2>5 DEF MembershipOperation
<1>7. CASE Authorised(w, t) /\ TimelineOperation(owner[w], t)
  <2>1. PICK u \in Users : TimelineOperation(u, t)
    BY <1>1, <1>7 DEF Authorised, CInv, Shapes
  <2>2. ASSUME NEW kind, NEW id, NEW ref, NEW file, Post(kind, id, u, t, ref, file)
        PROVE  SpacedPosts
    BY <1>1, <2>2, PostIsSpaced DEF Post
  <2>3. CASE \E id \in ItemIds, quoted \in ItemIds \cup {None}, file \in Attachments \cup {None} :
               Message(u, t, id, quoted, file)
    BY <2>2, <2>3 DEF Message
  <2>4. CASE \E id \in ItemIds, p \in Polls : CreatePoll(u, t, id, p)
    BY <2>2, <2>4 DEF CreatePoll
  <2>5. CASE \E id \in ReplyIds, item \in Targets : Reply(u, t, id, item)
    BY <2>2, <2>5 DEF Reply
  <2>6. CASE \E call \in Calls, token \in Tokens : Answer(u, t, call, token)
    <3>1. PICK call \in Calls, token \in Tokens : Answer(u, t, call, token)
      BY <2>6
    <3>2. Place("answer", token, u, t, call, None)
      BY <3>1 DEF Answer
    <3> DEFINE kind == "answer"
    <3>3. kind \notin Posts /\ Place(kind, token, u, t, call, None)
      BY <3>2 DEF Posts
    <3> HIDE DEF kind
    <3>4. QED
      BY <1>1, <3>3, PostIsSpaced
  <2>7. CASE \/ \E seconds \in SlowModes : SlowMode(u, seconds)
             \/ \E p \in Polls, option \in Options : Vote(u, p, option)
             \/ \E item \in ItemIds : React(u, item)
             \/ \E p \in Polls, m \in Markets : AttachMarket(u, p, m)
             \/ \E core \in Cores : BindMediaCore(u, core)
    <3>1. UNCHANGED placed
      BY <2>7 DEF SlowMode, Vote, React, AttachMarket, BindMediaCore, content
    <3>2. QED
      BY <3>1, QuietIsSpaced
  <2>8. QED
    BY <2>1, <2>3, <2>4, <2>5, <2>6, <2>7 DEF TimelineOperation
<1>8. QED
  BY <1>2, <1>6, <1>7

\* Under slow mode posts of a user keep their distance, also through a rejoin
\* with another writer.
THEOREM PostsAreSpaced == TimelineSpec => SlowModeSpacing
<1>1. CInv /\ [TimelineNext]_<<vars, timeline>> => [SpacedPosts]_<<vars, timeline>>
  BY StepIsSpaced
<1>2. QED
  BY <1>1, TimelineIsSound, PTL DEF TimelineSpec, SlowModeSpacing, SpacedPosts

LEMMA StepIsFrozen == [TimelineNext]_<<vars, timeline>> => FrozenWhenClosed
<1>1. SUFFICES ASSUME TimelineNext, closed PROVE FrozenWhenClosed
  BY DEF timeline, content, FrozenWhenClosed
<1>2. PICK w \in Writers, t \in Times :
             \/ MembershipOperation(w, t)
             \/ Authorised(w, t) /\ TimelineOperation(owner[w], t)
  BY <1>1 DEF TimelineNext
<1>3. CASE MembershipOperation(w, t)
  <2>1. ~(\E r \in Requests, i \in Invites, u \in Users, k \in Writers : MemberAdmit(t, r, i, u, k, u))
    BY <1>1 DEF MemberAdmit, Admissible
  <2>2. ~(\E u \in Users : MemberRemove(w, u))
    BY <1>1 DEF MemberRemove, CreatorActs
  <2>3. ~(\E s \in Users, r \in Requests, i \in Invites, u \in Users : MemberClaim(w, t, s, r, i, u, u))
    BY <1>1 DEF MemberClaim, Admissible
  <2>4. ~RoomClose(w)
    BY <1>1 DEF RoomClose, CreatorActs
  <2>5. Notice("left", owner[w], t)
    BY <1>3, <2>1, <2>2, <2>3, <2>4 DEF MembershipOperation
  <2>6. /\ \/ placed' = placed \cup {Record(NextSequence, "left", NoticeId, owner[w], t, None, None)}
           \/ placed' = placed
        /\ UNCHANGED <<replyCount, votes, reactions, market, mediaCore>>
    BY <2>5 DEF Notice, SystemItem, Place
  <2>7. QED
    BY <2>6 DEF FrozenWhenClosed, Record
<1>4. CASE Authorised(w, t) /\ TimelineOperation(owner[w], t)
  BY <1>1, <1>4 DEF TimelineOperation, SlowMode, Message, CreatePoll, Reply, Vote, React, AttachMarket,
                    Answer, BindMediaCore, Post
<1>5. QED
  BY <1>2, <1>3, <1>4

\* A closed room takes no content from anybody.
THEOREM ClosedStaysFrozen == TimelineSpec => ClosedIsFrozen
<1>1. [TimelineNext]_<<vars, timeline>> => [FrozenWhenClosed]_<<vars, timeline>>
  BY StepIsFrozen
<1>2. QED
  BY <1>1, PTL DEF TimelineSpec, ClosedIsFrozen, FrozenWhenClosed

-----------------------------------------------------------------------------
(* The membership half goes on as it does by itself. *)

\* The room as it starts is sound.
LEMMA StartIsSound ==
  ASSUME NEW c \in Users, NEW i \in Invites, NEW bind \in Injection(Users, Writers),
         NEW request \in Injection(Users \ {c}, Requests), Started(c, i, bind, request)
  PROVE  IInv /\ Trail
<1> DEFINE n == Cardinality(Users)
<1>1. IsFiniteSet(Users) /\ n \in Nat /\ n >= 1 /\ n <= MaxMembers /\ n < MaxOps
  BY UserSets, StartAssumption, FiniteAssumption, FS_CardinalityType
<1>2. /\ bind \in [Users -> Writers] /\ \A u, v \in Users : bind[u] = bind[v] => u = v
      /\ request \in [Users \ {c} -> Requests]
      /\ \A u, v \in Users \ {c} : request[u] = request[v] => u = v
  BY DEF Injection, IsInjective
<1>3. /\ seen = n + 1 /\ creator = c /\ closed = FALSE /\ name \in Names
      /\ activeInvite = i /\ memberCount = n
      /\ active = Users /\ banned = {} /\ joined = Users /\ referral = {}
      /\ role = [u \in Users |-> IF u = c THEN "creator" ELSE "member"]
      /\ writerOf = bind /\ joinedAt = [u \in Users |-> 1]
      /\ base = {bind[u] : u \in Users}
      /\ issued = {i} /\ revoked = {}
      /\ expiresAt = [j \in Invites |-> IF j = i THEN Never ELSE 0]
      /\ useCount = [j \in Invites |-> IF j = i THEN n - 1 ELSE 0]
      /\ inviteUse = [j \in Invites |-> IF j = i THEN Users \ {c} ELSE {}]
      /\ keyOf = [u \in Users |-> None] /\ report = [r \in Reports |-> {}]
  BY DEF Started
<1>4. owner = [w \in Writers |-> IF \E u \in Users : bind[u] = w
                                 THEN CHOOSE u \in Users : bind[u] = w ELSE None]
  BY DEF Started
<1>5. admission = [r \in Requests |->
        IF \E u \in Users \ {c} : request[u] = r
        THEN [invite |-> i, user |-> CHOOSE u \in Users \ {c} : request[u] = r,
              writer |-> bind[CHOOSE u \in Users \ {c} : request[u] = r]]
        ELSE NoAdmission]
  BY DEF Started
<1> HIDE DEF n
<1>6. \A w \in Writers : /\ owner[w] # None => owner[w] \in Users /\ bind[owner[w]] = w
                         /\ \A u \in Users : bind[u] = w => owner[w] = u
  BY <1>2, <1>4
<1>7. owner \in [Writers -> Users \cup {None}]
  BY <1>4
<1>8. TypeOK
  <2>1. seen \in 0 .. MaxOps
    BY <1>1, <1>3, Constants
  <2>2. RoomType
    <3>1. memberCount \in 0 .. MaxMembers
      BY <1>1, <1>3, Constants
    <3>2. QED
      BY <1>3, <3>1 DEF RoomType
  <2>3. MemberType
    <3>1. joinedAt \in [Users -> 0 .. MaxTime]
      BY <1>3, Constants
    <3>2. role \in [Users -> Roles] /\ writerOf \in [Users -> Writers \cup {None}]
      BY <1>2, <1>3 DEF Roles
    <3>3. QED
      BY <1>3, <3>1, <3>2 DEF MemberType
  <2>4. WriterType
    BY <1>2, <1>3, <1>7 DEF WriterType
  <2>5. InviteType
    <3>1. expiresAt \in [Invites -> 0 .. Never]
      BY <1>3, Constants DEF Never
    <3>2. useCount \in [Invites -> Nat]
      BY <1>1, <1>3
    <3>3. QED
      BY <1>3, <3>1, <3>2 DEF InviteType
  <2>6. AdmissionType
    <3>1. SUFFICES ASSUME NEW r \in Requests PROVE admission[r] \in Admissions \cup {NoAdmission}
      BY <1>5 DEF AdmissionType
    <3>2. CASE \E u \in Users \ {c} : request[u] = r
      <4>1. PICK u \in Users : u = CHOOSE v \in Users \ {c} : request[v] = r
        BY <3>2
      <4>2. admission[r] = [invite |-> i, user |-> u, writer |-> bind[u]]
        BY <1>5, <3>2, <4>1
      <4>3. QED
        BY <1>2, <4>1, <4>2 DEF Admissions
    <3>3. CASE ~(\E u \in Users \ {c} : request[u] = r)
      BY <1>5, <3>3
    <3>4. QED
      BY <3>2, <3>3
  <2>7. StaffType
    BY <1>3 DEF StaffType
  <2>8. QED
    BY <2>1, <2>2, <2>3, <2>4, <2>5, <2>6, <2>7 DEF TypeOK
<1>9. Records
  BY <1>2, <1>3, Constants DEF Records
<1>10. MemberCountExact /\ OneLiveInvite /\ CreatorStays
  BY <1>3, Constants DEF MemberCountExact, OneLiveInvite, Live, CreatorStays, n
<1>11. WriterSpeaksForOne /\ WritersFollowMembers
  BY <1>2, <1>3, <1>6 DEF WriterSpeaksForOne, WritersFollowMembers
<1>12. EachJoinOnOneInvite
  <2>1. Cardinality(Users \ {c}) = n - 1
    BY UserSets DEF n
  <2>2. \A j \in Invites : useCount[j] = Cardinality(inviteUse[j])
    BY <1>3, <2>1, FS_EmptySet
  <2>3. \A j, k \in Invites : j # k => inviteUse[j] \cap inviteUse[k] = {}
    BY <1>3
  <2>4. joined = (UNION {inviteUse[j] : j \in Invites}) \cup ({creator} \ {None})
    <3>1. UNION {inviteUse[j] : j \in Invites} = Users \ {c}
      BY <1>3
    <3>2. QED
      BY <1>3, <3>1, Constants
  <2>5. QED
    BY <2>2, <2>3, <2>4 DEF EachJoinOnOneInvite
<1>13. WriterWasAdmitted
  <2>1. SUFFICES ASSUME NEW u \in Users \ {c}
                 PROVE  admission[request[u]].user = u /\ admission[request[u]].writer = bind[u]
    BY <1>2, <1>3 DEF WriterWasAdmitted
  <2>2. (CHOOSE v \in Users \ {c} : request[v] = request[u]) = u
    BY <1>2, <2>1
  <2>3. admission[request[u]] = [invite |-> i, user |-> u, writer |-> bind[u]]
    BY <1>2, <1>5, <2>1, <2>2
  <2>4. QED
    BY <2>3
<1>14. ReferralForest
  BY <1>3 DEF ReferralForest
<1>15. Trail
  BY <1>3, <1>12, <1>13, <1>14 DEF Trail, JoinsTraceBack, ReportStaysReadable
<1>16. QED
  BY <1>8, <1>9, <1>10, <1>11, <1>15 DEF IInv

LEMMA StepIsMembership == [TimelineNext]_<<vars, timeline>> => [Next]_vars
<1>1. SUFFICES ASSUME TimelineNext PROVE Next
  BY DEF vars
<1>2. PICK id \in Ids :
        /\ Unmarked(id) /\ Mark(id)
        /\ \E w \in Writers, t \in Times :
             \/ MembershipOperation(w, t)
             \/ Authorised(w, t) /\ TimelineOperation(owner[w], t) /\ UNCHANGED view
  BY <1>1 DEF TimelineNext
<1>3. PICK w \in Writers, t \in Times :
             \/ MembershipOperation(w, t)
             \/ Authorised(w, t) /\ TimelineOperation(owner[w], t) /\ UNCHANGED view
  BY <1>2
<1>4. CASE MembershipOperation(w, t)
  <2>1. CASE Authorised(w, t) /\ \E r \in Requests, i \in Invites, u \in Users, k \in Writers :
               MemberAdmit(t, r, i, u, k, u)
    <3>1. ActorOperation(w, t)
      BY <2>1 DEF ActorOperation
    <3>2. QED
      BY <1>2, <3>1 DEF Next
  <2>2. CASE Authorised(w, t) /\ \E u \in Users : MemberRemove(w, u)
    <3>1. ActorOperation(w, t)
      BY <2>2 DEF ActorOperation
    <3>2. QED
      BY <1>2, <3>1 DEF Next
  <2>3. CASE Authorised(w, t) /\ (MemberLeave(w) \/ RoomClose(w))
    <3>1. ActorOperation(w, t)
      BY <2>3 DEF ActorOperation
    <3>2. QED
      BY <1>2, <3>1 DEF Next
  <2>4. CASE \E s \in Users, r \in Requests, i \in Invites, u \in Users : MemberClaim(w, t, s, r, i, u, u)
    <3>1. NewcomerOperation(w, t)
      BY <2>4 DEF NewcomerOperation
    <3>2. QED
      BY <1>2, <3>1 DEF Next
  <2>5. QED
    BY <1>4, <2>1, <2>2, <2>3, <2>4 DEF MembershipOperation
<1>5. CASE UNCHANGED view
  BY <1>2, <1>5 DEF Next, NoEffect
<1>6. QED
  BY <1>3, <1>4, <1>5

\* A room with its timeline keeps every invariant of membership: counts, the
\* single invite, writers and members, and the record of joins.
THEOREM RoomStaysSound == TimelineSpec => [](IInv /\ Trail)
<1>1. TimelineInit => IInv /\ Trail
  <2>1. SUFFICES ASSUME TimelineInit PROVE IInv /\ Trail
    OBVIOUS
  <2>2. PICK c \in Users, i \in Invites, bind \in Injection(Users, Writers) :
               \E request \in Injection(Users \ {c}, Requests) : Started(c, i, bind, request)
    BY <2>1 DEF TimelineInit
  <2>3. PICK request \in Injection(Users \ {c}, Requests) : Started(c, i, bind, request)
    BY <2>2
  <2>4. QED
    BY <2>3, StartIsSound
<1>2. IInv /\ Trail /\ [TimelineNext]_<<vars, timeline>> => IInv' /\ Trail'
  BY StepIsMembership, NextIInv, NextTrail
<1>3. QED
  BY <1>1, <1>2, PTL DEF TimelineSpec

-----------------------------------------------------------------------------
(* Types. *)

\* What the type invariant says beyond IInv and CInv.
Values ==
  /\ slowMode \in SlowModes
  /\ \A e \in placed : e.kind \in Posts \cup Notices \cup {"answer"}
  /\ reactions \subseteq ItemIds \X Users
  /\ market \in [Polls -> Markets \cup {None}]

LEMMA PlaceKeepsValues ==
  ASSUME Values, NEW kind \in Posts \cup Notices \cup {"answer"}, NEW id, NEW u, NEW t, NEW ref, NEW file,
         Place(kind, id, u, t, ref, file), UNCHANGED <<slowMode, reactions, market>>
  PROVE  Values'
<1>1. \A e \in placed' : e \in placed \/ e.kind = kind
  BY DEF Place, Record
<1>2. QED
  BY <1>1 DEF Values

\* What the members do; removals, departures and admissions leave notices.
LEMMA StepKeepsValues == CInv /\ Values /\ [TimelineNext]_<<vars, timeline>> => Values'
<1> SUFFICES ASSUME CInv, Values, [TimelineNext]_<<vars, timeline>> PROVE Values'
  OBVIOUS
<1>1. CASE UNCHANGED <<vars, timeline>>
  BY <1>1 DEF Values, timeline, content
<1>2. CASE TimelineNext
  <2>1. PICK w \in Writers, t \in Times :
             \/ MembershipOperation(w, t)
             \/ Authorised(w, t) /\ TimelineOperation(owner[w], t) /\ UNCHANGED view
    BY <1>2 DEF TimelineNext
  <2>2. CASE MembershipOperation(w, t)
    <3>0. ASSUME NEW kind \in Notices, NEW u, SystemItem(kind, u, t), UNCHANGED <<slowMode, reactions, market>>
          PROVE  Values'
      <4>1. CASE Place(kind, NoticeId, u, t, None, None)
        BY <3>0, <4>1, PlaceKeepsValues
      <4>2. CASE UNCHANGED <<sequence, placed>>
        BY <3>0, <4>2 DEF Values
      <4>3. QED
        BY <3>0, <4>1, <4>2 DEF SystemItem
    <3>1. CASE \E u \in Users : EntryNotice(u, t)
      <4>1. PICK u \in Users : EntryNotice(u, t)
        BY <3>1
      <4>2. CASE SystemItem("joined", u, t)
        BY <3>0, <4>1, <4>2 DEF EntryNotice, Notices
      <4>3. CASE UNCHANGED <<sequence, placed>>
        BY <4>1, <4>3 DEF EntryNotice, Values
      <4>4. QED
        BY <4>1, <4>2, <4>3 DEF EntryNotice
    <3>2. CASE \E kind \in Departures : \E u : Notice(kind, u, t)
      BY <3>0, <3>2 DEF Notice, Notices, Departures
    <3>3. CASE UNCHANGED timeline
      BY <3>3 DEF Values, timeline, content
    <3>4. QED
      BY <2>2, <3>1, <3>2, <3>3 DEF MembershipOperation, Departures
  <2>3. CASE Authorised(w, t) /\ TimelineOperation(owner[w], t)
    <3> DEFINE u == owner[w]
    <3>0. u \in Users
      BY <2>3 DEF Authorised, CInv, Shapes
    <3> HIDE DEF u
    <3>1. CASE \E seconds \in SlowModes : SlowMode(u, seconds)
      BY <3>1 DEF SlowMode, Values, content
    <3>2. CASE \E id \in ItemIds, quoted \in ItemIds \cup {None}, file \in Attachments \cup {None} :
                 Message(u, t, id, quoted, file)
      BY <3>2, PlaceKeepsValues DEF Message, Post, Posts
    <3>3. CASE \E id \in ItemIds, p \in Polls : CreatePoll(u, t, id, p)
      BY <3>3, PlaceKeepsValues DEF CreatePoll, Post, Posts
    <3>4. CASE \E id \in ReplyIds, item \in Targets : Reply(u, t, id, item)
      BY <3>4, PlaceKeepsValues DEF Reply, Post, Posts
    <3>5. CASE \E call \in Calls, token \in Tokens : Answer(u, t, call, token)
      BY <3>5, PlaceKeepsValues DEF Answer
    <3>6. CASE \/ \E p \in Polls, option \in Options : Vote(u, p, option)
               \/ \E core \in Cores : BindMediaCore(u, core)
      BY <3>6 DEF Vote, BindMediaCore, Values
    <3>7. CASE \E item \in ItemIds : React(u, item)
      BY <3>0, <3>7 DEF React, Values
    <3>8. CASE \E p \in Polls, m \in Markets : AttachMarket(u, p, m)
      BY <3>8 DEF AttachMarket, Values
    <3>9. QED
      BY <2>3, <3>1, <3>2, <3>3, <3>4, <3>5, <3>6, <3>7, <3>8 DEF TimelineOperation, u
  <2>4. QED
    BY <2>1, <2>2, <2>3
<1>3. QED
  BY <1>1, <1>2

\* Every record of the room and of its timeline has the shape its handler
\* writes: references name known items, authors are users, and the attachments
\* and markets stored are ones that were offered.
THEOREM TimelineTypes == TimelineSpec => []TimelineOK
<1>1. TimelineInit => Values
  <2>1. SUFFICES ASSUME TimelineInit PROVE Values
    OBVIOUS
  <2>2. \A e \in placed : e.kind \in Entries
    BY <2>1, StartIsDense
  <2>3. QED
    BY <2>1, <2>2, SlowModeAssumption DEF TimelineInit, Values, Entries, Notices
<1>2. IInv /\ CInv /\ Values => TimelineOK
  <2>1. SUFFICES ASSUME IInv, CInv, Values PROVE TimelineOK
    OBVIOUS
  <2>2. TypeOK /\ sequence \in Nat
    BY <2>1 DEF IInv, CInv, Dense
  <2>3. \A e \in placed : e.seq \in Nat
    <3>1. SUFFICES ASSUME NEW e \in placed PROVE e.seq \in 1 .. sequence
      BY <2>2
    <3>2. QED
      BY <2>1 DEF CInv, Dense
  <2>4. \A e \in placed : /\ e.at \in Times /\ e.author \in Users
                          /\ e.file \in Attachments \cup {None}
    BY <2>1 DEF CInv, Shapes
  <2>5. /\ lastPostAt \in [Users -> 0 .. MaxTime] /\ replyCount \in [Targets -> Nat]
        /\ votes \subseteq Polls \X Users \X Options
        /\ mediaCore \in [Users -> Cores \cup {None}]
    BY <2>1 DEF CInv, Shapes
  <2>6. QED
    BY <2>1, <2>2, <2>3, <2>4, <2>5 DEF Values, TimelineOK
<1>3. CInv /\ Values /\ [TimelineNext]_<<vars, timeline>> => Values'
  BY StepKeepsValues
<1>4. QED
  BY <1>1, <1>2, <1>3, TimelineIsSound, RoomStaysSound, PTL DEF TimelineSpec
=============================================================================
