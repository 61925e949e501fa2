----------------------------- MODULE RoomTimeline -----------------------------
(***************************************************************************)
(* The timeline half of the room reducer, apps/desktop/workers/            *)
(* room-view.js, composed with the membership half: messages, replies,     *)
(* polls, votes, reactions, market and answer references, media bindings,  *)
(* slow mode and the notices that joins and departures leave.              *)
(*                                                                         *)
(* The behaviours start in a room that every user has joined.  Of the      *)
(* membership operations those that end or begin somebody's right to post  *)
(* are composed; renames, invites, roles, keys and reports change nothing  *)
(* the timeline reads.                                                     *)
(*                                                                         *)
(* An item, its message id and its text are one item id; an answer's token *)
(* and answer id, both drawn for one submission, are one token.  The id of *)
(* a notice is made from its operation's, whose number stands for it; no   *)
(* rule keeps a member from posting an item under such an id first.  Slow  *)
(* mode and clocks share a unit.                                           *)
(***************************************************************************)
EXTENDS RoomMembership, Functions

CONSTANTS
  ItemIds,    \* ids of messages and polls; a number is the id of an operation's notice
  ReplyIds,
  Polls, Options,
  Markets,    \* references to market contracts
  Calls, Tokens,
  Cores,      \* media core keys
  Media,      \* media ids an author gave its attachments
  SlowModes   \* values of slowModeSeconds

ASSUME SlowModeAssumption == SlowModes \subseteq Nat /\ 0 \in SlowModes
ASSUME CoreAssumption == None \notin Cores
\* The room that everybody joined had a place for each.
ASSUME StartAssumption == Cardinality(Users) <= MaxMembers /\ Cardinality(Users) < MaxOps

VARIABLES
  sequence,    \* meta/room.sequence
  slowMode,    \* meta/room.slowModeSeconds
  lastPostAt,  \* member/<id>.lastPostAt, 0 for null
  placed,      \* item/, reply/ and answer/ records, with the sequence they took
  replyCount,  \* reply-count/<item>
  votes,       \* poll-vote/<poll>/<user>: <<poll, user, option>>
  reactions,   \* reaction/<item>/<emoji>/<user>: <<item, user>>
  market,      \* marketReference of a poll
  mediaCore    \* media-core/<user>/<epoch>

content == <<placed, replyCount, votes, reactions, market, mediaCore>>
timeline == <<sequence, slowMode, lastPostAt, content>>

Posts == {"text", "poll", "reply"}
Notices == {"created", "joined", "removed", "left"}
Attachments == [media : Media, core : Cores]

\* What a reply can be about: messages, polls and notices.
Targets == ItemIds \cup 1 .. MaxOps

\* ref: the item quoted or replied to, the poll, or the call answered.
Record(s, kind, id, u, t, ref, file) ==
  [seq |-> s, kind |-> kind, id |-> id, author |-> u, at |-> t, ref |-> ref, file |-> file]

TimelineOK ==
  /\ TypeOK
  /\ sequence \in Nat
  /\ slowMode \in SlowModes
  /\ lastPostAt \in [Users -> 0 .. MaxTime]
  /\ \A e \in placed : /\ e.seq \in Nat /\ e.at \in Times
                       /\ e.kind \in Posts \cup Notices \cup {"answer"}
                       /\ e.author \in Users
                       /\ e.file \in Attachments \cup {None}
  /\ replyCount \in [Targets -> Nat]
  /\ votes \subseteq Polls \X Users \X Options
  /\ reactions \subseteq ItemIds \X Users
  /\ market \in [Polls -> Markets \cup {None}]
  /\ mediaCore \in [Users -> Cores \cup {None}]

\* The room after room.create by c, one invite.create and a member.admit for
\* everybody else, all of them at time 1.
Started(c, i, bind, request) ==
  /\ seen = Cardinality(Users) + 1
  /\ creator = c /\ closed = FALSE /\ name \in Names
  /\ activeInvite = i /\ memberCount = Cardinality(Users)
  /\ active = Users /\ banned = {} /\ joined = Users /\ referral = {}
  /\ role = [u \in Users |-> IF u = c THEN "creator" ELSE "member"]
  /\ writerOf = bind
  /\ joinedAt = [u \in Users |-> 1]
  /\ owner = [w \in Writers |-> IF \E u \in Users : bind[u] = w
                                THEN CHOOSE u \in Users : bind[u] = w ELSE None]
  /\ base = {bind[u] : u \in Users}
  /\ issued = {i} /\ revoked = {}
  /\ expiresAt = [j \in Invites |-> IF j = i THEN Never ELSE 0]
  /\ useCount = [j \in Invites |-> IF j = i THEN Cardinality(Users) - 1 ELSE 0]
  /\ inviteUse = [j \in Invites |-> IF j = i THEN Users \ {c} ELSE {}]
  /\ admission = [r \in Requests |->
       IF \E u \in Users \ {c} : request[u] = r
       THEN LET u == CHOOSE u \in Users \ {c} : request[u] = r
            IN [invite |-> i, user |-> u, writer |-> bind[u]]
       ELSE NoAdmission]
  /\ keyOf = [u \in Users |-> None]
  /\ report = [r \in Reports |-> {}]
  /\ sequence = Cardinality(Users)
  /\ placed \in {{Record(order[u], IF u = c THEN "created" ELSE "joined",
                         IF u = c THEN 1 ELSE order[u] + 1, u, 1, None, None) : u \in Users} :
                   order \in {f \in Bijection(Users, 1 .. Cardinality(Users)) : f[c] = 1}}

TimelineInit ==
  /\ \E c \in Users, i \in Invites, bind \in Injection(Users, Writers) :
       \E request \in Injection(Users \ {c}, Requests) : Started(c, i, bind, request)
  /\ slowMode = 0
  /\ lastPostAt = [u \in Users |-> 0]
  /\ replyCount = [j \in Targets |-> 0]
  /\ votes = {} /\ reactions = {}
  /\ market = [p \in Polls |-> None]
  /\ mediaCore = [u \in Users |-> None]

-----------------------------------------------------------------------------
(* Guards and writes shared by the handlers. *)

Items == {e \in placed : e.kind \in {"text", "poll"}}
\* No item-id/<id>, of a message, a poll or a notice.
NewItem(id) == \A e \in placed : e.kind \notin {"reply", "answer"} => e.id # id

\* nextSequence, on the room record as it is stored now.
FaultStaleSequence == sequence
NextSequence == sequence + 1

\* passesSlowMode: a clock that runs behind the last post does not pass.
PassesSlowMode(u, t) ==
  slowMode # 0 /\ lastPostAt[u] # 0 => t - lastPostAt[u] >= slowMode

Place(kind, id, u, t, ref, file) ==
  /\ sequence' = NextSequence
  /\ placed' = placed \cup {Record(NextSequence, kind, id, u, t, ref, file)}

\* The record of a post and the author's lastPostAt (markPosted).
Post(kind, id, u, t, ref, file) ==
  /\ ~closed /\ PassesSlowMode(u, t)
  /\ Place(kind, id, u, t, ref, file)
  /\ lastPostAt' = [lastPostAt EXCEPT ![u] = t]
  /\ UNCHANGED slowMode

-----------------------------------------------------------------------------
(* Operations of user u at time t. *)

SlowMode(u, seconds) ==
  /\ IsCreator(u) /\ ~closed
  /\ slowMode' = seconds
  /\ UNCHANGED <<sequence, lastPostAt, content>>

\* The attachment's core has to be the one bound to its author, and its media
\* id unused by that author.
OwnCore(u, file) == mediaCore[u] = file.core
UnusedMedia(u, file) ==
  \A e \in placed : e.kind = "text" /\ e.author = u /\ e.file # None => e.file.media # file.media

\* Only a message that is there already is quoted.
Quotable(quoted) == \E e \in Items : e.id = quoted /\ e.kind = "text"

Message(u, t, id, quoted, file) ==
  /\ NewItem(id)
  /\ quoted # None => Quotable(quoted)
  /\ file # None => OwnCore(u, file) /\ UnusedMedia(u, file)
  /\ Post("text", id, u, t, quoted, file)
  /\ UNCHANGED <<replyCount, votes, reactions, market, mediaCore>>

CreatePoll(u, t, id, p) ==
  /\ NewItem(id)
  /\ \A e \in Items : e.kind = "poll" => e.ref # p
  /\ Post("poll", id, u, t, p, None)
  /\ UNCHANGED <<replyCount, votes, reactions, market, mediaCore>>

OneMoreReply(item) == [replyCount EXCEPT ![item] = @ + 1]

\* The item may be a notice.
Reply(u, t, id, item) ==
  /\ \E e \in placed : e.kind \notin {"reply", "answer"} /\ e.id = item
  /\ \A e \in placed : e.kind = "reply" => e.id # id
  /\ Post("reply", id, u, t, item, None)
  /\ replyCount' = OneMoreReply(item)
  /\ UNCHANGED <<votes, reactions, market, mediaCore>>

NotVoted(u, p, option) == \A o \in Options : <<p, u, o>> \notin votes

FaultVoteLate(u, p, option) ==
  /\ NotVoted(u, p, option)
  /\ votes' = votes \cup {<<p, u, option>>}
  /\ UNCHANGED <<sequence, slowMode, lastPostAt, placed, replyCount, reactions, market, mediaCore>>

Vote(u, p, option) ==
  /\ ~closed
  /\ \E e \in Items : e.kind = "poll" /\ e.ref = p
  /\ NotVoted(u, p, option)
  /\ votes' = votes \cup {<<p, u, option>>}
  /\ UNCHANGED <<sequence, slowMode, lastPostAt, placed, replyCount, reactions, market, mediaCore>>

React(u, item) ==
  /\ ~closed
  /\ \E e \in Items : e.kind = "text" /\ e.id = item
  /\ reactions' = reactions \cup {<<item, u>>}
  /\ UNCHANGED <<sequence, slowMode, lastPostAt, placed, replyCount, votes, market, mediaCore>>

\* Only the author of the poll refers it to a market.
OwnPoll(u, p) == \E e \in Items : e.kind = "poll" /\ e.ref = p /\ e.author = u

FirstMarket(p, m) == market[p] \in {None, m}
AttachMarket(u, p, m) ==
  /\ ~closed /\ OwnPoll(u, p) /\ FirstMarket(p, m)
  /\ market' = [market EXCEPT ![p] = m]
  /\ UNCHANGED <<sequence, slowMode, lastPostAt, placed, replyCount, votes, reactions, mediaCore>>

\* One answer of a user to a call, and one use of a token.
NewAnswer(u, call, token) ==
  \A e \in placed : e.kind = "answer" => e.id # token /\ ~(e.author = u /\ e.ref = call)
Answer(u, t, call, token) ==
  /\ ~closed /\ NewAnswer(u, call, token)
  /\ Place("answer", token, u, t, call, None)
  /\ UNCHANGED <<slowMode, lastPostAt, replyCount, votes, reactions, market, mediaCore>>

\* The core a user bound stays bound; binding it again changes nothing.
FaultRebind(u, core) == TRUE
FirstCore(u, core) == mediaCore[u] \in {None, core}
BindMediaCore(u, core) ==
  /\ ~closed /\ FirstCore(u, core)
  /\ mediaCore' = [mediaCore EXCEPT ![u] = core]
  /\ UNCHANGED <<sequence, slowMode, lastPostAt, placed, replyCount, votes, reactions, market>>

-----------------------------------------------------------------------------
(* Membership operations and the notices they leave (appendSystemItem). *)

\* The operation that is applied is the one after the operations seen.
NoticeId == seen + 1

\* A notice whose id is taken is dropped.
FaultSystemItem(kind, u, t) == Place(kind, NoticeId, u, t, None, None)
SystemItem(kind, u, t) ==
  IF NewItem(NoticeId) THEN Place(kind, NoticeId, u, t, None, None) ELSE UNCHANGED <<sequence, placed>>

Notice(kind, u, t) ==
  /\ SystemItem(kind, u, t)
  /\ UNCHANGED <<slowMode, lastPostAt, replyCount, votes, reactions, market, mediaCore>>

\* The member record a rejoin writes keeps the time of the last post.
FaultForgetPost(u) == [lastPostAt EXCEPT ![u] = 0]
KeepLastPost(u) == lastPostAt

\* A second admission of an active member leaves no notice.
News(u) == u \notin active
EntryNotice(u, t) ==
  /\ lastPostAt' = KeepLastPost(u)
  /\ IF News(u) THEN SystemItem("joined", u, t) ELSE UNCHANGED <<sequence, placed>>
  /\ UNCHANGED <<slowMode, replyCount, votes, reactions, market, mediaCore>>

MembershipOperation(w, t) ==
  \/ /\ Authorised(w, t)
     /\ \/ \E r \in Requests, i \in Invites, u \in Users, k \in Writers :
             MemberAdmit(t, r, i, u, k, u) /\ EntryNotice(u, t)
        \/ \E u \in Users : MemberRemove(w, u) /\ Notice("removed", u, t)
        \/ MemberLeave(w) /\ Notice("left", owner[w], t)
        \/ RoomClose(w) /\ UNCHANGED timeline
  \/ \E s \in Users, r \in Requests, i \in Invites, u \in Users :
       MemberClaim(w, t, s, r, i, u, u) /\ EntryNotice(u, t)

TimelineOperation(u, t) ==
  \/ \E seconds \in SlowModes : SlowMode(u, seconds)
  \/ \E id \in ItemIds, quoted \in ItemIds \cup {None}, file \in Attachments \cup {None} :
       Message(u, t, id, quoted, file)
  \/ \E id \in ItemIds, p \in Polls : CreatePoll(u, t, id, p)
  \/ \E id \in ReplyIds, item \in Targets : Reply(u, t, id, item)
  \/ \E p \in Polls, option \in Options : Vote(u, p, option)
  \/ \E item \in ItemIds : React(u, item)
  \/ \E p \in Polls, m \in Markets : AttachMarket(u, p, m)
  \/ \E call \in Calls, token \in Tokens : Answer(u, t, call, token)
  \/ \E core \in Cores : BindMediaCore(u, core)

\* applyRoomNodes on the next node whose operation has no marker; rejected
\* operations change nothing but the marker.
TimelineNext ==
  \E id \in Ids :
    /\ Unmarked(id) /\ Mark(id)
    /\ \E w \in Writers, t \in Times :
         \/ MembershipOperation(w, t)
         \/ Authorised(w, t) /\ TimelineOperation(owner[w], t) /\ UNCHANGED view

TimelineSpec == TimelineInit /\ [][TimelineNext]_<<vars, timeline>>

-----------------------------------------------------------------------------
(* What must hold. *)

\* Every record on the timeline took a sequence number of its own and none was
\* skipped, an item id names one message, poll or notice, and the stored reply
\* count of an item is the number of its replies: pages, which are cut at
\* sequence numbers, neither repeat nor lose a record, although each handler
\* writes the records that hold the counters more than once.
SequenceIsDense ==
  /\ {e.seq : e \in placed} = 1 .. sequence
  /\ Cardinality(placed) = sequence
  /\ \A e, f \in placed :
       e.kind \notin {"reply", "answer"} /\ f.kind \notin {"reply", "answer"} /\ e.id = f.id => e = f
  /\ \A id \in Targets :
       replyCount[id] = Cardinality({e \in placed : e.kind = "reply" /\ e.ref = id})

\* Under slow mode a user's post comes the required time after the same user's
\* previous post, also when the user left in between and rejoined with another
\* writer.
SlowModeSpacing ==
  [][\A e \in placed' \ placed : e.kind \in Posts /\ slowMode # 0 =>
       \A p \in placed :
         /\ p.kind \in Posts /\ p.author = e.author
         /\ \A q \in placed : q.kind \in Posts /\ q.author = e.author => q.seq <= p.seq
         => e.at - p.at >= slowMode]_<<vars, timeline>>

\* The members' items that hold the notice id of an operation applied.
NoticesTaken == {e \in Items : e.id \in 1 .. seen}

\* The notices tell who is in the room: entries exceed departures by one for
\* a member and not at all for everybody else, through repeated admissions,
\* claims, rejoins and removals.  A notice is missing only where an item has its
\* id, and each such item costs one notice at most.
NoticesTellMembership ==
  \A u \in Users :
    LET Count(kinds) == Cardinality({e \in placed : e.author = u /\ e.kind \in kinds})
        told == Count({"created", "joined"}) - Count({"removed", "left"})
        taken == Cardinality(NoticesTaken)
    IN  told - (IF u \in active THEN 1 ELSE 0) \in -taken .. taken

\* Quotes and replies refer to records placed before them, so threads and
\* chains of quotes are finite.  The attachment of a message names the core its
\* author is bound to, now and later, so the check of Room.readMedia passes for
\* every member; no two messages of an author share a media id.
RefersBack ==
  /\ \A e \in placed :
       e.kind = "reply" \/ (e.kind = "text" /\ e.ref # None) =>
         \E p \in placed : p.kind \notin {"reply", "answer"} /\ p.id = e.ref /\ p.seq < e.seq
  /\ \A e \in placed : e.file # None =>
       /\ mediaCore[e.author] = e.file.core
       /\ \A f \in placed : f.file # None /\ f.author = e.author /\ f.file.media = e.file.media => f = e

\* A closed room gets no new content, by any operation of any member; only
\* departures still leave a notice.
ClosedIsFrozen ==
  [][closed => /\ \A e \in placed' \ placed : e.kind = "left"
               /\ UNCHANGED <<replyCount, votes, reactions, market, mediaCore>>]_<<vars, timeline>>

\* A user votes once in a poll and answers a call once, and no token is referred
\* to twice, so that no answer is scored twice, whatever writers the user has had.
OneChoiceEach ==
  /\ \A v, x \in votes : v[1] = x[1] /\ v[2] = x[2] => v = x
  /\ \A a, b \in {e \in placed : e.kind = "answer"} :
       a.id = b.id \/ (a.author = b.author /\ a.ref = b.ref) => a = b

\* The timeline and its counters tell the room's history as it was.
HistoryAddsUp == SequenceIsDense /\ NoticesTellMembership

\* What a record refers to is there and stays what it was, and nobody chose twice.
ReferencesHold == RefersBack /\ OneChoiceEach
=============================================================================
