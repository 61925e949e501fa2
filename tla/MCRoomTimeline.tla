--------------------------- MODULE MCRoomTimeline ---------------------------
(***************************************************************************)
(* What goes on in a room, as one instance for TLC.  A behaviour is about  *)
(* one topic: of RoomTimeline, posts at any time under slow mode, or what  *)
(* members contribute besides, at one time; the market of a poll; the      *)
(* scores; or the pages of a long room.  Members come and go at one time.  *)
(* The state of the other topics stays in an initial state.  Users,        *)
(* writers, options and the ids drawn with them are interchangeable.       *)
(***************************************************************************)
EXTENDS RoomTimeline, SlipMarket, RoomScores, RoomPages, TLC

VARIABLE topic

PostsOnly ==
  /\ UNCHANGED <<votes, reactions, market, mediaCore>>
  /\ Cardinality(Items') <= 1
  /\ \A e \in placed' : e.kind \notin {"poll", "answer"} /\ (e.kind \notin Posts => e.at = 1)
  /\ \A u \in Users : joinedAt'[u] <= 1

ContributionsOnly ==
  /\ UNCHANGED slowMode
  /\ \A e \in placed' : e.kind # "reply" /\ e.at = 1
  /\ \A u \in Users : joinedAt'[u] <= 1

TopicInit ==
  /\ topic \in {"posts", "contributions", "market", "scores", "pages"}
  /\ TimelineInit /\ SlipInit /\ ScoresInit /\ PagesInit
  /\ topic # "market" => flow = "phone"
  /\ topic # "scores" => \A q \in Questions : ~terms[q].scored /\ terms[q].difficulty = 0
  /\ topic # "pages" => scope = "thread" /\ count = 0

TopicNext ==
  /\ topic' = topic
  /\ IF topic \in {"posts", "contributions"} THEN TimelineNext ELSE UNCHANGED <<vars, timeline>>
  /\ topic = "posts" => PostsOnly
  /\ topic = "contributions" => ContributionsOnly
  /\ IF topic = "market" THEN SlipNext ELSE UNCHANGED slipVars
  /\ IF topic = "scores" THEN ScoresNext ELSE UNCHANGED scoresVars
  /\ IF topic = "pages" THEN PagesNext ELSE UNCHANGED pageVars

TopicSpec == TopicInit /\ [][TopicNext]_<<topic, vars, timeline, slipVars, scoresVars, pageVars>>

\* The state of every topic is well formed.
RoomOK == TimelineOK /\ SlipOK /\ ScoresOK /\ PagesOK

Symmetry == UNION {Permutations(S) : S \in {Users, Writers, Options}}
=============================================================================
