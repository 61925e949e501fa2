\* Messages and replies under slow mode, or polls, votes, market references,
\* answers and attachments, around leaving, rejoining and closing; or two views that
\* create markets; or two fans who answer two calls; or a window that pages
\* through a room of up to nine items.
SPECIFICATION TopicSpec
CONSTANTS
  Users = {u1, u2}
  Writers = {w1, w2, w3}
  Invites = {i1}
  Requests = {q1, q2}
  Keys = {}
  Reports = {}
  Names = {n1}
  None = None
  MaxTime = 2
  MaxOps = 8
  MaxMembers = 2
  MaxStaff = 1
  ItemIds = {m1, 5}
  ReplyIds = {k1, k2}
  Polls = {o1}
  Options = {k1, k2}
  Markets = {k1, k2}
  Calls = {x1}
  Tokens = {k1, k2}
  Cores = {k1, k2}
  Media = {x1}
  SlowModes = {0, 1}
  Views = {v1, v2}
  PollIds = {o1, o2}
  MarketIds = {s1, s2, s3}
  Null = Null
  Fans = {1, 2}
  Self = 2
  Questions = {q1, q2}
  Answers = {yes, no}
  Difficulties = {0, 40}
  Undecided = Undecided
  Window = 4
  PageSize = 2
  MaxScans = 2
  MaxItems = 9
  MaxBehind = 2
SYMMETRY Symmetry
INVARIANTS
  RoomOK
  HistoryAddsUp
  ReferencesHold
  PollsKeepTheirMarket
  BoardsAgree
  PagesReachEverything
PROPERTIES
  SlowModeSpacing
  ClosedIsFrozen
CHECK_DEADLOCK FALSE
