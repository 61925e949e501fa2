\* Scores with goals, losses and abandonment, odds, and a crash between any two
\* appends of the publisher; or one member that answers a call in three tries,
\* under stops of either side, lost messages and timeouts;
\* or two batches of claims and one transaction that anchors them;
\* or two streams of four events over two breaks and two expired tokens.
SPECIFICATION ServicesSpec
CONSTANTS
  None = None
  Short = 1
  Long = 2
  MaxSeq = 4
  MaxTs = 3
  Codes = {"H1", "AB"}
  Sides = {home}
  OddsTimes = {3}
  MaxQueue = 2
  MaxCrashes = 1
  MaxFailures = 0
  Members = {v1}
  Calls = {c1}
  Rooms = {x1}
  Tries = {y1, y2, y3}
  Nobody = Nobody
  MaxClock = 1
  MaxOther = 1
  MaxInFlight = 2
  ServiceLimit = 2
  Feed <- MCFeed
  AnswerTokens <- MCTokens
  Transactions = {z1}
  Nowhere = Nowhere
  MaxClaims = 3
  MaxBatches = 2
  Streams = {"scores", "odds"}
  Strictness = {TRUE, FALSE}
  DedupeWindow = 3
  Overlap = 2
  MaxEvents = 4
  MaxBreaks = 2
  MaxJwts = 3
INVARIANTS
  ServicesOK
  OneVerdict
  HolesAreDeclared
  AcceptedAnswersCount
  ReceiptsProveThemselves
  EventsComeOnce
PROPERTIES
  PublishesAtomically
  GoalsComeInTime
  LedgerSpec
CHECK_DEADLOCK FALSE
