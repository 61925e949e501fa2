\* Three requests of any kind on a stored and a new room; three calls of which two may be pending;
\* phases in any order, a crash and a rejected append; updates of a room; under fairness.
SPECIFICATION RequestsSpec
CONSTANTS
  Rooms = {r1, r2}
  Stored = {r1}
  NoRoom = NoRoom
  Tasks = {t1, t2, t3}
  Kinds = {"dispatch", "create", "join"}
  MaxHandles = 1
  MaxMade = 2
  Callers = {x1, x2, x3}
  MaxPending = 2
  None = None
  Short = 1
  Long = 2
  MaxSeq = 3
  MaxTs = 2
  Codes = {"H1", "H2"}
  Sides = {home}
  OddsTimes = {2}
  MaxQueue = 2
  MaxCrashes = 1
  MaxFailures = 1
  MaxVersion = 3
INVARIANTS
  RequestsOK
  HandlesAreKept
  PhasesUntilRestart
PROPERTIES
  EndsWithinBound
  EachCallEndsOnce
  NobodyWaitsForever
  EveryCallSettles
  WindowsFollow
CHECK_DEADLOCK FALSE
