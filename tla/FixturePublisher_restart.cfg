\* A stale status just before a restart.
SPECIFICATION Spec
CONSTANTS
  None = None
  Short = 1
  Long = 2
  MaxSeq = 4
  MaxTs = 1
  Codes = {"H1", "HT", "H2", "FT"}
  Sides = {}
  OddsTimes = {}
  MaxQueue = 1
  MaxCrashes = 1
  MaxFailures = 0
INVARIANTS
  PhasesHappenOnce
CHECK_DEADLOCK FALSE
