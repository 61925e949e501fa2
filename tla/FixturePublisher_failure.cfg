\* A rejected append with publications behind it.
SPECIFICATION Spec
CONSTANTS
  None = None
  Short = 1
  Long = 2
  MaxSeq = 4
  MaxTs = 3
  Codes = {"H1"}
  Sides = {home}
  OddsTimes = {}
  MaxQueue = 2
  MaxCrashes = 0
  MaxFailures = 1
INVARIANTS
  HolesAreDeclared
CHECK_DEADLOCK FALSE
