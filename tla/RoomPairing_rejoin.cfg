\* The guest joins, leaves and joins again; one fault.
SPECIFICATION PairSpec
CONSTANTS
  boss = boss
  host = host
  guest = guest
  kb = kb
  kh = kh
  kg = kg
  Users = {boss, guest}
  Hosts = {boss}
  Candidate = guest
  Creator = boss
  Writers = {kb, kg, k1}
  FirstWriter <- MCFirstWriter
  Invites = {i1, i2}
  Requests = {q1, q2}
  Keys = {}
  Reports = {}
  Names = {n1}
  None = None
  MaxTime = 1
  MaxOps = 0
  MaxMembers = 2
  MaxStaff = 1
  MaxFaults = 1
INVARIANTS
  NotLockedOut
CHECK_DEADLOCK FALSE
