\* A moderator that leaves and rejoins enlarges the roster past MAX_ROOM_MODERATORS.
SPECIFICATION Spec
CONSTANTS
  Users = {u1, u2, u3}
  Writers = {w1, w2, w3}
  Invites = {i1}
  Requests = {r1, r2, r3}
  Keys = {k1}
  Reports = {}
  Names = {n1}
  None = None
  MaxTime = 1
  MaxOps = 11
  MaxMembers = 3
  MaxStaff = 2
SYMMETRY Symmetry
INVARIANT ReportsReachStaff
CHECK_DEADLOCK FALSE
