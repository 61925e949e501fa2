\* Every kind of operation, with a capacity that binds.
SPECIFICATION Spec
CONSTANTS
  Users = {u1, u2, u3}
  Writers = {w1, w2, w3, w4}
  Invites = {i1, i2}
  Requests = {r1, r2, r3}
  Keys = {k1, k2}
  Reports = {p1}
  Names = {n1}
  None = None
  MaxTime = 2
  MaxOps = 7
  MaxMembers = 2
  MaxStaff = 2
SYMMETRY Symmetry
INVARIANTS
  TypeOK
  MemberCountExact
  OneLiveInvite
  WritersMatchMembers
  JoinsTraceBack
  ReportStaysReadable
PROPERTIES
  EntryIsRegular
CHECK_DEADLOCK FALSE
