\* One device joins a room through two hosts, with two faults or moderations; two messages and one slot;
\* two sessions of a user; two imports beside three exports;
\* a log of six records that a peer reads through two sittings; three pages of a browser;
\* or a device that starts, with three manifests, secrets and identities.
SPECIFICATION PeerSpec
CONSTANTS
  boss = boss
  host = host
  guest = guest
  kb = kb
  kh = kh
  kg = kg
  Users = {boss, host, guest}
  Hosts = {boss, host}
  Candidate = guest
  Creator = boss
  Writers = {kb, kh, kg, k1}
  FirstWriter <- MCFirstWriter
  Invites = {i1, i2}
  Requests = {q1, q2, q3}
  Keys = {}
  Reports = {}
  Names = {n1}
  None = None
  MaxTime = 1
  MaxOps = 0
  MaxMembers = 3
  MaxStaff = 1
  MaxFaults = 2
  Items = {x1, x2}
  MaxActive = 1
  MaxUpsets = 2
  People = {v1}
  Sessions = {x1, x2}
  MaxDevices = 1
  Skew = 1
  Lease = 2
  TypingLease = 1
  MaxFrames = 3
  MaxNow = 3
  Uploads = {x1, x2}
  Downloads = {y1, y2, y3}
  Bytes = {a, b}
  MaxChunks = 2
  MaxActiveUploads = 1
  MaxActiveDownloads = 1
  MaxReads = 1
  MaxBegins = 2
  Log <- MCLog
  CallIds = {"d1", "d2"}
  EventIds = {"g1", "g2"}
  MaxWindow = 2
  MaxReopens = 1
  Pages = {x1, x2, x3}
  MaxEventBacklog = 2
  MaxSubscriptions = 2
  MaxEvents = 4
  MaxIssued = 3
  MaxMade = 3
SYMMETRY Symmetry
INVARIANTS
  PeerOK
  JoinsHold
  ShownIsThere
  TransfersGoThrough
  ProjectionFollowsFeed
  EventsReachPages
PROPERTIES
  OneIntentEach
  DevicesComeUpAgain
CHECK_DEADLOCK FALSE
