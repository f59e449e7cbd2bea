CONSTANTS
  Patterns <- MCPatterns
  Dates <- MCDates
  w1 = w1
  w2 = w2
  w3 = w3
  WsMsgs = {w1, w2, w3}
  MaxParts = 2
  MaxFrames = 5
  Lengths <- MCLengths
  MaxBody = 524288
  TcpPackets <- MCTcpPackets
  Commands <- MCCommands
  MaxSent = 2
  EntryKeys = {"k", "j"}
  Idle = 2
  LocalIdle = 1
  MaxQueue = 3
  MaxBreaks = 1
  t1 = t1
  t2 = t2
  t3 = t3
  r1 = r1
  r2 = r2
  Nobody = Nobody
  Threads = {t1, t2, t3}
  Processes = {r1, r2}
  ProcessOf <- MCProcessOf
  PoolSize = 2
  MaxCalls = 2
  MaxFaults = 1
  n1 = n1
  n2 = n2
  c1 = c1
  c2 = c2
  c3 = c3
  p1 = p1
  p2 = p2
  v1 = v1
  v2 = v2
  Nodes = {n1, n2}
  Conns = {c1, c2, c3}
  HomeOf <- MCHomeOf
  Packets = {p1, p2}
  SenderOf <- MCSenderOf
  ModeOf <- MCModeOf
  Audience <- MCAudience
  MaxLosses = 1
  MaxWsFrames = 2
  Browsers = {v1, v2}
  MaxEdits = 1
  Absent = Absent
  Visitors = {v1}
  Requests = {c1, c2}
  VisitorOf <- MCVisitorOf
  MaxSessions = 3
  NoCookie = NoCookie
SPECIFICATION PartsSpec
CHECK_DEADLOCK FALSE
INVARIANT FieldsInPlace
INVARIANT SortsAsDates
INVARIANT PartsTypeOK
INVARIANT HandedWhole
INVARIANT LengthSurvives
INVARIANT StreamIsPackets
INVARIANT NoReadIsLost
INVARIANT LockIsKept
INVARIANT ListIsOneCalls
INVARIANT PoolIsWhole
INVARIANT KeyGetsExpiry
INVARIANT AtMostOneCopy
INVARIANT StayersHaveIt
INVARIANT FirstReadDecides
INVARIANT NotModifiedIsTrue
INVARIANT SessionFollows
PROPERTY CallsReturn
PROPERTY ComesToRest
