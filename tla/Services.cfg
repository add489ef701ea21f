SPECIFICATION ServicesSpec
CONSTANTS
  RtObjects = {o1, o2}
  RtUpdates = {u1}
  RtLoops = {l1}
  RtMaxForks = 2
  RtMaxRetries = 1
  KbSpaces = {default, other}
  KbDefault = default
  KbNames = {a}
  KbVersions = {none, v1}
  KbNoVersion = none
  KbMaxOps = 3
  LgPods = {"p1", "p2"}
  LgLines = 2
  LgStoppers = {"s1", "s2"}
  WebPatterns = {root}
  WebRoot = root
  SoMaxOptions = 2
  RrCalls = {c1, c2, c3}
  RrMessages = {m1}
  RrSubscribers = {s1, s2}
  CfSources = {1, 2}
  CfData = {b, bad}
  CfNone = none
  CfBad = bad
  CfStart = a
  CfOpLimit = 3
  CfBuffer = 1
  ArServices = {s1}
  ArMaxVersion = 2
  ArMaxChanges = 4
  PtMaxTokens = 6
  PtMaxPath = 3
  ApRequests = {r1, r2}
  ApBuffers = {b1, b2}
  MdServices = {s1}
  MdNodes = {n1, n2}
  MdStar = star
  MdQueries = {q1}
  MdWatchers = {w1, w2}
  MdStarters = {g1, g2}
  MdRoom = 1
  MdMaxOps = 2
  EtNodes = {n1}
  EtNodeData = {d1, d2}
  EtServiceData = {e1, e2}
  EtLeft = 1
  EtMaxOps = 3
  EtBatch = 1
  SlCallers = {c1, c2}
  SlMaxInt = 3
  SlMaxPicks = 3
  AdServers = {s1, s2}
  AdPorts = 2
  AdMaxAddrs = 2
  AdMaxStarts = 3
  MsKeys = {1, 2}
  MsReads = {r1}
  MsMaxWrites = 2
  MsMaxTime = 3
  FsClients = {c1, c2}
  FsMaxTransfers = 3
  FsBlock = 2
  FsSizes = {3}
  FsMaxFails = 1
  AuMaxRules = 2
  AuMaxPriority = 1
INVARIANTS RuntimesSound ServicePartsSound CallsAnswered ConfigFollowsSources  RequestsApart NodesFound DataSound
CHECK_DEADLOCK FALSE
