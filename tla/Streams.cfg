SPECIFICATION StreamsSpec
CONSTANTS
  HtSends = {s1, s2}
  HtRecvs = {r1, r2}
  HtRoom = 1
  HtTimeout = TRUE
  CsStreams = {c1}
  CsDeadline = {c1}
  CsRetries = 1
  CsPublishers = {p1, p2}
  RbReaders = {r1, r2}
  RbMaxPuts = 3
  RbSize = 2
  RbRoom = 1
  RbBacklog = 1
INVARIANTS RequestsKeptInOrder ConnectionHasOwner
PROPERTIES BlockedCallsReturn StreamIsFeed PutReturns
CHECK_DEADLOCK FALSE
