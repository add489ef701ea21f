SPECIFICATION FairSpec
CONSTANTS
  Users = {u1}
  Starts = {i1, i2}
  Conns = {c1}
  Ports = {p1}
  Conf = Conf
  Subs = {}
  Nil = Nil
  ValidHost = TRUE
  UseWg = TRUE
  Failing = {c1}
  MaxFails = 1
  MaxReqs = 1
  MaxInits = 0
  MaxExpiries = 1
INVARIANT DrainedBeforeClose
PROPERTIES StopReturns KeptRegistered
CHECK_DEADLOCK FALSE
