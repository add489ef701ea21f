SPECIFICATION FairSpec
CONSTANTS
  Users = {u1}
  Starts = {i1}
  Conns = {c1}
  Ports = {p1, p2}
  Conf = Conf
  Subs = {}
  Nil = Nil
  ValidHost = TRUE
  UseWg = TRUE
  Failing = {c1}
  MaxFails = 0
  MaxReqs = 0
  MaxInits = 0
  MaxExpiries = 1
PROPERTY StopAlwaysReturns
CHECK_DEADLOCK FALSE
