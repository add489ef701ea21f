SPECIFICATION Spec
CONSTANTS
  Users = {u1}
  Starts = {i1, i2}
  Conns = {}
  Ports = {p1, p2}
  Conf = Conf
  Subs = {b1, b2}
  Nil = Nil
  ValidHost = TRUE
  UseWg = TRUE
  Failing = {}
  MaxFails = 3
  MaxReqs = 0
  MaxInits = 1
  MaxExpiries = 1
INVARIANTS StoppedIsGone OneRegistrar SubscriptionsMatch
CHECK_DEADLOCK FALSE
