SPECIFICATION InstancesSpec
CONSTANTS
  p1 = p1
  p2 = p2
  p3 = p3
  g1 = g1
  w1 = w1
  Servers = {p1, p2}
  Services = {"S"}
  Versions = {"v1"}
  ServiceOf <- OneService
  VersionOf <- OneVersion
  Watchers = {w1}
  MaxOps = 4
  Getters = {g1}
  MaxFails = 0
  CanStop = FALSE
  Nil = Nil
INVARIANT NoResurrection
CHECK_DEADLOCK FALSE
