SPECIFICATION InstancesSpec
CONSTANTS
  p1 = p1
  p2 = p2
  p3 = p3
  g1 = g1
  w1 = w1
  Servers = {p1, p2, p3}
  Services = {"S"}
  Versions = {"v1", "v2"}
  ServiceOf <- OneService
  VersionOf <- TwoVersions
  Watchers = {w1, w2}
  MaxOps = 2
  Getters = {g1, g2}
  MaxFails = 1
  CanStop = TRUE
  Nil = Nil
INVARIANTS WatchedIsRun FreshIsWatched UpdateMirrorsRegistry
PROPERTIES CacheConverges
CHECK_DEADLOCK FALSE
