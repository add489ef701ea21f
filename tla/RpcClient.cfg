SPECIFICATION Spec
CONSTANTS
  Callers = {k1, k2}
  Retries = 0
  MaxInits = 1
  ClosingCallers = {k2}
  Conns = {c1, c2}
  Addrs <- MCAddrs
  Pools <- MCPools
  Users <- MCUsers
  Size = 1
  Remote <- MCRemote
  Nil = Nil
SYMMETRY Symmetry
INVARIANTS OwnAnswer IdleIsQuiet OneOwner UsableOpen NoLostConn
CHECK_DEADLOCK FALSE
