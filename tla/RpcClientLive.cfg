SPECIFICATION FairSpec
CONSTANTS
  Callers = {k1}
  Retries = 1
  MaxInits = 1
  ClosingCallers = {}
  Conns = {c1, c2}
  Addrs <- MCAddrs
  Pools <- MCPools
  Users <- MCUsers
  Size = 1
  Remote <- MCRemote
  Nil = Nil
PROPERTIES CallReturns ConnGivenBack
CHECK_DEADLOCK FALSE
