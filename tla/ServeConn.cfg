SPECIFICATION FairSpec
CONSTANTS
  Ids = {x1, x2}
  StreamIds = {x1}
  Socks = {s1, s2}
  Cap = 1
  MaxMsgs = 2
  MaxSends = 2
  MayGrow = FALSE
  Nil = Nil
INVARIANTS NoLostResponse ClosedAnswered
PROPERTY ServeConnReturns
CHECK_DEADLOCK FALSE
