SPECIFICATION Spec
CONSTANTS
  Ids = {x1, x2}
  StreamIds = {x1, x2}
  Socks = {s1, s2}
  Cap = 2
  MaxMsgs = 3
  MaxSends = 2
  MayGrow = TRUE
  Nil = Nil
INVARIANT BodiesIntact
CHECK_DEADLOCK FALSE
