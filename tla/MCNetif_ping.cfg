SPECIFICATION Spec
CONSTANTS
  NULL = NULL
  Cids = {0}
  CidMax = 2
  ProxyLen = 1
  PingLen = 1
  PingNums = {0, 2}
  Flagged = {FALSE}
INVARIANTS CallbacksAlive PingTidies
PROPERTIES PingEnds
CHECK_DEADLOCK FALSE
