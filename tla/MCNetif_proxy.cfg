SPECIFICATION Spec
CONSTANTS
  NULL = NULL
  Cids = {0, 1}
  CidMax = 2
  ProxyLen = 2
  PingLen = 1
  PingNums = {}
  Flagged = {TRUE, FALSE}
INVARIANTS TypeOK TableFollowsPdp
PROPERTIES SendersReturn
CHECK_DEADLOCK FALSE
