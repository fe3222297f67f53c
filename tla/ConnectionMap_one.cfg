SPECIFICATION FairMapSpec
CONSTANTS
  MaxConn = 1
  Fd = {3}
  MayFail = TRUE
  Tls = {}
  Private = {}
INVARIANTS MapTypeOK MarkerIsLive
PROPERTY StopReachesMap
CHECK_DEADLOCK FALSE
