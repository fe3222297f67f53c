SPECIFICATION Spec
CONSTANTS
  MaxConn = 2
  Fd = {3}
  Tls = {2}
  MayFail = TRUE
INVARIANTS TypeOK DescriptorKept FreedLeavesNothing FreedIsOver CloseIsLast OpenIsExact
CHECK_DEADLOCK FALSE
