SPECIFICATION Spec
CONSTANTS
  NAddr = 1
  NMail = 3
  NoMail = NoMail
  Inner <- NoInner
  PageSize = 2
  Chunk = 2
  MaxRequests = 1
  MaxKills = 0
INVARIANTS LastChunkIsLast
CHECK_DEADLOCK FALSE
