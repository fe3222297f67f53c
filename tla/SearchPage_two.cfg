SPECIFICATION TwoSpec
CONSTANTS
  NAddr = 4
  NMail = 5
  NoMail = NoMail
  Inner <- TwoInside
  PageSize = 2
  Chunk = 2
  MaxRequests = 2
  MaxKills = 1
INVARIANTS TypeOK WriteQueueBounded PageIsNewest PageIsComplete RaisesOnlyOnTornOrPhantom
PROPERTIES PageEnds
CHECK_DEADLOCK FALSE
