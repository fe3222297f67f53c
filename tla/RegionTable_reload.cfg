SPECIFICATION EitherSpec
CONSTANTS
  Limit = 12
  Private = {2}
  c = c
  d = d
  Code = {c, d}
  PN = PN
  NoCode = NoCode
  Tables <- SmallTables
  MaxTable = 3
  Files <- SmallFiles
  MaxCrashes = 1
INVARIANTS TypeOK InTable FoundCovers CoveredIsFound
  LookupIsExact
PROPERTIES CoveredReturns
