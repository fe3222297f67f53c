SPECIFICATION TableSpec
CONSTANTS
  Limit = 12
  Private = {2}
  c = c
  d = d
  Code = {c, d}
  PN = PN
  NoCode = NoCode
  Tables = {}
  MaxTable = 0
  Files <- SortedFiles
  MaxCrashes = 0
PROPERTIES LookupReturns
