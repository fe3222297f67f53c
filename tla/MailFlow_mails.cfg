SPECIFICATION Spec
CONSTANTS
  s1 = s1
  s2 = s2
  a = a
  b = b
  h = h
  Socket = {s1}
  Arg = {a, b}
  NoArg = NoArg
  Header = {h}
  NoMail = NoMail
  Line <- GarbledLines
  MaxData = 3
  MaxLines <- Eight
  Faulty = {s1}
  MaxWire = 1
  Polite = TRUE
  OpenFirst = FALSE
INVARIANTS
  TypeOK
  SizeLimit
  KeysUnique
  StoredIsTail
PROPERTIES
  RaisesOnlyOnUndecodable
  NothingAfterCutOff
CHECK_DEADLOCK FALSE
