SPECIFICATION Spec
CONSTANTS
  s1 = s1
  s2 = s2
  a = a
  b = b
  h = h
  Socket = {s1}
  Arg = {a, b}
  NoArg = NoArg
  Header = {h}
  NoMail = NoMail
  Line <- AnyLines
  MaxData = 2
  MaxLines <- Three
  Faulty = {s1}
  MaxWire = 2
  Polite = FALSE
  OpenFirst = FALSE
PROPERTIES
  SecureQuitCloses
CHECK_DEADLOCK FALSE
