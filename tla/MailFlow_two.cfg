SPECIFICATION OneOrTwoSpec
CONSTANTS
  s1 = s1
  s2 = s2
  a = a
  b = b
  h = h
  Socket = {s1, s2}
  Arg = {a, b}
  NoArg = NoArg
  Header = {h}
  NoMail = NoMail
  Line <- EnvelopeLines
  MaxData = 3
  MaxLines <- SixAndOne
  Faulty = {s1}
  MaxWire = 1
  Polite = TRUE
  OpenFirst = TRUE
PROPERTIES
  ImplementsMailDrop
CHECK_DEADLOCK FALSE
