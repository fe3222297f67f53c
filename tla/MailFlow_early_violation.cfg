SPECIFICATION Spec
CONSTANTS
  s1 = s1
  s2 = s2
  a = a
  b = b
  h = h
  Socket = {s1}
  Arg = {a, b}
  NoArg = NoArg
  Header = {h}
  NoMail = NoMail
  Line <- MailLines
  MaxData = 3
  MaxLines <- Four
  Faulty = {s1}
  MaxWire = 2
  Polite = TRUE
  OpenFirst = FALSE
PROPERTIES
  DataHandlerCalled
CHECK_DEADLOCK FALSE
