SPECIFICATION PartsSpec
CONSTANTS
  MaxLine = 4
  MaxCmnd = 2
  ReadSize = 2
  PlainSent <- LinesInTheClear
  SecureSent <- LinesUnderTls
  LineLength = 8
  Numbers <- AnyNumber
  Times <- SomeTimes
  Addresses <- SomeAddresses
  Octets = {0, 10, 16, 100, 168, 192, 255}
  Ports = {25, 65535}
  Counts = {0, 1, 999999, 1000000}
  Binaries <- SomeBytes
  Texts <- SomeTexts
  Header = {"a", "b"}
  MaxDataLines = 5
  Geocode = {g1, g2}
  Address = {x}
  nil = nil
  Allocated = allocated
  MaxRestarts = 1
  BlockSize = 90
  SkipStart = 4
  Hash <- AnyHash
  HashKind = {"perfect", "one", "two"}
  Inputs <- SomeInputs
  Streams <- SomeStreams
  Fragment = {1, 3, 200}
  MaxMem = 128
  Memories <- SomeMemories
  Numbers32 <- SomeWords
  BlockLengths <- SomeLengths
  HandlerBlock = {b1, b2}
  Peer = {p}
  NULL = NULL
  Recipients <- SomeRecipients
  SocketIds = {49, 50, 53}
  MaxStored = 3
INVARIANTS
  PartsTypeOK LinesReachSession FormatsAreExact MailIsRead CacheIsSound
  SnappyIsExact SnappyGivesBack SetUpIsKept SearchFindsOwn
CHECK_DEADLOCK FALSE
