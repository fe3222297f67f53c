------------------------------- MODULE MCParts -------------------------------
(***************************************************************************)
(* Instances of the parts that run by themselves, side by side: part says  *)
(* which of them moves, and the others stay at a first state.              *)
(***************************************************************************)
EXTENDS LineReader, Formats, Headers, Geocoder, Snappy, SnappyWords, Registration, MailKeys

VARIABLE part

\* The sequences over S of at most n elements.
UpTo(S, n) == UNION {[1..k -> S] : k \in 0..n}

\* What is sent: \r, \n, a blank, the dot, D and d.
LinesInTheClear == UpTo({13, 10, 32, 46, 68}, 6)
LinesUnderTls == UpTo({13, 10, 100, 68}, 4)

AnyNumber == {0, 1, 9, 10, 11, 99, 100, 101, 999, 1000, 65535, 99999, 100000, 999999, 1000000}
SomeTimes == [year : {112, 113}, mon : {0, 11}, mday : {9, 31}, hour : {0, 23}, min : {59},
              sec : {9, 10}, millis : {99, 100}]
SomeAddresses == {<<0, 9, 99, 255>>, <<255, 1, 10, 0>>}
SomeBytes == UpTo({0, 1, 127, 255}, 3) \cup {[i \in 1..n |-> (7 * i) % 256] : n \in 4..13}
SomeTexts == UpTo({65, 47, 61, 13, 200}, 5) \cup [1..6 -> {65, 61, 200}]

\* Every word a bucket of its own, all words one, and two for all.
AnyHash(k, word) ==
  CASE k = "perfect" -> word
    [] k = "one" -> <<0>>
    [] k = "two" -> <<FoldLeft(+, 0, word) % 2>>

\* Repetitions of three pieces; nothing to find, up to the margins of a block;
\* matches behind a literal too long for its tag; and one byte over and over,
\* to lengths at which copies are cut, and over the end of a block.
Piece(n) == [k \in 1..6 |-> CASE n = 0 -> 1 [] n = 1 -> (k % 2) + 1 [] n = 2 -> k]
SomeInputs ==
  {FlattenSeq([k \in 1..4 |-> Piece(q[k])]) : q \in [1..4 -> {0, 1, 2}]}
  \cup {[i \in 1..n |-> (i * i) % 7] : n \in {1, 14, 15, 16, 31}}
  \cup {[i \in 1..n |-> IF i < 66 THEN i * 3 ELSE i % m] : n \in {80, 110}, m \in {1, 3, 50}}
  \cup {[i \in 1..n |-> 9] : n \in (64..69) \cup (88..91) \cup {128}}

\* Every short run of tags and other bytes; varints that are too long or end
\* early; and a literal with one copy at the end of the output.
SomeStreams ==
  {<<n>> \o s : n \in {0, 5}, s \in UpTo({0, 4, 1, 5, 14, 240, 2, 3}, 3)}
  \cup {<<>>, <<6, 252, 255, 255, 255, 255, 0, 7, 17, 1>>, <<128, 128, 128, 128, 16>>,
        <<128, 128, 128, 128, 1, 0, 7>>, <<128, 128>>, <<128, 128, 128, 128, 128, 0>>}
  \cup {<<n, 4 * (k - 1)>> \o [i \in 1..k |-> i] \o <<c, o>> :
          n \in {17, 20, 27, 30, 33}, k \in {1, 2, 3, 9, 16}, c \in {1, 29}, o \in {1, 2, 3, 8, 9, 16}}

\* a, a_, a__4, a__a, a___, a_a, aa, a0, a__2_, a__9_ and a__50.
SomeRecipients ==
  {<<97>>, <<97, 95>>, <<97, 95, 95, 52>>, <<97, 95, 95, 97>>, <<97, 95, 95, 95>>,
   <<97, 95, 97>>, <<97, 97>>, <<97, 48>>, <<97, 95, 95, 50, 95>>, <<97, 95, 95, 57, 95>>,
   <<97, 95, 95, 53, 48>>}

\* Repetitions with one byte changed, up to three words long; numbers of every
\* size; and blocks at the sizes of tables.
SomeMemories ==
  {[i \in 1..n |-> IF i = at THEN 144 ELSE i % d] :
     n \in {1, 4, 8, 9, 17, 21}, d \in {1, 3, 8, 30}, at \in {0, 3, 9, 13, 16, 17, 20, 21}}
SomeWords ==
  {[i \in 1..4 |-> IF i = at THEN b ELSE IF i < at THEN c ELSE 0] :
     at \in 1..4, b \in {1, 6, 128, 255}, c \in {0, 255}}
SomeLengths == {1, 256, 257, 1024, 1025, 16384, 32768}

\* A first state of each.
ReaderRests == sent = <<>> /\ secure = FALSE /\ ReaderInit
SnappyRests ==
  /\ input = <<>> /\ stream = <<>> /\ kind = "one" /\ phase = "open" /\ reach = 0
  /\ comp = Compressing(0) /\ dec = NoDecompressor /\ out = NoWriter
KeysRest == asked = <<>> /\ stored = {} /\ found = {}

PartsInit ==
  \E p \in {"reader", "formats", "headers", "geocoder", "snappy", "words", "registration", "keys"} :
    /\ part = p
    /\ IF p = "reader" THEN ReaderInit ELSE ReaderRests
    /\ FormatInit /\ HeadersInit /\ GeocoderInit /\ WordsInit
    /\ RegistrationInit
    /\ IF p = "snappy" THEN SnappyInit ELSE SnappyRests
    /\ IF p = "keys" THEN KeysInit ELSE KeysRest

PartsNext ==
  /\ UNCHANGED part
  /\ \/ /\ part = "reader" /\ ReaderNext
        /\ UNCHANGED <<formatVars, headerVars, geocoderVars, snappyVars, wordVars, registrationVars, keysVars>>
     \/ /\ part = "formats" /\ FormatNext
        /\ UNCHANGED <<readerVars, headerVars, geocoderVars, snappyVars, wordVars, registrationVars, keysVars>>
     \/ /\ part = "headers" /\ HeadersNext
        /\ UNCHANGED <<readerVars, formatVars, geocoderVars, snappyVars, wordVars, registrationVars, keysVars>>
     \/ /\ part = "geocoder" /\ GeocoderNext
        /\ UNCHANGED <<readerVars, formatVars, headerVars, snappyVars, wordVars, registrationVars, keysVars>>
     \/ /\ part = "snappy" /\ SnappyNext
        /\ UNCHANGED <<readerVars, formatVars, headerVars, geocoderVars, wordVars, registrationVars, keysVars>>
     \/ /\ part = "words" /\ WordsNext
        /\ UNCHANGED <<readerVars, formatVars, headerVars, geocoderVars, snappyVars, registrationVars, keysVars>>
     \/ /\ part = "registration" /\ RegistrationNext
        /\ UNCHANGED <<readerVars, formatVars, headerVars, geocoderVars, snappyVars, wordVars,
                       keysVars>>
     \/ /\ part = "keys" /\ KeysNext
        /\ UNCHANGED <<readerVars, formatVars, headerVars, geocoderVars, snappyVars, wordVars, registrationVars>>

PartsSpec ==
  PartsInit /\ [][PartsNext]_<<part, readerVars, formatVars, headerVars, geocoderVars, snappyVars, wordVars, registrationVars, keysVars>>

\* Type invariant.
PartsTypeOK ==
  /\ ReaderTypeOK
  /\ HeadersTypeOK
  /\ GeocoderTypeOK
  /\ SnappyTypeOK
  /\ RegistrationTypeOK

\* What comes out of Snappy's decompressor is what the stream says, and its routines
\* on words and the sizes of its tables are what the compressor takes them for.
SnappyIsExact == DecodesAsMeant /\ WordsAreExact
==============================================================================
