------------------------------- MODULE Headers -------------------------------
(***************************************************************************)
(* The application's reading of a mail's headers: handleData:withSocket:   *)
(* (SMAppDelegate.m), called with one line of the data segment after the   *)
(* other.  A line is what the code tells apart of it; one that is not      *)
(* UTF-8 becomes a nil string, and what a message to nil returns decides   *)
(* what happens to it.                                                     *)
(***************************************************************************)
EXTENDS Naturals, Sequences, FiniteSets

CONSTANTS
  Header,        \* header names, trimmed and in lower case
  MaxDataLines   \* bound: lines of a data segment

ASSUME HeaderAssumption == MaxDataLines \in Nat /\ "nil" \notin Header

VARIABLES
  dataLines,     \* history: the lines handled
  isInHeaders,
  lastHeader,    \* a name, or "nil"
  headers,       \* headers[name]: nil, a string, or an array; strings are named
                 \* by the number of their line
  data,          \* email.data
  dataSize,      \* email.dataSize
  raised         \* an exception has ended the process

headerVars == <<dataLines, isInHeaders, lastHeader, headers, data, dataSize, raised>>

\* blank: "\r\n"; named: does not begin with white space, and has a colon; folded:
\* begins with white space, and may have a colon; plain: has neither; undecodable.
\* name is what stands before a colon.
DataLine ==
  [kind : {"named"}, name : Header]
  \cup [kind : {"folded"}, name : Header \cup {"nil"}]
  \cup [kind : {"blank", "plain", "undecodable"}, name : {"nil"}]

NoValue == [is |-> "nil", of |-> <<>>]

HeadersInit ==
  /\ dataLines = <<>>
  /\ isInHeaders = TRUE
  /\ lastHeader = "nil"
  /\ headers = [h \in Header |-> NoValue]
  /\ data = <<>>
  /\ dataSize = 0
  /\ raised = FALSE

\* Fault: the second value replaces the first.
ValueReplaced(header, n) == [is |-> "string", of |-> <<n>>]

\* A string, then an array of two strings, then a longer array.
ValueAdded(header, n) ==
  [is |-> IF header.is = "nil" THEN "string" ELSE "array", of |-> Append(header.of, n)]

\* Line n is the value of a header, or a part of it.
Valued(name, n) ==
  /\ headers' = [headers EXCEPT ![name] = ValueAdded(@, n)]
  /\ lastHeader' = name
  /\ UNCHANGED <<isInHeaders, raised>>

\* A line in the headers, by what it holds.
BlankLine(line) ==
  /\ line.kind = "blank"
  /\ isInHeaders' = FALSE
  /\ UNCHANGED <<headers, lastHeader, raised>>

NamedLine(line, n) == line.kind = "named" /\ Valued(line.name, n)

\* A folded line continues the last header; without one its colon counts.
FoldedLine(line, n) ==
  /\ line.kind = "folded"
  /\ \/ lastHeader # "nil" /\ Valued(lastHeader, n)
     \/ lastHeader = "nil" /\ line.name # "nil" /\ Valued(line.name, n)
     \/ /\ lastHeader = "nil" /\ line.name = "nil"
        /\ isInHeaders' = FALSE
        /\ UNCHANGED <<headers, lastHeader, raised>>

PlainLine(line) ==
  /\ line.kind = "plain"
  /\ isInHeaders' = FALSE
  /\ UNCHANGED <<headers, lastHeader, raised>>

Holding(what) == {h \in Header : headers[h].is = what}

\* Fault: it is taken for a new header only.
UndecodableNamed(line) ==
  /\ line.kind = "undecodable"
  /\ raised' = TRUE
  /\ UNCHANGED <<headers, lastHeader, isInHeaders>>

\* A nil line begins with white space at location 0, so it continues the last
\* header with a nil value: which ends the list of an array's first two values
\* early, and raises when added to an array.  Without a last header its colon is
\* at location 0 too, its name is nil, and setObject:forKey: raises.
UndecodableLine(line) ==
  /\ line.kind = "undecodable"
  /\ \/ /\ lastHeader \in Holding("string")
        /\ headers' = [headers EXCEPT ![lastHeader].is = "array"]
        /\ UNCHANGED raised
     \/ /\ lastHeader \in Holding("array") \cup {"nil"}
        /\ raised' = TRUE
        /\ UNCHANGED headers
  /\ UNCHANGED <<lastHeader, isInHeaders>>

\* Fault: the bytes are counted, not the characters.
SizeOfBytes(line) == 1

\* Fault: every line is counted twice.
SizeTwice(line) == IF line.kind = "undecodable" THEN 0 ELSE 2

\* The length of a nil string is 0.
Size(line) == IF line.kind = "undecodable" THEN 0 ELSE 1

\* handleData: the data is kept before the headers are read, the size counted
\* after them.
HandleData(line) ==
  LET n == Len(dataLines) + 1 IN
  /\ ~raised /\ Len(dataLines) < MaxDataLines
  /\ dataLines' = Append(dataLines, line)
  /\ data' = Append(data, n)
  /\ \/ /\ isInHeaders
        /\ \/ BlankLine(line) \/ NamedLine(line, n) \/ FoldedLine(line, n)
           \/ PlainLine(line) \/ UndecodableLine(line)
     \/ ~isInHeaders /\ UNCHANGED <<isInHeaders, lastHeader, headers, raised>>
  /\ dataSize' = IF raised' THEN dataSize ELSE dataSize + Size(line)

HeadersNext == \E line \in DataLine : HandleData(line)

HeadersSpec == HeadersInit /\ [][HeadersNext]_headerVars

-------------------------------------------------------------------------------
\* Type invariant.
HeadersTypeOK ==
  /\ dataLines \in Seq(DataLine)
  /\ {isInHeaders, raised} \subseteq BOOLEAN
  /\ lastHeader \in Header \cup {"nil"}
  /\ \A h \in Header : headers[h].is \in {"nil", "string", "array"} /\ headers[h].of \in Seq(Nat)
  /\ data \in Seq(Nat) /\ dataSize \in 0..MaxDataLines

\* The header that line i belongs to, if the headers last that long: the latest
\* one named, or named by the colon of a folded line that came first.
NamesHeader(i) ==
  \/ dataLines[i].kind = "named"
  \/ dataLines[i].name # "nil" /\ \A k \in 1..i-1 : dataLines[k].name = "nil"
Owner(i) ==
  LET naming == {k \in 1..i : NamesHeader(k)}
  IN  IF naming = {} THEN "nil"
      ELSE dataLines[CHOOSE k \in naming : \A m \in naming : m <= k].name

\* The lines before the one that ended the headers.
HeaderLines ==
  LET ends == {i \in DOMAIN dataLines : \/ dataLines[i].kind \in {"blank", "plain"}
                                        \/ dataLines[i].kind = "folded" /\ Owner(i) = "nil"}
  IN  {i \in DOMAIN dataLines : \A e \in ends : i < e}

\* A header holds the lines that name it and the lines folded onto those, each
\* once and in order, however often it comes back and whatever cannot be decoded
\* in between (handleData:withSocket:).
HeadersAreExact ==
  \A h \in Header :
    LET own == {i \in HeaderLines : dataLines[i].kind \in {"named", "folded"} /\ Owner(i) = h}
        of == headers[h].of
    IN  /\ \A i \in DOMAIN of : \A k \in 1..i-1 : of[k] < of[i]
        /\ {of[i] : i \in DOMAIN of} = own

\* The process is lost to a header line that is not UTF-8 if no header precedes it
\* or the one that does has more than one line, counting those not decoded, and to
\* nothing else.
RaisesOnlyOnUndecodable ==
  raised =>
    LET i == Len(dataLines)
        h == Owner(i)
    IN  /\ dataLines[i].kind = "undecodable" /\ i \in HeaderLines
        /\ h # "nil" => Cardinality({k \in 1..i : Owner(k) = h}) > 2

\* A mail keeps every line in order, and counts those it could decode.
DataIsKept ==
  /\ data = [i \in DOMAIN dataLines |-> i]
  /\ ~raised => dataSize = Cardinality({i \in DOMAIN dataLines :
                                          dataLines[i].kind # "undecodable"})

\* A mail is read as it was sent: its headers hold their own lines, its data all
\* of them, and only what cannot be decoded ends the process.
MailIsRead ==
  /\ HeadersAreExact
  /\ RaisesOnlyOnUndecodable
  /\ DataIsKept
==============================================================================
