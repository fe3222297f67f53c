------------------------------- MODULE Formats -------------------------------
(***************************************************************************)
(* The formats that libEmailz and the application share (emailz.c,         *)
(* SMAppDelegate.m): the record name of a connection, which the            *)
(* application takes for its socket id, checks, and makes paths of; and    *)
(* Base64, by which AUTH PLAIN is decoded.  Each call reads its arguments  *)
(* and leaves its result in call.                                          *)
(***************************************************************************)
EXTENDS Bytes, Integers, SequencesExt

CONSTANTS
  LineLength,   \* OUTPUT_LINE_LENGTH
  Numbers,      \* bound: numbers printed
  Times,        \* bound: connect times, as records of struct tm and milliseconds
  Addresses,    \* bound: addresses, of four parts
  Octets,       \* bound: the parts of addresses shown
  Ports,        \* bound: ports
  Counts,       \* bound: how many emails a connection has begun
  Binaries,     \* bound: byte sequences encoded
  Texts         \* bound: byte sequences decoded

ASSUME FormatAssumption == LineLength \in Nat \ {0} /\ LineLength % 4 = 0

VARIABLE call   \* the call last made: its arguments and its result

formatVars == <<call>>

\* Characters are their codes.
Zero == 48
Digits == 48..57
Dash == 45
Dot == 46
Slash == 47

-------------------------------------------------------------------------------
(* emailz_print_number. *)

\* How many digits a number has: 1 + log10, which for 0 is the least int
\* (the cast of minus infinity).
NoDigits == -2147483647 - 1
DigitsOf(num) == IF num = 0 THEN NoDigits ELSE CHOOSE d \in 1..10 : 10^(d-1) <= num /\ num < 10^d

\* Fault: zeros go behind the digits.
PaddedRight(digits, pad) == digits \o [i \in 1..pad - Len(digits) |-> Zero]

\* Zeros go to all of pad; the digits overwrite the last of them.
Padded(digits, pad) == [i \in 1..pad - Len(digits) |-> Zero] \o digits

\* The digits, highest first; more than 6 are not written, nor is a 0.
PrintedDigits(num) ==
  LET d == DigitsOf(num)
  IN  [i \in 1..Larger(d, 0) |-> IF d > 6 THEN 0 ELSE Zero + ((num \div 10^(d - i)) % 10)]

print_number(num, pad) == Padded(PrintedDigits(num), pad)

-------------------------------------------------------------------------------
(* The record name (emailz_socket_start) and its file (record_open). *)

\* Fault: milliseconds without padding.
TimePartsShort(t) ==
  <<<<1900 + t.year, 4>>, <<1 + t.mon, 2>>, <<t.mday, 2>>, <<1 + t.hour, 2>>, <<t.min, 2>>,
    <<t.sec, 2>>, <<t.millis, 2>>>>

\* Numbers and their padding; the hour counts from 1 as the month does.
TimeParts(t) ==
  <<<<1900 + t.year, 4>>, <<1 + t.mon, 2>>, <<t.mday, 2>>, <<1 + t.hour, 2>>, <<t.min, 2>>,
    <<t.sec, 2>>, <<t.millis, 3>>>>

\* Fault: the first byte of the address is shifted by too little.
AddressPartsShifted(addr) == <<<<addr[2], 3>>, <<addr[2], 3>>, <<addr[3], 3>>, <<addr[4], 3>>>>

AddressParts(addr) == [i \in 1..4 |-> <<addr[i], 3>>]

Printed(parts, between) ==
  FoldLeft(LAMBDA s, part : (IF s = <<>> THEN s ELSE s \o between) \o print_number(part[1], part[2]),
           <<>>, parts)

\* yyyymmddhhmmssmmm-xxx.xxx.xxx.xxx-xxxxx
RecordName(t, addr, port) ==
  Printed(TimeParts(t), <<>>) \o <<Dash>> \o Printed(AddressParts(addr), <<Dot>>)
  \o <<Dash>> \o print_number(port, 5)

\* Fault: the month and the day share a directory.
DirectoriesMerged(name) ==
  <<SubSeq(name, 1, 4), SubSeq(name, 5, 8), SubSeq(name, 9, 10), SubSeq(name, 11, 12),
    SubSeq(name, 13, 14)>>

\* record_open's directories under the base: year, month, day, hour, minute,
\* second.
Directories(name) ==
  <<SubSeq(name, 1, 4), SubSeq(name, 5, 6), SubSeq(name, 7, 8), SubSeq(name, 9, 10),
    SubSeq(name, 11, 12), SubSeq(name, 13, 14)>>

record_open(name) == [dirs |-> Directories(name), file |-> name, kind |-> ".socket"]

-------------------------------------------------------------------------------
(* The application: pathWithSocketId:serial:mkdir:. *)

\* "%06lu" of the number of emails: wider from a million on.
Serial(count) ==
  Padded([i \in 1..Larger(DigitsOf(count), 0) |-> Zero + ((count \div 10^(DigitsOf(count) - i)) % 10)], 6)

\* What stands where in a socket id.
Separators == 18 :> Dash @@ 22 :> Dot @@ 26 :> Dot @@ 30 :> Dot @@ 34 :> Dash
IsSocketId(s) ==
  /\ Len(s) = 39
  /\ \A i \in 1..39 : IF i \in DOMAIN Separators THEN s[i] = Separators[i] ELSE s[i] \in Digits
IsSerial(s) == Len(s) = 6 /\ \A i \in 1..6 : s[i] \in Digits

NoPath == [dirs |-> <<>>, file |-> <<>>, kind |-> "nil"]

\* The directories again, and socket id and serial for the file.
pathWithSocketId(name, serial) ==
  IF ~IsSocketId(name) \/ ~IsSerial(serial) THEN NoPath
  ELSE [dirs |-> <<SubSeq(name, 1, 4), SubSeq(name, 5, 6), SubSeq(name, 7, 8),
                   SubSeq(name, 9, 10), SubSeq(name, 11, 12), SubSeq(name, 13, 14)>>,
        file |-> name \o <<95, 95>> \o serial,
        kind |-> ".email"]

-------------------------------------------------------------------------------
(* The address as text, from emailz_addrstr to the geocoder. *)

Decimal(num) == IF num = 0 THEN <<Zero>> ELSE PrintedDigits(num)

\* Fault: padded as in the record name.
addrstr_padded(addr) == Printed([i \in 1..4 |-> <<addr[i], 3>>], <<Dot>>)

\* inet_ntop: no zeros in front.
addrstr(addr) ==
  Decimal(addr[1]) \o FlattenSeq([i \in 1..3 |-> <<Dot>> \o Decimal(addr[i + 1])])

\* geocode:handler: leaves out 10. and 192.168. by the beginning of the text.
Geocoded(text) ==
  ~IsPrefix(<<49, 48, Dot>>, text) /\ ~IsPrefix(<<49, 57, 50, Dot, 49, 54, 56, Dot>>, text)

\* inet_addr: a part that begins with a zero is octal.
PartRead(s) ==
  LET base == IF s[1] = Zero THEN 8 ELSE 10 IN FoldLeft(LAMBDA n, c : base * n + (c - Zero), 0, s)
inet_addr(text) ==
  LET dots == {0, Len(text) + 1} \cup {i \in DOMAIN text : text[i] = Dot}
      ends == SetToSortSeq(dots, <)
  IN  [k \in 1..Len(ends) - 1 |-> PartRead(SubSeq(text, ends[k] + 1, ends[k + 1] - 1))]

\* countryCodeForIPAddress: the addresses that need no table.
PrivateNet(addr) == addr[1] \in {127, 10}

-------------------------------------------------------------------------------
(* NewBase64Encode and NewBase64Decode. *)

Equals == 61

\* base64EncodeLookup; base64DecodeLookup, with xx for what is no digit.  Its
\* index is a signed char: bytes above 127 read what is in front of the table,
\* high, a digit or none.
EncodeLookup ==
  [n \in 0..63 |-> IF n < 26 THEN 65 + n ELSE IF n < 52 THEN 97 + n - 26
                   ELSE IF n < 62 THEN 48 + n - 52 ELSE IF n = 62 THEN 43 ELSE 47]
xx == 65
DecodeTable ==
  [c \in 0..127 |-> IF \E n \in 0..63 : EncodeLookup[n] = c
                    THEN CHOOSE n \in 0..63 : EncodeLookup[n] = c ELSE xx]
DecodeLookup(c, high) == IF c > 127 THEN high ELSE DecodeTable[c]

\* The four digits of three bytes; bytes beyond the end count as 0.
Group(b) == <<b[1] \div 4, (b[1] % 4) * 16 + b[2] \div 16, (b[2] % 16) * 4 + b[3] \div 64, b[3] % 64>>
GroupAt(bytes, i) == Group([k \in 1..3 |-> IF i + k <= Len(bytes) THEN bytes[i + k] ELSE 0])

\* Fault: a group of two bytes gets two digits.
DigitsNeededShort(n) == IF n >= 3 THEN 4 ELSE 2

\* One byte makes 2 digits, two make 3; the rest of the group is padding.
DigitsNeeded(n) == IF n >= 3 THEN 4 ELSE n + 1

EncodedGroup(bytes, i) ==
  LET digits == GroupAt(bytes, i)
  IN  [k \in 1..4 |-> IF k <= DigitsNeeded(Len(bytes) - i) THEN EncodeLookup[digits[k]] ELSE Equals]

\* A line end goes behind a full line, unless the input ends there.
Base64Encode(bytes, separateLines) ==
  LET groups == (Len(bytes) + 2) \div 3
      perLine == LineLength \div 4
      Chunk(g) == EncodedGroup(bytes, 3 * (g - 1))
                  \o IF separateLines /\ g % perLine = 0 /\ 3 * g < Len(bytes) THEN <<13, 10>> ELSE <<>>
  IN  FlattenSeq([g \in 1..groups |-> Chunk(g)])

\* What malloc is asked for: the digits, the line ends, and the final 0.
EncodeBuffer(length, separateLines) ==
  LET digits == ((length + 2) \div 3) * 4
  IN  digits + (IF separateLines THEN (digits \div LineLength) * 2 ELSE 0) + 1

\* The bytes of a group of digits, one fewer than digits.
DecodedGroup(d) ==
  LET digit(k) == IF k <= Len(d) THEN d[k] ELSE 0
      bytes == <<digit(1) * 4 + digit(2) \div 16, digit(2) * 16 + digit(3) \div 4,
                 digit(3) * 64 + digit(4)>>
  IN  [k \in 1..Len(d) - 1 |-> bytes[k] % 256]

\* The end of a group: j += accumulateIndex - 1, whatever was accumulated.
GroupDone(st) ==
  [accumulated |-> <<>>, inner |-> FALSE,
   bytes |-> st.bytes \o DecodedGroup(st.accumulated), j |-> st.j + Len(st.accumulated) - 1]

\* Fault: what is no digit ends the group.
NextByteStrict(st, digit) ==
  IF digit = xx THEN GroupDone(st)
  ELSE LET more == [st EXCEPT !.accumulated = Append(@, digit), !.inner = TRUE]
       IN  IF Len(more.accumulated) = 4 THEN GroupDone(more) ELSE more

\* The inner loop goes on to the fourth digit, past what is none.
NextByte(st, digit) ==
  LET more == [st EXCEPT !.accumulated = IF digit = xx THEN @ ELSE Append(@, digit), !.inner = TRUE]
  IN  IF Len(more.accumulated) = 4 THEN GroupDone(more) ELSE more

\* The end of the text ends the inner loop too.  j is unsigned: below 0 it wraps.
Base64Decode(text, high) ==
  LET start == [accumulated |-> <<>>, inner |-> FALSE, bytes |-> <<>>, j |-> 0]
      last == FoldLeft(LAMBDA st, c : NextByte(st, DecodeLookup(c, high)), start, text)
      end == IF last.inner THEN GroupDone(last) ELSE last
  IN  [bytes |-> end.bytes, length |-> end.j]

-------------------------------------------------------------------------------
(* The calls. *)

FormatInit == call = [of |-> "none"]

PrintsNumber ==
  \E num \in Numbers : \E pad \in 1..6 :
    call' = [of |-> "number", num |-> num, pad |-> pad, to |-> print_number(num, pad)]

NamesConnection ==
  \E t \in Times : \E addr \in Addresses : \E port \in Ports : \E count \in Counts :
    LET name == RecordName(t, addr, port) IN
    call' = [of |-> "name", from |-> <<t, addr, port>>, name |-> name, record |-> record_open(name),
             mail |-> pathWithSocketId(name, Serial(count)), count |-> count]

Encodes ==
  \E bytes \in Binaries : \E separate \in BOOLEAN :
    call' = [of |-> "encode", bytes |-> bytes, separate |-> separate,
             to |-> Base64Encode(bytes, separate)]

Decodes ==
  \E text \in Texts : \E high \in {0, xx} :
    call' = [of |-> "decode", text |-> text, high |-> high, to |-> Base64Decode(text, high)]

\* What OPEN hands to the geocoder, and what that makes of it.
ShowsAddress ==
  \E addr \in [1..4 -> Octets] :
    LET text == addrstr(addr) IN
    call' = [of |-> "address", addr |-> addr, geocoded |-> Geocoded(text), read |-> inet_addr(text),
             private |-> PrivateNet(inet_addr(text)), length |-> Len(text)]

FormatNext ==
  call.of = "none" /\ (PrintsNumber \/ NamesConnection \/ ShowsAddress \/ Encodes \/ Decodes)

FormatSpec == FormatInit /\ [][FormatNext]_formatVars

-------------------------------------------------------------------------------
Value(s) == FoldLeft(LAMBDA n, c : 10 * n + (c - Zero), 0, s)

\* A number within its padding is printed in full, in exactly pad digits, 0 too
\* although it has no logarithm (emailz_print_number).
NumberIsPrinted ==
  call.of = "number" /\ call.num < 10^6 =>
    /\ Len(call.to) = Larger(call.pad, DigitsOf(call.num))
    /\ \A i \in DOMAIN call.to : call.to[i] \in Digits
    /\ Value(call.to) = call.num

\* The application accepts every name the library makes and files the mail beside
\* the record of its connection, up to a million mails on one connection
\* (emailz_socket_record_open, pathWithSocketId:serial:mkdir:).
MailIsBesideRecord ==
  call.of = "name" =>
    IF call.count < 10^6
    THEN call.mail.kind = ".email" /\ call.mail.dirs = call.record.dirs
    ELSE call.mail = NoPath

\* A name tells its connection: time, address and port can be read off it, so
\* two connections never share one (emailz_socket_start).
NameTellsConnection ==
  call.of = "name" =>
    LET t == call.from[1]
        field(a, b) == Value(SubSeq(call.name, a, b))
    IN  /\ <<field(1, 4), field(5, 6), field(7, 8), field(9, 10), field(11, 12), field(13, 14),
             field(15, 17)>> = <<1900 + t.year, 1 + t.mon, t.mday, 1 + t.hour, t.min, t.sec, t.millis>>
        /\ <<field(19, 21), field(23, 25), field(27, 29), field(31, 33)>> = call.from[2]
        /\ field(35, 39) = call.from[3]

\* Names sort as their connections came: the keys of a recipient's mails are
\* those names, and the search walks them in order.
Chronology(t) == <<t.year, t.mon, t.mday, t.hour, t.min, t.sec, t.millis>>
Precedes(s, t) ==
  \E i \in DOMAIN s : s[i] < t[i] /\ \A k \in 1..i-1 : s[k] = t[k]

NamesSortByTime ==
  call.of = "name" =>
    \A t \in Times : Precedes(Chronology(t), Chronology(call.from[1])) =>
      Precedes(RecordName(t, call.from[2], call.from[3]), call.name)

\* The geocoder reads back the address of the peer from the text that stands for
\* it, which fits in its buffer, and asks about exactly those outside 10/8 and
\* 192.168/16, though it looks at the text for these (emailz_addrstr,
\* geocode:handler:, countryCodeForIPAddress:).
AddressIsReadBack ==
  call.of = "address" =>
    /\ call.read = call.addr /\ call.length < 46
    /\ call.geocoded <=> call.addr[1] # 10 /\ ~(call.addr[1] = 192 /\ call.addr[2] = 168)
    /\ call.private <=> call.addr[1] \in {10, 127}

\* Decoding undoes encoding, with and without lines, and the encoder stays in
\* what it allocated (NewBase64Encode, NewBase64Decode).
DecodeInvertsEncode ==
  call.of = "encode" =>
    /\ Base64Decode(call.to, 0) = [bytes |-> call.bytes, length |-> Len(call.bytes)]
    /\ Len(call.to) + 1 <= EncodeBuffer(Len(call.bytes), call.separate)

\* Whatever stands between the digits, the bytes are the bits of the digits in
\* order; the length is theirs, but one less when the text goes on after a whole
\* group without another digit, which of no digit at all leaves a length that
\* wraps (NewBase64Decode).
Bit(n, k) == (n \div 2^k) % 2
DecodeIsExact ==
  call.of = "decode" =>
    LET known == SelectSeq([i \in DOMAIN call.text |-> DecodeLookup(call.text[i], call.high)],
                           LAMBDA d : d # xx)
        bytes == call.to.bytes
        trailing == Len(known) % 4 = 0 /\ call.text # <<>>
                    /\ DecodeLookup(call.text[Len(call.text)], call.high) = xx
    IN  /\ Len(bytes) = (6 * Len(known)) \div 8
        /\ \A b \in 0..8 * Len(bytes) - 1 :
             Bit(bytes[b \div 8 + 1], 7 - (b % 8)) = Bit(known[b \div 6 + 1], 5 - (b % 6))
        /\ call.to.length = Len(bytes) - (IF trailing THEN 1 ELSE 0)

\* The texts the library makes are read as what they were made of: numbers, the
\* names of connections and of their files, addresses, and Base64 both ways.
FormatsAreExact ==
  /\ NumberIsPrinted
  /\ MailIsBesideRecord
  /\ NameTellsConnection
  /\ NamesSortByTime
  /\ AddressIsReadBack
  /\ DecodeInvertsEncode
  /\ DecodeIsExact
==============================================================================
