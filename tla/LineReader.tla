----------------------------- MODULE LineReader -----------------------------
(***************************************************************************)
(* libEmailz: from the bytes of the wire to the lines of the dialogue      *)
(* (emailz.c).  emailz_socket_handle_read appends what arrived to indata,  *)
(* through SSLRead once the connection is secure, and then reads lines off *)
(* its front.  What SmtpSession takes as one step is taken apart here to   *)
(* the turns of the two loops, with what the client sent cut into arrivals *)
(* anywhere.  SSL itself is external: a record is its length and the bytes *)
(* of that length.                                                         *)
(***************************************************************************)
EXTENDS Bytes, SequencesExt, FiniteSetsExt

CONSTANTS
  MaxLine,     \* EMAILZ_MAX_LINE_SIZE
  MaxCmnd,     \* EMAILZ_MAX_CMND_SIZE - 1
  ReadSize,    \* what one SSLRead asks for
  PlainSent,   \* bound: what clients send in the clear,
  SecureSent   \* and under TLS

ASSUME LineReaderAssumption ==
  /\ {MaxLine, MaxCmnd, ReadSize} \subseteq Nat \ {0}
  /\ PlainSent \cup SecureSent \subseteq Seq(Byte)
  /\ \A s \in SecureSent : Len(s) \in Byte    \* the length of a record

VARIABLES
  secure,    \* the connection has an SSL context and is past the handshake
  sent,      \* what the client sends, and
  wire,      \* what of it is still to arrive
  tmpdata,   \* arrived and not yet taken by SSL
  ssl,       \* SSL's record: missing bytes (0: none begun), part, plain text to give out
  indata,    \* read and not yet taken as lines
  lines,     \* history: the lines taken
  commands,  \* history: what read_command made of those outside DATA
  inData,    \* state = EMAILZ_SMTP_COMMAND_DATA
  reading,   \* where emailz_socket_handle_read is
  broke,     \* the last reading left its loop at a line without a command word
  stopped    \* socket->stop

readerVars == <<secure, sent, wire, tmpdata, ssl, indata, lines, commands, inData,
                reading, broke, stopped>>

CR == 13
LF == 10
Blank == 32
Colon == 58
Upper == 65..90
Lower == 97..122
DataWord == <<68>>         \* stands for DATA
DotLine == <<46, CR, LF>>

\* A TLS record on the wire: its length, and its bytes.
Sealed(s) == <<Len(s)>> \o s

NoRecord == [missing |-> 0, part |-> <<>>, plain |-> <<>>]

ReaderInit ==
  /\ \/ /\ secure = FALSE
        /\ sent \in PlainSent
        /\ wire = sent
     \/ /\ secure = TRUE
        /\ \E s \in SecureSent : \E cut \in 0..Len(s)-1 :
             /\ sent = s
             /\ wire = (IF cut = 0 THEN <<>> ELSE Sealed(SubSeq(s, 1, cut)))
                       \o Sealed(SubSeq(s, cut + 1, Len(s)))
  /\ tmpdata = <<>>
  /\ ssl = NoRecord
  /\ indata = <<>>
  /\ lines = <<>>
  /\ commands = <<>>
  /\ inData = FALSE
  /\ reading = "idle"
  /\ broke = FALSE
  /\ stopped = FALSE

-------------------------------------------------------------------------------
(* Arrival, in the clear and under TLS. *)

\* Under TLS what arrived waits for SSLRead,
ArrivesSealed(data) ==
  /\ secure
  /\ tmpdata' = tmpdata \o data
  /\ reading' = "decrypting"
  /\ UNCHANGED indata

\* in the clear it goes behind what was read before.
ArrivesPlain(data) ==
  /\ ~secure
  /\ indata' = indata \o data
  /\ reading' = "lines"
  /\ UNCHANGED tmpdata

\* The read handler is called with what arrived, in fragments of any size.
DataArrives ==
  /\ reading = "idle" /\ ~stopped
  /\ \E n \in 1..Len(wire) :
       /\ wire' = Drop(wire, n)
       /\ ArrivesSealed(Take(wire, n)) \/ ArrivesPlain(Take(wire, n))
  /\ broke' = FALSE
  /\ UNCHANGED <<secure, sent, ssl, lines, commands, inData, stopped>>

\* emailz_sslsocket_read: as much as there is; WouldBlock when it is short.
sslsocket_read(data, requested) ==
  [returned |-> Take(data, requested), left |-> Drop(data, requested)]

\* SSLRead (external) asks for the length of a record and then for what is
\* missing of it, and gives out plain text of whole records.
RecordTaken(s, data) ==
  LET head == IF s.missing = 0 THEN sslsocket_read(data, 1) ELSE sslsocket_read(data, 0)
      missing == IF head.returned = <<>> THEN s.missing ELSE head.returned[1]
      body == sslsocket_read(head.left, missing)
      part == s.part \o body.returned
      whole == missing > 0 /\ Len(body.returned) = missing
  IN [left |-> body.left,
      ssl  |-> IF whole THEN [missing |-> 0, part |-> <<>>, plain |-> s.plain \o part]
               ELSE [missing |-> missing - Len(body.returned), part |-> part,
                     plain |-> s.plain]]

\* Fault: one SSLRead is enough.
ReadOnce(processed) == "lines"

\* Nothing processed ends the loop over SSLRead.
ReadOn(processed) == IF processed = <<>> THEN "lines" ELSE "decrypting"

\* One turn of the loop over SSLRead.
SslRead ==
  /\ reading = "decrypting"
  /\ LET r == IF ssl.plain = <<>> THEN RecordTaken(ssl, tmpdata)
              ELSE [left |-> tmpdata, ssl |-> ssl]
         processed == Take(r.ssl.plain, ReadSize)
     IN /\ tmpdata' = r.left
        /\ ssl' = [r.ssl EXCEPT !.plain = Drop(@, ReadSize)]
        /\ indata' = indata \o processed
        /\ reading' = ReadOn(processed)
  /\ UNCHANGED <<secure, sent, wire, lines, commands, inData, broke, stopped>>

\* SSLRead fails, or the client has closed: the socket is stopped, and what was
\* decrypted is read all the same.
SslReadEnds ==
  /\ reading = "decrypting"
  /\ stopped' = TRUE
  /\ reading' = "lines"
  /\ UNCHANGED <<secure, sent, wire, tmpdata, ssl, indata, lines, commands, inData, broke>>

-------------------------------------------------------------------------------
(* emailz_socket_read_line and emailz_socket_read_command. *)

\* The scan of read_line after the first n bytes of s: found_cr is set by a \r,
\* and taken back by what follows it unless that is \n.
FoundCr(s, n) ==
  LET found[i \in 0..Len(s)] == i > 0 /\ IF found[i - 1] THEN FALSE ELSE s[i] = CR
  IN  found[n]

\* Fault: any \r will do.
FoundLfAny(s, n) == s[n] = LF /\ n > 1 /\ s[n - 1] = CR

FoundLf(s, n) == s[n] = LF /\ n > 1 /\ FoundCr(s, n - 1)

\* Fault: a line may be one byte longer.
LineEndsLate(s) == {n \in 1..Len(s) : FoundLf(s, n) \/ n = MaxLine + 1}

\* Where the scan of indata stops, if it does.  The 0 that read_line puts behind
\* the line is one past the array `line` when the line has MaxLine bytes; what it
\* hits there is not modelled.
LineEnds(s) == {n \in 1..Len(s) : FoundLf(s, n) \/ n = MaxLine}

\* A run of bytes of one kind that starts after position n.
RunEnd(s, n, kind) == Max({m \in n..Len(s) : \A i \in n+1..m : s[i] \in kind})

ToUpper(s) == [i \in DOMAIN s |-> IF s[i] \in Lower THEN s[i] - 32 ELSE s[i]]

\* Fault: the word may fill its buffer.
CommandOfUnbounded(line) ==
  LET start == RunEnd(line, 0, {Blank})
      end == RunEnd(line, start, Upper \cup Lower)
      arg == RunEnd(line, end, {Blank, Colon})
  IN  [word |-> ToUpper(SubSeq(line, start + 1, end)), lineoff |-> (end - start) + (arg - end)]

\* read_command: blanks, the word, blanks and colons.  lineoff counts the word
\* and what is between it and the argument, not the blanks in front.
CommandOf(line) ==
  LET start == RunEnd(line, 0, {Blank})
      end == Least(RunEnd(line, start, Upper \cup Lower), start + MaxCmnd)
      arg == RunEnd(line, end, {Blank, Colon})
  IN  [word |-> ToUpper(SubSeq(line, start + 1, end)), lineoff |-> (end - start) + (arg - end)]

\* Fault: the bytes behind the line are lost.
IndataEmptied(n) == <<>>

IndataAfter(n) == Drop(indata, n)

\* One turn of the loop over read_line: a line of DATA goes to the data handler
\* or ends DATA; any other must begin with a command word, or the loop is left
\* with the lines behind it unread.
TakeLine ==
  /\ reading = "lines"
  /\ LineEnds(indata) # {}
  /\ LET n == Min(LineEnds(indata))
         line == Take(indata, n)
         command == CommandOf(line)
     IN /\ lines' = Append(lines, line)
        /\ indata' = IndataAfter(n)
        /\ \/ /\ inData
              /\ inData' = (line # DotLine)
              /\ UNCHANGED <<commands, reading, broke>>
           \/ /\ ~inData /\ command.word # <<>>
              /\ commands' = Append(commands, [line |-> line, is |-> command])
              /\ inData' = (command.word = DataWord)
              /\ UNCHANGED <<reading, broke>>
           \/ /\ ~inData /\ command.word = <<>>
              /\ reading' = "idle"
              /\ broke' = TRUE
              /\ UNCHANGED <<commands, inData>>
  /\ UNCHANGED <<secure, sent, wire, tmpdata, ssl, stopped>>

\* No further line.
LinesTaken ==
  /\ reading = "lines"
  /\ LineEnds(indata) = {}
  /\ reading' = "idle"
  /\ UNCHANGED <<secure, sent, wire, tmpdata, ssl, indata, lines, commands, inData, broke,
                 stopped>>

ReaderNext == DataArrives \/ SslRead \/ SslReadEnds \/ TakeLine \/ LinesTaken

ReaderSpec == ReaderInit /\ [][ReaderNext]_readerVars

-------------------------------------------------------------------------------
\* Type invariant.
ReaderTypeOK ==
  /\ {secure, inData, broke, stopped} \subseteq BOOLEAN
  /\ sent \in Seq(Byte) /\ indata \in Seq(Byte)
  /\ wire \in Seq(Byte) /\ tmpdata \in Seq(Byte)
  /\ ssl \in [missing : Nat, part : Seq(Byte), plain : Seq(Byte)]
  /\ \A i \in DOMAIN lines : lines[i] \in Seq(Byte) /\ Len(lines[i]) \in 1..MaxLine
  /\ reading \in {"idle", "decrypting", "lines"}

\* Nothing is lost, doubled or reordered between the wire and the lines, however
\* the bytes arrive and whatever the size of SSL's records and of the reads: the
\* lines taken, then indata, then what SSL holds, are what was sent
\* (emailz_sslsocket_read's subrange, read_line's subrange).
NothingIsLost ==
  LET plain == FlattenSeq(lines) \o indata \o ssl.plain \o ssl.part
  IN  /\ IsPrefix(plain, sent)
      /\ ~secure => plain \o wire = sent
      /\ wire = <<>> /\ tmpdata = <<>> => plain = sent

\* Where a line ends does not depend on how it arrived: at the first \n behind an
\* odd number of \r, or at the limit, and nowhere before (read_line).
OddCr(s, n) ==
  \E k \in 1..n-1 :
    /\ k % 2 = 1
    /\ \A i \in n-k..n-1 : s[i] = CR
    /\ n - k > 1 => s[n - k - 1] # CR
EndsLine(s, n) == s[n] = LF /\ OddCr(s, n)

LinesAreExact ==
  \A j \in DOMAIN lines :
    LET l == lines[j] IN
    /\ EndsLine(l, Len(l)) \/ Len(l) = MaxLine
    /\ \A n \in 1..Len(l)-1 : ~EndsLine(l, n)

\* When a reading is over no line that has arrived is left waiting for the next
\* one, and no whole record in SSL, unless a line without a command word ended
\* the loop or the socket was stopped (emailz_socket_handle_read).
NoLineWaits ==
  reading = "idle" /\ ~stopped =>
    /\ ~broke => \A n \in 1..Len(indata) : ~EndsLine(indata, n) /\ n < MaxLine
    /\ ssl.plain = <<>> /\ tmpdata = <<>>

\* The word of a command is letters, at most its buffer; the argument starts at
\* lineoff inside the line and, if no blank stood before the word, right behind
\* the blanks and colons after it (read_command).
CommandIsRead ==
  \A j \in DOMAIN commands :
    LET c == commands[j] IN
    /\ Len(c.is.word) \in 1..MaxCmnd
    /\ c.is.lineoff <= Len(c.line)
    /\ c.line[1] # Blank =>
         /\ IsPrefix(c.is.word, ToUpper(c.line))
         /\ \A i \in Len(c.is.word)+1..c.is.lineoff : c.line[i] \in {Blank, Colon}
         /\ c.is.lineoff < Len(c.line) => c.line[c.is.lineoff + 1] \notin {Blank, Colon}

\* What reaches the session is what was sent: every byte once, cut into the same
\* lines however it arrived, none left behind, and each command's word and
\* argument (emailz_socket_handle_read).
LinesReachSession ==
  /\ NothingIsLost
  /\ LinesAreExact
  /\ NoLineWaits
  /\ CommandIsRead
=============================================================================
