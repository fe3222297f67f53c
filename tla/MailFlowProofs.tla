---------------------------- MODULE MailFlowProofs ----------------------------
(***************************************************************************)
(* What TLAPS proves about MailFlow, for every set of connections, lines   *)
(* and bounds: its types, the keys mails are stored under, the order of a   *)
(* connection's callbacks, and what the session knows of its own state;     *)
(* and what becomes of the mails handed over: how much is stored of them,   *)
(* in what order, when an exception can end the process, and that MailFlow  *)
(* implements MailDrop.                                                    *)
(***************************************************************************)
EXTENDS MailFlow, SequenceTheorems, WellFoundedInduction, TLAPS

-------------------------------------------------------------------------------
(***************************************************************************)
(* Types.                                                                  *)
(***************************************************************************)
\* A mail with no field set is a mail.
LEMMA EmptyMailType == EmptyMail \in Mail
BY DEF EmptyMail, Mail

\* The bytes a client sends reach the read handler as lines.
LEMMA ConcatType ==
  ASSUME NEW S, NEW p \in Seq(S), NEW q \in Seq(S)
  PROVE  p \o q \in Seq(S)
OBVIOUS

LEMMA TailType ==
  ASSUME NEW S, NEW q \in Seq(S), q # <<>>
  PROVE  Head(q) \in S /\ Tail(q) \in Seq(S)
OBVIOUS

LEMMA LineFields ==
  ASSUME NEW line \in Line
  PROVE  /\ line.word \in Word
         /\ line.arg \in Arg \cup {NoArg}
         /\ line.len \in Nat
BY LineAssumption

LEMMA BlockType ==
  ASSUME NEW s \in Socket
  PROVE  /\ \A kind \in {"accept", "open", "done", "close"} : B(kind, s, NoLine) \in Block
         /\ \A kind \in {"smtp", "data", "done"}, line \in Line : B(kind, s, line) \in Block
BY DEF B, Block

SessionTypeOK ==
  /\ socket \in [Socket -> SocketState]
  /\ handlerQ \in Seq(Block)
  /\ peer \in [Socket -> PeerState]
  /\ txn \in [Socket -> Mail]
  /\ due \in [Socket -> Seq(Mail)]

AppTypeOK ==
  /\ smsocket \in [Socket -> SMSocket]
  /\ mDb \in [Socket -> Seq(SMEmail)]
  /\ crashed \in BOOLEAN

\* A client's line changes the client only.
LEMMA ClientTypeOK ==
  ASSUME SessionTypeOK, NEW s \in Socket, ClientStep(s)
  PROVE  SessionTypeOK'
<1>1. PICK line \in Line : ClientSends(s, line)
  BY DEF ClientStep
<1>2. ModeAfter(peer[s].mode, line) \in {"idle", "mail", "rcpt", "data"}
  BY DEF ModeAfter, SessionTypeOK, PeerState
<1>3. peer'[s] \in PeerState
  BY <1>1, <1>2 DEF ClientSends, SessionTypeOK, PeerState
<1> QED
  BY <1>1, <1>3 DEF ClientSends, SessionTypeOK

\* A new value for one socket keeps the type of all of them.
LEMMA SocketUpdate ==
  ASSUME socket \in [Socket -> SocketState], NEW s \in Socket, NEW sk \in SocketState
  PROVE  [socket EXCEPT ![s] = sk] \in [Socket -> SocketState]
OBVIOUS

LEMMA SocketType ==
  ASSUME SessionTypeOK, NEW s \in Socket
  PROVE  socket[s] \in SocketState
BY DEF SessionTypeOK

LEMMA FieldTypes ==
  ASSUME NEW sk \in SocketState
  PROVE  /\ sk.state \in Verb \cup {"NONE"}
         /\ sk.email_size \in Nat
         /\ sk.indata \in Seq(Line)
         /\ sk.pc \in {"idle", "lines", "return"}
         /\ sk.last \in BOOLEAN
         /\ sk.stop \in BOOLEAN
         /\ sk.sslcontext \in BOOLEAN
         /\ sk.is_handshaking \in BOOLEAN
         /\ sk.is_secure \in BOOLEAN
         /\ sk.bye \in BOOLEAN
BY DEF SocketState

\* A client whose lines have been taken.
LEMMA PeerUpdate ==
  ASSUME peer \in [Socket -> PeerState], NEW s \in Socket
  PROVE  /\ [peer EXCEPT ![s].wire = <<>>] \in [Socket -> PeerState]
         /\ peer[s].wire \in Seq(Line)
<1> DEFINE pr == [peer[s] EXCEPT !.wire = <<>>]
<1>1. <<>> \in Seq(Line)
  OBVIOUS
<1>2. pr \in PeerState
  BY <1>1, Zenon DEF PeerState
<1>3. [peer EXCEPT ![s].wire = <<>>] = [peer EXCEPT ![s] = pr]
  OBVIOUS
<1>4. [peer EXCEPT ![s] = pr] \in [Socket -> PeerState]
  BY <1>2
<1>5. peer[s].wire \in Seq(Line)
  BY DEF PeerState
<1> QED
  BY <1>3, <1>4, <1>5

\* Blocks dispatched are blocks.
LEMMA DispatchType ==
  ASSUME handlerQ \in Seq(Block), NEW blocks \in Seq(Block), Dispatch(blocks)
  PROVE  handlerQ' \in Seq(Block)
BY ConcatType DEF Dispatch

LEMMA DispatchOneType ==
  ASSUME handlerQ \in Seq(Block), NEW b \in Block, Dispatch(<<b>>)
  PROVE  handlerQ' \in Seq(Block)
<1>1. <<b>> \in Seq(Block)
  OBVIOUS
<1> QED
  BY <1>1, DispatchType

LEMMA DispatchNoneType ==
  ASSUME handlerQ \in Seq(Block), Dispatch(<<>>)
  PROVE  handlerQ' \in Seq(Block)
<1>1. <<>> \in Seq(Block)
  OBVIOUS
<1> QED
  BY <1>1, DispatchType

\* A step that only stops connection s.
LEMMA StopTypeOK ==
  ASSUME SessionTypeOK, NEW s \in Socket,
         socket' = [socket EXCEPT ![s].stop = TRUE],
         UNCHANGED <<handlerQ, peer, txn, due>>
  PROVE  SessionTypeOK'
<1> DEFINE sk == [socket[s] EXCEPT !.stop = TRUE]
<1>1. sk \in SocketState
  BY SocketType, Zenon DEF SocketState
<1>2. socket' = [socket EXCEPT ![s] = sk]
  OBVIOUS
<1> QED
  BY <1>1, <1>2, SocketUpdate DEF SessionTypeOK

LEMMA ConnectTypeOK ==
  ASSUME SessionTypeOK, NEW s \in Socket, ListenerAccepts(s)
  PROVE  SessionTypeOK'
<1> DEFINE sk == [socket[s] EXCEPT !.phase = "queued"]
<1>1. sk \in SocketState
  BY SocketType, Zenon DEF SocketState
<1>2. socket' = [socket EXCEPT ![s] = sk]
  BY DEF ListenerAccepts
<1>3. handlerQ' \in Seq(Block)
  BY BlockType, DispatchOneType DEF ListenerAccepts, SessionTypeOK
<1> QED
  BY <1>1, <1>2, <1>3, SocketUpdate DEF ListenerAccepts, SessionTypeOK

LEMMA ReadPlainTypeOK ==
  ASSUME SessionTypeOK, NEW s \in Socket, ReadPlain(s)
  PROVE  SessionTypeOK'
<1>1. PICK last \in BOOLEAN :
        socket' = [socket EXCEPT ![s] =
                     [socket[s] EXCEPT !.indata = socket[s].indata \o peer[s].wire,
                                       !.pc = "lines",
                                       !.last = last]]
  BY DEF ReadPlain
<1> DEFINE in == socket[s].indata \o peer[s].wire
           sk == [socket[s] EXCEPT !.indata = in, !.pc = "lines", !.last = last]
<1>2. in \in Seq(Line)
  BY FieldTypes, PeerUpdate, ConcatType DEF SessionTypeOK
<1>3. sk \in SocketState
  <2>1. socket[s] \in SocketState
    BY SocketType
  <2> HIDE DEF in
  <2> QED
    BY <1>2, <2>1, Zenon DEF SocketState
<1>4. peer' \in [Socket -> PeerState]
  BY PeerUpdate DEF ReadPlain, SessionTypeOK
<1> QED
  BY <1>1, <1>3, <1>4, SocketUpdate DEF ReadPlain, SessionTypeOK

LEMMA ReadSecureTypeOK ==
  ASSUME SessionTypeOK, NEW s \in Socket, ReadSecure(s)
  PROVE  SessionTypeOK'
<1> DEFINE sk == socket[s]
           in == IF sk.is_secure THEN sk.indata \o peer[s].wire ELSE sk.indata
           secure == sk.is_secure \/ sk.is_handshaking
<1>1. PICK fails \in BOOLEAN, last \in BOOLEAN :
        socket' = [socket EXCEPT ![s] =
                     [sk EXCEPT !.is_secure = secure,
                                !.is_handshaking = FALSE,
                                !.indata = in,
                                !.pc = "lines",
                                !.stop = fails,
                                !.last = last]]
  BY DEF ReadSecure
<1> DEFINE new == [sk EXCEPT !.is_secure = secure,
                             !.is_handshaking = FALSE,
                             !.indata = in,
                             !.pc = "lines",
                             !.stop = fails,
                             !.last = last]
<1>2. sk \in SocketState
  BY DEF SessionTypeOK
<1>3. in \in Seq(Line)
  BY <1>2, FieldTypes, PeerUpdate, ConcatType DEF SessionTypeOK
<1>4. secure \in BOOLEAN
  OBVIOUS
<1>5. new \in SocketState
  <2> HIDE DEF in, secure, sk
  <2> QED
    BY <1>2, <1>3, <1>4, Zenon DEF SocketState
<1>6. peer' \in [Socket -> PeerState]
  BY PeerUpdate DEF ReadSecure, SessionTypeOK
<1> QED
  BY <1>1, <1>5, <1>6, SocketUpdate DEF ReadSecure, SessionTypeOK

\* What the network brings.
LEMMA ArrivalTypeOK ==
  ASSUME SessionTypeOK, NEW s \in Socket, Arrival(s)
  PROVE  SessionTypeOK'
<1>1. CASE HandshakeFails(s)
  BY <1>1, StopTypeOK DEF HandshakeFails
<1>2. CASE ReadTimeout(s)
  BY <1>2, StopTypeOK DEF ReadTimeout
<1>3. CASE WriteFails(s)
  BY <1>3, StopTypeOK DEF WriteFails
<1> QED
  BY <1>1, <1>2, <1>3, ReadPlainTypeOK, ReadSecureTypeOK DEF Arrival

\* The line at the front of indata.
LEMMA LoopLine ==
  ASSUME SessionTypeOK, NEW s \in Socket, InLoop(s)
  PROVE  /\ socket[s] \in SocketState
         /\ Head(socket[s].indata) \in Line
         /\ Tail(socket[s].indata) \in Seq(Line)
BY SocketType, FieldTypes, TailType DEF InLoop

\* The transaction is a mail, whatever line is added to it.
LEMMA MailUpdates ==
  ASSUME NEW mail \in Mail, NEW line \in Line
  PROVE  /\ [mail EXCEPT !.body = Append(mail.body, line)] \in Mail
         /\ line.arg \in Arg => [mail EXCEPT !.rcpt = Append(mail.rcpt, line.arg)] \in Mail
         /\ [EmptyMail EXCEPT !.from = line.arg] \in Mail
<1>1. Append(mail.body, line) \in Seq(Line)
  BY DEF Mail
<1>2. line.arg \in Arg => Append(mail.rcpt, line.arg) \in Seq(Arg)
  BY DEF Mail
<1>3. line.arg \in Arg \cup {NoArg}
  BY LineFields
<1>4. EmptyMail \in Mail
  BY EmptyMailType
<1> QED
  BY <1>1, <1>2, <1>3, <1>4, Zenon DEF Mail

LEMMA EnvelopeType ==
  ASSUME NEW mail \in Mail, NEW line \in Line
  PROVE  Envelope(mail, line) \in Mail
BY MailUpdates DEF Envelope

LEMMA DataEndTypeOK ==
  ASSUME SessionTypeOK, NEW s \in Socket, DataEnd(s)
  PROVE  SessionTypeOK'
<1> DEFINE in == Tail(socket[s].indata)
           sk == [socket[s] EXCEPT !.indata = in, !.state = "NONE"]
<1>1. socket[s] \in SocketState /\ in \in Seq(Line)
  BY LoopLine DEF DataEnd
<1>2. sk \in SocketState
  <2> HIDE DEF in
  <2> QED
    BY <1>1, Zenon DEF SocketState
<1>3. socket' = [socket EXCEPT ![s] = sk]
  BY DEF DataEnd
<1>4. handlerQ' \in Seq(Block)
  <2>1. CASE socket[s].data_handler
    <3>1. Dispatch(<<B("done", s, NoLine)>>)
      BY <2>1 DEF DataEnd
    <3> QED
      BY <3>1, BlockType, DispatchOneType DEF SessionTypeOK
  <2>2. CASE ~socket[s].data_handler
    <3>1. Dispatch(<<>>)
      BY <2>2 DEF DataEnd
    <3> QED
      BY <3>1, DispatchNoneType DEF SessionTypeOK
  <2> QED
    BY <2>1, <2>2
<1>5. due' \in [Socket -> Seq(Mail)] /\ txn' \in [Socket -> Mail]
  BY EmptyMailType DEF DataEnd, SessionTypeOK
<1> QED
  BY <1>2, <1>3, <1>4, <1>5, SocketUpdate DEF DataEnd, SessionTypeOK

LEMMA DataLineTypeOK ==
  ASSUME SessionTypeOK, NEW s \in Socket, DataLine(s)
  PROVE  SessionTypeOK'
<1> DEFINE line == Head(socket[s].indata)
           in   == Tail(socket[s].indata)
           size == socket[s].email_size + line.len
           over == size > MaxData
           stop == socket[s].stop \/ over
           pc   == IF over THEN "return" ELSE "lines"
           sk   == [socket[s] EXCEPT !.indata = in, !.email_size = size,
                                     !.stop = stop, !.pc = pc]
<1>1. socket[s] \in SocketState /\ line \in Line /\ in \in Seq(Line)
  BY LoopLine DEF DataLine
<1>2. sk \in SocketState
  <2>1. size \in Nat
    BY <1>1, FieldTypes, LineFields
  <2>2. stop \in BOOLEAN /\ pc \in {"idle", "lines", "return"}
    OBVIOUS
  <2> HIDE DEF in, size, stop, pc
  <2> QED
    BY <1>1, <2>1, <2>2, Zenon DEF SocketState
<1>3. socket' = [socket EXCEPT ![s] = sk]
  BY DEF DataLine
<1>4. handlerQ' \in Seq(Block)
  <2>1. CASE socket[s].data_handler
    <3> DEFINE kind == IF over THEN "done" ELSE "data"
    <3>1. Dispatch(<<B(kind, s, line)>>)
      BY <2>1 DEF DataLine
    <3>2. kind \in {"smtp", "data", "done"}
      OBVIOUS
    <3> HIDE DEF kind
    <3>3. B(kind, s, line) \in Block
      BY <1>1, <3>2, BlockType
    <3> QED
      BY <3>1, <3>3, DispatchOneType DEF SessionTypeOK
  <2>2. CASE ~socket[s].data_handler
    <3>1. Dispatch(<<>>)
      BY <2>2 DEF DataLine
    <3> QED
      BY <3>1, DispatchNoneType DEF SessionTypeOK
  <2> QED
    BY <2>1, <2>2
<1>5. due' \in [Socket -> Seq(Mail)]
  <2>1. Append(due[s], txn[s]) \in Seq(Mail)
    BY DEF SessionTypeOK
  <2>2. due' = due \/ due' = [due EXCEPT ![s] = Append(due[s], txn[s])]
    BY DEF DataLine
  <2> QED
    BY <2>1, <2>2 DEF SessionTypeOK
<1>6. txn' \in [Socket -> Mail]
  <2> DEFINE mail == [txn[s] EXCEPT !.body = Append(txn[s].body, line)]
  <2>1. mail \in Mail
    BY <1>1, MailUpdates DEF SessionTypeOK
  <2>2. txn' = txn \/ txn' = [txn EXCEPT ![s] = mail]
    BY DEF DataLine
  <2> HIDE DEF mail
  <2> QED
    BY <2>1, <2>2 DEF SessionTypeOK
<1> QED
  BY <1>2, <1>3, <1>4, <1>5, <1>6, SocketUpdate DEF DataLine, SessionTypeOK

LEMMA NoCommandTypeOK ==
  ASSUME SessionTypeOK, NEW s \in Socket, NoCommand(s)
  PROVE  SessionTypeOK'
<1> DEFINE in == Tail(socket[s].indata)
           sk == [socket[s] EXCEPT !.indata = in, !.pc = "return"]
<1>1. socket[s] \in SocketState /\ in \in Seq(Line)
  BY LoopLine DEF NoCommand
<1>2. sk \in SocketState
  <2> HIDE DEF in
  <2> QED
    BY <1>1, Zenon DEF SocketState
<1>3. socket' = [socket EXCEPT ![s] = sk]
  BY DEF NoCommand
<1> QED
  BY <1>2, <1>3, SocketUpdate DEF NoCommand, SessionTypeOK

\* Decoding a command keeps everything but its socket well typed.
LEMMA TakeCommandTypeOK ==
  ASSUME SessionTypeOK, NEW s \in Socket, NEW line, TakeCommand(s, line)
  PROVE  /\ line \in Line
         /\ handlerQ' \in Seq(Block)
         /\ txn' \in [Socket -> Mail]
         /\ UNCHANGED <<peer, due>>
<1>1. line \in Line
  BY LoopLine DEF TakeCommand
<1>2. handlerQ' \in Seq(Block)
  <2>1. CASE socket[s].smtp_handler /\ line.word \in Mask
    <3>1. Dispatch(<<B("smtp", s, line)>>)
      BY <2>1 DEF TakeCommand
    <3>2. B("smtp", s, line) \in Block
      BY <1>1, BlockType
    <3> QED
      BY <3>1, <3>2, DispatchOneType DEF SessionTypeOK
  <2>2. CASE ~(socket[s].smtp_handler /\ line.word \in Mask)
    <3>1. Dispatch(<<>>)
      BY <2>2 DEF TakeCommand
    <3> QED
      BY <3>1, DispatchNoneType DEF SessionTypeOK
  <2> QED
    BY <2>1, <2>2
<1>3. txn' \in [Socket -> Mail]
  <2>1. Envelope(txn[s], line) \in Mail
    BY <1>1, EnvelopeType DEF SessionTypeOK
  <2> QED
    BY <2>1 DEF TakeCommand, SessionTypeOK
<1> QED
  BY <1>1, <1>2, <1>3 DEF TakeCommand

LEMMA PlainCommandTypeOK ==
  ASSUME SessionTypeOK, NEW s \in Socket, PlainCommand(s)
  PROVE  SessionTypeOK'
<1> DEFINE line  == Head(socket[s].indata)
           in    == Tail(socket[s].indata)
           state == Command(line)
           size  == SizeAfter(socket[s], line)
           bye   == ByeAfter(socket[s], line)
           sk    == [socket[s] EXCEPT !.indata = in, !.state = state,
                                      !.email_size = size, !.bye = bye]
<1>1. TakeCommand(s, line)
  BY DEF PlainCommand
<1>2. socket[s] \in SocketState /\ in \in Seq(Line)
  BY <1>1, LoopLine DEF TakeCommand
<1>3. sk \in SocketState
  <2>1. state \in Verb \cup {"NONE"}
    BY DEF Command
  <2>2. size \in Nat
    BY <1>2, FieldTypes DEF SizeAfter
  <2>3. bye \in BOOLEAN
    BY <1>2, FieldTypes DEF ByeAfter
  <2> HIDE DEF in, state, size, bye
  <2> QED
    BY <1>2, <2>1, <2>2, <2>3, Zenon DEF SocketState
<1>4. socket' = [socket EXCEPT ![s] = sk]
  BY DEF PlainCommand
<1> QED
  BY <1>1, <1>3, <1>4, SocketUpdate, TakeCommandTypeOK DEF SessionTypeOK

LEMMA StartTlsTypeOK ==
  ASSUME SessionTypeOK, NEW s \in Socket, StartTls(s)
  PROVE  SessionTypeOK'
<1> DEFINE line == Head(socket[s].indata)
           in   == Tail(socket[s].indata)
<1>1. TakeCommand(s, line)
  BY DEF StartTls
<1>2. PICK context \in BOOLEAN, handshaking \in BOOLEAN :
        socket' = [socket EXCEPT ![s] =
                     [socket[s] EXCEPT !.indata = in,
                                       !.state = "STARTTLS",
                                       !.sslcontext = context,
                                       !.is_handshaking = handshaking]]
  BY DEF StartTls
<1> DEFINE sk == [socket[s] EXCEPT !.indata = in,
                                   !.state = "STARTTLS",
                                   !.sslcontext = context,
                                   !.is_handshaking = handshaking]
<1>3. socket[s] \in SocketState /\ in \in Seq(Line)
  BY <1>1, LoopLine DEF TakeCommand
<1>4. sk \in SocketState
  <2>1. "STARTTLS" \in Verb
    BY DEF Verb
  <2> HIDE DEF in
  <2> QED
    BY <1>3, <2>1, Zenon DEF SocketState
<1> QED
  BY <1>1, <1>2, <1>4, SocketUpdate, TakeCommandTypeOK DEF SessionTypeOK

LEMMA ReadReturnsTypeOK ==
  ASSUME SessionTypeOK, NEW s \in Socket, ReadReturns(s)
  PROVE  SessionTypeOK'
<1> DEFINE stop == socket[s].stop \/ socket[s].last
           sk   == [socket[s] EXCEPT !.pc = "idle", !.stop = stop, !.last = FALSE]
<1>1. sk \in SocketState
  <2>1. stop \in BOOLEAN
    OBVIOUS
  <2> HIDE DEF stop
  <2> QED
    BY <2>1, SocketType, Zenon DEF SocketState
<1>2. socket' = [socket EXCEPT ![s] = sk]
  BY DEF ReadReturns
<1> QED
  BY <1>1, <1>2, SocketUpdate DEF ReadReturns, SessionTypeOK

LEMMA ByeCompletesTypeOK ==
  ASSUME SessionTypeOK, NEW s \in Socket, ByeCompletes(s)
  PROVE  SessionTypeOK'
<1> DEFINE sk == [socket[s] EXCEPT !.bye = FALSE, !.stop = TRUE]
<1>1. sk \in SocketState
  BY SocketType, Zenon DEF SocketState
<1>2. socket' = [socket EXCEPT ![s] = sk]
  BY SocketType DEF ByeCompletes, SessionTypeOK
<1> QED
  BY <1>1, <1>2, SocketUpdate DEF ByeCompletes, SessionTypeOK

LEMMA CleanupTypeOK ==
  ASSUME SessionTypeOK, NEW s \in Socket, Cleanup(s)
  PROVE  SessionTypeOK'
<1> DEFINE sk == [socket[s] EXCEPT !.phase = "freed"]
<1>1. sk \in SocketState
  BY SocketType, Zenon DEF SocketState
<1>2. socket' = [socket EXCEPT ![s] = sk]
  BY DEF Cleanup
<1>3. handlerQ' \in Seq(Block)
  BY BlockType, DispatchOneType DEF Cleanup, SessionTypeOK
<1> QED
  BY <1>1, <1>2, <1>3, SocketUpdate DEF Cleanup, SessionTypeOK

\* libEmailz's own steps.
LEMMA ProgressTypeOK ==
  ASSUME SessionTypeOK, NEW s \in Socket, Progress(s)
  PROVE  SessionTypeOK'
BY DataEndTypeOK, DataLineTypeOK, NoCommandTypeOK, PlainCommandTypeOK,
   StartTlsTypeOK, ReadReturnsTypeOK, ByeCompletesTypeOK, CleanupTypeOK
   DEF Progress, Handling, HandleLine

-------------------------------------------------------------------------------
\* The block at the head of the queue, and the queue behind it.
LEMMA RunningType ==
  ASSUME SessionTypeOK, NEW s \in Socket, NEW kind, Running(kind, s)
  PROVE  /\ Head(handlerQ) \in Block
         /\ Head(handlerQ).kind = kind
         /\ kind \in {"smtp", "data"} => Head(handlerQ).line \in Line
         /\ Tail(handlerQ) \in Seq(Block)
<1>1. Head(handlerQ) \in Block /\ Tail(handlerQ) \in Seq(Block)
  BY TailType DEF Running, SessionTypeOK
<1>2. Head(handlerQ).kind = kind
  BY DEF Running
<1>3. kind \in {"smtp", "data"} => Head(handlerQ).line \in Line
  BY <1>1, <1>2 DEF Block
<1> QED
  BY <1>1, <1>2, <1>3

\* A connection begins with every field of its socket zero.
LEMMA FreshType == Fresh \in SocketState /\ [Fresh EXCEPT !.phase = "open"] \in SocketState
<1>1. <<>> \in Seq(Line)
  OBVIOUS
<1>2. "NONE" \in Verb \cup {"NONE"} /\ 0 \in Nat
  OBVIOUS
<1>3. Fresh \in SocketState
  BY <1>1, <1>2, Zenon DEF Fresh, SocketState
<1> QED
  BY <1>3, Zenon DEF SocketState

LEMMA HandleAcceptTypeOK ==
  ASSUME SessionTypeOK, NEW s \in Socket, Running("accept", s), HandleAccept(s)
  PROVE  SessionTypeOK'
<1>1. socket' \in [Socket -> SocketState]
  BY FreshType, SocketUpdate DEF HandleAccept, SessionTypeOK
<1>2. handlerQ' \in Seq(Block)
  <2>1. Tail(handlerQ) \in Seq(Block)
    BY RunningType
  <2>2. B("open", s, NoLine) \in Block
    BY BlockType
  <2> QED
    BY <2>1, <2>2 DEF HandleAccept
<1> QED
  BY <1>1, <1>2 DEF HandleAccept, SessionTypeOK

LEMMA SetHandlerTypeOK ==
  ASSUME SessionTypeOK, NEW s \in Socket,
         SetSmtpHandler(s) \/ SetDataHandler(s), UNCHANGED handlerQ
  PROVE  SessionTypeOK'
<1>1. CASE SetSmtpHandler(s)
  <2> DEFINE sk == [socket[s] EXCEPT !.smtp_handler = TRUE]
  <2>1. sk \in SocketState
    BY SocketType, Zenon DEF SocketState
  <2>2. socket' = [socket EXCEPT ![s] = sk]
    BY <1>1 DEF SetSmtpHandler
  <2> QED
    BY <1>1, <2>1, <2>2, SocketUpdate DEF SetSmtpHandler, SessionTypeOK
<1>2. CASE SetDataHandler(s)
  <2> DEFINE sk == [socket[s] EXCEPT !.data_handler = TRUE]
  <2>1. sk \in SocketState
    BY SocketType, Zenon DEF SocketState
  <2>2. socket' = [socket EXCEPT ![s] = sk]
    BY <1>2 DEF SetDataHandler
  <2> QED
    BY <1>2, <2>1, <2>2, SocketUpdate DEF SetDataHandler, SessionTypeOK
<1> QED
  BY <1>1, <1>2

\* A block that ends without touching libEmailz's state.
LEMMA BlockEndsTypeOK ==
  ASSUME SessionTypeOK, NEW s \in Socket, NEW kind, Running(kind, s), BlockEnds,
         UNCHANGED <<socket, peer, txn, due>>
  PROVE  SessionTypeOK'
BY RunningType DEF BlockEnds, SessionTypeOK

\* The application's SMSocket.
LEMMA SMSocketFields ==
  ASSUME NEW sm \in SMSocket
  PROVE  /\ sm.context \in BOOLEAN
         /\ sm.emailCount \in Nat
         /\ sm.email # NoMail => /\ sm.email \in SMEmail
                                 /\ sm.email.serial \in Nat
                                 /\ sm.email.mail \in Mail
                                 /\ sm.email.mail.rcpt \in Seq(Arg)
                                 /\ sm.email.mail.body \in Seq(Line)
BY DEF SMSocket, SMEmail, Mail

LEMMA SetEmailType ==
  ASSUME NEW sm \in SMSocket, NEW email \in SMEmail \cup {NoMail}
  PROVE  SetEmail(sm, email) \in SMSocket
<1> DEFINE n == sm.emailCount + 1
<1>1. n \in Nat
  BY SMSocketFields
<1> HIDE DEF n
<1>2. [sm EXCEPT !.email = email, !.emailCount = n] \in SMSocket
  BY <1>1, Zenon DEF SMSocket
<1> QED
  BY <1>2 DEF SetEmail, n

LEMMA NewEmailType ==
  ASSUME NEW sm \in SMSocket, NEW line \in Line
  PROVE  NewEmail(sm, line) \in SMEmail
<1> DEFINE mail == [EmptyMail EXCEPT !.from = line.arg]
           n    == sm.emailCount + 1
<1>1. mail \in Mail
  BY EmptyMailType, MailUpdates
<1>2. n \in Nat
  BY SMSocketFields
<1> HIDE DEF mail, n
<1>3. [serial |-> n, mail |-> mail] \in SMEmail
  BY <1>1, <1>2, Zenon DEF SMEmail
<1> QED
  BY <1>3 DEF NewEmail, mail, n

\* A new mail in the email under construction.
LEMMA WithMailType ==
  ASSUME NEW sm \in SMSocket, sm.email # NoMail, NEW mail \in Mail
  PROVE  [sm EXCEPT !.email = [sm.email EXCEPT !.mail = mail]] \in SMSocket
<1>1. [sm.email EXCEPT !.mail = mail] \in SMEmail
  BY SMSocketFields, Zenon DEF SMEmail
<1> QED
  BY <1>1, Zenon DEF SMSocket

LEMMA WithRecipientType ==
  ASSUME NEW sm \in SMSocket, NEW line \in Line
  PROVE  WithRecipient(sm, line) \in SMSocket
<1>1. CASE sm.email # NoMail /\ line.arg \in Arg
  <2> DEFINE mail == [sm.email.mail EXCEPT !.rcpt = Append(sm.email.mail.rcpt, line.arg)]
  <2>1. mail \in Mail
    BY <1>1, SMSocketFields, MailUpdates
  <2>2. WithRecipient(sm, line) = [sm EXCEPT !.email = [sm.email EXCEPT !.mail = mail]]
    BY <1>1 DEF WithRecipient
  <2> QED
    BY <1>1, <2>1, <2>2, WithMailType
<1>2. CASE ~(sm.email # NoMail /\ line.arg \in Arg)
  BY <1>2 DEF WithRecipient
<1> QED
  BY <1>1, <1>2

LEMMA WithDataType ==
  ASSUME NEW sm \in SMSocket, NEW line \in Line
  PROVE  WithData(sm, line) \in SMSocket
<1>1. CASE sm.email # NoMail
  <2> DEFINE mail == [sm.email.mail EXCEPT !.body = Append(sm.email.mail.body, line)]
  <2>1. mail \in Mail
    BY <1>1, SMSocketFields, MailUpdates
  <2>2. WithData(sm, line) = [sm EXCEPT !.email = [sm.email EXCEPT !.mail = mail]]
    BY <1>1 DEF WithData
  <2> QED
    BY <1>1, <2>1, <2>2, WithMailType
<1>2. CASE ~(sm.email # NoMail)
  BY <1>2 DEF WithData
<1> QED
  BY <1>1, <1>2

LEMMA SMSocketUpdate ==
  ASSUME smsocket \in [Socket -> SMSocket], NEW s \in Socket, NEW sm \in SMSocket
  PROVE  [smsocket EXCEPT ![s] = sm] \in [Socket -> SMSocket]
OBVIOUS

\* The callbacks of the application.
LEMMA HandleSmtpTypeOK ==
  ASSUME AppTypeOK, NEW s \in Socket, NEW line \in Line, HandleSmtp(s, line)
  PROVE  AppTypeOK'
<1>1. smsocket[s] \in SMSocket
  BY DEF AppTypeOK
<1>2. CASE HandleFrom(s, line)
  <2> DEFINE sm == IF smsocket[s].context
                   THEN SetEmail(smsocket[s], NewEmail(smsocket[s], line)) ELSE smsocket[s]
  <2>1. sm \in SMSocket
    BY <1>1, NewEmailType, SetEmailType
  <2>2. smsocket' = [smsocket EXCEPT ![s] = sm]
    BY <1>2 DEF HandleFrom
  <2> QED
    BY <1>2, <2>1, <2>2, SMSocketUpdate DEF HandleFrom, AppTypeOK
<1>3. CASE HandleRcpt(s, line)
  BY <1>1, <1>3, WithRecipientType, SMSocketUpdate DEF HandleRcpt, AppTypeOK
<1> QED
  BY <1>2, <1>3 DEF HandleSmtp

LEMMA HandleDataTypeOK ==
  ASSUME AppTypeOK, NEW s \in Socket, NEW line \in Line, HandleData(s, line)
  PROVE  AppTypeOK'
<1>1. WithData(smsocket[s], line) \in SMSocket
  BY WithDataType DEF AppTypeOK
<1> QED
  BY <1>1, SMSocketUpdate DEF HandleData, AppTypeOK

LEMMA HandleEmailTypeOK ==
  ASSUME AppTypeOK, NEW s \in Socket, HandleEmail(s)
  PROVE  AppTypeOK'
<1>1. smsocket[s] \in SMSocket
  BY DEF AppTypeOK
<1>2. SetEmail(smsocket[s], NoMail) \in SMSocket
  BY <1>1, SetEmailType
<1>3. CASE smsocket[s].email # NoMail /\ smsocket[s].email.mail.rcpt = <<>>
  BY <1>3 DEF HandleEmail, AppTypeOK
<1>4. CASE smsocket[s].email # NoMail /\ smsocket[s].email.mail.rcpt # <<>>
  <2>1. Append(mDb[s], smsocket[s].email) \in Seq(SMEmail)
    BY <1>1, <1>4, SMSocketFields DEF AppTypeOK
  <2>2. mDb' \in [Socket -> Seq(SMEmail)]
    BY <1>4, <2>1 DEF HandleEmail, AppTypeOK
  <2> QED
    BY <1>2, <1>4, <2>2, SMSocketUpdate DEF HandleEmail, AppTypeOK
<1>5. CASE smsocket[s].email = NoMail
  BY <1>1, <1>2, <1>5, SMSocketUpdate DEF HandleEmail, AppTypeOK
<1> QED
  BY <1>3, <1>4, <1>5

LEMMA SetContextTypeOK ==
  ASSUME AppTypeOK, NEW s \in Socket, SetContext(s)
  PROVE  AppTypeOK'
<1> DEFINE sm == [smsocket[s] EXCEPT !.context = TRUE]
<1>1. smsocket[s] \in SMSocket
  BY DEF AppTypeOK
<1>2. sm \in SMSocket
  BY <1>1, Zenon DEF SMSocket
<1>3. smsocket' = [smsocket EXCEPT ![s] = sm]
  BY DEF SetContext
<1> QED
  BY <1>2, <1>3, SMSocketUpdate DEF SetContext, AppTypeOK

-------------------------------------------------------------------------------
\* The type invariant, split along the two modules.
LEMMA TypeSplit == TypeOK <=> SessionTypeOK /\ AppTypeOK /\ openStep \in 0..2
BY DEF TypeOK, SessionTypeOK, AppTypeOK

LEMMA InitTypeOK == Init => TypeOK
<1> SUFFICES ASSUME Init PROVE TypeOK
  OBVIOUS
<1>1. socket \in [Socket -> SocketState]
  BY FreshType DEF Init, SessionInit
<1>2. handlerQ \in Seq(Block)
  BY DEF Init, SessionInit
<1>3. peer \in [Socket -> PeerState]
  <2> DEFINE pr == [mode |-> "idle", sent |-> 0, wire |-> <<>>]
  <2>1. <<>> \in Seq(Line) /\ 0 \in Nat
    OBVIOUS
  <2>2. pr \in PeerState
    BY <2>1, Zenon DEF PeerState
  <2> QED
    BY <2>2 DEF Init, SessionInit
<1>4. txn \in [Socket -> Mail] /\ due \in [Socket -> Seq(Mail)]
  BY EmptyMailType DEF Init, SessionInit
<1>5. smsocket \in [Socket -> SMSocket]
  <2> DEFINE sm == [context |-> FALSE, emailCount |-> 0, email |-> NoMail]
  <2>1. 0 \in Nat /\ NoMail \in SMEmail \cup {NoMail}
    OBVIOUS
  <2>2. sm \in SMSocket
    BY <2>1, Zenon DEF SMSocket
  <2> QED
    BY <2>2 DEF Init, AppInit
<1>6. mDb \in [Socket -> Seq(SMEmail)] /\ openStep \in 0..2
  BY DEF Init, AppInit
<1>7. crashed \in BOOLEAN
  BY Zenon DEF Init, AppInit
<1> QED
  BY <1>1, <1>2, <1>3, <1>4, <1>5, <1>6, <1>7 DEF TypeOK

LEMMA RunOpenTypeOK ==
  ASSUME TypeOK, NEW s \in Socket, RunOpen(s)
  PROVE  TypeOK'
<1>1. SessionTypeOK /\ AppTypeOK
  BY TypeSplit
<1>2. CASE openStep = 2
  <2>1. SetContext(s) /\ BlockEnds /\ UNCHANGED <<socket, peer, txn, due>> /\ openStep' = 0
    BY <1>2 DEF RunOpen
  <2>2. SessionTypeOK'
    BY <1>1, <2>1, BlockEndsTypeOK DEF RunOpen
  <2>3. AppTypeOK'
    BY <1>1, <2>1, SetContextTypeOK
  <2> QED
    BY <2>1, <2>2, <2>3 DEF TypeOK, SessionTypeOK, AppTypeOK
<1>3. CASE openStep # 2
  <2>1. /\ SetSmtpHandler(s) \/ SetDataHandler(s)
        /\ openStep' \in 0..2
        /\ UNCHANGED handlerQ
        /\ UNCHANGED appVars
    BY <1>3 DEF RunOpen
  <2>2. SessionTypeOK'
    BY <1>1, <2>1, SetHandlerTypeOK
  <2>3. AppTypeOK'
    BY <1>1, <2>1 DEF appVars, AppTypeOK
  <2> QED
    BY <2>1, <2>2, <2>3 DEF TypeOK, SessionTypeOK, AppTypeOK
<1> QED
  BY <1>2, <1>3

LEMMA RunBlockTypeOK ==
  ASSUME TypeOK, NEW s \in Socket, RunBlock(s)
  PROVE  TypeOK'
<1>1. SessionTypeOK /\ AppTypeOK /\ openStep \in 0..2
  BY TypeSplit
<1>2. CASE RunAccept(s)
  <2>1. SessionTypeOK'
    BY <1>1, <1>2, HandleAcceptTypeOK DEF RunAccept
  <2> QED
    BY <1>1, <1>2, <2>1 DEF RunAccept, appVars, AppTypeOK, SessionTypeOK, TypeOK
<1>3. CASE RunOpen(s)
  BY <1>3, RunOpenTypeOK
<1>4. CASE RunSmtp(s)
  <2>1. SessionTypeOK' /\ Head(handlerQ).line \in Line
    BY <1>1, <1>4, BlockEndsTypeOK, RunningType DEF RunSmtp
  <2>2. AppTypeOK'
    BY <1>1, <1>4, <2>1, HandleSmtpTypeOK DEF RunSmtp
  <2> QED
    BY <1>1, <1>4, <2>1, <2>2 DEF RunSmtp, AppTypeOK, SessionTypeOK, TypeOK
<1>5. CASE RunData(s)
  <2>1. SessionTypeOK' /\ Head(handlerQ).line \in Line
    BY <1>1, <1>5, BlockEndsTypeOK, RunningType DEF RunData
  <2>2. AppTypeOK'
    BY <1>1, <1>5, <2>1, HandleDataTypeOK DEF RunData
  <2> QED
    BY <1>1, <1>5, <2>1, <2>2 DEF RunData, AppTypeOK, SessionTypeOK, TypeOK
<1>6. CASE RunDone(s)
  <2>1. SessionTypeOK'
    BY <1>1, <1>6, BlockEndsTypeOK DEF RunDone
  <2>2. AppTypeOK'
    BY <1>1, <1>6, HandleEmailTypeOK DEF RunDone
  <2> QED
    BY <1>1, <1>6, <2>1, <2>2 DEF RunDone, AppTypeOK, SessionTypeOK, TypeOK
<1>7. CASE RunClose(s)
  <2>1. SessionTypeOK'
    BY <1>1, <1>7, BlockEndsTypeOK DEF RunClose
  <2> QED
    BY <1>1, <1>7, <2>1 DEF RunClose, appVars, AppTypeOK, SessionTypeOK, TypeOK
<1> QED
  BY <1>2, <1>3, <1>4, <1>5, <1>6, <1>7 DEF RunBlock

LEMMA NextTypeOK == TypeOK /\ [Next]_vars => TypeOK'
<1> SUFFICES ASSUME TypeOK, [Next]_vars PROVE TypeOK'
  OBVIOUS
<1>1. SessionTypeOK /\ AppTypeOK /\ openStep \in 0..2
  BY TypeSplit
<1>2. CASE UNCHANGED vars
  BY <1>2 DEF vars, TypeOK
<1>3. CASE Next
  <2>1. PICK s \in Socket :
          Connect(s) \/ Client(s) \/ Receive(s) \/ Work(s) \/ RunBlock(s)
    BY <1>3 DEF Next
  <2>2. CASE RunBlock(s)
    BY <2>2, RunBlockTypeOK
  <2>3. CASE Connect(s) \/ Client(s) \/ Receive(s) \/ Work(s)
    <3>1. SessionTypeOK'
      BY <1>1, <2>3, ConnectTypeOK, ClientTypeOK, ArrivalTypeOK, ProgressTypeOK
         DEF Connect, Client, Receive, Work
    <3>2. UNCHANGED <<appVars, openStep>>
      BY <2>3 DEF Connect, Client, Receive, Work
    <3> QED
      BY <1>1, <3>1, <3>2 DEF appVars, AppTypeOK, SessionTypeOK, TypeOK
  <2> QED
    BY <2>1, <2>2, <2>3
<1> QED
  BY <1>2, <1>3

\* Every variable keeps its type, whatever the connections, lines and bounds:
\* the state machine of emailz_socket_handle_read and the callbacks it queues
\* never reach a state outside the ones the code's types allow.
THEOREM TypeCorrect == Spec => []TypeOK
BY InitTypeOK, NextTypeOK, PTL DEF Spec
-------------------------------------------------------------------------------
(***************************************************************************)
(* Keys.  KeysUnique alone is not inductive: a new mail takes its serial    *)
(* from emailCount, so the invariant says where emailCount stands.         *)
(***************************************************************************)
\* The mails of s are stored under growing serials, all below the count, and
\* the email under construction has the count itself.
SerialsBelowCount(s) ==
  /\ \A i \in DOMAIN mDb[s] : mDb[s][i].serial < smsocket[s].emailCount
  /\ \A i, j \in DOMAIN mDb[s] : i < j => mDb[s][i].serial < mDb[s][j].serial
  /\ smsocket[s].email # NoMail => smsocket[s].email.serial = smsocket[s].emailCount

SerialInv == AppTypeOK /\ \A s \in Socket : SerialsBelowCount(s)

LEMMA StoredFields ==
  ASSUME NEW q \in Seq(SMEmail), NEW i \in DOMAIN q
  PROVE  i \in Nat /\ q[i].serial \in Nat
<1>1. q[i] \in SMEmail /\ i \in Nat
  OBVIOUS
<1> QED
  BY <1>1 DEF SMEmail

\* An application step touches the mails of its own connection only.
LEMMA SerialFrame ==
  ASSUME SerialInv, AppTypeOK', NEW s \in Socket, NEW sm,
         smsocket' = [smsocket EXCEPT ![s] = sm],
         \A t \in Socket \ {s} : mDb'[t] = mDb[t],
         SerialsBelowCount(s)'
  PROVE  SerialInv'
<1> SUFFICES ASSUME NEW t \in Socket, t # s
             PROVE  SerialsBelowCount(t)'
  BY DEF SerialInv
<1>1. smsocket'[t] = smsocket[t] /\ mDb'[t] = mDb[t]
  BY DEF SerialInv, AppTypeOK
<1> QED
  BY <1>1 DEF SerialInv, SerialsBelowCount

\* A new email, or nil, moves the count past every stored serial.
LEMMA SetEmailSerials ==
  ASSUME SerialInv, NEW s \in Socket, NEW email,
         smsocket' = [smsocket EXCEPT ![s] = SetEmail(smsocket[s], email)],
         email # NoMail => email.serial = smsocket[s].emailCount + 1,
         UNCHANGED mDb
  PROVE  SerialsBelowCount(s)'
<1>1. smsocket[s] \in SMSocket /\ mDb[s] \in Seq(SMEmail)
  BY DEF SerialInv, AppTypeOK
<1>2. /\ smsocket'[s].emailCount = smsocket[s].emailCount + 1
      /\ smsocket'[s].email = email
  BY <1>1 DEF SerialInv, AppTypeOK, SetEmail, SMSocket
<1>3. smsocket[s].emailCount \in Nat /\ \A i \in DOMAIN mDb[s] : mDb[s][i].serial \in Nat
  BY <1>1, SMSocketFields, StoredFields
<1> QED
  BY <1>2, <1>3 DEF SerialInv, SerialsBelowCount

\* A change of the mail under construction leaves its serial.
LEMMA SameSerials ==
  ASSUME SerialInv, NEW s \in Socket, NEW sm,
         smsocket' = [smsocket EXCEPT ![s] = sm],
         sm.emailCount = smsocket[s].emailCount,
         sm.email # NoMail => smsocket[s].email # NoMail /\ sm.email.serial = smsocket[s].email.serial,
         UNCHANGED mDb
  PROVE  SerialsBelowCount(s)'
BY DEF SerialInv, AppTypeOK, SerialsBelowCount

LEMMA HandleSmtpSerials ==
  ASSUME SerialInv, NEW s \in Socket, NEW line \in Line, HandleSmtp(s, line)
  PROVE  SerialInv'
<1>1. AppTypeOK /\ AppTypeOK' /\ smsocket[s] \in SMSocket
  BY HandleSmtpTypeOK DEF SerialInv, AppTypeOK
<1>2. UNCHANGED mDb
  BY DEF HandleSmtp, HandleFrom, HandleRcpt
<1>3. CASE HandleFrom(s, line) /\ smsocket[s].context
  <2> DEFINE email == NewEmail(smsocket[s], line)
  <2>1. smsocket' = [smsocket EXCEPT ![s] = SetEmail(smsocket[s], email)]
    BY <1>3 DEF HandleFrom
  <2>2. email.serial = smsocket[s].emailCount + 1
    BY DEF NewEmail
  <2>3. SerialsBelowCount(s)'
    BY <1>2, <2>1, <2>2, SetEmailSerials
  <2> QED
    BY <1>1, <1>2, <2>1, <2>3, SerialFrame
<1>4. CASE HandleFrom(s, line) /\ ~smsocket[s].context
  <2>1. smsocket' = [smsocket EXCEPT ![s] = smsocket[s]]
    BY <1>4 DEF HandleFrom
  <2>2. SerialsBelowCount(s)'
    BY <1>2, <2>1, SameSerials
  <2> QED
    BY <1>1, <1>2, <2>1, <2>2, SerialFrame
<1>5. CASE HandleRcpt(s, line)
  <2> DEFINE sm == WithRecipient(smsocket[s], line)
  <2>1. smsocket' = [smsocket EXCEPT ![s] = sm]
    BY <1>5 DEF HandleRcpt
  <2>2. /\ sm.emailCount = smsocket[s].emailCount
        /\ sm.email # NoMail => /\ smsocket[s].email # NoMail
                                /\ sm.email.serial = smsocket[s].email.serial
    BY <1>1, SMSocketFields DEF WithRecipient, SMSocket, SMEmail
  <2>3. SerialsBelowCount(s)'
    BY <1>2, <2>1, <2>2, SameSerials
  <2> QED
    BY <1>1, <1>2, <2>1, <2>3, SerialFrame
<1> QED
  BY <1>3, <1>4, <1>5 DEF HandleSmtp

LEMMA HandleDataSerials ==
  ASSUME SerialInv, NEW s \in Socket, NEW line \in Line, HandleData(s, line)
  PROVE  SerialInv'
<1> DEFINE sm == WithData(smsocket[s], line)
<1>1. AppTypeOK /\ AppTypeOK' /\ smsocket[s] \in SMSocket
  BY HandleDataTypeOK DEF SerialInv, AppTypeOK
<1>2. smsocket' = [smsocket EXCEPT ![s] = sm] /\ UNCHANGED mDb
  BY DEF HandleData
<1>3. /\ sm.emailCount = smsocket[s].emailCount
      /\ sm.email # NoMail => /\ smsocket[s].email # NoMail
                              /\ sm.email.serial = smsocket[s].email.serial
  BY <1>1, SMSocketFields DEF WithData, SMSocket, SMEmail
<1>4. SerialsBelowCount(s)'
  BY <1>2, <1>3, SameSerials
<1> QED
  BY <1>1, <1>2, <1>4, SerialFrame

\* Storing: the email's serial, the count so far, goes behind smaller ones and
\* the count moves past it.
LEMMA HandleEmailSerials ==
  ASSUME SerialInv, NEW s \in Socket, HandleEmail(s)
  PROVE  SerialInv'
<1>1. AppTypeOK /\ AppTypeOK' /\ smsocket[s] \in SMSocket /\ mDb[s] \in Seq(SMEmail)
  BY HandleEmailTypeOK DEF SerialInv, AppTypeOK
<1>2. CASE smsocket[s].email # NoMail /\ smsocket[s].email.mail.rcpt = <<>>
  BY <1>1, <1>2 DEF HandleEmail, SerialInv, SerialsBelowCount
<1>3. CASE smsocket[s].email # NoMail /\ smsocket[s].email.mail.rcpt # <<>>
  <2> DEFINE email == smsocket[s].email
             count == smsocket[s].emailCount
  <2>1. /\ smsocket' = [smsocket EXCEPT ![s] = SetEmail(smsocket[s], NoMail)]
        /\ mDb' = [mDb EXCEPT ![s] = Append(mDb[s], email)]
    BY <1>3 DEF HandleEmail
  <2>2. /\ mDb'[s] = Append(mDb[s], email)
        /\ smsocket'[s].emailCount = count + 1
        /\ smsocket'[s].email = NoMail
    BY <1>1, <2>1 DEF AppTypeOK, SetEmail, SMSocket
  <2>3. count \in Nat /\ email \in SMEmail /\ email.serial = count
    BY <1>1, <1>3, SMSocketFields DEF SerialInv, SerialsBelowCount
  <2>4. /\ \A i \in DOMAIN mDb[s] : mDb[s][i].serial \in Nat /\ mDb[s][i].serial < count
        /\ \A i, j \in DOMAIN mDb[s] : i < j => mDb[s][i].serial < mDb[s][j].serial
    BY <1>1, StoredFields DEF SerialInv, SerialsBelowCount
  <2>5. /\ DOMAIN mDb'[s] = 1..Len(mDb[s]) + 1
        /\ \A i \in DOMAIN mDb[s] : mDb'[s][i] = mDb[s][i]
        /\ DOMAIN mDb[s] = 1..Len(mDb[s])
        /\ mDb'[s][Len(mDb[s]) + 1] = email
    BY <1>1, <2>2, <2>3
  <2>6. SerialsBelowCount(s)'
    <3> DEFINE k == Len(mDb[s])
    <3> HIDE DEF k, email, count
    <3>1. k \in Nat /\ DOMAIN mDb'[s] = 1..k + 1 /\ DOMAIN mDb[s] = 1..k
      BY <1>1, <2>5 DEF k
    <3>2. /\ mDb'[s][k + 1].serial = count
          /\ \A i \in 1..k : mDb'[s][i].serial = mDb[s][i].serial
      BY <2>3, <2>5, <3>1 DEF k
    <3>3. \A i \in 1..k + 1 : i \in 1..k \/ i = k + 1
      BY <3>1
    <3> DEFINE before(i) == mDb[s][i].serial
               after(i) == mDb'[s][i].serial
    <3>4. /\ count \in Nat /\ \A i \in 1..k : before(i) \in Nat /\ before(i) < count
          /\ \A i, j \in 1..k : i < j => before(i) < before(j)
      BY <2>3, <2>4, <3>1
    <3>5. after(k + 1) = count /\ \A i \in 1..k : after(i) = before(i)
      BY <3>2
    <3> HIDE DEF before, after
    <3>6. \A i \in 1..k + 1 : after(i) < count + 1
      BY <3>3, <3>4, <3>5
    <3>7. \A i, j \in 1..k + 1 : i < j => after(i) < after(j)
      <4>1. \A i, j \in 1..k + 1 : i < j => i \in 1..k
        BY <3>1
      <4> QED
        BY <3>3, <3>4, <3>5, <4>1
    <3> QED
      BY <2>2, <3>1, <3>6, <3>7 DEF SerialsBelowCount, after
  <2>7. \A t \in Socket \ {s} : mDb'[t] = mDb[t]
    BY <1>1, <2>1 DEF AppTypeOK
  <2> QED
    BY <1>1, <2>1, <2>6, <2>7, SerialFrame
<1>4. CASE smsocket[s].email = NoMail
  <2>1. PICK sm \in {SetEmail(smsocket[s], NoMail), smsocket[s]} :
          smsocket' = [smsocket EXCEPT ![s] = sm] /\ UNCHANGED mDb
    BY <1>4 DEF HandleEmail
  <2>2. SerialsBelowCount(s)'
    BY <2>1, SetEmailSerials, SameSerials
  <2> QED
    BY <1>1, <2>1, <2>2, SerialFrame
<1> QED
  BY <1>2, <1>3, <1>4

LEMMA SetContextSerials ==
  ASSUME SerialInv, NEW s \in Socket, SetContext(s)
  PROVE  SerialInv'
<1> DEFINE sm == [smsocket[s] EXCEPT !.context = TRUE]
<1>1. AppTypeOK /\ AppTypeOK' /\ smsocket[s] \in SMSocket
  BY SetContextTypeOK DEF SerialInv, AppTypeOK
<1>2. smsocket' = [smsocket EXCEPT ![s] = sm] /\ UNCHANGED mDb
  BY DEF SetContext
<1>3. sm.emailCount = smsocket[s].emailCount /\ sm.email = smsocket[s].email
  BY <1>1 DEF SMSocket
<1>4. SerialsBelowCount(s)'
  BY <1>2, <1>3, SameSerials
<1> QED
  BY <1>1, <1>2, <1>4, SerialFrame

LEMMA NextSerials == TypeOK /\ SerialInv /\ [Next]_vars => SerialInv'
<1> SUFFICES ASSUME TypeOK, SerialInv, [Next]_vars PROVE SerialInv'
  OBVIOUS
<1>1. CASE UNCHANGED appVars
  BY <1>1 DEF appVars, SerialInv, SerialsBelowCount, AppTypeOK
<1>2. ASSUME NEW s \in Socket, RunBlock(s) PROVE SerialInv'
  <2>1. SessionTypeOK
    BY TypeSplit
  <2>2. CASE RunAccept(s) \/ RunClose(s)
    BY <1>1, <2>2 DEF RunAccept, RunClose
  <2>3. CASE RunOpen(s)
    BY <1>1, <2>3, SetContextSerials DEF RunOpen
  <2>4. CASE RunSmtp(s)
    BY <2>1, <2>4, RunningType, HandleSmtpSerials DEF RunSmtp
  <2>5. CASE RunData(s)
    BY <2>1, <2>5, RunningType, HandleDataSerials DEF RunData
  <2>6. CASE RunDone(s)
    BY <2>6, HandleEmailSerials DEF RunDone
  <2> QED
    BY <1>2, <2>2, <2>3, <2>4, <2>5, <2>6 DEF RunBlock
<1>3. UNCHANGED appVars \/ \E s \in Socket : RunBlock(s)
  BY DEF Next, vars, appVars, Connect, Client, Receive, Work
<1> QED
  BY <1>1, <1>2, <1>3

LEMMA SerialsUnique == SerialInv => KeysUnique
<1> SUFFICES ASSUME SerialInv, NEW s \in Socket,
                    NEW i \in DOMAIN mDb[s], NEW j \in DOMAIN mDb[s],
                    mDb[s][i].serial = mDb[s][j].serial
             PROVE  i = j
  BY DEF KeysUnique
<1>1. mDb[s] \in Seq(SMEmail)
  BY DEF SerialInv, AppTypeOK
<1>2. i \in Nat /\ j \in Nat /\ mDb[s][i].serial \in Nat
  BY <1>1, StoredFields
<1>3. ~(i < j) /\ ~(j < i)
  BY <1>2 DEF SerialInv, SerialsBelowCount
<1> QED
  BY <1>2, <1>3

\* -[SMSocket setEmail:] counts nil too, and the serial of a mail is the count:
\* no mail of a connection is ever stored over an earlier one.
THEOREM KeysAreUnique == Spec => []KeysUnique
<1>1. Init => SerialInv
  <2> SUFFICES ASSUME Init PROVE SerialInv
    OBVIOUS
  <2>1. AppTypeOK
    BY InitTypeOK, TypeSplit
  <2> QED
    BY <2>1 DEF Init, AppInit, SerialInv, SerialsBelowCount
<1> QED
  BY <1>1, NextSerials, SerialsUnique, TypeCorrect, PTL DEF Spec

-------------------------------------------------------------------------------
(***************************************************************************)
(* Order.  BlocksInOrder is kept by a dispatch only if what is queued and   *)
(* the phase of the connection agree: a connection not begun has no block,  *)
(* one that is being accepted has just one, one that is open no CLOSE; and  *)
(* lines are handled on open connections only.                             *)
(***************************************************************************)
QueueFits(q, s) ==
  /\ socket[s].phase = "none" => \A i \in DOMAIN q : q[i].sock # s
  /\ socket[s].phase = "queued" =>
       \A i, j \in DOMAIN q : q[i].sock = s /\ q[j].sock = s => i = j
  /\ socket[s].phase = "open" =>
       \A i \in DOMAIN q : q[i].sock = s => q[i].kind # "close"

InOrderQ(q) ==
  \A i, j \in DOMAIN q :
    i < j /\ q[i].sock = q[j].sock
      => q[i].kind # "close" /\ q[j].kind \notin {"accept", "open"}

OrderInv ==
  /\ SessionTypeOK
  /\ \A s \in Socket : socket[s].pc # "idle" \/ socket[s].bye => socket[s].phase = "open"
  /\ \A s \in Socket : QueueFits(handlerQ, s)
  /\ InOrderQ(handlerQ)

\* A queue and a block more.
LEMMA AppendFacts ==
  ASSUME NEW q \in Seq(Block), NEW b \in Block
  PROVE  /\ q \o <<b>> = Append(q, b)
         /\ Append(q, b) \in Seq(Block)
         /\ DOMAIN q = 1..Len(q)
         /\ DOMAIN Append(q, b) = 1..Len(q) + 1
         /\ Len(q) \in Nat
         /\ \A i \in 1..Len(q) : Append(q, b)[i] = q[i]
         /\ Append(q, b)[Len(q) + 1] = b
<1>1. <<b>> \in Seq(Block) /\ Len(<<b>>) = 1 /\ <<b>>[1] = b
  OBVIOUS
<1> QED
  BY <1>1

LEMMA AppendInOrder ==
  ASSUME NEW q \in Seq(Block), NEW b \in Block, InOrderQ(q),
         \A i \in DOMAIN q : q[i].sock = b.sock =>
            q[i].kind # "close" /\ b.kind \notin {"accept", "open"}
  PROVE  InOrderQ(Append(q, b))
BY AppendFacts DEF InOrderQ

\* A queue without its head.
LEMMA TailFacts ==
  ASSUME NEW q \in Seq(Block), q # <<>>
  PROVE  /\ Tail(q) \in Seq(Block)
         /\ DOMAIN Tail(q) = 1..Len(q) - 1
         /\ DOMAIN q = 1..Len(q)
         /\ Len(q) \in Nat \ {0}
         /\ \A i \in 1..Len(q) - 1 : Tail(q)[i] = q[i + 1]
         /\ Head(q) = q[1]
OBVIOUS

LEMMA TailInOrder ==
  ASSUME NEW q \in Seq(Block), q # <<>>, InOrderQ(q)
  PROVE  InOrderQ(Tail(q))
BY TailFacts DEF InOrderQ

LEMMA TailFits ==
  ASSUME NEW q \in Seq(Block), q # <<>>, NEW s, QueueFits(q, s)
  PROVE  QueueFits(Tail(q), s)
BY TailFacts DEF QueueFits

\* A block of connection s is of no concern to the others.
LEMMA AppendFits ==
  ASSUME NEW q \in Seq(Block), NEW b \in Block, NEW t, b.sock # t, QueueFits(q, t)
  PROVE  QueueFits(Append(q, b), t)
BY AppendFacts DEF QueueFits

\* An open connection dispatches a callback.
LEMMA OpenDispatches ==
  ASSUME OrderInv, NEW s \in Socket, socket[s].phase = "open",
         NEW b \in Block, b.sock = s, b.kind \in {"smtp", "data", "done"}
  PROVE  /\ InOrderQ(Append(handlerQ, b))
         /\ \A t \in Socket : QueueFits(Append(handlerQ, b), t)
<1>1. handlerQ \in Seq(Block) /\ InOrderQ(handlerQ)
  BY DEF OrderInv, SessionTypeOK
<1>2. \A i \in DOMAIN handlerQ : handlerQ[i].sock = s => handlerQ[i].kind # "close"
  BY DEF OrderInv, QueueFits
<1>3. InOrderQ(Append(handlerQ, b))
  BY <1>1, <1>2, AppendInOrder
<1>4. ASSUME NEW t \in Socket, t # s PROVE QueueFits(Append(handlerQ, b), t)
  BY <1>1, <1>4, AppendFits DEF OrderInv
<1>5. QueueFits(Append(handlerQ, b), s)
  BY <1>1, <1>2, AppendFacts DEF QueueFits
<1> QED
  BY <1>3, <1>4, <1>5

\* What an open connection may do to the queue.
Callback(s) ==
  \/ UNCHANGED handlerQ
  \/ \E b \in Block : /\ b.sock = s
                      /\ b.kind \in {"smtp", "data", "done"}
                      /\ handlerQ' = Append(handlerQ, b)

\* Connection s stays open, the others stay as they are.
StaysOpen(s) ==
  /\ socket'[s].phase = "open"
  /\ \A t \in Socket \ {s} : socket'[t] = socket[t]

\* A step that leaves connection s open keeps the order.
LEMMA OpenStep ==
  ASSUME OrderInv, SessionTypeOK', NEW s \in Socket,
         socket[s].phase = "open", StaysOpen(s), Callback(s)
  PROVE  OrderInv'
<1>1. ASSUME NEW t \in Socket
      PROVE  /\ socket'[t].phase = socket[t].phase
             /\ t # s => socket'[t] = socket[t]
             /\ \A q : QueueFits(q, t) => QueueFits(q, t)'
  BY DEF StaysOpen, OrderInv, SessionTypeOK, QueueFits
<1>2. \A t \in Socket : socket'[t].pc # "idle" \/ socket'[t].bye => socket'[t].phase = "open"
  BY <1>1 DEF StaysOpen, OrderInv
<1>3. CASE UNCHANGED handlerQ
  BY <1>1, <1>2, <1>3 DEF OrderInv
<1>4. ASSUME NEW b \in Block, b.sock = s, b.kind \in {"smtp", "data", "done"},
             handlerQ' = Append(handlerQ, b)
      PROVE  OrderInv'
  <2>1. /\ InOrderQ(Append(handlerQ, b))
        /\ \A t \in Socket : QueueFits(Append(handlerQ, b), t)
    BY <1>4, OpenDispatches
  <2>2. InOrderQ(handlerQ)'
    BY <1>4, <2>1 DEF InOrderQ
  <2>3. \A t \in Socket : QueueFits(handlerQ, t)'
    BY <1>1, <1>4, <2>1 DEF QueueFits
  <2> QED
    BY <1>2, <2>2, <2>3 DEF OrderInv
<1> QED
  BY <1>3, <1>4 DEF Callback

LEMMA BFields ==
  ASSUME NEW kind, NEW s, NEW line
  PROVE  B(kind, s, line).kind = kind /\ B(kind, s, line).sock = s
BY DEF B

LEMMA DispatchCallback ==
  ASSUME SessionTypeOK, NEW s \in Socket, NEW kind \in {"smtp", "data", "done"}, NEW line,
         B(kind, s, line) \in Block,
         Dispatch(<<B(kind, s, line)>>) \/ Dispatch(<<>>)
  PROVE  Callback(s)
<1>1. CASE Dispatch(<<>>)
  BY <1>1 DEF Dispatch, SessionTypeOK, Callback
<1>2. CASE Dispatch(<<B(kind, s, line)>>)
  BY <1>2, AppendFacts, BFields DEF Dispatch, SessionTypeOK, Callback
<1> QED
  BY <1>1, <1>2

\* No action on an open connection but Cleanup sets its phase.
LEMMA LineStaysOpen ==
  ASSUME SessionTypeOK, NEW s \in Socket, socket[s].phase = "open", HandleLine(s)
  PROVE  StaysOpen(s)
<1>1. socket[s] \in SocketState
  BY SocketType
<1>2. CASE DataEnd(s)
  BY <1>1, <1>2 DEF DataEnd, SessionTypeOK, StaysOpen, SocketState
<1>3. CASE DataLine(s)
  BY <1>1, <1>3 DEF DataLine, SessionTypeOK, StaysOpen, SocketState
<1>4. CASE NoCommand(s)
  BY <1>1, <1>4 DEF NoCommand, SessionTypeOK, StaysOpen, SocketState
<1>5. CASE PlainCommand(s)
  BY <1>1, <1>5 DEF PlainCommand, SessionTypeOK, StaysOpen, SocketState
<1>6. CASE StartTls(s)
  BY <1>1, <1>6 DEF StartTls, SessionTypeOK, StaysOpen, SocketState
<1> QED
  BY <1>2, <1>3, <1>4, <1>5, <1>6 DEF HandleLine

LEMMA ArrivalStaysOpen ==
  ASSUME SessionTypeOK, NEW s \in Socket, socket[s].phase = "open",
         Arrival(s) \/ ReadReturns(s) \/ ByeCompletes(s)
  PROVE  StaysOpen(s)
<1>1. socket[s] \in SocketState
  BY SocketType
<1>2. CASE ReadPlain(s)
  BY <1>1, <1>2 DEF ReadPlain, SessionTypeOK, StaysOpen, SocketState
<1>3. CASE ReadSecure(s)
  BY <1>1, <1>3 DEF ReadSecure, SessionTypeOK, StaysOpen, SocketState
<1>4. CASE ReadReturns(s)
  BY <1>1, <1>4 DEF ReadReturns, SessionTypeOK, StaysOpen, SocketState
<1>5. CASE ByeCompletes(s)
  BY <1>1, <1>5 DEF ByeCompletes, SessionTypeOK, StaysOpen, SocketState
<1>6. CASE HandshakeFails(s) \/ ReadTimeout(s) \/ WriteFails(s)
  BY <1>1, <1>6 DEF HandshakeFails, ReadTimeout, WriteFails, SessionTypeOK, StaysOpen,
                    SocketState
<1> QED
  BY <1>2, <1>3, <1>4, <1>5, <1>6 DEF Arrival

\* Handling a line, and what it dispatches.
LEMMA HandleLineOrder ==
  ASSUME OrderInv, SessionTypeOK', NEW s \in Socket, HandleLine(s)
  PROVE  OrderInv'
<1> DEFINE line == Head(socket[s].indata)
           in   == Tail(socket[s].indata)
<1>1. InLoop(s)
  BY DEF HandleLine, DataEnd, DataLine, NoCommand, PlainCommand, StartTls, TakeCommand
<1>2. SessionTypeOK /\ socket[s] \in SocketState /\ line \in Line /\ socket[s].phase = "open"
  BY <1>1, LoopLine DEF OrderInv, InLoop
<1>3. CASE DataEnd(s)
  <2>1. Callback(s)
    BY <1>2, <1>3, BlockType, DispatchCallback DEF DataEnd
  <2> QED
    BY <1>2, <1>3, <2>1, LineStaysOpen, OpenStep DEF HandleLine
<1>4. CASE DataLine(s)
  <2> DEFINE over == socket[s].email_size + line.len > MaxData
             kind == IF over THEN "done" ELSE "data"
  <2>1. Dispatch(<<B(kind, s, line)>>) \/ Dispatch(<<>>)
    BY <1>4 DEF DataLine
  <2>2. kind \in {"smtp", "data", "done"}
    OBVIOUS
  <2> HIDE DEF kind
  <2>3. Callback(s)
    BY <1>2, <2>1, <2>2, BlockType, DispatchCallback
  <2> QED
    BY <1>2, <1>4, <2>3, LineStaysOpen, OpenStep DEF HandleLine
<1>5. CASE NoCommand(s)
  BY <1>2, <1>5, LineStaysOpen, OpenStep DEF NoCommand, Callback, HandleLine
<1>6. ASSUME TakeCommand(s, line) PROVE Callback(s)
  BY <1>2, <1>6, BlockType, DispatchCallback DEF TakeCommand
<1>7. CASE PlainCommand(s)
  BY <1>2, <1>6, <1>7, LineStaysOpen, OpenStep DEF PlainCommand, HandleLine
<1>8. CASE StartTls(s)
  BY <1>2, <1>6, <1>8, LineStaysOpen, OpenStep DEF StartTls, HandleLine
<1> QED
  BY <1>3, <1>4, <1>5, <1>7, <1>8 DEF HandleLine

\* What arrives, returns or completes on an open connection.
LEMMA ArrivalOrder ==
  ASSUME OrderInv, SessionTypeOK', NEW s \in Socket,
         Arrival(s) \/ ReadReturns(s) \/ ByeCompletes(s)
  PROVE  OrderInv'
<1>1. SessionTypeOK /\ socket[s].phase = "open"
  BY DEF OrderInv, Arrival, ReadPlain, HandshakeFails, ReadSecure, ReadTimeout,
         WriteFails, ReadReturns, ByeCompletes, Readable
<1>2. UNCHANGED handlerQ
  BY DEF Arrival, ReadPlain, HandshakeFails, ReadSecure, ReadTimeout,
         WriteFails, ReadReturns, ByeCompletes
<1>3. StaysOpen(s)
  BY <1>1, ArrivalStaysOpen
<1> QED
  BY <1>1, <1>2, <1>3, OpenStep DEF Callback

\* CLOSE goes behind everything of its connection.
LEMMA CleanupOrder ==
  ASSUME OrderInv, SessionTypeOK', NEW s \in Socket, Cleanup(s)
  PROVE  OrderInv'
<1> DEFINE b == B("close", s, NoLine)
<1>1. /\ b \in Block /\ b.sock = s /\ b.kind = "close"
      /\ handlerQ \in Seq(Block) /\ socket[s] \in SocketState
  BY BlockType, BFields, SocketType DEF OrderInv, SessionTypeOK
<1>2. handlerQ' = Append(handlerQ, b)
  BY <1>1, AppendFacts DEF Cleanup, Dispatch
<1> HIDE DEF b
<1>3. \A t \in Socket \ {s} : socket'[t] = socket[t]
  BY DEF Cleanup, OrderInv, SessionTypeOK
<1>4. socket'[s].phase = "freed" /\ socket'[s].pc = "idle" /\ ~socket'[s].bye
  BY <1>1 DEF Cleanup, HandlersReturned, OrderInv, SessionTypeOK, SocketState
<1>5. InOrderQ(handlerQ)'
  <2>1. InOrderQ(Append(handlerQ, b))
    BY <1>1, AppendInOrder DEF Cleanup, OrderInv, QueueFits
  <2> QED
    BY <1>2, <2>1 DEF InOrderQ
<1>6. ASSUME NEW t \in Socket PROVE QueueFits(handlerQ, t)'
  <2>1. CASE t = s
    BY <1>4, <2>1 DEF QueueFits
  <2>2. CASE t # s
    <3>1. QueueFits(Append(handlerQ, b), t)
      BY <1>1, <2>2, AppendFits DEF OrderInv
    <3> QED
      BY <1>2, <1>3, <2>2, <3>1 DEF QueueFits
  <2> QED
    BY <2>1, <2>2
<1> QED
  BY <1>3, <1>4, <1>5, <1>6 DEF OrderInv

\* A connection's first block.
LEMMA ConnectOrder ==
  ASSUME OrderInv, SessionTypeOK', NEW s \in Socket, ListenerAccepts(s)
  PROVE  OrderInv'
<1> DEFINE b == B("accept", s, NoLine)
<1>1. /\ b \in Block /\ b.sock = s
      /\ handlerQ \in Seq(Block) /\ socket[s] \in SocketState
  BY BlockType, BFields, SocketType DEF OrderInv, SessionTypeOK
<1>2. handlerQ' = Append(handlerQ, b)
  BY <1>1, AppendFacts DEF ListenerAccepts, Dispatch
<1> HIDE DEF b
<1>3. \A t \in Socket \ {s} : socket'[t] = socket[t]
  BY DEF ListenerAccepts, OrderInv, SessionTypeOK
<1>4. socket'[s].phase = "queued" /\ socket'[s].pc = "idle" /\ ~socket'[s].bye
  BY <1>1 DEF ListenerAccepts, OrderInv, SessionTypeOK, SocketState
<1>5. \A i \in DOMAIN handlerQ : handlerQ[i].sock # s
  BY DEF ListenerAccepts, OrderInv, QueueFits
<1>6. InOrderQ(handlerQ)'
  <2>1. InOrderQ(Append(handlerQ, b))
    BY <1>1, <1>5, AppendInOrder DEF OrderInv
  <2> QED
    BY <1>2, <2>1 DEF InOrderQ
<1>7. ASSUME NEW t \in Socket PROVE QueueFits(handlerQ, t)'
  <2>1. CASE t = s
    BY <1>1, <1>2, <1>4, <1>5, <2>1, AppendFacts DEF QueueFits
  <2>2. CASE t # s
    <3>1. QueueFits(Append(handlerQ, b), t)
      BY <1>1, <2>2, AppendFits DEF OrderInv
    <3> QED
      BY <1>2, <1>3, <2>2, <3>1 DEF QueueFits
  <2> QED
    BY <2>1, <2>2
<1> QED
  BY <1>3, <1>4, <1>6, <1>7 DEF OrderInv

\* The accept block becomes the OPEN block: the connection has no other.
LEMMA AcceptOrder ==
  ASSUME OrderInv, SessionTypeOK', NEW s \in Socket, Running("accept", s), HandleAccept(s)
  PROVE  OrderInv'
<1> DEFINE b == B("open", s, NoLine)
           q == Tail(handlerQ)
<1>1. /\ b \in Block /\ b.sock = s /\ b.kind = "open"
      /\ handlerQ \in Seq(Block) /\ handlerQ # <<>> /\ q \in Seq(Block)
  BY BlockType, BFields, TailType DEF Running, OrderInv, SessionTypeOK
<1>2. \A i \in DOMAIN q : q[i].sock # s
  <2>1. /\ handlerQ[1].sock = s
        /\ \A i, j \in DOMAIN handlerQ : handlerQ[i].sock = s /\ handlerQ[j].sock = s => i = j
    BY <1>1, TailFacts DEF Running, HandleAccept, OrderInv, QueueFits
  <2> QED
    BY <1>1, <2>1, TailFacts
<1>3. InOrderQ(q) /\ \A t \in Socket : QueueFits(q, t)
  BY <1>1, TailInOrder, TailFits DEF OrderInv
<1>4. handlerQ' = Append(q, b)
  BY DEF HandleAccept
<1>5. \A t \in Socket \ {s} : socket'[t] = socket[t]
  BY DEF HandleAccept, OrderInv, SessionTypeOK
<1>6. socket'[s].phase = "open"
  BY DEF HandleAccept, OrderInv, SessionTypeOK, Fresh
<1> HIDE DEF b, q
<1>7. InOrderQ(handlerQ)'
  <2>1. InOrderQ(Append(q, b))
    BY <1>1, <1>2, <1>3, AppendInOrder
  <2> QED
    BY <1>4, <2>1 DEF InOrderQ
<1>8. ASSUME NEW t \in Socket PROVE QueueFits(handlerQ, t)'
  <2>1. CASE t = s
    BY <1>1, <1>2, <1>4, <1>6, <2>1, AppendFacts DEF QueueFits
  <2>2. CASE t # s
    <3>1. QueueFits(Append(q, b), t)
      BY <1>1, <1>3, <2>2, AppendFits
    <3> QED
      BY <1>4, <1>5, <2>2, <3>1 DEF QueueFits
  <2> QED
    BY <2>1, <2>2
<1> QED
  BY <1>5, <1>6, <1>7, <1>8 DEF OrderInv

\* A block that is done.
LEMMA BlockEndsOrder ==
  ASSUME OrderInv, SessionTypeOK', handlerQ # <<>>, BlockEnds, UNCHANGED socket
  PROVE  OrderInv'
<1>1. handlerQ \in Seq(Block)
  BY DEF OrderInv, SessionTypeOK
<1>2. InOrderQ(Tail(handlerQ)) /\ \A t \in Socket : QueueFits(Tail(handlerQ), t)
  BY <1>1, TailInOrder, TailFits DEF OrderInv
<1>3. InOrderQ(handlerQ)' /\ \A t \in Socket : QueueFits(handlerQ, t)'
  BY <1>2 DEF BlockEnds, InOrderQ, QueueFits
<1> QED
  BY <1>3 DEF OrderInv

\* The handlers the application installs.
LEMMA InstallOrder ==
  ASSUME OrderInv, SessionTypeOK', NEW s \in Socket,
         SetSmtpHandler(s) \/ SetDataHandler(s), UNCHANGED handlerQ
  PROVE  OrderInv'
<1>1. ASSUME NEW t \in Socket
      PROVE  /\ socket'[t].phase = socket[t].phase
             /\ socket'[t].pc = socket[t].pc
             /\ socket'[t].bye = socket[t].bye
  <2>1. socket[t] \in SocketState
    BY SocketType DEF OrderInv
  <2>2. \/ socket'[t] = socket[t]
        \/ socket'[t] = [socket[t] EXCEPT !.smtp_handler = TRUE]
        \/ socket'[t] = [socket[t] EXCEPT !.data_handler = TRUE]
    <3>1. CASE SetSmtpHandler(s)
      BY <3>1 DEF SetSmtpHandler, OrderInv, SessionTypeOK
    <3>2. CASE SetDataHandler(s)
      BY <3>2 DEF SetDataHandler, OrderInv, SessionTypeOK
    <3> QED
      BY <3>1, <3>2
  <2> QED
    BY <2>1, <2>2 DEF SocketState
<1>2. InOrderQ(handlerQ)'
  BY DEF OrderInv, InOrderQ
<1>3. \A t \in Socket : QueueFits(handlerQ, t)'
  BY <1>1 DEF OrderInv, QueueFits
<1> QED
  BY <1>1, <1>2, <1>3 DEF OrderInv

LEMMA RunBlockOrder ==
  ASSUME OrderInv, SessionTypeOK', NEW s \in Socket, RunBlock(s)
  PROVE  OrderInv'
<1>1. handlerQ # <<>>
  BY DEF RunBlock, RunAccept, RunOpen, RunSmtp, RunData, RunDone, RunClose, Running
<1>2. CASE RunAccept(s)
  BY <1>2, AcceptOrder DEF RunAccept
<1>3. CASE RunOpen(s)
  BY <1>1, <1>3, InstallOrder, BlockEndsOrder DEF RunOpen
<1>4. CASE RunSmtp(s) \/ RunData(s) \/ RunDone(s) \/ RunClose(s)
  BY <1>1, <1>4, BlockEndsOrder DEF RunSmtp, RunData, RunDone, RunClose
<1> QED
  BY <1>2, <1>3, <1>4 DEF RunBlock

LEMMA NextOrder == TypeOK' /\ OrderInv /\ [Next]_vars => OrderInv'
<1> SUFFICES ASSUME TypeOK', OrderInv, [Next]_vars PROVE OrderInv'
  OBVIOUS
<1>1. SessionTypeOK'
  BY DEF TypeOK, SessionTypeOK
<1>2. CASE UNCHANGED sessionVars
  BY <1>2 DEF sessionVars, OrderInv, SessionTypeOK, QueueFits, InOrderQ
<1>3. CASE Next
  <2>1. PICK s \in Socket :
          Connect(s) \/ Client(s) \/ Receive(s) \/ Work(s) \/ RunBlock(s)
    BY <1>3 DEF Next
  <2>2. CASE Connect(s)
    BY <1>1, <2>2, ConnectOrder DEF Connect
  <2>3. CASE Client(s)
    <3>1. UNCHANGED <<socket, handlerQ>>
      BY <2>3 DEF Client, ClientStep, ClientSends
    <3> QED
      BY <1>1, <3>1 DEF OrderInv, QueueFits, InOrderQ
  <2>4. CASE Receive(s)
    BY <1>1, <2>4, ArrivalOrder DEF Receive
  <2>5. CASE Work(s)
    BY <1>1, <2>5, HandleLineOrder, ArrivalOrder, CleanupOrder DEF Work, Progress, Handling
  <2>6. CASE RunBlock(s)
    BY <1>1, <2>6, RunBlockOrder
  <2> QED
    BY <2>1, <2>2, <2>3, <2>4, <2>5, <2>6
<1> QED
  BY <1>2, <1>3 DEF vars, sessionVars

\* Whatever the interleaving of read handlers, cleanups and the queue, no
\* callback of a connection is queued in front of its OPEN or behind its CLOSE.
THEOREM BlocksStayInOrder == Spec => []BlocksInOrder
<1>1. Init => OrderInv
  <2> SUFFICES ASSUME Init PROVE OrderInv
    OBVIOUS
  <2>1. SessionTypeOK
    BY InitTypeOK, TypeSplit
  <2> QED
    BY <2>1 DEF Init, SessionInit, Fresh, OrderInv, QueueFits, InOrderQ
<1>2. OrderInv => BlocksInOrder
  BY DEF OrderInv, InOrderQ, BlocksInOrder
<1> QED
  BY <1>1, <1>2, NextOrder, TypeCorrect, PTL DEF Spec

-------------------------------------------------------------------------------
(***************************************************************************)
(* Induction over the naturals, for a set: the smallest number outside it   *)
(* would have a predecessor in it.                                         *)
(***************************************************************************)
LEMMA LeastNat ==
  ASSUME NEW T, T \subseteq Nat, T # {}
  PROVE  \E n \in T : \A m \in T : n <= m
<1> DEFINE R == OpToRel(<, Nat)
<1>1. IsWellFoundedOn(R, Nat)
  BY NatLessThanWellFounded DEF OpToRel
<1>2. R = {ss \in Nat \X Nat : ss[1] < ss[2]}
  BY DEF OpToRel
<1> HIDE DEF R
<1>3. PICK n \in T : \A m \in T : ~ (<<m, n>> \in R)
  BY <1>1, WFMin
<1>4. \A m \in T : ~(m < n)
  BY <1>2, <1>3
<1> QED
  BY <1>3, <1>4

\* A set with zero and every successor holds every natural number.
LEMMA SetInduction ==
  ASSUME NEW S, 0 \in S, \A n \in Nat : n \in S => n + 1 \in S
  PROVE  Nat \subseteq S
<1> SUFFICES ASSUME Nat \ S # {} PROVE FALSE
  OBVIOUS
<1>1. PICK n \in Nat \ S : \A m \in Nat \ S : n <= m
  BY LeastNat
<1>2. n # 0 /\ n - 1 \in Nat
  BY <1>1
<1>3. n - 1 \in S
  BY <1>1, <1>2
<1> QED
  BY <1>1, <1>2, <1>3

-------------------------------------------------------------------------------
(***************************************************************************)
(* The size of a body is the sum of the sizes of its lines.                *)
(***************************************************************************)
\* f holds the sums of the lengths of the first lines of body, up to m.
SumsTo(body, m, f) ==
  f = [n \in 0..m |-> IF n = 0 THEN 0 ELSE f[n - 1] + body[n].len]

\* The sums exist,
LEMMA SumsExist ==
  ASSUME NEW body \in Seq(Line), NEW m \in 0..Len(body)
  PROVE  \E f \in [0..m -> Nat] : SumsTo(body, m, f)
<1> DEFINE S == {k \in Nat : k <= Len(body) => \E f \in [0..k -> Nat] : SumsTo(body, k, f)}
<1>1. 0 \in S
  <2> DEFINE f == [n \in 0..0 |-> 0]
  <2>1. f \in [0..0 -> Nat] /\ SumsTo(body, 0, f)
    BY DEF SumsTo
  <2> QED
    BY <2>1
<1>2. ASSUME NEW k \in Nat, k \in S PROVE k + 1 \in S
  <2> SUFFICES ASSUME k + 1 <= Len(body)
               PROVE  \E f \in [0..k + 1 -> Nat] : SumsTo(body, k + 1, f)
    OBVIOUS
  <2>1. PICK f \in [0..k -> Nat] : SumsTo(body, k, f)
    BY <1>2
  <2>2. body[k + 1].len \in Nat
    BY LineFields
  <2> DEFINE g == [n \in 0..k + 1 |-> IF n = k + 1 THEN f[k] + body[k + 1].len ELSE f[n]]
  <2>3. \A n \in 0..k + 1 : g[n] \in Nat
    BY <2>1, <2>2
  <2>4. \A n \in 0..k : f[n] = IF n = 0 THEN 0 ELSE f[n - 1] + body[n].len
    BY <2>1 DEF SumsTo
  <2>5. \A n \in 0..k + 1 : g[n] = IF n = 0 THEN 0 ELSE g[n - 1] + body[n].len
    <3> SUFFICES ASSUME NEW n \in 0..k + 1
                 PROVE  g[n] = IF n = 0 THEN 0 ELSE g[n - 1] + body[n].len
      OBVIOUS
    <3>1. CASE n = k + 1
      <4>1. n # 0 /\ n - 1 = k /\ k # k + 1 /\ k \in 0..k + 1
        BY <3>1
      <4> QED
        BY <3>1, <4>1
    <3>2. CASE n # k + 1
      <4>1. n \in 0..k /\ (n # 0 => n - 1 \in 0..k + 1 /\ n - 1 # k + 1)
        BY <3>2
      <4> QED
        BY <2>4, <3>2, <4>1
    <3> QED
      BY <3>1, <3>2
  <2>6. DOMAIN g = 0..k + 1
    OBVIOUS
  <2>7. g = [n \in 0..k + 1 |-> g[n]]
    OBVIOUS
  <2> HIDE DEF g
  <2>8. [n \in 0..k + 1 |-> g[n]] = [n \in 0..k + 1 |-> IF n = 0 THEN 0 ELSE g[n - 1] + body[n].len]
    BY <2>5
  <2>9. SumsTo(body, k + 1, g)
    BY <2>7, <2>8 DEF SumsTo
  <2> QED
    BY <2>3, <2>7, <2>9
<1>3. Nat \subseteq S
  BY <1>1, <1>2, SetInduction
<1> QED
  BY <1>3

\* The sums of two bodies agree as far as their lines do.
LEMMA SumsAgree ==
  ASSUME NEW p \in Seq(Line), NEW q \in Seq(Line), NEW m \in Nat, NEW k \in Nat, NEW f, NEW g,
         SumsTo(p, m, f), SumsTo(q, k, g), m <= k, m <= Len(p), k <= Len(q),
         \A i \in 1..m : p[i] = q[i]
  PROVE  \A n \in 0..m : f[n] = g[n]
<1> DEFINE S == {n \in Nat : n <= m => f[n] = g[n]}
<1>0. /\ \A n \in 0..m : f[n] = IF n = 0 THEN 0 ELSE f[n - 1] + p[n].len
      /\ \A n \in 0..k : g[n] = IF n = 0 THEN 0 ELSE g[n - 1] + q[n].len
  BY DEF SumsTo
<1>1. 0 \in S
  <2>1. 0 \in 0..m /\ 0 \in 0..k
    OBVIOUS
  <2>2. f[0] = 0 /\ g[0] = 0
    BY <1>0, <2>1
  <2> QED
    BY <2>2
<1>2. ASSUME NEW n \in Nat, n \in S PROVE n + 1 \in S
  <2> SUFFICES ASSUME n + 1 <= m PROVE f[n + 1] = g[n + 1]
    OBVIOUS
  <2>1. f[n + 1] = f[n] + p[n + 1].len /\ g[n + 1] = g[n] + q[n + 1].len
    BY <1>0
  <2>2. f[n] = g[n] /\ p[n + 1] = q[n + 1]
    BY <1>2
  <2> QED
    BY <2>1, <2>2
<1>3. Nat \subseteq S
  BY <1>1, <1>2, SetInduction
<1> QED
  BY <1>3

\* and BodySize is the last of them:
LEMMA SizeSums ==
  ASSUME NEW body \in Seq(Line)
  PROVE  \E f \in [0..Len(body) -> Nat] :
           SumsTo(body, Len(body), f) /\ BodySize(body) = f[Len(body)]
<1> DEFINE f == CHOOSE f : SumsTo(body, Len(body), f)
<1>1. PICK g \in [0..Len(body) -> Nat] : SumsTo(body, Len(body), g)
  BY SumsExist
<1>2. SumsTo(body, Len(body), f)
  BY <1>1
<1>3. BodySize(body) = f[Len(body)]
  BY DEF BodySize, SumsTo
<1> HIDE DEF f
<1>4. \A n \in 0..Len(body) : f[n] = g[n]
  BY <1>1, <1>2, SumsAgree
<1>5. f \in [0..Len(body) -> Nat]
  BY <1>1, <1>2, <1>4 DEF SumsTo
<1> QED
  BY <1>2, <1>3, <1>5

\* a number,
LEMMA SizeType ==
  ASSUME NEW body \in Seq(Line)
  PROVE  BodySize(body) \in Nat
BY SizeSums

\* zero for no lines,
LEMMA SizeEmpty == BodySize(<<>>) = 0
<1>1. <<>> \in Seq(Line) /\ Len(<<>>) = 0
  OBVIOUS
<1>2. PICK f : SumsTo(<<>>, 0, f) /\ BodySize(<<>>) = f[0]
  BY <1>1, SizeSums
<1> QED
  BY <1>2 DEF SumsTo

\* and larger by its length for one line more.
LEMMA SizeAppend ==
  ASSUME NEW body \in Seq(Line), NEW line \in Line
  PROVE  /\ Append(body, line) \in Seq(Line)
         /\ BodySize(Append(body, line)) = BodySize(body) + line.len
<1> DEFINE longer == Append(body, line)
           m      == Len(body)
<1>1. /\ longer \in Seq(Line) /\ Len(longer) = m + 1 /\ m \in Nat
      /\ \A i \in 1..m : body[i] = longer[i]
      /\ longer[m + 1] = line
  OBVIOUS
<1> HIDE DEF longer
<1>2. PICK f \in [0..m -> Nat] : SumsTo(body, m, f) /\ BodySize(body) = f[m]
  BY SizeSums
<1>3. PICK g : SumsTo(longer, m + 1, g) /\ BodySize(longer) = g[m + 1]
  <2>1. \E g : SumsTo(longer, Len(longer), g) /\ BodySize(longer) = g[Len(longer)]
    BY <1>1, SizeSums
  <2> QED
    BY <1>1, <2>1
<1>4. f[m] = g[m]
  BY <1>1, <1>2, <1>3, SumsAgree
<1>5. g[m + 1] = g[m] + longer[m + 1].len
  BY <1>1, <1>3 DEF SumsTo
<1> QED
  BY <1>1, <1>2, <1>3, <1>4, <1>5 DEF longer

-------------------------------------------------------------------------------
\* A mail with a recipient, or a line, more, and the one that MAIL begins.
WithRcpt(mail, line) == [mail EXCEPT !.rcpt = Append(mail.rcpt, line.arg)]
WithLine(mail, line) == [mail EXCEPT !.body = Append(mail.body, line)]
Begun(line)          == [EmptyMail EXCEPT !.from = line.arg]

\* The fields of a block.
LEMMA BlockFields ==
  ASSUME NEW b \in Block
  PROVE  /\ b.kind \in {"smtp", "data", "accept", "open", "done", "close"}
         /\ b.sock \in Socket
         /\ b.kind \in {"smtp", "data"} => b.line \in Line
BY DEF Block

-------------------------------------------------------------------------------
(***************************************************************************)
(* The session.  A connection whose mail was cut off is stopped and out of  *)
(* its line loop; one not accepted yet is as it was created; email_size is  *)
(* the size of the lines handed over since DATA.                           *)
(***************************************************************************)
Untouched(s) ==
  /\ socket[s] = [Fresh EXCEPT !.phase = socket[s].phase]
  /\ peer[s] = [mode |-> "idle", sent |-> 0, wire |-> <<>>]
  /\ txn[s] = EmptyMail
  /\ due[s] = <<>>

SessionFits(s) ==
  /\ CutOff(s) => socket[s].stop /\ socket[s].pc # "lines"
  /\ socket[s].phase \in {"none", "queued"} => Untouched(s)
  /\ socket[s].state # "DATA" => txn[s].body = <<>>
  /\ socket[s].state = "DATA" /\ socket[s].email_size <= MaxData
       => socket[s].email_size = BodySize(txn[s].body)

\* Only a connection that was accepted has blocks behind its "accept".
AcceptedBlock(b) == b.kind # "accept" => socket[b.sock].phase \in {"open", "freed"}
Accepted == \A i \in DOMAIN handlerQ : AcceptedBlock(handlerQ[i])

SessionInv == OrderInv /\ Accepted /\ \A s \in Socket : SessionFits(s)

\* A step of connection s leaves what the session knows of the others.
Only(s) ==
  \A t \in Socket \ {s} :
    /\ socket'[t] = socket[t] /\ peer'[t] = peer[t]
    /\ txn'[t] = txn[t] /\ due'[t] = due[t]

\* The fields of s that no step of its data segment concerns.
SameHandlers(s) ==
  /\ socket'[s].smtp_handler = socket[s].smtp_handler
  /\ socket'[s].data_handler = socket[s].data_handler

\* A step that is not about a line changes neither the data segment nor the
\* handlers.
Beside(s) ==
  /\ Only(s) /\ SameHandlers(s)
  /\ socket'[s].state = socket[s].state
  /\ socket'[s].email_size = socket[s].email_size
  /\ txn'[s] = txn[s] /\ due'[s] = due[s]

\* Nothing leaves indata or the wire, or the socket is stopped.
Pending(s) == socket[s].indata \o peer[s].wire

\* What each step does to the connection: a socket that stops, a read handler
\* that returns.
LEMMA StopEffect ==
  ASSUME SessionTypeOK, NEW s \in Socket,
         HandshakeFails(s) \/ ReadTimeout(s) \/ WriteFails(s) \/ ReadReturns(s) \/ ByeCompletes(s)
  PROVE  /\ Beside(s)
         /\ socket'[s].phase = "open"  \/ socket'[s].phase = socket[s].phase
         /\ socket'[s].indata = socket[s].indata /\ peer' = peer /\ handlerQ' = handlerQ
         /\ socket[s].stop => socket'[s].stop
         /\ socket[s].pc # "lines" => socket'[s].pc # "lines"
<1>1. socket[s] \in SocketState
  BY SocketType
<1>2. CASE HandshakeFails(s) \/ ReadTimeout(s) \/ WriteFails(s)
  BY <1>1, <1>2 DEF HandshakeFails, ReadTimeout, WriteFails, SessionTypeOK, SocketState,
                    Beside, Only, SameHandlers
<1>3. CASE ReadReturns(s)
  BY <1>1, <1>3 DEF ReadReturns, SessionTypeOK, SocketState, Beside, Only, SameHandlers
<1>4. CASE ByeCompletes(s)
  BY <1>1, <1>4 DEF ByeCompletes, SessionTypeOK, SocketState, Beside, Only, SameHandlers
<1> QED
  BY <1>2, <1>3, <1>4

\* Lines received in the clear.
LEMMA ReadPlainEffect ==
  ASSUME SessionTypeOK, NEW s \in Socket, ReadPlain(s)
  PROVE  /\ Beside(s)
         /\ socket'[s].phase = socket[s].phase
         /\ socket'[s].indata = Pending(s) /\ peer'[s].wire = <<>> /\ peer'[s].mode = peer[s].mode
         /\ handlerQ' = handlerQ
         /\ ~socket[s].stop /\ ~socket'[s].stop
<1>1. socket[s] \in SocketState /\ peer[s] \in PeerState
  BY SocketType DEF SessionTypeOK
<1>2. PICK last \in BOOLEAN :
        socket' = [socket EXCEPT ![s] =
                     [socket[s] EXCEPT !.indata = socket[s].indata \o peer[s].wire,
                                       !.pc = "lines",
                                       !.last = last]]
  BY DEF ReadPlain
<1>3. peer' = [peer EXCEPT ![s].wire = <<>>] /\ UNCHANGED <<handlerQ, txn, due>>
  BY DEF ReadPlain
<1>4. peer'[s].wire = <<>> /\ peer'[s].mode = peer[s].mode /\ \A t \in Socket \ {s} : peer'[t] = peer[t]
  BY <1>1, <1>3 DEF SessionTypeOK, PeerState
<1>5. ~socket[s].stop
  BY DEF ReadPlain, Readable
<1> QED
  BY <1>1, <1>2, <1>3, <1>4, <1>5 DEF SessionTypeOK, SocketState, Beside, Only, SameHandlers, Pending

\* Lines received through TLS, or lost with it.
LEMMA ReadSecureEffect ==
  ASSUME SessionTypeOK, NEW s \in Socket, ReadSecure(s)
  PROVE  /\ Beside(s)
         /\ socket'[s].phase = socket[s].phase
         /\ \/ socket'[s].indata = Pending(s)
            \/ socket'[s].indata = socket[s].indata /\ (peer[s].wire = <<>> \/ socket'[s].stop)
         /\ peer'[s].wire = <<>> /\ peer'[s].mode = peer[s].mode
         /\ handlerQ' = handlerQ
         /\ ~socket[s].stop
<1>1. socket[s] \in SocketState /\ peer[s] \in PeerState
  BY SocketType DEF SessionTypeOK
<1>2. PICK fails \in BOOLEAN, last \in BOOLEAN :
        /\ socket[s].is_handshaking \/ socket[s].is_secure \/ fails
        /\ socket' = [socket EXCEPT ![s] =
            [socket[s] EXCEPT
                       !.is_secure = socket[s].is_secure \/ socket[s].is_handshaking,
                       !.is_handshaking = FALSE,
                       !.indata = IF socket[s].is_secure THEN socket[s].indata \o peer[s].wire
                                                  ELSE socket[s].indata,
                       !.pc = "lines",
                       !.stop = fails,
                       !.last = last]]
  BY DEF ReadSecure
<1>3. peer' = [peer EXCEPT ![s].wire = <<>>] /\ UNCHANGED <<handlerQ, txn, due>>
  BY DEF ReadSecure
<1>4. peer'[s].wire = <<>> /\ peer'[s].mode = peer[s].mode /\ \A t \in Socket \ {s} : peer'[t] = peer[t]
  BY <1>1, <1>3 DEF SessionTypeOK, PeerState
<1>5. ~socket[s].stop /\ (socket[s].is_handshaking => peer[s].wire = <<>>)
  BY DEF ReadSecure, Readable
<1>6. Beside(s) /\ socket'[s].phase = socket[s].phase
  BY <1>1, <1>2, <1>3, <1>4 DEF SessionTypeOK, SocketState, Beside, Only, SameHandlers
<1>7. /\ socket'[s].stop = fails
      /\ socket'[s].indata = IF socket[s].is_secure THEN Pending(s) ELSE socket[s].indata
  BY <1>1, <1>2 DEF SessionTypeOK, SocketState, Pending
<1> QED
  BY <1>2, <1>3, <1>4, <1>5, <1>6, <1>7

\* What every iteration of the line loop does: the line is taken off indata.
TakesLine(s) ==
  /\ InLoop(s)
  /\ Only(s) /\ SameHandlers(s) /\ peer' = peer
  /\ socket'[s].phase = socket[s].phase
  /\ socket'[s].indata = Tail(socket[s].indata)

\* The end of the data segment.
LEMMA DataEndEffect ==
  ASSUME SessionTypeOK, NEW s \in Socket, DataEnd(s)
  PROVE  /\ TakesLine(s)
         /\ socket[s].state = "DATA" /\ Head(socket[s].indata).word = "."
         /\ socket'[s].state = "NONE" /\ socket'[s].stop = socket[s].stop
         /\ handlerQ' = IF socket[s].data_handler THEN Append(handlerQ, B("done", s, NoLine))
                                                  ELSE handlerQ
         /\ due'[s] = Append(due[s], txn[s]) /\ txn'[s] = EmptyMail
<1>1. socket[s] \in SocketState /\ handlerQ \in Seq(Block)
  BY SocketType DEF SessionTypeOK
<1>2. handlerQ' = IF socket[s].data_handler THEN Append(handlerQ, B("done", s, NoLine)) ELSE handlerQ
  BY <1>1 DEF DataEnd, Dispatch
<1> QED
  BY <1>1, <1>2 DEF DataEnd, SessionTypeOK, SocketState, TakesLine, Only, SameHandlers

\* A line of it.
LEMMA DataLineEffect ==
  ASSUME SessionTypeOK, NEW s \in Socket, DataLine(s)
  PROVE  LET line == Head(socket[s].indata)
             size == socket[s].email_size + line.len
             over == size > MaxData
         IN /\ TakesLine(s)
            /\ socket[s].state = "DATA" /\ line.word # "."
            /\ socket'[s].state = "DATA" /\ socket'[s].email_size = size
            /\ over => socket'[s].stop /\ socket'[s].pc = "return"
            /\ ~over => socket'[s].stop = socket[s].stop
            /\ handlerQ' = IF socket[s].data_handler
                           THEN Append(handlerQ, B(IF over THEN "done" ELSE "data", s, line))
                           ELSE handlerQ
            /\ over => due'[s] = Append(due[s], txn[s]) /\ txn'[s] = txn[s]
            /\ ~over => due'[s] = due[s] /\ txn'[s] = WithLine(txn[s], line)
<1> DEFINE line == Head(socket[s].indata)
           size == socket[s].email_size + line.len
           over == size > MaxData
<1>1. socket[s] \in SocketState /\ handlerQ \in Seq(Block)
  BY SocketType DEF SessionTypeOK
<1>2. handlerQ' = IF socket[s].data_handler
                  THEN Append(handlerQ, B(IF over THEN "done" ELSE "data", s, line)) ELSE handlerQ
  BY <1>1 DEF DataLine, Dispatch
<1>3. InLoop(s) /\ peer' = peer /\ socket[s].state = "DATA" /\ line.word # "."
  BY DEF DataLine
<1>4. socket' = [socket EXCEPT ![s] =
                  [socket[s] EXCEPT !.indata = Tail(socket[s].indata),
                             !.email_size = size,
                             !.stop = socket[s].stop \/ over,
                             !.pc = IF over THEN "return" ELSE "lines"]]
  BY DEF DataLine
<1>5. /\ over => due' = [due EXCEPT ![s] = Append(due[s], txn[s])] /\ txn' = txn
      /\ ~over => /\ txn' = [txn EXCEPT ![s].body = Append(txn[s].body, line)] /\ due' = due
  BY DEF DataLine
<1> HIDE DEF over, size, line
<1>6. /\ \A t \in Socket \ {s} : socket'[t] = socket[t]
      /\ SameHandlers(s)
      /\ socket'[s].phase = socket[s].phase /\ socket'[s].indata = Tail(socket[s].indata)
      /\ socket'[s].state = "DATA" /\ socket'[s].email_size = size
      /\ over => socket'[s].stop /\ socket'[s].pc = "return"
      /\ ~over => socket'[s].stop = socket[s].stop
  BY <1>1, <1>3, <1>4 DEF SessionTypeOK, SocketState, SameHandlers
<1>7. /\ \A t \in Socket \ {s} : txn'[t] = txn[t] /\ due'[t] = due[t]
      /\ over => due'[s] = Append(due[s], txn[s]) /\ txn'[s] = txn[s]
      /\ ~over => due'[s] = due[s] /\ txn'[s] = WithLine(txn[s], line)
  BY <1>5 DEF SessionTypeOK, WithLine
<1>8. TakesLine(s)
  BY <1>3, <1>6, <1>7 DEF TakesLine, Only
<1> QED
  BY <1>2, <1>3, <1>6, <1>7, <1>8 DEF line, size, over

\* A line without a command word.
LEMMA NoCommandEffect ==
  ASSUME SessionTypeOK, NEW s \in Socket, NoCommand(s)
  PROVE  /\ TakesLine(s)
         /\ socket[s].state # "DATA" /\ ~HasCommand(Head(socket[s].indata))
         /\ socket'[s].state = socket[s].state /\ socket'[s].stop = socket[s].stop
         /\ handlerQ' = handlerQ
         /\ due'[s] = due[s] /\ txn'[s] = txn[s]
<1>1. socket[s] \in SocketState
  BY SocketType
<1> QED
  BY <1>1 DEF NoCommand, SessionTypeOK, SocketState, TakesLine, Only, SameHandlers

\* A command.
LEMMA CommandEffect ==
  ASSUME SessionTypeOK, NEW s \in Socket, PlainCommand(s) \/ StartTls(s)
  PROVE  LET line == Head(socket[s].indata) IN
         /\ TakesLine(s)
         /\ socket[s].state # "DATA" /\ HasCommand(line)
         /\ socket'[s].state = Command(line) /\ socket'[s].stop = socket[s].stop
         /\ line.word = "DATA" => socket'[s].email_size = 0
         /\ handlerQ' = IF socket[s].smtp_handler /\ line.word \in Mask
                        THEN Append(handlerQ, B("smtp", s, line)) ELSE handlerQ
         /\ due'[s] = due[s] /\ txn'[s] = Envelope(txn[s], line)
<1> DEFINE line == Head(socket[s].indata)
<1>1. socket[s] \in SocketState /\ handlerQ \in Seq(Block)
  BY SocketType DEF SessionTypeOK
<1>2. TakeCommand(s, line)
  BY DEF PlainCommand, StartTls
<1>3. /\ InLoop(s) /\ socket[s].state # "DATA" /\ HasCommand(line)
      /\ peer' = peer /\ due' = due
      /\ txn' = [txn EXCEPT ![s] = Envelope(txn[s], line)]
      /\ handlerQ' = IF socket[s].smtp_handler /\ line.word \in Mask
                     THEN Append(handlerQ, B("smtp", s, line)) ELSE handlerQ
  BY <1>1, <1>2 DEF TakeCommand, Dispatch
<1>4. /\ \A t \in Socket \ {s} : txn'[t] = txn[t]
      /\ txn'[s] = Envelope(txn[s], line)
  BY <1>3 DEF SessionTypeOK
<1>5. CASE PlainCommand(s)
  <2>1. socket' = [socket EXCEPT ![s] =
          [socket[s] EXCEPT !.indata = Tail(socket[s].indata),
                  !.state = Command(line),
                  !.email_size = SizeAfter(socket[s], line),
                  !.bye = ByeAfter(socket[s], line)]]
    BY <1>5 DEF PlainCommand
  <2>2. line.word = "DATA" => SizeAfter(socket[s], line) = 0
    BY DEF SizeAfter
  <2> HIDE DEF line
  <2> QED
    BY <1>1, <1>3, <1>4, <2>1, <2>2 DEF SessionTypeOK, SocketState, TakesLine, Only, SameHandlers, line
<1>6. CASE StartTls(s)
  <2>1. PICK context \in BOOLEAN, handshaking \in BOOLEAN :
          socket' = [socket EXCEPT ![s] =
            [socket[s] EXCEPT !.indata = Tail(socket[s].indata),
                       !.state = "STARTTLS",
                       !.sslcontext = context,
                       !.is_handshaking = handshaking]]
    BY <1>6 DEF StartTls
  <2>2. line.word = "STARTTLS" /\ Command(line) = "STARTTLS"
    BY <1>6 DEF StartTls, Command, Verb
  <2> HIDE DEF line
  <2> QED
    BY <1>1, <1>3, <1>4, <2>1, <2>2 DEF SessionTypeOK, SocketState, TakesLine, Only, SameHandlers, line
<1> QED
  BY <1>5, <1>6

\* A line queues at most one callback of its own connection.
LEMMA LineCallback ==
  ASSUME SessionTypeOK, NEW s \in Socket, HandleLine(s)
  PROVE  Callback(s)
<1> DEFINE line == Head(socket[s].indata)
           over == socket[s].email_size + line.len > MaxData
           kind == IF over THEN "done" ELSE "data"
<1>1. InLoop(s)
  BY DataEndEffect, DataLineEffect, NoCommandEffect, CommandEffect DEF HandleLine, TakesLine
<1>2. line \in Line
  BY <1>1, LoopLine
<1>3. \A b \in Block : b.sock = s /\ b.kind \in {"smtp", "data", "done"} /\ handlerQ' = Append(handlerQ, b)
        => Callback(s)
  BY DEF Callback
<1>4. handlerQ' = handlerQ => Callback(s)
  BY DEF Callback
<1>5. CASE DataEnd(s)
  BY <1>3, <1>4, <1>5, DataEndEffect, BlockType, BFields
<1>6. CASE DataLine(s)
  <2>1. handlerQ' = IF socket[s].data_handler THEN Append(handlerQ, B(kind, s, line)) ELSE handlerQ
    BY <1>6, DataLineEffect
  <2>2. B(kind, s, line) \in Block /\ B(kind, s, line).sock = s /\ B(kind, s, line).kind \in {"data", "done"}
    BY <1>2, BlockType, BFields
  <2> QED
    BY <1>3, <1>4, <2>1, <2>2
<1>7. CASE NoCommand(s)
  BY <1>4, <1>7, NoCommandEffect
<1>8. CASE PlainCommand(s) \/ StartTls(s)
  BY <1>2, <1>3, <1>4, <1>8, CommandEffect, BlockType, BFields
<1> QED
  BY <1>5, <1>6, <1>7, <1>8 DEF HandleLine

-------------------------------------------------------------------------------
\* The end of the channel.
LEMMA CleanupEffect ==
  ASSUME SessionTypeOK, NEW s \in Socket, Cleanup(s)
  PROVE  /\ Beside(s)
         /\ socket'[s].phase = "freed"
         /\ socket'[s].indata = socket[s].indata /\ peer' = peer
         /\ socket'[s].stop = socket[s].stop /\ socket'[s].pc = socket[s].pc
         /\ handlerQ' = Append(handlerQ, B("close", s, NoLine))
<1>1. socket[s] \in SocketState /\ handlerQ \in Seq(Block)
  BY SocketType DEF SessionTypeOK
<1>2. handlerQ' = Append(handlerQ, B("close", s, NoLine)) /\ peer' = peer
  BY <1>1 DEF Cleanup, Dispatch
<1>3. Beside(s)
  BY <1>1 DEF Cleanup, SessionTypeOK, SocketState, Beside, Only, SameHandlers
<1>4. /\ socket'[s].phase = "freed" /\ socket'[s].indata = socket[s].indata
      /\ socket'[s].stop = socket[s].stop /\ socket'[s].pc = socket[s].pc
  BY <1>1 DEF Cleanup, SessionTypeOK, SocketState
<1> QED
  BY <1>2, <1>3, <1>4

\* A connection is accepted.
LEMMA ConnectEffect ==
  ASSUME SessionTypeOK, NEW s \in Socket, ListenerAccepts(s)
  PROVE  /\ Beside(s)
         /\ socket[s].phase = "none"
         /\ socket'[s] = [socket[s] EXCEPT !.phase = "queued"]
         /\ socket'[s].phase = "queued" /\ socket'[s].indata = socket[s].indata /\ peer' = peer
         /\ socket'[s].stop = socket[s].stop /\ socket'[s].pc = socket[s].pc
         /\ handlerQ' = Append(handlerQ, B("accept", s, NoLine))
<1>1. socket[s] \in SocketState /\ handlerQ \in Seq(Block)
  BY SocketType DEF SessionTypeOK
<1> QED
  BY <1>1 DEF ListenerAccepts, Dispatch, SessionTypeOK, SocketState, Beside, Only, SameHandlers

\* A client sends a line.
LEMMA ClientEffect ==
  ASSUME SessionTypeOK, NEW s \in Socket, ClientStep(s)
  PROVE  /\ UNCHANGED <<socket, handlerQ, txn, due>>
         /\ socket[s].phase = "open" /\ ~socket[s].stop
         /\ OpenFirst => socket[s].data_handler
         /\ \A t \in Socket \ {s} : peer'[t] = peer[t]
         /\ \E line \in Line :
              /\ Polite => InOrder(peer[s].mode, line)
              /\ peer'[s].mode = ModeAfter(peer[s].mode, line)
              /\ peer'[s].wire = Append(peer[s].wire, line)
<1>1. PICK line \in Line : ClientSends(s, line)
  BY DEF ClientStep
<1>2. /\ peer'[s].mode = ModeAfter(peer[s].mode, line)
      /\ peer'[s].wire = Append(peer[s].wire, line)
      /\ \A t \in Socket \ {s} : peer'[t] = peer[t]
  BY <1>1 DEF ClientSends, SessionTypeOK
<1> QED
  BY <1>1, <1>2 DEF ClientSends, Readable

\* The accept block: the connection is as it was created, and open.
LEMMA AcceptEffect ==
  ASSUME SessionInv, NEW s \in Socket, HandleAccept(s)
  PROVE  /\ Beside(s)
         /\ socket'[s].phase = "open"
         /\ socket'[s].indata = socket[s].indata /\ peer' = peer
         /\ ~socket'[s].stop /\ socket'[s].state = "NONE"
         /\ ~socket'[s].smtp_handler /\ ~socket'[s].data_handler
         /\ handlerQ' = Append(Tail(handlerQ), B("open", s, NoLine))
<1>1. SessionTypeOK /\ socket[s] = [Fresh EXCEPT !.phase = socket[s].phase]
  BY DEF SessionInv, SessionFits, Untouched, OrderInv, HandleAccept
<1>2. socket'[s] = [Fresh EXCEPT !.phase = "open"] /\ \A t \in Socket \ {s} : socket'[t] = socket[t]
  BY <1>1 DEF HandleAccept, SessionTypeOK
<1>3. handlerQ' = Append(Tail(handlerQ), B("open", s, NoLine)) /\ UNCHANGED <<peer, txn, due>>
  BY DEF HandleAccept
<1>4. /\ socket[s].state = "NONE" /\ socket[s].email_size = 0 /\ socket[s].indata = <<>>
      /\ socket[s].smtp_handler = FALSE /\ socket[s].data_handler = FALSE
  BY <1>1 DEF Fresh
<1>5. /\ socket'[s].state = "NONE" /\ socket'[s].email_size = 0 /\ socket'[s].indata = <<>>
      /\ socket'[s].smtp_handler = FALSE /\ socket'[s].data_handler = FALSE
      /\ socket'[s].phase = "open" /\ socket'[s].stop = FALSE
  BY <1>2 DEF Fresh
<1>6. Beside(s)
  BY <1>2, <1>3, <1>4, <1>5 DEF Beside, Only, SameHandlers
<1> QED
  BY <1>3, <1>4, <1>5, <1>6

\* The smtp handler is installed,
LEMMA SmtpInstall ==
  ASSUME SessionTypeOK, NEW s \in Socket, SetSmtpHandler(s)
  PROVE  /\ Only(s) /\ peer' = peer /\ txn' = txn /\ due' = due
         /\ socket'[s].state = socket[s].state
         /\ socket'[s].email_size = socket[s].email_size
         /\ socket'[s].phase = socket[s].phase
         /\ socket'[s].indata = socket[s].indata
         /\ socket'[s].stop = socket[s].stop /\ socket'[s].pc = socket[s].pc
         /\ socket'[s].smtp_handler
         /\ socket'[s].data_handler = socket[s].data_handler
<1>1. socket[s] \in SocketState
  BY SocketType
<1> QED
  BY <1>1 DEF SetSmtpHandler, SessionTypeOK, SocketState, Only

\* and the data handler.
LEMMA DataInstall ==
  ASSUME SessionTypeOK, NEW s \in Socket, SetDataHandler(s)
  PROVE  /\ Only(s) /\ peer' = peer /\ txn' = txn /\ due' = due
         /\ socket'[s].state = socket[s].state
         /\ socket'[s].email_size = socket[s].email_size
         /\ socket'[s].phase = socket[s].phase
         /\ socket'[s].indata = socket[s].indata
         /\ socket'[s].stop = socket[s].stop /\ socket'[s].pc = socket[s].pc
         /\ socket'[s].data_handler
         /\ socket'[s].smtp_handler = socket[s].smtp_handler
<1>1. socket[s] \in SocketState
  BY SocketType
<1> QED
  BY <1>1 DEF SetDataHandler, SessionTypeOK, SocketState, Only

-------------------------------------------------------------------------------
\* The phases only advance, and who queues a block has been accepted.
Advances ==
  /\ \A t \in Socket : socket[t].phase \in {"open", "freed"} => socket'[t].phase \in {"open", "freed"}
  /\ \/ handlerQ' = handlerQ
     \/ handlerQ # <<>> /\ handlerQ' = Tail(handlerQ)
     \/ \E q \in {handlerQ, Tail(handlerQ)}, b \in Block :
          /\ q = handlerQ \/ handlerQ # <<>>
          /\ b.kind = "accept" \/ socket'[b.sock].phase \in {"open", "freed"}
          /\ handlerQ' = Append(q, b)

\* So the blocks queued stay those of connections accepted.
LEMMA AdvancesAccepted ==
  ASSUME SessionTypeOK, Accepted, Advances
  PROVE  Accepted'
<1>1. ASSUME NEW q \in Seq(Block), \A i \in DOMAIN q : AcceptedBlock(q[i])
      PROVE  \A i \in DOMAIN q : AcceptedBlock(q[i])'
  <2>1. ASSUME NEW i \in DOMAIN q PROVE q[i].sock \in Socket
    BY <1>1, <2>1, BlockFields
  <2> QED
    BY <1>1, <2>1 DEF Advances, AcceptedBlock
<1>2. handlerQ \in Seq(Block) /\ \A i \in DOMAIN handlerQ : AcceptedBlock(handlerQ[i])
  BY DEF SessionTypeOK, Accepted
<1>3. handlerQ # <<>> => /\ Tail(handlerQ) \in Seq(Block)
                         /\ \A i \in DOMAIN Tail(handlerQ) : AcceptedBlock(Tail(handlerQ)[i])
  BY <1>2, TailFacts
<1>4. CASE handlerQ' = handlerQ
  BY <1>1, <1>2, <1>4 DEF Accepted
<1>5. CASE handlerQ # <<>> /\ handlerQ' = Tail(handlerQ)
  BY <1>1, <1>3, <1>5 DEF Accepted
<1>6. ASSUME NEW q \in Seq(Block), \A i \in DOMAIN q : AcceptedBlock(q[i]), NEW b \in Block,
             b.kind = "accept" \/ socket'[b.sock].phase \in {"open", "freed"},
             handlerQ' = Append(q, b)
      PROVE  Accepted'
  <2>1. AcceptedBlock(b)'
    BY <1>6 DEF AcceptedBlock
  <2> QED
    BY <1>1, <1>6, <2>1, AppendFacts DEF Accepted
<1> QED
  BY <1>2, <1>3, <1>4, <1>5, <1>6 DEF Advances

\* The others are not concerned.
LEMMA OthersFit ==
  ASSUME SessionInv, NEW s \in Socket, Only(s), SessionFits(s)'
  PROVE  \A t \in Socket : SessionFits(t)'
<1> SUFFICES ASSUME NEW t \in Socket, t # s PROVE SessionFits(t)'
  OBVIOUS
<1>1. socket'[t] = socket[t] /\ peer'[t] = peer[t] /\ txn'[t] = txn[t] /\ due'[t] = due[t]
  BY DEF Only
<1> QED
  BY <1>1 DEF SessionInv, SessionFits, Untouched, CutOff

\* A step beside the data segment.
LEMMA OpenFits ==
  ASSUME SessionInv, NEW s \in Socket, Beside(s),
         socket'[s].phase \notin {"none", "queued"},
         CutOff(s) => socket'[s].stop /\ socket'[s].pc # "lines"
  PROVE  \A t \in Socket : SessionFits(t)'
<1>1. SessionFits(s)'
  BY DEF SessionInv, SessionFits, Untouched, CutOff, Beside
<1> QED
  BY <1>1, OthersFit DEF Beside

\* A line is handled.
LEMMA LineFits ==
  ASSUME SessionInv, NEW s \in Socket, HandleLine(s)
  PROVE  \A t \in Socket : SessionFits(t)'
<1> DEFINE line == Head(socket[s].indata)
<1>1. SessionTypeOK
  BY DEF SessionInv, OrderInv
<1>2. InLoop(s) /\ TakesLine(s)
  BY <1>1, DataEndEffect, DataLineEffect, NoCommandEffect, CommandEffect DEF HandleLine, TakesLine
<1>3. /\ socket[s] \in SocketState /\ line \in Line
      /\ socket[s].phase = "open" /\ socket'[s].phase = "open" /\ ~CutOff(s)
      /\ txn[s] \in Mail
  BY <1>1, <1>2, LoopLine DEF SessionInv, OrderInv, SessionFits, TakesLine, InLoop, SessionTypeOK
<1>4. CASE DataEnd(s)
  <2>1. SessionFits(s)'
    BY <1>1, <1>3, <1>4, DataEndEffect DEF SessionFits, CutOff, EmptyMail
  <2> QED
    BY <1>2, <2>1, OthersFit DEF TakesLine
<1>5. CASE DataLine(s)
  <2> DEFINE size == socket[s].email_size + line.len
             over == size > MaxData
  <2>1. /\ socket'[s].state = "DATA" /\ socket'[s].email_size = size
        /\ over => socket'[s].stop /\ socket'[s].pc = "return"
        /\ ~over => txn'[s] = WithLine(txn[s], line)
    BY <1>1, <1>5, DataLineEffect
  <2>2. socket[s].email_size \in Nat /\ line.len \in Nat /\ MaxData \in Nat
    BY <1>3, FieldTypes, LineFields, BoundAssumption
  <2>3. socket[s].state = "DATA" /\ socket[s].email_size = BodySize(txn[s].body)
    BY <1>1, <1>3, <1>5, <2>2, DataLineEffect DEF SessionInv, SessionFits, CutOff
  <2>4. ~over => txn'[s].body = Append(txn[s].body, line)
    BY <1>3, <2>1 DEF WithLine, Mail
  <2>5. BodySize(Append(txn[s].body, line)) = BodySize(txn[s].body) + line.len
    BY <1>3, SizeAppend DEF Mail
  <2>6. ~over => socket'[s].email_size = BodySize(txn'[s].body)
    BY <2>1, <2>3, <2>4, <2>5
  <2>7. over <=> ~(size <= MaxData)
    BY <2>2
  <2> HIDE DEF over, size
  <2>8. SessionFits(s)'
    <3>1. CASE over
      BY <1>3, <2>1, <2>7, <3>1 DEF SessionFits, CutOff
    <3>2. CASE ~over
      <4>1. ~(socket'[s].email_size > MaxData)
        BY <2>1, <2>2, <2>7, <3>2 DEF size
      <4> QED
        BY <1>3, <2>1, <2>6, <3>2, <4>1 DEF SessionFits, CutOff
    <3> QED
      BY <3>1, <3>2
  <2> QED
    BY <1>2, <2>8, OthersFit DEF TakesLine
<1>6. CASE NoCommand(s)
  <2>1. SessionFits(s)'
    BY <1>1, <1>3, <1>6, NoCommandEffect DEF SessionInv, SessionFits, CutOff
  <2> QED
    BY <1>2, <2>1, OthersFit DEF TakesLine
<1>7. CASE PlainCommand(s) \/ StartTls(s)
  <2>1. /\ socket[s].state # "DATA" /\ socket'[s].state = Command(line)
        /\ line.word = "DATA" => socket'[s].email_size = 0
        /\ txn'[s] = Envelope(txn[s], line)
    BY <1>1, <1>7, CommandEffect
  <2>2. Command(line) = "DATA" => line.word = "DATA"
    BY DEF Command
  <2>3. txn[s].body = <<>>
    BY <2>1 DEF SessionInv, SessionFits
  <2>4. txn'[s].body = <<>>
    BY <1>3, <2>1, <2>3 DEF Envelope, EmptyMail, Mail
  <2>5. MaxData \in Nat /\ ~(0 > MaxData)
    BY BoundAssumption
  <2>6. SessionFits(s)'
    BY <1>3, <2>1, <2>2, <2>4, <2>5, SizeEmpty DEF SessionFits, CutOff
  <2> QED
    BY <1>2, <2>6, OthersFit DEF TakesLine
<1> QED
  BY <1>4, <1>5, <1>6, <1>7 DEF HandleLine

\* Every step keeps who is accepted,
LEMMA NextAccepted == SessionInv /\ [Next]_vars => Accepted'
<1> SUFFICES ASSUME SessionInv, [Next]_vars PROVE Accepted'
  OBVIOUS
<1>0. SessionTypeOK /\ OrderInv /\ Accepted /\ handlerQ \in Seq(Block)
  BY DEF SessionInv, OrderInv, SessionTypeOK
<1>1. CASE UNCHANGED sessionVars
  BY <1>0, <1>1 DEF sessionVars, Accepted, AcceptedBlock
<1>2. CASE Next
  <2>1. PICK s \in Socket :
          Connect(s) \/ Client(s) \/ Receive(s) \/ Work(s) \/ RunBlock(s)
    BY <1>2 DEF Next
  <2>2. ASSUME Only(s), socket'[s].phase \in {"open", "freed"} \/ socket'[s].phase = socket[s].phase
        PROVE  \A t \in Socket : socket[t].phase \in {"open", "freed"} => socket'[t].phase \in {"open", "freed"}
    BY <2>2 DEF Only
  <2>3. CASE Connect(s)
    <3>1. /\ Beside(s) /\ socket[s].phase = "none"
          /\ handlerQ' = Append(handlerQ, B("accept", s, NoLine))
      BY <1>0, <2>3, ConnectEffect DEF Connect
    <3>2. B("accept", s, NoLine) \in Block /\ B("accept", s, NoLine).kind = "accept"
      BY BlockType, BFields
    <3>3. \A t \in Socket : socket[t].phase \in {"open", "freed"} => socket'[t].phase \in {"open", "freed"}
      BY <3>1 DEF Beside, Only
    <3>4. Advances
      BY <3>1, <3>2, <3>3 DEF Advances
    <3> QED
      BY <1>0, <3>4, AdvancesAccepted
  <2>4. CASE Client(s)
    BY <1>0, <2>4, ClientEffect DEF Client, Accepted, AcceptedBlock
  <2>5. ASSUME Arrival(s) \/ ReadReturns(s) \/ ByeCompletes(s) PROVE Accepted'
    <3>1. /\ Only(s) /\ handlerQ' = handlerQ
          /\ socket'[s].phase = "open" \/ socket'[s].phase = socket[s].phase
      BY <1>0, <2>5, StopEffect, ReadPlainEffect, ReadSecureEffect DEF Arrival, Beside
    <3>2. Advances
      BY <2>2, <3>1 DEF Advances
    <3> QED
      BY <1>0, <3>2, AdvancesAccepted
  <2>6. CASE HandleLine(s)
    <3>1. TakesLine(s) /\ socket[s].phase = "open"
      BY <1>0, <2>6, DataEndEffect, DataLineEffect, NoCommandEffect, CommandEffect
         DEF HandleLine, TakesLine, InLoop, OrderInv
    <3>3. Callback(s)
      BY <1>0, <2>6, <3>1, LineCallback
    <3>4. Advances
      BY <2>2, <3>1, <3>3 DEF Advances, Callback, TakesLine
    <3> QED
      BY <1>0, <3>4, AdvancesAccepted
  <2>7. CASE Cleanup(s)
    <3>1. /\ Only(s) /\ socket'[s].phase = "freed"
          /\ handlerQ' = Append(handlerQ, B("close", s, NoLine))
      BY <1>0, <2>7, CleanupEffect DEF Beside
    <3>2. B("close", s, NoLine) \in Block /\ B("close", s, NoLine).sock = s
      BY BlockType, BFields
    <3>3. Advances
      BY <2>2, <3>1, <3>2 DEF Advances
    <3> QED
      BY <1>0, <3>3, AdvancesAccepted
  <2>8. CASE RunAccept(s)
    <3>1. /\ Only(s) /\ socket'[s].phase = "open"
          /\ handlerQ' = Append(Tail(handlerQ), B("open", s, NoLine)) /\ handlerQ # <<>>
      BY <2>8, AcceptEffect DEF RunAccept, Beside, Running
    <3>2. B("open", s, NoLine) \in Block /\ B("open", s, NoLine).sock = s
      BY BlockType, BFields
    <3>3. Advances
      BY <2>2, <3>1, <3>2 DEF Advances
    <3> QED
      BY <1>0, <3>3, AdvancesAccepted
  <2>9. CASE (SetSmtpHandler(s) \/ SetDataHandler(s)) /\ UNCHANGED handlerQ
    <3>1. Only(s) /\ socket'[s].phase = socket[s].phase
      BY <1>0, <2>9, SmtpInstall, DataInstall
    <3>2. Advances
      BY <2>2, <2>9, <3>1 DEF Advances
    <3> QED
      BY <1>0, <3>2, AdvancesAccepted
  <2>10. CASE handlerQ # <<>> /\ BlockEnds /\ UNCHANGED socket
    <3>1. Advances
      BY <2>10 DEF Advances, BlockEnds
    <3> QED
      BY <1>0, <3>1, AdvancesAccepted
  <2> QED
    BY <2>1, <2>3, <2>4, <2>5, <2>6, <2>7, <2>8, <2>9, <2>10
       DEF Receive, Work, Progress, Handling, RunBlock, RunOpen, RunSmtp, RunData, RunDone, RunClose, Running
<1> QED
  BY <1>1, <1>2 DEF vars, sessionVars

\* and the whole session invariant,
LEMMA NextSession == TypeOK' /\ SessionInv /\ [Next]_vars => SessionInv'
<1> SUFFICES ASSUME TypeOK', SessionInv, [Next]_vars PROVE SessionInv'
  OBVIOUS
<1>1. OrderInv' /\ SessionTypeOK /\ Accepted'
  BY NextOrder, NextAccepted DEF SessionInv, OrderInv
<1>2. CASE UNCHANGED sessionVars
  BY <1>1, <1>2 DEF sessionVars, SessionInv, SessionFits, Untouched, CutOff
<1>3. CASE Next
  <2>1. PICK s \in Socket :
          Connect(s) \/ Client(s) \/ Receive(s) \/ Work(s) \/ RunBlock(s)
    BY <1>3 DEF Next
  <2>2. CASE Connect(s)
    <3>1. ListenerAccepts(s)
      BY <2>2 DEF Connect
    <3>2. SessionFits(s)
      BY DEF SessionInv
    <3>3. SessionFits(s)'
      <4>1. /\ Beside(s) /\ socket[s].phase = "none" /\ peer' = peer
            /\ socket'[s] = [socket[s] EXCEPT !.phase = "queued"]
            /\ socket'[s].stop = socket[s].stop /\ socket'[s].pc = socket[s].pc
        BY <1>1, <3>1, ConnectEffect
      <4>2. Untouched(s)
        BY <3>2, <4>1 DEF SessionFits
      <4>3. Untouched(s)'
        BY <4>1, <4>2 DEF Untouched, Fresh, Beside
      <4> QED
        BY <3>2, <4>1, <4>3 DEF SessionFits, CutOff, Beside
    <3>4. Only(s)
      BY <1>1, <3>1, ConnectEffect DEF Beside
    <3> QED
      BY <1>1, <3>3, <3>4, OthersFit DEF SessionInv
  <2>3. CASE Client(s)
    <3>1. ClientStep(s)
      BY <2>3 DEF Client
    <3>2. /\ UNCHANGED <<socket, handlerQ, txn, due>> /\ socket[s].phase = "open"
          /\ \A t \in Socket \ {s} : peer'[t] = peer[t]
      BY <1>1, <3>1, ClientEffect
    <3>3. SessionFits(s)' /\ Only(s)
      BY <3>2 DEF SessionInv, SessionFits, CutOff, Only
    <3> QED
      BY <1>1, <3>3, OthersFit DEF SessionInv
  <2>4. ASSUME Arrival(s) \/ ReadReturns(s) \/ ByeCompletes(s) PROVE SessionInv'
    <3>1. socket[s].phase = "open" /\ socket'[s].phase = "open"
      <4>1. socket[s].phase = "open"
        BY <2>4 DEF SessionInv, OrderInv, Arrival, ReadPlain, HandshakeFails, ReadSecure,
                    ReadTimeout, WriteFails, ReadReturns, ByeCompletes, Readable
      <4> QED
        BY <1>1, <2>4, <4>1, ArrivalStaysOpen DEF StaysOpen
    <3>2. Beside(s) /\ (CutOff(s) => socket'[s].stop /\ socket'[s].pc # "lines")
      BY <1>1, <2>4, StopEffect, ReadPlainEffect, ReadSecureEffect DEF Arrival, SessionInv, SessionFits
    <3> QED
      BY <1>1, <3>1, <3>2, OpenFits DEF SessionInv
  <2>5. CASE Receive(s)
    BY <2>4, <2>5 DEF Receive
  <2>6. CASE Work(s)
    <3>1. CASE Cleanup(s)
      <4>1. Beside(s) /\ socket'[s].phase = "freed"
            /\ socket'[s].stop = socket[s].stop /\ socket'[s].pc = socket[s].pc
        BY <1>1, <3>1, CleanupEffect
      <4> QED
        BY <1>1, <4>1, OpenFits DEF SessionInv, SessionFits
    <3>2. CASE HandleLine(s)
      BY <1>1, <3>2, LineFits DEF SessionInv
    <3> QED
      BY <2>4, <2>6, <3>1, <3>2 DEF Work, Progress, Handling
  <2>7. CASE RunAccept(s)
    <3>1. Beside(s) /\ socket'[s].phase = "open" /\ socket'[s].state = "NONE"
      BY <2>7, AcceptEffect DEF RunAccept
    <3>2. ~CutOff(s)
      BY <3>1 DEF CutOff, Beside
    <3> QED
      BY <1>1, <3>1, <3>2, OpenFits DEF SessionInv
  <2>8. CASE RunOpen(s) /\ (SetSmtpHandler(s) \/ SetDataHandler(s))
    <3>1. socket'[s].phase \notin {"none", "queued"}
      <4>1. handlerQ \in Seq(Block) /\ handlerQ # <<>> /\ handlerQ[1].sock = s /\ handlerQ[1].kind = "open"
        BY <1>1, <2>8, TailFacts DEF RunOpen, Running, SessionTypeOK
      <4>2. 1 \in DOMAIN handlerQ
        BY <4>1
      <4>3. socket[s].phase \in {"open", "freed"}
        BY <4>1, <4>2 DEF SessionInv, Accepted, AcceptedBlock
      <4> QED
        BY <1>1, <2>8, <4>3, SmtpInstall, DataInstall
    <3>2. /\ Only(s) /\ txn' = txn
          /\ socket'[s].state = socket[s].state
          /\ socket'[s].email_size = socket[s].email_size
          /\ socket'[s].stop = socket[s].stop /\ socket'[s].pc = socket[s].pc
      BY <1>1, <2>8, SmtpInstall, DataInstall
    <3>3. SessionFits(s)'
      BY <3>1, <3>2 DEF SessionInv, SessionFits, CutOff
    <3> QED
      BY <1>1, <3>2, <3>3, OthersFit DEF SessionInv
  <2>9. CASE UNCHANGED <<socket, peer, txn, due>>
    BY <1>1, <2>9 DEF SessionInv, SessionFits, Untouched, CutOff
  <2> QED
    BY <2>1, <2>2, <2>3, <2>5, <2>6, <2>7, <2>8, <2>9
       DEF RunBlock, RunOpen, RunSmtp, RunData, RunDone, RunClose
<1> QED
  BY <1>2, <1>3 DEF vars, sessionVars

-------------------------------------------------------------------------------
\* that holds at the start.
LEMMA InitSession == Init => SessionInv
<1> SUFFICES ASSUME Init PROVE SessionInv
  OBVIOUS
<1>1. OrderInv
  <2>1. SessionTypeOK
    BY InitTypeOK, TypeSplit
  <2> QED
    BY <2>1 DEF Init, SessionInit, Fresh, OrderInv, QueueFits, InOrderQ
<1>2. Accepted
  BY DEF Init, SessionInit, Accepted
<1>3. ASSUME NEW s \in Socket PROVE SessionFits(s)
  <2>1. socket[s] = Fresh /\ peer[s] = [mode |-> "idle", sent |-> 0, wire |-> <<>>]
        /\ txn[s] = EmptyMail /\ due[s] = <<>>
    BY DEF Init, SessionInit
  <2>2. Fresh.state = "NONE" /\ EmptyMail.body = <<>> /\ Fresh = [Fresh EXCEPT !.phase = Fresh.phase]
    BY DEF Fresh, EmptyMail
  <2> QED
    BY <2>1, <2>2 DEF SessionFits, CutOff, Untouched
<1> QED
  BY <1>1, <1>2, <1>3 DEF SessionInv

\* Whatever the interleaving, email_size is the size of the lines handed over
\* since DATA, a connection cut off at the limit is stopped and out of its line
\* loop, and only connections accepted have callbacks queued.
THEOREM SessionStays == Spec => []SessionInv
BY InitSession, NextSession, TypeCorrect, PTL DEF Spec

\* Nothing but the end of its connection comes after a mail that was cut off.
CutOffEnds(s) ==
  CutOff(s) =>
    /\ CutOff(s)' /\ due'[s] = due[s]
    /\ Len(handlerQ') > Len(handlerQ) =>
         LET newest == handlerQ'[Len(handlerQ')]
         IN  newest.sock = s => newest.kind = "close"

\* The queue does not grow, or by one block b.
Gains(b) == Len(handlerQ') > Len(handlerQ) => handlerQ'[Len(handlerQ')] = b

\* A queue that does not grow gains any block; one that grows gains the last.
LEMMA NoGain ==
  ASSUME handlerQ \in Seq(Block), handlerQ' = handlerQ \/ (handlerQ # <<>> /\ handlerQ' = Tail(handlerQ))
  PROVE  ~(Len(handlerQ') > Len(handlerQ))
<1>1. CASE handlerQ' = handlerQ
  BY <1>1
<1>2. CASE handlerQ # <<>> /\ handlerQ' = Tail(handlerQ)
  BY <1>2
<1> QED
  BY <1>1, <1>2

LEMMA OneGain ==
  ASSUME handlerQ \in Seq(Block), NEW b \in Block,
         handlerQ' = Append(handlerQ, b)
  PROVE  Gains(b)
BY AppendFacts DEF Gains

LEMMA NoGainInTurn ==
  ASSUME handlerQ \in Seq(Block), handlerQ # <<>>, NEW b \in Block,
         handlerQ' = Append(Tail(handlerQ), b)
  PROVE  ~(Len(handlerQ') > Len(handlerQ))
OBVIOUS

\* A step of another connection does not concern s.
LEMMA OtherCut ==
  ASSUME NEW u \in Socket, NEW s \in Socket, s # u, Only(u),
         \/ ~(Len(handlerQ') > Len(handlerQ))
         \/ \E b \in Block : b.sock = u /\ Gains(b)
  PROVE  CutOffEnds(s)
<1>1. socket'[s] = socket[s] /\ due'[s] = due[s]
  BY DEF Only
<1> QED
  BY <1>1 DEF CutOffEnds, CutOff, Gains

\* A step beside the data segment.
LEMMA SameCut ==
  ASSUME NEW s \in Socket, Beside(s),
         \/ ~(Len(handlerQ') > Len(handlerQ))
         \/ \E b \in Block : b.kind = "close" /\ Gains(b)
  PROVE  CutOffEnds(s)
BY DEF Beside, CutOffEnds, CutOff, Gains

\* Every step keeps a connection cut off as it is.
LEMMA CutOffStep ==
  ASSUME SessionInv, [Next]_vars, NEW s \in Socket
  PROVE  CutOffEnds(s)
<1>0. SessionTypeOK /\ OrderInv /\ Accepted /\ SessionFits(s) /\ handlerQ \in Seq(Block)
  BY DEF SessionInv, OrderInv, SessionTypeOK
<1>1. ASSUME UNCHANGED <<socket, due>>, ~(Len(handlerQ') > Len(handlerQ)) PROVE CutOffEnds(s)
  BY <1>1 DEF CutOffEnds, CutOff
<1>2. CASE UNCHANGED sessionVars
  BY <1>0, <1>1, <1>2, NoGain DEF sessionVars
<1>3. CASE Next
  <2>1. PICK u \in Socket :
          Connect(u) \/ Client(u) \/ Receive(u) \/ Work(u) \/ RunBlock(u)
    BY <1>3 DEF Next
  <2>2. CASE Connect(u)
    <3>1. /\ Beside(u) /\ socket[u].phase = "none"
          /\ handlerQ' = Append(handlerQ, B("accept", u, NoLine))
      BY <1>0, <2>2, ConnectEffect DEF Connect
    <3>2. B("accept", u, NoLine) \in Block /\ B("accept", u, NoLine).sock = u
      BY BlockType, BFields
    <3>3. Gains(B("accept", u, NoLine))
      BY <1>0, <3>1, <3>2, OneGain
    <3>4. CASE u = s
      BY <1>0, <3>1, <3>4 DEF SessionFits, Untouched, Fresh, CutOff, CutOffEnds
    <3> QED
      BY <3>1, <3>2, <3>3, <3>4, OtherCut DEF Beside
  <2>3. CASE Client(u)
    BY <1>0, <1>1, <2>3, ClientEffect, NoGain DEF Client
  <2>4. ASSUME Arrival(u) \/ ReadReturns(u) \/ ByeCompletes(u) PROVE CutOffEnds(s)
    <3>1. Beside(u) /\ handlerQ' = handlerQ
      BY <1>0, <2>4, StopEffect, ReadPlainEffect, ReadSecureEffect DEF Arrival
    <3>2. ~(Len(handlerQ') > Len(handlerQ))
      BY <1>0, <3>1, NoGain
    <3> QED
      BY <3>1, <3>2, OtherCut, SameCut DEF Beside
  <2>5. CASE HandleLine(u)
    <3>1. TakesLine(u)
      BY <1>0, <2>5, DataEndEffect, DataLineEffect, NoCommandEffect, CommandEffect
         DEF HandleLine, TakesLine
    <3>2. CASE u = s
      BY <1>0, <3>1, <3>2 DEF TakesLine, InLoop, SessionFits, CutOffEnds
    <3>3. CASE u # s
      <4>1. Callback(u)
        BY <1>0, <2>5, LineCallback
      <4>2. \/ ~(Len(handlerQ') > Len(handlerQ))
            \/ \E b \in Block : b.sock = u /\ Gains(b)
        BY <1>0, <4>1, NoGain, OneGain DEF Callback
      <4> QED
        BY <3>1, <3>3, <4>2, OtherCut DEF TakesLine
    <3> QED
      BY <3>2, <3>3
  <2>6. CASE Cleanup(u)
    <3>1. /\ Beside(u)
          /\ handlerQ' = Append(handlerQ, B("close", u, NoLine))
      BY <1>0, <2>6, CleanupEffect
    <3>2. B("close", u, NoLine) \in Block /\ B("close", u, NoLine).sock = u /\ B("close", u, NoLine).kind = "close"
      BY BlockType, BFields
    <3>3. Gains(B("close", u, NoLine))
      BY <1>0, <3>1, <3>2, OneGain
    <3> QED
      BY <3>1, <3>2, <3>3, OtherCut, SameCut DEF Beside
  <2>7. CASE RunAccept(u)
    <3>1. /\ Beside(u)
          /\ handlerQ' = Append(Tail(handlerQ), B("open", u, NoLine)) /\ handlerQ # <<>>
      BY <2>7, AcceptEffect DEF RunAccept, Running
    <3>2. ~(Len(handlerQ') > Len(handlerQ))
      BY <1>0, <3>1, NoGainInTurn, BlockType
    <3> QED
      BY <3>1, <3>2, OtherCut, SameCut DEF Beside
  <2>8. CASE (SetSmtpHandler(u) \/ SetDataHandler(u)) /\ UNCHANGED handlerQ
    <3>1. /\ Only(u) /\ due' = due
          /\ socket'[u].state = socket[u].state
          /\ socket'[u].email_size = socket[u].email_size
      BY <1>0, <2>8, SmtpInstall, DataInstall
    <3>2. ~(Len(handlerQ') > Len(handlerQ))
      BY <1>0, <2>8, NoGain
    <3>3. CASE u = s
      BY <3>1, <3>2, <3>3 DEF CutOffEnds, CutOff
    <3> QED
      BY <3>1, <3>2, <3>3, OtherCut
  <2>9. CASE handlerQ # <<>> /\ BlockEnds /\ UNCHANGED <<socket, due>>
    BY <1>0, <1>1, <2>9, NoGain DEF BlockEnds
  <2> QED
    BY <2>1, <2>2, <2>3, <2>4, <2>5, <2>6, <2>7, <2>8, <2>9
       DEF Receive, Work, Progress, Handling, RunBlock, RunOpen, RunSmtp, RunData, RunDone, RunClose, Running
<1> QED
  BY <1>2, <1>3 DEF vars, sessionVars

\* A mail cut off at the size limit is the last thing its connection hands
\* over: whatever was received behind it, no read handler, completion or
\* queued block changes that.
THEOREM CutOffIsFinal == Spec => NothingAfterCutOff
<1>1. SessionInv /\ [Next]_vars
        => [\A s \in Socket :
             CutOff(s) =>
               /\ CutOff(s)' /\ due'[s] = due[s]
               /\ Len(handlerQ') > Len(handlerQ) =>
                    LET newest == handlerQ'[Len(handlerQ')]
                    IN  newest.sock = s => newest.kind = "close"]_vars
  BY CutOffStep DEF CutOffEnds
<1> QED
  BY <1>1, SessionStays, PTL DEF Spec, NothingAfterCutOff

-------------------------------------------------------------------------------
(***************************************************************************)
(* The mails on their way.  What the application will have done with        *)
(* connection s when the blocks queued now have run is told by two          *)
(* functions over the queue: E[i] is the mail under construction after the  *)
(* first i blocks (NoMail: none), D[i] the number of mails handed over that  *)
(* are behind it then, stored or lost.                                     *)
(***************************************************************************)
MaybeMail == Mail \cup {NoMail}

\* The mail under construction after the block b.
After(s, e, b) ==
  IF b.sock # s THEN e
  ELSE IF b.kind = "done" THEN NoMail
  ELSE IF b.kind = "smtp" /\ b.line.word = "MAIL" THEN Begun(b.line)
  ELSE IF b.kind = "smtp" /\ b.line.word = "RCPT" /\ b.line.arg \in Arg /\ e # NoMail
       THEN WithRcpt(e, b.line)
  ELSE IF b.kind = "data" /\ e # NoMail THEN WithLine(e, b.line)
  ELSE e

IsDone(s, b) == b.sock = s /\ b.kind = "done"
Behind(s, n, b) == IF IsDone(s, b) THEN n + 1 ELSE n

Chain(s, q, E, D) ==
  /\ E \in [Nat -> MaybeMail]
  /\ D \in [Nat -> Nat]
  /\ \A i \in 1..Len(q) : E[i] = After(s, E[i - 1], q[i]) /\ D[i] = Behind(s, D[i - 1], q[i])

(***************************************************************************)
(* What must hold along the way, for a view v of the connection: the mails  *)
(* stored and handed over, the transaction, whether the handlers are        *)
(* installed, the client's mode as the session has seen it, and whether the  *)
(* transaction was cut off.                                                *)
(***************************************************************************)
Kept(mail, whole) == Remains(mail, whole) /\ (OpenFirst => mail = whole)

Nothing(E, n, stored) == stored = <<>> /\ \A j \in 0..n : E[j] = NoMail

\* A mail that is done is within the limit, and is the one handed over; a "done"
\* without a mail comes before any mail.
DoneKept(E, D, v, i) ==
  /\ D[i] \in 1..Len(v.due)
  /\ E[i - 1] # NoMail => /\ BodySize(E[i - 1].body) <= MaxData
                          /\ Polite => /\ E[i - 1].rcpt # <<>>
                                       /\ Kept(E[i - 1], v.due[D[i]])
  /\ Polite /\ E[i - 1] = NoMail => ~OpenFirst /\ Nothing(E, i - 1, v.stored)

DonesKept(s, q, E, D, v) ==
  \A i \in 1..Len(q) : IsDone(s, q[i]) => DoneKept(E, D, v, i)

\* The mails stored are the last of those behind.
StoredKept(n, v) ==
  /\ n \in 0..Len(v.due) /\ Len(v.stored) <= n
  /\ Polite => \A k \in 1..Len(v.stored) :
                 Kept(v.stored[k], v.due[n - Len(v.stored) + k])
  /\ Polite /\ OpenFirst => Len(v.stored) = n

\* Before its handlers are installed a connection has begun no mail, or one
\* without lines.
Early(s, q, E, v) ==
  /\ ~v.smtp => Nothing(E, Len(q), v.stored)
  /\ ~v.data => /\ v.stored = <<>>
                /\ \A j \in 0..Len(q) : E[j] # NoMail => E[j].body = <<>>
                /\ \A i \in 1..Len(q) : ~IsDone(s, q[i])

Suffix(body, whole) ==
  \E k \in 1..Len(whole) + 1 : body = SubSeq(whole, k, Len(whole))

\* The mail under construction has the last lines of the transaction,
Builds(e, whole) ==
  e # NoMail => BodySize(e.body) <= BodySize(whole.body) /\ Suffix(e.body, whole.body)

\* and, between MAIL and the end of its data, the same envelope.
Matches(e, whole) ==
  /\ e.from = whole.from
  /\ e.rcpt = whole.rcpt
  /\ OpenFirst => e = whole

Live(v) == Polite /\ v.mode # "idle" /\ ~v.cut

Grows(q, E, v) ==
  LET e == E[Len(q)] IN
  /\ Builds(e, v.txn)
  /\ Live(v) => IF e = NoMail THEN ~OpenFirst /\ Nothing(E, Len(q), v.stored)
                              ELSE Matches(e, v.txn)

Flow(s, q, E, D, v) ==
  /\ Chain(s, q, E, D)
  /\ D[Len(q)] = Len(v.due)
  /\ DonesKept(s, q, E, D, v)
  /\ StoredKept(D[0], v)
  /\ Early(s, q, E, v)
  /\ Grows(q, E, v)

Views == [stored : Seq(Mail), due : Seq(Mail), txn : Mail, smtp : BOOLEAN, data : BOOLEAN,
          mode : {"idle", "mail", "rcpt", "data"}, cut : BOOLEAN]

-------------------------------------------------------------------------------
\* The mail after a block is a mail.
LEMMA AfterType ==
  ASSUME NEW s, NEW e \in MaybeMail, NEW b \in Block
  PROVE  After(s, e, b) \in MaybeMail
<1>1. CASE b.kind \in {"smtp", "data"}
  <2>1. b.line \in Line
    BY <1>1, BlockFields
  <2>2. Begun(b.line) \in Mail
    BY <2>1, EmptyMailType, MailUpdates DEF Begun
  <2>3. e # NoMail /\ b.line.arg \in Arg => WithRcpt(e, b.line) \in Mail
    BY <2>1, MailUpdates DEF WithRcpt, MaybeMail
  <2>4. e # NoMail => WithLine(e, b.line) \in Mail
    BY <2>1, MailUpdates DEF WithLine, MaybeMail
  <2> QED
    BY <1>1, <2>2, <2>3, <2>4 DEF After, MaybeMail
<1>2. CASE b.kind \notin {"smtp", "data"}
  BY <1>2 DEF After, MaybeMail
<1> QED
  BY <1>1, <1>2

\* The functions for a queue with one block more.
Longer(s, q, E, D, b, E2, D2) ==
  /\ Chain(s, Append(q, b), E2, D2)
  /\ \A i \in 0..Len(q) : E2[i] = E[i] /\ D2[i] = D[i]
  /\ E2[Len(q) + 1] = After(s, E[Len(q)], b)
  /\ D2[Len(q) + 1] = Behind(s, D[Len(q)], b)

LEMMA OneMore ==
  ASSUME NEW D \in [Nat -> Nat]
  PROVE  \A i \in Nat : D[i] + 1 \in Nat
OBVIOUS

\* Both functions reach one block further.
LEMMA ChainAppend ==
  ASSUME NEW s, NEW q \in Seq(Block), NEW b \in Block, NEW E, NEW D, Chain(s, q, E, D)
  PROVE  \E E2, D2 : Longer(s, q, E, D, b, E2, D2)
<1> DEFINE n  == Len(q)
           e2 == After(s, E[n], b)
           d2 == Behind(s, D[n], b)
           E2 == [E EXCEPT ![n + 1] = e2]
           D2 == [D EXCEPT ![n + 1] = d2]
<1>1. E \in [Nat -> MaybeMail] /\ D \in [Nat -> Nat] /\ n \in Nat
  BY DEF Chain
<1>2. e2 \in MaybeMail /\ d2 \in Nat
  BY <1>1, AfterType DEF Behind
<1> HIDE DEF e2, d2
<1> HIDE DEF n
<1>3. /\ E2 \in [Nat -> MaybeMail] /\ D2 \in [Nat -> Nat]
      /\ \A i \in 0..n : E2[i] = E[i] /\ D2[i] = D[i]
      /\ E2[n + 1] = e2 /\ D2[n + 1] = d2
  <2>1. n + 1 \in Nat /\ \A i \in 0..n : i \in Nat /\ i # n + 1
    BY <1>1
  <2>2. E2 \in [Nat -> MaybeMail] /\ D2 \in [Nat -> Nat]
    BY <1>1, <1>2, <2>1
  <2>3. E2[n + 1] = e2 /\ D2[n + 1] = d2
    BY <1>1, <2>1
  <2> QED
    BY <1>1, <2>1, <2>2, <2>3
<1> USE DEF n
<1> HIDE DEF E2, D2
<1>4. /\ Len(Append(q, b)) = n + 1
      /\ \A i \in 1..n : Append(q, b)[i] = q[i]
      /\ Append(q, b)[n + 1] = b
  OBVIOUS
<1>5. ASSUME NEW i \in 1..n + 1
      PROVE  E2[i] = After(s, E2[i - 1], Append(q, b)[i]) /\ D2[i] = Behind(s, D2[i - 1], Append(q, b)[i])
  <2>1. CASE i = n + 1
    <3>1. n \in 0..n /\ i - 1 = n
      BY <1>1, <2>1
    <3> QED
      BY <1>3, <1>4, <2>1, <3>1 DEF e2, d2
  <2>2. CASE i # n + 1
    <3>0. n \in Nat /\ i \in 1..n + 1
      BY <1>1
    <3>1. i \in 1..n /\ i \in 0..n /\ i - 1 \in 0..n
      BY <2>2, <3>0
    <3>2. E[i] = After(s, E[i - 1], q[i]) /\ D[i] = Behind(s, D[i - 1], q[i])
      BY <3>1 DEF Chain
    <3> QED
      BY <1>3, <1>4, <3>1, <3>2
  <2> QED
    BY <2>1, <2>2
<1>6. Chain(s, Append(q, b), E2, D2)
  BY <1>3, <1>4, <1>5 DEF Chain
<1>7. Longer(s, q, E, D, b, E2, D2)
  BY <1>3, <1>6 DEF Longer, e2, d2
<1> QED
  BY <1>7

\* Who only grows the queue behind the blocks keeps what is said of them.
LEMMA PrefixKept ==
  ASSUME NEW s, NEW q \in Seq(Block), NEW b \in Block, NEW E, NEW D,
         NEW E2, NEW D2, Longer(s, q, E, D, b, E2, D2)
  PROVE  /\ Len(q) \in Nat /\ Len(Append(q, b)) = Len(q) + 1
         /\ \A i \in 1..Len(q) : Append(q, b)[i] = q[i]
         /\ Append(q, b)[Len(q) + 1] = b
         /\ \A st : Nothing(E, Len(q), st) => \A i \in 0..Len(q) : Nothing(E2, i, st)
         /\ \A st : Nothing(E, Len(q), st) /\ E2[Len(q) + 1] = NoMail => Nothing(E2, Len(q) + 1, st)
         /\ \A st : \A i \in 0..Len(q) : Nothing(E, i, st) => Nothing(E2, i, st)
<1>1. /\ Len(q) \in Nat /\ Len(Append(q, b)) = Len(q) + 1
      /\ \A i \in 1..Len(q) : Append(q, b)[i] = q[i]
      /\ Append(q, b)[Len(q) + 1] = b
  OBVIOUS
<1>2. \A i \in 0..Len(q) : E2[i] = E[i]
  BY DEF Longer
<1> QED
  BY <1>1, <1>2 DEF Nothing

\* A block that is not "done" is queued: what the transaction becomes must
\* match what the mail under construction becomes.
LEMMA FlowAppend ==
  ASSUME NEW s, NEW q \in Seq(Block), NEW b \in Block, NEW E, NEW D,
         NEW v, NEW w, Flow(s, q, E, D, v), ~IsDone(s, b),
         w.stored = v.stored, w.due = v.due, w.smtp = v.smtp, w.data = v.data,
         ~v.smtp => After(s, E[Len(q)], b) = NoMail,
         ~v.data => (After(s, E[Len(q)], b) # NoMail => After(s, E[Len(q)], b).body = <<>>),
         Builds(After(s, E[Len(q)], b), w.txn),
         Live(w) => IF After(s, E[Len(q)], b) = NoMail
                    THEN ~OpenFirst /\ Nothing(E, Len(q), v.stored)
                    ELSE Matches(After(s, E[Len(q)], b), w.txn)
  PROVE  \E E2, D2 : /\ Flow(s, Append(q, b), E2, D2, w)
                     /\ E2[0] = E[0]
<1> DEFINE n == Len(q)
           r == Append(q, b)
<1>1. PICK E2, D2 : Longer(s, q, E, D, b, E2, D2)
  BY ChainAppend DEF Flow
<1>2. /\ n \in Nat /\ Len(r) = n + 1 /\ r[n + 1] = b
      /\ \A i \in 1..n : r[i] = q[i]
      /\ \A st : Nothing(E, n, st) /\ E2[n + 1] = NoMail => Nothing(E2, n + 1, st)
      /\ \A st : \A i \in 0..n : Nothing(E, i, st) => Nothing(E2, i, st)
  BY <1>1, PrefixKept
<1>3. /\ Chain(s, r, E2, D2)
      /\ \A i \in 0..n : E2[i] = E[i] /\ D2[i] = D[i]
      /\ E2[n + 1] = After(s, E[n], b)
      /\ D2[n + 1] = D[n]
  BY <1>1 DEF Longer, Behind
<1> HIDE DEF r
<1>4. D2[Len(r)] = Len(w.due)
  BY <1>2, <1>3 DEF Flow
<1>5. DonesKept(s, r, E2, D2, w)
  <2> SUFFICES ASSUME NEW i \in 1..Len(r), IsDone(s, r[i])
               PROVE  DoneKept(E2, D2, w, i)
    BY DEF DonesKept
  <2>1. i \in 1..n /\ i \in 0..n /\ i - 1 \in 0..n
    BY <1>2
  <2>2. r[i] = q[i] /\ E2[i - 1] = E[i - 1] /\ D2[i] = D[i]
    BY <1>2, <1>3, <2>1
  <2>3. DoneKept(E, D, v, i)
    BY <2>1, <2>2 DEF Flow, DonesKept
  <2> QED
    BY <1>2, <2>1, <2>2, <2>3 DEF DoneKept
<1>6. StoredKept(D2[0], w)
  BY <1>2, <1>3 DEF Flow, StoredKept
<1>7. Early(s, r, E2, w)
  <2>1. ~w.smtp => Nothing(E2, n + 1, w.stored)
    BY <1>2, <1>3 DEF Flow, Early
  <2>2. ~w.data => w.stored = <<>>
    BY DEF Flow, Early
  <2>3. ASSUME ~w.data, NEW j \in 0..n + 1, E2[j] # NoMail PROVE E2[j].body = <<>>
    <3>1. CASE j = n + 1
      BY <1>3, <2>3, <3>1
    <3>2. CASE j # n + 1
      <4>1. j \in 0..n
        BY <1>2, <3>2
      <4> QED
        BY <1>3, <2>3, <4>1 DEF Flow, Early
    <3> QED
      BY <3>1, <3>2
  <2>4. ASSUME ~w.data, NEW i \in 1..n + 1 PROVE ~IsDone(s, r[i])
    <3>1. CASE i = n + 1
      BY <1>2, <3>1
    <3>2. CASE i # n + 1
      <4>1. i \in 1..n
        BY <1>2, <3>2
      <4> QED
        BY <1>2, <2>4, <4>1 DEF Flow, Early
    <3> QED
      BY <3>1, <3>2
  <2> QED
    BY <1>2, <2>1, <2>2, <2>3, <2>4 DEF Early
<1>8. Grows(r, E2, w)
  BY <1>2, <1>3 DEF Flow, Grows
<1>9. E2[0] = E[0]
  BY <1>2, <1>3
<1>10. Flow(s, r, E2, D2, w)
  BY <1>3, <1>4, <1>5, <1>6, <1>7, <1>8 DEF Flow
<1> QED
  BY <1>9, <1>10 DEF r

\* Any mail is built by one without lines.
LEMMA EmptyBuilds ==
  ASSUME NEW e, NEW tx \in Mail, e # NoMail => e.body = <<>>
  PROVE  Builds(e, tx)
<1>1. BodySize(tx.body) \in Nat /\ tx.body \in Seq(Line)
  BY SizeType DEF Mail
<1>2. Len(tx.body) \in Nat
  BY <1>1
<1>3. Suffix(<<>>, tx.body)
  <2>1. Len(tx.body) + 1 \in 1..Len(tx.body) + 1 /\ Len(tx.body) < Len(tx.body) + 1
    BY <1>2
  <2>2. SubSeq(tx.body, Len(tx.body) + 1, Len(tx.body)) = <<>>
    BY <1>2, <2>1, SubSeqEmpty
  <2> QED
    BY <2>1, <2>2 DEF Suffix
<1> QED
  BY <1>1, <1>3, SizeEmpty DEF Builds

\* Nothing is queued: the view changes by itself.
LEMMA FlowStay ==
  ASSUME NEW s, NEW q \in Seq(Block), NEW E, NEW D, NEW v, NEW w, Flow(s, q, E, D, v),
         w.stored = v.stored, w.due = v.due, ~w.smtp => ~v.smtp, ~w.data => ~v.data,
         Builds(E[Len(q)], w.txn),
         Live(w) => IF E[Len(q)] = NoMail THEN ~OpenFirst /\ Nothing(E, Len(q), v.stored)
                                          ELSE Matches(E[Len(q)], w.txn)
  PROVE  Flow(s, q, E, D, w)
<1>1. DonesKept(s, q, E, D, w) /\ StoredKept(D[0], w)
  BY DEF Flow, DonesKept, DoneKept, StoredKept
<1>2. Early(s, q, E, w) /\ Grows(q, E, w)
  BY DEF Flow, Early, Grows
<1> QED
  BY <1>1, <1>2 DEF Flow

\* A sequence of mails, and one more.
LEMMA MailAppend ==
  ASSUME NEW mails \in Seq(Mail), NEW mail \in Mail
  PROVE  /\ Append(mails, mail) \in Seq(Mail)
         /\ Len(mails) \in Nat
         /\ Len(Append(mails, mail)) = Len(mails) + 1
         /\ \A i \in 1..Len(mails) : Append(mails, mail)[i] = mails[i]
         /\ Append(mails, mail)[Len(mails) + 1] = mail
OBVIOUS

\* The k-th of the last m of the first n of N.
LEMMA LastOf ==
  ASSUME NEW m \in Nat, NEW N \in Nat, NEW n \in 0..N, m <= n, NEW k \in 1..m
  PROVE  n - m + k \in 1..N
OBVIOUS

\* One mail more handed over leaves what is said of the mails stored,
LEMMA StoredMoreDue ==
  ASSUME NEW n, NEW v, NEW w, NEW tx \in Mail, StoredKept(n, v), v.due \in Seq(Mail),
         v.stored \in Seq(Mail), w.stored = v.stored, w.due = Append(v.due, tx)
  PROVE  StoredKept(n, w)
<1>1. /\ Len(v.due) \in Nat /\ Len(w.due) = Len(v.due) + 1 /\ Len(v.stored) \in Nat
      /\ \A i \in 1..Len(v.due) : w.due[i] = v.due[i]
  BY MailAppend
<1>2. \A k \in 1..Len(v.stored) : n - Len(v.stored) + k \in 1..Len(v.due)
  <2>1. n \in 0..Len(v.due) /\ Len(v.stored) <= n
    BY DEF StoredKept
  <2>2. Len(v.due) \in Nat /\ Len(v.stored) \in Nat
    BY <1>1
  <2> QED
    BY <2>1, <2>2, LastOf
<1> QED
  BY <1>1, <1>2 DEF StoredKept

\* and of the mails that are done.
LEMMA DoneMoreDue ==
  ASSUME NEW E, NEW D, NEW i, NEW v, NEW w, NEW tx \in Mail, DoneKept(E, D, v, i),
         v.due \in Seq(Mail), w.stored = v.stored, w.due = Append(v.due, tx)
  PROVE  DoneKept(E, D, w, i)
<1>1. /\ Len(v.due) \in Nat /\ Len(w.due) = Len(v.due) + 1
      /\ \A j \in 1..Len(v.due) : w.due[j] = v.due[j]
  BY MailAppend
<1> QED
  BY <1>1 DEF DoneKept

\* The mail under construction, when it is done.
LEMMA DoneLast ==
  ASSUME NEW e \in Mail, NEW tx \in Mail, Builds(e, tx), BodySize(tx.body) <= MaxData,
         Polite => Matches(e, tx) /\ tx.rcpt # <<>>, e # NoMail
  PROVE  /\ BodySize(e.body) <= MaxData
         /\ Polite => e.rcpt # <<>> /\ Kept(e, tx)
<1>1. BodySize(e.body) \in Nat /\ BodySize(tx.body) \in Nat /\ MaxData \in Nat
  BY SizeType, BoundAssumption DEF Mail
<1>2. BodySize(e.body) <= MaxData
  BY <1>1 DEF Builds
<1>3. Suffix(e.body, tx.body)
  BY DEF Builds
<1> QED
  BY <1>2, <1>3 DEF Matches, Kept, Remains, Suffix

\* "done" is queued with the mail handed over.
LEMMA FlowDone ==
  ASSUME NEW s, NEW q \in Seq(Block), NEW b \in Block, NEW E, NEW D,
         NEW v \in Views, NEW w, Flow(s, q, E, D, v), IsDone(s, b), v.data,
         w.stored = v.stored, w.due = Append(v.due, v.txn), w.smtp = v.smtp, w.data = v.data,
         BodySize(v.txn.body) <= MaxData,
         Polite => Live(v) /\ v.txn.rcpt # <<>>,
         ~Live(w)
  PROVE  \E E2, D2 : /\ Flow(s, Append(q, b), E2, D2, w)
                     /\ E2[0] = E[0]
<1> DEFINE n == Len(q)
           r == Append(q, b)
<1>0. v.txn \in Mail /\ v.due \in Seq(Mail) /\ v.stored \in Seq(Mail)
  BY DEF Views
<1>1. PICK E2, D2 : Longer(s, q, E, D, b, E2, D2)
  BY ChainAppend DEF Flow
<1>2. /\ n \in Nat /\ Len(r) = n + 1 /\ r[n + 1] = b
      /\ \A i \in 1..n : r[i] = q[i]
      /\ \A st : Nothing(E, n, st) /\ E2[n + 1] = NoMail => Nothing(E2, n + 1, st)
      /\ \A st : \A i \in 0..n : Nothing(E, i, st) => Nothing(E2, i, st)
  BY <1>1, PrefixKept
<1>3. /\ Chain(s, r, E2, D2)
      /\ \A i \in 0..n : E2[i] = E[i] /\ D2[i] = D[i]
      /\ E2[n + 1] = NoMail
      /\ D2[n + 1] = D[n] + 1
  BY <1>1 DEF Longer, Behind, IsDone, After
<1> HIDE DEF r
<1>4. /\ Len(v.due) \in Nat /\ Len(w.due) = Len(v.due) + 1
      /\ w.due[Len(v.due) + 1] = v.txn
  BY <1>0, MailAppend
<1>5. D2[Len(r)] = Len(w.due)
  BY <1>2, <1>3, <1>4 DEF Flow
<1>6. n \in 0..n
  BY <1>2
<1>7. DonesKept(s, r, E2, D2, w)
  <2> SUFFICES ASSUME NEW i \in 1..Len(r), IsDone(s, r[i])
               PROVE  DoneKept(E2, D2, w, i)
    BY DEF DonesKept
  <2>1. CASE i = n + 1
    <3>1. E2[i - 1] = E[n] /\ D2[i] = Len(v.due) + 1 /\ i - 1 = n
      BY <1>2, <1>3, <1>6, <2>1 DEF Flow
    <3>2. D2[i] \in 1..Len(w.due) /\ w.due[D2[i]] = v.txn
      BY <1>4, <3>1
    <3>3. ASSUME E[n] # NoMail
          PROVE  /\ BodySize(E[n].body) <= MaxData
                 /\ Polite => E[n].rcpt # <<>> /\ Kept(E[n], v.txn)
      <4>1. E[n] \in Mail
        BY <1>2, <3>3 DEF Flow, Chain, MaybeMail
      <4>2. Builds(E[n], v.txn) /\ (Polite => Matches(E[n], v.txn))
        BY <3>3 DEF Flow, Grows
      <4> QED
        BY <1>0, <3>3, <4>1, <4>2, DoneLast
    <3>4. Polite /\ E[n] = NoMail => ~OpenFirst /\ Nothing(E, n, v.stored)
      BY DEF Flow, Grows
    <3>5. Nothing(E, n, v.stored) => Nothing(E2, n, w.stored)
      BY <1>2, <1>6
    <3> QED
      BY <3>1, <3>2, <3>3, <3>4, <3>5 DEF DoneKept
  <2>2. CASE i # n + 1
    <3>1. i \in 1..n /\ i \in 0..n /\ i - 1 \in 0..n
      BY <1>2, <2>2
    <3>2. r[i] = q[i] /\ E2[i - 1] = E[i - 1] /\ D2[i] = D[i]
      BY <1>2, <1>3, <3>1
    <3>3. DoneKept(E, D, v, i)
      BY <3>1, <3>2 DEF Flow, DonesKept
    <3>4. DoneKept(E, D, w, i)
      BY <1>0, <3>3, DoneMoreDue
    <3> QED
      BY <1>2, <3>1, <3>2, <3>4 DEF DoneKept
  <2> QED
    BY <2>1, <2>2
<1>8. StoredKept(D2[0], w)
  <2>1. D2[0] = D[0]
    BY <1>2, <1>3
  <2> QED
    BY <1>0, <2>1, StoredMoreDue DEF Flow
<1>9. Early(s, r, E2, w)
  <2>1. ~w.smtp => Nothing(E2, n + 1, w.stored)
    BY <1>2, <1>3 DEF Flow, Early
  <2> QED
    BY <1>2, <2>1 DEF Early
<1>10. Grows(r, E2, w)
  BY <1>2, <1>3 DEF Grows, Builds
<1>11. E2[0] = E[0]
  BY <1>2, <1>3
<1>12. Flow(s, r, E2, D2, w)
  BY <1>3, <1>5, <1>7, <1>8, <1>9, <1>10 DEF Flow
<1> QED
  BY <1>11, <1>12 DEF r

\* A mail is handed over before the data handler is there: it is lost.
LEMMA FlowLost ==
  ASSUME NEW s, NEW q \in Seq(Block), NEW E, NEW D,
         NEW v \in Views, NEW w \in Views, Flow(s, q, E, D, v), ~v.data,
         ~(Polite /\ OpenFirst),
         w.stored = v.stored, w.due = Append(v.due, v.txn), w.smtp = v.smtp, w.data = v.data,
         ~Live(w)
  PROVE  \E D2 : Flow(s, q, E, D2, w)
<1> DEFINE n  == Len(q)
           D2 == [i \in Nat |-> D[i] + 1]
<1>0. v.txn \in Mail /\ v.due \in Seq(Mail) /\ w.txn \in Mail /\ n \in Nat
  <2>1. v.txn \in Mail /\ v.due \in Seq(Mail) /\ w.txn \in Mail
    BY DEF Views
  <2>2. n \in Nat
    OBVIOUS
  <2> HIDE DEF n
  <2> QED
    BY <2>1, <2>2, Zenon
<1>1. D2 \in [Nat -> Nat] /\ \A i \in Nat : D2[i] = D[i] + 1
  <2>1. D \in [Nat -> Nat]
    BY DEF Flow, Chain
  <2>2. \A i \in Nat : D[i] + 1 \in Nat
    BY <2>1, OneMore
  <2> QED
    BY <2>2
<1> HIDE DEF D2
<1>2. /\ v.stored = <<>>
      /\ \A j \in 0..n : E[j] # NoMail => E[j].body = <<>>
      /\ \A i \in 1..n : ~IsDone(s, q[i])
  BY DEF Flow, Early
<1>3. Chain(s, q, E, D2)
  <2>1. ASSUME NEW i \in 1..n PROVE D2[i] = Behind(s, D2[i - 1], q[i])
    <3>1. i \in Nat /\ i - 1 \in Nat
      BY <1>0
    <3>2. D[i] = D[i - 1]
      BY <1>2 DEF Flow, Chain, Behind
    <3> QED
      BY <1>1, <1>2, <3>1, <3>2 DEF Behind
  <2> QED
    BY <1>1, <2>1 DEF Flow, Chain
<1>4. Len(w.due) = Len(v.due) + 1 /\ Len(v.due) \in Nat
  BY <1>0, MailAppend
<1>5. D2[n] = Len(w.due)
  BY <1>0, <1>1, <1>4 DEF Flow
<1>6. DonesKept(s, q, E, D2, w)
  BY <1>2 DEF DonesKept
<1>7. StoredKept(D2[0], w)
  <2>1. D2[0] = D[0] + 1 /\ D[0] \in 0..Len(v.due)
    BY <1>1 DEF Flow, StoredKept
  <2> QED
    BY <1>2, <1>4, <2>1 DEF StoredKept
<1>8. Early(s, q, E, w)
  BY DEF Flow, Early
<1>9. n \in 0..n
  BY <1>0
<1>10. Grows(q, E, w)
  BY <1>0, <1>2, <1>9, EmptyBuilds DEF Grows
<1>11. Flow(s, q, E, D2, w)
  BY <1>3, <1>5, <1>6, <1>7, <1>8, <1>10 DEF Flow
<1> QED
  BY <1>11

\* The block at the head has run; a mail that was done is stored.
LEMMA FlowTail ==
  ASSUME NEW s, NEW q \in Seq(Block), q # <<>>, NEW E, NEW D,
         NEW v \in Views, NEW w, Flow(s, q, E, D, v),
         w.stored = IF IsDone(s, q[1]) /\ E[0] # NoMail THEN Append(v.stored, E[0]) ELSE v.stored,
         w.due = v.due, w.txn = v.txn, w.smtp = v.smtp, w.data = v.data,
         w.mode = v.mode, w.cut = v.cut
  PROVE  \E E2, D2 : /\ Flow(s, Tail(q), E2, D2, w)
                     /\ E2[0] = After(s, E[0], q[1])
<1> DEFINE n  == Len(q)
           r  == Tail(q)
           E2 == [i \in Nat |-> E[i + 1]]
           D2 == [i \in Nat |-> D[i + 1]]
<1>0. D \in [Nat -> Nat] /\ E \in [Nat -> MaybeMail]
  BY DEF Flow, Chain
<1>00. v.due \in Seq(Mail) /\ v.stored \in Seq(Mail)
  BY DEF Views
<1>1. /\ E2 \in [Nat -> MaybeMail] /\ D2 \in [Nat -> Nat]
      /\ \A i \in Nat : E2[i] = E[i + 1] /\ D2[i] = D[i + 1]
  <2>1. \A i \in Nat : i + 1 \in Nat
    OBVIOUS
  <2>2. E2 \in [Nat -> MaybeMail] /\ \A i \in Nat : E2[i] = E[i + 1]
    BY <1>0, <2>1
  <2>3. D2 \in [Nat -> Nat] /\ \A i \in Nat : D2[i] = D[i + 1]
    BY <1>0, <2>1
  <2> QED
    BY <2>2, <2>3
<1> HIDE DEF E2, D2
<1>2. /\ r \in Seq(Block) /\ n \in Nat \ {0} /\ Len(r) = n - 1
      /\ \A i \in 1..n - 1 : r[i] = q[i + 1]
  BY TailFacts
<1> HIDE DEF r
<1>3. ASSUME NEW i \in 1..n - 1
      PROVE  /\ i \in Nat /\ i - 1 \in Nat /\ i + 1 \in 1..n /\ (i + 1) - 1 = i /\ (i - 1) + 1 = i
             /\ r[i] = q[i + 1]
             /\ E2[i] = E[i + 1] /\ D2[i] = D[i + 1] /\ E2[i - 1] = E[i] /\ D2[i - 1] = D[i]
  <2>1. i \in Nat /\ i - 1 \in Nat /\ i + 1 \in 1..n /\ (i + 1) - 1 = i /\ (i - 1) + 1 = i
    BY <1>2
  <2> QED
    BY <1>1, <1>2, <2>1
<1>4. 1 \in 1..n /\ 1 - 1 = 0 /\ 0 \in 0..n
  BY <1>2
<1>5. E[1] = After(s, E[0], q[1]) /\ D[1] = Behind(s, D[0], q[1])
  BY <1>4 DEF Flow, Chain
<1>6. Chain(s, r, E2, D2)
  <2>1. ASSUME NEW i \in 1..n - 1
        PROVE  E2[i] = After(s, E2[i - 1], r[i]) /\ D2[i] = Behind(s, D2[i - 1], r[i])
    BY <1>3 DEF Flow, Chain
  <2> QED
    BY <1>1, <1>2, <2>1 DEF Chain
<1>7. D2[Len(r)] = Len(w.due) /\ E2[Len(r)] = E[n]
  <2>1. n - 1 \in Nat /\ (n - 1) + 1 = n
    BY <1>2
  <2>2. D[n] = Len(v.due)
    BY DEF Flow
  <2> QED
    BY <1>1, <1>2, <2>1, <2>2
<1>8. \A i \in 0..n - 1 : Nothing(E, i + 1, v.stored) => Nothing(E2, i, w.stored)
  <2> SUFFICES ASSUME NEW i \in 0..n - 1, Nothing(E, i + 1, v.stored)
               PROVE  Nothing(E2, i, w.stored)
    OBVIOUS
  <2>1. E[0] = NoMail /\ v.stored = <<>>
    BY <1>2 DEF Nothing
  <2>2. ASSUME NEW j \in 0..i PROVE E2[j] = NoMail
    <3>1. j \in Nat /\ j + 1 \in 0..i + 1
      BY <1>2
    <3> QED
      BY <1>1, <3>1 DEF Nothing
  <2> QED
    BY <2>1, <2>2 DEF Nothing
<1>9. DonesKept(s, r, E2, D2, w)
  <2> SUFFICES ASSUME NEW i \in 1..n - 1, IsDone(s, r[i])
               PROVE  DoneKept(E2, D2, w, i)
    BY <1>2 DEF DonesKept
  <2>1. DoneKept(E, D, v, i + 1)
    BY <1>3 DEF Flow, DonesKept
  <2>2. Nothing(E, i, v.stored) => Nothing(E2, i - 1, w.stored)
    <3>1. i - 1 \in 0..n - 1 /\ (i - 1) + 1 = i
      BY <1>2
    <3> QED
      BY <1>8, <3>1
  <2>3. (i + 1) - 1 = i
    BY <1>3
  <2> QED
    BY <1>3, <2>1, <2>2, <2>3 DEF DoneKept
<1>10. StoredKept(D2[0], w)
  <2>0. /\ D2[0] = D[1] /\ D[0] \in Nat /\ Len(v.due) \in Nat /\ Len(v.stored) \in Nat
    <3>1. 0 \in Nat /\ 0 + 1 = 1
      OBVIOUS
    <3>2. D2[0] = D[1] /\ D[0] \in Nat
      BY <1>0, <1>1, <3>1
    <3> QED
      BY <1>00, <3>2
  <2>00. /\ D[0] \in 0..Len(v.due) /\ Len(v.stored) <= D[0]
         /\ Polite => \A k \in 1..Len(v.stored) :
                        Kept(v.stored[k], v.due[D[0] - Len(v.stored) + k])
         /\ Polite /\ OpenFirst => Len(v.stored) = D[0]
    BY DEF Flow, StoredKept
  <2>1. CASE IsDone(s, q[1]) /\ E[0] # NoMail
    <3>1. D[1] = D[0] + 1 /\ D[1] \in 1..Len(v.due) /\ (Polite => Kept(E[0], v.due[D[1]]))
      BY <1>4, <1>5, <2>1 DEF Flow, DonesKept, DoneKept, Behind
    <3>2. E[0] \in Mail
      BY <1>0, <2>1 DEF MaybeMail
    <3>3. /\ Len(w.stored) = Len(v.stored) + 1
          /\ \A k \in 1..Len(v.stored) : w.stored[k] = v.stored[k]
          /\ w.stored[Len(v.stored) + 1] = E[0]
      <4>1. w.stored = Append(v.stored, E[0])
        BY <2>1
      <4> QED
        BY <1>00, <3>2, <4>1, MailAppend
    <3>4. ASSUME Polite, NEW k \in 1..Len(w.stored)
          PROVE  Kept(w.stored[k], w.due[D2[0] - Len(w.stored) + k])
      <4>1. CASE k = Len(v.stored) + 1
        <5>1. D2[0] - Len(w.stored) + k = D[1]
          BY <2>0, <3>1, <3>3, <4>1
        <5> QED
          BY <3>1, <3>3, <3>4, <4>1, <5>1
      <4>2. CASE k # Len(v.stored) + 1
        <5>1. k \in 1..Len(v.stored) /\ D2[0] - Len(w.stored) + k = D[0] - Len(v.stored) + k
          <6>1. D2[0] = D[0] + 1 /\ Len(w.stored) = Len(v.stored) + 1
            BY <2>0, <3>1, <3>3
          <6>2. k \in 1..Len(v.stored) + 1 /\ Len(v.stored) \in Nat /\ D[0] \in Nat
            BY <2>0, <6>1
          <6> QED
            BY <4>2, <6>1, <6>2
        <5> QED
          BY <2>00, <3>3, <3>4, <5>1
      <4> QED
        BY <4>1, <4>2
    <3> QED
      <4>1. D2[0] \in 0..Len(w.due) /\ Len(w.stored) <= D2[0]
        BY <2>0, <2>00, <3>1, <3>3
      <4>2. Polite /\ OpenFirst => Len(w.stored) = D2[0]
        BY <2>0, <2>00, <3>1, <3>3
      <4> QED
        BY <3>4, <4>1, <4>2 DEF StoredKept
  <2>2. CASE IsDone(s, q[1]) /\ E[0] = NoMail
    <3>1. D[1] = D[0] + 1 /\ D[1] \in 1..Len(v.due)
      BY <1>4, <1>5, <2>2 DEF Flow, DonesKept, DoneKept, Behind
    <3>2. Polite => ~OpenFirst /\ v.stored = <<>>
      BY <1>4, <2>2 DEF Flow, DonesKept, DoneKept, Nothing
    <3>3. w.stored = v.stored
      BY <2>2
    <3>4. D2[0] \in 0..Len(w.due) /\ Len(w.stored) <= D2[0]
      <4>1. Len(v.stored) <= D[0] /\ Len(v.stored) \in Nat /\ D[0] \in Nat
        BY <2>0, <2>00
      <4>2. Len(v.stored) <= D[0] + 1
        BY <4>1
      <4>3. D2[0] = D[0] + 1 /\ w.due = v.due /\ D2[0] \in 1..Len(v.due) /\ Len(v.due) \in Nat
        BY <2>0, <3>1
      <4>4. D2[0] \in 0..Len(v.due)
        BY <4>3
      <4> QED
        BY <3>3, <4>2, <4>3, <4>4, Zenon
    <3>5. Polite => \A k \in 1..Len(w.stored) : FALSE
      <4>1. ASSUME Polite PROVE Len(w.stored) = 0
        <5>1. w.stored = <<>>
          BY <3>2, <3>3, <4>1, Zenon
        <5>2. Len(<<>>) = 0
          OBVIOUS
        <5> QED
          BY <5>1, <5>2, Zenon
      <4>2. \A k \in 1..0 : FALSE
        OBVIOUS
      <4> QED
        BY <4>1, <4>2
    <3>6. Polite => ~OpenFirst
      BY <3>2
    <3> QED
      BY <3>4, <3>5, <3>6 DEF StoredKept
  <2>3. CASE ~IsDone(s, q[1])
    <3>1. D[1] = D[0] /\ w.stored = v.stored
      BY <1>5, <2>3 DEF Behind
    <3> QED
      BY <2>0, <2>00, <3>1 DEF StoredKept
  <2> QED
    BY <2>1, <2>2, <2>3
<1>11. Nothing(E, n, v.stored) => Nothing(E2, n - 1, w.stored)
  <2>1. n - 1 \in 0..n - 1 /\ (n - 1) + 1 = n
    BY <1>2
  <2> QED
    BY <1>8, <2>1
<1>12. Early(s, r, E2, w)
  <2>1. ~w.smtp => Nothing(E2, n - 1, w.stored)
    BY <1>11 DEF Flow, Early
  <2>2. ASSUME ~w.data
        PROVE  /\ w.stored = <<>>
               /\ \A j \in 0..n - 1 : E2[j] # NoMail => E2[j].body = <<>>
               /\ \A i \in 1..n - 1 : ~IsDone(s, r[i])
    <3>1. /\ v.stored = <<>>
          /\ \A j \in 0..n : E[j] # NoMail => E[j].body = <<>>
          /\ \A i \in 1..n : ~IsDone(s, q[i])
      BY <2>2 DEF Flow, Early
    <3>2. \A j \in 0..n - 1 : E2[j] = E[j + 1] /\ j + 1 \in 0..n
      <4>1. \A j \in 0..n - 1 : j \in Nat /\ j + 1 \in 0..n
        BY <1>2
      <4> QED
        BY <1>1, <4>1
    <3>3. w.stored = <<>>
      BY <1>4, <3>1
    <3>4. \A i \in 1..n - 1 : ~IsDone(s, r[i])
      BY <1>3, <3>1
    <3> QED
      BY <3>1, <3>2, <3>3, <3>4
  <2> QED
    BY <1>2, <2>1, <2>2 DEF Early
<1>13. Grows(r, E2, w)
  <2>1. Live(w) => Live(v)
    BY DEF Live
  <2>2. Grows(q, E, v)
    BY DEF Flow
  <2>3. w.txn = v.txn /\ (Nothing(E, n, v.stored) => Nothing(E2, Len(r), w.stored))
    BY <1>2, <1>11
  <2>4. Builds(E2[Len(r)], w.txn)
    BY <1>7, <2>2, <2>3 DEF Grows
  <2>5. Live(w) => IF E2[Len(r)] = NoMail THEN ~OpenFirst /\ Nothing(E2, Len(r), w.stored)
                                          ELSE Matches(E2[Len(r)], w.txn)
    BY <1>7, <2>1, <2>2, <2>3 DEF Grows
  <2> QED
    BY <2>4, <2>5, Zenon DEF Grows
<1>14. E2[0] = After(s, E[0], q[1])
  <2>1. 0 \in Nat /\ 0 + 1 = 1
    OBVIOUS
  <2> QED
    BY <1>1, <1>5, <2>1
<1>15. Flow(s, r, E2, D2, w)
  BY <1>6, <1>7, <1>9, <1>10, <1>12, <1>13 DEF Flow
<1> QED
  BY <1>14, <1>15 DEF r

-------------------------------------------------------------------------------
(***************************************************************************)
(* The application.  One block of the queue changes the mail under          *)
(* construction and the mails stored of its own connection.                *)
(***************************************************************************)
MailOf(s) == IF smsocket[s].email = NoMail THEN NoMail ELSE smsocket[s].email.mail

\* The mails a connection has stored, one email more.
MailsOf(emails) == [i \in DOMAIN emails |-> emails[i].mail]

\* The mails stored are as many as their emails,
LEMMA StoredMails ==
  ASSUME NEW emails \in Seq(SMEmail)
  PROVE  /\ MailsOf(emails) \in Seq(Mail)
         /\ Len(MailsOf(emails)) = Len(emails)
         /\ Len(emails) \in Nat
         /\ \A i \in 1..Len(emails) : MailsOf(emails)[i] = emails[i].mail
<1>1. ASSUME NEW i \in 1..Len(emails) PROVE emails[i].mail \in Mail
  <2>1. emails[i] \in SMEmail
    OBVIOUS
  <2> QED
    BY <2>1 DEF SMEmail
<1>2. DOMAIN emails = 1..Len(emails) /\ Len(emails) \in Nat
  OBVIOUS
<1>3. MailsOf(emails) = [i \in 1..Len(emails) |-> emails[i].mail]
  BY <1>2 DEF MailsOf
<1> QED
  BY <1>1, <1>2, <1>3

\* and one more with one more.
LEMMA StoredAppend ==
  ASSUME NEW emails \in Seq(SMEmail), NEW email \in SMEmail
  PROVE  MailsOf(Append(emails, email)) = Append(MailsOf(emails), email.mail)
<1> DEFINE more == Append(emails, email)
<1>1. /\ more \in Seq(SMEmail) /\ Len(more) = Len(emails) + 1
      /\ \A i \in 1..Len(emails) : more[i] = emails[i]
      /\ more[Len(emails) + 1] = email
  OBVIOUS
<1> HIDE DEF more
<1>2. email.mail \in Mail
  BY DEF SMEmail
<1>3. /\ MailsOf(more) \in Seq(Mail) /\ Len(MailsOf(more)) = Len(emails) + 1
      /\ \A i \in 1..Len(emails) + 1 : MailsOf(more)[i] = more[i].mail
      /\ MailsOf(emails) \in Seq(Mail) /\ Len(MailsOf(emails)) = Len(emails)
      /\ \A i \in 1..Len(emails) : MailsOf(emails)[i] = emails[i].mail
      /\ Len(emails) \in Nat
  <2>1. /\ MailsOf(more) \in Seq(Mail) /\ Len(MailsOf(more)) = Len(more)
        /\ \A i \in 1..Len(more) : MailsOf(more)[i] = more[i].mail
    BY <1>1, StoredMails
  <2> QED
    BY <1>1, <2>1, StoredMails
<1> DEFINE p == MailsOf(more)
           q == MailsOf(emails)
<1>4. /\ Append(q, email.mail) \in Seq(Mail) /\ Len(Append(q, email.mail)) = Len(q) + 1
      /\ \A i \in 1..Len(q) : Append(q, email.mail)[i] = q[i]
      /\ Append(q, email.mail)[Len(q) + 1] = email.mail
  BY <1>2, <1>3, MailAppend
<1>5. p \in Seq(Mail) /\ q \in Seq(Mail) /\ Len(p) = Len(q) + 1 /\ Len(q) \in Nat /\ Len(q) = Len(emails)
  BY <1>3
<1>6. \A i \in 1..Len(q) + 1 : p[i] = Append(q, email.mail)[i]
  <2> SUFFICES ASSUME NEW i \in 1..Len(q) + 1 PROVE p[i] = Append(q, email.mail)[i]
    OBVIOUS
  <2>1. CASE i = Len(q) + 1
    BY <1>1, <1>3, <1>4, <1>5, <2>1
  <2>2. CASE i # Len(q) + 1
    <3>1. i \in 1..Len(q)
      BY <1>5, <2>2
    <3> QED
      BY <1>1, <1>3, <1>4, <1>5, <3>1
  <2> QED
    BY <2>1, <2>2
<1> DEFINE r == Append(q, email.mail)
<1>7. r \in Seq(Mail) /\ Len(r) = Len(p) /\ \A i \in 1..Len(p) : p[i] = r[i]
  BY <1>4, <1>5, <1>6
<1>8. p \in Seq(Mail)
  BY <1>5
<1> HIDE DEF p, q, r
<1>9. p = r
  BY <1>7, <1>8
<1> QED
  BY <1>9 DEF p, q, r, more

\* What a block has done to connection t when it ends.
Ran(t, b) ==
  /\ smsocket'[t].context = (smsocket[t].context \/ (b.kind = "open" /\ b.sock = t))
  /\ MailOf(t)' = After(t, MailOf(t), b)
  /\ Stored(t)' = IF IsDone(t, b) /\ MailOf(t) # NoMail
                  THEN Append(Stored(t), MailOf(t)) ELSE Stored(t)

\* A block leaves the other connections;
LEMMA RanBeside ==
  ASSUME NEW t \in Socket, NEW b, b.sock # t, smsocket'[t] = smsocket[t], mDb'[t] = mDb[t],
         smsocket[t].context \in BOOLEAN
  PROVE  Ran(t, b)
BY DEF Ran, MailOf, After, Stored, IsDone

\* to its own it does what After says.
LEMMA RanSelf ==
  ASSUME AppTypeOK, NEW s \in Socket, NEW b \in Block, b.sock = s,
         b.kind \in {"smtp", "data", "done"} => smsocket[s].context,
         \/ b.kind = "open" /\ SetContext(s)
         \/ b.kind = "close" /\ UNCHANGED appVars
         \/ b.kind = "smtp" /\ HandleSmtp(s, b.line)
         \/ b.kind = "data" /\ HandleData(s, b.line)
         \/ b.kind = "done" /\ HandleEmail(s),
         ~crashed'
  PROVE  /\ Ran(s, b)
         /\ \A t \in Socket \ {s} : smsocket'[t] = smsocket[t] /\ mDb'[t] = mDb[t]
<1>1. smsocket[s] \in SMSocket /\ mDb[s] \in Seq(SMEmail)
  BY DEF AppTypeOK
<1>2. smsocket[s].email # NoMail => smsocket[s].email \in SMEmail /\ smsocket[s].email.mail \in Mail
                                    /\ smsocket[s].email.mail # NoMail
  BY <1>1, SMSocketFields, NoMailAssumption
<1>3. CASE b.kind = "open"
  <2>1. SetContext(s)
    BY <1>3
  <2> QED
    BY <1>1, <1>3, <2>1 DEF SetContext, AppTypeOK, SMSocket, Ran, MailOf, After, Stored, IsDone
<1>4. CASE b.kind = "close"
  <2>1. UNCHANGED appVars
    BY <1>4
  <2> QED
    BY <1>1, <1>4, <2>1 DEF appVars, SMSocket, Ran, MailOf, After, Stored, IsDone
<1>5. CASE b.kind = "smtp"
  <2>0. b.line \in Line /\ HandleSmtp(s, b.line)
    BY <1>5, BlockFields
  <2>1. CASE b.line.word = "MAIL"
    <3>1. HandleFrom(s, b.line)
      BY <2>0, <2>1 DEF HandleSmtp
    <3>2. smsocket' = [smsocket EXCEPT ![s] = SetEmail(smsocket[s], NewEmail(smsocket[s], b.line))]
          /\ mDb' = mDb
      BY <1>5, <3>1 DEF HandleFrom
    <3> DEFINE email == NewEmail(smsocket[s], b.line)
    <3>3. email \in SMEmail /\ email.mail = Begun(b.line) /\ email # NoMail
      BY <1>1, <2>0, NewEmailType, NoEmailAssumption DEF NewEmail, Begun
    <3> HIDE DEF email
    <3>4. /\ smsocket'[s].email = email /\ smsocket'[s].context = smsocket[s].context
          /\ \A t \in Socket \ {s} : smsocket'[t] = smsocket[t]
      BY <1>1, <3>2 DEF AppTypeOK, SetEmail, SMSocket, email
    <3>5. MailOf(s)' = Begun(b.line)
      BY <3>3, <3>4 DEF MailOf
    <3>6. After(s, MailOf(s), b) = Begun(b.line)
      BY <1>5, <2>1 DEF After
    <3>7. Stored(s)' = Stored(s)
      BY <3>2 DEF Stored
    <3> QED
      BY <1>1, <1>5, <3>2, <3>4, <3>5, <3>6, <3>7 DEF Ran, IsDone, SMSocket
  <2>2. CASE b.line.word # "MAIL"
    <3>1. b.line.word = "RCPT" /\ HandleRcpt(s, b.line)
      BY <2>0, <2>2 DEF HandleSmtp
    <3>2. smsocket' = [smsocket EXCEPT ![s] = WithRecipient(smsocket[s], b.line)] /\ mDb' = mDb
      BY <3>1 DEF HandleRcpt
    <3>3. /\ smsocket'[s] = WithRecipient(smsocket[s], b.line)
          /\ \A t \in Socket \ {s} : smsocket'[t] = smsocket[t]
      BY <3>2 DEF AppTypeOK
    <3>4. Stored(s)' = Stored(s)
      BY <3>2 DEF Stored
    <3>5. CASE smsocket[s].email # NoMail /\ b.line.arg \in Arg
      <4> DEFINE mail == WithRcpt(smsocket[s].email.mail, b.line)
                 email == [smsocket[s].email EXCEPT !.mail = mail]
      <4>1. mail \in Mail
        BY <1>2, <2>0, <3>5, MailUpdates DEF WithRcpt
      <4>2. WithRecipient(smsocket[s], b.line) = [smsocket[s] EXCEPT !.email = email]
        BY <1>1, <1>2, <3>5 DEF WithRecipient, WithRcpt, SMSocket, SMEmail, Mail
      <4> HIDE DEF mail
      <4>3. email \in SMEmail /\ email.mail = mail
        BY <1>2, <3>5, <4>1 DEF SMEmail
      <4>4. email # NoMail
        BY <4>3, NoEmailAssumption
      <4> HIDE DEF email
      <4>5. smsocket'[s].email = email /\ smsocket'[s].context = smsocket[s].context
        BY <1>1, <3>3, <4>2 DEF SMSocket
      <4>6. MailOf(s)' = mail
        BY <4>3, <4>4, <4>5 DEF MailOf
      <4>7. After(s, MailOf(s), b) = mail
        BY <1>2, <1>5, <3>1, <3>5 DEF After, MailOf, mail
      <4> QED
        BY <1>1, <1>5, <3>2, <3>3, <3>4, <4>5, <4>6, <4>7 DEF Ran, IsDone, SMSocket
    <3>6. CASE ~(smsocket[s].email # NoMail /\ b.line.arg \in Arg)
      <4>1. smsocket'[s] = smsocket[s]
        BY <3>3, <3>6 DEF WithRecipient
      <4>2. After(s, MailOf(s), b) = MailOf(s)
        BY <1>5, <3>1, <3>6 DEF After, MailOf
      <4> QED
        BY <1>1, <1>5, <3>2, <3>3, <3>4, <4>1, <4>2 DEF Ran, IsDone, SMSocket, MailOf
    <3> QED
      BY <3>5, <3>6
  <2> QED
    BY <2>1, <2>2
<1>6. CASE b.kind = "data"
  <2>0. b.line \in Line /\ HandleData(s, b.line)
    BY <1>6, BlockFields
  <2>1. smsocket' = [smsocket EXCEPT ![s] = WithData(smsocket[s], b.line)] /\ mDb' = mDb
    BY <2>0 DEF HandleData
  <2>2. /\ smsocket'[s] = WithData(smsocket[s], b.line)
        /\ \A t \in Socket \ {s} : smsocket'[t] = smsocket[t]
    BY <2>1 DEF AppTypeOK
  <2>3. Stored(s)' = Stored(s)
    BY <2>1 DEF Stored
  <2>4. CASE smsocket[s].email # NoMail
    <3> DEFINE mail == WithLine(smsocket[s].email.mail, b.line)
               email == [smsocket[s].email EXCEPT !.mail = mail]
    <3>1. mail \in Mail
      BY <1>2, <2>0, <2>4, MailUpdates DEF WithLine
    <3>2. WithData(smsocket[s], b.line) = [smsocket[s] EXCEPT !.email = email]
      BY <1>1, <1>2, <2>4 DEF WithData, WithLine, SMSocket, SMEmail, Mail
    <3> HIDE DEF mail
    <3>3. email \in SMEmail /\ email.mail = mail
      BY <1>2, <2>4, <3>1 DEF SMEmail
    <3>4. email # NoMail
      BY <3>3, NoEmailAssumption
    <3> HIDE DEF email
    <3>5. smsocket'[s].email = email /\ smsocket'[s].context = smsocket[s].context
      BY <1>1, <2>2, <3>2 DEF SMSocket
    <3>6. MailOf(s)' = mail
      BY <3>3, <3>4, <3>5 DEF MailOf
    <3>7. After(s, MailOf(s), b) = mail
      BY <1>2, <1>6, <2>4 DEF After, MailOf, mail
    <3> QED
      BY <1>1, <1>6, <2>1, <2>2, <2>3, <3>5, <3>6, <3>7 DEF Ran, IsDone, SMSocket
  <2>5. CASE smsocket[s].email = NoMail
    <3>1. smsocket'[s] = smsocket[s]
      BY <2>2, <2>5 DEF WithData
    <3>2. After(s, MailOf(s), b) = MailOf(s)
      BY <1>6, <2>5 DEF After, MailOf
    <3> QED
      BY <1>1, <1>6, <2>1, <2>2, <2>3, <3>1, <3>2 DEF Ran, IsDone, SMSocket, MailOf
  <2> QED
    BY <2>4, <2>5
<1>7. CASE b.kind = "done"
  <2>0. HandleEmail(s) /\ ~crashed'
    BY <1>7
  <2>1. After(s, MailOf(s), b) = NoMail /\ IsDone(s, b)
    BY <1>7 DEF After, IsDone
  <2>2. CASE smsocket[s].email # NoMail
    <3>1. /\ mDb' = [mDb EXCEPT ![s] = Append(mDb[s], smsocket[s].email)]
          /\ smsocket' = [smsocket EXCEPT ![s] = SetEmail(smsocket[s], NoMail)]
      BY <2>0, <2>2 DEF HandleEmail
    <3>2. /\ mDb'[s] = Append(mDb[s], smsocket[s].email)
          /\ \A t \in Socket \ {s} : smsocket'[t] = smsocket[t] /\ mDb'[t] = mDb[t]
          /\ smsocket'[s].email = NoMail /\ smsocket'[s].context = smsocket[s].context
      BY <1>1, <3>1 DEF AppTypeOK, SetEmail, SMSocket
    <3>3. Stored(s)' = Append(Stored(s), MailOf(s))
      BY <1>1, <1>2, <2>2, <3>2, StoredAppend DEF Stored, MailsOf, MailOf
    <3>4. MailOf(s) # NoMail /\ MailOf(s)' = NoMail
      BY <1>2, <2>2, <3>2 DEF MailOf
    <3> QED
      BY <1>1, <1>7, <2>1, <3>2, <3>3, <3>4 DEF Ran, SMSocket
  <2>3. CASE smsocket[s].email = NoMail
    <3>1. smsocket' = [smsocket EXCEPT ![s] = SetEmail(smsocket[s], NoMail)] /\ mDb' = mDb
      BY <1>7, <2>0, <2>3 DEF HandleEmail
    <3>2. /\ \A t \in Socket \ {s} : smsocket'[t] = smsocket[t]
          /\ smsocket'[s].email = NoMail /\ smsocket'[s].context = smsocket[s].context
      BY <1>1, <3>1 DEF AppTypeOK, SetEmail, SMSocket
    <3>3. Stored(s)' = Stored(s) /\ MailOf(s) = NoMail /\ MailOf(s)' = NoMail
      BY <2>3, <3>1, <3>2 DEF Stored, MailOf
    <3> QED
      BY <1>1, <1>7, <2>1, <3>1, <3>2, <3>3 DEF Ran, SMSocket
  <2> QED
    BY <2>2, <2>3
<1> QED
  BY <1>3, <1>4, <1>5, <1>6, <1>7

-------------------------------------------------------------------------------
(***************************************************************************)
(* The handlers.  A callback about a mail runs on a connection whose        *)
(* context is set: its OPEN block ran, or is in front of it.               *)
(***************************************************************************)
Ahead(context, s, q, n) ==
  context \/ \E j \in 1..n : q[j].kind = "open" /\ q[j].sock = s

OpensFirst(context, isOpen, s, q) ==
  /\ isOpen => Ahead(context, s, q, Len(q))
  /\ \A i \in 1..Len(q) :
       q[i].sock = s /\ q[i].kind \in {"smtp", "data", "done"} => Ahead(context, s, q, i - 1)

HandlersFit(s) ==
  /\ socket[s].data_handler => socket[s].smtp_handler
  /\ OpensFirst(smsocket[s].context, socket[s].phase = "open", s, handlerQ)

\* The OPEN callback in progress is the head of the queue.
OpenInTurn ==
  openStep # 0 => /\ handlerQ # <<>>
                  /\ Head(handlerQ).kind = "open"
                  /\ socket[Head(handlerQ).sock].smtp_handler

HandlersInv == OpenInTurn /\ \A s \in Socket : HandlersFit(s)

\* A block behind the queue,
LEMMA OpensAppend ==
  ASSUME NEW s, NEW q \in Seq(Block), NEW b \in Block, NEW context, NEW isOpen, NEW remains,
         OpensFirst(context, isOpen, s, q),
         remains => isOpen \/ (b.kind = "open" /\ b.sock = s),
         b.sock = s /\ b.kind \in {"smtp", "data", "done"} => isOpen
  PROVE  OpensFirst(context, remains, s, Append(q, b))
<1> DEFINE n == Len(q)
           r == Append(q, b)
<1>1. /\ n \in Nat /\ Len(r) = n + 1 /\ r[n + 1] = b
      /\ \A i \in 1..n : r[i] = q[i]
  OBVIOUS
<1> HIDE DEF r
<1>2. \A m \in 0..n : Ahead(context, s, q, m) => Ahead(context, s, r, m)
  BY <1>1 DEF Ahead
<1>3. ASSUME NEW m \in 0..n, Ahead(context, s, r, m) PROVE Ahead(context, s, r, n + 1)
  BY <1>1, <1>3 DEF Ahead
<1>4. n \in 0..n /\ n + 1 \in 1..n + 1 /\ (n + 1) - 1 = n
  BY <1>1
<1>5. remains => Ahead(context, s, r, n + 1)
  <2>1. CASE isOpen
    BY <1>2, <1>3, <1>4, <2>1 DEF OpensFirst
  <2>2. CASE b.kind = "open" /\ b.sock = s
    BY <1>1, <1>4, <2>2 DEF Ahead
  <2> QED
    BY <2>1, <2>2
<1>6. ASSUME NEW i \in 1..n + 1, r[i].sock = s, r[i].kind \in {"smtp", "data", "done"}
      PROVE  Ahead(context, s, r, i - 1)
  <2>1. CASE i = n + 1
    BY <1>1, <1>2, <1>4, <1>6, <2>1 DEF OpensFirst
  <2>2. CASE i # n + 1
    <3>1. i \in 1..n /\ i - 1 \in 0..n
      BY <1>1, <2>2
    <3> QED
      BY <1>1, <1>2, <1>6, <3>1 DEF OpensFirst
  <2> QED
    BY <2>1, <2>2
<1> QED
  BY <1>1, <1>5, <1>6 DEF OpensFirst, r

\* and one off its front, keep the OPEN blocks ahead.
LEMMA OpensTail ==
  ASSUME NEW s, NEW q \in Seq(Block), q # <<>>, NEW context, NEW after, NEW isOpen,
         OpensFirst(context, isOpen, s, q),
         context => after, q[1].kind = "open" /\ q[1].sock = s => after
  PROVE  OpensFirst(after, isOpen, s, Tail(q))
<1> DEFINE n == Len(q)
           r == Tail(q)
<1>1. /\ n \in Nat \ {0} /\ Len(r) = n - 1
      /\ \A i \in 1..n - 1 : r[i] = q[i + 1]
  BY TailFacts
<1> HIDE DEF r
<1>2. ASSUME NEW m \in 1..n, Ahead(context, s, q, m) PROVE Ahead(after, s, r, m - 1)
  <2>1. CASE context
    BY <2>1 DEF Ahead
  <2>2. CASE \E j \in 1..m : q[j].kind = "open" /\ q[j].sock = s
    <3>1. PICK j \in 1..m : q[j].kind = "open" /\ q[j].sock = s
      BY <2>2
    <3>2. CASE j = 1
      BY <3>1, <3>2 DEF Ahead
    <3>3. CASE j # 1
      <4>1. j - 1 \in 1..m - 1 /\ j - 1 \in 1..n - 1 /\ (j - 1) + 1 = j
        BY <1>1, <3>3
      <4> QED
        BY <1>1, <3>1, <4>1 DEF Ahead
    <3> QED
      BY <3>2, <3>3
  <2> QED
    BY <1>2, <2>1, <2>2 DEF Ahead
<1>3. n \in 1..n
  BY <1>1
<1>4. ASSUME NEW i \in 1..n - 1, r[i].sock = s, r[i].kind \in {"smtp", "data", "done"}
      PROVE  Ahead(after, s, r, i - 1)
  <2>1. i + 1 \in 1..n /\ (i + 1) - 1 = i /\ i \in 1..n
    BY <1>1
  <2> QED
    BY <1>1, <1>2, <1>4, <2>1 DEF OpensFirst
<1> QED
  BY <1>1, <1>2, <1>3, <1>4 DEF OpensFirst, r

\* The head runs with its context.
LEMMA HeadHasContext ==
  ASSUME HandlersInv, handlerQ \in Seq(Block), handlerQ # <<>>, NEW s \in Socket,
         Head(handlerQ).sock = s, Head(handlerQ).kind \in {"smtp", "data", "done"}
  PROVE  smsocket[s].context
<1>1. 1 \in 1..Len(handlerQ) /\ Head(handlerQ) = handlerQ[1] /\ 1 - 1 = 0
  BY TailFacts
<1> QED
  BY <1>1 DEF HandlersInv, HandlersFit, OpensFirst, Ahead

\* A step of libEmailz: the queue stays or grows by a block of connection u.
Dispatches(u) ==
  \/ handlerQ' = handlerQ
  \/ \E b \in Block : /\ handlerQ' = Append(handlerQ, b) /\ b.sock = u
                      /\ b.kind \in {"smtp", "data", "done"} => socket[u].phase = "open"

\* So does every step of libEmailz,
LEMMA DispatchHandlers ==
  ASSUME HandlersInv, handlerQ \in Seq(Block), NEW u \in Socket, Only(u), SameHandlers(u),
         UNCHANGED <<appVars, openStep>>, Dispatches(u),
         socket'[u].phase = "open" => socket[u].phase = "open"
  PROVE  HandlersInv'
<1>1. ASSUME NEW t \in Socket PROVE HandlersFit(t)'
  <2>1. /\ socket'[t].smtp_handler = socket[t].smtp_handler
        /\ socket'[t].data_handler = socket[t].data_handler
        /\ socket'[t].phase = "open" => socket[t].phase = "open"
    BY DEF Only, SameHandlers
  <2>2. OpensFirst(smsocket[t].context, socket[t].phase = "open", t, handlerQ)
    BY DEF HandlersInv, HandlersFit
  <2>3. CASE handlerQ' = handlerQ
    <3>1. OpensFirst(smsocket[t].context, socket'[t].phase = "open", t, handlerQ)
      BY <2>1, <2>2 DEF OpensFirst
    <3> QED
      BY <2>1, <2>3, <3>1 DEF HandlersInv, HandlersFit, appVars
  <2>4. ASSUME NEW b \in Block, handlerQ' = Append(handlerQ, b), b.sock = u,
               b.kind \in {"smtp", "data", "done"} => socket[u].phase = "open"
        PROVE  HandlersFit(t)'
    <3>1. OpensFirst(smsocket[t].context, socket'[t].phase = "open", t, Append(handlerQ, b))
      BY <2>1, <2>2, <2>4, OpensAppend
    <3> QED
      BY <2>1, <2>4, <3>1 DEF HandlersInv, HandlersFit, appVars
  <2> QED
    BY <2>3, <2>4 DEF Dispatches
<1>2. OpenInTurn'
  <2>1. ASSUME openStep # 0
        PROVE  handlerQ' # <<>> /\ Head(handlerQ') = Head(handlerQ) /\ Head(handlerQ).sock \in Socket
    <3>1. handlerQ # <<>>
      BY <2>1 DEF HandlersInv, OpenInTurn
    <3>2. Head(handlerQ) \in Block
      BY <3>1, TailType
    <3>3. \A b \in Block : Append(handlerQ, b) # <<>> /\ Head(Append(handlerQ, b)) = Head(handlerQ)
      BY <3>1
    <3> QED
      BY <3>1, <3>2, <3>3, BlockFields DEF Dispatches
  <2>2. \A t \in Socket : socket'[t].smtp_handler = socket[t].smtp_handler
    BY DEF Only, SameHandlers
  <2> QED
    BY <2>1, <2>2 DEF HandlersInv, OpenInTurn
<1> QED
  BY <1>1, <1>2 DEF HandlersInv

-------------------------------------------------------------------------------
\* A block of connection u that ends.
Ends(u) ==
  \/ RunOpen(u) /\ openStep = 2
  \/ RunSmtp(u) \/ RunData(u) \/ RunDone(u) \/ RunClose(u)

\* What the block at the head did when it ends.
LEMMA BlockRan ==
  ASSUME TypeOK, HandlersInv, NEW u \in Socket, Ends(u), ~crashed'
  PROVE  /\ handlerQ # <<>> /\ Head(handlerQ) \in Block /\ handlerQ' = Tail(handlerQ)
         /\ UNCHANGED <<socket, peer, txn, due>>
         /\ openStep' = 0
         /\ \A t \in Socket : Ran(t, Head(handlerQ))
<1> DEFINE b == Head(handlerQ)
<1>0. AppTypeOK /\ SessionTypeOK /\ openStep \in 0..2
  BY TypeSplit
<1>1. handlerQ # <<>> /\ b.sock = u /\ BlockEnds /\ UNCHANGED <<socket, peer, txn, due>>
  BY DEF Ends, RunOpen, RunSmtp, RunData, RunDone, RunClose, Running
<1>2. handlerQ \in Seq(Block) /\ b \in Block
  BY <1>0, <1>1, TailType DEF SessionTypeOK
<1>3. openStep' = 0
  <2>1. CASE RunOpen(u)
    <3>1. openStep = 2
      BY <2>1 DEF RunOpen, Ends, RunSmtp, RunData, RunDone, RunClose, Running
    <3> QED
      BY <2>1, <3>1 DEF RunOpen
  <2>2. CASE RunSmtp(u) \/ RunData(u) \/ RunDone(u) \/ RunClose(u)
    <3>1. b.kind # "open" /\ openStep' = openStep
      BY <2>2 DEF RunSmtp, RunData, RunDone, RunClose, Running
    <3> QED
      BY <3>1 DEF HandlersInv, OpenInTurn
  <2> QED
    BY <2>1, <2>2 DEF Ends
<1>4. \/ b.kind = "open" /\ SetContext(u)
      \/ b.kind = "close" /\ UNCHANGED appVars
      \/ b.kind = "smtp" /\ HandleSmtp(u, b.line)
      \/ b.kind = "data" /\ HandleData(u, b.line)
      \/ b.kind = "done" /\ HandleEmail(u)
  BY DEF Ends, RunOpen, RunSmtp, RunData, RunDone, RunClose, Running
<1> HIDE DEF b
<1>5. b.kind \in {"smtp", "data", "done"} => smsocket[u].context
  BY <1>1, <1>2, HeadHasContext DEF b
<1>6. Ran(u, b) /\ \A t \in Socket \ {u} : smsocket'[t] = smsocket[t] /\ mDb'[t] = mDb[t]
  BY <1>0, <1>1, <1>2, <1>4, <1>5, RanSelf
<1>7. ASSUME NEW t \in Socket PROVE Ran(t, b)
  <2>1. smsocket[t].context \in BOOLEAN
    BY <1>0, SMSocketFields DEF AppTypeOK
  <2> QED
    BY <1>1, <1>6, <2>1, RanBeside
<1> QED
  BY <1>1, <1>2, <1>3, <1>7 DEF BlockEnds, b

\* A block that ends,
LEMMA EndsHandlers ==
  ASSUME TypeOK, HandlersInv, NEW u \in Socket, Ends(u), ~crashed'
  PROVE  HandlersInv'
<1>1. /\ handlerQ # <<>> /\ handlerQ' = Tail(handlerQ) /\ UNCHANGED socket /\ openStep' = 0
      /\ \A t \in Socket : Ran(t, Head(handlerQ))
  BY BlockRan
<1>2. handlerQ \in Seq(Block) /\ Head(handlerQ) = handlerQ[1]
  BY <1>1, TailFacts DEF TypeOK
<1>3. ASSUME NEW t \in Socket PROVE HandlersFit(t)'
  <2>1. OpensFirst(smsocket'[t].context, socket[t].phase = "open", t, Tail(handlerQ))
    <3>1. /\ smsocket[t].context => smsocket'[t].context
          /\ handlerQ[1].kind = "open" /\ handlerQ[1].sock = t => smsocket'[t].context
      BY <1>1, <1>2 DEF Ran
    <3> QED
      BY <1>1, <1>2, <3>1, OpensTail DEF HandlersInv, HandlersFit
  <2> QED
    BY <1>1, <2>1 DEF HandlersInv, HandlersFit
<1> QED
  BY <1>1, <1>3 DEF HandlersInv, OpenInTurn

\* a handler installed,
LEMMA InstallHandlers ==
  ASSUME TypeOK, HandlersInv, NEW u \in Socket, RunOpen(u), openStep # 2
  PROVE  HandlersInv'
<1>0. SessionTypeOK /\ openStep \in 0..2
  BY TypeSplit
<1>1. /\ handlerQ' = handlerQ /\ handlerQ # <<>> /\ Head(handlerQ).kind = "open" /\ Head(handlerQ).sock = u
      /\ UNCHANGED smsocket
      /\ SetSmtpHandler(u) \/ SetDataHandler(u)
      /\ openStep = 0 => SetSmtpHandler(u)
  BY DEF RunOpen, Running, appVars
<1>2. openStep # 0 => socket[u].smtp_handler
  BY <1>1 DEF HandlersInv, OpenInTurn
<1>3. /\ Only(u) /\ socket'[u].phase = socket[u].phase /\ socket'[u].smtp_handler
  <2>1. CASE SetSmtpHandler(u)
    BY <1>0, <2>1, SmtpInstall
  <2>2. CASE ~SetSmtpHandler(u)
    BY <1>0, <1>1, <1>2, <2>2, DataInstall
  <2> QED
    BY <2>1, <2>2
<1>4. ASSUME NEW t \in Socket PROVE HandlersFit(t)'
  <2>1. socket'[t].phase = socket[t].phase /\ (t # u => socket'[t] = socket[t])
    BY <1>3 DEF Only
  <2> QED
    BY <1>1, <1>3, <2>1 DEF HandlersInv, HandlersFit
<1> QED
  BY <1>1, <1>3, <1>4 DEF HandlersInv, OpenInTurn

\* an accept block,
LEMMA AcceptHandlers ==
  ASSUME TypeOK, SessionInv, HandlersInv, NEW u \in Socket, RunAccept(u)
  PROVE  HandlersInv'
<1> DEFINE b == B("open", u, NoLine)
<1>1. /\ handlerQ # <<>> /\ Head(handlerQ).kind = "accept" /\ HandleAccept(u)
      /\ UNCHANGED <<smsocket, openStep>>
  BY DEF RunAccept, Running, appVars
<1>2. /\ Beside(u) /\ handlerQ' = Append(Tail(handlerQ), b)
  BY <1>1, AcceptEffect
<1>3. /\ b \in Block /\ b.kind = "open" /\ b.sock = u
      /\ handlerQ \in Seq(Block) /\ Tail(handlerQ) \in Seq(Block) /\ Head(handlerQ) = handlerQ[1]
  BY <1>1, BlockType, BFields, TailFacts DEF TypeOK
<1> HIDE DEF b
<1>4. ASSUME NEW t \in Socket PROVE HandlersFit(t)'
  <2>1. OpensFirst(smsocket[t].context, socket[t].phase = "open", t, Tail(handlerQ))
    BY <1>1, <1>3, OpensTail DEF HandlersInv, HandlersFit
  <2>2. /\ socket'[t].phase = "open" => socket[t].phase = "open" \/ (b.kind = "open" /\ b.sock = t)
        /\ socket'[t].smtp_handler = socket[t].smtp_handler
        /\ socket'[t].data_handler = socket[t].data_handler
    BY <1>2, <1>3 DEF Beside, Only, SameHandlers
  <2>3. OpensFirst(smsocket[t].context, socket'[t].phase = "open", t, Append(Tail(handlerQ), b))
    BY <1>3, <2>1, <2>2, OpensAppend
  <2> QED
    BY <1>1, <1>2, <2>2, <2>3 DEF HandlersInv, HandlersFit
<1>5. openStep = 0
  BY <1>1 DEF HandlersInv, OpenInTurn
<1> QED
  BY <1>1, <1>4, <1>5 DEF HandlersInv, OpenInTurn

\* A step of libEmailz on connection u.
LibStep(u) == Connect(u) \/ Client(u) \/ Receive(u) \/ Work(u)

\* and a step of libEmailz keep the handlers in order;
LEMMA LibHandlers ==
  ASSUME SessionInv, HandlersInv, NEW u \in Socket, LibStep(u)
  PROVE  HandlersInv'
<1>0. SessionTypeOK /\ OrderInv /\ handlerQ \in Seq(Block)
  BY DEF SessionInv, OrderInv, SessionTypeOK
<1>1. UNCHANGED <<appVars, openStep>>
  BY DEF LibStep, Connect, Client, Receive, Work
<1>2. CASE Connect(u)
  <2>1. /\ Beside(u) /\ socket'[u].phase = "queued"
        /\ handlerQ' = Append(handlerQ, B("accept", u, NoLine))
    BY <1>0, <1>2, ConnectEffect DEF Connect
  <2>2. Dispatches(u)
    BY <2>1, BlockType, BFields DEF Dispatches
  <2> QED
    BY <1>0, <1>1, <2>1, <2>2, DispatchHandlers DEF Beside
<1>3. CASE Client(u)
  <2>1. UNCHANGED <<socket, handlerQ>>
    BY <1>0, <1>3, ClientEffect DEF Client
  <2> QED
    BY <1>1, <2>1 DEF HandlersInv, HandlersFit, OpenInTurn, appVars
<1>4. CASE Arrival(u) \/ ReadReturns(u) \/ ByeCompletes(u)
  <2>1. Beside(u) /\ handlerQ' = handlerQ
    BY <1>0, <1>4, StopEffect, ReadPlainEffect, ReadSecureEffect DEF Arrival
  <2>2. socket[u].phase = "open"
    BY <1>0, <1>4 DEF OrderInv, Arrival, ReadPlain, HandshakeFails, ReadSecure,
                ReadTimeout, WriteFails, ReadReturns, ByeCompletes, Readable
  <2> QED
    BY <1>0, <1>1, <2>1, <2>2, DispatchHandlers DEF Beside, Dispatches
<1>5. CASE HandleLine(u)
  <2>1. TakesLine(u) /\ socket[u].phase = "open"
    BY <1>0, <1>5, DataEndEffect, DataLineEffect, NoCommandEffect, CommandEffect
       DEF HandleLine, TakesLine, InLoop, OrderInv
  <2>2. Dispatches(u)
    BY <1>0, <1>5, <2>1, LineCallback DEF Callback, Dispatches
  <2> QED
    BY <1>0, <1>1, <2>1, <2>2, DispatchHandlers DEF TakesLine
<1>6. CASE Cleanup(u)
  <2>1. /\ Beside(u) /\ socket'[u].phase = "freed"
        /\ handlerQ' = Append(handlerQ, B("close", u, NoLine))
    BY <1>0, <1>6, CleanupEffect
  <2>2. Dispatches(u)
    BY <2>1, BlockType, BFields DEF Dispatches
  <2> QED
    BY <1>0, <1>1, <2>1, <2>2, DispatchHandlers DEF Beside
<1> QED
  BY <1>2, <1>3, <1>4, <1>5, <1>6 DEF LibStep, Receive, Work, Progress, Handling

\* every step does.
LEMMA NextHandlers ==
  ASSUME TypeOK, SessionInv, HandlersInv, [Next]_vars, ~crashed'
  PROVE  HandlersInv'
<1>1. CASE UNCHANGED vars
  BY <1>1 DEF vars, HandlersInv, HandlersFit, OpenInTurn
<1>2. CASE Next
  <2>1. PICK u \in Socket : LibStep(u) \/ RunBlock(u)
    BY <1>2 DEF Next, LibStep
  <2>2. CASE LibStep(u)
    BY <2>2, LibHandlers
  <2>3. CASE RunAccept(u)
    BY <2>3, AcceptHandlers
  <2>4. CASE RunOpen(u) /\ openStep # 2
    BY <2>4, InstallHandlers
  <2>5. CASE Ends(u)
    BY <2>5, EndsHandlers
  <2> QED
    BY <2>1, <2>2, <2>3, <2>4, <2>5 DEF RunBlock, Ends
<1> QED
  BY <1>1, <1>2

-------------------------------------------------------------------------------
(***************************************************************************)
(* The dialogue.  M[i] is the client's mode when the first i of the lines   *)
(* pending have been answered; each line is in order for the mode before    *)
(* it.                                                                     *)
(***************************************************************************)
Modes == {"idle", "mail", "rcpt", "data"}

Talks(p, mode, M) ==
  /\ M \in [Nat -> Modes]
  /\ M[0] = mode
  /\ \A i \in 1..Len(p) : InOrder(M[i - 1], p[i]) /\ M[i] = ModeAfter(M[i - 1], p[i])

\* mode is the client's mode as far as the session has answered it.
Dialogue(s, mode) ==
  /\ mode \in Modes
  /\ Polite =>
       /\ (mode = "data") <=> (socket[s].state = "DATA")
       /\ mode \in {"rcpt", "data"} => txn[s].rcpt # <<>>
       /\ OpenFirst /\ ~socket[s].data_handler => Pending(s) = <<>> /\ mode = "idle"
       /\ \E M : /\ Talks(Pending(s), mode, M)
                 /\ ~socket[s].stop => M[Len(Pending(s))] = peer[s].mode

\* An answer leads to a mode.
LEMMA ModeType ==
  ASSUME NEW mode \in Modes, NEW line
  PROVE  ModeAfter(mode, line) \in Modes
BY DEF Modes, ModeAfter

\* The first line is answered.
LEMMA TalksFront ==
  ASSUME NEW p \in Seq(Line), p # <<>>, NEW mode, NEW M, Talks(p, mode, M)
  PROVE  /\ InOrder(mode, Head(p))
         /\ \E N : /\ Talks(Tail(p), ModeAfter(mode, Head(p)), N)
                   /\ N[Len(Tail(p))] = M[Len(p)]
<1> DEFINE n == Len(p)
           r == Tail(p)
           N == [i \in Nat |-> M[i + 1]]
<1>1. /\ n \in Nat \ {0} /\ Len(r) = n - 1 /\ Head(p) = p[1]
      /\ \A i \in 1..n - 1 : r[i] = p[i + 1]
  OBVIOUS
<1> HIDE DEF r
<1>2. M \in [Nat -> Modes] /\ M[0] = mode
  BY DEF Talks
<1>3. \A i \in Nat : i + 1 \in Nat
  OBVIOUS
<1>4. N \in [Nat -> Modes] /\ \A i \in Nat : N[i] = M[i + 1]
  BY <1>2, <1>3
<1> HIDE DEF N
<1>5. 1 \in 1..n /\ 1 - 1 = 0 /\ 0 \in Nat /\ 0 + 1 = 1 /\ n - 1 \in Nat /\ (n - 1) + 1 = n
  BY <1>1
<1>6. InOrder(mode, p[1]) /\ M[1] = ModeAfter(mode, p[1])
  BY <1>2, <1>5 DEF Talks
<1>7. ASSUME NEW i \in 1..n - 1
      PROVE  InOrder(N[i - 1], r[i]) /\ N[i] = ModeAfter(N[i - 1], r[i])
  <2>1. i \in Nat /\ i - 1 \in Nat /\ (i - 1) + 1 = i /\ i + 1 \in 1..n /\ (i + 1) - 1 = i
    BY <1>1
  <2>2. InOrder(M[(i + 1) - 1], p[i + 1]) /\ M[i + 1] = ModeAfter(M[(i + 1) - 1], p[i + 1])
    BY <2>1 DEF Talks
  <2>3. N[i - 1] = M[i] /\ N[i] = M[i + 1] /\ r[i] = p[i + 1]
    BY <1>1, <1>4, <2>1
  <2> QED
    BY <2>1, <2>2, <2>3
<1>8. N[0] = ModeAfter(mode, p[1]) /\ N[n - 1] = M[n]
  BY <1>4, <1>5, <1>6
<1>9. Talks(r, ModeAfter(mode, p[1]), N)
  BY <1>1, <1>4, <1>7, <1>8 DEF Talks
<1> QED
  BY <1>1, <1>6, <1>8, <1>9 DEF r

\* The client sends one more.
LEMMA TalksBack ==
  ASSUME NEW p \in Seq(Line), NEW line \in Line, NEW mode, NEW M, Talks(p, mode, M),
         InOrder(M[Len(p)], line)
  PROVE  \E N : /\ Talks(Append(p, line), mode, N)
                /\ N[Len(Append(p, line))] = ModeAfter(M[Len(p)], line)
<1> DEFINE n == Len(p)
           r == Append(p, line)
           m == ModeAfter(M[n], line)
           N == [M EXCEPT ![n + 1] = m]
<1>1. /\ n \in Nat /\ Len(r) = n + 1 /\ r[n + 1] = line
      /\ \A i \in 1..n : r[i] = p[i]
  OBVIOUS
<1>2. M \in [Nat -> Modes] /\ M[0] = mode
  BY DEF Talks
<1>3. m \in Modes
  BY <1>1, <1>2, ModeType
<1> HIDE DEF r, m
<1>4. N \in [Nat -> Modes] /\ N[n + 1] = m /\ \A i \in 0..n : N[i] = M[i]
  BY <1>1, <1>2, <1>3
<1> HIDE DEF N
<1>5. ASSUME NEW i \in 1..n + 1
      PROVE  InOrder(N[i - 1], r[i]) /\ N[i] = ModeAfter(N[i - 1], r[i])
  <2>1. CASE i = n + 1
    <3>1. i - 1 = n /\ n \in 0..n
      BY <1>1, <2>1
    <3> QED
      BY <1>1, <1>4, <2>1, <3>1 DEF m
  <2>2. CASE i # n + 1
    <3>1. i \in 1..n /\ i \in 0..n /\ i - 1 \in 0..n
      BY <1>1, <2>2
    <3> QED
      BY <1>1, <1>4, <3>1 DEF Talks
  <2> QED
    BY <2>1, <2>2
<1>6. 0 \in 0..n
  BY <1>1
<1>7. Talks(r, mode, N) /\ N[Len(r)] = m
  BY <1>1, <1>2, <1>4, <1>5, <1>6 DEF Talks
<1> QED
  BY <1>7 DEF r, m

\* The lines behind the first ones may be lost.
LEMMA TalksPrefix ==
  ASSUME NEW p \in Seq(Line), NEW w \in Seq(Line), NEW mode, NEW M, Talks(p \o w, mode, M)
  PROVE  Talks(p, mode, M)
<1>1. /\ \A i \in 1..Len(p) : i \in 1..Len(p \o w) /\ (p \o w)[i] = p[i]
  OBVIOUS
<1> QED
  BY <1>1 DEF Talks

\* The lines of indata are in front of those on the wire.
LEMMA PendingFacts ==
  ASSUME NEW p \in Seq(Line), NEW w \in Seq(Line)
  PROVE  /\ p \o w \in Seq(Line)
         /\ p # <<>> => p \o w # <<>> /\ Head(p \o w) = Head(p) /\ Tail(p \o w) = Tail(p) \o w
         /\ \A line \in Line : p \o Append(w, line) = Append(p \o w, line)
         /\ p \o <<>> = p
         /\ p \o w = <<>> => p = <<>>
OBVIOUS

-------------------------------------------------------------------------------
View(s, mode) ==
  [stored |-> Stored(s), due |-> due[s], txn |-> txn[s],
   smtp |-> socket[s].smtp_handler, data |-> socket[s].data_handler,
   mode |-> mode, cut |-> CutOff(s)]

FlowAt(s) ==
  \E mode, E, D : /\ Dialogue(s, mode)
                  /\ Flow(s, handlerQ, E, D, View(s, mode))
                  /\ E[0] = MailOf(s)

\* A view is one of Views.
LEMMA ViewType ==
  ASSUME TypeOK, NEW s \in Socket, NEW mode \in Modes
  PROVE  /\ View(s, mode) \in Views
         /\ CutOff(s) \in BOOLEAN
<1>1. Stored(s) \in Seq(Mail)
  BY StoredMails DEF TypeOK, Stored, MailsOf
<1>2. socket[s].smtp_handler \in BOOLEAN /\ socket[s].data_handler \in BOOLEAN
  <2>1. socket[s] \in SocketState
    BY DEF TypeOK
  <2> QED
    BY <2>1, Zenon DEF SocketState
<1>3. CutOff(s) \in BOOLEAN
  BY DEF CutOff
<1>4. due[s] \in Seq(Mail) /\ txn[s] \in Mail
  BY DEF TypeOK
<1> QED
  BY <1>1, <1>2, <1>3, <1>4, Zenon DEF View, Views, Modes

\* The fields of a view.
LEMMA ViewFields ==
  ASSUME NEW s, NEW mode
  PROVE  LET v == View(s, mode) IN
         /\ v.stored = Stored(s) /\ v.due = due[s] /\ v.txn = txn[s]
         /\ v.smtp = socket[s].smtp_handler /\ v.data = socket[s].data_handler
         /\ v.mode = mode /\ v.cut = CutOff(s)
BY Zenon DEF View

-------------------------------------------------------------------------------
\* A block that does nothing to the mails of s.
Neutral(s, b) == b.sock # s \/ b.kind \in {"accept", "open", "close"}

\* Such a block queued changes nothing of the flow.
LEMMA FlowPass ==
  ASSUME NEW s, NEW q \in Seq(Block), NEW b \in Block, Neutral(s, b), NEW E, NEW D,
         NEW v \in Views, Flow(s, q, E, D, v)
  PROVE  \E E2, D2 : /\ Flow(s, Append(q, b), E2, D2, v)
                     /\ E2[0] = E[0]
<1>1. ~IsDone(s, b) /\ After(s, E[Len(q)], b) = E[Len(q)]
  BY DEF Neutral, IsDone, After
<1>2. Len(q) \in 0..Len(q)
  <2>1. Len(q) \in Nat
    OBVIOUS
  <2> QED
    BY <2>1
<1>3. /\ ~v.smtp => E[Len(q)] = NoMail
      /\ ~v.data => (E[Len(q)] # NoMail => E[Len(q)].body = <<>>)
  BY <1>2 DEF Flow, Early, Nothing
<1>4. /\ Builds(E[Len(q)], v.txn)
      /\ Live(v) => IF E[Len(q)] = NoMail
                    THEN ~OpenFirst /\ Nothing(E, Len(q), v.stored)
                    ELSE Matches(E[Len(q)], v.txn)
  BY DEF Flow, Grows
<1> QED
  BY <1>1, <1>3, <1>4, FlowAppend

SameView(t) ==
  /\ Stored(t)' = Stored(t) /\ due'[t] = due[t] /\ txn'[t] = txn[t]
  /\ socket'[t].smtp_handler = socket[t].smtp_handler
  /\ socket'[t].data_handler = socket[t].data_handler
  /\ CutOff(t)' = CutOff(t)

SameTalk(t) ==
  /\ socket'[t].state = socket[t].state /\ txn'[t] = txn[t]
  /\ socket[t].data_handler => socket'[t].data_handler
  /\ socket[t].stop => socket'[t].stop
  /\ Pending(t)' = Pending(t)
  /\ peer'[t].mode = peer[t].mode

\* Nothing of the dialogue changed,
LEMMA TalkStays ==
  ASSUME NEW t, NEW mode, SameTalk(t), Dialogue(t, mode)
  PROVE  Dialogue(t, mode)'
BY DEF SameTalk, Dialogue

\* nothing of the view.
LEMMA ViewStays ==
  ASSUME NEW t, NEW mode, SameView(t)
  PROVE  View(t, mode)' = View(t, mode)
BY DEF SameView, View

\* A step that changes nothing of the mails of t.
LEMMA FlowPasses ==
  ASSUME TypeOK, NEW t \in Socket, FlowAt(t), SameView(t), MailOf(t)' = MailOf(t),
         \A mode : Dialogue(t, mode) => Dialogue(t, mode)',
         \/ handlerQ' = handlerQ
         \/ \E b \in Block : Neutral(t, b) /\ handlerQ' = Append(handlerQ, b)
  PROVE  FlowAt(t)'
<1>1. PICK mode, E, D : /\ Dialogue(t, mode)
                        /\ Flow(t, handlerQ, E, D, View(t, mode))
                        /\ E[0] = MailOf(t)
  BY DEF FlowAt
<1>2. View(t, mode)' = View(t, mode) /\ View(t, mode) \in Views /\ Dialogue(t, mode)'
  BY <1>1, ViewStays, ViewType DEF Dialogue
<1>3. CASE handlerQ' = handlerQ
  <2>1. Flow(t, handlerQ, E, D, View(t, mode))'
    BY <1>1, <1>2, <1>3
  <2> QED
    BY <1>1, <1>2, <2>1 DEF FlowAt
<1>4. ASSUME NEW b \in Block, Neutral(t, b), handlerQ' = Append(handlerQ, b)
      PROVE  FlowAt(t)'
  <2>1. handlerQ \in Seq(Block)
    BY DEF TypeOK
  <2>2. PICK E2, D2 : Flow(t, Append(handlerQ, b), E2, D2, View(t, mode)) /\ E2[0] = E[0]
    BY <1>1, <1>2, <1>4, <2>1, FlowPass
  <2>3. Flow(t, handlerQ', E2, D2, View(t, mode)') /\ E2[0] = MailOf(t)'
    BY <1>1, <1>2, <1>4, <2>2
  <2> QED
    BY <1>2, <2>3 DEF FlowAt
<1> QED
  BY <1>3, <1>4

\* A step of libEmailz on another connection.
LEMMA FlowOther ==
  ASSUME TypeOK, NEW u \in Socket, NEW t \in Socket, t # u, FlowAt(t),
         Only(u), UNCHANGED appVars, Dispatches(u)
  PROVE  FlowAt(t)'
<1>1. socket'[t] = socket[t] /\ peer'[t] = peer[t] /\ txn'[t] = txn[t] /\ due'[t] = due[t]
  BY DEF Only
<1>2. smsocket' = smsocket /\ mDb' = mDb
  BY DEF appVars
<1>3. MailOf(t)' = MailOf(t) /\ Stored(t)' = Stored(t)
  BY <1>2 DEF MailOf, Stored
<1>4. SameView(t) /\ SameTalk(t)
  BY <1>1, <1>3 DEF SameView, SameTalk, CutOff, Pending
<1>5. \/ handlerQ' = handlerQ
      \/ \E b \in Block : Neutral(t, b) /\ handlerQ' = Append(handlerQ, b)
  BY DEF Dispatches, Neutral
<1> QED
  BY <1>3, <1>4, <1>5, TalkStays, FlowPasses

-------------------------------------------------------------------------------
\* A block ends.
LEMMA EndsFlow ==
  ASSUME TypeOK, HandlersInv, NEW u \in Socket, Ends(u), ~crashed', NEW t \in Socket, FlowAt(t)
  PROVE  FlowAt(t)'
<1> DEFINE b == Head(handlerQ)
<1>1. /\ handlerQ # <<>> /\ handlerQ' = Tail(handlerQ)
      /\ UNCHANGED <<socket, peer, txn, due>>
      /\ Ran(t, b)
  BY BlockRan
<1>2. handlerQ \in Seq(Block) /\ handlerQ[1] = b
  BY <1>1, TailFacts DEF TypeOK
<1>3. PICK mode, E, D : /\ Dialogue(t, mode)
                        /\ Flow(t, handlerQ, E, D, View(t, mode))
                        /\ E[0] = MailOf(t)
  BY DEF FlowAt
<1> HIDE DEF b
<1>4. Dialogue(t, mode)'
  BY <1>1, <1>3 DEF Dialogue, Pending
<1> DEFINE v == View(t, mode)
           w == View(t, mode)'
<1>5. v \in Views
  BY <1>3, ViewType DEF Dialogue
<1>6. v.stored = Stored(t) /\ w.stored = Stored(t)'
  BY DEF View
<1>7. /\ w.due = v.due /\ w.txn = v.txn /\ w.smtp = v.smtp /\ w.data = v.data
      /\ w.mode = v.mode /\ w.cut = v.cut
  BY <1>1 DEF View, CutOff
<1>8. w.stored = IF IsDone(t, handlerQ[1]) /\ E[0] # NoMail THEN Append(v.stored, E[0]) ELSE v.stored
  BY <1>1, <1>2, <1>3, <1>6 DEF Ran
<1> HIDE DEF v, w
<1>9. Flow(t, handlerQ, E, D, v)
  BY <1>3 DEF v
<1>10. PICK E2, D2 : Flow(t, Tail(handlerQ), E2, D2, w) /\ E2[0] = After(t, E[0], handlerQ[1])
  BY <1>1, <1>2, <1>5, <1>7, <1>8, <1>9, FlowTail
<1>11. E2[0] = MailOf(t)'
  BY <1>1, <1>2, <1>3, <1>10 DEF Ran
<1>12. Flow(t, handlerQ', E2, D2, View(t, mode)')
  BY <1>1, <1>10 DEF w
<1> QED
  BY <1>4, <1>11, <1>12 DEF FlowAt

\* The accept block becomes the OPEN block.
LEMMA AcceptFlow ==
  ASSUME TypeOK, SessionInv, NEW u \in Socket, RunAccept(u), NEW t \in Socket, FlowAt(t)
  PROVE  FlowAt(t)'
<1> DEFINE b == B("open", u, NoLine)
<1>1. /\ handlerQ # <<>> /\ Head(handlerQ).kind = "accept" /\ HandleAccept(u)
      /\ UNCHANGED appVars
  BY DEF RunAccept, Running
<1>2. /\ Beside(u) /\ handlerQ' = Append(Tail(handlerQ), b)
      /\ socket'[u].indata = socket[u].indata /\ peer' = peer /\ ~socket'[u].stop
      /\ ~socket[u].stop
  <2>1. ~socket[u].stop
    <3>1. socket[u] = [Fresh EXCEPT !.phase = socket[u].phase]
      BY <1>1 DEF HandleAccept, SessionInv, SessionFits, Untouched
    <3> QED
      BY <3>1 DEF Fresh
  <2> QED
    BY <1>1, <2>1, AcceptEffect
<1>3. /\ b \in Block /\ Neutral(t, b)
      /\ handlerQ \in Seq(Block) /\ Tail(handlerQ) \in Seq(Block) /\ handlerQ[1] = Head(handlerQ)
  BY <1>1, BlockType, BFields, TailFacts DEF TypeOK, Neutral
<1> HIDE DEF b
<1>4. PICK mode, E, D : /\ Dialogue(t, mode)
                        /\ Flow(t, handlerQ, E, D, View(t, mode))
                        /\ E[0] = MailOf(t)
  BY DEF FlowAt
<1>5. MailOf(t)' = MailOf(t) /\ Stored(t)' = Stored(t)
  BY <1>1 DEF appVars, MailOf, Stored
<1>6. SameView(t) /\ SameTalk(t)
  <2>1. CASE t = u
    BY <1>2, <1>5, <2>1 DEF Beside, SameHandlers, SameView, SameTalk, CutOff, Pending
  <2>2. CASE t # u
    BY <1>2, <1>5, <2>2 DEF Beside, Only, SameView, SameTalk, CutOff, Pending
  <2> QED
    BY <2>1, <2>2
<1>7. View(t, mode)' = View(t, mode) /\ Dialogue(t, mode)' /\ View(t, mode) \in Views
  BY <1>4, <1>6, ViewStays, TalkStays, ViewType DEF Dialogue
<1>8. ~IsDone(t, handlerQ[1]) /\ After(t, E[0], handlerQ[1]) = E[0]
  BY <1>1, <1>3 DEF IsDone, After
<1> DEFINE v == View(t, mode)
<1> HIDE DEF v
<1>9. v \in Views /\ Flow(t, handlerQ, E, D, v)
  BY <1>4, <1>7 DEF v
<1>10. PICK F, G : Flow(t, Tail(handlerQ), F, G, v) /\ F[0] = E[0]
  BY <1>1, <1>3, <1>8, <1>9, FlowTail
<1>11. PICK E2, D2 : Flow(t, Append(Tail(handlerQ), b), E2, D2, v) /\ E2[0] = F[0]
  <2> DEFINE q == Tail(handlerQ)
  <2>1. b \in Block /\ Neutral(t, b) /\ q \in Seq(Block)
    BY <1>3
  <2>2. v \in Views /\ Flow(t, q, F, G, v)
    BY <1>9, <1>10
  <2> HIDE DEF q
  <2>3. \E E2, D2 : Flow(t, Append(q, b), E2, D2, v) /\ E2[0] = F[0]
    BY <2>1, <2>2, FlowPass
  <2> QED
    BY <2>3 DEF q
<1>12. Flow(t, handlerQ', E2, D2, View(t, mode)') /\ E2[0] = MailOf(t)'
  BY <1>2, <1>4, <1>5, <1>7, <1>10, <1>11 DEF v
<1> QED
  BY <1>7, <1>12 DEF FlowAt

\* A handler is installed.
LEMMA InstallFlow ==
  ASSUME TypeOK, NEW u \in Socket, RunOpen(u), openStep # 2, NEW t \in Socket, FlowAt(t)
  PROVE  FlowAt(t)'
<1>0. SessionTypeOK /\ openStep \in 0..2
  BY TypeSplit
<1>1. /\ handlerQ' = handlerQ /\ UNCHANGED appVars
      /\ SetSmtpHandler(u) \/ SetDataHandler(u)
  BY <1>0 DEF RunOpen
<1>2. /\ Only(u) /\ peer' = peer /\ txn' = txn /\ due' = due
      /\ socket'[u].state = socket[u].state
      /\ socket'[u].email_size = socket[u].email_size
      /\ socket'[u].indata = socket[u].indata
      /\ socket'[u].stop = socket[u].stop
      /\ socket[u].smtp_handler => socket'[u].smtp_handler
      /\ socket[u].data_handler => socket'[u].data_handler
  BY <1>0, <1>1, SmtpInstall, DataInstall
<1>3. PICK mode, E, D : /\ Dialogue(t, mode)
                        /\ Flow(t, handlerQ, E, D, View(t, mode))
                        /\ E[0] = MailOf(t)
  BY DEF FlowAt
<1>4. MailOf(t)' = MailOf(t) /\ Stored(t)' = Stored(t)
  BY <1>1 DEF appVars, MailOf, Stored
<1>5. /\ socket'[t].state = socket[t].state
      /\ socket'[t].email_size = socket[t].email_size
      /\ socket'[t].indata = socket[t].indata
      /\ socket'[t].stop = socket[t].stop
      /\ socket[t].smtp_handler => socket'[t].smtp_handler
      /\ socket[t].data_handler => socket'[t].data_handler
  <2>1. CASE t = u
    BY <1>2, <2>1
  <2>2. CASE t # u
    BY <1>2, <2>2 DEF Only
  <2> QED
    BY <2>1, <2>2
<1>6. Dialogue(t, mode)'
  <2>1. SameTalk(t)
    BY <1>2, <1>5 DEF SameTalk, Pending
  <2> QED
    BY <1>3, <2>1, TalkStays
<1> DEFINE v == View(t, mode)
           w == View(t, mode)'
<1>7. /\ w.stored = v.stored /\ w.due = v.due /\ w.txn = v.txn
      /\ ~w.smtp => ~v.smtp
      /\ ~w.data => ~v.data
      /\ w.mode = v.mode /\ w.cut = v.cut
  BY <1>2, <1>4, <1>5 DEF View, CutOff
<1> HIDE DEF v, w
<1>8. Flow(t, handlerQ, E, D, v)
  BY <1>3 DEF v
<1>9. Grows(handlerQ, E, v) /\ (Live(w) => Live(v))
  BY <1>7, <1>8 DEF Flow, Live
<1>10. Builds(E[Len(handlerQ)], w.txn)
  BY <1>7, <1>9 DEF Grows
<1>11. Live(w) => IF E[Len(handlerQ)] = NoMail
                  THEN ~OpenFirst /\ Nothing(E, Len(handlerQ), v.stored)
                  ELSE Matches(E[Len(handlerQ)], w.txn)
  BY <1>7, <1>9 DEF Grows
<1>12. handlerQ \in Seq(Block)
  BY DEF TypeOK
<1>13. Flow(t, handlerQ, E, D, w)
  BY <1>7, <1>8, <1>10, <1>11, <1>12, FlowStay
<1>14. Flow(t, handlerQ', E, D, View(t, mode)') /\ E[0] = MailOf(t)'
  BY <1>1, <1>3, <1>4, <1>13 DEF w
<1> QED
  BY <1>6, <1>14 DEF FlowAt

-------------------------------------------------------------------------------
(***************************************************************************)
(* The steps of libEmailz on the connection itself.                        *)
(***************************************************************************)
LEMMA PendingTypes ==
  ASSUME TypeOK, NEW s \in Socket
  PROVE  /\ socket[s] \in SocketState
         /\ socket[s].indata \in Seq(Line) /\ peer[s].wire \in Seq(Line)
         /\ Pending(s) \in Seq(Line)
         /\ handlerQ \in Seq(Block)
         /\ txn[s] \in Mail
<1>1. socket[s] \in SocketState /\ peer[s] \in PeerState
  BY DEF TypeOK
<1>2. socket[s].indata \in Seq(Line) /\ peer[s].wire \in Seq(Line)
  BY <1>1, FieldTypes DEF PeerState
<1> QED
  BY <1>1, <1>2, PendingFacts DEF TypeOK, Pending

\* Beside the data segment.
LEMMA BesideFlow ==
  ASSUME TypeOK, NEW s \in Socket, FlowAt(s), Beside(s), UNCHANGED appVars,
         \A mode : Dialogue(s, mode) => Dialogue(s, mode)',
         \/ handlerQ' = handlerQ
         \/ \E b \in Block : Neutral(s, b) /\ handlerQ' = Append(handlerQ, b)
  PROVE  FlowAt(s)'
<1>1. MailOf(s)' = MailOf(s) /\ Stored(s)' = Stored(s)
  BY DEF appVars, MailOf, Stored
<1>2. SameView(s)
  BY <1>1 DEF Beside, SameHandlers, SameView, CutOff
<1> QED
  BY <1>1, <1>2, FlowPasses

\* Lines are taken from the wire, or, with the socket stopped, lost with it.
LEMMA ReadTalk ==
  ASSUME TypeOK, NEW s \in Socket, Beside(s), NEW mode, Dialogue(s, mode), ~socket[s].stop,
         \/ socket'[s].indata = Pending(s)
         \/ socket'[s].indata = socket[s].indata /\ (peer[s].wire = <<>> \/ socket'[s].stop),
         peer'[s].wire = <<>>, peer'[s].mode = peer[s].mode
  PROVE  Dialogue(s, mode)'
<1>1. /\ socket[s].indata \in Seq(Line) /\ peer[s].wire \in Seq(Line)
      /\ Pending(s) \in Seq(Line)
  BY PendingTypes
<1>2. /\ socket'[s].state = socket[s].state /\ txn'[s] = txn[s]
      /\ socket'[s].data_handler = socket[s].data_handler
  BY DEF Beside, SameHandlers
<1>3. Pending(s)' = socket'[s].indata
  <2>1. socket'[s].indata \in Seq(Line)
    BY <1>1
  <2> QED
    BY <2>1, PendingFacts DEF Pending
<1>4. CASE socket'[s].indata = Pending(s) \/ peer[s].wire = <<>>
  <2>1. peer[s].wire = <<>> => Pending(s) = socket[s].indata
    BY <1>1, PendingFacts DEF Pending
  <2>2. Pending(s)' = Pending(s)
    BY <1>3, <1>4, <2>1
  <2> QED
    BY <1>2, <2>2, TalkStays DEF SameTalk
<1>5. CASE socket'[s].indata = socket[s].indata /\ socket'[s].stop
  <2>1. Pending(s) = <<>> => Pending(s)' = <<>>
    BY <1>1, <1>3, <1>5, PendingFacts DEF Pending
  <2>2. \A M : Talks(Pending(s), mode, M) => Talks(socket[s].indata, mode, M)
    BY <1>1, TalksPrefix DEF Pending
  <2>3. \A M : Talks(Pending(s), mode, M) => Talks(Pending(s)', mode, M)
    BY <1>3, <1>5, <2>2
  <2> QED
    BY <1>2, <1>5, <2>1, <2>3 DEF Dialogue
<1> QED
  BY <1>4, <1>5

\* The client sends a line.
LEMMA ClientTalk ==
  ASSUME TypeOK, NEW s \in Socket, ClientStep(s), NEW mode, Dialogue(s, mode)
  PROVE  Dialogue(s, mode)'
<1>0. SessionTypeOK
  BY TypeSplit
<1>1. PICK line \in Line :
        /\ Polite => InOrder(peer[s].mode, line)
        /\ peer'[s].mode = ModeAfter(peer[s].mode, line)
        /\ peer'[s].wire = Append(peer[s].wire, line)
  BY <1>0, ClientEffect
<1>2. /\ UNCHANGED <<socket, txn>> /\ ~socket[s].stop
      /\ OpenFirst => socket[s].data_handler
  BY <1>0, ClientEffect
<1>3. Pending(s)' = Append(Pending(s), line) /\ Pending(s) \in Seq(Line)
  <2>1. /\ socket[s].indata \in Seq(Line) /\ peer[s].wire \in Seq(Line)
        /\ Pending(s) \in Seq(Line)
    BY PendingTypes
  <2>2. Pending(s)' = socket[s].indata \o Append(peer[s].wire, line)
    BY <1>1, <1>2 DEF Pending
  <2>3. \A p, w \in Seq(Line) : p \o Append(w, line) = Append(p \o w, line)
    BY <1>1, PendingFacts
  <2>4. socket[s].indata \o Append(peer[s].wire, line) = Append(socket[s].indata \o peer[s].wire, line)
    BY <2>1, <2>3
  <2> QED
    BY <2>1, <2>2, <2>4 DEF Pending
<1>4. ASSUME NEW M, Talks(Pending(s), mode, M), M[Len(Pending(s))] = peer[s].mode, Polite
      PROVE  \E N : /\ Talks(Pending(s)', mode, N)
                    /\ N[Len(Pending(s)')] = peer'[s].mode
  <2>1. PICK N : /\ Talks(Append(Pending(s), line), mode, N)
                 /\ N[Len(Append(Pending(s), line))] = ModeAfter(M[Len(Pending(s))], line)
    BY <1>1, <1>3, <1>4, TalksBack
  <2> QED
    BY <1>1, <1>3, <1>4, <2>1
<1> QED
  BY <1>2, <1>4 DEF Dialogue

\* A line is answered.
LEMMA LineTalk ==
  ASSUME TypeOK, NEW s \in Socket, TakesLine(s), NEW mode, Dialogue(s, mode),
         NEW line, line = Head(socket[s].indata),
         socket[s].stop => socket'[s].stop,
         Polite /\ InOrder(mode, line) =>
           /\ ModeAfter(mode, line) = "data" <=> socket'[s].state = "DATA"
           /\ ModeAfter(mode, line) \in {"rcpt", "data"} => txn'[s].rcpt # <<>>
  PROVE  /\ Dialogue(s, ModeAfter(mode, line))'
         /\ Polite => InOrder(mode, line)
         /\ Polite /\ OpenFirst => socket[s].data_handler
<1>1. /\ socket[s].indata \in Seq(Line) /\ peer[s].wire \in Seq(Line)
      /\ Pending(s) \in Seq(Line) /\ socket[s].indata # <<>>
      /\ socket'[s].indata = Tail(socket[s].indata) /\ peer' = peer
      /\ socket'[s].data_handler = socket[s].data_handler
  BY PendingTypes DEF TakesLine, InLoop, SameHandlers
<1>2. /\ Pending(s) # <<>> /\ Head(Pending(s)) = line
      /\ Pending(s)' = Tail(Pending(s))
  <2>1. Pending(s)' = Tail(socket[s].indata) \o peer[s].wire
    BY <1>1 DEF Pending
  <2> QED
    BY <1>1, <2>1, PendingFacts DEF Pending
<1>3. ASSUME Polite
      PROVE  \E M : /\ Talks(Pending(s), mode, M)
                    /\ ~socket[s].stop => M[Len(Pending(s))] = peer[s].mode
  BY <1>3 DEF Dialogue
<1>4. ASSUME NEW M, Talks(Pending(s), mode, M)
      PROVE  /\ InOrder(mode, line)
             /\ \E N : /\ Talks(Pending(s)', ModeAfter(mode, line), N)
                       /\ N[Len(Pending(s)')] = M[Len(Pending(s))]
  <2>1. /\ InOrder(mode, line)
        /\ \E N : /\ Talks(Tail(Pending(s)), ModeAfter(mode, line), N)
                  /\ N[Len(Tail(Pending(s)))] = M[Len(Pending(s))]
    BY <1>1, <1>2, <1>4, TalksFront
  <2> QED
    BY <1>2, <2>1
<1>5. Polite => InOrder(mode, line)
  BY <1>3, <1>4
<1>6. Polite /\ OpenFirst => socket[s].data_handler
  BY <1>2 DEF Dialogue
<1>7. Polite => \E N : /\ Talks(Pending(s)', ModeAfter(mode, line), N)
                       /\ ~socket'[s].stop => N[Len(Pending(s)')] = peer'[s].mode
  BY <1>1, <1>3, <1>4
<1>8. ModeAfter(mode, line) \in Modes
  BY ModeType DEF Dialogue
<1>9. Dialogue(s, ModeAfter(mode, line))'
  BY <1>1, <1>5, <1>6, <1>7, <1>8 DEF Dialogue
<1> QED
  BY <1>5, <1>6, <1>9

\* What is left of a body grows with it.
LEMMA SuffixAppend ==
  ASSUME NEW body \in Seq(Line), NEW whole \in Seq(Line), NEW line \in Line, Suffix(body, whole)
  PROVE  Suffix(Append(body, line), Append(whole, line))
<1> DEFINE n == Len(whole)
           p == Append(body, line)
           r == Append(whole, line)
<1>1. PICK k \in 1..n + 1 : body = SubSeq(whole, k, n)
  BY DEF Suffix
<1>2. n \in Nat /\ Len(r) = n + 1 /\ r \in Seq(Line) /\ r[n + 1] = line
      /\ \A i \in 1..n : r[i] = whole[i]
  OBVIOUS
<1>3. /\ Len(body) = n + 1 - k
      /\ \A i \in 1..n + 1 - k : body[i] = whole[k + i - 1]
  <2>1. k \in Nat /\ (k \in 1..n \/ k = n + 1)
    BY <1>2
  <2>2. CASE k \in 1..n
    BY <1>1, <1>2, <2>2
  <2>3. CASE k = n + 1
    <3>1. body = <<>> /\ n + 1 - k = 0
      BY <1>1, <1>2, <2>3, SubSeqEmpty
    <3> QED
      BY <3>1
  <2> QED
    BY <2>1, <2>2, <2>3
<1>4. /\ p \in Seq(Line) /\ Len(p) = Len(body) + 1 /\ p[Len(body) + 1] = line
      /\ \A i \in 1..Len(body) : p[i] = body[i]
  OBVIOUS
<1> DEFINE q == SubSeq(r, k, n + 1)
<1> HIDE DEF p, r
<1>5. q \in Seq(Line) /\ Len(q) = n + 2 - k /\ \A i \in 1..n + 2 - k : q[i] = r[k + i - 1]
  BY <1>1, <1>2
<1> HIDE DEF q
<1>6. Len(p) = n + 2 - k
  BY <1>1, <1>2, <1>3, <1>4
<1>7. \A i \in 1..n + 2 - k : p[i] = q[i]
  <2> SUFFICES ASSUME NEW i \in 1..n + 2 - k PROVE p[i] = q[i]
    OBVIOUS
  <2>1. CASE i = n + 2 - k
    <3>1. k + i - 1 = n + 1 /\ i = Len(body) + 1
      BY <1>1, <1>2, <1>3, <2>1
    <3> QED
      BY <1>2, <1>4, <1>5, <3>1
  <2>2. CASE i # n + 2 - k
    <3>0. n \in Nat /\ k \in Nat /\ k >= 1 /\ k <= n + 1 /\ i \in Nat /\ i >= 1 /\ i <= n + 2 - k
      BY <1>1, <1>2
    <3>1. i \in 1..n + 1 - k /\ k + i - 1 \in 1..n
      BY <2>2, <3>0
    <3> QED
      BY <1>2, <1>3, <1>4, <1>5, <3>1
  <2> QED
    BY <2>1, <2>2
<1>8. p = q
  <2>1. Len(p) = Len(q) /\ \A i \in 1..Len(p) : p[i] = q[i]
    BY <1>5, <1>6, <1>7
  <2> QED
    BY <1>4, <1>5, <2>1, SeqEqual
<1>9. k \in 1..Len(r) + 1
  BY <1>1, <1>2
<1> QED
  BY <1>2, <1>8, <1>9 DEF Suffix, p, q, r

-------------------------------------------------------------------------------
(***************************************************************************)
(* A line is answered: what its callback will do to the mail under          *)
(* construction is what the answer did to the transaction.                 *)
(***************************************************************************)
\* The connection as a line finds it.
AtLine(s, mode, line, E, D) ==
  /\ TakesLine(s) /\ UNCHANGED appVars
  /\ line \in Line /\ line = Head(socket[s].indata)
  /\ Dialogue(s, mode)
  /\ Flow(s, handlerQ, E, D, View(s, mode))
  /\ E[0] = MailOf(s)

\* v and w are its view before and after.
LineChange(s, mode, next, v, w) ==
  /\ v = View(s, mode) /\ w = View(s, next)'
  /\ w.stored = v.stored /\ w.smtp = v.smtp /\ w.data = v.data
  /\ v.mode = mode /\ w.mode = next
  /\ v.txn = txn[s] /\ w.txn = txn'[s] /\ v.due = due[s] /\ w.due = due'[s]
  /\ v.smtp = socket[s].smtp_handler /\ v.data = socket[s].data_handler
  /\ v.cut = FALSE /\ w.cut = CutOff(s)'

\* There is a view before and one after.
LEMMA LineViews ==
  ASSUME TypeOK, TypeOK', SessionInv, NEW s \in Socket, NEW mode, NEW line, NEW E, NEW D,
         NEW next \in Modes, AtLine(s, mode, line, E, D)
  PROVE  /\ \E v \in Views, w \in Views : LineChange(s, mode, next, v, w)
         /\ MailOf(s)' = MailOf(s)
         /\ handlerQ \in Seq(Block) /\ txn[s] \in Mail
<1>1. MailOf(s)' = MailOf(s) /\ Stored(s)' = Stored(s)
  BY DEF AtLine, appVars, MailOf, Stored
<1>2. View(s, mode) \in Views /\ handlerQ \in Seq(Block) /\ txn[s] \in Mail
  BY ViewType DEF AtLine, Dialogue, TypeOK
<1>3. /\ socket'[s].smtp_handler = socket[s].smtp_handler
      /\ socket'[s].data_handler = socket[s].data_handler
  BY DEF AtLine, TakesLine, SameHandlers
<1>4. CutOff(s) = FALSE
  <2>1. ~CutOff(s)
    BY DEF AtLine, TakesLine, InLoop, SessionInv, SessionFits
  <2> QED
    BY <2>1 DEF CutOff
<1>5. txn'[s] \in Mail /\ due'[s] \in Seq(Mail) /\ CutOff(s)' \in BOOLEAN
  BY DEF TypeOK, CutOff
<1>6. /\ Stored(s) \in Seq(Mail)
      /\ socket[s].smtp_handler \in BOOLEAN /\ socket[s].data_handler \in BOOLEAN
  BY <1>2, Zenon DEF View, Views
<1>7. View(s, next)' \in Views
  BY <1>1, <1>3, <1>5, <1>6, Zenon DEF View, Views, Modes
<1>8. LineChange(s, mode, next, View(s, mode), View(s, next)')
  BY <1>1, <1>3, <1>4, Zenon DEF LineChange, View
<1> QED
  BY <1>1, <1>2, <1>7, <1>8

\* The pieces put together.
LEMMA FlowFrom ==
  ASSUME NEW s, NEW next, Dialogue(s, next)', MailOf(s)' = MailOf(s),
         \E E, D : Flow(s, handlerQ', E, D, View(s, next)') /\ E[0] = MailOf(s)
  PROVE  FlowAt(s)'
BY DEF FlowAt

\* The mail handed over at the end of the data segment, or at the limit.
LEMMA HandedOver ==
  ASSUME TypeOK, TypeOK', SessionInv, NEW s \in Socket, NEW mode, NEW line, NEW E, NEW D,
         NEW next \in Modes, NEW b \in Block,
         AtLine(s, mode, line, E, D), Dialogue(s, next)',
         Polite /\ OpenFirst => socket[s].data_handler,
         socket[s].state = "DATA", IsDone(s, b),
         handlerQ' = IF socket[s].data_handler THEN Append(handlerQ, b) ELSE handlerQ,
         due'[s] = Append(due[s], txn[s]),
         Polite => next = "idle" \/ CutOff(s)'
  PROVE  FlowAt(s)'
<1>0. PICK v \in Views, w \in Views : LineChange(s, mode, next, v, w)
  BY LineViews
<1>1. /\ w.stored = v.stored /\ w.smtp = v.smtp /\ w.data = v.data
      /\ v.mode = mode /\ w.mode = next
      /\ v.txn = txn[s] /\ v.due = due[s] /\ w.due = due'[s]
      /\ v.data = socket[s].data_handler
      /\ v.cut = FALSE /\ w.cut = CutOff(s)'
      /\ w = View(s, next)'
  BY <1>0 DEF LineChange
<1>2. MailOf(s)' = MailOf(s) /\ handlerQ \in Seq(Block) /\ txn[s] \in Mail
  BY LineViews
<1>3. Flow(s, handlerQ, E, D, v) /\ E[0] = MailOf(s)
  BY <1>0 DEF AtLine, LineChange
<1>4. BodySize(v.txn.body) <= MaxData
  <2>1. socket[s].email_size \in Nat /\ MaxData \in Nat
    BY FieldTypes, PendingTypes, BoundAssumption
  <2>2. ~(socket[s].email_size > MaxData)
    BY DEF SessionInv, SessionFits, CutOff, AtLine, TakesLine, InLoop
  <2>3. socket[s].email_size <= MaxData
    BY <2>1, <2>2
  <2>4. socket[s].email_size = BodySize(txn[s].body)
    BY <2>3 DEF SessionInv, SessionFits
  <2> QED
    BY <1>1, <2>3, <2>4
<1>5. Polite => Live(v) /\ v.txn.rcpt # <<>>
  <2>1. Polite => mode = "data" /\ txn[s].rcpt # <<>>
    BY DEF AtLine, Dialogue
  <2> QED
    BY <1>1, <2>1 DEF Live
<1>6. ~Live(w)
  BY <1>1 DEF Live
<1>7. w.due = Append(v.due, v.txn)
  BY <1>1
<1>8. CASE socket[s].data_handler
  <2>1. \E E2, D2 : Flow(s, Append(handlerQ, b), E2, D2, w) /\ E2[0] = E[0]
    BY <1>1, <1>2, <1>3, <1>4, <1>5, <1>6, <1>7, <1>8, FlowDone
  <2>2. \E E2, D2 : Flow(s, handlerQ', E2, D2, w) /\ E2[0] = MailOf(s)
    BY <1>3, <1>8, <2>1
  <2> QED
    BY <1>1, <1>2, <2>2, FlowFrom
<1>9. CASE ~socket[s].data_handler
  <2>0. ~(Polite /\ OpenFirst) /\ ~v.data
    BY <1>1, <1>9
  <2>1. \E D2 : Flow(s, handlerQ, E, D2, w)
    BY <1>1, <1>2, <1>3, <1>6, <1>7, <2>0, FlowLost
  <2>2. \E E2, D2 : Flow(s, handlerQ', E2, D2, w) /\ E2[0] = MailOf(s)
    BY <1>3, <1>9, <2>1
  <2> QED
    BY <1>1, <1>2, <2>2, FlowFrom
<1> QED
  BY <1>8, <1>9

\* The end of the data segment.
LEMMA DataEndFlow ==
  ASSUME TypeOK, TypeOK', SessionInv, NEW s \in Socket, NEW mode, NEW line, NEW E, NEW D,
         AtLine(s, mode, line, E, D), DataEnd(s)
  PROVE  FlowAt(s)'
<1> DEFINE next == ModeAfter(mode, line)
           b == B("done", s, NoLine)
<1>0. SessionTypeOK
  BY TypeSplit
<1>1. /\ socket[s].state = "DATA" /\ line.word = "."
      /\ socket'[s].state = "NONE" /\ socket'[s].stop = socket[s].stop
      /\ handlerQ' = IF socket[s].data_handler THEN Append(handlerQ, b) ELSE handlerQ
      /\ due'[s] = Append(due[s], txn[s])
  BY <1>0, DataEndEffect DEF AtLine
<1>2. Polite => mode = "data" /\ next = "idle"
  BY <1>1 DEF AtLine, Dialogue, ModeAfter
<1>3. next \in Modes /\ line = Head(socket[s].indata) /\ TakesLine(s) /\ Dialogue(s, mode)
  BY ModeType DEF AtLine, Dialogue
<1>4. Dialogue(s, next)' /\ (Polite /\ OpenFirst => socket[s].data_handler)
  BY <1>1, <1>2, <1>3, LineTalk
<1>5. b \in Block /\ IsDone(s, b)
  BY BlockType, BFields DEF IsDone
<1> HIDE DEF b, next
<1> QED
  BY <1>1, <1>2, <1>3, <1>4, <1>5, HandedOver

\* Past the limit.
LEMMA OverFlow ==
  ASSUME TypeOK, TypeOK', SessionInv, NEW s \in Socket, NEW mode, NEW line, NEW E, NEW D,
         AtLine(s, mode, line, E, D), DataLine(s), socket[s].email_size + line.len > MaxData
  PROVE  FlowAt(s)'
<1> DEFINE next == ModeAfter(mode, line)
           b == B("done", s, line)
<1>0. SessionTypeOK
  BY TypeSplit
<1>1. /\ socket[s].state = "DATA" /\ line.word # "."
      /\ socket'[s].state = "DATA" /\ socket'[s].stop
      /\ socket'[s].email_size = socket[s].email_size + line.len
      /\ handlerQ' = IF socket[s].data_handler THEN Append(handlerQ, b) ELSE handlerQ
      /\ due'[s] = Append(due[s], txn[s]) /\ txn'[s] = txn[s]
  BY <1>0, DataLineEffect DEF AtLine
<1>2. Polite => mode = "data" /\ next = "data" /\ txn'[s].rcpt # <<>>
  BY <1>1 DEF AtLine, Dialogue, ModeAfter
<1>3. next \in Modes /\ line = Head(socket[s].indata) /\ line \in Line /\ TakesLine(s) /\ Dialogue(s, mode)
  BY ModeType DEF AtLine, Dialogue
<1>4. Dialogue(s, next)' /\ (Polite /\ OpenFirst => socket[s].data_handler)
  BY <1>1, <1>2, <1>3, LineTalk
<1>5. b \in Block /\ IsDone(s, b)
  BY <1>3, BlockType, BFields DEF IsDone
<1>6. CutOff(s)'
  BY <1>1 DEF CutOff
<1> HIDE DEF b, next
<1> QED
  BY <1>1, <1>3, <1>4, <1>5, <1>6, HandedOver

-------------------------------------------------------------------------------
\* The fields of a mail with a recipient, or a line, more.
LEMMA MailParts ==
  ASSUME NEW mail \in Mail, NEW line \in Line
  PROVE  /\ mail.body \in Seq(Line) /\ mail # NoMail
         /\ WithLine(mail, line).from = mail.from
         /\ WithLine(mail, line).rcpt = mail.rcpt
         /\ WithLine(mail, line).body = Append(mail.body, line)
         /\ WithLine(mail, line) # NoMail
         /\ WithRcpt(mail, line).from = mail.from
         /\ WithRcpt(mail, line).rcpt = Append(mail.rcpt, line.arg)
         /\ WithRcpt(mail, line).body = mail.body
         /\ line.arg \in Arg => WithRcpt(mail, line) # NoMail
         /\ Begun(line).body = <<>> /\ Begun(line) \in Mail /\ Begun(line) # NoMail
<1>1. /\ WithLine(mail, line) \in Mail /\ Begun(line) \in Mail
      /\ line.arg \in Arg => WithRcpt(mail, line) \in Mail
  BY MailUpdates DEF WithLine, WithRcpt, Begun
<1>2. \A m \in Mail : m # NoMail
  BY NoMailAssumption
<1>3. Begun(line).body = <<>>
  BY DEF Begun, EmptyMail
<1>4. mail.body \in Seq(Line)
  BY DEF Mail
<1>5. /\ WithLine(mail, line).from = mail.from
      /\ WithLine(mail, line).rcpt = mail.rcpt
      /\ WithLine(mail, line).body = Append(mail.body, line)
  BY DEF WithLine, Mail
<1>6. /\ WithRcpt(mail, line).from = mail.from
      /\ WithRcpt(mail, line).rcpt = Append(mail.rcpt, line.arg)
      /\ WithRcpt(mail, line).body = mail.body
  BY DEF WithRcpt, Mail
<1> QED
  BY <1>1, <1>2, <1>3, <1>4, <1>5, <1>6

\* The mail under construction, in a flow.
LEMMA LastMail ==
  ASSUME NEW s, NEW q \in Seq(Block), NEW E, NEW D, NEW v, Flow(s, q, E, D, v)
  PROVE  /\ E[Len(q)] \in MaybeMail
         /\ ~v.smtp => Nothing(E, Len(q), v.stored) /\ E[Len(q)] = NoMail
         /\ ~v.data => (E[Len(q)] # NoMail => E[Len(q)].body = <<>>)
         /\ Builds(E[Len(q)], v.txn)
         /\ Live(v) => IF E[Len(q)] = NoMail THEN ~OpenFirst /\ Nothing(E, Len(q), v.stored)
                                             ELSE Matches(E[Len(q)], v.txn)
<1>1. Len(q) \in Nat /\ Len(q) \in 0..Len(q)
  <2>1. Len(q) \in Nat
    OBVIOUS
  <2> QED
    BY <2>1
<1>2. E[Len(q)] \in MaybeMail
  BY <1>1 DEF Flow, Chain
<1>3. /\ ~v.smtp => Nothing(E, Len(q), v.stored) /\ E[Len(q)] = NoMail
      /\ ~v.data => (E[Len(q)] # NoMail => E[Len(q)].body = <<>>)
  BY <1>1 DEF Flow, Early, Nothing
<1>4. /\ Builds(E[Len(q)], v.txn)
      /\ Live(v) => IF E[Len(q)] = NoMail THEN ~OpenFirst /\ Nothing(E, Len(q), v.stored)
                                          ELSE Matches(E[Len(q)], v.txn)
  BY DEF Flow, Grows
<1> QED
  BY <1>2, <1>3, <1>4

\* No callback is queued and nothing is handed over.
LEMMA QuietFlow ==
  ASSUME TypeOK, TypeOK', SessionInv, NEW s \in Socket, NEW mode, NEW line, NEW E, NEW D,
         NEW next \in Modes, AtLine(s, mode, line, E, D), Dialogue(s, next)',
         handlerQ' = handlerQ, due'[s] = due[s],
         Builds(E[Len(handlerQ)], txn'[s]),
         Polite /\ next # "idle" /\ ~CutOff(s)' =>
           IF E[Len(handlerQ)] = NoMail
           THEN ~OpenFirst /\ Nothing(E, Len(handlerQ), Stored(s))
           ELSE Matches(E[Len(handlerQ)], txn'[s])
  PROVE  FlowAt(s)'
<1>1. PICK v \in Views, w \in Views : LineChange(s, mode, next, v, w)
  BY LineViews
<1>2. MailOf(s)' = MailOf(s) /\ handlerQ \in Seq(Block)
  BY LineViews
<1>3. /\ w.stored = v.stored /\ w.smtp = v.smtp /\ w.data = v.data
      /\ w.mode = next /\ w.txn = txn'[s]
      /\ w.due = v.due /\ w.cut = CutOff(s)'
      /\ w = View(s, next)' /\ v = View(s, mode)
  BY <1>1 DEF LineChange
<1>4. Flow(s, handlerQ, E, D, v) /\ E[0] = MailOf(s)
  BY <1>3 DEF AtLine
<1>5. v.stored = Stored(s)
  BY <1>3, ViewFields
<1>6. Live(w) => IF E[Len(handlerQ)] = NoMail
                 THEN ~OpenFirst /\ Nothing(E, Len(handlerQ), v.stored)
                 ELSE Matches(E[Len(handlerQ)], w.txn)
  BY <1>3, <1>5 DEF Live
<1>7. Flow(s, handlerQ, E, D, w)
  BY <1>2, <1>3, <1>4, <1>6, FlowStay
<1>8. \E E2, D2 : Flow(s, handlerQ', E2, D2, w) /\ E2[0] = MailOf(s)
  BY <1>4, <1>7
<1> QED
  BY <1>2, <1>3, <1>8, FlowFrom

\* A callback is queued.
LEMMA QueuedFlow ==
  ASSUME TypeOK, TypeOK', SessionInv, NEW s \in Socket, NEW mode, NEW line, NEW E, NEW D,
         NEW next \in Modes, AtLine(s, mode, line, E, D), Dialogue(s, next)',
         NEW b \in Block, ~IsDone(s, b), handlerQ' = Append(handlerQ, b), due'[s] = due[s],
         socket[s].smtp_handler,
         NEW e, e = After(s, E[Len(handlerQ)], b),
         ~socket[s].data_handler => (e # NoMail => e.body = <<>>),
         Builds(e, txn'[s]),
         Polite /\ next # "idle" /\ ~CutOff(s)' =>
           IF e = NoMail THEN ~OpenFirst /\ Nothing(E, Len(handlerQ), Stored(s))
                         ELSE Matches(e, txn'[s])
  PROVE  FlowAt(s)'
<1>1. PICK v \in Views, w \in Views : LineChange(s, mode, next, v, w)
  BY LineViews
<1>2. MailOf(s)' = MailOf(s) /\ handlerQ \in Seq(Block)
  BY LineViews
<1>3. /\ w.stored = v.stored /\ w.smtp = v.smtp /\ w.data = v.data
      /\ v.smtp = socket[s].smtp_handler /\ v.data = socket[s].data_handler
      /\ w.mode = next /\ w.txn = txn'[s]
      /\ w.due = v.due /\ w.cut = CutOff(s)'
      /\ w = View(s, next)' /\ v = View(s, mode)
  BY <1>1 DEF LineChange
<1>4. Flow(s, handlerQ, E, D, v) /\ E[0] = MailOf(s)
  BY <1>3 DEF AtLine
<1>5. v.stored = Stored(s)
  BY <1>3, ViewFields
<1>6. Live(w) => IF After(s, E[Len(handlerQ)], b) = NoMail
                 THEN ~OpenFirst /\ Nothing(E, Len(handlerQ), v.stored)
                 ELSE Matches(After(s, E[Len(handlerQ)], b), w.txn)
  BY <1>3, <1>5 DEF Live
<1>7. /\ ~v.smtp => After(s, E[Len(handlerQ)], b) = NoMail
      /\ ~v.data => (After(s, E[Len(handlerQ)], b) # NoMail
                       => After(s, E[Len(handlerQ)], b).body = <<>>)
      /\ Builds(After(s, E[Len(handlerQ)], b), w.txn)
  BY <1>3
<1>8. \E E2, D2 : Flow(s, Append(handlerQ, b), E2, D2, w) /\ E2[0] = E[0]
  BY <1>2, <1>3, <1>4, <1>6, <1>7, FlowAppend
<1>9. \E E2, D2 : Flow(s, handlerQ', E2, D2, w) /\ E2[0] = MailOf(s)
  BY <1>4, <1>8
<1> QED
  BY <1>2, <1>3, <1>9, FlowFrom

\* What LastMail says at a line.
LEMMA MailAtLine ==
  ASSUME TypeOK, SessionInv, NEW s \in Socket, NEW mode, NEW line, NEW E, NEW D, NEW e,
         AtLine(s, mode, line, E, D), e = E[Len(handlerQ)]
  PROVE  /\ e \in MaybeMail
         /\ ~socket[s].smtp_handler => Nothing(E, Len(handlerQ), Stored(s)) /\ e = NoMail
         /\ ~socket[s].data_handler => (e # NoMail => e.body = <<>>)
         /\ Builds(e, txn[s])
         /\ Polite /\ mode # "idle" =>
              IF e = NoMail THEN ~OpenFirst /\ Nothing(E, Len(handlerQ), Stored(s))
                            ELSE Matches(e, txn[s])
<1> DEFINE v == View(s, mode)
<1>1. /\ v.stored = Stored(s) /\ v.txn = txn[s]
      /\ v.smtp = socket[s].smtp_handler /\ v.data = socket[s].data_handler
      /\ v.mode = mode /\ v.cut = CutOff(s)
  BY ViewFields
<1>2. ~CutOff(s)
  BY DEF AtLine, TakesLine, InLoop, SessionInv, SessionFits
<1>3. Flow(s, handlerQ, E, D, v) /\ handlerQ \in Seq(Block)
  BY DEF AtLine, TypeOK
<1> HIDE DEF v
<1>4. Polite /\ mode # "idle" => Live(v)
  BY <1>1, <1>2 DEF Live
<1> QED
  BY <1>1, <1>3, <1>4, LastMail

-------------------------------------------------------------------------------
\* The fields of a block.
LEMMA BLine ==
  ASSUME NEW kind, NEW s, NEW line
  PROVE  /\ B(kind, s, line).kind = kind /\ B(kind, s, line).sock = s
         /\ B(kind, s, line).line = line
BY DEF B

\* A line within the limit.
LEMMA DataFlow ==
  ASSUME TypeOK, TypeOK', SessionInv, HandlersInv, NEW s \in Socket, NEW mode, NEW line,
         NEW E, NEW D, AtLine(s, mode, line, E, D), DataLine(s),
         ~(socket[s].email_size + line.len > MaxData)
  PROVE  FlowAt(s)'
<1> DEFINE next == ModeAfter(mode, line)
           b == B("data", s, line)
<1>0. SessionTypeOK
  BY TypeSplit
<1>1. /\ socket[s].state = "DATA" /\ line.word # "."
      /\ socket'[s].state = "DATA" /\ socket'[s].stop = socket[s].stop
      /\ handlerQ' = IF socket[s].data_handler THEN Append(handlerQ, b) ELSE handlerQ
      /\ due'[s] = due[s] /\ txn'[s] = WithLine(txn[s], line)
  BY <1>0, DataLineEffect DEF AtLine
<1>2. line \in Line /\ line = Head(socket[s].indata) /\ TakesLine(s) /\ Dialogue(s, mode)
  BY DEF AtLine
<1>3. txn[s] \in Mail /\ handlerQ \in Seq(Block) /\ next \in Modes
  BY <1>2, ModeType DEF TypeOK, Dialogue
<1>4. /\ WithLine(txn[s], line).from = txn[s].from
      /\ WithLine(txn[s], line).rcpt = txn[s].rcpt
      /\ WithLine(txn[s], line).body = Append(txn[s].body, line)
      /\ txn[s].body \in Seq(Line) /\ WithLine(txn[s], line) \in Mail
  BY <1>2, <1>3, MailParts, MailUpdates DEF WithLine
<1>5. Polite => mode = "data" /\ next = "data" /\ txn'[s].rcpt # <<>>
  BY <1>1, <1>2, <1>4 DEF Dialogue, ModeAfter
<1>6. Dialogue(s, next)' /\ (Polite /\ OpenFirst => socket[s].data_handler)
  BY <1>1, <1>2, <1>5, LineTalk
<1>7. PICK e : e = E[Len(handlerQ)]
  OBVIOUS
<1>8. /\ e \in MaybeMail
      /\ ~socket[s].data_handler => (e # NoMail => e.body = <<>>)
      /\ Builds(e, txn[s])
      /\ Polite => IF e = NoMail THEN ~OpenFirst /\ Nothing(E, Len(handlerQ), Stored(s))
                                 ELSE Matches(e, txn[s])
  BY <1>5, <1>7, MailAtLine
<1>9. CASE socket[s].data_handler
  <2> DEFINE f == IF e # NoMail THEN WithLine(e, line) ELSE e
  <2>1. b \in Block /\ ~IsDone(s, b) /\ f = After(s, e, b)
    <3>1. b \in Block /\ b.kind = "data" /\ b.sock = s /\ b.line = line
      BY <1>2, BlockType, BLine
    <3> HIDE DEF b
    <3> QED
      BY <3>1 DEF IsDone, After
  <2>2. socket[s].smtp_handler
    BY <1>9 DEF HandlersInv, HandlersFit
  <2>3. ASSUME e # NoMail
        PROVE  /\ f # NoMail /\ f.from = e.from /\ f.rcpt = e.rcpt /\ f.body = Append(e.body, line)
               /\ e.body \in Seq(Line) /\ f = WithLine(e, line)
    BY <1>2, <1>8, <2>3, MailParts DEF MaybeMail
  <2>4. e = NoMail => f = NoMail
    OBVIOUS
  <2> HIDE DEF f, b, next
  <2>5. Builds(f, txn'[s])
    <3>1. CASE e = NoMail
      BY <2>4, <3>1 DEF Builds
    <3>2. CASE e # NoMail
      <4>1. BodySize(e.body) <= BodySize(txn[s].body) /\ Suffix(e.body, txn[s].body)
        BY <1>8, <3>2 DEF Builds
      <4>2. Suffix(f.body, txn'[s].body)
        BY <1>1, <1>2, <1>4, <2>3, <3>2, <4>1, SuffixAppend
      <4>3. /\ BodySize(f.body) = BodySize(e.body) + line.len
            /\ BodySize(txn'[s].body) = BodySize(txn[s].body) + line.len
        <5>1. \A body \in Seq(Line) : BodySize(Append(body, line)) = BodySize(body) + line.len
          BY <1>2, SizeAppend
        <5> QED
          BY <1>1, <1>4, <2>3, <3>2, <5>1
      <4>4. BodySize(e.body) \in Nat /\ BodySize(txn[s].body) \in Nat /\ line.len \in Nat
        BY <1>2, <1>4, <2>3, <3>2, SizeType, LineFields
      <4>5. BodySize(f.body) <= BodySize(txn'[s].body)
        BY <4>1, <4>3, <4>4
      <4> QED
        BY <4>2, <4>5 DEF Builds
    <3> QED
      BY <3>1, <3>2
  <2>6. Polite => IF f = NoMail THEN ~OpenFirst /\ Nothing(E, Len(handlerQ), Stored(s))
                                ELSE Matches(f, txn'[s])
    <3>1. CASE e = NoMail
      BY <1>8, <2>4, <3>1
    <3>2. CASE e # NoMail
      BY <1>1, <1>4, <1>8, <2>3, <3>2 DEF Matches
    <3> QED
      BY <3>1, <3>2
  <2> QED
    BY <1>1, <1>3, <1>6, <1>7, <1>9, <2>1, <2>2, <2>5, <2>6, QueuedFlow
<1>10. CASE ~socket[s].data_handler
  <2>1. handlerQ' = handlerQ /\ ~(Polite /\ OpenFirst)
    BY <1>1, <1>6, <1>10
  <2>2. Builds(E[Len(handlerQ)], txn'[s])
    BY <1>1, <1>4, <1>7, <1>8, <1>10, EmptyBuilds
  <2>3. Polite => IF e = NoMail THEN ~OpenFirst /\ Nothing(E, Len(handlerQ), Stored(s))
                                ELSE Matches(e, txn'[s])
    BY <1>1, <1>4, <1>8, <2>1 DEF Matches
  <2> HIDE DEF next
  <2> QED
    BY <1>1, <1>3, <1>6, <1>7, <2>1, <2>2, <2>3, QuietFlow
<1> QED
  BY <1>9, <1>10

\* A line outside the data segment.
OutOfData(s, mode, line) ==
  /\ socket[s].state # "DATA"
  /\ socket'[s].stop = socket[s].stop
  /\ due'[s] = due[s]

\* What is no command, or a command whose callback no handler asked for.
LEMMA OtherFlow ==
  ASSUME TypeOK, TypeOK', SessionInv, NEW s \in Socket, NEW mode, NEW line,
         NEW E, NEW D, AtLine(s, mode, line, E, D),
         NEW next \in Modes, Dialogue(s, next)',
         handlerQ' = handlerQ, due'[s] = due[s], txn'[s] = txn[s],
         Polite /\ next # "idle" => mode # "idle"
  PROVE  FlowAt(s)'
<1>1. PICK e : e = E[Len(handlerQ)]
  OBVIOUS
<1>2. /\ Builds(e, txn[s])
      /\ Polite /\ mode # "idle" =>
           IF e = NoMail THEN ~OpenFirst /\ Nothing(E, Len(handlerQ), Stored(s))
                         ELSE Matches(e, txn[s])
  BY <1>1, MailAtLine
<1> QED
  BY <1>1, <1>2, QuietFlow

\* A command before the smtp handler is installed: no mail was begun.
LEMMA UnheardFlow ==
  ASSUME TypeOK, TypeOK', SessionInv, NEW s \in Socket, NEW mode, NEW line,
         NEW E, NEW D, AtLine(s, mode, line, E, D),
         NEW next \in Modes, Dialogue(s, next)',
         handlerQ' = handlerQ, due'[s] = due[s],
         ~socket[s].smtp_handler, ~(Polite /\ OpenFirst)
  PROVE  FlowAt(s)'
<1>1. Nothing(E, Len(handlerQ), Stored(s)) /\ E[Len(handlerQ)] = NoMail
  BY MailAtLine
<1>2. Builds(E[Len(handlerQ)], txn'[s])
  BY <1>1 DEF Builds
<1> QED
  BY <1>1, <1>2, QuietFlow

\* MAIL begins a mail.
LEMMA MailFlows ==
  ASSUME TypeOK, TypeOK', SessionInv, NEW s \in Socket, NEW mode, NEW line,
         NEW E, NEW D, AtLine(s, mode, line, E, D),
         NEW next \in Modes, Dialogue(s, next)',
         line.word = "MAIL", txn'[s] = Begun(line), due'[s] = due[s],
         socket[s].smtp_handler, handlerQ' = Append(handlerQ, B("smtp", s, line))
  PROVE  FlowAt(s)'
<1> DEFINE b == B("smtp", s, line)
<1>1. line \in Line /\ txn'[s] \in Mail /\ txn[s] \in Mail
  BY DEF AtLine, TypeOK
<1>2. Begun(line).body = <<>> /\ Begun(line) # NoMail
  BY <1>1, MailParts
<1>3. PICK e : e = Begun(line)
  OBVIOUS
<1>4. b \in Block /\ ~IsDone(s, b) /\ e = After(s, E[Len(handlerQ)], b)
  <2>1. b \in Block /\ b.kind = "smtp" /\ b.sock = s /\ b.line = line
    BY <1>1, BlockType, BLine
  <2> HIDE DEF b
  <2> QED
    BY <1>3, <2>1 DEF IsDone, After
<1>5. Builds(e, txn'[s])
  BY <1>1, <1>2, <1>3, EmptyBuilds
<1>6. Matches(e, txn'[s]) /\ e # NoMail /\ e.body = <<>>
  BY <1>2, <1>3 DEF Matches
<1> HIDE DEF b
<1>7. handlerQ' = Append(handlerQ, b)
  BY DEF b
<1> QED
  BY <1>4, <1>5, <1>6, <1>7, QueuedFlow

\* RCPT adds a recipient.
LEMMA RcptFlows ==
  ASSUME TypeOK, TypeOK', SessionInv, NEW s \in Socket, NEW mode, NEW line,
         NEW E, NEW D, AtLine(s, mode, line, E, D),
         NEW next \in Modes, Dialogue(s, next)',
         line.word = "RCPT", due'[s] = due[s],
         txn'[s] = IF line.arg \in Arg THEN WithRcpt(txn[s], line) ELSE txn[s],
         Polite => mode # "idle" /\ line.arg \in Arg,
         socket[s].smtp_handler, handlerQ' = Append(handlerQ, B("smtp", s, line))
  PROVE  FlowAt(s)'
<1> DEFINE b == B("smtp", s, line)
<1>1. line \in Line /\ txn'[s] \in Mail /\ txn[s] \in Mail
  BY DEF AtLine, TypeOK
<1>2. PICK e : e = E[Len(handlerQ)]
  OBVIOUS
<1>3. /\ e \in MaybeMail
      /\ ~socket[s].data_handler => (e # NoMail => e.body = <<>>)
      /\ Builds(e, txn[s])
      /\ Polite => IF e = NoMail THEN ~OpenFirst /\ Nothing(E, Len(handlerQ), Stored(s))
                                 ELSE Matches(e, txn[s])
  BY <1>2, MailAtLine
<1>4. PICK f : f = IF line.arg \in Arg /\ e # NoMail THEN WithRcpt(e, line) ELSE e
  OBVIOUS
<1>5. b \in Block /\ ~IsDone(s, b) /\ f = After(s, e, b)
  <2>1. b \in Block /\ b.kind = "smtp" /\ b.sock = s /\ b.line = line
    BY <1>1, BlockType, BLine
  <2> HIDE DEF b
  <2> QED
    BY <1>4, <2>1 DEF IsDone, After
<1>6. txn'[s].body = txn[s].body
  BY <1>1, MailParts
<1>7. /\ f = NoMail <=> e = NoMail
      /\ e # NoMail => f.body = e.body
  BY <1>1, <1>3, <1>4, MailParts DEF MaybeMail
<1>8. Builds(f, txn'[s])
  BY <1>3, <1>6, <1>7 DEF Builds
<1>9. ASSUME Polite
      PROVE  IF f = NoMail THEN ~OpenFirst /\ Nothing(E, Len(handlerQ), Stored(s))
                           ELSE Matches(f, txn'[s])
  <2>1. CASE e = NoMail
    BY <1>3, <1>7, <1>9, <2>1
  <2>2. CASE e # NoMail
    <3>1. Matches(e, txn[s]) /\ f = WithRcpt(e, line) /\ txn'[s] = WithRcpt(txn[s], line)
      BY <1>3, <1>4, <1>9, <2>2
    <3>2. e \in Mail
      BY <1>3, <2>2 DEF MaybeMail
    <3>3. /\ f.from = e.from /\ f.rcpt = Append(e.rcpt, line.arg)
          /\ txn'[s].from = txn[s].from /\ txn'[s].rcpt = Append(txn[s].rcpt, line.arg)
      <4>1. \A m \in Mail : /\ WithRcpt(m, line).from = m.from
                            /\ WithRcpt(m, line).rcpt = Append(m.rcpt, line.arg)
        BY <1>1, MailParts
      <4> QED
        BY <1>1, <3>1, <3>2, <4>1
    <3>4. Matches(f, txn'[s])
      BY <3>1, <3>3 DEF Matches
    <3> QED
      BY <1>7, <2>2, <3>4
  <2> QED
    BY <2>1, <2>2
<1>10. ~socket[s].data_handler => (f # NoMail => f.body = <<>>)
  BY <1>3, <1>7
<1> HIDE DEF b
<1>11. handlerQ' = Append(handlerQ, b)
  BY DEF b
<1> QED
  BY <1>2, <1>5, <1>8, <1>9, <1>10, <1>11, QueuedFlow

\* Any command.
LEMMA CommandFlow ==
  ASSUME TypeOK, TypeOK', SessionInv, HandlersInv, NEW s \in Socket, NEW mode, NEW line,
         NEW E, NEW D, AtLine(s, mode, line, E, D), PlainCommand(s) \/ StartTls(s)
  PROVE  FlowAt(s)'
<1> DEFINE next == ModeAfter(mode, line)
           b == B("smtp", s, line)
<1>0. SessionTypeOK
  BY TypeSplit
<1>1. /\ socket[s].state # "DATA" /\ HasCommand(line)
      /\ socket'[s].state = Command(line) /\ socket'[s].stop = socket[s].stop
      /\ handlerQ' = IF socket[s].smtp_handler /\ line.word \in Mask THEN Append(handlerQ, b) ELSE handlerQ
      /\ due'[s] = due[s] /\ txn'[s] = Envelope(txn[s], line)
  BY <1>0, CommandEffect DEF AtLine
<1>2. line \in Line /\ line = Head(socket[s].indata) /\ TakesLine(s) /\ Dialogue(s, mode)
  BY DEF AtLine
<1>3. txn[s] \in Mail /\ next \in Modes
  BY <1>2, ModeType DEF TypeOK, Dialogue
<1>4. Polite => mode # "data" /\ (mode \in {"rcpt", "data"} => txn[s].rcpt # <<>>)
  BY <1>1, <1>2 DEF Dialogue
<1>5. /\ line.word = "MAIL" => txn'[s] = Begun(line)
      /\ line.word = "RCPT" => txn'[s] = IF line.arg \in Arg THEN WithRcpt(txn[s], line) ELSE txn[s]
      /\ line.word \notin {"MAIL", "RCPT"} => txn'[s] = txn[s]
  BY <1>1 DEF Envelope, Begun, WithRcpt
<1>6. Command(line) = "DATA" <=> line.word = "DATA"
  BY DEF Command, Verb
<1>7. mode # "data" =>
        /\ line.word = "MAIL" => next = "mail"
        /\ line.word = "RCPT" => next = "rcpt"
        /\ line.word = "DATA" => next = "data"
        /\ line.word = "RSET" => next = "idle"
        /\ line.word \notin {"MAIL", "RCPT", "DATA", "RSET"} => next = mode
  BY DEF ModeAfter
<1> HIDE DEF next, b
<1>8. ASSUME Polite /\ InOrder(mode, line)
      PROVE  /\ next = "data" <=> socket'[s].state = "DATA"
             /\ next \in {"rcpt", "data"} => txn'[s].rcpt # <<>>
             /\ next # "idle" /\ line.word # "MAIL" => mode # "idle"
             /\ line.word = "RCPT" => line.arg \in Arg
  <2>1. /\ line.word = "RCPT" => mode \in {"mail", "rcpt"} /\ line.arg \in Arg
        /\ line.word = "DATA" => mode = "rcpt"
    BY <1>4, <1>8 DEF InOrder
  <2>2. next = "data" <=> socket'[s].state = "DATA"
    BY <1>1, <1>4, <1>6, <1>7, <1>8
  <2>3. next # "idle" /\ line.word # "MAIL" => mode # "idle"
    BY <1>4, <1>7, <1>8, <2>1
  <2>4. CASE line.word = "RCPT"
    <3>1. txn'[s].rcpt = Append(txn[s].rcpt, line.arg)
      <4>1. txn'[s] = WithRcpt(txn[s], line)
        BY <1>5, <2>1, <2>4
      <4>2. WithRcpt(txn[s], line).rcpt = Append(txn[s].rcpt, line.arg)
        BY <1>2, <1>3, MailParts
      <4> QED
        BY <4>1, <4>2
    <3>2. Append(txn[s].rcpt, line.arg) # <<>>
      <4>1. txn[s].rcpt \in Seq(Arg) /\ line.arg \in Arg
        BY <1>3, <2>1, <2>4 DEF Mail
      <4>2. \A q \in Seq(Arg), a \in Arg : Append(q, a) # <<>>
        BY AppendProperties
      <4> QED
        BY <4>1, <4>2
    <3> QED
      BY <2>1, <2>2, <2>3, <3>1, <3>2
  <2>5. CASE line.word # "RCPT"
    <3>1. next \in {"rcpt", "data"} => txn'[s] = txn[s] /\ mode = "rcpt"
      BY <1>4, <1>5, <1>7, <1>8, <2>1, <2>5
    <3> QED
      BY <1>4, <1>8, <2>2, <2>3, <2>5, <3>1
  <2> QED
    BY <2>4, <2>5
<1>9. /\ Dialogue(s, next)' /\ (Polite => InOrder(mode, line))
      /\ Polite /\ OpenFirst => socket[s].data_handler
  BY <1>1, <1>2, <1>8, LineTalk DEF next
<1>10. Polite /\ OpenFirst => socket[s].smtp_handler
  BY <1>9 DEF HandlersInv, HandlersFit
<1>11. CASE line.word \notin {"MAIL", "RCPT"}
  BY <1>1, <1>3, <1>5, <1>8, <1>9, <1>11, OtherFlow DEF Mask
<1>12. CASE ~socket[s].smtp_handler
  BY <1>1, <1>3, <1>9, <1>10, <1>12, UnheardFlow
<1>13. CASE line.word = "MAIL" /\ socket[s].smtp_handler
  BY <1>1, <1>3, <1>5, <1>9, <1>13, MailFlows DEF Mask, b
<1>14. CASE line.word = "RCPT" /\ socket[s].smtp_handler
  <2>1. Polite => mode # "idle" /\ line.arg \in Arg
    BY <1>4, <1>7, <1>8, <1>9, <1>14
  <2> QED
    BY <1>1, <1>3, <1>5, <1>9, <1>14, <2>1, RcptFlows DEF Mask, b
<1> QED
  BY <1>11, <1>12, <1>13, <1>14

\* No command.
LEMMA NoCommandFlow ==
  ASSUME TypeOK, TypeOK', SessionInv, NEW s \in Socket, NEW mode, NEW line,
         NEW E, NEW D, AtLine(s, mode, line, E, D), NoCommand(s)
  PROVE  FlowAt(s)'
<1> DEFINE next == ModeAfter(mode, line)
<1>0. SessionTypeOK
  BY TypeSplit
<1>1. /\ socket[s].state # "DATA" /\ ~HasCommand(line)
      /\ socket'[s].state = socket[s].state /\ socket'[s].stop = socket[s].stop
      /\ handlerQ' = handlerQ
      /\ due'[s] = due[s] /\ txn'[s] = txn[s]
  BY <1>0, NoCommandEffect DEF AtLine
<1>2. line \in Line /\ line = Head(socket[s].indata) /\ TakesLine(s) /\ Dialogue(s, mode)
  BY DEF AtLine
<1>3. next \in Modes
  BY <1>2, ModeType DEF Dialogue
<1>4. /\ Polite => mode # "data"
      /\ Polite /\ mode \in {"rcpt", "data"} => txn[s].rcpt # <<>>
  BY <1>1, <1>2 DEF Dialogue
<1>5. mode # "data" => next = mode
  BY <1>1 DEF ModeAfter, HasCommand
<1> HIDE DEF next
<1>6. Polite /\ InOrder(mode, line) =>
        /\ next = "data" <=> socket'[s].state = "DATA"
        /\ next \in {"rcpt", "data"} => txn'[s].rcpt # <<>>
  BY <1>1, <1>4, <1>5
<1>7. Dialogue(s, next)'
  BY <1>1, <1>2, <1>6, LineTalk DEF next
<1>8. Polite /\ next # "idle" => mode # "idle"
  BY <1>4, <1>5
<1> QED
  BY <1>1, <1>3, <1>7, <1>8, OtherFlow

-------------------------------------------------------------------------------
\* Any line.
LEMMA LineFlow ==
  ASSUME TypeOK, TypeOK', SessionInv, HandlersInv, NEW s \in Socket, HandleLine(s),
         UNCHANGED appVars, FlowAt(s)
  PROVE  FlowAt(s)'
<1>0. SessionTypeOK
  BY TypeSplit
<1>1. TakesLine(s)
  BY <1>0, DataEndEffect, DataLineEffect, NoCommandEffect, CommandEffect DEF HandleLine
<1>2. Head(socket[s].indata) \in Line
  BY <1>0, <1>1, LoopLine DEF TakesLine
<1>3. PICK line : line \in Line /\ line = Head(socket[s].indata)
  BY <1>2
<1>4. PICK mode, E, D : /\ Dialogue(s, mode)
                        /\ Flow(s, handlerQ, E, D, View(s, mode))
                        /\ E[0] = MailOf(s)
  BY DEF FlowAt
<1>5. AtLine(s, mode, line, E, D)
  BY <1>1, <1>3, <1>4 DEF AtLine
<1>6. CASE DataEnd(s)
  BY <1>5, <1>6, DataEndFlow
<1>7. CASE DataLine(s) /\ socket[s].email_size + line.len > MaxData
  BY <1>5, <1>7, OverFlow
<1>8. CASE DataLine(s) /\ ~(socket[s].email_size + line.len > MaxData)
  BY <1>5, <1>8, DataFlow
<1>9. CASE NoCommand(s)
  BY <1>5, <1>9, NoCommandFlow
<1>10. CASE PlainCommand(s) \/ StartTls(s)
  BY <1>5, <1>10, CommandFlow
<1> QED
  BY <1>6, <1>7, <1>8, <1>9, <1>10 DEF HandleLine

\* A step of libEmailz leaves the application and the other connections.
LEMMA LibDispatches ==
  ASSUME SessionInv, NEW u \in Socket, LibStep(u)
  PROVE  Only(u) /\ UNCHANGED appVars /\ Dispatches(u)
<1>0. SessionTypeOK /\ OrderInv /\ handlerQ \in Seq(Block)
  BY DEF SessionInv, OrderInv, SessionTypeOK
<1>1. UNCHANGED appVars
  BY DEF LibStep, Connect, Client, Receive, Work
<1>2. CASE Connect(u)
  <2>1. /\ Beside(u) /\ handlerQ' = Append(handlerQ, B("accept", u, NoLine))
    BY <1>0, <1>2, ConnectEffect DEF Connect
  <2> QED
    BY <1>1, <2>1, BlockType, BFields DEF Dispatches, Beside
<1>3. CASE Client(u)
  BY <1>0, <1>1, <1>3, ClientEffect DEF Client, Only, Dispatches
<1>4. CASE Arrival(u) \/ ReadReturns(u) \/ ByeCompletes(u)
  BY <1>0, <1>1, <1>4, StopEffect, ReadPlainEffect, ReadSecureEffect DEF Arrival, Beside, Dispatches
<1>5. CASE HandleLine(u)
  <2>1. TakesLine(u) /\ socket[u].phase = "open"
    BY <1>0, <1>5, DataEndEffect, DataLineEffect, NoCommandEffect, CommandEffect
       DEF HandleLine, TakesLine, InLoop, OrderInv
  <2> QED
    BY <1>0, <1>1, <1>5, <2>1, LineCallback DEF Callback, Dispatches, TakesLine
<1>6. CASE Cleanup(u)
  <2>1. /\ Beside(u) /\ handlerQ' = Append(handlerQ, B("close", u, NoLine))
    BY <1>0, <1>6, CleanupEffect
  <2> QED
    BY <1>1, <2>1, BlockType, BFields DEF Dispatches, Beside
<1> QED
  BY <1>2, <1>3, <1>4, <1>5, <1>6 DEF LibStep, Receive, Work, Progress, Handling

\* A step of libEmailz on the connection itself.
LEMMA OwnFlow ==
  ASSUME TypeOK, TypeOK', SessionInv, HandlersInv, NEW u \in Socket, LibStep(u), FlowAt(u)
  PROVE  FlowAt(u)'
<1>0. SessionTypeOK
  BY TypeSplit
<1>1. UNCHANGED appVars
  BY LibDispatches
<1>2. ASSUME Beside(u), socket'[u].indata = socket[u].indata, peer' = peer,
             socket[u].stop => socket'[u].stop
      PROVE  \A mode : Dialogue(u, mode) => Dialogue(u, mode)'
  <2>1. SameTalk(u)
    BY <1>2 DEF Beside, SameHandlers, SameTalk, Pending
  <2> QED
    BY <2>1, TalkStays
<1>3. CASE Connect(u)
  <2>1. /\ Beside(u) /\ handlerQ' = Append(handlerQ, B("accept", u, NoLine))
        /\ socket'[u].indata = socket[u].indata /\ peer' = peer
        /\ socket'[u].stop = socket[u].stop
    BY <1>0, <1>3, ConnectEffect DEF Connect
  <2>2. B("accept", u, NoLine) \in Block /\ Neutral(u, B("accept", u, NoLine))
    BY BlockType, BFields DEF Neutral
  <2> QED
    BY <1>1, <1>2, <2>1, <2>2, BesideFlow
<1>4. CASE Cleanup(u)
  <2>1. /\ Beside(u) /\ handlerQ' = Append(handlerQ, B("close", u, NoLine))
        /\ socket'[u].indata = socket[u].indata /\ peer' = peer
        /\ socket'[u].stop = socket[u].stop
    BY <1>0, <1>4, CleanupEffect
  <2>2. B("close", u, NoLine) \in Block /\ Neutral(u, B("close", u, NoLine))
    BY BlockType, BFields DEF Neutral
  <2> QED
    BY <1>1, <1>2, <2>1, <2>2, BesideFlow
<1>5. CASE HandshakeFails(u) \/ ReadTimeout(u) \/ WriteFails(u) \/ ReadReturns(u) \/ ByeCompletes(u)
  <2>1. /\ Beside(u) /\ handlerQ' = handlerQ
        /\ socket'[u].indata = socket[u].indata /\ peer' = peer
        /\ socket[u].stop => socket'[u].stop
    BY <1>0, <1>5, StopEffect
  <2> QED
    BY <1>1, <1>2, <2>1, BesideFlow
<1>6. CASE ReadPlain(u) \/ ReadSecure(u)
  <2>1. /\ Beside(u) /\ handlerQ' = handlerQ /\ ~socket[u].stop
        /\ \/ socket'[u].indata = Pending(u)
           \/ socket'[u].indata = socket[u].indata /\ (peer[u].wire = <<>> \/ socket'[u].stop)
        /\ peer'[u].wire = <<>> /\ peer'[u].mode = peer[u].mode
    BY <1>0, <1>6, ReadPlainEffect, ReadSecureEffect
  <2>2. \A mode : Dialogue(u, mode) => Dialogue(u, mode)'
    BY <2>1, ReadTalk
  <2> QED
    BY <1>1, <2>1, <2>2, BesideFlow
<1>7. CASE Client(u)
  <2>1. ClientStep(u) /\ UNCHANGED <<socket, handlerQ, txn, due>>
    BY <1>0, <1>7, ClientEffect DEF Client
  <2>2. \A mode : Dialogue(u, mode) => Dialogue(u, mode)'
    BY <2>1, ClientTalk
  <2>3. MailOf(u)' = MailOf(u) /\ SameView(u)
    BY <1>1, <2>1 DEF appVars, MailOf, Stored, SameView, CutOff
  <2> QED
    BY <2>1, <2>2, <2>3, FlowPasses
<1>8. CASE HandleLine(u)
  BY <1>1, <1>8, LineFlow
<1> QED
  BY <1>3, <1>4, <1>5, <1>6, <1>7, <1>8 DEF LibStep, Receive, Work, Progress, Handling, Arrival

-------------------------------------------------------------------------------
\* The inductive invariant: until an exception ends the process, every mail on
\* its way is accounted for.
FlowInv == ~crashed => HandlersInv /\ \A s \in Socket : FlowAt(s)

\* Nothing is on its way at the start,
LEMMA InitFlow == Init => FlowInv
<1> SUFFICES ASSUME Init PROVE FlowInv
  OBVIOUS
<1>1. handlerQ = <<>> /\ Len(handlerQ) = 0 /\ openStep = 0
  BY DEF Init, SessionInit
<1>2. ASSUME NEW s \in Socket
      PROVE  HandlersFit(s) /\ FlowAt(s)
  <2>1. /\ socket[s] = Fresh /\ txn[s] = EmptyMail /\ due[s] = <<>>
        /\ peer[s] = [mode |-> "idle", sent |-> 0, wire |-> <<>>]
        /\ smsocket[s].email = NoMail /\ mDb[s] = <<>>
    BY DEF Init, SessionInit, AppInit
  <2>2. /\ Fresh.phase = "none" /\ Fresh.state = "NONE" /\ Fresh.indata = <<>>
        /\ Fresh.smtp_handler = FALSE /\ Fresh.data_handler = FALSE
    BY DEF Fresh
  <2>3. HandlersFit(s)
    BY <1>1, <2>1, <2>2 DEF HandlersFit, OpensFirst
  <2>4. Stored(s) = <<>> /\ MailOf(s) = NoMail
    BY <2>1 DEF Stored, MailOf
  <2> DEFINE E == [i \in Nat |-> NoMail]
             D == [i \in Nat |-> 0]
             M == [i \in Nat |-> "idle"]
             v == View(s, "idle")
  <2>5. Pending(s) = <<>> /\ Len(Pending(s)) = 0
    BY <2>1, <2>2 DEF Pending
  <2>6. Talks(<<>>, "idle", M) /\ M[0] = "idle"
    BY DEF Talks, Modes
  <2>7. Dialogue(s, "idle")
    BY <2>1, <2>2, <2>5, <2>6 DEF Dialogue, Modes
  <2>8. /\ v.stored = <<>> /\ v.due = <<>> /\ v.mode = "idle"
    BY <2>1, <2>4 DEF View
  <2>9. E \in [Nat -> MaybeMail] /\ D \in [Nat -> Nat] /\ E[0] = NoMail /\ D[0] = 0
    BY DEF MaybeMail
  <2> HIDE DEF E, D, v
  <2>10. Len(v.due) = 0 /\ Len(v.stored) = 0
    BY <2>8
  <2>11. Chain(s, handlerQ, E, D) /\ DonesKept(s, handlerQ, E, D, v)
    BY <1>1, <2>9 DEF Chain, DonesKept
  <2>12. StoredKept(D[0], v)
    BY <2>9, <2>10 DEF StoredKept
  <2>13. Early(s, handlerQ, E, v) /\ Grows(handlerQ, E, v)
    BY <1>1, <2>8, <2>9 DEF Early, Grows, Nothing, Builds, Live
  <2>14. Flow(s, handlerQ, E, D, v)
    BY <1>1, <2>9, <2>10, <2>11, <2>12, <2>13 DEF Flow
  <2>15. FlowAt(s)
    BY <2>4, <2>7, <2>9, <2>14 DEF FlowAt, v
  <2> QED
    BY <2>3, <2>15
<1> QED
  BY <1>1, <1>2 DEF FlowInv, HandlersInv, OpenInTurn

\* and every step keeps account.
LEMMA NextFlow == TypeOK /\ TypeOK' /\ SessionInv /\ FlowInv /\ [Next]_vars => FlowInv'
<1> SUFFICES ASSUME TypeOK, TypeOK', SessionInv, FlowInv, [Next]_vars, ~crashed'
             PROVE  (HandlersInv /\ \A s \in Socket : FlowAt(s))'
  BY DEF FlowInv
<1>1. ~crashed
  BY DEF Next, vars
<1>2. HandlersInv /\ \A s \in Socket : FlowAt(s)
  BY <1>1 DEF FlowInv
<1>3. HandlersInv'
  BY <1>2, NextHandlers
<1>4. ASSUME NEW t \in Socket PROVE FlowAt(t)'
  <2>1. CASE UNCHANGED vars
    <3>1. MailOf(t)' = MailOf(t) /\ handlerQ' = handlerQ
      BY <2>1 DEF vars, MailOf
    <3>2. SameView(t) /\ SameTalk(t)
      BY <2>1 DEF vars, SameView, SameTalk, Stored, CutOff, Pending
    <3> QED
      BY <1>2, <3>1, <3>2, TalkStays, FlowPasses
  <2>2. CASE Next
    <3>1. PICK u \in Socket : LibStep(u) \/ RunBlock(u)
      BY <2>2 DEF Next, LibStep
    <3>2. CASE LibStep(u) /\ t = u
      BY <1>2, <3>2, OwnFlow
    <3>3. CASE LibStep(u) /\ t # u
      BY <1>2, <3>3, LibDispatches, FlowOther
    <3>4. CASE RunAccept(u)
      BY <1>2, <3>4, AcceptFlow
    <3>5. CASE RunOpen(u) /\ openStep # 2
      BY <1>2, <3>5, InstallFlow
    <3>6. CASE Ends(u)
      BY <1>2, <3>6, EndsFlow
    <3> QED
      BY <3>1, <3>2, <3>3, <3>4, <3>5, <3>6 DEF RunBlock, Ends
  <2> QED
    BY <2>1, <2>2
<1> QED
  BY <1>3, <1>4

\* Every mail on its way is accounted for in every state, for any number of
\* connections and of mails.
THEOREM FlowStays == Spec => []FlowInv
BY InitFlow, NextFlow, SessionStays, TypeCorrect, PTL DEF Spec

-------------------------------------------------------------------------------
(***************************************************************************)
(* What follows from the flow of mails.                                    *)
(***************************************************************************)
\* The mail that the application is told is done.
LEMMA DoneMail ==
  ASSUME TypeOK, FlowInv, ~crashed, NEW u \in Socket, Running("done", u), MailOf(u) # NoMail
  PROVE  /\ BodySize(MailOf(u).body) <= MaxData
         /\ Polite => MailOf(u).rcpt # <<>>
         /\ Polite /\ OpenFirst => /\ Len(Stored(u)) + 1 \in 1..Len(due[u])
                                   /\ MailOf(u) = due[u][Len(Stored(u)) + 1]
<1>1. PICK mode, E, D : /\ Dialogue(u, mode)
                        /\ Flow(u, handlerQ, E, D, View(u, mode))
                        /\ E[0] = MailOf(u)
  BY DEF FlowInv, FlowAt
<1> DEFINE v == View(u, mode)
<1>2. v.stored = Stored(u) /\ v.due = due[u]
  BY ViewFields
<1> HIDE DEF v
<1>3. Flow(u, handlerQ, E, D, v)
  BY <1>1 DEF v
<1>4. handlerQ \in Seq(Block) /\ handlerQ # <<>>
  BY DEF TypeOK, Running
<1>5. handlerQ[1] = Head(handlerQ) /\ 1 \in 1..Len(handlerQ) /\ 1 - 1 = 0
  BY <1>4, TailFacts
<1>6. IsDone(u, handlerQ[1])
  BY <1>5 DEF Running, IsDone
<1>7. DoneKept(E, D, v, 1)
  BY <1>3, <1>5, <1>6 DEF Flow, DonesKept
<1>8. D[1] = D[0] + 1 /\ D[1] \in 1..Len(due[u])
  BY <1>2, <1>3, <1>5, <1>6, <1>7 DEF Flow, Chain, Behind, DoneKept
<1>9. /\ BodySize(MailOf(u).body) <= MaxData
      /\ Polite => MailOf(u).rcpt # <<>> /\ Kept(MailOf(u), due[u][D[1]])
  BY <1>1, <1>2, <1>5, <1>7 DEF DoneKept
<1>10. Polite /\ OpenFirst => Len(Stored(u)) = D[0]
  BY <1>2, <1>3 DEF Flow, StoredKept
<1> QED
  BY <1>8, <1>9, <1>10 DEF Kept

\* How the mails stored change.
LEMMA StoredChange ==
  ASSUME TypeOK, SessionInv, FlowInv, Next
  PROVE  \/ mDb' = mDb
         \/ \E u \in Socket : /\ Running("done", u) /\ MailOf(u) # NoMail
                              /\ due' = due
                              /\ \A t \in Socket \ {u} : Stored(t)' = Stored(t)
                              /\ Stored(u)' = Append(Stored(u), MailOf(u))
<1>1. ~crashed
  BY DEF Next
<1>2. HandlersInv
  BY <1>1 DEF FlowInv
<1>3. PICK u \in Socket : LibStep(u) \/ RunBlock(u)
  BY DEF Next, LibStep
<1>4. CASE LibStep(u)
  BY <1>4, LibDispatches DEF appVars
<1>5. CASE RunAccept(u) \/ RunSmtp(u) \/ RunData(u) \/ RunClose(u) \/ RunOpen(u)
  BY <1>5 DEF RunAccept, RunSmtp, RunData, RunClose, RunOpen, appVars, HandleSmtp, HandleFrom,
              HandleRcpt, HandleData, SetContext
<1>6. CASE RunDone(u)
  <2>1. Running("done", u) /\ HandleEmail(u)
    BY <1>6 DEF RunDone
  <2>2. CASE crashed'
    BY <1>1, <2>1, <2>2 DEF HandleEmail
  <2>3. CASE ~crashed'
    <3>1. due' = due /\ \A t \in Socket : Ran(t, Head(handlerQ))
      BY <1>2, <1>6, <2>3, BlockRan DEF Ends
    <3>2. \A t \in Socket : IsDone(t, Head(handlerQ)) <=> t = u
      BY <2>1 DEF Running, IsDone
    <3>3. CASE MailOf(u) = NoMail
      <4>1. smsocket[u].email = NoMail
        <5>1. smsocket[u] \in SMSocket
          BY DEF TypeOK
        <5>2. smsocket[u].email # NoMail => smsocket[u].email.mail # NoMail
          BY <5>1, SMSocketFields, NoMailAssumption
        <5> QED
          BY <3>3, <5>2 DEF MailOf
      <4> QED
        BY <2>1, <4>1 DEF HandleEmail
    <3>4. CASE MailOf(u) # NoMail
      BY <2>1, <3>1, <3>2, <3>4 DEF Ran
    <3> QED
      BY <3>3, <3>4
  <2> QED
    BY <2>2, <2>3
<1> QED
  BY <1>3, <1>4, <1>5, <1>6 DEF RunBlock

-------------------------------------------------------------------------------
\* The mails stored are within the limit.
StoredFit(s) == \A i \in 1..Len(Stored(s)) : BodySize(Stored(s)[i].body) <= MaxData
StoredWithin == \A s \in Socket : StoredFit(s)

\* Nothing is stored at the start,
LEMMA InitStored == Init => StoredWithin
<1> SUFFICES ASSUME Init, NEW s \in Socket PROVE StoredFit(s)
  BY DEF StoredWithin
<1>1. Stored(s) = <<>>
  BY DEF Init, AppInit, Stored
<1>2. Len(Stored(s)) = 0
  BY <1>1
<1> QED
  BY <1>2 DEF StoredFit

\* and every mail stored later was within the limit,
LEMMA NextStored == TypeOK /\ SessionInv /\ FlowInv /\ StoredWithin /\ [Next]_vars => StoredWithin'
<1> SUFFICES ASSUME TypeOK, SessionInv, FlowInv, StoredWithin, [Next]_vars, NEW s \in Socket
             PROVE  StoredFit(s)'
  BY DEF StoredWithin
<1>1. StoredFit(s)
  BY DEF StoredWithin
<1>2. CASE mDb' = mDb
  <2>1. Stored(s)' = Stored(s)
    BY <1>2 DEF Stored
  <2> QED
    BY <1>1, <2>1 DEF StoredFit
<1>3. ASSUME NEW u \in Socket, ~crashed, Running("done", u), MailOf(u) # NoMail,
             \A t \in Socket \ {u} : Stored(t)' = Stored(t),
             Stored(u)' = Append(Stored(u), MailOf(u))
      PROVE  StoredFit(s)'
  <2>1. CASE s # u
    BY <1>1, <1>3, <2>1 DEF StoredFit
  <2>2. CASE s = u
    <3>1. Stored(u) \in Seq(Mail)
      BY StoredMails DEF TypeOK, Stored, MailsOf
    <3>2. MailOf(u) \in Mail
      <4>1. smsocket[u] \in SMSocket
        BY DEF TypeOK
      <4> QED
        BY <1>3, <4>1, SMSocketFields DEF MailOf
    <3> DEFINE p == Stored(u)
               mail == MailOf(u)
    <3>3. BodySize(mail.body) <= MaxData
      BY <1>3, DoneMail
    <3> HIDE DEF p, mail
    <3>4. \A i \in 1..Len(p) : BodySize(p[i].body) <= MaxData
      BY <1>1, <2>2 DEF StoredFit, p
    <3>5. p \in Seq(Mail) /\ mail \in Mail
      BY <3>1, <3>2 DEF p, mail
    <3>6. ASSUME NEW i \in 1..Len(Append(p, mail))
          PROVE  BodySize(Append(p, mail)[i].body) <= MaxData
      <4>1. /\ Len(p) \in Nat /\ Len(Append(p, mail)) = Len(p) + 1
            /\ \A j \in 1..Len(p) : Append(p, mail)[j] = p[j]
            /\ Append(p, mail)[Len(p) + 1] = mail
        BY <3>5, MailAppend
      <4>2. CASE i = Len(p) + 1
        BY <3>3, <4>1, <4>2
      <4>3. CASE i # Len(p) + 1
        <5>1. i \in 1..Len(p)
          BY <4>1, <4>3
        <5> QED
          BY <3>4, <4>1, <5>1
      <4> QED
        BY <4>2, <4>3
    <3> QED
      BY <1>3, <2>2, <3>6 DEF StoredFit, p, mail
  <2> QED
    BY <2>1, <2>2
<1>4. CASE UNCHANGED vars
  BY <1>2, <1>4 DEF vars
<1>5. CASE Next
  <2>1. ~crashed
    BY <1>5 DEF Next
  <2> QED
    BY <1>2, <1>3, <1>5, <2>1, StoredChange
<1> QED
  BY <1>4, <1>5

\* so that the size limit holds.
LEMMA WithinLimit == TypeOK /\ SessionInv /\ StoredWithin => SizeLimit
<1> SUFFICES ASSUME TypeOK, SessionInv, StoredWithin, NEW s \in Socket
             PROVE  /\ socket[s].state = "DATA" /\ socket[s].email_size <= MaxData
                         => socket[s].email_size = BodySize(txn[s].body)
                    /\ socket[s].state = "DATA" /\ ~socket[s].stop
                         => socket[s].email_size <= MaxData
                    /\ \A i \in DOMAIN mDb[s] : BodySize(mDb[s][i].mail.body) <= MaxData
  BY DEF SizeLimit
<1>1. SessionFits(s)
  BY DEF SessionInv
<1>2. socket[s].email_size \in Nat /\ MaxData \in Nat
  BY PendingTypes, FieldTypes, BoundAssumption
<1>3. socket[s].state = "DATA" /\ ~socket[s].stop => socket[s].email_size <= MaxData
  <2>1. ~(socket[s].email_size > MaxData) => socket[s].email_size <= MaxData
    BY <1>2
  <2> QED
    BY <1>1, <2>1 DEF SessionFits, CutOff
<1>4. ASSUME NEW i \in DOMAIN mDb[s] PROVE BodySize(mDb[s][i].mail.body) <= MaxData
  <2>1. mDb[s] \in Seq(SMEmail)
    BY DEF TypeOK
  <2>2. i \in 1..Len(mDb[s])
    BY <2>1
  <2>3. Len(Stored(s)) = Len(mDb[s]) /\ Stored(s)[i] = mDb[s][i].mail
    BY <2>1, <2>2, StoredMails DEF Stored, MailsOf
  <2> QED
    BY <2>2, <2>3 DEF StoredWithin, StoredFit
<1> QED
  BY <1>1, <1>3, <1>4 DEF SessionFits

\* The size limit (EMAILZ_MAX_INDATA_SIZE), whatever the clients send and
\* whatever the order of the steps: email_size counts the lines handed over
\* since DATA, and no mail stored is larger than the limit.
THEOREM SizeStaysLimited == Spec => []SizeLimit
<1>1. Spec => []StoredWithin
  BY InitStored, NextStored, FlowStays, SessionStays, TypeCorrect, PTL DEF Spec
<1> QED
  BY <1>1, WithinLimit, SessionStays, TypeCorrect, PTL

-------------------------------------------------------------------------------
\* The only step that raises is handleData's.
Raising == \E s \in Socket : /\ Running("data", s)
                              /\ Head(handlerQ).line.text.kind = "undecodable"

LEMMA Crash ==
  ASSUME Polite, TypeOK, SessionInv, FlowInv, ~crashed, [Next]_vars, crashed'
  PROVE  Raising /\ due' = due /\ mDb' = mDb
<1>1. PICK u \in Socket : LibStep(u) \/ RunBlock(u)
  BY DEF Next, LibStep, vars
<1>2. CASE LibStep(u)
  BY <1>2, LibDispatches DEF appVars
<1>3. CASE RunAccept(u) \/ RunSmtp(u) \/ RunClose(u) \/ RunOpen(u)
  BY <1>3 DEF RunAccept, RunSmtp, RunClose, RunOpen, appVars, HandleSmtp, HandleFrom,
              HandleRcpt, SetContext
<1>4. CASE RunData(u)
  BY <1>4 DEF RunData, HandleData, DataRaises, Raising
<1>5. CASE RunDone(u)
  <2>1. Running("done", u) /\ HandleEmail(u)
    BY <1>5 DEF RunDone
  <2>2. smsocket[u].email # NoMail /\ smsocket[u].email.mail.rcpt = <<>>
    BY <2>1 DEF HandleEmail
  <2>3. smsocket[u].email.mail # NoMail
    <3>1. smsocket[u] \in SMSocket
      BY DEF TypeOK
    <3> QED
      BY <2>2, <3>1, SMSocketFields, NoMailAssumption
  <2>4. MailOf(u) = smsocket[u].email.mail
    BY <2>2 DEF MailOf
  <2> QED
    BY <2>1, <2>2, <2>3, <2>4, DoneMail
<1> QED
  BY <1>1, <1>2, <1>3, <1>4, <1>5 DEF RunBlock

\* As long as the clients keep the order of commands RFC 5321 asks for, a line
\* that is not UTF-8 is all that can end the process: handleEmailWithSocket never
\* asks for the first of no recipients, and the handlers may be installed as late
\* as the OPEN callback likes.
THEOREM OnlyUndecodableRaises ==
  ASSUME Polite
  PROVE  Spec => RaisesOnlyOnUndecodable
<1>1. TypeOK /\ SessionInv /\ FlowInv /\ [Next]_vars => [crashed' => Raising]_vars
  <2> SUFFICES ASSUME TypeOK, SessionInv, FlowInv, Next, crashed' PROVE Raising
    OBVIOUS
  <2>1. ~crashed
    BY DEF Next
  <2> QED
    BY <2>1, Crash
<1> QED
  BY <1>1, FlowStays, SessionStays, TypeCorrect, PTL DEF Spec, RaisesOnlyOnUndecodable, Raising

\* StoredKept at the head of the queue is StoredIsTail.
LEMMA FlowIsTail == Polite /\ TypeOK /\ FlowInv /\ ~crashed => StoredIsTail
<1> SUFFICES ASSUME Polite, TypeOK, FlowInv, ~crashed, NEW s \in Socket
             PROVE  \E lost \in 0..Len(due[s]) - Len(mDb[s]) :
                      \A i \in DOMAIN mDb[s] : Remains(Stored(s)[i], due[s][i + lost])
  BY DEF StoredIsTail
<1>1. PICK mode, E, D : Dialogue(s, mode) /\ Flow(s, handlerQ, E, D, View(s, mode))
  BY DEF FlowInv, FlowAt
<1>2. PICK n : n = D[0]
  OBVIOUS
<1>3. StoredKept(n, View(s, mode))
  BY <1>1, <1>2 DEF Flow
<1>4. /\ n \in 0..Len(due[s]) /\ Len(Stored(s)) <= n
      /\ \A k \in 1..Len(Stored(s)) : Remains(Stored(s)[k], due[s][n - Len(Stored(s)) + k])
  <2>1. PICK v : v = View(s, mode)
    OBVIOUS
  <2>2. v.stored = Stored(s) /\ v.due = due[s]
    BY <2>1, ViewFields
  <2>3. StoredKept(n, v)
    BY <1>3, <2>1
  <2> QED
    BY <2>2, <2>3 DEF StoredKept, Kept
<1>5. mDb[s] \in Seq(SMEmail) /\ due[s] \in Seq(Mail)
  BY DEF TypeOK
<1>6. /\ Len(Stored(s)) = Len(mDb[s]) /\ Len(mDb[s]) \in Nat /\ Len(due[s]) \in Nat
      /\ DOMAIN mDb[s] = 1..Len(mDb[s])
  BY <1>5, StoredMails DEF Stored, MailsOf
<1> DEFINE lost == n - Len(mDb[s])
<1>7. lost \in 0..Len(due[s]) - Len(mDb[s])
  <2>1. n \in Nat /\ n <= Len(due[s]) /\ Len(mDb[s]) <= n
    BY <1>4, <1>6
  <2> QED
    BY <1>6, <2>1
<1>8. ASSUME NEW i \in DOMAIN mDb[s] PROVE Remains(Stored(s)[i], due[s][i + lost])
  <2>1. n - Len(Stored(s)) + i = i + lost /\ i \in 1..Len(Stored(s))
    BY <1>4, <1>6
  <2> QED
    BY <1>4, <2>1
<1> QED
  BY <1>7, <1>8

\* A connection loses mails only from the front, and only lines from the front
\* of the mails, whenever its OPEN callback runs.
THEOREM StoredStaysTail ==
  ASSUME Polite
  PROVE  Spec => []StoredIsTail
<1>1. TypeOK /\ FlowInv /\ ~crashed => StoredIsTail
  BY FlowIsTail
<1>2. Init => ~crashed
  BY DEF Init, AppInit
<1>3. TypeOK /\ SessionInv /\ FlowInv /\ StoredIsTail /\ ~crashed /\ [Next]_vars /\ crashed'
        => StoredIsTail'
  <2> SUFFICES ASSUME TypeOK, SessionInv, FlowInv, StoredIsTail, ~crashed, [Next]_vars, crashed'
               PROVE  StoredIsTail'
    OBVIOUS
  <2>1. due' = due /\ mDb' = mDb
    BY Crash
  <2> QED
    BY <2>1 DEF StoredIsTail, Stored
<1>4. StoredIsTail /\ crashed /\ [Next]_vars => StoredIsTail'
  <2> SUFFICES ASSUME StoredIsTail, crashed, [Next]_vars PROVE StoredIsTail'
    OBVIOUS
  <2>1. due' = due /\ mDb' = mDb
    BY DEF Next, vars
  <2> QED
    BY <2>1 DEF StoredIsTail, Stored
<1> QED
  BY <1>1, <1>2, <1>3, <1>4, FlowStays, SessionStays, TypeCorrect, PTL DEF Spec

-------------------------------------------------------------------------------
(***************************************************************************)
(* The refinement.  Inbox and AllStored are the abstract variables.         *)
(***************************************************************************)
InboxOf(s) == SubSeq(due[s], Len(mDb[s]) + 1, Len(due[s]))
Inbox     == [s \in Socket |-> InboxOf(s)]
AllStored == [s \in Socket |-> Stored(s)]

\* The rest of a sequence behind its first n.
LEMMA RestAppend ==
  ASSUME NEW q \in Seq(Mail), NEW mail \in Mail, NEW n \in 0..Len(q)
  PROVE  /\ SubSeq(q, n + 1, Len(q)) \in Seq(Mail)
         /\ SubSeq(Append(q, mail), n + 1, Len(q) + 1) = Append(SubSeq(q, n + 1, Len(q)), mail)
<1> DEFINE m == Len(q)
           r == Append(q, mail)
           p == SubSeq(q, n + 1, m)
           t == SubSeq(r, n + 1, m + 1)
           u == Append(p, mail)
<1>1. /\ m \in Nat /\ n \in Nat /\ n <= m
      /\ r \in Seq(Mail) /\ Len(r) = m + 1 /\ r[m + 1] = mail /\ \A i \in 1..m : r[i] = q[i]
  OBVIOUS
<1>2. p \in Seq(Mail) /\ Len(p) = m - n /\ \A i \in 1..m - n : p[i] = q[n + i]
  <2>1. CASE n = m
    <3>1. p = <<>>
      BY <1>1, <2>1, SubSeqEmpty
    <3> QED
      BY <1>1, <2>1, <3>1
  <2>2. CASE n < m
    <3>1. n + 1 \in 1..m + 1 /\ m \in n..m
      BY <1>1, <2>2
    <3>2. p \in Seq(Mail) /\ Len(p) = m - n
      BY <1>1, <2>2
    <3>3. \A i \in 1..m - n : p[i] = q[n + i]
      BY <1>1, <2>2
    <3> QED
      BY <3>2, <3>3
  <2> QED
    BY <1>1, <2>1, <2>2
<1> HIDE DEF r
<1>3. t \in Seq(Mail) /\ Len(t) = m + 1 - n /\ \A i \in 1..m + 1 - n : t[i] = r[n + i]
  BY <1>1
<1> HIDE DEF p, t
<1>4. /\ u \in Seq(Mail) /\ Len(u) = m - n + 1 /\ u[m - n + 1] = mail
      /\ \A i \in 1..m - n : u[i] = p[i]
  BY <1>1, <1>2, MailAppend
<1> HIDE DEF u
<1>5. ASSUME NEW i \in 1..m + 1 - n PROVE t[i] = u[i]
  <2>1. CASE i = m + 1 - n
    <3>1. n + i = m + 1 /\ i = m - n + 1
      BY <1>1, <2>1
    <3> QED
      BY <1>1, <1>3, <1>4, <3>1
  <2>2. CASE i # m + 1 - n
    <3>1. i \in Nat /\ i >= 1 /\ i <= m + 1 - n
      BY <1>1
    <3>2. i \in 1..m - n /\ n + i \in 1..m
      BY <1>1, <2>2, <3>1
    <3> QED
      BY <1>1, <1>2, <1>3, <1>4, <3>2
  <2> QED
    BY <2>1, <2>2
<1>6. Len(t) = Len(u) /\ \A i \in 1..Len(t) : t[i] = u[i]
  BY <1>1, <1>3, <1>4, <1>5
<1>7. t = u
  BY <1>3, <1>4, <1>6, SeqEqual
<1> QED
  BY <1>2, <1>7 DEF p, t, u, r

\* The first of the rest, and the rest behind it.
LEMMA RestTail ==
  ASSUME NEW q \in Seq(Mail), NEW n \in 0..Len(q), n + 1 \in 1..Len(q)
  PROVE  /\ SubSeq(q, n + 1, Len(q)) # <<>>
         /\ Head(SubSeq(q, n + 1, Len(q))) = q[n + 1]
         /\ Tail(SubSeq(q, n + 1, Len(q))) = SubSeq(q, n + 2, Len(q))
<1> DEFINE m == Len(q)
           p == SubSeq(q, n + 1, m)
           t == SubSeq(q, n + 2, m)
<1>1. m \in Nat /\ n \in Nat /\ n + 1 <= m
  OBVIOUS
<1>2. p \in Seq(Mail) /\ Len(p) = m - n /\ \A i \in 1..m - n : p[i] = q[n + i]
  BY <1>1
<1>3. t \in Seq(Mail) /\ Len(t) = m - n - 1 /\ \A i \in 1..m - n - 1 : t[i] = q[n + 1 + i]
  <2>1. CASE n + 1 = m
    <3>1. t = <<>>
      BY <1>1, <2>1, SubSeqEmpty
    <3> QED
      BY <1>1, <2>1, <3>1
  <2>2. CASE n + 1 < m
    BY <1>1, <2>2
  <2> QED
    BY <1>1, <2>1, <2>2
<1> HIDE DEF p, t
<1>4. /\ p # <<>> /\ Head(p) = p[1] /\ Tail(p) \in Seq(Mail) /\ Len(Tail(p)) = m - n - 1
      /\ \A i \in 1..m - n - 1 : Tail(p)[i] = p[i + 1]
  BY <1>1, <1>2
<1>5. ASSUME NEW i \in 1..m - n - 1 PROVE Tail(p)[i] = t[i]
  <2>1. i \in Nat /\ i + 1 \in 1..m - n /\ n + (i + 1) = n + 1 + i
    BY <1>1
  <2> QED
    BY <1>2, <1>3, <1>4, <2>1
<1>6. p[1] = q[n + 1]
  <2>1. 1 \in 1..m - n
    BY <1>1
  <2> QED
    BY <1>2, <2>1
<1>7. Tail(p) = t
  <2> DEFINE u == Tail(p)
  <2>1. u \in Seq(Mail) /\ Len(u) = Len(t) /\ \A i \in 1..Len(u) : u[i] = t[i]
    BY <1>3, <1>4, <1>5
  <2> HIDE DEF u
  <2>2. u = t
    BY <1>3, <2>1, SeqEqual
  <2> QED
    BY <2>2 DEF u
<1> QED
  BY <1>4, <1>6, <1>7 DEF p, t

-------------------------------------------------------------------------------
\* How the mails handed over change.
LEMMA DueChange ==
  ASSUME TypeOK, TypeOK', SessionInv, NEW u \in Socket, LibStep(u)
  PROVE  /\ mDb' = mDb
         /\ \A t \in Socket \ {u} : due'[t] = due[t]
         /\ due'[u] = due[u] \/ due'[u] = Append(due[u], txn[u])
<1>0. SessionTypeOK
  BY TypeSplit
<1>1. mDb' = mDb /\ Only(u)
  BY LibDispatches DEF appVars
<1>2. due'[u] = due[u] \/ due'[u] = Append(due[u], txn[u])
  <2>1. CASE Connect(u)
    BY <1>0, <2>1, ConnectEffect DEF Connect, Beside
  <2>2. CASE Client(u)
    BY <1>0, <2>2, ClientEffect DEF Client
  <2>3. CASE Arrival(u) \/ ReadReturns(u) \/ ByeCompletes(u)
    BY <1>0, <2>3, StopEffect, ReadPlainEffect, ReadSecureEffect DEF Arrival, Beside
  <2>4. CASE HandleLine(u)
    BY <1>0, <2>4, DataEndEffect, DataLineEffect, NoCommandEffect, CommandEffect DEF HandleLine
  <2>5. CASE Cleanup(u)
    BY <1>0, <2>5, CleanupEffect DEF Beside
  <2> QED
    BY <2>1, <2>2, <2>3, <2>4, <2>5 DEF LibStep, Receive, Work, Progress, Handling
<1> QED
  BY <1>1, <1>2 DEF Only

\* The mails stored are no more than those handed over.
LEMMA Rests ==
  ASSUME TypeOK, FlowInv, ~crashed, NEW s \in Socket
  PROVE  /\ due[s] \in Seq(Mail) /\ mDb[s] \in Seq(SMEmail)
         /\ Len(mDb[s]) = Len(Stored(s)) /\ Len(mDb[s]) \in 0..Len(due[s])
<1>1. due[s] \in Seq(Mail) /\ mDb[s] \in Seq(SMEmail)
  BY DEF TypeOK
<1>2. Len(Stored(s)) = Len(mDb[s]) /\ Len(mDb[s]) \in Nat /\ Len(due[s]) \in Nat
  BY <1>1, StoredMails DEF Stored, MailsOf
<1>3. PICK mode, E, D : Dialogue(s, mode) /\ Flow(s, handlerQ, E, D, View(s, mode))
  BY DEF FlowInv, FlowAt
<1>4. PICK v, n : v = View(s, mode) /\ n = D[0]
  OBVIOUS
<1>5. StoredKept(n, v) /\ v.stored = Stored(s) /\ v.due = due[s]
  BY <1>3, <1>4, ViewFields DEF Flow
<1>6. n \in 0..Len(due[s]) /\ Len(Stored(s)) <= n
  BY <1>5 DEF StoredKept
<1> QED
  BY <1>1, <1>2, <1>6

\* A mail is handed over.
LEMMA HandOverStep ==
  ASSUME TypeOK, TypeOK', FlowInv, ~crashed, crashed' = crashed, NEW u \in Socket, mDb' = mDb,
         \A t \in Socket \ {u} : due'[t] = due[t],
         due'[u] = Append(due[u], txn[u])
  PROVE  Drop!HandOver(u)
<1>1. /\ due[u] \in Seq(Mail) /\ Len(mDb[u]) \in 0..Len(due[u]) /\ txn[u] \in Mail
  BY Rests DEF TypeOK
<1>2. Len(due'[u]) = Len(due[u]) + 1
  BY <1>1, MailAppend
<1>3. InboxOf(u)' = Append(InboxOf(u), txn[u]) /\ InboxOf(u) \in Seq(Mail)
  BY <1>1, <1>2, RestAppend DEF InboxOf
<1>4. \A t \in Socket \ {u} : InboxOf(t)' = InboxOf(t)
  BY DEF InboxOf
<1>5. Inbox' = [Inbox EXCEPT ![u] = Append(Inbox[u], txn[u])]
  BY <1>3, <1>4 DEF Inbox
<1>6. AllStored' = AllStored
  BY DEF AllStored, Stored
<1>7. /\ Inbox[u] \in Seq(Mail) /\ Inbox'[u] = Append(Inbox[u], txn[u])
      /\ Len(Inbox'[u]) = Len(Inbox[u]) + 1 /\ Inbox'[u][Len(Inbox[u]) + 1] = txn[u]
  <2>1. Inbox[u] \in Seq(Mail) /\ Inbox'[u] = Append(Inbox[u], txn[u])
    BY <1>3 DEF Inbox
  <2>2. \A q \in Seq(Mail), mail \in Mail :
          Len(Append(q, mail)) = Len(q) + 1 /\ Append(q, mail)[Len(q) + 1] = mail
    BY MailAppend
  <2> QED
    BY <1>1, <2>1, <2>2
<1> QED
  BY <1>1, <1>5, <1>6, <1>7, Zenon DEF Drop!HandOver, Inbox, InboxOf, AllStored

\* A mail is stored.
LEMMA StoreStep ==
  ASSUME Polite, OpenFirst, TypeOK, TypeOK', FlowInv, ~crashed, crashed' = crashed, NEW u \in Socket,
         Running("done", u), MailOf(u) # NoMail, due' = due,
         \A t \in Socket \ {u} : Stored(t)' = Stored(t),
         Stored(u)' = Append(Stored(u), MailOf(u))
  PROVE  Drop!Store(u)
<1>0. \A s \in Socket : Len(mDb[s]) = Len(Stored(s)) /\ Len(mDb'[s]) = Len(Stored(s)')
  <2> SUFFICES ASSUME NEW s \in Socket
               PROVE  Len(mDb[s]) = Len(Stored(s)) /\ Len(mDb'[s]) = Len(Stored(s)')
    OBVIOUS
  <2>1. mDb[s] \in Seq(SMEmail) /\ mDb'[s] \in Seq(SMEmail)
    BY DEF TypeOK
  <2>2. Stored(s) = MailsOf(mDb[s]) /\ Stored(s)' = MailsOf(mDb'[s])
    BY DEF Stored, MailsOf
  <2> QED
    BY <2>1, <2>2, StoredMails
<1>1. PICK n : n = Len(mDb[u])
  OBVIOUS
<1>2. due[u] \in Seq(Mail) /\ n \in 0..Len(due[u]) /\ n = Len(Stored(u))
  BY <1>1, Rests
<1>3. n + 1 \in 1..Len(due[u]) /\ MailOf(u) = due[u][n + 1]
  BY <1>2, DoneMail
<1>4. InboxOf(u) # <<>> /\ Head(InboxOf(u)) = MailOf(u)
      /\ Tail(InboxOf(u)) = SubSeq(due[u], n + 2, Len(due[u]))
  BY <1>1, <1>2, <1>3, RestTail DEF InboxOf
<1>5. Len(mDb'[u]) = n + 1
  <2>1. Stored(u) \in Seq(Mail) /\ Len(Append(Stored(u), MailOf(u))) = Len(Stored(u)) + 1
    <3>1. Stored(u) \in Seq(Mail)
      BY StoredMails DEF TypeOK, Stored, MailsOf
    <3>2. MailOf(u) \in Mail
      <4>1. smsocket[u] \in SMSocket
        BY DEF TypeOK
      <4> QED
        BY <4>1, SMSocketFields DEF MailOf
    <3>3. \A q \in Seq(Mail), mail \in Mail : Len(Append(q, mail)) = Len(q) + 1
      BY MailAppend
    <3> QED
      BY <3>1, <3>2, <3>3
  <2> QED
    BY <1>0, <1>2, <2>1
<1>6. InboxOf(u)' = Tail(InboxOf(u))
  <2>1. (n + 1) + 1 = n + 2
    BY <1>2
  <2> QED
    BY <1>4, <1>5, <2>1 DEF InboxOf
<1>7. \A t \in Socket \ {u} : InboxOf(t)' = InboxOf(t)
  BY <1>0 DEF InboxOf
<1>8. Inbox' = [Inbox EXCEPT ![u] = Tail(Inbox[u])] /\ Inbox[u] # <<>>
  BY <1>4, <1>6, <1>7 DEF Inbox
<1>9. AllStored' = [AllStored EXCEPT ![u] = Append(AllStored[u], Head(Inbox[u]))]
  BY <1>4 DEF AllStored, Inbox
<1> QED
  BY <1>8, <1>9, Zenon DEF Drop!Store, Inbox, InboxOf, AllStored

\* The initial states are initial states of the mail drop,
LEMMA DropInit == Init => Drop!Init
<1> SUFFICES ASSUME Init PROVE Drop!Init
  OBVIOUS
<1>1. ASSUME NEW s \in Socket PROVE InboxOf(s) = <<>> /\ Stored(s) = <<>>
  <2>1. due[s] = <<>> /\ mDb[s] = <<>>
    BY DEF Init, SessionInit, AppInit
  <2>2. Len(<<>>) = 0 /\ <<>> \in Seq(Mail) /\ SubSeq(<<>>, 0 + 1, 0) = <<>>
    BY SubSeqEmpty
  <2>3. InboxOf(s) = <<>>
    BY <2>1, <2>2 DEF InboxOf
  <2> QED
    BY <2>1, <2>3 DEF Stored
<1>2. Inbox = [s \in Socket |-> <<>>] /\ AllStored = [s \in Socket |-> <<>>] /\ crashed = FALSE
  BY <1>1 DEF Inbox, AllStored, Init, AppInit
<1> QED
  BY <1>2, Zenon DEF Drop!Init, Inbox, InboxOf, AllStored

\* and every step is a step of it, or changes none of its variables.
LEMMA DropStep ==
  Polite /\ OpenFirst /\ TypeOK /\ TypeOK' /\ SessionInv /\ FlowInv /\ ~crashed /\ [Next]_vars
    => [Drop!Next]_(Drop!vars)
<1> SUFFICES ASSUME Polite, OpenFirst, TypeOK, TypeOK', SessionInv, FlowInv, ~crashed, [Next]_vars
             PROVE  [Drop!Next]_(Drop!vars)
  OBVIOUS
<1>1. due' = due /\ mDb' = mDb => [Drop!Next]_(Drop!vars)
  <2> SUFFICES ASSUME due' = due, mDb' = mDb PROVE [Drop!Next]_(Drop!vars)
    OBVIOUS
  <2>1. Inbox' = Inbox /\ AllStored' = AllStored
    BY DEF Inbox, InboxOf, AllStored, Stored
  <2>2. CASE crashed'
    <3>1. crashed' = TRUE
      BY <2>2 DEF TypeOK
    <3>2. Drop!Fail
      BY <2>1, <3>1, Zenon DEF Drop!Fail, Inbox, InboxOf, AllStored
    <3> QED
      BY <3>2 DEF Drop!Next
  <2>3. CASE ~crashed'
    <3>1. crashed' = crashed
      BY <2>3 DEF TypeOK
    <3> QED
      BY <2>1, <3>1, Zenon DEF Drop!vars, Inbox, InboxOf, AllStored
  <2> QED
    BY <2>2, <2>3
<1>2. CASE UNCHANGED vars
  BY <1>1, <1>2 DEF vars
<1>3. ASSUME NEW u \in Socket, LibStep(u) PROVE [Drop!Next]_(Drop!vars)
  <2>1. /\ mDb' = mDb
        /\ \A t \in Socket \ {u} : due'[t] = due[t]
        /\ due'[u] = due[u] \/ due'[u] = Append(due[u], txn[u])
    BY <1>3, DueChange
  <2>0. crashed' = crashed
    BY <1>3, LibDispatches DEF appVars
  <2>2. CASE due'[u] = due[u]
    <3>1. due' = due
      <4>1. due \in [Socket -> Seq(Mail)] /\ due' \in [Socket -> Seq(Mail)]
        BY DEF TypeOK
      <4>2. \A t \in Socket : due'[t] = due[t]
        BY <2>1, <2>2
      <4> QED
        BY <4>1, <4>2
    <3> QED
      BY <1>1, <2>1, <3>1
  <2>3. CASE due'[u] = Append(due[u], txn[u])
    BY <2>0, <2>1, <2>3, HandOverStep DEF Drop!Next
  <2> QED
    BY <2>1, <2>2, <2>3
<1>4. ASSUME NEW u \in Socket, RunBlock(u) PROVE due' = due
  BY <1>4 DEF RunBlock, RunAccept, HandleAccept, RunOpen, SetSmtpHandler, SetDataHandler,
              RunSmtp, RunData, RunDone, RunClose
<1>5. CASE Next
  <2>1. PICK u \in Socket : LibStep(u) \/ RunBlock(u)
    BY <1>5 DEF Next, LibStep
  <2>2. CASE mDb' = mDb
    BY <1>1, <1>3, <1>4, <2>1, <2>2
  <2>3. CASE mDb' # mDb
    <3>1. PICK t \in Socket : /\ Running("done", t) /\ MailOf(t) # NoMail
                              /\ due' = due
                              /\ \A d \in Socket \ {t} : Stored(d)' = Stored(d)
                              /\ Stored(t)' = Append(Stored(t), MailOf(t))
      BY <1>5, <2>3, StoredChange
    <3>2. crashed' = crashed
      <4>1. ~crashed'
        BY <2>3, Crash
      <4> QED
        BY <4>1 DEF TypeOK
    <3>3. Drop!Store(t)
      BY <3>1, <3>2, StoreStep
    <3> QED
      BY <3>3 DEF Drop!Next
  <2> QED
    BY <2>2, <2>3
<1> QED
  BY <1>2, <1>5

\* When no client speaks before its OPEN callback has run, every step of the
\* system is a step of the abstract mail drop, or changes none of its variables:
\* a mail handed over is stored as it is, once, in order, and nothing else is.
THEOREM MailDropSafety ==
  ASSUME Polite, OpenFirst
  PROVE  Spec => Drop!Init /\ [][Drop!Next]_(Drop!vars)
<1>1. TypeOK /\ TypeOK' /\ SessionInv /\ FlowInv /\ ~crashed /\ [Next]_vars
        => [Drop!Next]_(Drop!vars)
  BY DropStep
<1>2. crashed /\ [Next]_vars => [Drop!Next]_(Drop!vars)
  <2> SUFFICES ASSUME crashed, [Next]_vars PROVE UNCHANGED Drop!vars
    OBVIOUS
  <2>1. due' = due /\ mDb' = mDb /\ crashed' = crashed
    BY DEF Next, vars
  <2>2. Inbox' = Inbox /\ AllStored' = AllStored
    BY <2>1 DEF Inbox, InboxOf, AllStored, Stored
  <2> QED
    BY <2>1, <2>2, Zenon DEF Drop!vars, Inbox, InboxOf, AllStored
<1> QED
  BY <1>1, <1>2, DropInit, FlowStays, SessionStays, TypeCorrect, PTL DEF Spec
===============================================================================
