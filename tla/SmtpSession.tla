------------------------------ MODULE SmtpSession ------------------------------
(***************************************************************************)
(* libEmailz: the read side of the SMTP connections (emailz.c).            *)
(*                                                                         *)
(* Each connection is read by one dispatch_io handler, never two of them   *)
(* at a time for one connection, on a concurrent queue.  The handler       *)
(* appends the received bytes to indata and handles the complete lines one *)
(* by one; meanwhile other connections' handlers, write completions and    *)
(* the application's serial handler queue run.  One iteration of the line  *)
(* loop is therefore one step.  Callbacks are blocks appended to           *)
(* handlerQ, the FIFO the application consumes.                            *)
(***************************************************************************)
EXTENDS Smtp

CONSTANTS
  MaxData,     \* EMAILZ_MAX_INDATA_SIZE, in the units of a line's len
  MaxLines,    \* bound: MaxLines[s] lines are sent on connection s
  MaxWire,     \* bound: complete lines waiting in the kernel
  Faulty,      \* bound: connections that may time out or break
  Polite,      \* TRUE: clients keep to the order MAIL, RCPT.., DATA, text, "."
  OpenFirst    \* TRUE: clients are silent until the OPEN callback has run

ASSUME BoundAssumption ==
  /\ MaxData \in Nat /\ MaxLines \in [Socket -> Nat] /\ MaxWire \in Nat
  /\ Faulty \subseteq Socket
  /\ Polite \in BOOLEAN /\ OpenFirst \in BOOLEAN

VARIABLES
  socket,      \* socket[s]: the emailz_socket_s
  handlerQ,    \* blocks dispatched to the application's serial queue
  peer,        \* the remote clients (environment)
  txn,         \* history: the transaction the client has been answered for
  due          \* history: the mails handed to the data handler, in order

sessionVars == <<socket, handlerQ, peer, txn, due>>

(***************************************************************************)
(* State.  smtp_handler stands for handler and mask together, both being   *)
(* needed for a callback.  pc is the progress of the read handler: "idle", *)
(* in the line loop ("lines"), or past it ("return"); last records         *)
(* done || error of its invocation.  bye: QUIT's reply is being written, and *)
(* its completion will stop the socket.                                    *)
(***************************************************************************)
SocketState == [
  phase          : {"none", "queued", "open", "freed"},
  state          : Verb \cup {"NONE"},
  email_size     : Nat,
  indata         : Seq(Line),
  pc             : {"idle", "lines", "return"},
  last           : BOOLEAN,
  stop           : BOOLEAN,
  sslcontext     : BOOLEAN,
  is_handshaking : BOOLEAN,
  is_secure      : BOOLEAN,
  smtp_handler   : BOOLEAN,
  data_handler   : BOOLEAN,
  bye            : BOOLEAN]

\* emailz_socket_create: memset to zero.
Fresh == [
  phase |-> "none", state |-> "NONE", email_size |-> 0, indata |-> <<>>,
  pc |-> "idle", last |-> FALSE, stop |-> FALSE,
  sslcontext |-> FALSE, is_handshaking |-> FALSE, is_secure |-> FALSE,
  smtp_handler |-> FALSE, data_handler |-> FALSE, bye |-> FALSE]

\* The blocks of the handler queue; line is the argument of the "smtp" and
\* "data" callbacks, and the line that went over the size limit.
NoLine == [word |-> "", arg |-> NoArg, len |-> 1, text |-> [kind |-> "ends", name |-> "nil"]]
Block ==
  [kind : {"smtp", "data"}, sock : Socket, line : Line] \cup
  [kind : {"accept", "open", "done", "close"}, sock : Socket, line : Line \cup {NoLine}]
B(kind, s, line) == [kind |-> kind, sock |-> s, line |-> line]

PeerState == [mode : {"idle", "mail", "rcpt", "data"}, sent : Nat,
              wire : Seq(Line)]

SessionInit ==
  /\ socket = [s \in Socket |-> Fresh]
  /\ handlerQ = <<>>
  /\ peer = [s \in Socket |->
               [mode |-> "idle", sent |-> 0, wire |-> <<>>]]
  /\ txn = [s \in Socket |-> EmptyMail]
  /\ due = [s \in Socket |-> <<>>]

-------------------------------------------------------------------------------
(***************************************************************************)
(* The remote clients.  mode is the client's own view of the dialogue.      *)
(***************************************************************************)
\* Fault: a read handler that does not look at socket->stop.
ReadableStopped(s) ==
  /\ socket[s].phase = "open"
  /\ socket[s].pc = "idle"

\* The read handler is not running and will not return at once.
Readable(s) ==
  /\ socket[s].phase = "open"
  /\ socket[s].pc = "idle"
  /\ ~socket[s].stop

ModeAfter(mode, line) ==
  CASE mode = "data" /\ line.word = "."  -> "idle"
    [] mode # "data" /\ line.word = "MAIL" -> "mail"
    [] mode # "data" /\ line.word = "RCPT" -> "rcpt"
    [] mode # "data" /\ line.word = "DATA" -> "data"
    [] mode # "data" /\ line.word = "RSET" -> "idle"
    [] OTHER                              -> mode

InOrder(mode, line) ==
  mode # "data" =>
    /\ line.word = "RCPT" => mode \in {"mail", "rcpt"} /\ line.arg \in Arg
    /\ line.word = "DATA" => mode = "rcpt"
    /\ line.word # "."

\* Lines a client sends while the read handler is busy wait in the kernel:
\* they are taken as sent when it has returned.  After STARTTLS a client speaks
\* again only once the handshake is done.
ClientSends(s, line) ==
  /\ Readable(s)
  /\ peer[s].sent < MaxLines[s]
  /\ Len(peer[s].wire) < MaxWire
  /\ Polite => InOrder(peer[s].mode, line)
  /\ OpenFirst => socket[s].data_handler
  /\ socket[s].sslcontext => socket[s].is_secure
  /\ peer' = [peer EXCEPT ![s] = [mode |-> ModeAfter(peer[s].mode, line),
                                  sent |-> peer[s].sent + 1,
                                  wire |-> Append(peer[s].wire, line)]]
  /\ UNCHANGED <<socket, handlerQ, txn, due>>

-------------------------------------------------------------------------------
\* dispatch_async to the handler queue.
Dispatch(blocks) == handlerQ' = handlerQ \o blocks

\* The listener's event handler: accept(), dispatch the accept callback.
ListenerAccepts(s) ==
  /\ socket[s].phase = "none"
  /\ Dispatch(<<B("accept", s, NoLine)>>)
  /\ socket' = [socket EXCEPT ![s].phase = "queued"]
  /\ UNCHANGED <<peer, txn, due>>

\* emailz_handle_accept, run as a block of the handler queue: create the
\* socket, dispatch its OPEN callback behind the blocks waiting there, start
\* reading, write the banner.
HandleAccept(s) ==
  /\ socket[s].phase = "queued"
  /\ handlerQ' = Append(Tail(handlerQ), B("open", s, NoLine))
  /\ socket' = [socket EXCEPT ![s] = [Fresh EXCEPT !.phase = "open"]]
  /\ UNCHANGED <<peer, txn, due>>

\* The application installs its callbacks, from the OPEN block.
SetSmtpHandler(s) ==
  /\ socket' = [socket EXCEPT ![s].smtp_handler = TRUE]
  /\ UNCHANGED <<peer, txn, due>>

SetDataHandler(s) ==
  /\ socket' = [socket EXCEPT ![s].data_handler = TRUE]
  /\ UNCHANGED <<peer, txn, due>>

-------------------------------------------------------------------------------
(***************************************************************************)
(* The read handler.                                                       *)
(***************************************************************************)
\* Invoked with data in the clear: received lines, the interval's empty data,
\* the end of the stream.
ReadPlain(s) ==
  LET sk == socket[s] IN
  /\ Readable(s)
  /\ ~sk.sslcontext
  /\ \E last \in BOOLEAN :
       /\ peer[s].wire # <<>> \/ sk.indata # <<>> \/ last
       /\ socket' = [socket EXCEPT ![s] =
                       [sk EXCEPT !.indata = sk.indata \o peer[s].wire,
                                  !.pc = "lines",
                                  !.last = last]]
  /\ peer' = [peer EXCEPT ![s].wire = <<>>]
  /\ UNCHANGED <<handlerQ, txn, due>>

\* Invoked with data on a connection with an SSL context.  A handshake that
\* would block returns without a change.  One that fails stops the socket and
\* returns.
HandshakeFails(s) ==
  /\ Readable(s)
  /\ socket[s].sslcontext /\ socket[s].is_handshaking
  /\ socket' = [socket EXCEPT ![s].stop = TRUE]
  /\ UNCHANGED <<handlerQ, peer, txn, due>>

\* A handshake that completes goes on to SSLRead, which delivers what a secure
\* client sent.  When SSLRead fails, the socket is stopped but the lines in
\* indata are still handled.  Bytes sent in the clear are no TLS record, and a
\* context whose setup failed cannot read: both fail.
ReadSecure(s) ==
  LET sk == socket[s] IN
  /\ Readable(s)
  /\ sk.sslcontext
  /\ sk.is_handshaking => peer[s].wire = <<>>
  /\ \E fails, last \in BOOLEAN :
       /\ sk.is_handshaking \/ sk.is_secure \/ fails
       /\ socket' = [socket EXCEPT ![s] =
            [sk EXCEPT !.is_secure = sk.is_secure \/ sk.is_handshaking,
                       !.is_handshaking = FALSE,
                       !.indata = IF sk.is_secure THEN sk.indata \o peer[s].wire
                                                  ELSE sk.indata,
                       !.pc = "lines",
                       !.stop = fails,
                       !.last = last]]
  /\ peer' = [peer EXCEPT ![s].wire = <<>>]
  /\ UNCHANGED <<handlerQ, txn, due>>

\* Invoked without data: nothing received for EMAILZ_SOCKET_TIMEOUT, or an
\* error.
ReadTimeout(s) ==
  /\ s \in Faulty
  /\ Readable(s)
  /\ socket' = [socket EXCEPT ![s].stop = TRUE]
  /\ UNCHANGED <<handlerQ, peer, txn, due>>

InLoop(s) == socket[s].pc = "lines" /\ socket[s].indata # <<>>

\* The line "." ends the data segment: the data handler is told, the mail is
\* acknowledged with 250.
DataEnd(s) ==
  LET sk == socket[s] IN
  /\ InLoop(s)
  /\ sk.state = "DATA"
  /\ Head(sk.indata).word = "."
  /\ Dispatch(IF sk.data_handler THEN <<B("done", s, NoLine)>> ELSE <<>>)
  /\ socket' = [socket EXCEPT ![s] =
                  [sk EXCEPT !.indata = Tail(sk.indata), !.state = "NONE"]]
  /\ due' = [due EXCEPT ![s] = Append(due[s], txn[s])]
  /\ txn' = [txn EXCEPT ![s] = EmptyMail]
  /\ UNCHANGED peer

\* Any other line of the data segment.  Past the size limit the data handler
\* is told the mail is done and the socket is stopped.
DataLine(s) ==
  LET sk   == socket[s]
      line == Head(sk.indata)
      size == sk.email_size + line.len
      over == size > MaxData
  IN
  /\ InLoop(s)
  /\ sk.state = "DATA"
  /\ line.word # "."
  /\ Dispatch(IF sk.data_handler
              THEN <<B(IF over THEN "done" ELSE "data", s, line)>> ELSE <<>>)
  /\ socket' = [socket EXCEPT ![s] =
                  [sk EXCEPT !.indata = Tail(sk.indata),
                             !.email_size = size,
                             !.stop = sk.stop \/ over,
                             !.pc = IF over THEN "return" ELSE "lines"]]
  /\ IF over
     THEN due' = [due EXCEPT ![s] = Append(due[s], txn[s])] /\ UNCHANGED txn
     ELSE txn' = [txn EXCEPT ![s].body = Append(txn[s].body, line)] /\ UNCHANGED due
  /\ UNCHANGED peer

\* A line outside the data segment that holds no command word ends the loop;
\* the lines behind it stay in indata.
NoCommand(s) ==
  LET sk == socket[s] IN
  /\ InLoop(s)
  /\ sk.state # "DATA"
  /\ ~HasCommand(Head(sk.indata))
  /\ socket' = [socket EXCEPT ![s] =
                  [sk EXCEPT !.indata = Tail(sk.indata), !.pc = "return"]]
  /\ UNCHANGED <<handlerQ, peer, txn, due>>

\* The envelope a command leaves, as the replies tell the client.
Envelope(mail, line) ==
  CASE line.word = "MAIL" -> [EmptyMail EXCEPT !.from = line.arg]
    [] line.word = "RCPT" -> IF line.arg \in Arg
                             THEN [mail EXCEPT !.rcpt = Append(mail.rcpt, line.arg)]
                             ELSE mail
    [] OTHER              -> mail

\* Fault: the application's mask forgets RCPT.
MaskMailOnly == {"MAIL"}

\* The mask the application sets with its smtp handler.
Mask == {"MAIL", "RCPT"}

\* Decoding, the smtp callback and the state change every command shares.
TakeCommand(s, line) ==
  /\ InLoop(s)
  /\ socket[s].state # "DATA"
  /\ line = Head(socket[s].indata)
  /\ HasCommand(line)
  /\ Dispatch(IF socket[s].smtp_handler /\ line.word \in Mask
              THEN <<B("smtp", s, line)>> ELSE <<>>)
  /\ txn' = [txn EXCEPT ![s] = Envelope(txn[s], line)]
  /\ UNCHANGED <<peer, due>>

\* Fault: email_size keeps counting from one mail to the next.
SizeKept(sk, line) == sk.email_size

\* DATA starts a new count.
SizeAfter(sk, line) == IF line.word = "DATA" THEN 0 ELSE sk.email_size

\* Fault: QUIT is answered like any other command.
ByeForgotten(sk, line) == sk.bye

\* The completion of QUIT's reply stops the socket; a reply that goes through
\* SSLWrite takes no completion handler.
ByeAfter(sk, line) == sk.bye \/ (line.word = "QUIT" /\ ~sk.sslcontext)

\* The commands answered with a reply and little else.
PlainCommand(s) ==
  LET sk   == socket[s]
      line == Head(sk.indata)
  IN
  /\ TakeCommand(s, line)
  /\ line.word # "STARTTLS" \/ sk.is_secure
  /\ socket' = [socket EXCEPT ![s] =
       [sk EXCEPT !.indata = Tail(sk.indata),
                  !.state = Command(line),
                  !.email_size = SizeAfter(sk, line),
                  !.bye = ByeAfter(sk, line)]]

\* STARTTLS on a connection that is not secure: emailz_socket_setup_ssl may
\* fail at any of its calls, leaving the context behind or not, or leave the
\* handshake under way (no byte of it has arrived, so it cannot complete).
StartTls(s) ==
  LET sk   == socket[s]
      line == Head(sk.indata)
  IN
  /\ TakeCommand(s, line)
  /\ line.word = "STARTTLS"
  /\ ~sk.is_secure
  /\ \E context, handshaking \in BOOLEAN :
       /\ handshaking => context \/ sk.is_handshaking
       /\ socket' = [socket EXCEPT ![s] =
            [sk EXCEPT !.indata = Tail(sk.indata),
                       !.state = "STARTTLS",
                       !.sslcontext = context,
                       !.is_handshaking = handshaking]]

\* No line left, or the loop was broken out of: the handler returns, after
\* stopping the socket if the stream has ended.
ReadReturns(s) ==
  LET sk == socket[s] IN
  /\ sk.pc = "return" \/ (sk.pc = "lines" /\ sk.indata = <<>>)
  /\ socket' = [socket EXCEPT ![s] =
       [sk EXCEPT !.pc = "idle", !.stop = sk.stop \/ sk.last, !.last = FALSE]]
  /\ UNCHANGED <<handlerQ, peer, txn, due>>

-------------------------------------------------------------------------------
(***************************************************************************)
(* Write completions and the end of the channel.                           *)
(***************************************************************************)
\* Fault: a completion that finds the socket stopped is not counted as done.
ByeUnlessStopped(s) ==
  /\ socket[s].phase = "open"
  /\ socket[s].bye
  /\ ~socket[s].stop
  /\ socket' = [socket EXCEPT ![s].bye = FALSE, ![s].stop = TRUE]
  /\ UNCHANGED <<handlerQ, peer, txn, due>>

\* The completion of QUIT's reply, written or failed.
ByeCompletes(s) ==
  /\ socket[s].phase = "open"
  /\ socket[s].bye
  /\ socket' = [socket EXCEPT ![s].bye = FALSE, ![s].stop = TRUE]
  /\ UNCHANGED <<handlerQ, peer, txn, due>>

\* The completion of any other reply stops the socket if the write failed and
\* does nothing otherwise; such a reply may be under way at any time.
WriteFails(s) ==
  /\ s \in Faulty
  /\ socket[s].phase = "open"
  /\ ~socket[s].stop
  /\ socket' = [socket EXCEPT ![s].stop = TRUE]
  /\ UNCHANGED <<handlerQ, peer, txn, due>>

\* Fault: the channel is cleaned up under a read handler still running.
HandlersMayRun(s) == ~socket[s].bye

\* No handler of the connection's channel is running or pending.
HandlersReturned(s) == socket[s].pc = "idle" /\ ~socket[s].bye

\* The channel's cleanup handler, once it is closed and its handlers have
\* returned: dispatch CLOSE, free the socket.  The blocks still queued read
\* the freed socket; here its memory is taken to stay legible.
Cleanup(s) ==
  /\ socket[s].phase = "open"
  /\ socket[s].stop
  /\ HandlersReturned(s)
  /\ Dispatch(<<B("close", s, NoLine)>>)
  /\ socket' = [socket EXCEPT ![s].phase = "freed"]
  /\ UNCHANGED <<peer, txn, due>>

-------------------------------------------------------------------------------
HandleLine(s) ==
  \/ DataEnd(s)
  \/ DataLine(s)
  \/ NoCommand(s)
  \/ PlainCommand(s)
  \/ StartTls(s)

\* What libdispatch and libEmailz finish by themselves once begun.
Handling(s) ==
  \/ HandleLine(s)
  \/ ReadReturns(s)

Progress(s) ==
  \/ Handling(s)
  \/ ByeCompletes(s)
  \/ Cleanup(s)

\* What the network brings: data, its end, silence, failure.
Arrival(s) ==
  \/ ReadPlain(s)
  \/ HandshakeFails(s)
  \/ ReadSecure(s)
  \/ ReadTimeout(s)
  \/ WriteFails(s)

ClientStep(s) == \E line \in Line : ClientSends(s, line)
===============================================================================
