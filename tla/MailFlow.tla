------------------------------- MODULE MailFlow -------------------------------
(***************************************************************************)
(* The whole path of a mail: clients, libEmailz's connections, the serial  *)
(* handler queue and the application that consumes it.                     *)
(***************************************************************************)
EXTENDS SmtpSession, SpamassApp

VARIABLES
  openStep    \* progress of the OPEN callback at the head of the queue

vars == <<socket, handlerQ, peer, txn, due, smsocket, mDb, crashed, openStep>>

TypeOK ==
  /\ socket \in [Socket -> SocketState]
  /\ handlerQ \in Seq(Block)
  /\ peer \in [Socket -> PeerState]
  /\ txn \in [Socket -> Mail]
  /\ due \in [Socket -> Seq(Mail)]
  /\ smsocket \in [Socket -> SMSocket]
  /\ mDb \in [Socket -> Seq(SMEmail)]
  /\ crashed \in BOOLEAN
  /\ openStep \in 0..2

Init ==
  /\ SessionInit
  /\ AppInit
  /\ openStep = 0

-------------------------------------------------------------------------------
(***************************************************************************)
(* The handler queue runs its blocks one after the other.                  *)
(***************************************************************************)
Running(kind, s) ==
  /\ handlerQ # <<>>
  /\ Head(handlerQ).kind = kind
  /\ Head(handlerQ).sock = s

BlockEnds == handlerQ' = Tail(handlerQ)

RunAccept(s) ==
  /\ Running("accept", s)
  /\ HandleAccept(s)
  /\ UNCHANGED <<appVars, openStep>>

\* The OPEN callback installs the handlers one after the other while the read
\* handler may be running, then sets the context.
RunOpen(s) ==
  /\ Running("open", s)
  /\ \/ /\ openStep = 0
        /\ SetSmtpHandler(s)
        /\ openStep' = 1
        /\ UNCHANGED <<handlerQ, appVars>>
     \/ /\ openStep = 1
        /\ SetDataHandler(s)
        /\ openStep' = 2
        /\ UNCHANGED <<handlerQ, appVars>>
     \/ /\ openStep = 2
        /\ SetContext(s)
        /\ BlockEnds
        /\ openStep' = 0
        /\ UNCHANGED <<socket, peer, txn, due>>

RunSmtp(s) ==
  /\ Running("smtp", s)
  /\ HandleSmtp(s, Head(handlerQ).line)
  /\ BlockEnds
  /\ UNCHANGED <<socket, peer, txn, due, openStep>>

RunData(s) ==
  /\ Running("data", s)
  /\ HandleData(s, Head(handlerQ).line)
  /\ BlockEnds
  /\ UNCHANGED <<socket, peer, txn, due, openStep>>

RunDone(s) ==
  /\ Running("done", s)
  /\ HandleEmail(s)
  /\ BlockEnds
  /\ UNCHANGED <<socket, peer, txn, due, openStep>>

\* The CLOSE callback only takes the connection's marker off the map.
RunClose(s) ==
  /\ Running("close", s)
  /\ BlockEnds
  /\ UNCHANGED <<socket, peer, txn, due, appVars, openStep>>

RunBlock(s) ==
  \/ RunAccept(s)
  \/ RunOpen(s)
  \/ RunSmtp(s)
  \/ RunData(s)
  \/ RunDone(s)
  \/ RunClose(s)

Connect(s) == ListenerAccepts(s) /\ UNCHANGED <<appVars, openStep>>
Client(s)  == ClientStep(s) /\ UNCHANGED <<appVars, openStep>>
Receive(s) == Arrival(s) /\ UNCHANGED <<appVars, openStep>>
Work(s)    == Progress(s) /\ UNCHANGED <<appVars, openStep>>

Next ==
  /\ ~crashed
  /\ \E s \in Socket :
       Connect(s) \/ Client(s) \/ Receive(s) \/ Work(s) \/ RunBlock(s)

\* libdispatch runs the blocks of the handler queue, a read handler that has
\* begun and the cleanup eventually; and the completion of QUIT's reply once the
\* socket is stopped, for a closed channel gives up its writes.  Nothing is
\* assumed of the clients or the network: one that does not read holds a reply,
\* which has no time-out, as long as the channel is open.
Fairness ==
  /\ WF_vars(~crashed /\ \E s \in Socket : RunBlock(s))
  /\ \A s \in Socket : /\ WF_vars(~crashed /\ Work(s) /\ Handling(s))
                       /\ WF_vars(~crashed /\ socket[s].stop /\ Work(s) /\ ByeCompletes(s))
                       /\ WF_vars(~crashed /\ Work(s) /\ Cleanup(s))

Spec == Init /\ [][Next]_vars /\ Fairness

-------------------------------------------------------------------------------
(***************************************************************************)
(* Properties.                                                             *)
(***************************************************************************)
Stored(s) == [i \in DOMAIN mDb[s] |-> mDb[s][i].mail]

\* The abstract specification: what was handed over and is not stored yet is
\* the inbox.
Drop == INSTANCE MailDrop WITH
          inbox <- [s \in Socket |-> SubSeq(due[s], Len(mDb[s]) + 1, Len(due[s]))],
          stored <- [s \in Socket |-> Stored(s)],
          down   <- crashed

\* Every mail acknowledged with 250, or cut off at the size limit, is stored
\* exactly once, with the sender, recipients and lines its own connection
\* sent, in order, and is stored eventually unless the process ends.
ImplementsMailDrop == Drop!Spec

BodySize(body) ==
  LET size[n \in 0..Len(body)] == IF n = 0 THEN 0 ELSE size[n - 1] + body[n].len
  IN  size[Len(body)]

\* The size limit: email_size counts exactly the data lines handed over since
\* DATA, and neither they nor any stored mail exceed EMAILZ_MAX_INDATA_SIZE.
SizeLimit ==
  \A s \in Socket :
    /\ socket[s].state = "DATA" /\ socket[s].email_size <= MaxData
         => socket[s].email_size = BodySize(txn[s].body)
    /\ socket[s].state = "DATA" /\ ~socket[s].stop
         => socket[s].email_size <= MaxData
    /\ \A i \in DOMAIN mDb[s] : BodySize(mDb[s][i].mail.body) <= MaxData

CutOff(s) == socket[s].state = "DATA" /\ socket[s].email_size > MaxData

\* A mail cut off at the limit is the last thing its connection hands over:
\* the rest of its lines, already received or still to come, reach no handler.
NothingAfterCutOff ==
  [][\A s \in Socket :
       CutOff(s) =>
         /\ CutOff(s)' /\ due'[s] = due[s]
         /\ Len(handlerQ') > Len(handlerQ) =>
              LET newest == handlerQ'[Len(handlerQ')]
              IN  newest.sock = s => newest.kind = "close"]_vars

\* A connection's blocks keep their order: nothing of it is queued behind its
\* CLOSE, and its OPEN is in front of every callback about its mail.
BlocksInOrder ==
  \A i, j \in DOMAIN handlerQ :
    i < j /\ handlerQ[i].sock = handlerQ[j].sock
      => /\ handlerQ[i].kind # "close"
         /\ handlerQ[j].kind \notin {"accept", "open"}

\* No mail is stored over another: the keys rcpt__socketId__serial and the
\* file socketId__serial of a connection's mails differ in their serial.
KeysUnique ==
  \A s \in Socket : \A i, j \in DOMAIN mDb[s] :
    mDb[s][i].serial = mDb[s][j].serial => i = j

\* Nothing but a line that is not UTF-8 ends the process: a client that keeps the
\* order never makes handleEmailWithSocket ask for the first of no recipients,
\* however late its handlers are installed.
RaisesOnlyOnUndecodable ==
  [][crashed' => \E s \in Socket : /\ Running("data", s)
                                    /\ Head(handlerQ).line.text.kind = "undecodable"]_vars

\* The comment in emailz_socket_handle_read on the data segment: every line of
\* it, and the "." that ends it, calls the data handler.
DataHandlerCalled ==
  [][\A s \in Socket :
       (DataEnd(s) \/ DataLine(s))
         => /\ Len(handlerQ') = Len(handlerQ) + 1
            /\ handlerQ'[Len(handlerQ')].kind \in {"data", "done"}]_vars

Remains(mail, whole) ==
  /\ mail.from = whole.from
  /\ mail.rcpt = whole.rcpt
  /\ \E n \in 1..Len(whole.body) + 1 :
       mail.body = SubSeq(whole.body, n, Len(whole.body))

\* Whatever the moment the OPEN callback runs, a connection loses mails only
\* from the front: from the first one stored, every mail handed over is, in
\* order, each with its complete envelope and at least a tail of its lines.
StoredIsTail ==
  \A s \in Socket :
    \E lost \in 0..Len(due[s]) - Len(mDb[s]) :
      \A i \in DOMAIN mDb[s] : Remains(Stored(s)[i], due[s][i + lost])

\* A connection that is stopped ends: its read handler returns, the channel is
\* cleaned up and the CLOSE callback runs.
StopLeadsToClose ==
  \A s \in Socket :
    socket[s].stop ~> \/ crashed
                      \/ /\ socket[s].phase = "freed"
                         /\ \A i \in DOMAIN handlerQ : handlerQ[i].sock # s

\* The client of s reads: QUIT's reply gets written.
ClientReads(s) == WF_vars(~crashed /\ Work(s) /\ ByeCompletes(s))

\* "221 closing connection": QUIT of a client that reads its reply closes a
\* connection that has no TLS...
QuitCloses ==
  \A s \in Socket :
    ClientReads(s) =>
      (socket[s].state = "QUIT" /\ ~socket[s].sslcontext
         ~> socket[s].stop \/ crashed)

\* ... and one that has.
SecureQuitCloses ==
  \A s \in Socket :
    ClientReads(s) =>
      (socket[s].state = "QUIT" /\ socket[s].is_secure
         ~> socket[s].stop \/ crashed)
===============================================================================
