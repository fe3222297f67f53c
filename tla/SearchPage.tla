------------------------------- MODULE SearchPage -------------------------------
(***************************************************************************)
(* A search of the email database over HTTP: the search block that runs on *)
(* mHttpQueue (emailsForAddress) calls the handler of an                   *)
(* HTTPEmailSearchResponse for each mail, which appends rows to the        *)
(* response's buffer, while the connection's queue cuts the buffer into    *)
(* chunks for the socket, and the handler queue goes on storing mails.     *)
(***************************************************************************)
EXTENDS MailIndex

CONSTANTS
  PageSize,    \* mails a page lists (10 in the code)
  Chunk,       \* READ_CHUNKSIZE, counted in pieces appended to the buffer
  MaxRequests, \* bound: pages requested on the connection
  MaxKills     \* bound: times the process dies and is started again

ASSUME PageAssumption ==
  PageSize \in Nat /\ Chunk \in Nat \ {0} /\ MaxRequests \in Nat /\ MaxKills \in Nat

VARIABLES
  search,     \* the search block
  response,   \* the HTTPEmailSearchResponse
  conn,       \* the HTTPConnection
  queue,      \* the socket's write queue: chunk bodies and what follows them
  sent,       \* pieces of the buffer put in that queue
  failed,     \* an uncaught exception has ended the process
  kills       \* history: times the process was started again

pageVars == <<search, response, conn, queue, sent, failed>>
vars == <<mDb, storing, search, response, conn, queue, sent, failed, kills>>

-------------------------------------------------------------------------------
(***************************************************************************)
(* State.  search.pc: no request yet ("idle"), block dispatched            *)
(* ("queued"), calling the handler for the mails in todo ("mails"), the     *)
(* footer still to be appended by a call with a mail ("foot") or the one   *)
(* with nil ("lastfoot"), or over ("done").  asked is a history variable:  *)
(* the mails of the address wholly stored at the time of the request.      *)
(***************************************************************************)
Ids == 1..NMail

\* What is appended to the buffer: the page's header, a row for a mail (its
\* number), the footer.
HeadPiece == 0
FootPiece == NMail + 1
Piece == 0..FootPiece

Search == [pc : {"idle", "queued", "mails", "foot", "lastfoot", "done"}, addr : 1..NAddr,
           snap : SUBSET Key, todo : SUBSET Ids, asked : SUBSET Ids]

\* emailCount: the mails the handler was called with; mResultCount: those it made
\* a row for; connection: the weak reference to the HTTPConnection is set.
Response == [dataBuffer : Seq(Piece), mIsDone : BOOLEAN, emailCount : Nat,
             mResultCount : Nat, connection : BOOLEAN]

\* current: the response is the connection's httpResponse; wakeups: blocks of
\* responseHasAvailableData for it in the connection's queue; headers:
\* sentResponseHeaders; head: the request is a HEAD; behind, a history variable:
\* chunks of the page before were still to be written when it came.
Conn == [current : BOOLEAN, headers : BOOLEAN, wakeups : Nat,
         responseDataSizes : Seq(Nat), finished : BOOLEAN, closed : BOOLEAN,
         head : BOOLEAN, behind : BOOLEAN, requests : 0..MaxRequests]

Tags == [tag : {"body"}, size : Nat] \cup [tag : {"more", "last"}, size : {0}]

TypeOK ==
  /\ IndexTypeOK
  /\ search \in Search
  /\ response \in Response
  /\ conn \in Conn
  /\ queue \in Seq(Tags)
  /\ sent \in 0..Len(response.dataBuffer)
  /\ failed \in BOOLEAN
  /\ kills \in 0..MaxKills

NoSearch == [pc |-> "idle", addr |-> 1, snap |-> {}, todo |-> {}, asked |-> {}]
NoResponse == [dataBuffer |-> <<>>, mIsDone |-> FALSE, emailCount |-> 0,
               mResultCount |-> 0, connection |-> FALSE]
NoConn == [current |-> FALSE, headers |-> FALSE, wakeups |-> 0,
           responseDataSizes |-> <<>>, finished |-> FALSE, closed |-> FALSE,
           head |-> FALSE, behind |-> FALSE, requests |-> 0]

Init ==
  /\ IndexInit
  /\ search = NoSearch /\ response = NoResponse /\ conn = NoConn
  /\ queue = <<>> /\ sent = 0 /\ failed = FALSE /\ kills = 0

-------------------------------------------------------------------------------
(***************************************************************************)
(* The request, and the search block.                                      *)
(***************************************************************************)
\* replyToHTTPRequest on the connection's queue, for the first request or one
\* that follows on the same connection: create the response with the page's
\* header, dispatch the search.  What is queued of the page before stays, and so
\* do its responseDataSizes.  Its search block, if that still runs, finds no
\* connection, and its wake-ups are not for the connection's httpResponse: both
\* are dropped here.
Request(addr, head) ==
  /\ ~conn.current /\ ~conn.closed /\ conn.requests < MaxRequests
  /\ search' = [NoSearch EXCEPT !.pc = "queued", !.addr = addr,
                                !.asked = {id \in Ids : Whole(mDb, addr, id)}]
  /\ response' = [NoResponse EXCEPT !.dataBuffer = <<HeadPiece>>, !.connection = TRUE]
  /\ conn' = [NoConn EXCEPT !.current = TRUE, !.head = head, !.behind = queue # <<>>,
                            !.requests = conn.requests + 1,
                            !.responseDataSizes = conn.responseDataSizes]
  /\ sent' = 0
  /\ UNCHANGED <<indexVars, queue, failed>>

\* The search block creates its iterator, a snapshot of the database.
BeginSearch ==
  /\ search.pc = "queued"
  /\ search' = [search EXCEPT !.pc = "mails", !.snap = mDb,
                              !.todo = Walked(mDb, search.addr)]
  /\ UNCHANGED <<indexVars, response, conn, queue, sent, failed>>

\* Fault: the walk goes forward.
OldestMail == CHOOSE id \in search.todo : \A other \in search.todo : id <= other

\* The walk goes backward.
NextMail == CHOOSE id \in search.todo : \A other \in search.todo : other <= id

\* emailCount++ >= 10
PageFull == response.emailCount >= PageSize

\* responseHasAvailableData: a block for the connection's queue.
Wake == conn' = [conn EXCEPT !.wakeups = conn.wakeups + 1]

\* The handler refuses to go on without a connection; the walk ends, and the
\* calls that follow it are refused too.
Refuse ==
  /\ search.pc = "mails"
  /\ ~response.connection
  /\ search' = [search EXCEPT !.pc = "done"]
  /\ UNCHANGED <<indexVars, response, conn, queue, sent, failed>>

\* A row is made: the snapshot has the mail's sender and subject (a missing size
\* counts as 0).
AppendRow(id) ==
  /\ Has(search.snap, search.addr, id, "sender")
  /\ Has(search.snap, search.addr, id, "subject")
  /\ response' = [response EXCEPT !.emailCount = response.emailCount + 1,
                                  !.mResultCount = response.mResultCount + 1,
                                  !.dataBuffer = Append(response.dataBuffer, id)]
  /\ search' = [search EXCEPT !.todo = search.todo \ {id}]
  /\ Wake
  /\ UNCHANGED failed

\* A socket id that has not three parts: the handler counts the mail and returns
\* FALSE, which ends the walk; such a mail, the marker of an inner address, is
\* always the last one.
NotASocketId(id) ==
  /\ Has(search.snap, search.addr, id, "unlike")
  /\ response' = [response EXCEPT !.emailCount = response.emailCount + 1]
  /\ search' = [search EXCEPT !.todo = search.todo \ {id}]
  /\ UNCHANGED <<conn, failed>>

\* appendString:nil raises for a mail whose sender or subject the snapshot lacks,
\* and there is none for the marker of an inner address; substringWithRange:
\* raises before that if its first part is shorter than a date.
RowRaises(id) ==
  /\ ~Has(search.snap, search.addr, id, "unlike")
  /\ \/ ~Has(search.snap, search.addr, id, "sender")
     \/ ~Has(search.snap, search.addr, id, "subject")
  /\ failed' = TRUE
  /\ UNCHANGED <<search, response, conn>>

\* handler(email) while the page has room.
ListMail ==
  /\ search.pc = "mails" /\ search.todo # {} /\ response.connection
  /\ ~PageFull
  /\ LET id == NextMail IN AppendRow(id) \/ NotASocketId(id) \/ RowRaises(id)
  /\ UNCHANGED <<indexVars, queue, sent>>

\* handler(email) when the page is full: the response is done, then...
FullPage ==
  /\ search.pc = "mails" /\ search.todo # {} /\ response.connection
  /\ PageFull
  /\ response' = [response EXCEPT !.emailCount = response.emailCount + 1, !.mIsDone = TRUE]
  /\ search' = [search EXCEPT !.pc = "foot", !.todo = search.todo \ {NextMail}]
  /\ UNCHANGED <<indexVars, conn, queue, sent, failed>>

\* handler(nil) after the last mail: likewise.
EndOfMails ==
  /\ search.pc = "mails" /\ search.todo = {} /\ response.connection
  /\ response' = [response EXCEPT !.mIsDone = TRUE]
  /\ search' = [search EXCEPT !.pc = "lastfoot"]
  /\ UNCHANGED <<indexVars, conn, queue, sent, failed>>

\* Fault: the connection is not told.
AppendFooterOnly ==
  /\ search.pc \in {"foot", "lastfoot"}
  /\ response' = [response EXCEPT !.dataBuffer = Append(response.dataBuffer, FootPiece)]
  /\ search' = [search EXCEPT !.pc = IF search.pc = "foot" THEN "mails" ELSE "done"]
  /\ UNCHANGED <<indexVars, conn, queue, sent, failed>>

\* ... the footer is appended.
AppendFooter ==
  /\ search.pc \in {"foot", "lastfoot"}
  /\ response' = [response EXCEPT !.dataBuffer = Append(response.dataBuffer, FootPiece)]
  /\ Wake
  /\ search' = [search EXCEPT !.pc = IF search.pc = "foot" THEN "mails" ELSE "done"]
  /\ UNCHANGED <<indexVars, queue, sent, failed>>

Searching ==
  \/ BeginSearch \/ Refuse \/ ListMail \/ FullPage \/ EndOfMails \/ AppendFooter

-------------------------------------------------------------------------------
(***************************************************************************)
(* The connection's queue.                                                 *)
(***************************************************************************)
RestOf(sizes) == IF sizes = <<>> THEN <<>> ELSE Tail(sizes)

\* The sum of a sequence of sizes.
Total(sizes) ==
  LET sum[n \in 0..Len(sizes)] == IF n = 0 THEN 0 ELSE sum[n - 1] + sizes[n]
  IN  sum[Len(sizes)]

\* Bytes in the write queue, as writeQueueSize counts them.
WriteQueueSize(c) == Total(c.responseDataSizes)

\* Fault: isDone as soon as the search is.
IsDoneAtOnce(offset) == response.mIsDone

\* isDone, when the connection has read up to offset.
IsDone(offset) == response.mIsDone /\ offset >= Len(response.dataBuffer)

\* Fault: readDataOfLength gives what was asked for, data or not.
SendOver(available, c, q) ==
  /\ sent' = sent + available
  /\ conn' = [c EXCEPT !.responseDataSizes = Append(c.responseDataSizes, available)]
  /\ queue' = q \o <<[tag |-> "body", size |-> available], [tag |-> "more", size |-> 0]>>

\* readDataOfLength:available and, if it gives anything, a chunk behind the
\* queue q: its body, and the mark of the last chunk or the line end of any other.
SendChunk(available, c, q) ==
  LET left == Len(response.dataBuffer) - sent
      size == IF available < left THEN available ELSE left
      mark == IF IsDone(sent + size) THEN "last" ELSE "more"
  IN
  IF size = 0
  THEN conn' = c /\ queue' = q /\ UNCHANGED sent
  ELSE /\ sent' = sent + size
       /\ conn' = [c EXCEPT !.responseDataSizes = Append(c.responseDataSizes, size)]
       /\ queue' = q \o <<[tag |-> "body", size |-> size], [tag |-> mark, size |-> 0]>>

\* The end of a page, with the tag HTTP_RESPONSE.
LastMark == [tag |-> "last", size |-> 0]

\* sendResponseHeadersAndBody, in the same block as the request: the headers and
\* the first chunk; for a HEAD request the headers are the end of the page.
SendHeaders ==
  /\ conn.current /\ ~conn.headers
  /\ LET c == [conn EXCEPT !.headers = TRUE] IN
     \/ ~conn.head /\ SendChunk(Chunk, c, queue)
     \/ conn.head /\ conn' = c /\ queue' = Append(queue, LastMark) /\ UNCHANGED sent
  /\ UNCHANGED <<indexVars, search, response, failed>>

\* The request and sendResponseHeadersAndBody are one block of the connection's
\* queue: nothing of that queue runs between them.
BetweenBlocks == conn.current => conn.headers

\* Fault: the write queue is not looked at.
ContinueAnyway(c, q) ==
  IF c.current THEN SendChunk(Chunk, c, q)
  ELSE conn' = c /\ queue' = q /\ UNCHANGED sent

\* continueSendingStandardResponseBody, with the connection and the queue as
\* its caller leaves them.  A nil httpResponse has no data.
Continue(c, q) ==
  IF c.current /\ WriteQueueSize(c) < Chunk
  THEN SendChunk(Chunk - WriteQueueSize(c), c, q)
  ELSE conn' = c /\ queue' = q /\ UNCHANGED sent

\* A block of responseHasAvailableData.
HasAvailableData ==
  /\ conn.wakeups > 0
  /\ BetweenBlocks
  /\ Continue([conn EXCEPT !.wakeups = conn.wakeups - 1], queue)
  /\ UNCHANGED <<indexVars, search, response, failed>>

\* socket:didWriteDataWithTag: for the front of the queue: the body of a chunk,
BodyWritten ==
  /\ queue # <<>> /\ Head(queue).tag = "body"
  /\ queue' = Tail(queue)
  /\ conn' = [conn EXCEPT !.responseDataSizes = RestOf(conn.responseDataSizes)]
  /\ UNCHANGED <<indexVars, search, response, sent, failed>>

\* the end of a chunk,
ChunkWritten ==
  /\ queue # <<>> /\ Head(queue).tag = "more"
  /\ Continue(conn, Tail(queue))
  /\ UNCHANGED <<indexVars, search, response, failed>>

\* the end of a page: the connection's response, be it the one the end belongs
\* to or that of the next request, is told and let go, and the next request is
\* waited for; or shouldDie, as that request's version or its Connection header
\* asks for, and the connection is closed.
LastWritten ==
  /\ queue # <<>> /\ Head(queue).tag = "last"
  /\ LET c == [conn EXCEPT !.responseDataSizes = RestOf(conn.responseDataSizes),
                           !.current = FALSE, !.finished = TRUE]
     IN
     \/ conn' = [c EXCEPT !.headers = FALSE] /\ queue' = Tail(queue)
     \/ conn.current /\ conn' = [c EXCEPT !.closed = TRUE] /\ queue' = <<>>
  /\ response' = [response EXCEPT !.connection = response.connection /\ ~conn.current]
  /\ UNCHANGED <<indexVars, search, sent, failed>>

\* The client goes away, a write that has a time-out is not done in time, or
\* between two pages the next request does not come or is not a request.
Disconnect ==
  /\ conn.requests > 0 /\ ~conn.closed
  /\ queue' = <<>>
  /\ conn' = [conn EXCEPT !.current = FALSE, !.closed = TRUE]
  /\ response' = [response EXCEPT !.connection = FALSE]
  /\ UNCHANGED <<indexVars, search, sent, failed>>

Written == BetweenBlocks /\ (BodyWritten \/ ChunkWritten \/ LastWritten)

Sending == SendHeaders \/ HasAvailableData

-------------------------------------------------------------------------------
\* The process dies, by an exception or otherwise, and is started again: the
\* database is what is left.
Restart ==
  /\ kills < MaxKills
  /\ kills' = kills + 1
  /\ storing' = NoMail /\ failed' = FALSE
  /\ search' = NoSearch /\ response' = NoResponse /\ conn' = NoConn
  /\ queue' = <<>> /\ sent' = 0
  /\ UNCHANGED mDb

Store   == ~failed /\ Storing /\ UNCHANGED <<pageVars, kills>>
Ask     == ~failed /\ (\E addr \in 1..NAddr, head \in BOOLEAN : Request(addr, head))
           /\ UNCHANGED kills
Find    == ~failed /\ Searching /\ UNCHANGED kills
Send    == ~failed /\ Sending /\ UNCHANGED kills
Write   == ~failed /\ (Written \/ (BetweenBlocks /\ Disconnect)) /\ UNCHANGED kills

Next == Store \/ Ask \/ Find \/ Send \/ Write \/ Restart

\* The socket's front write has a time-out (TIMEOUT_WRITE_HEAD): it is written
\* or the socket disconnects.  The body of a chunk has none (TIMEOUT_WRITE_BODY
\* is -1).
TimedWrite == queue # <<>> /\ Head(queue).tag # "body" /\ Write

\* The queues run their blocks.
Fairness == WF_vars(Find) /\ WF_vars(Send) /\ WF_vars(TimedWrite)

Spec == Init /\ [][Next]_vars /\ Fairness

-------------------------------------------------------------------------------
(***************************************************************************)
(* Properties.                                                             *)
(***************************************************************************)
\* The places of the rows in the buffer, and the mails of some of them.
Rows == {i \in DOMAIN response.dataBuffer : response.dataBuffer[i] \in Ids}

Listed(rows) == {response.dataBuffer[i] : i \in rows}

SentRows == Listed({i \in Rows : i <= sent})

\* The page lists each mail at most once, the newest ones, newest first, and
\* never more than PageSize.
PageIsNewest ==
  /\ Cardinality(Rows) <= PageSize
  /\ \A i, j \in Rows : i < j => response.dataBuffer[j] < response.dataBuffer[i]
  /\ \A id \in Walked(search.snap, search.addr), row \in Listed(Rows) :
       id > row => id \in Listed(Rows)

\* When the response to a GET is finished, a mail wholly stored before the
\* request has been sent, unless PageSize newer ones have or an inner address
\* hides it; but the end of a page before it, if that is still to be written
\* when the request comes, may end this one anywhere.
PageIsComplete ==
  conn.finished /\ ~conn.head /\ ~conn.behind =>
    \A id \in search.asked \ SentRows :
      \/ Hidden(search.snap, search.addr, id)
      \/ Cardinality(SentRows) = PageSize /\ \A other \in SentRows : id < other

\* The exception that ends the process comes from a mail whose subject is stored
\* and whose sender is not, one the storing was cut off in, by the snapshot or by
\* the end of an earlier process; or from the marker of an inner address that
\* passes for a mail with a socket id of three parts.
RaisesOnlyOnTornOrPhantom ==
  failed => \E id \in search.todo :
              \/ /\ Has(search.snap, search.addr, id, "subject")
                 /\ ~Has(search.snap, search.addr, id, "sender")
              \/ Has(search.snap, search.addr, id, "socketlike")

\* continueSendingStandardResponseBody: "we always ensure that we place no more
\* than READ_CHUNKSIZE bytes onto the write queue".  It holds for a page that
\* finds the queue empty.
WriteQueueBounded ==
  ~conn.behind => Total([i \in DOMAIN queue |-> queue[i].size]) <= Chunk

\* "The last chunk of the response body will be sent with a tag of
\* HTTP_RESPONSE" (the same comment): nothing follows it.
LastChunkIsLast ==
  ~conn.head =>
    /\ \A i \in DOMAIN queue : queue[i].tag = "last" => i = Len(queue)
    /\ conn.finished => queue = <<>>

\* The client reads what it is sent: a body that can be written is, sooner or
\* later.
ClientReads == WF_vars(~failed /\ BetweenBlocks /\ BodyWritten /\ UNCHANGED kills)

\* A page requested by a client that reads comes to its end, or the connection
\* or the process ends.
PageEnds ==
  ClientReads =>
    (search.pc = "queued" ~> conn.finished \/ conn.closed \/ failed \/ search.pc = "idle")
===============================================================================
