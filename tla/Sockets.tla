------------------------------- MODULE Sockets -------------------------------
(***************************************************************************)
(* libEmailz: the life of a connection (emailz.c), from accept to free.    *)
(*                                                                         *)
(* SmtpSession models what a connection says and takes stopping it as one  *)
(* step.  Here the dialogue is left out and starting and stopping are      *)
(* taken apart, because they run on different queues at once:              *)
(*   - accepts, and the OPEN and CLOSE blocks, on the serial handler queue *)
(*     (main is the accept in progress);                                   *)
(*   - on the concurrent socket queue the read handler of a connection,    *)
(*     the completion of the reply it waits for, and the cleanup handler   *)
(*     of its channel.                                                     *)
(* A thread is the list of what it has still to do.  A test and the call   *)
(* on what it tested are one step; what follows is another.  The kernel    *)
(* gives the lowest free descriptor, so one that was closed comes back.    *)
(***************************************************************************)
EXTENDS Integers, Sequences, FiniteSets

CONSTANTS
  MaxConn,   \* bound: how many connections come
  Fd,        \* bound: the descriptors the kernel gives out
  Tls,       \* the connections that have gone over to TLS when lines are answered
  MayFail    \* TRUE: calls of the system other than accept may fail too

ASSUME SocketsAssumption ==
  MaxConn \in Nat /\ Fd \subseteq Nat \ {0} /\ MayFail \in BOOLEAN /\ Tls \subseteq Nat

VARIABLES
  server,    \* emailz_t: created, listening, or deaf when no listener came up
  owner,     \* kernel: owner[f] is the connection descriptor f stands for
  sock,      \* sock[c]: the emailz_socket_s of the c-th connection
  thread,    \* thread[c][t]: what thread t of connection c has still to do
  clean,     \* clean[c]: the cleanup handler of the channel
  handlerQ,  \* blocks dispatched to the handler queue
  main,      \* the accept block the handler queue is running
  open,      \* emailz->sockets_open
  dead,      \* the process has died of an error of its own
  hist       \* history: what has happened that the code does not exclude

vars == <<server, owner, sock, thread, clean, handlerQ, main, open, dead, hist>>

Conn == 1..MaxConn
NoConn == 0
Threads == {"read", "write"}
Listeners == {"smtp_v4_listener", "smtp_tls_v4_listener"}
Handler == {"smtp", "header", "data"}

\* What a thread does, and what emailz_socket_stop and
\* emailz_socket_record_close consist of.
Step == {"wait", "record", "lines", "reply", "record out", "bye", "close", "clear", "fclose", "null"}

RecordClose == <<"fclose", "null">>

\* Fault: the descriptor stays in the socket.
StopUncleared == <<"close">> \o RecordClose

\* Fault: the record is left open.
StopUnrecorded == <<"close", "clear">>

Stop == <<"close", "clear">> \o RecordClose

\* descriptor 0 is none, and -1 what a failed accept returns.  record is the
\* FILE pointer, log the file it points to.
SocketState == [
  mem      : {"none", "live", "freed"},
  socketfd : Fd \cup {0, -1},
  channel  : {"NULL", "open", "closed"},
  handlers : SUBSET Handler,
  record   : BOOLEAN,
  log      : {"none", "open", "closed"}]

\* Fault: the memory is not cleared.
CreatedUncleared(fd) == [mem |-> "live", socketfd |-> fd, channel |-> "NULL",
                         handlers |-> {}, record |-> FALSE, log |-> "anything"]

\* emailz_socket_create: memset to zero.
Created(fd) == [mem |-> "live", socketfd |-> fd, channel |-> "NULL",
                handlers |-> {}, record |-> FALSE, log |-> "none"]

\* History.  overlap: two threads were in emailz_socket_stop, or one recorded
\* while the other was there.  early: a connection was stopped before its OPEN
\* block had run.  stale: a banner or an OPEN block met freed memory.  raced:
\* two updates of sockets_open met.
History == {"overlap", "early", "stale", "raced"}
Noted(what, happens) == IF happens THEN hist \cup {what} ELSE hist

Idle == [conn |-> NoConn, at |-> "none", seen |-> 0]
Block(kind, c) == [kind |-> kind, conn |-> c, fd |-> 0]

Init ==
  /\ server = "created"
  /\ owner = [f \in Fd |-> NoConn]
  /\ sock = [c \in Conn |-> [Created(0) EXCEPT !.mem = "none"]]
  /\ thread = [c \in Conn |-> [t \in Threads |-> <<>>]]
  /\ clean = [c \in Conn |-> [at |-> "none", seen |-> 0]]
  /\ handlerQ = <<>>
  /\ main = Idle
  /\ open = 0
  /\ dead = FALSE
  /\ hist = {}

-------------------------------------------------------------------------------
(* emailz_start and the listeners. *)

\* emailz_listener_start gives a listener up when one of its calls fails.
ListenerStart(l) == {up \in [Listeners -> BOOLEAN] : up[l] \/ MayFail}

\* Without a key emailz_start returns before it has a listener; otherwise it
\* starts both and returns true whatever comes of them.
EmailzStart ==
  /\ server = "created"
  /\ \/ /\ MayFail
        /\ server' = "deaf"
     \/ \E up \in [Listeners -> BOOLEAN] :
          /\ \A l \in Listeners : up \in ListenerStart(l)
          /\ server' = IF \E l \in Listeners : up[l] THEN "listening" ELSE "deaf"
  /\ UNCHANGED <<owner, sock, thread, clean, handlerQ, main, open, dead, hist>>

FreeFd == {f \in Fd : owner[f] = NoConn}
Lowest == {f \in FreeFd : \A g \in FreeFd : f <= g}

\* The next connection; connections are numbered as they come.
Coming(c) ==
  /\ sock[c].mem = "none"
  /\ \A i \in DOMAIN handlerQ : handlerQ[i].conn # c
  /\ \A d \in 1..c-1 : sock[d].mem # "none" \/ \E i \in DOMAIN handlerQ : handlerQ[i].conn = d

\* The event handler of a listener: what accept returns goes to the accept
\* handler unless it is 0, so the -1 of a process without descriptors does too.
ListenerEvent(c) ==
  /\ server = "listening" /\ Coming(c)
  /\ \/ \E fd \in Lowest :
          /\ owner' = [owner EXCEPT ![fd] = c]
          /\ handlerQ' = Append(handlerQ, [Block("accept", c) EXCEPT !.fd = fd])
     \/ /\ FreeFd = {}
        /\ handlerQ' = Append(handlerQ, [Block("accept", c) EXCEPT !.fd = -1])
        /\ UNCHANGED owner
  /\ UNCHANGED <<server, sock, thread, clean, main, open, dead, hist>>

-------------------------------------------------------------------------------
(* The handler queue: emailz_handle_accept, and the blocks of OPEN and CLOSE. *)

Runs(kind, c) ==
  /\ main = Idle /\ handlerQ # <<>>
  /\ Head(handlerQ).kind = kind /\ Head(handlerQ).conn = c

\* Up to the load of sockets_open.
HandleAccept(c) ==
  /\ Runs("accept", c)
  /\ sock' = [sock EXCEPT ![c] = Created(Head(handlerQ).fd)]
  /\ main' = [conn |-> c, at |-> "count", seen |-> open]
  /\ handlerQ' = Tail(handlerQ)
  /\ hist' = Noted("raced", \E d \in Conn : clean[d].at = "count")
  /\ UNCHANGED <<server, owner, thread, clean, open, dead>>

\* emailz_socket_start.  setsockopt takes what is an open descriptor; the
\* record file may not open, which only logs.
SocketStarts(c) ==
  /\ sock[c].socketfd \in Fd
  /\ handlerQ' = Append(handlerQ, Block("open", c))
  /\ thread' = [thread EXCEPT ![c]["read"] = <<"wait">>]
  /\ \E opened \in {TRUE, ~MayFail} :
       sock' = [sock EXCEPT ![c].channel = "open", ![c].record = opened,
                            ![c].log = IF opened THEN "open" ELSE "none"]

SocketStartFails(c) ==
  /\ MayFail \/ sock[c].socketfd \notin Fd
  /\ UNCHANGED <<sock, thread, handlerQ>>

\* The store of sockets_open, and emailz_socket_start.
AcceptStarts(c) ==
  /\ main.conn = c /\ main.at = "count"
  /\ open' = main.seen + 1
  /\ main' = [conn |-> c, at |-> "banner", seen |-> 0]
  /\ SocketStarts(c) \/ SocketStartFails(c)
  /\ UNCHANGED <<server, owner, clean, dead, hist>>

\* emailz_socket_handle_write of the banner, whatever start returned: without a
\* channel the process dies, and with freed memory it may.
AcceptBanner(c) ==
  /\ main.conn = c /\ main.at = "banner"
  /\ main' = Idle
  /\ \/ /\ sock[c].mem = "live" /\ sock[c].channel # "NULL"
        /\ thread' = [thread EXCEPT ![c]["write"] = Append(@, "reply")]
        /\ UNCHANGED dead
     \/ /\ sock[c].mem = "live" /\ sock[c].channel = "NULL"
        /\ dead' = TRUE
        /\ UNCHANGED thread
     \/ /\ sock[c].mem = "freed"
        /\ dead' \in BOOLEAN
        /\ UNCHANGED thread
  /\ hist' = Noted("stale", sock[c].mem = "freed")
  /\ UNCHANGED <<server, owner, sock, clean, handlerQ, open>>

\* What uses freed memory may go well, or end the process.
MayBeDead(c) ==
  IF sock[c].mem = "freed" THEN dead' \in BOOLEAN ELSE UNCHANGED dead

\* The block of OPEN reads socket->emailz when it runs; the application's
\* handler installs the smtp and the data handler.
RunOpen(c) ==
  /\ Runs("open", c)
  /\ handlerQ' = Tail(handlerQ)
  /\ sock' = [sock EXCEPT ![c].handlers = @ \cup {"smtp", "data"}]
  /\ MayBeDead(c)
  /\ hist' = Noted("stale", sock[c].mem = "freed")
  /\ UNCHANGED <<server, owner, thread, clean, main, open>>

\* The block of a command or a line reads socket->emailz and socket->context
\* when it runs; what it was said with it holds itself.
RunData(c) ==
  /\ Runs("data", c)
  /\ handlerQ' = Tail(handlerQ)
  /\ MayBeDead(c)
  /\ UNCHANGED <<server, owner, sock, thread, clean, main, open, hist>>

\* The block of CLOSE reads socket->emailz and socket->context likewise.
RunClose(c) ==
  /\ Runs("close", c)
  /\ handlerQ' = Tail(handlerQ)
  /\ MayBeDead(c)
  /\ UNCHANGED <<server, owner, sock, thread, clean, main, open, hist>>

-------------------------------------------------------------------------------
(* The threads of a connection. *)

At(c, t, step) == thread[c][t] # <<>> /\ Head(thread[c][t]) = step
Does(c, t, steps) == thread' = [thread EXCEPT ![c][t] = steps \o Tail(@)]

\* Data arrives, unless the stopped channel has nothing to read any more.
ReadData(c) ==
  /\ At(c, "read", "wait") /\ sock[c].channel = "open"
  /\ Does(c, "read", <<"record", "lines", "wait">>)
  /\ UNCHANGED <<server, owner, sock, clean, handlerQ, main, open, dead, hist>>

\* The stream ends, or the client has been silent too long.
ReadEnds(c) ==
  /\ At(c, "read", "wait") /\ sock[c].channel = "open"
  /\ Does(c, "read", Stop)
  /\ UNCHANGED <<server, owner, sock, clean, handlerQ, main, open, dead, hist>>

\* The channel is closed: the handler is called a last time and returns.
ReadStopped(c) ==
  /\ At(c, "read", "wait") /\ sock[c].channel = "closed"
  /\ Does(c, "read", <<>>)
  /\ UNCHANGED <<server, owner, sock, clean, handlerQ, main, open, dead, hist>>

\* In the clear QUIT's reply gets a completion of its own, the others that of the
\* banner, which stands for them; in TLS no reply has one, but the records do in
\* which SSLWrite sends it.
Answer(c) == IF c \in Tls THEN "record out" ELSE "bye"

\* The lines are answered, and the application's handler is called for some.  TLS
\* that fails and a mail that is too large stop the socket here.  Bound:
\* completions run one after another, a reply waits for the one before, and a call
\* of the handler for the one before.
ReadLines(c) ==
  /\ At(c, "read", "lines")
  /\ \/ Does(c, "read", <<>>) /\ UNCHANGED handlerQ
     \/ Does(c, "read", Stop) /\ UNCHANGED handlerQ
     \/ /\ \A i \in DOMAIN handlerQ : handlerQ[i] # Block("data", c)
        /\ handlerQ' = Append(handlerQ, Block("data", c))
        /\ Does(c, "read", <<>>)
     \/ /\ thread[c]["write"] = <<>>
        /\ thread' = [thread EXCEPT ![c]["read"] = Tail(@), ![c]["write"] = <<Answer(c)>>]
        /\ UNCHANGED handlerQ
  /\ UNCHANGED <<server, owner, sock, clean, main, open, dead, hist>>

\* emailz_sslsocket_write: the completion stops the socket on an error,
RecordOutDone(c) ==
  /\ At(c, "write", "record out")
  /\ \/ sock[c].channel = "open" /\ Does(c, "write", <<>>)
     \/ Does(c, "write", Stop)
  /\ UNCHANGED <<server, owner, sock, clean, handlerQ, main, open, dead, hist>>

\* as that of a reply does (emailz_socket_handle_write),
ReplyDone(c) ==
  /\ At(c, "write", "reply")
  /\ \/ sock[c].channel = "open" /\ Does(c, "write", <<>>)
     \/ Does(c, "write", Stop)
  /\ UNCHANGED <<server, owner, sock, clean, handlerQ, main, open, dead, hist>>

\* and that of QUIT's reply always.
ByeDone(c) ==
  /\ At(c, "write", "bye")
  /\ Does(c, "write", Stop)
  /\ UNCHANGED <<server, owner, sock, clean, handlerQ, main, open, dead, hist>>

-------------------------------------------------------------------------------
(* Recording and stopping, by thread t. *)

Other(t) == IF t = "read" THEN "write" ELSE "read"
Overlapping(c, t) == \E step \in {"clear", "fclose", "null"} : At(c, Other(t), step)

\* The block of c that installs its handlers is still to come.
Unopened(c) == main.conn = c \/ \E i \in DOMAIN handlerQ : handlerQ[i] = Block("open", c)

\* So may what uses a file that was closed.
UsesLog(c) ==
  IF sock[c].record /\ sock[c].log = "closed" THEN dead' \in BOOLEAN ELSE MayBeDead(c)

\* emailz_socket_record; a short fwrite closes the record at once.
Record(c) ==
  /\ At(c, "read", "record")
  /\ \/ Does(c, "read", <<>>)
     \/ MayFail /\ sock[c].record /\ Does(c, "read", RecordClose)
  /\ UsesLog(c)
  /\ hist' = Noted("overlap", sock[c].record /\ Overlapping(c, "read"))
  /\ UNCHANGED <<server, owner, sock, clean, handlerQ, main, open>>

\* The kernel closes descriptor fd, whoever it stands for.
Closed(fd) == [owner EXCEPT ![fd] = NoConn]

\* stop = true; if there is a descriptor, dispatch_io_close and close.
StopClose(c, t) ==
  /\ At(c, t, "close")
  /\ \/ /\ sock[c].socketfd # 0
        /\ sock' = [sock EXCEPT ![c].channel = "closed"]
        /\ owner' = Closed(sock[c].socketfd)
        /\ Does(c, t, <<>>)
     \/ /\ sock[c].socketfd = 0
        /\ thread' = [thread EXCEPT ![c][t] = Tail(Tail(@))]
        /\ UNCHANGED <<sock, owner>>
  /\ MayBeDead(c)
  /\ hist' = Noted("overlap", Overlapping(c, t)) \cup Noted("early", Unopened(c))
  /\ UNCHANGED <<server, clean, handlerQ, main, open>>

\* socketfd = 0.
StopClear(c, t) ==
  /\ At(c, t, "clear")
  /\ sock' = [sock EXCEPT ![c].socketfd = 0]
  /\ Does(c, t, <<>>)
  /\ MayBeDead(c)
  /\ hist' = Noted("overlap", Overlapping(c, t))
  /\ UNCHANGED <<server, owner, clean, handlerQ, main, open>>

\* emailz_socket_record_close: fclose if there is a record,
RecordFclose(c, t) ==
  /\ At(c, t, "fclose")
  /\ \/ /\ sock[c].record
        /\ sock' = [sock EXCEPT ![c].log = "closed"]
        /\ Does(c, t, <<>>)
     \/ /\ ~sock[c].record
        /\ thread' = [thread EXCEPT ![c][t] = Tail(Tail(@))]
        /\ UNCHANGED sock
  /\ UsesLog(c)
  /\ hist' = Noted("overlap", Overlapping(c, t))
  /\ UNCHANGED <<server, owner, clean, handlerQ, main, open>>

\* and record = NULL.
RecordNull(c, t) ==
  /\ At(c, t, "null")
  /\ sock' = [sock EXCEPT ![c].record = FALSE]
  /\ Does(c, t, <<>>)
  /\ MayBeDead(c)
  /\ hist' = Noted("overlap", Overlapping(c, t))
  /\ UNCHANGED <<server, owner, clean, handlerQ, main, open>>

-------------------------------------------------------------------------------
(***************************************************************************)
(* The cleanup handler: libdispatch runs it when the closed channel has no *)
(* operation left and their handlers have returned (external).  It queues  *)
(* CLOSE and loads sockets_open; then stores it and destroys the socket.   *)
(***************************************************************************)

\* Fault: the socket is destroyed as soon as its channel is closed.
OverAtOnce(c) == TRUE

OperationsOver(c) == \A t \in Threads : thread[c][t] = <<>>

Cleanup(c) ==
  /\ sock[c].channel = "closed" /\ OperationsOver(c) /\ clean[c].at = "none"
  /\ handlerQ' = Append(handlerQ, Block("close", c))
  /\ clean' = [clean EXCEPT ![c] = [at |-> "count", seen |-> open]]
  /\ hist' = Noted("raced", main.at = "count" \/ \E d \in Conn : clean[d].at = "count")
  /\ UNCHANGED <<server, owner, sock, thread, main, open, dead>>

\* Fault: a destroyed socket stays counted.
StillCounted(seen) == seen

OneLess(seen) == seen - 1

\* emailz_socket_destroy releases the handlers it knows and frees the socket.
SocketDestroy(c) ==
  /\ clean[c].at = "count"
  /\ open' = OneLess(clean[c].seen)
  /\ clean' = [clean EXCEPT ![c] = [at |-> "done", seen |-> 0]]
  /\ sock' = [sock EXCEPT ![c].mem = "freed", ![c].handlers = @ \ Handler]
  /\ UNCHANGED <<server, owner, thread, handlerQ, main, dead, hist>>

-------------------------------------------------------------------------------
HandlerQueue(c) ==
  HandleAccept(c) \/ AcceptStarts(c) \/ AcceptBanner(c) \/ RunOpen(c) \/ RunData(c) \/ RunClose(c)

ThreadStep(c, t) ==
  \/ t = "read" /\ (ReadStopped(c) \/ ReadLines(c) \/ Record(c))
  \/ t = "write" /\ (RecordOutDone(c) \/ ReplyDone(c) \/ ByeDone(c))
  \/ StopClose(c, t) \/ StopClear(c, t) \/ RecordFclose(c, t) \/ RecordNull(c, t)

Next ==
  /\ ~dead
  /\ \/ EmailzStart
     \/ \E c \in Conn :
          \/ ListenerEvent(c) \/ ReadData(c) \/ ReadEnds(c)
          \/ HandlerQueue(c)
          \/ \E t \in Threads : ThreadStep(c, t)
          \/ Cleanup(c) \/ SocketDestroy(c)

Spec == Init /\ [][Next]_vars

-------------------------------------------------------------------------------
(* Type invariant.  sockets_open is unsigned: below 0 stands for a wrap.      *)
TypeOK ==
  /\ server \in {"created", "listening", "deaf"}
  /\ owner \in [Fd -> Conn \cup {NoConn}]
  /\ sock \in [Conn -> SocketState]
  /\ thread \in [Conn -> [Threads -> Seq(Step)]]
  /\ clean \in [Conn -> [at : {"none", "count", "done"}, seen : Int]]
  /\ handlerQ \in Seq([kind : {"accept", "open", "data", "close"}, conn : Conn, fd : Fd \cup {0, -1}])
  /\ main \in [conn : Conn \cup {NoConn}, at : {"none", "count", "banner"}, seen : Int]
  /\ open \in Int
  /\ dead \in BOOLEAN
  /\ hist \subseteq History

\* The descriptor a running connection reads and writes is its own: unless two
\* threads of one connection were stopping it at once, nobody has closed it,
\* although closed descriptors come back for the next connection
\* (emailz_socket_stop's close and its later socketfd = 0).
DescriptorKept ==
  \/ "overlap" \in hist
  \/ \A c \in Conn :
       sock[c].channel = "open" => sock[c].socketfd \in Fd /\ owner[sock[c].socketfd] = c

\* A connection that was freed leaves nothing behind, whatever the order in
\* which its threads stopped it: its descriptor is given back, its record file
\* closed, its handlers released (emailz_socket_stop, emailz_socket_destroy);
\* only a handler installed too late stays.
FreedLeavesNothing ==
  \A c \in Conn : sock[c].mem = "freed" =>
    /\ \A f \in Fd : owner[f] # c
    /\ sock[c].log # "open"
    /\ sock[c].handlers = {} \/ "stale" \in hist

\* Of what uses a freed socket only the calls of the application's handlers are
\* left, which the cleanup handler does not wait for, unless a connection was
\* stopped before its OPEN block had run: then the banner, OPEN itself and the
\* completion of the banner may be too (emailz_handle_accept, emailz_socket_start).
FreedIsOver ==
  \/ "early" \in hist
  \/ \A c \in Conn : sock[c].mem = "freed" =>
       ~Unopened(c) /\ \A t \in Threads : thread[c][t] = <<>>

\* The application hears of nothing on a connection after its CLOSE: what its
\* threads queued is in front of it (emailz_socket_start, the cleanup handler).
CloseIsLast ==
  \A i \in DOMAIN handlerQ :
    LET block == handlerQ[i] IN
    clean[block.conn].at # "none" /\ block.kind # "close" =>
      \E j \in i+1..Len(handlerQ) : handlerQ[j] = Block("close", block.conn)

\* sockets_open is the number of connections accepted and not yet destroyed,
\* unless two updates met: the count is kept by two queues without a lock.
OpenIsExact ==
  \/ "raced" \in hist
  \/ open = Cardinality({c \in Conn : sock[c].mem = "live"
                                      /\ ~(main.conn = c /\ main.at = "count")})
=============================================================================
