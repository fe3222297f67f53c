# Spamass in TLA+

Spamass is a Mac application that accepts every mail it is sent over SMTP,
stores it, shows the connections on a map and lets a browser search the mails
of an address.  This directory models the parts of it that have behaviour worth
checking, model-checks them with TLC and proves some of the results with TLAPS.

Paths below are relative to `src/`.

## 1. Inventory

| Component | State it keeps | Operations |
|---|---|---|
| **SMTP sessions**, `libEmailz/src/emailz.c` | per connection an `emailz_socket_s`: `state`, `indata`, `email_size`, `stop`, TLS flags, callbacks, channel | read handler with its line loop, write with completion, stop, cleanup |
| **Lines and records of the wire**, same file | `indata`, `tmpdata`, the SSL context; `line`, `cmnd` | arrival, SSLRead and SSLWrite callbacks, `read_line`, `read_command` |
| **Formats**, same file | none | `print_number`, record names, addresses, Base64 |
| **Connections**, same file | descriptor, channel, `FILE *record`, `sockets_open` | listener, accept, start, banner, record, stop, cleanup, destroy |
| **Set-up**, same file | socket handler, handler queue, recording, and their copies | the setters of the library and of a connection |
| **SMTP callbacks of the application**, `Spamass/Spamass/SMAppDelegate.m`, `SMSocket.m`, `SMEmail.m` | per connection an `SMSocket` with an `SMEmail` under construction and a count; a mail's headers | OPEN, CLOSE, `handleFrom`, `handleRcpt`, `handleData`, `handleEmail` |
| **Email database**, `SMAppDelegate.m`, `APLevelDB.mm` | LevelDB keys `recipient__socket__serial__field` and a marker for each recipient | four puts for a mail; seek and walk backward |
| **Search page**, `HTTPEmailSearchResponse.m`, `HTTPServer/Responses/HTTPSpamassResponse.m`, `HTTPServer/HTTPConnection.m` | the response's buffer and `mIsDone`; the connection's `responseDataSizes` and write queue | request, row, footer, chunk, completion, disconnect |
| **Regions**, `SMGeocoder.m` | LevelDB of regions; the table `_regions`, `_regionCount` | count, reload, load, binary search |
| **Geocoder**, `SMGeocoder.m` | cache in LevelDB | six reads, two HTTP queries, six puts |
| **Map**, `SMMapViewController.m` | dictionary of markers | set, unset |
| **Snappy**, `Snappy/` | hash table and blocks of the compressor; source, scratch buffer and writer of the decompressor | compress, decompress, validate |
| View and main pages, mail files | none beyond the file system | read, write |
| Spamap, SpamassCLI, libCore | none (skeletons) | |
| CocoaHTTPServer, CocoaAsyncSocket, CocoaLumberjack, SBJson, LevelDB | vendored | |

How they interact.  Everything runs on libdispatch queues:

- each SMTP connection has a `dispatch_io` channel, whose read handler never
  runs twice at a time for one connection, but at the same time as other
  connections', as write completions and as the application;
- libEmailz calls the application only through blocks on **one serial handler
  queue**, on which `emailz_handle_accept` runs as well;
- searches run on the concurrent `mHttpQueue`; a search calls the response's
  handler, which appends to the buffer that the HTTP connection's own queue
  reads, and wakes that queue;
- lookups run on the geocoder's concurrent queue and then change the map from
  the main thread, while CLOSE takes a marker off from a global queue.

What is hard, and what makes each component correct:

- *Sessions.*  Callbacks are installed from the handler queue while the read
  handler is already at work; a mail may be cut off in the middle of the lines
  already received.  Correct: every acknowledged mail is stored once, complete,
  unmixed, in order and under its own key; a stopped connection ends.
- *Lines.*  A line, and under TLS a record, may be cut anywhere.  Correct: the
  dialogue gets the lines that were sent, whatever the cuts.
- *Connections.*  Two threads may stop a connection at once, while blocks about
  it are queued and its descriptor comes back for another.  Correct: nobody
  closes a descriptor that is not its own, nothing is left behind, CLOSE is the
  last thing the application hears.
- *Set-up.*  Handlers are copied and released by hand, some are taken over
  without a copy.  Correct: copies balance, and what is called is alive.
- *Index and search page.*  Mails are stored key by key while searches walk
  snapshots; three queues share a response.  Correct: the page lists the newest
  mails, none is missing, it ends, and the write queue stays bounded.
- *Regions.*  A table filled once from unsorted files, by a process that may die
  while filling it; a hand-written binary search.  Correct: count and table
  agree, the table is sorted, the search stays inside it, finds what is there,
  invents nothing, and returns.
- *Geocoder.*  A cache entry of six keys, written one by one and valid by the
  last two.  Correct: an entry taken for a hit is whole and of one place.
- *Map.*  Three queues and one marker.  Correct: what closes comes off the map.
- *Snappy.*  Copies that overlap, stores wider than what they store, streams in
  fragments.  Correct: what was compressed comes back, a stream is accepted
  exactly if it means what it says, nothing is written outside.

`PROJECT.json` lists every hazard with its line.

## 2. Modules

| Module | Models |
|---|---|
| `Smtp` | the vocabulary: connections, lines, commands, mails |
| `SmtpSession` | libEmailz's dialogue |
| `SpamassApp` | the application's callbacks |
| `MailDrop` | **abstract**: mails handed over are stored, in order, once |
| `MailFlow` | clients, `SmtpSession`, the handler queue, `SpamassApp`; the properties of a mail's way |
| `Sockets` | the life of a connection from accept to free, thread by thread |
| `ConnectionMap` | the map, on top of `Sockets` |
| `Registration` | what an application sets up, and the copies of its handlers |
| `Bytes`, `LineReader` | from the bytes of the wire to lines and commands |
| `Formats` | numbers, names, addresses and Base64 as text |
| `Headers` | the application's reading of a mail's headers |
| `RegionSearch` | `countryCodeForIPAddress:` on a given table |
| `RegionTable` | the database and table of regions around `RegionSearch` |
| `Geocoder` | a geocode: cache, services, cache |
| `MailIndex` | the keys of the email database |
| `MailKeys` | the same keys as bytes, and the search among them |
| `SearchPage` | a search over HTTP, on `MailIndex` |
| `SnappyFormat`, `Snappy` | tags and lengths; compressor, decompressor, writers and sources |
| `SnappyWords` | Snappy's routines on words and tables |
| `MCMailFlow`, `MCRegionTable`, `MCSearchPage`, `MCParts` | values for TLC |
| `MailFlowProofs` | theorems about `MailFlow`: types, serials, queue, session; then what becomes of the mails |
| `SocketsProofs` | theorems about `Sockets` and `ConnectionMap` |
| `ReadingProofs` | theorems about `LineReader` and `Headers` |
| `RegionProofs` | theorems about `RegionSearch` and `RegionTable` |
| `SearchPageProofs` | theorems about `MailIndex` and `SearchPage` |
| `SnappyProofs` | theorems about `SnappyFormat` and `Snappy` |
| `PartsProofs` | theorems about `Geocoder`, `Registration` and `MailKeys` |
| `TextFacts` | facts on numbers, texts and functions defined turn by turn, which several proofs cite |

A definition named *Fault* in its comment is no part of the model.  It is a
plausible bug, and shows that a property can fail: put in place of the
definition behind it, it makes TLC find a violation.

### Sessions (`Smtp`, `SmtpSession`)

`socket[s]` has the fields of `emailz_socket_s` that matter, under their names.
`smtp_handler` stands for handler and mask together.  `phase` is where the
connection is between `accept` and `emailz_socket_destroy`.  `pc` is the
position in the read handler: one iteration of the line loop is one step, since
the handler queue and other connections run between iterations.  `bye` says
that the reply to QUIT is being written.  A line is a record of the word that
`emailz_socket_read_command` cuts off, an argument, a length, and what it is as
a header (`text`).

`DataEnd`, `DataLine`, `NoCommand`, `PlainCommand` and `StartTls` are the
branches of an iteration, `ReadPlain`, `ReadSecure`, `HandshakeFails` and
`ReadTimeout` the ways the handler is invoked, `ReadReturns` its end.
`ByeCompletes` and `WriteFails` are write completions, `Cleanup` the channel's
cleanup handler.  The peer (`ClientSends`) is the environment; `Polite` makes it
keep the order MAIL, RCPT, DATA, text, "." and `OpenFirst` makes it wait for the
OPEN callback.  `txn` and `due` are history variables: the mail the client has
been answered for, and the mails handed over.

`handlerQ` is the serial queue.  Blocks that find the socket freed read freed
memory in the code; here the model lets them read what was there.  `Sockets`
has the other outcome, the death of the process.

### Lines (`LineReader`)

What `SmtpSession` takes as a line is here put together from bytes.  `wire` is
cut into arrivals anywhere.  In the clear an arrival is appended to `indata`;
under TLS it goes to `tmpdata`, from which SSLRead takes a record's length and
then its bytes, and may find that more is needed at either place.  `reading`
is the position in `emailz_socket_handle_read`.  Capacities
(`EMAILZ_MAX_LINE_SIZE`, `EMAILZ_MAX_CMND_SIZE`, the size of a read) are
constants, so small instances reach them.

### Connections (`Sockets`, `ConnectionMap`)

`sock[c]` has the memory, descriptor, channel, handlers and record of a
connection; `thread[c]["read"]` and `thread[c]["write"]` are what its read
handler and the completion of its reply have still to do.  `emailz_socket_stop`
and `emailz_socket_record_close` are taken apart into what two threads can do
between each other's steps: close, clear, `fclose`, null.  `main` is the accept
in progress on the handler queue, taken apart at its load and store of
`sockets_open`.  `owner` is the kernel's: the lowest free descriptor is given
out, so a closed one comes back.  `dead` is an outcome wherever freed memory, a
closed file or a missing channel is used.  `hist` keeps which of the races the
code does not exclude have happened; a property says what holds until then.

`ConnectionMap` extends it: the socket handler's OPEN asks the geocoder, whose
answer goes to the main thread, and CLOSE queues the unset on a global queue.

### Set-up (`Registration`)

`refs[b]` counts the copies of handler `b` that are not released.  The setters
may be called in any order and at any time, whatever order Spamass has.
`listener` takes the handler queue and a connection the socket handler, as they
are at that moment; `emailz_socket_destroy` releases three handlers of four.

### Formats, headers (`Formats`, `Headers`)

`Formats` has one call for each function, on inputs from small sets, and a
reference definition beside it: the value of the digits, the bits of the bytes.
`call.high` is what a `signed char` index below the decoding table reads: any
digit, since it is outside the table.  `Headers` is `handleData:withSocket:`,
one line a step; a line is what the code tells apart of it, and a nil string
takes the way that messages to nil take.

### Application (`SpamassApp`, `MailFlow`)

One block of the queue is one step, but for OPEN, which takes three
(`openStep`): the read handler may see the smtp handler without the data
handler.  `HandleEmail` has the three cases of `handleEmailWithSocket:`: no
email (all messages to nil), no recipient (an exception that ends the process:
`crashed`), and the mail that is stored under its serial.  A mail stored is one
step here; `MailIndex` takes its puts apart.  `HandleData` raises too, for a
header line that is not UTF-8 where it names no header or continues one that is
an array already (`DataRaises`).  What the headers are by then follows from the
lines of the mail (`HeadersAfter`), so it needs no state of its own; `Headers`
has the values.  `MailDrop` has the end of the process as its step `Fail`.

### Regions and geocoder (`RegionSearch`, `RegionTable`, `Geocoder`)

A lookup's loop is `Iterate`, one iteration a step, with C's rounding of the
middle.  Lookups share only a table that is not written any more, so one lookup
at a time stands for all.  `RegionTable` runs the initializer: `CountRegions`,
`ReloadLine` for each line, `LoadTable`, then lookups; `Crash` may come between
any two steps and keeps the database.  Two traits of the code are essential.
`nextKey` moves *before* it reads and a new iterator stands on the first key, so
the first region is never seen (`Iteration`).  `addrend` is the beginning plus
the size, with 32 bits (`RegionOf`).

In `Geocoder` a block is one call of `__geocode:handler:`.  Every read and
every put of a key is a step, so blocks for one address meet anywhere.  Names
are told apart by the block that learnt them; coordinates are the question they
answer.  `GeocoderRestarts` ends all blocks and keeps the cache.

### Search (`MailIndex`, `MailKeys`, `SearchPage`)

Mails and addresses are numbers in the order of their keys.  `Inner` has the
addresses `a__X`, whose keys lie among those of `a`: their mails' end a walk of `a`
(`Hidden`), their marker may pass for a mail of `a` (`KeyOf`, `MarkerKinds`).
`search` is the block on `mHttpQueue`: snapshot, walk, and one step for each call
of the handler, but two for a call that ends the page, which sets `mIsDone` first
and appends the footer second.  `ListMail` has the three ways a call for a mail may
end: a row, a socket id that is none (`NotASocketId`), an exception (`RowRaises`).
`conn` is the HTTP connection, kept for any number of requests, GET or HEAD:
`SendHeaders`, `HasAvailableData` (a wake-up), `BodyWritten`, `ChunkWritten`,
`LastWritten`, which ends whatever page is the connection's by then and waits for
the next `Request` or closes.  What is queued and `responseDataSizes` stay over it.
`queue` holds what the socket has still to write: for each chunk its body, then
the mark of the last chunk or a line end.  Sizes count pieces (head, row, foot)
instead of bytes.  `Restart` keeps the database.

`MailKeys` gives up the numbers: keys are byte strings in LevelDB's order,
addresses may hold `_` and `__`, and `Parts` is
`componentsSeparatedByString:`.

### Snappy (`SnappyFormat`, `Snappy`, `SnappyWords`)

`Snappy` compresses an input fragment by fragment (`comp`) and decompresses the
result, or a given stream, tag by tag (`dec`, `out`).  The hash function is a
constant function, so no property depends on its quality.  Block size and the
start of the skip are constants.  `reach` records stores outside of what a
routine may write: the fast paths write 8 and 16 bytes at a time.
`SnappyWords` has what works on machine words: loads and stores for either byte
order, `FindMatchLength` in its two forms, `Log2Floor`, the choice of a table.

## 3. Runs

All runs finish within the time limit of five minutes with two workers.

| Run | States | What it shows |
|---|---|---|
| `MailFlow_mails` | 2.4 M | One connection, eight lines, a size limit of 3, connection failures, a client that may speak before OPEN has run.  `SizeLimit`: the count is exactly that of the current mail's lines, and nothing stored exceeds the limit.  `KeysUnique`.  `NothingAfterCutOff`.  `StoredIsTail`: whatever the moment OPEN runs, only the front of the mails gets lost, and no envelope is torn.  `RaisesOnlyOnUndecodable`: from clients that keep the order only a header line that is not UTF-8 ends the process |
| `MailFlow_two` | 0.46 M | All of `MailDrop!Spec`, liveness included, for two connections through one queue, and for one with two recipients and a withdrawn transaction: nothing mixes, and nothing is lost but to the end of the process |
| `MailFlow_any` | 0.2 M | A client without manners, and TLS: `BlocksInOrder`, `StopLeadsToClose`, and `QuitCloses` if the client reads the reply |
| `MailFlow_early_violation` | | `DataHandlerCalled` fails: lines answered before the data handler is installed reach nobody |
| `MailFlow_quit_violation` | | `SecureQuitCloses` fails: the completion of a reply over TLS is dropped |
| `Sockets_two` | 3.0 M | Two connections on one descriptor, one of them over TLS, with failing calls: `DescriptorKept` and `OpenIsExact` until two threads meet, `FreedLeavesNothing`, `FreedIsOver` unless a connection stops before its OPEN, `CloseIsLast` always |
| `ConnectionMap_one` | 11 k | `MarkerIsLive`: a marker stays after CLOSE only if the geocode overtook; `StopReachesMap`: a connection that begins to stop comes off the map |
| `RegionTable_reload` | 0.47 M | All orders of files of up to five allocations, with duplicates, lines without a country and a crash anywhere; and all tables of up to three regions over five addresses, sorted or not.  `LookupIsExact` joins what the lookup relies on (count, order) with what it then says of the files |
| `RegionTable_returns_violation` | | `LookupReturns` fails: an address between two regions is searched for ever |
| `SearchPage_two` | 0.76 M | More mails than a page lists, two pages on a connection or in two lives, GET and HEAD, a kill, and in the database another address and two inside the one asked for: the page lists the newest mails in order; unless the page before is still being sent, the write queue stays bounded and no mail is missing; the page ends for a client that reads; the exception comes from a torn mail or a phantom only |
| `SearchPage_last_violation` | | `LastChunkIsLast` fails: every mail past the page's last adds a footer behind the last chunk |
| `Parts` | 2.0 M | The parts that need no other, side by side (`part` says which moves), see below |

`Parts` has one property for each part:

- `LinesReachSession` (`LineReader`): nothing is lost between the wire and the
  lines; lines are cut exactly at the first CR LF, or where the limit cuts them;
  no complete line waits unless a line without a command word ended the loop;
  commands are what their lines say.
- `FormatsAreExact` (`Formats`): numbers are printed with their value, record
  names are told apart and sort by time, a mail lies beside the record of its
  connection, addresses are read back, Base64 comes back for every input and
  decoding yields the bits of the digits, but for a last byte where the code
  counts one too few.
- `MailIsRead` (`Headers`): each header holds the lines that name it and those
  folded onto them, once and in order; the process is lost only to a header that
  is not UTF-8, and only where the property says.
- `CacheIsSound` (`Geocoder`), `SetUpIsKept` (`Registration`): see section 5.
- `SearchFindsOwn` (`MailKeys`): a search finds every mail of its address that no
  mail of an address "the one asked for, the separator and more" hides from it,
  and nothing else but the markers of such addresses, which pass for mails; an
  address that holds the separator, or ends with half of it, finds nothing.
- `SnappyGivesBack` (`Snappy`): what was compressed comes back, whole or in
  fragments, for every caller (`RoundTrip`), no store ends outside of what a
  routine may write (`NothingBeyond`), and no match is ahead of what was read
  (`MatchesAreBehind`).
- `SnappyIsExact`: any stream, one from elsewhere too, is accepted exactly if it
  means as many bytes as it says (`DecodesAsMeant`, `Snappy`); words of either
  byte order give the same results (`WordsAreExact`, `SnappyWords`).

Each of these properties is a conjunction of named ones, with a mutant for each
conjunct that has code of its own.

Bounds, and why they are enough:

- *Mails.*  Eight lines are two mails on one connection with a line of text,
  the shortest run in which anything can be carried over from one mail to the
  next.  A limit of 3 with lines of length 2 is exceeded by the second line.
  `MaxWire` bounds the lines in the kernel; with 1, a line is read alone, with 2
  (`any`) two arrive together.  `any` needs few lines: commands in every order,
  a QUIT, a STARTTLS.  In `two` the second connection sends one line: the two
  meet in the queue, which is what could mix them; the first has six lines while
  it is alone (`OneOrTwo`), room for a withdrawn transaction and two recipients.
- *Connections.*  Two on one descriptor make it come back.  Completions run one
  after another for a connection, and at most one call of the handler is queued.
- *Lines.*  Six bytes hold two lines, a line cut between CR and LF, and, with
  `MaxLine = 4`, one that is too long; a read of two bytes needs several.
- *Regions.*  Three regions have a first, a middle and a last one, gaps and
  overlaps; five are what it takes to reach the empty part between two regions
  from both sides.  Addresses of up to 11 make the order of padded and unpadded
  keys differ.
- *Geocoder.*  Two blocks for one address and a restart.  The proof showed what
  two blocks cannot: with three, one that reads while a second puts may have
  read a name of a third that was ended half way.  `torn` excepts it.
- *Search.*  A page of two and three mails has a full page and one mail past it;
  a chunk of two pieces is split, filled and waited for.  Only the first of four
  addresses is asked for (`FirstAddress`), and what is stored while the run goes
  is for it; the others may have a mail from an earlier process (`TwoInit`).  Two
  of them are inside the first (`TwoInside`), one in the middle of its mails with
  a marker that is no socket id, one among the last the walk comes to with a marker
  that reads as one.  What one page leaves to the next shows with two (`TwoPages`);
  a HEAD is taken as the first of them only, as it has no rows of its own to lose.
  No mail begins to be stored after the first request (`StoredBefore`).  The puts of
  one that has begun come while they can still be seen by a snapshot: between the
  snapshot and the end of its page nothing reads the database, so puts wait for that
  end (`StoredWhenRead`), and are made, cut off by a kill or left undone behind it.
- *Snappy.*  Inputs with nothing to find up to the margins of a block, with
  matches everywhere, with literals over 60, with matches of the lengths at
  which a copy is cut (64 to 68), and over the end of a block of 90.  Streams are
  all short sequences of tags of every kind and the border cases of lengths.

`CHECK_DEADLOCK FALSE` is set where the system may stop: all lines are sent,
all connections closed, or the process has died (`crashed`, `failed`, `dead`).

## 4. Fairness

- The handler queue runs its blocks; a read handler that has begun runs to its
  end; the cleanup handler runs once its channel is closed and idle; and once the
  socket is stopped QUIT's completion runs, since a closed channel gives up its
  writes.  All four are libdispatch's promises.  Clients and the network
  (`ReadPlain` too) have none: before the stop the reply to QUIT is written only if
  the client reads, which `QuitCloses` and `SecureQuitCloses` therefore assume
  (`ClientReads`).
- In `ConnectionMap` likewise, and the main thread and the global queue run what
  they are given.  A reply's completion is only promised once the channel is
  closed, since a client may put off reading for ever.  The geocoder, which
  waits for other servers, promises nothing.
- A lookup's thread runs (`Iterate`); the initializer runs (`Loading`).
- The search block and the connection's queue run (`Find`, `Send`).  Headers, the
  line ends of chunks and the last chunk are written within TIMEOUT_WRITE_HEAD, or
  the socket disconnects (`TimedWrite`).  The body of a chunk has no time-out
  (TIMEOUT_WRITE_BODY is -1, `HTTPConnection.m:70`): a client that stops reading
  holds its page for ever, so `PageEnds` assumes one that reads (`ClientReads`).
  An idle connection is not assumed to go away, so a missing wake-up would hang the
  page.

## 5. Proofs

Each theorem holds for every value of the constants that satisfies the named
assumptions (`LineAssumption`, `NoMailAssumption`, `NoEmailAssumption`,
`BoundAssumption`, `SocketsAssumption`, `TableAssumption`, `FilesAssumption`,
`GeocodeAssumption`, `PlaceAssumption`, `RegistrationAssumption`,
`IndexAssumption`, `PageAssumption`, `LineReaderAssumption`, `HeaderAssumption`,
`KeysAssumption`, `SnappyAssumption`, `TableIsComputed`), which TLC evaluates in
the runs.  Where a
theorem needs more, it says so in an ASSUME of its own.

### A mail's way (`MailFlowProofs`)

- `TypeCorrect`: `TypeOK` is inductive.  Its proof has a lemma for each action.
- `KeysAreUnique`: `KeysUnique` is not inductive; `SerialInv` adds that the
  serials of a connection's stored mails grow and are all below its count, and
  that the mail under construction has the count itself.  It holds because
  `setEmail:` counts every assignment, of nil too.
- `BlocksStayInOrder`: `BlocksInOrder` is strengthened by what the phase of a
  connection says about the queue: nothing of a connection that has not been
  accepted, one accept of a queued one, and no CLOSE of an open one.
- `SessionStays`: `SessionInv` adds what the state of a dialogue says about its
  callbacks, its count and its transaction; the count is `BodySize` of the
  transaction as far as it is taken.  `CutOffIsFinal` proves `NothingAfterCutOff`
  from it.
- `FlowStays` is the invariant the rest stands on.  Between the session and the
  store there is a queue of any length, so `FlowInv` goes through it: for each
  connection there are a function `E`, the mail under construction after each
  queued block, and `D`, the number of mails that are behind it then (`Chain`).
  Every "done" finds the mail that was handed over (`DonesKept`), the mails
  stored are the last of those behind (`StoredKept`), a connection whose handlers
  are not installed yet has nothing to lose but lines and mails that no handler
  will see (`Early`), and the mail after the last block is the transaction the
  session has (`Grows`).  `Dialogue` says the same of the lines still in the
  kernel: they go on in order from where the session is.
- `SizeStaysLimited` (`SizeLimit`) has no hypothesis.  `OnlyUndecodableRaises`
  (`RaisesOnlyOnUndecodable`) and `StoredStaysTail` (`StoredIsTail`) assume
  `Polite`: a client that sends DATA without RCPT does end the process, as the
  code's own TODO says.  A header line that is not UTF-8 does so whoever sends it.
- `MailDropSafety`: with `Polite` and `OpenFirst`, `MailFlow` implements
  `MailDrop` step by step: a mail handed over is put into the inbox in order, a
  "done" block stores the inbox's first, the exception that ends the process is
  `Fail`, and every other step stutters.  Without
  `OpenFirst` it would be false: the lines answered before the handlers are
  installed are lost (`MailFlow_early_violation`), which is what `StoredIsTail`
  measures.

### Connections (`SocketsProofs`)

- `DescriptorStaysKept`, `FreedStaysOver`, `CloseStaysLast`: any number of
  connections and descriptors, with any calls that fail.  `SocketsInv` adds to
  them the order of a thread's steps (`ShapeInv`: closing is followed by
  clearing, so a list that begins with clearing has just closed), whose a
  descriptor is (`OwnerInv`: it belongs to the connection that has it or is
  about to be cleared, and to the connection an accept block is about), that a
  connection is accepted once (`OnceInv`), the course of a life (`LifeInv`), and
  that a connection stopped in time has no OPEN and no banner to come
  (`EarlyInv`).  Closing keeps `OwnerInv` because two connections cannot have one
  descriptor unless one of them has closed it; it needs that the other thread is
  not between close and clear, which is the exception "overlap".
- `FreedStaysEmpty` (`FreedLeavesNothing`) turns the question round: what is
  open has somebody who will close it.  `OwnedInv`: a descriptor in use belongs
  to an accept block that has not dealt with it, or to a connection that has not
  been stopped.  `LogInv`: an open record is known to its connection, and while
  it is, some thread or the destroy has its closing still to do.  `HandlersInv`:
  a handler left behind was installed on a stopped connection ("stale").
- `OpenStaysExact` (`OpenIsExact`): until an accept and a cleanup meet between
  load and store ("raced"), what either has loaded is still the count
  (`LoadedIsOpen`), and the count is the cardinality of what is counted.
- `MapIsOfSockets`: a behaviour of the map is one of `Sockets`, step by step, so
  `SocketsKeptUnderMap` has all of the above for it.  `MarkersAreLive`
  (`MarkerIsLive`) is inductive with the types of the three queues (`MapInv`).

### Lines and headers (`ReadingProofs`)

- `LinesAlwaysReach` (`LinesReachSession`) and `ReaderTyped`: texts of any length,
  any limits, any cut into arrivals, records and reads.  In the clear what was
  read and what is on the wire is what was sent (`PlainInv`).  Under TLS what is
  behind the decrypted text, arrived or not, is the rest of a record, as long as
  SSL says is missing, and at most two more records, whose text is what has still
  to be read (`SecureInv`, `ToCome`); `RecordRead` shows that a turn of SSL moves
  text across without losing any, wherever the arrival ends.  The loop over
  SSLRead leaves nothing to give out (`SslInv`), and the loop over lines no line
  (`WaitInv`).  `LineReaderAssumption` asks that limits are positive and that a
  record's length fits its field.
- That `found_cr`, a scan, means "behind an odd run of `\r`" is `FoundCrIs`: a run
  has one length (`RunIsOne`), is one longer at the next `\r` (`RunGrows`), and
  every `\r` ends one (`RunExists`), so oddness alternates as the flag does.  It
  makes the end of a line a matter of the bytes in front of it, so that it cannot
  depend on what has arrived behind (`EndsInFront`).
- `MailStaysRead` (`MailIsRead`) and `HeadersTyped`: mails of any length.
  `InHeadersInv` adds that while the headers last every line is one of theirs, the
  last header owns the last line, and a header with an array has two lines at
  least; `EndedInv`, that a line ended them.  `HeaderAssumption` asks that no
  header has the name that stands for nil.

### Set-up (`PartsProofs`)

- `SetUpStaysKept`: any number of handlers and connections.  `RegistrationInv`
  counts: `BalanceInv` says that a handler has as many copies as places hold it.
  Each setter exchanges the holder of one place (`PlacesExchanged`), and a
  destroy gives up as many places of a connection as there are released slots
  with that handler.  `TakenOverInv` says why a connection may call a handler it
  did not copy: it is still the library's.

### Regions and geocoder (`RegionProofs`, `PartsProofs`)

- `Invariance` proves `IInv` for a lookup on any table, from which
  `LookupTypes`, `LookupInTable`, `LookupFindsCovering` and `LookupMissesNone`
  follow.  `IInv` says of a running search that `lower` is an index of the
  table, that `upper` is at least `lower - 1`, that an empty part begins above
  the address (which is why the endless search of a gap stays inside the table),
  and that in a sorted table a region covering the address is still between the
  bounds.
- `LoadedLookupIsSafe` has the same of the table that the initializer loads,
  from any files, killed as often as may be, and `CountIsLength` and
  `FoundIsAllocated` with it.  `TableInv`: every stored region is that of a line
  (`StoredInv`), the database has at most one region more than was counted
  (`CountInv`; the one more is the one the iterator skips), and before the table
  is loaded nothing is looked up (`LoadedInv`).  That the iteration is a sequence
  of all regions but the first, in the order of their keys (`IterationIs`), is
  proved by counting the keys in front of each: no two regions have equally many,
  so every number below that of the regions is taken.
- `LoadedLookupIsExact` (`LookupIsExact`) assumes `Disjoint`: allocations do not
  overlap and end below the last address, as those of the registries do.
  Otherwise one region may end behind the next one, and the table is not sorted
  by its ends, which the binary search needs.
- `CacheStaysSound`: any number of blocks, addresses and restarts.  `CacheInv`
  adds to the three parts of `CacheIsSound`: a block that is putting has put
  exactly its first keys (`PutInv`); a key in the cache has all those before it
  (`PrefixInv`), which makes both coordinates mean the whole entry; of the blocks
  putting one entry only one has begun (`AloneInv`), unless two have met; what a
  reader has read is still there (`ReadInv`); and an entry nobody is putting is
  whole or absent (`WholeInv`), unless one was torn.

### Search page (`SearchPageProofs`)

- All safety properties of `SearchPage` follow from one invariant, `PageInv`, for
  any sizes of pages and chunks, any number of pages on the connection, and any
  addresses, inside each other or not.  `IndexInv`: the keys of a mail come in
  order, in the database and in the snapshot, and those of inner addresses stay
  apart from them.  `BufferInv`: the buffer is a header, rows, and behind them
  nothing but footers; there is a row for each mail the handler was called with,
  but for one, a phantom that is no socket id, with which the walk ends
  (`CountInv`).  `OrderInv`: rows become older, and what was dropped or is still to
  do is older than any of them.  `WholeInv`: nothing but such phantoms is dropped
  while the page has room.  `LastInv`: the last chunk is behind all rows.
  `QueueInv`: for a page that found the queue empty, the write queue has a body for
  each entry of `responseDataSizes`, in their order, which is why the sum the
  connection goes by is what the socket still holds.  What follows a last chunk
  breaks that, but as every end of a page takes an entry out there are never more
  entries than bodies: once the queue is empty the next page starts from no entry.
- `WriteQueueStaysBounded` and `PageStaysComplete` are therefore about pages that
  were requested when nothing of the page before was left to write (`behind`);
  for others both fail, see section 6.  A HEAD has no rows (`head`), and mails in
  front of a mail of an inner address are not found (`Hidden`).
- `PageTyped`, `WriteQueueStaysBounded`, `PageStaysNewest`, `PageStaysComplete`
  and `OnlyTornOrPhantomRaises` state them one by one.

### Search among keys (`PartsProofs`)

- `SearchFindsItsOwn` (`SearchFindsOwn`): any addresses, any number of mails.  Of
  two keys the smaller is told by the first position where they differ, with a 0
  behind the end of the shorter (`ByteAt`, `FirstLess`), and what lies between two
  keys with a common beginning begins with it too.  A key splits byte by byte:
  an address without the separator comes out as one part, and what follows it
  goes on from a fresh state (`NoSeparatorRead`, `SeparatorRead`, `MailParts`,
  `MarkerParts`).  From this `WhoseKey` says whose the keys between a mail and the
  marker of its address are: its own address', or that of an address which begins
  with it and the separator.  An own key lets the walk go on (`OwnGoesOn`), a
  mail of such an intruder ends it (`IntruderStops`), while an intruder's marker
  may pass for a mail (`MarkerPasses`) but then hides nothing that its mails do not
  (`MarkerHides`).  `VisibleFound` and `SeenVisible` are the two inclusions; an
  address that ends with half a separator finds nothing since its keys split one
  character early (`HalfIsBehind`).

### Snappy (`SnappyProofs`)

- `SnappyComesBack` (`SnappyGivesBack`): any text, hash function, block size and
  start of the skip, and any way the two sources are cut into fragments; of the
  texts it assumes that the memory modelled (`MaxMem`, a bound of the model only)
  has room for them.  A stream is said to *tell* a text from one position to another
  (`Tells`) if there is a set of pairs of positions, in the stream and in the text,
  that begins with the one, and of which each is the end of both or is followed by
  another with one item between the two: a literal of what the text has there
  (`LiteralItemAt`), or a copy of what the text has some way back (`CopyItem`).
  That is a statement without recursion, so it needs no induction: an item may be
  put in front or behind (`TellsOne`, `TellsJoined`) and taken off (`TellsNext`).
  `CompressorText` says that the stream and the output of the block tell the input
  up to what was emitted; `DecompressorText` that the buffer and the source behind
  it tell the text from the writer's position on (`TagText`, `LiteralText`), and
  that the memory has it before (`Holds`), also where a store went further than it
  was asked to.  `EmitCopyTells`, `LiteralTells` and `LengthInFront` are about the
  format, `ByEightsAgrees` and `ByBytesAgrees` about copies that reach into
  themselves, `RefillTagAt` about tags cut by fragments.
- `SnappyInside`: the parts of it that need no text, and so hold for any stream
  given to the decompressor too.  `SnappyInv` has two halves.  The compressor's: where it is in
  a block (`InBlock`, `BetweenBlocks`), while it looks for a match (`Scanning`),
  has one (`Matching`) or emits the rest (`Remaining`); positions in the hash table
  are behind the reader; and what was written so far is at most a 61st more than
  what was read, with one byte to spare after a copy (`WithTags`).  Summed over
  blocks that is `Worst`, which leaves each block the room that the wide stores of
  its last literals and copies take (`RoomIs`).  The decompressor's: a tag is whole
  in the buffer before it is read (`TagAtHand`), and a writer's position stays
  within its limit, so literals, incremental copies and the copies by eight bytes
  end inside.
- `SnappySafe` and `SnappyTyped` state the invariant and the types.

### Recursive definitions

`BodySize` (of a mail's lines), `Total` (of the write queue), `FoundCr` (the scan
of read_line), the split of a key, the copies that overlap and the library's
`FlattenSeq` are recursive functions inside a LET.
The proofs need that each exists and obeys its own equation (`SumsTo`,
`FlattenTo`, `FoundCrIs`).  It is shown without an induction rule: a set of
numbers for which it fails would have a least element.  Everything else about
them follows from the equation in the same way.

### Only model-checked

- Everything under fairness, which is beyond the prover: `ImplementsMailDrop` (its
  liveness; the steps are proved), `StopLeadsToClose`, `QuitCloses`,
  `CoveredReturns`, `PageEnds`, `StopReachesMap`.
- `SnappyIsExact`: for a stream that no compressor made, `DecodesAsMeant` compares
  what a whole decompression computes with a reference that is a recursion over the
  stream; `WordsAreExact` is about bits of machine words and uses `Bitwise`, of which no
  theorem can be stated.  `FormatsAreExact` likewise compares folds over texts
  with reference definitions.
- `PartsTypeOK` as such, since it reaches `SnappyWords`.  What it puts together is
  proved part by part: `ReaderTyped`, `HeadersTyped`, `SnappyTyped`,
  `RegistrationTyped` and the types in the geocoder's `CacheInv`.

## 6. Where code and comments differ

The violations above are listed under `findings` in `PROJECT.json`.  Others were
met while modelling, and the models have them:

- A line without a command word breaks out of the line loop (`emailz.c:631`), so
  complete lines may stay in `indata`, although the comment at 564 says the
  loop goes on while a line can be read.
- EHLO announces `SIZE 12345678` (`emailz.c:698` and 700); a mail is cut off at
  1048576 (`emailz.h:39`).
- Under TLS the completion handler of a reply is ignored (`emailz.c:869-876`),
  so the stop behind QUIT (717) never runs.
- A base for records of up to 999 characters is taken, but the path made of it
  has room for 1000 in all.
- The decoder of Base64 counts one byte too few where the text goes on, behind a
  complete last group, with something that is no digit (`emailz.c:1651`), and a
  `signed char` above 127 indexes in front of its table.
- The first region is neither counted nor loaded: `StoredIsFound` excepts it.
- The address behind an allocation gets its country, although the size is the
  "number of addresses in allocation" (`SMGeocoder.m:166`): `FoundIsAllocated`
  admits it.
- "If hostip.info can't help us" (`SMGeocoder.m:280`) the country of the
  allocation is looked at only if it answers at all: without an answer the block
  returns (313-316).
- `IsValidCompressedBuffer` "returns true iff" a stream can be decompressed
  (`Snappy/snappy.h:131`); it accepts a length of more than 32 bits, which
  `Uncompress` refuses.
- `isDone` may be YES while the footer is still to come, although
  `HTTPResponse.h:31` says it should not.
- A mail without recipients ends the process, as the TODO at
  `SMAppDelegate.m:224` says: the run with `RaisesOnlyOnUndecodable` has polite
  clients.
- A header line that is not UTF-8 is nil to `handleData:`.  Where it names no
  header (`SMAppDelegate.m:204`), or continues one that already has two lines
  (211), that raises, and the mails of all connections that are still queued are
  lost with the process: `RaisesOnlyOnUndecodable` and `MailIsRead` say where.
- What follows the last chunk of a page (`LastChunkIsLast` fails) spoils the next
  page of the connection.  Its `HTTP_RESPONSE` takes an entry out of
  `responseDataSizes` that is not its own (`HTTPConnection.m:2455`), so more than
  READ_CHUNKSIZE may be queued, against the comment at 1372; and it lets go of
  whatever response is the connection's by then (2463-2496), so that page ends in
  the middle.  `WriteQueueBounded` and `PageIsComplete` except pages requested while
  something of the one before is still to be written (`behind`), and say that all
  others are safe.
- A search that meets a mail whose sender is not stored yet, or never was
  because of a crash, raises (`appendString:` with nil,
  `HTTPEmailSearchResponse.m:125`).  So does one for `a` that meets the marker of
  an address `a__1-y-z`: it passes for a mail whose socket id `1-y-z` has three
  parts and no date (107-114), or has no sender.  A marker whose `X` has not three
  parts ends the walk (91-94).  `RaisesOnlyOnTornOrPhantom` says that nothing else
  raises.
- `emailz_socket_read_line` stores a 0 behind the line (`emailz.c:949`): for a line
  of exactly EMAILZ_MAX_LINE_SIZE bytes one past the array (`emailz.h:139`).
- hostip.info's country is cut at " (" and two characters are taken behind it
  (`SMGeocoder.m:364`); if there are fewer, `substringWithRange:` raises.  In the
  model that is the end of a process anywhere, `GeocoderRestarts`.

## 7. Not modelled

- AUTH's handler: the application installs none (its decoding is in `Formats`).
- `emailz_stop`, `emailz_destroy` and `emailz_listener_stop` are empty in the
  code; `hexdump` is not called.
- What is in a TLS record: Secure Transport is modelled by its results.
- The bytes of a row of the search page, and the constant answer to a request
  without an address.
- More than one HTTP connection: each has its own response, queue and search, and
  they share the database, which searches only read.  On the connection only search
  pages are requested.  The second read that a left-over `HTTP_RESPONSE` starts
  (`HTTPConnection.m:2510`) may time out, which is `Disconnect`; that it may also
  take up a request that was sent too early is left out, as pipelined requests are.
- Addresses that end in `_` in `MailIndex`: their keys split one character early,
  which `MailKeys` has.
- What the 0 behind a line of the greatest length hits (`emailz.c:949`).
- The view and main pages: built in one call, no state.  Mail files: their path
  is in `Formats`; writing them is input and output.
- Snappy's C functions that only forward, its statistics and test helpers.
- Request parsing, ranges, authentication and web sockets of CocoaHTTPServer, and
  the other vendored code: only what Spamass uses.  Of LevelDB the repository
  has the headers alone.
- Three hazards have no property: the idle time-out (`emailz.c:459`) depends on
  when libdispatch delivers an empty read; a crash between the 250 and the
  store (594) loses the mail whatever the code does after it; and the length of
  a row in UTF-16 units (`HTTPEmailSearchResponse.m:145`) is about bytes of a
  row.

The models cover nearly all of `emailz.c` and of Snappy's core, and the
application's own classes.  The latter are Objective-C (`.m`, `.mm`).  What is
left of the C and C++ files is declarations in headers of vendored libraries, in
which there is nothing that runs.

## 8. What could follow

1. A proof that a stream from elsewhere decodes as it means: `Tells` with the memory
   in place of the text, and the ways in which it can end early.
2. Three connections in `Sockets`, if the states allow.
