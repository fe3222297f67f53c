----------------------------- MODULE Registration -----------------------------
(***************************************************************************)
(* libEmailz: what an application sets up (emailz.c, emailz.h).  The       *)
(* library copies each handler it is given and releases the one before.  A *)
(* listener takes the handler queue, and a connection the socket handler   *)
(* and the queue, as they are when it comes into being; the connection     *)
(* makes no copy of its own.  The copies of each handler are counted, and  *)
(* the setters may be called in any order, whichever Spamass's is.         *)
(***************************************************************************)
EXTENDS Integers, FiniteSets

CONSTANTS
  HandlerBlock,  \* bound: the application's handlers
  Peer,          \* bound: connections
  NULL           \* no handler

ASSUME RegistrationAssumption == NULL \notin HandlerBlock /\ IsFiniteSet(Peer)

VARIABLES
  emailz,     \* emailz_s: its socket handler and whether it has a handler queue
  listener,   \* the listeners, which are alike
  peer,       \* peer[p]: emailz_socket_s
  owned,      \* the handlers the application itself still holds
  refs,       \* refs[b]: how many copies of b are not released
  lost,       \* connections that were accepted and that nobody was told of
  past        \* history, see Past

registrationVars == <<emailz, listener, peer, owned, refs, lost, past>>

Slots == {"smtp_handler", "auth_handler", "header_handler", "data_handler"}
Handlers == HandlerBlock \cup {NULL}

\* The directories for records: none yet, one that record_base holds, and one
\* that is longer.
Bases == {"", "base", "longer"}

\* The structures, as far as an application sets them up.
Emailz == [socket_handler : Handlers, handler_queue : BOOLEAN,
           socket_record : BOOLEAN, record_base : Bases]
Listener == [started : BOOLEAN, handler_queue : BOOLEAN]
Connection == [mem : {"none", "live", "freed"}, socket_handler : Handlers,
               handler_queue : BOOLEAN, slot : [Slots -> Handlers],
               record : BOOLEAN, record_path : Bases]

\* ready: both were set when the library was started.  cleared: the socket handler
\* has since been taken away.  replaced: it was set while there were connections.
\* refused: recording was enabled for a base that was not taken.
Past == {"ready", "cleared", "replaced", "refused"}

RegistrationTypeOK ==
  /\ emailz \in Emailz
  /\ listener \in Listener
  /\ peer \in [Peer -> Connection]
  /\ owned \subseteq HandlerBlock
  /\ refs \in [HandlerBlock -> Nat]
  /\ lost \subseteq Peer
  /\ past \subseteq Past

RegistrationInit ==
  /\ emailz = [socket_handler |-> NULL, handler_queue |-> FALSE,
               socket_record |-> FALSE, record_base |-> ""]
  /\ listener = [started |-> FALSE, handler_queue |-> FALSE]
  /\ peer = [p \in Peer |-> [mem |-> "none", socket_handler |-> NULL, handler_queue |-> FALSE,
                             slot |-> [s \in Slots |-> NULL],
                             record |-> FALSE, record_path |-> ""]]
  /\ owned = HandlerBlock
  /\ refs = [b \in HandlerBlock |-> 1]
  /\ lost = {}
  /\ past = {}

One(b, handler) == IF b = handler THEN 1 ELSE 0

\* Fault: the handler before is not released.
ExchangedKept(old, new) == [b \in HandlerBlock |-> refs[b] + One(b, new)]

\* Fault: the handler is not copied.
ExchangedUncopied(old, new) == [b \in HandlerBlock |-> refs[b] - One(b, old)]

\* Block_release of what is there, and Block_copy of what comes.
Exchanged(old, new) == [b \in HandlerBlock |-> refs[b] + One(b, new) - One(b, old)]

-------------------------------------------------------------------------------
(* The application. *)

set_handler_queue ==
  /\ emailz' = [emailz EXCEPT !.handler_queue = TRUE]
  /\ UNCHANGED <<listener, peer, owned, refs, lost, past>>

\* Fault: the base is not copied.
CopiedNowhere(base) == emailz.record_base

\* strcpy, if record_base is large enough.
CopiedBase(base) == IF base = "longer" THEN emailz.record_base ELSE base

\* Recording is on, whatever becomes of the base.
record_enable(enable, base) ==
  /\ emailz' = [emailz EXCEPT !.socket_record = enable, !.record_base = CopiedBase(base)]
  /\ past' = IF enable /\ base = "longer" THEN past \cup {"refused"} ELSE past
  /\ UNCHANGED <<listener, peer, owned, refs, lost>>

\* A handler that a connection took over is released all the same.
set_socket_handler(b) ==
  /\ emailz' = [emailz EXCEPT !.socket_handler = b]
  /\ refs' = Exchanged(emailz.socket_handler, b)
  /\ past' = past \cup (IF b = NULL THEN {"cleared"} ELSE {})
                  \cup (IF \E p \in Peer : peer[p].mem = "live" THEN {"replaced"} ELSE {})
  /\ UNCHANGED <<listener, peer, owned, lost>>

\* The application lets go of a handler of its own.
AppReleases(b) ==
  /\ owned' = owned \ {b}
  /\ refs' = Exchanged(b, NULL)
  /\ UNCHANGED <<emailz, listener, peer, lost, past>>

\* The setters of a connection's handlers; the application knows of the
\* connection by OPEN.
socket_set_handler(p, slot, b) ==
  /\ peer[p].mem = "live" /\ peer[p].socket_handler # NULL /\ peer[p].handler_queue
  /\ peer' = [peer EXCEPT ![p].slot[slot] = b]
  /\ refs' = Exchanged(peer[p].slot[slot], b)
  /\ UNCHANGED <<emailz, listener, owned, lost, past>>

-------------------------------------------------------------------------------
(* The library. *)

\* Fault: a listener does not know the queue.
ListenerQueueless(queue) == FALSE

\* emailz_listener_create: the queue of this moment.
ListenerQueue(queue) == queue

\* emailz_start.
Starts ==
  /\ ~listener.started
  /\ listener' = [started |-> TRUE, handler_queue |-> ListenerQueue(emailz.handler_queue)]
  /\ past' = (past \ {"cleared"})
             \cup (IF emailz.handler_queue /\ emailz.socket_handler # NULL THEN {"ready"} ELSE {})
  /\ UNCHANGED <<emailz, peer, owned, refs, lost>>

\* Without a queue the accept handler is not called, and the descriptor stays.  A
\* connection is recorded if that is enabled now, below the base of now.
Accepts(p) ==
  /\ listener.started /\ peer[p].mem = "none" /\ p \notin lost
  /\ \/ /\ ~listener.handler_queue
        /\ lost' = lost \cup {p}
        /\ UNCHANGED peer
     \/ /\ listener.handler_queue
        /\ peer' = [peer EXCEPT ![p].mem = "live", ![p].socket_handler = emailz.socket_handler,
                                ![p].handler_queue = emailz.handler_queue,
                                ![p].record = emailz.socket_record,
                                ![p].record_path = IF emailz.socket_record THEN emailz.record_base ELSE @]
        /\ UNCHANGED lost
  /\ UNCHANGED <<emailz, listener, owned, refs, past>>

\* emailz_socket_destroy releases these handlers.
Released == {"smtp_handler", "header_handler", "data_handler"}

Destroys(p) ==
  /\ peer[p].mem = "live"
  /\ refs' = [b \in HandlerBlock |->
                refs[b] - Cardinality({s \in Released : peer[p].slot[s] = b})]
  /\ peer' = [peer EXCEPT ![p].mem = "freed", ![p].socket_handler = NULL,
                          ![p].slot = [s \in Slots |-> IF s \in Released THEN NULL ELSE @[s]]]
  /\ UNCHANGED <<emailz, listener, owned, lost, past>>

RegistrationNext ==
  \/ set_handler_queue \/ Starts
  \/ \E enable \in BOOLEAN, base \in Bases \ {""} : record_enable(enable, base)
  \/ \E b \in owned \cup {NULL} : set_socket_handler(b)
  \/ \E b \in owned : AppReleases(b)
  \/ \E p \in Peer :
       \/ Accepts(p) \/ Destroys(p)
       \/ \E slot \in Slots, b \in owned \cup {NULL} : socket_set_handler(p, slot, b)

RegistrationSpec == RegistrationInit /\ [][RegistrationNext]_registrationVars

-------------------------------------------------------------------------------
Holders(b) ==
  One(b, emailz.socket_handler) + (IF b \in owned THEN 1 ELSE 0)
  + Cardinality({q \in Peer \X Slots : peer[q[1]].slot[q[2]] = b})

\* Copies and releases balance over any sequence of setters and closes: a handler
\* has a copy for each place that holds it and no other.  The auth handler of a
\* connection that is gone is such a place: nothing releases it (the setters,
\* emailz_socket_destroy).
CopiesBalance ==
  /\ \A b \in HandlerBlock : refs[b] = Holders(b)
  /\ \A p \in Peer : peer[p].mem = "freed" =>
       \A s \in Slots \ {"auth_handler"} : peer[p].slot[s] = NULL

\* The socket handler that a connection calls on CLOSE still exists, although the
\* connection made no copy of it and the application may have let it go, unless
\* another was set while there were connections (emailz_handle_accept,
\* emailz_set_socket_handler).
CloseHandlerLives ==
  "replaced" \in past \/
    \A p \in Peer : peer[p].socket_handler # NULL => refs[peer[p].socket_handler] > 0

\* If the queue and the socket handler were there when the library was started,
\* and the handler was not taken away, the application is told of every
\* connection (emailz_listener_create, emailz_handle_accept).
AllAreTold ==
  "ready" \in past /\ "cleared" \notin past =>
    /\ lost = {}
    /\ \A p \in Peer : peer[p].mem = "live" => peer[p].socket_handler # NULL /\ peer[p].handler_queue

\* Every record has a base, whenever recording was turned on and off, unless it
\* was turned on for a base that was refused: then the names of records begin at
\* the first directory behind it (emailz_record_enable, emailz_socket_record_open).
RecordsHaveBase ==
  "refused" \in past \/ \A p \in Peer : peer[p].record => peer[p].record_path # ""

\* Whatever the order of the setters, the accepts and the closes: handlers are kept
\* as long as they are called and no longer, and what was set is what counts.
SetUpIsKept ==
  /\ CopiesBalance
  /\ CloseHandlerLives
  /\ AllAreTold
  /\ RecordsHaveBase
==============================================================================
