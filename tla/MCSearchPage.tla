----------------------------- MODULE MCSearchPage -----------------------------
(***************************************************************************)
(* SearchPage with four addresses.  The first is searched and stored to;   *)
(* of the others, two inside it and one behind it, the database may hold a *)
(* mail from an earlier process.                                           *)
(***************************************************************************)
EXTENDS SearchPage, TLC

NoInner == <<>>

TwoInside == 2 :> [of |-> 1, at |-> 3, marker |-> "unlike"]
          @@ 3 :> [of |-> 1, at |-> 1, marker |-> "socketlike"]

Earlier(addr) == {KeyOf(addr, NMail, Puts[i]) : i \in DOMAIN Puts}

TwoInit ==
  /\ mDb \in {{}, Earlier(2) \cup Earlier(4), Earlier(3)} /\ storing = NoMail
  /\ search = NoSearch /\ response = NoResponse /\ conn = NoConn
  /\ queue = <<>> /\ sent = 0 /\ failed = FALSE /\ kills = 0

FirstAddress == search'.addr = 1 /\ (storing' # NoMail => storing'.addr = 1)

\* Mails begin to be stored before the first page.
StoredBefore == storing' # NoMail /\ storing = NoMail => kills = 0 /\ conn.requests = 0

\* What is stored between the snapshot of a page and the end of that page is read
\* by nothing before the next request: it is stored after the page.
StoredWhenRead ==
  Store => search.pc \in {"idle", "queued"} \/ ~(conn.current \/ conn.closed)

\* Two pages, on one connection or in two lives of the process.
TwoPages ==
  /\ kills' + conn'.requests <= 2 /\ conn.requests + kills' <= 2
  /\ conn'.head => conn'.requests = 1 /\ kills' = 0

TwoNext == Next /\ FirstAddress /\ StoredBefore /\ StoredWhenRead /\ TwoPages

TwoSpec == TwoInit /\ [][TwoNext]_vars /\ Fairness
===============================================================================
