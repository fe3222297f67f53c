-------------------------------- MODULE MailIndex --------------------------------
(***************************************************************************)
(* The email database as an index: the keys handleEmailWithSocket writes   *)
(* for a mail, one after the other, and what emailsForAddress finds there. *)
(* Addresses and mails are numbers, in the order of their keys; a mail is  *)
(* its <socket id>__<serial>.                                              *)
(***************************************************************************)
EXTENDS Naturals, Sequences, FiniteSets

CONSTANTS
  NAddr,      \* recipient addresses 1..NAddr; none of them ends in "_"
  NMail,      \* bound: mails 1..NMail
  NoMail,     \* no mail is being stored
  Inner       \* the addresses a__X, whose keys lie among those of the address a

\* The key of an inner address has a part too many for the walk of its outer
\* address ("alien"), and so has its marker when X contains "__".  Any other
\* marker reads as a key of a mail of a, with X for its socket id: X is of three
\* parts as socket ids are ("socketlike") or not ("unlike").
MarkerKinds == {"alien", "unlike", "socketlike"}

\* at: the place of the inner address among the mails of the outer one.
ASSUME IndexAssumption ==
  /\ NAddr \in Nat \ {0} /\ NMail \in Nat \ {0}
  /\ NoMail \notin [addr : 1..NAddr, id : 1..NMail, puts : 0..3]
  /\ DOMAIN Inner \subseteq 1..NAddr
  /\ \A b \in DOMAIN Inner :
       Inner[b] \in [of : (1..NAddr) \ DOMAIN Inner, at : 1..NMail, marker : MarkerKinds]
  /\ \A b, c \in DOMAIN Inner : Inner[b].at = Inner[c].at => b = c

VARIABLES
  mDb,        \* the keys of the email database
  storing     \* the mail being stored and how many of its keys are

indexVars == <<mDb, storing>>

\* "999...", the socket id and serial of the marker of an address, comes after
\* those of any mail.
MarkerId == NMail + 1

Key == [addr : 1..NAddr, id : 1..MarkerId,
        field : {"subject", "sender", "size", "marker"} \cup MarkerKinds]

IndexTypeOK ==
  /\ mDb \subseteq Key
  /\ storing \in [addr : 1..NAddr, id : 1..NMail, puts : 0..3] \cup {NoMail}

IndexInit == mDb = {} /\ storing = NoMail

-------------------------------------------------------------------------------
\* Fault: the sender goes first.
PutsSenderFirst == <<"sender", "subject", "size", "marker">>

\* The keys of a mail, in the order they are put.
Puts == <<"subject", "sender", "size", "marker">>

KeyOf(addr, id, field) ==
  IF addr \in DOMAIN Inner
  THEN [addr |-> Inner[addr].of, id |-> Inner[addr].at,
        field |-> IF field = "marker" THEN Inner[addr].marker ELSE "alien"]
  ELSE [addr |-> addr, id |-> IF field = "marker" THEN MarkerId ELSE id, field |-> field]

\* The serial handler queue stores one mail at a time.
StoreBegins(addr, id) ==
  /\ storing = NoMail
  /\ \A k \in mDb : k.id # id
  /\ \A b \in DOMAIN Inner : Inner[b].at # id
  /\ storing' = [addr |-> addr, id |-> id, puts |-> 0]
  /\ UNCHANGED mDb

\* One put of handleEmailWithSocket; each reaches the database by itself.
StorePuts ==
  /\ storing # NoMail
  /\ mDb' = mDb \cup {KeyOf(storing.addr, storing.id, Puts[storing.puts + 1])}
  /\ storing' = IF storing.puts + 1 = Len(Puts) THEN NoMail
                ELSE [storing EXCEPT !.puts = storing.puts + 1]

Storing == StorePuts \/ \E addr \in 1..NAddr, id \in 1..NMail : StoreBegins(addr, id)

-------------------------------------------------------------------------------
\* The snapshot db holds the key of a mail's field.
Has(db, addr, id, field) == [addr |-> addr, id |-> id, field |-> field] \in db

\* Seeking the marker of an address finds a key there or behind it.
SeekFinds(db, addr) ==
  \E k \in db : k.addr > addr \/ (k.addr = addr /\ k.field = "marker")

\* The walk backward from the marker does not come to the mails in front of an
\* inner address: it ends at a key that has not four parts.
Hidden(db, addr, id) == \E k \in db : k.addr = addr /\ k.field = "alien" /\ k.id > id

\* The mails the walk passes: a mail for each group of keys of the address, the
\* marker of an inner address included.  It ends at the first key of another
\* address; those of an inner address name none but the outer one.
Walked(db, addr) ==
  IF SeekFinds(db, addr) /\ addr \notin DOMAIN Inner
  THEN {k.id : k \in {q \in db : /\ q.addr = addr /\ q.field \notin {"marker", "alien"}
                                 /\ ~Hidden(db, addr, q.id)}}
  ELSE {}

\* A mail all of whose keys are stored.
Whole(db, addr, id) ==
  /\ \A field \in {"subject", "sender", "size"} : Has(db, addr, id, field)
  /\ Has(db, addr, MarkerId, "marker")
===============================================================================
