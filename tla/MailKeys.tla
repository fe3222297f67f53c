------------------------------- MODULE MailKeys -------------------------------
(***************************************************************************)
(* The keys of the email database as the strings they are, and how the     *)
(* search for an address finds its mails among those of others             *)
(* (SMAppDelegate.m, APLevelDB.mm).  MailIndex takes addresses for numbers *)
(* whose keys never mix; here an address may hold "_" and "__", which also *)
(* separates the parts of a key.  A socket id, a serial and a field are    *)
(* one character each.                                                     *)
(***************************************************************************)
EXTENDS Bytes, SequencesExt

CONSTANTS
  Recipients,   \* bound: addresses
  SocketIds,    \* bound: socket ids, as characters
  MaxStored     \* bound: mails stored

\* An address has a character at least, and a socket id starts with its time.
ASSUME KeysAssumption ==
  /\ MaxStored \in Nat
  /\ Recipients \subseteq Seq(Byte) \ {<<>>}
  /\ SocketIds \subseteq 48..57

VARIABLES
  asked,    \* the address searched for; <<>>: none yet
  stored,   \* the mails stored: recipient and socket id
  found     \* what the handler is called with: socket ids

keysVars == <<asked, stored, found>>

Underscore == 95
Separator == <<Underscore, Underscore>>
SerialPart == <<48>>
Nines == <<57>>
Fields == {<<101>>, <<105>>, <<117>>}   \* sender, size, subject

\* dbprefix and a field; and the marker of an address, behind all its mails.
KeyOfMail(m, field) == m.rcpt \o Separator \o <<m.id>> \o Separator \o SerialPart \o Separator \o field
MarkerOf(addr) == addr \o Separator \o Nines \o Separator \o Nines

StoredKeys == {KeyOfMail(m, f) : m \in stored, f \in Fields} \cup {MarkerOf(m.rcpt) : m \in stored}

\* The order of LevelDB: byte by byte, and a prefix first.
Before(s, t) ==
  \/ IsStrictPrefix(s, t)
  \/ \E i \in 1..Least(Len(s), Len(t)) : s[i] < t[i] /\ \A k \in 1..i-1 : s[k] = t[k]

\* componentsSeparatedByString:@"__", from the left: the parts so far, the one it
\* is at, and whether half a separator was read.
SplitStart == [parts |-> <<>>, part |-> <<>>, half |-> FALSE]

SplitAt(st, c) ==
  IF c # Underscore
  THEN [st EXCEPT !.part = (IF st.half THEN Append(@, Underscore) ELSE @) \o <<c>>, !.half = FALSE]
  ELSE IF st.half
  THEN [parts |-> Append(st.parts, st.part), part |-> <<>>, half |-> FALSE]
  ELSE [st EXCEPT !.half = TRUE]

Parts(key) ==
  LET after[n \in 0..Len(key)] == IF n = 0 THEN SplitStart ELSE SplitAt(after[n - 1], key[n])
      end == after[Len(key)]
  IN  Append(end.parts, IF end.half THEN Append(end.part, Underscore) ELSE end.part)

\* Fault: any number of parts will do.
GoesOnAnyway(addr, key) == IsPrefix(addr, key) /\ Parts(key)[1] = addr

\* The walk goes on at a key of four parts, of which the first is the address.
GoesOn(addr, key) == IsPrefix(addr, key) /\ Len(Parts(key)) = 4 /\ Parts(key)[1] = addr

\* emailsForAddress: from the first key not before the marker, backwards.
FoundFor(addr) ==
  LET from == {k \in StoredKeys : ~Before(k, MarkerOf(addr))}
      behind == {k \in StoredKeys : Before(k, MarkerOf(addr))}
      ends == {k \in behind : ~GoesOn(addr, k)}
  IN  IF from = {} THEN {}
      ELSE {Parts(k)[2] : k \in {q \in behind : \A e \in ends : Before(e, q)}}

KeysInit ==
  /\ asked = <<>> /\ found = {}
  /\ stored \in {Range(q) : q \in SeqOf([rcpt : Recipients, id : SocketIds], MaxStored)}

Asks(addr) ==
  /\ asked = <<>>
  /\ asked' = addr
  /\ found' = FoundFor(addr)
  /\ UNCHANGED stored

KeysNext == \E addr \in Recipients : Asks(addr)

KeysSpec == KeysInit /\ [][KeysNext]_keysVars

-------------------------------------------------------------------------------
\* No separator in the address, nor at its end with what follows.
Plain(addr) ==
  /\ \A i \in 1..Len(addr) - 1 : ~(addr[i] = Underscore /\ addr[i + 1] = Underscore)
  /\ addr[Len(addr)] # Underscore

\* Mail n hides mail m: it has a key between the last key of m and the marker.
Hides(n, m) ==
  \E f \in Fields : /\ Before(KeyOfMail(m, <<117>>), KeyOfMail(n, f))
                    /\ Before(KeyOfMail(n, f), MarkerOf(m.rcpt))

\* A search finds every mail of its address that no mail hides whose address is
\* the one asked for, the separator and more; and nothing else, but what passes for
\* a mail: the markers of such addresses.  An address that holds the separator or
\* ends with half of it finds nothing (emailsForAddress:withBlock:).
SearchFindsOwn ==
  LET intruders == {n \in stored : IsPrefix(asked \o Separator, n.rcpt)}
      phantoms == {Parts(MarkerOf(n.rcpt))[2] : n \in intruders}
      own == {m \in stored : m.rcpt = asked}
      visible == {<<m.id>> : m \in {q \in own : \A n \in intruders : ~Hides(n, q)}}
  IN  asked # <<>> =>
        IF Plain(asked) THEN visible \subseteq found /\ found \subseteq visible \cup phantoms
        ELSE found = {}
=============================================================================
