------------------------------- MODULE MailDrop -------------------------------
(***************************************************************************)
(* What Spamass promises about mail, abstractly: a mail that the SMTP side *)
(* has handed over is stored unmodified, once, in the order its connection *)
(* handed it over, and nothing else is stored.  What it has taken it stores *)
(* as long as the process is there.                                        *)
(***************************************************************************)
EXTENDS Naturals, Sequences

CONSTANTS Socket, Mail

VARIABLES
  inbox,    \* inbox[s]: mails handed over and not stored yet
  stored,   \* stored[s]: mails stored
  down      \* the process has ended

vars == <<inbox, stored, down>>

Init ==
  /\ inbox = [s \in Socket |-> <<>>]
  /\ stored = [s \in Socket |-> <<>>]
  /\ down = FALSE

HandOver(s) ==
  /\ ~down
  /\ Len(inbox'[s]) = Len(inbox[s]) + 1
  /\ LET mail == inbox'[s][Len(inbox[s]) + 1]
     IN  mail \in Mail /\ inbox' = [inbox EXCEPT ![s] = Append(@, mail)]
  /\ UNCHANGED <<stored, down>>

Store(s) ==
  /\ ~down
  /\ inbox[s] # <<>>
  /\ stored' = [stored EXCEPT ![s] = Append(@, Head(inbox[s]))]
  /\ inbox' = [inbox EXCEPT ![s] = Tail(@)]
  /\ UNCHANGED down

\* What is in the inboxes is lost, what is stored stays.
Fail ==
  /\ ~down
  /\ down' = TRUE
  /\ UNCHANGED <<inbox, stored>>

Next == Fail \/ \E s \in Socket : HandOver(s) \/ Store(s)

Spec == Init /\ [][Next]_vars /\ \A s \in Socket : WF_vars(Store(s))
===============================================================================
