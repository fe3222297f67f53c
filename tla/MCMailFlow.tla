------------------------------ MODULE MCMailFlow ------------------------------
(***************************************************************************)
(* Instances of MailFlow for TLC.                                          *)
(***************************************************************************)
EXTENDS MailFlow, TLC

CONSTANTS s1, s2, a, b, h

L(word, arg, len, kind) ==
  [word |-> word, arg |-> arg, len |-> len,
   text |-> [kind |-> kind, name |-> IF kind = "named" THEN h ELSE "nil"]]

\* As headers, "MAIL FROM:<a>" and "RCPT TO:<a>" have a name.
Mail_(arg) == L("MAIL", arg, 1, "named")
Rcpt_(arg) == L("RCPT", arg, 1, "named")
Data_      == L("DATA", NoArg, 1, "ends")
Text_(len) == L("text", NoArg, len, "ends")
Dot_       == L(".", NoArg, 1, "ends")
Other_(w)  == L(w, NoArg, 1, "ends")
Garbled_   == L("text", NoArg, 1, "undecodable")

\* Several mails on one connection, up to and over the size limit.
MailLines == {Mail_(a), Rcpt_(a), Data_, Text_(2), Dot_}

\* The same with lines that are not UTF-8.
GarbledLines == MailLines \cup {Garbled_}

\* Two recipients, a withdrawn transaction, a line that is not UTF-8.
EnvelopeLines == {Mail_(a), Rcpt_(a), Rcpt_(b), Data_, Other_("RSET"), Garbled_, Dot_}

\* Any client: commands in any order, a line with no command, TLS.
AnyLines == {Mail_(a), Data_, Text_(1), Dot_, Other_(""), Other_("QUIT"), Other_("STARTTLS")}

\* Lines sent per connection.
Three     == [s \in Socket |-> 3]
Four      == [s \in Socket |-> 4]
Eight     == [s \in Socket |-> 8]
SixAndOne == [s \in Socket |-> IF s = s1 THEN 6 ELSE 1]

\* While a second connection is there, no transaction is withdrawn, no mail has
\* two recipients to tell apart, and the first sends four lines.
OneOrTwo ==
  socket'[s2].phase # "none" =>
    /\ peer'[s1].sent <= 4
    /\ \A s \in Socket : \A i \in DOMAIN peer'[s].wire :
         peer'[s].wire[i] \in {Mail_(a), Rcpt_(b), Data_, Dot_}

OneOrTwoSpec == Init /\ [][Next /\ OneOrTwo]_vars /\ Fairness
===============================================================================
