------------------------------ MODULE SpamassApp ------------------------------
(***************************************************************************)
(* The Spamass application's callbacks (SMAppDelegate.m, SMSocket.m,       *)
(* SMEmail.m): what one block of the serial handler queue does to the      *)
(* SMSocket of its connection and to the email database.                   *)
(***************************************************************************)
EXTENDS Smtp

VARIABLES
  smsocket,   \* smsocket[s]: the SMSocket that is connection s's context
  mDb,        \* mDb[s]: the mails of connection s stored, in order
  crashed     \* an uncaught exception has ended the process

appVars == <<smsocket, mDb, crashed>>

\* An SMEmail under construction; the nil one is NoMail.
SMEmail == [serial : Nat, mail : Mail]

ASSUME NoEmailAssumption == NoMail \notin SMEmail

SMSocket == [context : BOOLEAN, emailCount : Nat, email : SMEmail \cup {NoMail}]

AppInit ==
  /\ smsocket = [s \in Socket |-> [context |-> FALSE, emailCount |-> 0, email |-> NoMail]]
  /\ mDb = [s \in Socket |-> <<>>]
  /\ crashed = FALSE

\* Fault: the count stays.
SetEmailUncounted(sm, email) == [sm EXCEPT !.email = email]

\* -[SMSocket setEmail:] counts every assignment, of nil too.
SetEmail(sm, email) ==
  [sm EXCEPT !.email = email, !.emailCount = sm.emailCount + 1]

\* The OPEN callback's last act for the connection: *context = socketObj.
SetContext(s) ==
  /\ smsocket' = [smsocket EXCEPT ![s].context = TRUE]
  /\ UNCHANGED <<mDb, crashed>>

\* Fault: MAIL reuses the email begun before.
NewEmailReused(sm, line) ==
  [serial |-> sm.emailCount + 1,
   mail   |-> IF sm.email = NoMail THEN [EmptyMail EXCEPT !.from = line.arg]
              ELSE [sm.email.mail EXCEPT !.from = line.arg]]

\* Fault: the sender is the whole line.
NewEmailRaw(sm, line) ==
  [serial |-> sm.emailCount + 1, mail |-> [EmptyMail EXCEPT !.from = line]]

\* The SMEmail that MAIL begins; its serial is the count after setEmail.
NewEmail(sm, line) ==
  [serial |-> sm.emailCount + 1, mail |-> [EmptyMail EXCEPT !.from = line.arg]]

\* MAIL: an SMEmail begun before is dropped.
HandleFrom(s, line) ==
  LET sm == smsocket[s] IN
  /\ smsocket' = [smsocket EXCEPT ![s] =
                    IF sm.context THEN SetEmail(sm, NewEmail(sm, line)) ELSE sm]
  /\ UNCHANGED <<mDb, crashed>>

\* Fault: RCPT begins an SMEmail if there is none.
WithRecipientBegun(sm, line) ==
  IF sm.email = NoMail
  THEN SetEmail(sm, [serial |-> sm.emailCount + 1,
                     mail |-> [EmptyMail EXCEPT !.rcpt = <<line.arg>>]])
  ELSE [sm EXCEPT !.email.mail.rcpt = Append(sm.email.mail.rcpt, line.arg)]

\* RCPT adds the recipient it names; sent to a nil email it does nothing.
WithRecipient(sm, line) ==
  IF sm.email # NoMail /\ line.arg \in Arg
  THEN [sm EXCEPT !.email.mail.rcpt = Append(sm.email.mail.rcpt, line.arg)]
  ELSE sm

\* Fault: the connections share one SMSocket's email.
HandleRcptShared(s, line) ==
  /\ smsocket' = [t \in Socket |-> WithRecipient(smsocket[t], line)]
  /\ UNCHANGED <<mDb, crashed>>

HandleRcpt(s, line) ==
  /\ smsocket' = [smsocket EXCEPT ![s] = WithRecipient(smsocket[s], line)]
  /\ UNCHANGED <<mDb, crashed>>

\* What handleData: keeps about a mail's headers: none has been read yet; each
\* header is nil, a string, or an array of values.
HeadersBegin ==
  [isInHeaders |-> TRUE, lastHeader |-> "nil", headers |-> [h \in Header |-> "nil"]]

\* A line names a header, or continues the last one, which an undecodable (nil)
\* line does too, its white space being found at location 0.
AfterText(hs, text) ==
  LET name == IF text.kind \in {"folded", "undecodable"} /\ hs.lastHeader # "nil"
              THEN hs.lastHeader ELSE text.name
  IN
  CASE ~hs.isInHeaders -> hs
    [] hs.isInHeaders /\ name = "nil" -> [hs EXCEPT !.isInHeaders = FALSE]
    [] hs.isInHeaders /\ name # "nil" ->
         [hs EXCEPT !.lastHeader = name,
                    !.headers[name] = IF @ = "nil" THEN "string" ELSE "array"]

\* They follow from the lines handled.
HeadersAfter(body) ==
  LET hs[n \in 0..Len(body)] ==
        IF n = 0 THEN HeadersBegin ELSE AfterText(hs[n - 1], body[n].text)
  IN  hs[Len(body)]

\* A line of the data segment is appended to the email's data.
WithData(sm, line) ==
  IF sm.email # NoMail
  THEN [sm EXCEPT !.email.mail.body = Append(sm.email.mail.body, line)]
  ELSE sm

\* A nil value of no header (setObject:forKey: with a nil name), or one added to
\* an array, raises.
DataRaises(sm, line) ==
  /\ sm.email # NoMail
  /\ line.text.kind = "undecodable"
  /\ LET hs == HeadersAfter(sm.email.mail.body)
     IN  /\ hs.isInHeaders
         /\ hs.lastHeader = "nil" \/ hs.headers[hs.lastHeader] = "array"

\* The data is kept before the headers are read.
HandleData(s, line) ==
  /\ smsocket' = [smsocket EXCEPT ![s] = WithData(smsocket[s], line)]
  /\ crashed' = (crashed \/ DataRaises(smsocket[s], line))
  /\ UNCHANGED mDb

\* handleEmailWithSocket: objectAtIndex:0 of no recipients raises; otherwise
\* the mail is stored under its socket id and serial and the email is nil.
\* With a nil email every message is sent to nil and only the count moves.
HandleEmail(s) ==
  LET sm == smsocket[s] IN
  \/ /\ sm.email # NoMail /\ sm.email.mail.rcpt = <<>>
     /\ crashed' = TRUE
     /\ UNCHANGED <<smsocket, mDb>>
  \/ /\ sm.email # NoMail /\ sm.email.mail.rcpt # <<>>
     /\ mDb' = [mDb EXCEPT ![s] = Append(mDb[s], sm.email)]
     /\ smsocket' = [smsocket EXCEPT ![s] = SetEmail(sm, NoMail)]
     /\ UNCHANGED crashed
  \/ /\ sm.email = NoMail
     /\ smsocket' = [smsocket EXCEPT ![s] = IF sm.context THEN SetEmail(sm, NoMail) ELSE sm]
     /\ UNCHANGED <<mDb, crashed>>

\* The smtp callback; its mask lets through MAIL and RCPT.
HandleSmtp(s, line) ==
  \/ line.word = "MAIL" /\ HandleFrom(s, line)
  \/ line.word = "RCPT" /\ HandleRcpt(s, line)
===============================================================================
