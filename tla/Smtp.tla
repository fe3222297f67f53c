--------------------------------- MODULE Smtp ---------------------------------
(***************************************************************************)
(* The vocabulary libEmailz and the Spamass application share: connections, *)
(* received lines, the SMTP commands they decode to, and mails.            *)
(*                                                                         *)
(* A line is what emailz_socket_read_line leaves in socket->line: bytes up *)
(* to CR LF.  Its text is abstracted to what the code tells apart: the     *)
(* word emailz_socket_read_command would cut off its front, its argument,  *)
(* its length, and what handleData: would read it as.                      *)
(***************************************************************************)
EXTENDS Naturals, Sequences

CONSTANTS
  Socket,   \* connections (one emailz_socket_s each, never reused here)
  Arg,      \* command arguments: sender and recipient addresses
  NoArg,    \* an argument that names no address
  Header,   \* names that stand before a colon, trimmed and in lower case
  Line,     \* the lines clients send
  NoMail    \* the nil SMEmail

Verb == {"HELO", "EHLO", "MAIL", "RCPT", "DATA", "QUIT", "RSET", "NOOP",
         "HELP", "VRFY", "AUTH", "STARTTLS"}

\* Besides the verbs: "" is a line with no leading letter (an empty line,
\* "<tag>", a digit), "." is the line that ends the data segment, and
\* "text" is any other word.
Word == Verb \cup {"", ".", "text"}

\* A line as a header.  named: does not begin with white space and has a colon;
\* folded: begins with white space, and may have one; ends: is empty, or has
\* neither; undecodable: is not UTF-8.  name is what stands before the colon.
Text ==
  [kind : {"named"}, name : Header]
  \cup [kind : {"folded"}, name : Header \cup {"nil"}]
  \cup [kind : {"ends", "undecodable"}, name : {"nil"}]

ASSUME LineAssumption ==
  /\ Line \subseteq [word : Word, arg : Arg \cup {NoArg}, len : Nat \ {0}, text : Text]
  /\ NoArg \notin Arg
  /\ "nil" \notin Header

\* emailz_socket_read_command found at least one letter.
HasCommand(line) == line.word \notin {"", "."}

\* The command a line decodes to; "NONE" is an unsupported word.
Command(line) == IF line.word \in Verb THEN line.word ELSE "NONE"

\* What an SMEmail holds that is modelled: sender, recipients and data.
Mail == [from : Arg \cup {NoArg}, rcpt : Seq(Arg), body : Seq(Line)]

ASSUME NoMailAssumption == NoMail \notin Mail

EmptyMail == [from |-> NoArg, rcpt |-> <<>>, body |-> <<>>]
===============================================================================
