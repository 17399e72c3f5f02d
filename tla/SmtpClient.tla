----------------------------- MODULE SmtpClient -----------------------------
(***************************************************************************)
(* SMTPclient: a script of commands (input.txt) and a mail (mail.txt) are  *)
(* sent to a mail server, one reply line being read after each command and *)
(* none of them being looked at.  The server is not part of the            *)
(* repository: it is modelled as the SMTP state machine the client counts  *)
(* on, with the ways in which such a server can disappoint it.             *)
(***************************************************************************)
EXTENDS Integers, Sequences, FiniteSets, SequencesExt

CONSTANTS
  Script,   \* the possible contents of input.txt: sequences of command verbs
  Mail,     \* the possible contents of mail.txt: sequences of lines, see below
  File,     \* the attachment files that exist
  Refusable,\* the commands the server may refuse
  LongReply,\* the commands the server answers with two lines
  Fault     \* what the server may do at any time: a subset of {"close", "silent"}

Verb == {"HELO", "EHLO", "MAIL", "RCPT", "DATA", "RSET", "QUIT"}

\* A line of mail.txt is text, the single dot, or a list of attachments.  Text
\* may begin with a dot, or read like a command.
PlainText == {"text", ".text"} \cup Verb
MailLines == [kind : {"text"}, text : PlainText] \cup [kind : {"dot"}]
             \cup [kind : {"attach"}, files : Seq(STRING)]

ASSUME ScriptAssumption ==
  /\ \A s \in Script : s \in Seq(Verb)
  /\ \A m \in Mail : m \in Seq(MailLines)
  /\ Fault \subseteq {"close", "silent"}

VARIABLES
  input,     \* the lines of input.txt
  br,        \* the number of the line of input.txt being carried out
  mail,      \* the lines of mail.txt
  br2,       \* [line, open]: the reader of mail.txt
  pc,        \* where main is
  toServer,  \* lines on their way, [text, from, no]
  toClient,  \* reply lines on their way, [code, to]
  asked,     \* how many lines were sent that a reply is awaited for
  printed,   \* the replies printed
  server,    \* the state of the mail server
  collected, \* the lines of the mail the server is receiving
  mailbox    \* the mails the server has accepted

clientVars == <<input, br, mail, br2, pc, asked, printed>>
serverVars == <<server, collected, mailbox>>
vars == <<clientVars, serverVars, toServer, toClient>>

Init ==
  /\ input \in Script /\ br = 1
  /\ mail \in Mail /\ br2 = [line |-> 1, open |-> TRUE]
  /\ pc = "greeting"
  /\ toServer = <<>> /\ toClient = <<[code |-> "220", to |-> 0]>>
  /\ asked = 0 /\ printed = <<>>
  /\ server = "start" /\ collected = <<>> /\ mailbox = <<>>

-----------------------------------------------------------------------------
(* The client.                                                             *)

Line(text, from, no) == [text |-> text, from |-> from, no |-> no]

\* in.readLine: the next reply line, or null once the server has closed.
ReadLine ==
  \/ /\ toClient # <<>>
     /\ printed' = Append(printed, Head(toClient))
     /\ toClient' = Tail(toClient)
  \/ /\ toClient = <<>> /\ server = "closed"
     /\ printed' = Append(printed, [code |-> "null", to |-> asked])
     /\ UNCHANGED toClient

ReadGreeting ==
  /\ pc = "greeting" /\ ReadLine
  /\ pc' = "command"
  /\ UNCHANGED <<input, br, mail, br2, asked, serverVars, toServer>>

\* Mutant: the reply to DATA is not read.
SendCommand_unread ==
  /\ pc = "command" /\ br <= Len(input)
  /\ toServer' = Append(toServer, Line(input[br], "input", asked + 1))
  /\ asked' = asked + 1
  /\ pc' = IF input[br] = "DATA" THEN "mail" ELSE "reply"
  /\ UNCHANGED <<input, br, mail, br2, printed, serverVars, toClient>>

SendCommand ==
  /\ pc = "command" /\ br <= Len(input)
  /\ toServer' = Append(toServer, Line(input[br], "input", asked + 1))
  /\ asked' = asked + 1
  /\ pc' = "reply"
  /\ UNCHANGED <<input, br, mail, br2, printed, serverVars, toClient>>

EndOfScript ==
  /\ pc = "command" /\ br > Len(input)
  /\ pc' = "ended"
  /\ UNCHANGED <<input, br, mail, br2, asked, printed, serverVars, toServer, toClient>>

\* After QUIT main returns; after DATA it reads mail.txt, which throws if the
\* file was closed at the end of an earlier mail; else the next command is read.
ReadReply ==
  /\ pc = "reply" /\ ReadLine
  /\ \/ /\ input[br] = "QUIT" /\ pc' = "ended" /\ UNCHANGED br
     \/ /\ input[br] = "DATA" /\ br2.open /\ pc' = "mail" /\ UNCHANGED br
     \/ /\ input[br] = "DATA" /\ ~br2.open /\ pc' = "ended" /\ UNCHANGED br
     \/ /\ input[br] \notin {"QUIT", "DATA"} /\ pc' = "command" /\ br' = br + 1
  /\ UNCHANGED <<input, mail, br2, asked, serverVars, toServer>>

\* Four println calls for an attachment, none for a file that does not exist.
Attached(files) ==
  FlattenSeq([i \in DOMAIN files |-> IF files[i] \in File
    THEN <<"--sep", "Content-Type", "base64", "...">> ELSE <<>>])

\* What the loop prints for a line that is not the dot.  No dot is doubled.
TextOf(line) ==
  CASE line.kind = "attach" -> Attached(line.files)
    [] line.kind = "text"   -> <<line.text>>
    [] OTHER                -> <<>>

\* The first n lines that the current line of mail.txt is sent as.
Sent(n) == [i \in 1..n |-> Line(TextOf(mail[br2.line])[i], "mail", asked)]

\* Mutant: an attachment is sent as the line that names it.
MailLine_raw ==
  /\ pc = "mail" /\ br2.line <= Len(mail) /\ mail[br2.line].kind # "dot"
  /\ toServer' = Append(toServer, Line("text", "mail", asked))
  /\ br2' = [br2 EXCEPT !.line = @ + 1]
  /\ UNCHANGED <<input, br, mail, pc, asked, printed, serverVars, toClient>>

MailLine ==
  /\ pc = "mail" /\ br2.line <= Len(mail) /\ mail[br2.line].kind # "dot"
  /\ toServer' = toServer \o Sent(Len(TextOf(mail[br2.line])))
  /\ br2' = [br2 EXCEPT !.line = @ + 1]
  /\ UNCHANGED <<input, br, mail, pc, asked, printed, serverVars, toClient>>

\* An attachment that exists and cannot be read, a directory for instance: its
\* heading is sent, and the IOException ends the program.
AttachmentFails ==
  /\ pc = "mail" /\ br2.line <= Len(mail) /\ mail[br2.line].kind = "attach"
  /\ \E n \in DOMAIN TextOf(mail[br2.line]) :
       /\ TextOf(mail[br2.line])[n] = "Content-Type"
       /\ toServer' = toServer \o Sent(n)
  /\ pc' = "ended"
  /\ UNCHANGED <<input, br, br2, mail, asked, printed, serverVars, toClient>>

\* The end of the file: the loop ends, no dot is sent and no reply is read.
EndOfMail ==
  /\ pc = "mail" /\ br2.line > Len(mail)
  /\ pc' = "command" /\ br' = br + 1
  /\ UNCHANGED <<input, mail, br2, asked, printed, serverVars, toServer, toClient>>

\* Mutant: the dot is not sent, its reply is awaited.
SendDot_unsent ==
  /\ pc = "mail" /\ br2.line <= Len(mail) /\ mail[br2.line].kind = "dot"
  /\ asked' = asked + 1
  /\ br2' = [br2 EXCEPT !.line = @ + 1]
  /\ pc' = "dot"
  /\ UNCHANGED <<input, br, mail, printed, serverVars, toServer, toClient>>

SendDot ==
  /\ pc = "mail" /\ br2.line <= Len(mail) /\ mail[br2.line].kind = "dot"
  /\ toServer' = Append(toServer, Line(".", "mail", asked + 1))
  /\ asked' = asked + 1
  /\ br2' = [br2 EXCEPT !.line = @ + 1]
  /\ pc' = "dot"
  /\ UNCHANGED <<input, br, mail, printed, serverVars, toClient>>

\* Mutant: the loop goes on after the dot.
ReadDotReply_goes_on ==
  /\ pc = "dot" /\ ReadLine
  /\ pc' = "mail"
  /\ UNCHANGED <<input, br, br2, mail, asked, serverVars, toServer>>

\* Mutant: one line of input.txt is skipped.
ReadDotReply_skips ==
  /\ pc = "dot" /\ ReadLine
  /\ br2' = [br2 EXCEPT !.open = FALSE]
  /\ pc' = "command" /\ br' = br + 2
  /\ UNCHANGED <<input, mail, asked, serverVars, toServer>>

ReadDotReply ==
  /\ pc = "dot" /\ ReadLine
  /\ br2' = [br2 EXCEPT !.open = FALSE]
  /\ pc' = "command" /\ br' = br + 1
  /\ UNCHANGED <<input, mail, asked, serverVars, toServer>>

\* The connection is reset while a reply is awaited: the IOException is caught
\* around the whole loop.
ConnectionReset ==
  /\ pc \in {"reply", "dot"} /\ server = "closed" /\ toServer # <<>>
  /\ pc' = "ended"
  /\ UNCHANGED <<input, br, mail, br2, asked, printed, serverVars, toServer, toClient>>

Client ==
  \/ ReadGreeting \/ SendCommand \/ EndOfScript \/ ReadReply
  \/ MailLine \/ AttachmentFails \/ EndOfMail \/ SendDot \/ ReadDotReply \/ ConnectionReset

-----------------------------------------------------------------------------
(* The mail server, external.                                              *)

Reply(line, code, lines) ==
  toClient' = toClient \o [i \in 1..lines |-> [code |-> code, to |-> line.no]]

\* What the server makes of a command in its state: the code and the state
\* it goes to.
Handle(cmd) ==
  CASE cmd \in {"HELO", "EHLO"}                        -> <<"250", "ready">>
    [] cmd = "MAIL" /\ server = "ready"                -> <<"250", "mail">>
    [] cmd = "RCPT" /\ server \in {"mail", "rcpt"}     -> <<"250", "rcpt">>
    [] cmd = "DATA" /\ server = "rcpt"                 -> <<"354", "data">>
    [] cmd = "RSET" /\ server # "start"                -> <<"250", "ready">>
    [] cmd = "QUIT"                                    -> <<"221", "closed">>
    [] OTHER                                           -> <<"503", server>>

\* Outside a mail every line is a command, also a line of mail.txt.
TakeCommand ==
  /\ server \notin {"data", "closed", "silent"} /\ toServer # <<>>
  /\ LET line == Head(toServer) IN
       \/ /\ Reply(line, Handle(line.text)[1], IF line.text \in LongReply THEN 2 ELSE 1)
          /\ server' = Handle(line.text)[2]
       \/ /\ line.text \in Refusable
          /\ Reply(line, "550", 1) /\ UNCHANGED server
  /\ toServer' = Tail(toServer)
  /\ UNCHANGED <<clientVars, collected, mailbox>>

\* In a mail the server takes the first dot of a line away (RFC 5321, 4.5.2).
Unstuffed(text) ==
  CASE text = ".text" -> "text" [] text = "..." -> ".." [] OTHER -> text

TakeText ==
  /\ server = "data" /\ toServer # <<>> /\ Head(toServer).text # "."
  /\ collected' = Append(collected, [Head(toServer) EXCEPT !.text = Unstuffed(@)])
  /\ toServer' = Tail(toServer)
  /\ UNCHANGED <<clientVars, server, mailbox, toClient>>

TakeDot ==
  /\ server = "data" /\ toServer # <<>> /\ Head(toServer).text = "."
  /\ mailbox' = Append(mailbox, collected) /\ collected' = <<>>
  /\ server' = "ready"
  /\ Reply(Head(toServer), "250", 1)
  /\ toServer' = Tail(toServer)
  /\ UNCHANGED clientVars

Server == TakeCommand \/ TakeText \/ TakeDot

Close ==
  /\ "close" \in Fault /\ server \notin {"closed", "silent"}
  /\ server' = "closed"
  /\ UNCHANGED <<clientVars, collected, mailbox, toServer, toClient>>

Silence ==
  /\ "silent" \in Fault /\ server \notin {"closed", "silent"}
  /\ server' = "silent"
  /\ UNCHANGED <<clientVars, collected, mailbox, toServer, toClient>>

Next == Client \/ Server \/ Close \/ Silence

Spec == Init /\ [][Next]_vars /\ WF_vars(Client) /\ WF_vars(Server)

-----------------------------------------------------------------------------
(* Properties.                                                             *)

\* The readers stay within their files and no reply is printed that was not
\* asked for.
TypeOK ==
  /\ br \in 1..Len(input) + 1 /\ br2 \in [line : 1..Len(mail) + 1, open : BOOLEAN]
  /\ pc \in {"greeting", "command", "reply", "mail", "dot", "ended"}
  /\ server \in {"start", "ready", "mail", "rcpt", "data", "closed", "silent"}
  /\ asked \in Nat /\ Len(printed) <= asked + 1

Replies == ToSet(printed) \cup ToSet(toClient)

\* No command of the script has been refused so far.
NoRefusal == \A x \in Replies : x.code \notin {"503", "550"}

HasDot == \E i \in DOMAIN mail : mail[i].kind = "dot"

\* How many commands of the script the server may answer with a second line.
Extra == Cardinality({i \in DOMAIN input : input[i] \in LongReply})

\* One line is read for every command and dot sent (35, 40, 46, 52, 61, 107):
\* the next command is sent only then, and unless a command was refused a line
\* printed answers the command just sent or, after replies of two lines, one
\* sent that many commands before.  Null is read only after the connection's end.
\* Of all replies ("You must output all the replies from the server") only as
\* many are unread after QUIT.
InStep ==
  /\ NoRefusal => \A n \in DOMAIN printed :
       printed[n].code = "null" \/ printed[n].to \in n - 1 - Extra .. n - 1
  /\ pc = "command" => Len(printed) = asked + 1
  /\ NoRefusal /\ pc = "ended" /\ br <= Len(input) /\ input[br] = "QUIT" /\ server = "closed" /\ toServer = <<>>
       => Len(toClient) <= Extra

\* What the lines of a mail before a line are sent as, attachments that exist
\* written out.
TextBefore(m, line) == FlattenSeq([i \in 1..line - 1 |-> TextOf(m[i])])

\* The dot of a mail, or its end.
DotLine(m) == CHOOSE d \in 1..Len(m) + 1 :
                /\ d <= Len(m) => m[d].kind = "dot"
                /\ \A i \in 1..d - 1 : m[i].kind # "dot"

\* The part of mail.txt that belongs to the mail.
ExpectedText == TextBefore(mail, DotLine(mail))

\* A mail begins after DATA, a command of input.txt or, once a command was
\* refused, a line of mail.txt that reads like it.
Opened(j) ==
  \/ j = 0
  \/ j \in 1..Len(ExpectedText) /\ ExpectedText[j] = "DATA" /\ ~NoRefusal

\* The lines are those of mail.txt after the first j, n of them read.
Holds(lines, j, n) ==
  /\ n = j + Len(lines) /\ n <= Len(ExpectedText)
  /\ \A i \in 1..Len(lines) :
       lines[i].text = Unstuffed(ExpectedText[j + i]) /\ lines[i].from = "mail"

\* A mail the server files ends with the last line of mail.txt before the dot
\* and has nothing of input.txt, also when the script has a second DATA (line 62
\* has closed the file by then) or the connection breaks.  It is all of mail.txt
\* unless DATA was refused (line 52 prints the reply and the text is sent all the
\* same); lines that begin with a dot lose it (87, 95 double none).
MailFiled ==
  \A m \in DOMAIN mailbox :
    \E j \in 0..Len(ExpectedText) :
      Opened(j) /\ Holds(mailbox[m], j, Len(ExpectedText))

\* The assignment: "You must maintain the states of the SMTP clients according
\* to the protocol".  The client never looks at a reply and is still in the
\* server's state: no line of mail.txt comes to a server that waits for a
\* command unless a command was refused (line 52 prints the reply to DATA), and
\* no command to one that receives a mail unless mail.txt has no dot (line 55).
KeepsStates ==
  toServer # <<>> =>
    /\ server \in {"start", "ready", "mail", "rcpt"} /\ NoRefusal => Head(toServer).from = "input"
    /\ server = "data" /\ HasDot => Head(toServer).from = "mail"

-----------------------------------------------------------------------------
(* The inductive invariant.                                                *)

MailText == PlainText \cup {"--sep", "Content-Type", "base64", "..."}

\* The lines the client sends: commands of the script, text of the mail, dots.
SentLine ==
  [text : Verb, from : {"input"}, no : Nat] \cup [text : MailText \cup {"."}, from : {"mail"}, no : Nat]

\* The lines the server collects.
FiledLine == [text : MailText \cup {".."}, from : {"input", "mail"}, no : Nat]

\* After DATA and after a line of the mail that is not the dot comes a line of
\* the mail, and only there.
Opens(line) == IF line.from = "mail" THEN line.text # "." ELSE line.text = "DATA"

\* The client has sent DATA and not yet the dot.
Within == pc = "mail" \/ (pc = "reply" /\ input[br] = "DATA")

\* Lines sent one after the other.
Follows(a, b, dot) == /\ b.from = "mail" => Opens(a)
                      /\ dot /\ Opens(a) => b.from = "mail"
Chain(t, dot) == \A i \in 1..Len(t) - 1 : Follows(t[i], t[i + 1], dot)

\* The lines under way, and how they fit what the client will send next.
Stream ==
  /\ toServer \in Seq(SentLine)
  /\ Chain(toServer, HasDot)
  /\ toServer # <<>> =>
       /\ Within => Opens(Last(toServer))
       /\ HasDot /\ Opens(Last(toServer)) => Within \/ pc = "ended"

\* What the server is to receive next, a line under way or one still to be sent.
Meets ==
  /\ server = "data" /\ HasDot =>
       IF toServer = <<>> THEN Within \/ pc = "ended" ELSE Head(toServer).from = "mail"
  /\ server \in {"start", "ready", "mail", "rcpt"} /\ NoRefusal =>
       IF toServer = <<>> THEN ~Within ELSE Head(toServer).from = "input"

\* Where the client is in its two files.
Reading ==
  /\ input \in Script /\ mail \in Mail
  /\ pc \in {"reply", "mail", "dot"} => br <= Len(input)
  /\ pc \in {"mail", "dot"} => br2.open
  /\ HasDot /\ br2.open /\ pc \in {"greeting", "command", "reply"} => br2.line = 1
  /\ br2.open /\ pc \notin {"dot", "ended"} => \A i \in 1..br2.line - 1 : mail[i].kind # "dot"

ReplyLine == [code : {"220", "221", "250", "354", "503", "550", "null"}, to : Nat]

\* One reply is read for each command and dot, and one before them.
Printed ==
  /\ printed \in Seq(ReplyLine) /\ toClient \in Seq(ReplyLine)
  /\ pc \in {"greeting", "reply", "dot"} => Len(printed) = asked
  /\ pc \in {"command", "mail"} => Len(printed) = asked + 1

\* After line j of t the mail begins; lines j + 1 to i of t are lines of it.
Begins(t, j) == t[j].from = "input" /\ t[j].text = "DATA"
Run(t, j, i) == \A k \in j + 1..i : t[k].from = "mail"

\* After DATA comes the text, from its beginning.
MailFollows(t, text) ==
  \A i \in 1..Len(t) : \A j \in 1..i - 1 :
    Begins(t, j) /\ Run(t, j, i) => i - j <= Len(text) /\ t[i].text = text[i - j]

\* So much of the text has been sent since DATA.
Begun(t, sent) ==
  \A j \in 1..Len(t) : Begins(t, j) /\ Run(t, j, Len(t)) => Len(t) - j = sent

\* The server has read n lines of the text and t goes on from there.
Continues(t, n, text) ==
  \A i \in 1..Len(t) : Run(t, 0, i) => n + i <= Len(text) /\ t[i].text = text[n + i]

\* The text that follows DATA, the dot included.
Marked == Append(ExpectedText, ".")

\* What is under way is the text after its first n lines, as far as the client
\* has read it.
Reached(n) ==
  /\ Continues(toServer, n, Marked)
  /\ br2.open /\ Within /\ Run(toServer, 0, Len(toServer)) =>
       n + Len(toServer) = Len(TextBefore(mail, br2.line))

\* The server has read some lines of the text since DATA, and has collected
\* those after the line that opened the mail.
Mailed ==
  /\ collected \in Seq(FiledLine) /\ mailbox \in Seq(Seq(FiledLine))
  /\ ~HasDot => mailbox = <<>> /\ \A i \in 1..Len(toServer) : toServer[i].text # "."
  /\ server \in {"start", "ready", "mail", "rcpt"} => collected = <<>>
  /\ HasDot =>
       /\ MailFollows(toServer, Marked)
       /\ br2.open /\ Within => Begun(toServer, Len(TextBefore(mail, br2.line)))
  /\ HasDot /\ server \notin {"closed", "silent"} =>
       \E n, j \in 0..Len(Marked) :
         Reached(n) /\ (server = "data" => Opened(j) /\ Holds(collected, j, n))

MailInv == TypeOK /\ Reading /\ Printed /\ Stream /\ Meets /\ Mailed /\ MailFiled

\* The number of command i: the dot of a mail, which follows the first DATA, is
\* counted too.
DataBefore(i) == \E j \in DOMAIN input : j < i /\ input[j] = "DATA"
NumberOf(i) == IF HasDot /\ DataBefore(i) THEN i + 1 ELSE i

\* The numbers asked follow from the place in the script.
Asked ==
  /\ pc \in {"greeting", "command"} => asked = NumberOf(br) - 1
  /\ pc \in {"reply", "mail"} => asked = NumberOf(br)
  /\ pc = "dot" => asked = NumberOf(br) + 1 /\ HasDot
  /\ pc \in {"mail", "dot"} => input[br] = "DATA"
  /\ HasDot /\ DataBefore(br) /\ pc # "ended" => ~br2.open

\* A line of the mail has the number of the command before it, any other line
\* the next one.
Step(line) == IF line.from = "mail" /\ line.text # "." THEN 0 ELSE 1

\* The lines under way are numbered in order, a command by its place.
Numbered ==
  /\ \A k \in 1..Len(toServer) : toServer[k].no <= asked
  /\ \A k \in 1..Len(toServer) : toServer[k].from = "input" =>
       \E i \in DOMAIN input : toServer[k].text = input[i] /\ toServer[k].no = NumberOf(i)
  /\ \A k \in 1..Len(toServer) - 1 : toServer[k + 1].no = toServer[k].no + Step(toServer[k + 1])
  /\ toServer # <<>> => Last(toServer).no = asked

LastReply == IF toClient # <<>> THEN Last(toClient) ELSE Last(printed)

\* The server answers in order: what it meets next comes after what it has
\* answered last.
Answering ==
  NoRefusal /\ (server \in {"start", "ready", "mail", "rcpt"} \/ (server = "data" /\ HasDot)) =>
    IF toServer = <<>> THEN LastReply.to = asked
    ELSE Head(toServer).no = LastReply.to + Step(Head(toServer))

\* The commands up to a number that may have a second line of reply.
LongUpTo(t) == {i \in DOMAIN input : input[i] \in LongReply /\ NumberOf(i) <= t}

\* The reply at position n is behind by the long replies before it at most.
Fits(n, reply) ==
  reply.code # "null" =>
    reply.to <= n - 1 /\ n - 1 <= reply.to + Cardinality(LongUpTo(reply.to)) /\ reply.to <= asked
Fitting == {p \in Nat \X ReplyLine : Fits(p[1], p[2])}

\* Null is read only when the server has closed and everything else is read.
Counted ==
  /\ printed # <<>> \/ toClient # <<>>
  /\ NoRefusal =>
       /\ \A n \in 1..Len(printed) : <<n, printed[n]>> \in Fitting
       /\ \A k \in 1..Len(toClient) : <<Len(printed) + k, toClient[k]>> \in Fitting
  /\ \A k \in 1..Len(toClient) : toClient[k].code # "null"
  /\ (\E n \in 1..Len(printed) : printed[n].code = "null") => server = "closed" /\ toClient = <<>>

\* After QUIT everything asked is answered, unless the connection was reset.
Ending ==
  pc = "ended" /\ br <= Len(input) /\ input[br] = "QUIT" =>
    Len(printed) = asked + 1 \/ (server = "closed" /\ toServer # <<>>)

SmtpInv == MailInv /\ Asked /\ Numbered /\ Answering /\ Counted /\ Ending
-----------------------------------------------------------------------------
\* The client ends, also when the server closes the connection at any moment,
\* refuses commands or sends more lines than are read.  Only a server that falls
\* silent, or still waits for the dot that mail.txt does not have, keeps it: no
\* read has a timeout (line 18 sets one for the connection alone).
ClientEnds == HasDot => <>(pc = "ended" \/ server = "silent")
=============================================================================
