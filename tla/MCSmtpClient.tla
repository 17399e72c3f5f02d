---------------------------- MODULE MCSmtpClient ----------------------------
(* Scripts and mails for the client.                                       *)
EXTENDS SmtpClient

Text(text) == [kind |-> "text", text |-> text]
T == Text("text")
Dot == [kind |-> "dot"]
Attach(files) == [kind |-> "attach", files |-> files]

\* input.txt of the repository, a script that sends a second mail, one that
\* starts over and one that asks for the extensions of the server.
Scripts ==
  { <<"HELO", "MAIL", "RCPT", "RCPT", "DATA", "QUIT">>,
    <<"HELO", "MAIL", "RCPT", "DATA", "MAIL", "RCPT", "DATA", "QUIT">>,
    <<"HELO", "MAIL", "RSET", "MAIL", "RCPT", "DATA">>,
    <<"EHLO", "MAIL", "RCPT", "DATA", "QUIT">> }

\* The shape of mail.txt of the repository: text, an attachment, the dot and a
\* line after it; a mail whose attachments are partly missing; one with a line
\* that begins with a dot and one that reads DATA; one without dot.
Mails ==
  { <<T, T, Attach(<<"buet.png">>), T, Dot, T>>,
    <<T, Attach(<<"missing.png", "buet.png">>), Dot>>,
    <<Text(".text"), Text("DATA"), T, Dot>>,
    <<T>> }
Verbs == {"HELO", "EHLO", "MAIL", "RCPT", "DATA", "RSET"}
Files == {"buet.png"}
=============================================================================
