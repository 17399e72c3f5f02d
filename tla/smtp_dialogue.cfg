SPECIFICATION Spec
CONSTANTS
  Script <- Scripts
  Mail <- Mails
  File <- Files
  Refusable <- Verbs
  LongReply = {"EHLO"}
  Fault = {"close", "silent"}
INVARIANTS SmtpInv InStep MailFiled KeepsStates
PROPERTY ClientEnds
CHECK_DEADLOCK FALSE
