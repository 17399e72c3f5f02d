----------------------------- MODULE HttpClient -----------------------------
(***************************************************************************)
(* HTTPClient talking to the server: three GET requests over one           *)
(* connection, each followed by a loop that reads the response up to the   *)
(* end of the stream.  The client is the only one and takes the place of   *)
(* the scripted clients of HttpServer.                                     *)
(***************************************************************************)
EXTENDS HttpServer

VARIABLES
  request,   \* [c]: how many requests the client has sent
  waiting,   \* [c]: the client is in a loop over readLine
  printed    \* [c]: how many responses the client has read

clientVars == <<request, waiting, printed>>

\* The second and the third request carry a Cookie line.
RequestLines(n) ==
  IF n = 1 THEN <<[kind |-> "GET", url |-> <<>>], [kind |-> "other"]>>
           ELSE <<[kind |-> "GET", url |-> <<>>], [kind |-> "other"], [kind |-> "other"]>>

ClientInit ==
  /\ Init
  /\ request = [c \in Client |-> 0]
  /\ waiting = [c \in Client |-> FALSE]
  /\ printed = [c \in Client |-> 0]

Open(c) == pc[c] \notin {"unconnected", "load", "store", "ended"}

SendRequest(c) ==
  /\ Open(c) /\ ~waiting[c] /\ request[c] < 3
  /\ request' = [request EXCEPT ![c] = @ + 1]
  /\ waiting' = [waiting EXCEPT ![c] = TRUE]
  /\ inBuf' = [inBuf EXCEPT ![c] = @ \o RequestLines(request[c] + 1)]
  /\ UNCHANGED <<files, acceptVars, workerVars, sent, out, printed>>

ReadResponse(c) ==
  /\ waiting[c] /\ printed[c] < Len(out[c])
  /\ printed' = [printed EXCEPT ![c] = @ + 1]
  /\ UNCHANGED <<vars, request, waiting>>

\* readLine returns null once the server has closed the connection.
EndOfStream(c) ==
  /\ waiting[c] /\ printed[c] = Len(out[c]) /\ pc[c] \in {"load", "store", "ended"}
  /\ waiting' = [waiting EXCEPT ![c] = FALSE]
  /\ UNCHANGED <<vars, request, printed>>

ClientStep(c) == SendRequest(c) \/ ReadResponse(c) \/ EndOfStream(c)

ClientNext == (ServerNext /\ UNCHANGED clientVars) \/ \E c \in Client : ClientStep(c)

ClientSpec ==
  /\ ClientInit /\ [][ClientNext]_<<vars, clientVars>>
  /\ \A c \in Client : WF_<<vars, clientVars>>((Accept(c) \/ Worker(c)) /\ UNCHANGED clientVars)
  /\ \A c \in Client : WF_<<vars, clientVars>>(ClientStep(c))

(* The assignment asks the server to "Return a HTTP response message and    *)
(* close the client socket connection": a client that has its response     *)
(* comes to the end of its loop.                                           *)
ClientGetsOn == \A c \in Client : printed[c] = 1 ~> ~waiting[c]
=============================================================================
