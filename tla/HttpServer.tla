----------------------------- MODULE HttpServer -----------------------------
(***************************************************************************)
(* The web server of src/HTTP: HTTPServer accepts connections and starts   *)
(* one WorkerThread for each; a worker reads what has arrived, goes        *)
(* through it line by line and answers through Router, HttpSend, NotFound  *)
(* and PostReq, which share the files of the working directory.            *)
(*                                                                         *)
(* A line of a request is a record with its kind and what the program      *)
(* takes from it.  A path is the sequence of its names.  The content of a  *)
(* file is Template (a page with the marker "<h2> Post-> </h2>"), the name *)
(* that was put at the marker, or Empty.  Files are shorter than one       *)
(* buffer, so that one read or write moves all of a file.                  *)
(***************************************************************************)
EXTENDS Integers, Sequences, FiniteSets, TLC

CONSTANTS
  Client,        \* connections that clients will open
  Script,        \* [c]: the lines the client of connection c sends
  Pages,         \* the files at the start: from paths to contents
  Dotted,        \* the names that contain a "."
  Template, Empty,
  NoName,        \* the user field of a form sent without a name
  NullUrl,       \* the null reference url starts with
  OldLogs        \* the ids with a log file from earlier runs of the server

ASSUME ClientAssumption == IsFiniteSet(Client)
ASSUME ScriptAssumption == \A c \in Client : Len(Script[c]) \in Nat
ASSUME PagesAssumption == Pages = [p \in DOMAIN Pages |-> Pages[p]]
ASSUME ContentAssumption == Template # Empty /\ Empty \notin {Pages[p] : p \in DOMAIN Pages}
ASSUME NameAssumption ==
  \A c \in Client : \A k \in 1..Len(Script[c]) : Script[c][k].kind = "user" => Script[c][k].user # Empty
ASSUME LogAssumption == OldLogs \subseteq Nat

VARIABLES
  files,             \* the contents of the files
  log,               \* the ids that have a log file
  acceptor,          \* where main is: [pc, id, count]
  workerThreadCount, \* the static counter of HTTPServer
  pc,                \* [c]: where the worker of connection c is
  fileWriter,        \* [c]: whether the worker has a log writer
  sent,              \* [c]: how many lines of Script[c] have been sent
  inBuf,             \* [c]: lines that have arrived and were not read yet
  lines,             \* [c]: lines of the chunk the worker goes through
  httpRequest,       \* [c]: "" or "POST"
  url,               \* [c]: the variable url of run()
  job,               \* [c]: local variables of the call under way
  out                \* [c]: the responses sent to the client

acceptVars == <<acceptor, workerThreadCount, log>>
workerVars == <<pc, fileWriter, lines, httpRequest, url, job>>
vars == <<files, acceptVars, workerVars, sent, inBuf, out>>

NoJob == [url |-> <<>>, user |-> NoName, content |-> Empty, count |-> 0]

Init ==
  /\ files = Pages
  /\ log = OldLogs
  /\ acceptor = [pc |-> "accept", id |-> 1, count |-> 0]
  /\ workerThreadCount = 0
  /\ pc = [c \in Client |-> "unconnected"]
  /\ fileWriter = [c \in Client |-> FALSE]
  /\ sent = [c \in Client |-> 0]
  /\ inBuf = [c \in Client |-> <<>>]
  /\ lines = [c \in Client |-> <<>>]
  /\ httpRequest = [c \in Client |-> ""]
  /\ url = [c \in Client |-> NullUrl]
  /\ job = [c \in Client |-> NoJob]
  /\ out = [c \in Client |-> <<>>]

-----------------------------------------------------------------------------
(* HTTPServer.main *)

\* accept, the constructor of WorkerThread (which opens the log only if it
\* creates it) and Thread.start.
Accept(c) ==
  /\ acceptor.pc = "accept" /\ pc[c] = "unconnected"
  /\ fileWriter' = [fileWriter EXCEPT ![c] = acceptor.id \notin log]
  /\ log' = log \cup {acceptor.id}
  /\ pc' = [pc EXCEPT ![c] = "chunk"]
  /\ acceptor' = [acceptor EXCEPT !.pc = "load"]
  /\ UNCHANGED <<files, workerThreadCount, lines, httpRequest, url, job, sent, inBuf, out>>

\* workerThreadCount++ is a read and a write.
AcceptLoad ==
  /\ acceptor.pc = "load"
  /\ acceptor' = [acceptor EXCEPT !.pc = "store", !.count = workerThreadCount]
  /\ UNCHANGED <<files, workerThreadCount, log, workerVars, sent, inBuf, out>>

AcceptStore ==
  /\ acceptor.pc = "store"
  /\ workerThreadCount' = acceptor.count + 1
  /\ acceptor' = [pc |-> "accept", id |-> acceptor.id + 1, count |-> 0]
  /\ UNCHANGED <<files, log, workerVars, sent, inBuf, out>>

-----------------------------------------------------------------------------
(* WorkerThread.run *)

\* Mutant: only the first request line of a chunk is looked at.
ReadChunk_first(c) ==
  /\ pc[c] = "chunk" /\ inBuf[c] # <<>>
  /\ IF fileWriter[c]
     THEN /\ lines' = [lines EXCEPT ![c] = <<Head(inBuf[c])>>]
          /\ inBuf' = [inBuf EXCEPT ![c] = <<>>]
          /\ url' = [url EXCEPT ![c] = NullUrl]
          /\ pc' = [pc EXCEPT ![c] = "lines"]
     ELSE /\ pc' = [pc EXCEPT ![c] = "close"]
          /\ UNCHANGED <<lines, inBuf, url>>
  /\ UNCHANGED <<files, acceptVars, fileWriter, httpRequest, job, sent, out>>

\* The loop over br.ready(): every character that has arrived is logged and
\* becomes part of the chunk.  Without a log writer the first one throws.
ReadChunk(c) ==
  /\ pc[c] = "chunk" /\ inBuf[c] # <<>>
  /\ IF fileWriter[c]
     THEN /\ lines' = [lines EXCEPT ![c] = inBuf[c]]
          /\ inBuf' = [inBuf EXCEPT ![c] = <<>>]
          /\ url' = [url EXCEPT ![c] = NullUrl]
          /\ pc' = [pc EXCEPT ![c] = "lines"]
     ELSE /\ pc' = [pc EXCEPT ![c] = "close"]
          /\ UNCHANGED <<lines, inBuf, url>>
  /\ UNCHANGED <<files, acceptVars, fileWriter, httpRequest, job, sent, out>>

\* Router.route: a directory stands for its index.html.
Routed(u) ==
  IF u = <<>> \/ \A k \in 1..Len(u) : u[k] \notin Dotted THEN Append(u, "index.html") ELSE u

NextLine(c) == lines' = [lines EXCEPT ![c] = Tail(@)]

\* Mutant: the file is served without a look whether it exists.
Route_unchecked(c, u, user, first) ==
  /\ job' = [job EXCEPT ![c] = [NoJob EXCEPT !.url = Routed(u), !.user = user]]
  /\ pc' = [pc EXCEPT ![c] = first]
  /\ UNCHANGED out

\* What route does with the file: 404 (answered by NotFound at once, from a
\* file nobody writes), or the first step of HttpSend or of PostReq.
Route(c, u, user, first) ==
  LET file == Routed(u)
  IN  IF file \in DOMAIN files
      THEN /\ job' = [job EXCEPT ![c] = [NoJob EXCEPT !.url = file, !.user = user]]
           /\ pc' = [pc EXCEPT ![c] = first]
           /\ UNCHANGED out
      ELSE /\ out' = [out EXCEPT ![c] = Append(@, [status |-> 404])]
           /\ UNCHANGED <<job, pc>>

GetLine(c) ==
  /\ pc[c] = "lines" /\ lines[c] # <<>> /\ Head(lines[c]).kind = "GET"
  /\ NextLine(c)
  /\ Route(c, Head(lines[c]).url, NoName, "length")
  /\ UNCHANGED <<files, acceptVars, fileWriter, httpRequest, url, sent, inBuf>>

PostLine(c) ==
  /\ pc[c] = "lines" /\ lines[c] # <<>> /\ Head(lines[c]).kind = "POST"
  /\ NextLine(c)
  /\ httpRequest' = [httpRequest EXCEPT ![c] = "POST"]
  /\ url' = [url EXCEPT ![c] = Head(lines[c]).url]
  /\ UNCHANGED <<files, acceptVars, pc, fileWriter, job, sent, inBuf, out>>

\* The form data: answered only if the POST line was part of the same chunk.
UserLine(c) ==
  /\ pc[c] = "lines" /\ lines[c] # <<>> /\ Head(lines[c]).kind = "user"
  /\ NextLine(c)
  /\ IF httpRequest[c] = "POST" /\ url[c] # NullUrl
     THEN Route(c, url[c], Head(lines[c]).user, "read")
     ELSE UNCHANGED <<job, pc, out>>
  /\ UNCHANGED <<files, acceptVars, fileWriter, httpRequest, url, sent, inBuf>>

\* Mutant: the name of the referring page is not added.
RefererLine_plain(c) ==
  /\ pc[c] = "lines" /\ lines[c] # <<>> /\ Head(lines[c]).kind = "Referer"
  /\ NextLine(c)
  /\ UNCHANGED <<files, acceptVars, pc, fileWriter, httpRequest, url, job, sent, inBuf, out>>

\* url += "/" + the last name of the referring page, where url may be null.
RefererLine(c) ==
  /\ pc[c] = "lines" /\ lines[c] # <<>> /\ Head(lines[c]).kind = "Referer"
  /\ NextLine(c)
  /\ url' = IF httpRequest[c] = "POST"
            THEN [url EXCEPT ![c] = Append(IF @ = NullUrl THEN <<"ull">> ELSE @, Head(lines[c]).name)]
            ELSE url
  /\ UNCHANGED <<files, acceptVars, pc, fileWriter, httpRequest, job, sent, inBuf, out>>

OtherLine(c) ==
  /\ pc[c] = "lines" /\ lines[c] # <<>> /\ Head(lines[c]).kind = "other"
  /\ NextLine(c)
  /\ UNCHANGED <<files, acceptVars, pc, fileWriter, httpRequest, url, job, sent, inBuf, out>>

ChunkDone(c) ==
  /\ pc[c] = "lines" /\ lines[c] = <<>>
  /\ pc' = [pc EXCEPT ![c] = "chunk"]
  /\ UNCHANGED <<files, acceptVars, fileWriter, lines, httpRequest, url, job, sent, inBuf, out>>

\* After an exception: the streams are closed, the counter is decremented.
Close(c) ==
  /\ pc[c] = "close"
  /\ pc' = [pc EXCEPT ![c] = "load"]
  /\ UNCHANGED <<files, acceptVars, fileWriter, lines, httpRequest, url, job, sent, inBuf, out>>

CloseLoad(c) ==
  /\ pc[c] = "load"
  /\ job' = [job EXCEPT ![c].count = workerThreadCount]
  /\ pc' = [pc EXCEPT ![c] = "store"]
  /\ UNCHANGED <<files, acceptVars, fileWriter, lines, httpRequest, url, sent, inBuf, out>>

CloseStore(c) ==
  /\ pc[c] = "store"
  /\ workerThreadCount' = job[c].count - 1
  /\ pc' = [pc EXCEPT ![c] = "ended"]
  /\ UNCHANGED <<files, acceptor, log, fileWriter, lines, httpRequest, url, job, sent, inBuf, out>>

-----------------------------------------------------------------------------
(* PostReq.write: read the page and put the name at the marker ...         *)

Edited(content, user) == IF content = Template /\ user # NoName THEN user ELSE content

\* Mutant: the page is opened for writing before it is read.
PostRead_late(c) ==
  /\ pc[c] = "read"
  /\ job' = [job EXCEPT ![c].content = Edited(Empty, job[c].user)]
  /\ pc' = [pc EXCEPT ![c] = "truncate"]
  /\ UNCHANGED <<files, acceptVars, fileWriter, lines, httpRequest, url, sent, inBuf, out>>

PostRead(c) ==
  /\ pc[c] = "read"
  /\ job' = [job EXCEPT ![c].content = Edited(files[job[c].url], job[c].user)]
  /\ pc' = [pc EXCEPT ![c] = "truncate"]
  /\ UNCHANGED <<files, acceptVars, fileWriter, lines, httpRequest, url, sent, inBuf, out>>

\* ... the FileWriter empties the file when it is opened ...
PostTruncate(c) ==
  /\ pc[c] = "truncate"
  /\ files' = [files EXCEPT ![job[c].url] = Empty]
  /\ pc' = [pc EXCEPT ![c] = "write"]
  /\ UNCHANGED <<acceptVars, fileWriter, lines, httpRequest, url, job, sent, inBuf, out>>

\* Mutant: the writer is neither flushed nor closed before the page is sent.
PostWrite_unflushed(c) ==
  /\ pc[c] = "write"
  /\ pc' = [pc EXCEPT ![c] = "length"]
  /\ UNCHANGED <<files, acceptVars, fileWriter, lines, httpRequest, url, job, sent, inBuf, out>>

\* ... and the page is written when it is flushed.
PostWrite(c) ==
  /\ pc[c] = "write"
  /\ files' = [files EXCEPT ![job[c].url] = job[c].content]
  /\ pc' = [pc EXCEPT ![c] = "length"]
  /\ UNCHANGED <<acceptVars, fileWriter, lines, httpRequest, url, job, sent, inBuf, out>>

\* HttpSend.write, and the end of PostReq.write: the length goes into the
\* header ...
SendLength(c) ==
  /\ pc[c] = "length"
  /\ job' = [job EXCEPT ![c].content = files[job[c].url]]
  /\ pc' = [pc EXCEPT ![c] = "body"]
  /\ UNCHANGED <<files, acceptVars, fileWriter, lines, httpRequest, url, sent, inBuf, out>>

\* ... and that many bytes are read from the file and sent (bytes that are
\* missing by then are zeros; of an empty file nothing is read).
SendBody(c) ==
  /\ pc[c] = "body"
  /\ out' = [out EXCEPT ![c] = Append(@, [status |-> 200, file |-> job[c].url, length |-> job[c].content,
                body |-> IF job[c].content = Empty THEN Empty ELSE files[job[c].url]])]
  /\ pc' = [pc EXCEPT ![c] = "lines"]
  /\ UNCHANGED <<files, acceptVars, fileWriter, lines, httpRequest, url, job, sent, inBuf>>

-----------------------------------------------------------------------------
(* The clients. *)

\* The next line of the client's requests arrives.
ClientSends(c) ==
  /\ pc[c] \notin {"unconnected", "load", "store", "ended"} /\ sent[c] < Len(Script[c])
  /\ sent' = [sent EXCEPT ![c] = @ + 1]
  /\ inBuf' = [inBuf EXCEPT ![c] = Append(@, Script[c][sent[c] + 1])]
  /\ UNCHANGED <<files, acceptVars, workerVars, out>>

Worker(c) ==
  \/ ReadChunk(c) \/ GetLine(c) \/ PostLine(c) \/ UserLine(c) \/ RefererLine(c) \/ OtherLine(c) \/ ChunkDone(c)
  \/ PostRead(c) \/ PostTruncate(c) \/ PostWrite(c) \/ SendLength(c) \/ SendBody(c)
  \/ Close(c) \/ CloseLoad(c) \/ CloseStore(c)

ServerNext == (\E c \in Client : Accept(c) \/ Worker(c)) \/ AcceptLoad \/ AcceptStore

Next == ServerNext \/ \E c \in Client : ClientSends(c)

Spec == Init /\ [][Next]_vars

\* Every thread of the server runs; clients need not do anything.
Fairness ==
  /\ WF_vars(AcceptLoad) /\ WF_vars(AcceptStore)
  /\ \A c \in Client : WF_vars(Worker(c))

FairSpec == Spec /\ Fairness
-----------------------------------------------------------------------------
(* Properties. *)

Users == UNION {{Script[c][k].user : k \in {i \in 1..Len(Script[c]) : Script[c][i].kind = "user"}}
                : c \in Client}

Content == {Template, Empty} \cup {Pages[p] : p \in DOMAIN Pages} \cup Users

\* Where a worker can be, and when a file is in its hands.
Serving == {"read", "truncate", "write", "length", "body"}
Gone == {"close", "load", "store", "ended"}
Where == {"unconnected", "chunk", "lines"} \cup Serving \cup Gone

(* Every file holds a page somebody made and every worker is where the code *)
(* can be (WorkerThread.run, PostReq, HttpSend), with a file that exists if *)
(* it serves one; a worker with a log writer never closes its connection.  *)
TypeOK ==
  /\ files \in [DOMAIN Pages -> Content]
  /\ workerThreadCount \in Int
  /\ acceptor \in [pc : {"accept", "load", "store"}, id : 1..Cardinality(Client) + 1, count : Int]
  /\ pc \in [Client -> Where] /\ fileWriter \in [Client -> BOOLEAN]
  /\ httpRequest \in [Client -> {"", "POST"}]
  /\ job \in [Client -> [url : DOMAIN Pages \cup {<<>>}, user : Users \cup {NoName}, content : Content, count : Int]]
  /\ \A c \in Client :
       /\ pc[c] \in Serving => job[c].url \in DOMAIN Pages
       /\ fileWriter[c] => pc[c] \notin Gone \cup {"unconnected"}
       /\ sent[c] \in 0..Len(Script[c])

(* A page is empty only while the worker that posts to it is between       *)
(* opening it for writing and writing it (PostReq.java:48-50).             *)
PageSurvives ==
  \A p \in DOMAIN files : files[p] = Empty => \E c \in Client : pc[c] = "write" /\ job[c].url = p

Posts(c) == \E k \in 1..Len(Script[c]) : Script[c][k].kind = "user"

\* No other connection posts.
Alone(c) == \A d \in Client \ {c} : ~Posts(d)

(* The body of a response has the length that the header announces, and it *)
(* is the page, the page the same connection has just posted to included   *)
(* (HttpSend.java:28-62, PostReq.java:59-94); a connection that posts      *)
(* meanwhile may leave others with a torn or empty one.                    *)
WholeAnswers ==
  \A c \in Client : Alone(c) =>
    \A k \in 1..Len(out[c]) :
      out[c][k].status = 200 => out[c][k].length = out[c][k].body /\ out[c][k].body # Empty

-----------------------------------------------------------------------------
(* The inductive invariant. *)

\* At most one connection posts.
OnePoster == \A c, d \in Client : Posts(c) /\ Posts(d) => c = d

\* The lines a client sends are the lines its worker sees.
LinesOf(c) == {Script[c][k] : k \in 1..Len(Script[c])}

Conveyed ==
  /\ DOMAIN sent = Client /\ DOMAIN inBuf = Client /\ DOMAIN lines = Client
  /\ \A c \in Client : inBuf[c] \in Seq(LinesOf(c)) /\ lines[c] \in Seq(LinesOf(c))

\* Every connection has an id of its own.
Connected == {c \in Client : pc[c] # "unconnected"}
Numbered ==
  acceptor.id = (IF acceptor.pc = "accept" THEN 1 ELSE 0) + Cardinality(Connected)

\* A worker that holds the page for writing posts, and has it whole; one that is
\* about to send it has the length of what it will read.
Holding ==
  \A c \in Client :
    /\ pc[c] \in {"read", "truncate", "write"} => Posts(c)
    /\ OnePoster /\ pc[c] \in {"truncate", "write"} => job[c].content # Empty
    /\ Alone(c) /\ pc[c] = "body" => job[c].content # Empty /\ job[c].content = files[job[c].url]

Answer == {[status |-> 404]} \cup
          [status : {200}, file : DOMAIN Pages, length : Content, body : Content]

HttpInv ==
  /\ TypeOK /\ Conveyed /\ Numbered /\ Holding
  /\ out \in [Client -> Seq(Answer)]
  /\ OnePoster => PageSurvives
  /\ WholeAnswers
-----------------------------------------------------------------------------
Requests(c, kinds, n) == Cardinality({k \in 1..n : Script[c][k].kind \in kinds})

(* Every GET line that arrives at a worker with a log is answered, however *)
(* the lines are spread over the chunks (WorkerThread.java:65-207).  A     *)
(* worker whose id has a log file from an earlier run has none (line 30).  *)
GetAnswered ==
  \A c \in Client : \A n \in 1..Len(Script[c]) :
    fileWriter[c] /\ Requests(c, {"GET"}, sent[c]) >= n ~> Len(out[c]) >= n

\* The whole form is in what the worker of c will read next.
FormArrived(c, u) ==
  /\ fileWriter[c] /\ pc[c] = "chunk"
  /\ \E i, j \in 1..Len(inBuf[c]) :
       /\ i < j /\ inBuf[c][i].kind = "POST"
       /\ inBuf[c][j].kind = "user" /\ inBuf[c][j].user = u

(* A post whose POST line and form data are read in one chunk gets its     *)
(* name into the page, through the truncation and rewriting of the file    *)
(* (WorkerThread.java:78-218, PostReq.java:29-50); one that is cut in two  *)
(* is dropped, since url is null again.                                    *)
PostTakesEffect ==
  \A c \in Client : \A u \in Users :
    FormArrived(c, u) ~> \E p \in DOMAIN files : files[p] = u
=============================================================================
