-------------------------- MODULE HttpServerProofs --------------------------
(***************************************************************************)
(* For any number of connections, any requests and any pages: the types of *)
(* the server, and, as long as at most one connection posts, that no page  *)
(* is lost and no answer is torn.  HttpInv is the inductive invariant.     *)
(***************************************************************************)
EXTENDS HttpServer, TLAPS, SequenceTheorems, FiniteSetTheorems

-----------------------------------------------------------------------------
(* Facts that several actions need.                                        *)

\* A name of a form is a content and not the empty file.
LEMMA UserProps ==
    ASSUME NEW c \in Client, NEW l \in LinesOf(c), l.kind = "user"
    PROVE  l.user \in Users /\ l.user # Empty /\ Posts(c)
<1>1. PICK k \in 1..Len(Script[c]) : l = Script[c][k]
    BY DEF LinesOf
<1> QED BY <1>1, NameAssumption DEF Users, Posts

LEMMA UsersNotEmpty == Empty \notin Users
BY NameAssumption DEF Users

\* If no other connection posts, at most one posts.
LEMMA AloneIsOne ==
    ASSUME NEW c \in Client, Alone(c)
    PROVE  OnePoster /\ \A d \in Client : Posts(d) => d = c
BY DEF Alone, OnePoster

\* The ids are counted right as long as nobody connects.
LEMMA NumberedKept ==
    ASSUME Numbered, acceptor' = acceptor,
           \A c \in Client : pc'[c] = "unconnected" <=> pc[c] = "unconnected"
    PROVE  Numbered'
<1>1. Connected' = Connected
    BY DEF Connected
<1> QED BY <1>1 DEF Numbered

\* Pages survive a step that writes no file and leaves the writers alone.
LEMMA SurvivesKept ==
    ASSUME OnePoster => PageSurvives, files' = files,
           \A d \in Client : pc[d] = "write" => pc'[d] = "write" /\ job'[d].url = job[d].url
    PROVE  (OnePoster => PageSurvives)'
BY DEF PageSurvives, OnePoster, Posts

LEMMA AnswersKept ==
    ASSUME WholeAnswers, out' = out
    PROVE  WholeAnswers'
BY DEF WholeAnswers, Alone, Posts

\* What a worker holds does not change while others move and no file is written.
LEMMA HoldingKept ==
    ASSUME Holding, files' = files, NEW c \in Client,
           \A d \in Client \ {c} : pc'[d] = pc[d] /\ job'[d] = job[d],
           pc'[c] \in {"read", "truncate", "write"} => Posts(c),
           OnePoster /\ pc'[c] \in {"truncate", "write"} => job'[c].content # Empty,
           Alone(c) /\ pc'[c] = "body" => job'[c].content # Empty /\ job'[c].content = files[job'[c].url]
    PROVE  Holding'
BY DEF Holding, Posts, OnePoster, Alone

JobType == [url : DOMAIN Pages \cup {<<>>}, user : Users \cup {NoName}, content : Content, count : Int]

\* Setting one field of a worker's job keeps the others.
LEMMA JobProps ==
    ASSUME HttpInv
    PROVE  /\ job \in [Client -> JobType]
           /\ \A c \in Client : /\ job[c].user \in Users \cup {NoName}
                                /\ job[c].content \in Content /\ job[c].count \in Int
           /\ \A c \in Client : \A x \in Content :
                /\ [job EXCEPT ![c].content = x] \in [Client -> JobType]
                /\ [job EXCEPT ![c].content = x][c].content = x
                /\ [job EXCEPT ![c].content = x][c].url = job[c].url
                /\ \A d \in Client \ {c} : [job EXCEPT ![c].content = x][d] = job[d]
           /\ \A c \in Client : \A n \in Int :
                /\ [job EXCEPT ![c].count = n] \in [Client -> JobType]
                /\ [job EXCEPT ![c].count = n][c].url = job[c].url
                /\ \A d \in Client \ {c} : [job EXCEPT ![c].count = n][d] = job[d]
<1> DEFINE U == DOMAIN Pages \cup {<<>>}
           V == Users \cup {NoName}
<1>1. job \in [Client -> [url : U, user : V, content : Content, count : Int]]
    BY DEF HttpInv, TypeOK
<1>2. JobType = [url : U, user : V, content : Content, count : Int]
    BY DEF JobType
<1> SUFFICES
      /\ job \in [Client -> [url : U, user : V, content : Content, count : Int]]
      /\ \A c \in Client : job[c].user \in V /\ job[c].content \in Content /\ job[c].count \in Int
      /\ \A c \in Client : \A x \in Content :
                /\ [job EXCEPT ![c].content = x] \in [Client -> [url : U, user : V, content : Content, count : Int]]
                /\ [job EXCEPT ![c].content = x][c].content = x
                /\ [job EXCEPT ![c].content = x][c].url = job[c].url
                /\ \A d \in Client \ {c} : [job EXCEPT ![c].content = x][d] = job[d]
      /\ \A c \in Client : \A n \in Int :
                /\ [job EXCEPT ![c].count = n] \in [Client -> [url : U, user : V, content : Content, count : Int]]
                /\ [job EXCEPT ![c].count = n][c].url = job[c].url
                /\ \A d \in Client \ {c} : [job EXCEPT ![c].count = n][d] = job[d]
    BY <1>2
<1> HIDE DEF U, V
<1> QED BY <1>1

\* The worker of c goes on without touching a file or answering.
LEMMA Moves ==
    ASSUME HttpInv, NEW c \in Client, NEW to \in {"chunk", "lines"} \cup Gone,
           pc[c] \notin {"unconnected", "write"}, pc' = [pc EXCEPT ![c] = to],
           to \in Gone => ~fileWriter[c],
           files' = files, acceptor' = acceptor, workerThreadCount' \in Int,
           fileWriter' = fileWriter, httpRequest' \in [Client -> {"", "POST"}],
           job' = job, sent' = sent, out' = out, Conveyed'
    PROVE  HttpInv'
<1>1. to \in Where /\ to \notin Serving /\ to # "unconnected" /\ ("unconnected" \notin Gone)
    BY DEF Where, Serving, Gone
<1>2. pc' \in [Client -> Where] /\ pc'[c] = to /\ \A d \in Client \ {c} : pc'[d] = pc[d]
    BY <1>1 DEF HttpInv, TypeOK
<1>3. TypeOK'
    <2>1. \A d \in Client : /\ pc'[d] \in Serving => job'[d].url \in DOMAIN Pages
                            /\ fileWriter'[d] => pc'[d] \notin Gone \cup {"unconnected"}
                            /\ sent'[d] \in 0..Len(Script[d])
        BY <1>1, <1>2 DEF HttpInv, TypeOK
    <2> QED BY <1>2, <2>1 DEF HttpInv, TypeOK
<1>4. Numbered'
    BY <1>1, <1>2, NumberedKept DEF HttpInv
<1>5. Holding'
    <2>1. to \notin {"read", "truncate", "write", "body"}
        BY <1>1 DEF Serving
    <2> QED BY <1>2, <2>1, HoldingKept DEF HttpInv
<1>6. (OnePoster => PageSurvives)'
    BY <1>2, SurvivesKept DEF HttpInv
<1>7. WholeAnswers'
    BY AnswersKept DEF HttpInv
<1> QED BY <1>3, <1>4, <1>5, <1>6, <1>7 DEF HttpInv

-----------------------------------------------------------------------------
(* HTTPServer.main.                                                        *)

LEMMA AcceptStep ==
    ASSUME HttpInv, NEW c \in Client, Accept(c)
    PROVE  HttpInv'
<1>1. /\ acceptor.pc = "accept" /\ pc[c] = "unconnected"
      /\ fileWriter' = [fileWriter EXCEPT ![c] = acceptor.id \notin log]
      /\ pc' = [pc EXCEPT ![c] = "chunk"] /\ acceptor' = [acceptor EXCEPT !.pc = "load"]
      /\ files' = files /\ workerThreadCount' = workerThreadCount /\ lines' = lines
      /\ httpRequest' = httpRequest /\ job' = job /\ sent' = sent /\ inBuf' = inBuf /\ out' = out
    BY DEF Accept
<1>2. /\ pc' \in [Client -> Where] /\ pc'[c] = "chunk"
      /\ \A d \in Client \ {c} : pc'[d] = pc[d] /\ fileWriter'[d] = fileWriter[d]
      /\ fileWriter' \in [Client -> BOOLEAN]
    BY <1>1 DEF HttpInv, TypeOK, Where
<1>3. acceptor' \in [pc : {"accept", "load", "store"}, id : 1..Cardinality(Client) + 1, count : Int]
    BY <1>1 DEF HttpInv, TypeOK
<1>4. TypeOK'
    <2>1. "chunk" \notin Serving \cup Gone \cup {"unconnected"}
        BY DEF Serving, Gone
    <2>2. \A d \in Client : /\ pc'[d] \in Serving => job'[d].url \in DOMAIN Pages
                            /\ fileWriter'[d] => pc'[d] \notin Gone \cup {"unconnected"}
                            /\ sent'[d] \in 0..Len(Script[d])
        BY <1>1, <1>2, <2>1 DEF HttpInv, TypeOK
    <2> QED BY <1>1, <1>2, <1>3, <2>2 DEF HttpInv, TypeOK
<1>5. Conveyed'
    BY <1>1 DEF HttpInv, Conveyed
<1>6. Numbered'
    <2>1. Connected' = Connected \cup {c} /\ c \notin Connected
        BY <1>1, <1>2 DEF Connected
    <2>2. IsFiniteSet(Connected)
        <3>1. Connected \in SUBSET Client
            BY DEF Connected
        <3> QED BY <3>1, ClientAssumption, FS_Subset
    <2>3. Cardinality(Connected) \in Nat /\ Cardinality(Connected') = Cardinality(Connected) + 1
        BY <2>1, <2>2, FS_AddElement, FS_CardinalityType
    <2>4. acceptor.id = 1 + Cardinality(Connected)
        BY <1>1 DEF HttpInv, Numbered
    <2>5. acceptor'.id = acceptor.id /\ acceptor'.pc = "load"
        BY <1>1 DEF HttpInv, TypeOK
    <2> QED BY <2>3, <2>4, <2>5 DEF Numbered
<1>7. Holding'
    BY <1>1, <1>2, HoldingKept DEF HttpInv
<1>8. (OnePoster => PageSurvives)'
    BY <1>1, <1>2, SurvivesKept DEF HttpInv
<1>9. WholeAnswers'
    BY <1>1, AnswersKept DEF HttpInv
<1> QED BY <1>1, <1>4, <1>5, <1>6, <1>7, <1>8, <1>9 DEF HttpInv

\* Nothing but the acceptor's own variables changes.
LEMMA AcceptorMoves ==
    ASSUME HttpInv, Numbered', workerThreadCount' \in Int,
           acceptor' \in [pc : {"accept", "load", "store"}, id : 1..Cardinality(Client) + 1, count : Int],
           UNCHANGED <<files, workerVars, sent, inBuf, out>>
    PROVE  HttpInv'
<1>1. /\ files' = files /\ pc' = pc /\ fileWriter' = fileWriter /\ lines' = lines
      /\ httpRequest' = httpRequest /\ job' = job /\ sent' = sent /\ inBuf' = inBuf /\ out' = out
    BY DEF workerVars
<1>2. TypeOK' /\ Conveyed' /\ Holding'
    BY <1>1 DEF HttpInv, TypeOK, Conveyed, Holding, Posts, OnePoster, Alone
<1>3. (OnePoster => PageSurvives)'
    BY <1>1, SurvivesKept DEF HttpInv
<1>4. WholeAnswers'
    BY <1>1, AnswersKept DEF HttpInv
<1> QED BY <1>1, <1>2, <1>3, <1>4 DEF HttpInv

LEMMA AcceptLoadStep ==
    ASSUME HttpInv, AcceptLoad
    PROVE  HttpInv'
<1>1. /\ acceptor.pc = "load" /\ workerThreadCount' = workerThreadCount /\ pc' = pc
      /\ acceptor' = [acceptor EXCEPT !.pc = "store", !.count = workerThreadCount]
      /\ UNCHANGED <<files, workerVars, sent, inBuf, out>>
    BY DEF AcceptLoad, workerVars
<1>2. /\ acceptor' \in [pc : {"accept", "load", "store"}, id : 1..Cardinality(Client) + 1, count : Int]
      /\ acceptor'.id = acceptor.id /\ acceptor'.pc = "store" /\ workerThreadCount' \in Int
    BY <1>1 DEF HttpInv, TypeOK
<1>3. Numbered'
    BY <1>1, <1>2 DEF HttpInv, Numbered, Connected
<1> QED BY <1>1, <1>2, <1>3, AcceptorMoves

LEMMA AcceptStoreStep ==
    ASSUME HttpInv, AcceptStore
    PROVE  HttpInv'
<1>1. /\ acceptor.pc = "store" /\ workerThreadCount' = acceptor.count + 1 /\ pc' = pc
      /\ acceptor' = [pc |-> "accept", id |-> acceptor.id + 1, count |-> 0]
      /\ UNCHANGED <<files, workerVars, sent, inBuf, out>>
    BY DEF AcceptStore, workerVars
<1>2. acceptor.id = Cardinality(Connected) /\ acceptor.id \in Nat /\ acceptor.count \in Int
    <2>1. Cardinality(Connected) \in Nat
        <3>1. Connected \in SUBSET Client
            BY DEF Connected
        <3> QED BY <3>1, ClientAssumption, FS_Subset, FS_CardinalityType
    <2>2. acceptor.id = 0 + Cardinality(Connected)
        BY <1>1 DEF HttpInv, Numbered
    <2>3. acceptor.count \in Int
        BY DEF HttpInv, TypeOK
    <2> QED BY <2>1, <2>2, <2>3
<1>3. Cardinality(Connected) <= Cardinality(Client) /\ Cardinality(Client) \in Nat
    <2>1. Connected \in SUBSET Client
        BY DEF Connected
    <2> QED BY <2>1, ClientAssumption, FS_Subset, FS_CardinalityType
<1>4. /\ acceptor' \in [pc : {"accept", "load", "store"}, id : 1..Cardinality(Client) + 1, count : Int]
      /\ workerThreadCount' \in Int /\ acceptor'.pc = "accept" /\ acceptor'.id = acceptor.id + 1
    BY <1>1, <1>2, <1>3
<1>5. Numbered'
    <2>1. Connected' = Connected
        BY <1>1 DEF Connected
    <2> QED BY <1>2, <1>4, <2>1 DEF Numbered
<1> QED BY <1>1, <1>4, <1>5, AcceptorMoves

-----------------------------------------------------------------------------
(* WorkerThread.run.                                                       *)

\* The first line of the chunk is one the client sent; the rest stays.
LEMMA TakesLine ==
    ASSUME HttpInv, NEW c \in Client, lines[c] # << >>, NextLine(c),
           sent' = sent, inBuf' = inBuf
    PROVE  Head(lines[c]) \in LinesOf(c) /\ Conveyed'
<1>1. lines[c] \in Seq(LinesOf(c)) /\ DOMAIN lines = Client
    BY DEF HttpInv, Conveyed
<1>2. Head(lines[c]) \in LinesOf(c) /\ Tail(lines[c]) \in Seq(LinesOf(c))
    BY <1>1, HeadTailProperties
<1>3. DOMAIN lines' = Client /\ lines'[c] = Tail(lines[c]) /\ \A d \in Client \ {c} : lines'[d] = lines[d]
    BY <1>1 DEF NextLine
<1> QED BY <1>2, <1>3 DEF HttpInv, Conveyed

LEMMA ReadChunkStep ==
    ASSUME HttpInv, NEW c \in Client, ReadChunk(c)
    PROVE  HttpInv'
<1>1. /\ pc[c] = "chunk" /\ files' = files /\ acceptor' = acceptor /\ workerThreadCount' = workerThreadCount
      /\ fileWriter' = fileWriter /\ httpRequest' = httpRequest /\ job' = job /\ sent' = sent /\ out' = out
    BY DEF ReadChunk, acceptVars
<1>2. httpRequest' \in [Client -> {"", "POST"}] /\ workerThreadCount' \in Int
    BY <1>1 DEF HttpInv, TypeOK
<1>3. CASE fileWriter[c]
    <2>1. /\ lines' = [lines EXCEPT ![c] = inBuf[c]] /\ inBuf' = [inBuf EXCEPT ![c] = << >>]
          /\ pc' = [pc EXCEPT ![c] = "lines"]
        BY <1>3 DEF ReadChunk
    <2>2. Conveyed'
        <3>1. << >> \in Seq(LinesOf(c))
            BY EmptySeq
        <3> QED BY <1>1, <2>1, <3>1 DEF HttpInv, Conveyed
    <2>3. "lines" \in {"chunk", "lines"} \cup Gone /\ "lines" \notin Gone
        BY DEF Gone
    <2> QED BY <1>1, <1>2, <2>1, <2>2, <2>3, Moves
<1>4. CASE ~fileWriter[c]
    <2>1. pc' = [pc EXCEPT ![c] = "close"] /\ lines' = lines /\ inBuf' = inBuf
        BY <1>4 DEF ReadChunk
    <2>2. Conveyed'
        BY <1>1, <2>1 DEF HttpInv, Conveyed
    <2>3. "close" \in {"chunk", "lines"} \cup Gone
        BY DEF Gone
    <2> QED BY <1>1, <1>2, <1>4, <2>1, <2>2, <2>3, Moves
<1> QED BY <1>3, <1>4

\* route finds the file, and the worker starts to serve it, or answers 404.
LEMMA RouteStep ==
    ASSUME HttpInv, NEW c \in Client, pc[c] = "lines", NEW u, NEW user \in Users \cup {NoName},
           NEW first \in {"length", "read"}, first = "read" => Posts(c),
           Route(c, u, user, first), Conveyed',
           UNCHANGED <<files, acceptVars, fileWriter, httpRequest, sent>>
    PROVE  HttpInv'
<1>1. /\ files' = files /\ acceptor' = acceptor /\ workerThreadCount' = workerThreadCount
      /\ fileWriter' = fileWriter /\ httpRequest' = httpRequest /\ sent' = sent
    BY DEF acceptVars
<1>2. workerThreadCount' \in Int /\ httpRequest' \in [Client -> {"", "POST"}] /\ DOMAIN files = DOMAIN Pages
    BY <1>1 DEF HttpInv, TypeOK
<1>3. CASE Routed(u) \in DOMAIN files
    <2> DEFINE j == [url |-> Routed(u), user |-> user, content |-> Empty, count |-> 0]
    <2>1. job' = [job EXCEPT ![c] = j] /\ pc' = [pc EXCEPT ![c] = first] /\ out' = out
        BY <1>3 DEF Route, NoJob
    <2>2. j \in [url : DOMAIN Pages \cup {<< >>}, user : Users \cup {NoName}, content : Content, count : Int]
        <3> DEFINE U == DOMAIN Pages \cup {<< >>}
                   V == Users \cup {NoName}
        <3>1. Routed(u) \in U /\ user \in V /\ Empty \in Content
            BY <1>2, <1>3 DEF Content
        <3>2. j \in [url : U, user : V, content : Content, count : Int]
            <4> HIDE DEF U, V
            <4> QED BY <3>1
        <3> QED BY <3>2
    <2>3. j.url \in DOMAIN Pages
        BY <1>2, <1>3
    <2> HIDE DEF j
    <2>4. /\ pc' \in [Client -> Where] /\ pc'[c] = first /\ job'[c] = j
          /\ job' \in [Client -> [url : DOMAIN Pages \cup {<< >>}, user : Users \cup {NoName},
                                  content : Content, count : Int]]
          /\ \A d \in Client \ {c} : pc'[d] = pc[d] /\ job'[d] = job[d]
        <3>1. first \in Where
            BY DEF Where, Serving
        <3> QED BY <2>1, <2>2, <3>1 DEF HttpInv, TypeOK
    <2>5. first \notin Gone \cup {"unconnected"}
        BY DEF Gone
    <2>6. TypeOK'
        <3>1. \A d \in Client : /\ pc'[d] \in Serving => job'[d].url \in DOMAIN Pages
                                /\ fileWriter'[d] => pc'[d] \notin Gone \cup {"unconnected"}
                                /\ sent'[d] \in 0..Len(Script[d])
            BY <1>1, <2>3, <2>4, <2>5 DEF HttpInv, TypeOK
        <3> QED BY <1>1, <1>2, <2>4, <3>1 DEF HttpInv, TypeOK
    <2>7. Numbered'
        BY <1>1, <2>4, <2>5, NumberedKept DEF HttpInv
    <2>8. Holding'
        BY <1>1, <2>4, HoldingKept DEF HttpInv
    <2>9. (OnePoster => PageSurvives)'
        BY <1>1, <2>4, SurvivesKept DEF HttpInv
    <2>10. WholeAnswers'
        BY <2>1, AnswersKept DEF HttpInv
    <2> QED BY <2>1, <2>6, <2>7, <2>8, <2>9, <2>10 DEF HttpInv
<1>4. CASE Routed(u) \notin DOMAIN files
    <2>1. out' = [out EXCEPT ![c] = Append(@, [status |-> 404])] /\ job' = job /\ pc' = pc
        BY <1>4 DEF Route
    <2>2. TypeOK' /\ Holding' /\ Numbered'
        BY <1>1, <2>1, ZenonT(30) DEF HttpInv, TypeOK, Holding, Posts, OnePoster, Alone, Numbered, Connected
    <2>3. (OnePoster => PageSurvives)'
        BY <1>1, <2>1, SurvivesKept DEF HttpInv
    <2>4. [status |-> 404] \in Answer /\ [status |-> 404].status # 200
        BY DEF Answer
    <2>5. /\ out[c] \in Seq(Answer) /\ out'[c] = Append(out[c], [status |-> 404])
          /\ \A d \in Client \ {c} : out'[d] = out[d]
        BY <2>1 DEF HttpInv
    <2> DEFINE r == [status |-> 404]
    <2>6. /\ out'[c] \in Seq(Answer) /\ Len(out[c]) \in Nat /\ Len(out'[c]) = Len(out[c]) + 1
          /\ out'[c][Len(out[c]) + 1].status # 200
          /\ \A k \in 1..Len(out[c]) : out'[c][k] = out[c][k]
        <3>1. r \in Answer /\ out'[c] = Append(out[c], r) /\ r.status # 200
            BY <2>4, <2>5
        <3> HIDE DEF r
        <3> QED BY <2>5, <3>1, AppendProperties, LenProperties
    <2>7. out' \in [Client -> Seq(Answer)]
        BY <2>1, <2>5, <2>6 DEF HttpInv
    <2>8. WholeAnswers'
        <3> SUFFICES ASSUME NEW d \in Client, Alone(d), NEW k \in 1..Len(out'[d]), out'[d][k].status = 200
                     PROVE  out'[d][k].length = out'[d][k].body /\ out'[d][k].body # Empty
            BY DEF WholeAnswers, Alone, Posts
        <3>1. k \in 1..Len(out[d]) /\ out'[d][k] = out[d][k]
            <4>1. CASE d = c
                BY <2>6, <4>1
            <4>2. CASE d # c
                BY <2>5, <4>2
            <4> QED BY <4>1, <4>2
        <3> QED BY <3>1 DEF HttpInv, WholeAnswers
    <2> QED BY <2>2, <2>3, <2>7, <2>8 DEF HttpInv
<1> QED BY <1>3, <1>4

LEMMA GetLineStep ==
    ASSUME HttpInv, NEW c \in Client, GetLine(c)
    PROVE  HttpInv'
<1>1. /\ pc[c] = "lines" /\ lines[c] # << >> /\ NextLine(c)
      /\ Route(c, Head(lines[c]).url, NoName, "length")
      /\ UNCHANGED <<files, acceptVars, fileWriter, httpRequest, sent>> /\ sent' = sent /\ inBuf' = inBuf
    BY DEF GetLine
<1>2. Conveyed'
    BY <1>1, TakesLine
<1> QED BY <1>1, <1>2, RouteStep

LEMMA UserLineStep ==
    ASSUME HttpInv, NEW c \in Client, UserLine(c)
    PROVE  HttpInv'
<1>1. /\ pc[c] = "lines" /\ lines[c] # << >> /\ NextLine(c) /\ Head(lines[c]).kind = "user"
      /\ UNCHANGED <<files, acceptVars, fileWriter, httpRequest, sent>>
      /\ sent' = sent /\ inBuf' = inBuf
    BY DEF UserLine
<1>2. Conveyed' /\ Head(lines[c]) \in LinesOf(c)
    BY <1>1, TakesLine
<1>3. Head(lines[c]).user \in Users /\ Posts(c)
    BY <1>1, <1>2, UserProps
<1>4. CASE httpRequest[c] = "POST" /\ url[c] # NullUrl
    <2>1. Route(c, url[c], Head(lines[c]).user, "read")
        BY <1>4 DEF UserLine
    <2> DEFINE user == Head(lines[c]).user
    <2>2. Route(c, url[c], user, "read") /\ user \in Users \cup {NoName}
        BY <1>3, <2>1
    <2> HIDE DEF user
    <2> QED BY <1>1, <1>2, <1>3, <2>2, RouteStep
<1>5. CASE ~(httpRequest[c] = "POST" /\ url[c] # NullUrl)
    <2>1. job' = job /\ pc' = pc /\ out' = out
        BY <1>5 DEF UserLine
    <2>2. pc' = [pc EXCEPT ![c] = "lines"]
        BY <1>1, <2>1 DEF HttpInv, TypeOK
    <2>3. /\ workerThreadCount' \in Int /\ acceptor' = acceptor /\ files' = files
          /\ fileWriter' = fileWriter /\ httpRequest' \in [Client -> {"", "POST"}]
        BY <1>1 DEF HttpInv, TypeOK, acceptVars
    <2>4. "lines" \in {"chunk", "lines"} \cup Gone /\ "lines" \notin Gone
        BY DEF Gone
    <2> QED BY <1>1, <1>2, <2>1, <2>2, <2>3, <2>4, Moves
<1> QED BY <1>4, <1>5

\* A line that changes only httpRequest and url.
LEMMA PlainLineStep ==
    ASSUME HttpInv, NEW c \in Client, PostLine(c) \/ RefererLine(c) \/ OtherLine(c)
    PROVE  HttpInv'
<1>1. /\ pc[c] = "lines" /\ lines[c] # << >> /\ NextLine(c) /\ pc' = pc
      /\ files' = files /\ acceptor' = acceptor /\ workerThreadCount' = workerThreadCount
      /\ fileWriter' = fileWriter /\ job' = job /\ sent' = sent /\ inBuf' = inBuf /\ out' = out
      /\ httpRequest' = httpRequest \/ httpRequest' = [httpRequest EXCEPT ![c] = "POST"]
    BY DEF PostLine, RefererLine, OtherLine, acceptVars
<1>2. Conveyed'
    BY <1>1, TakesLine
<1>3. pc' = [pc EXCEPT ![c] = "lines"]
    BY <1>1 DEF HttpInv, TypeOK
<1>4. workerThreadCount' \in Int /\ httpRequest' \in [Client -> {"", "POST"}]
    BY <1>1 DEF HttpInv, TypeOK
<1>5. "lines" \in {"chunk", "lines"} \cup Gone /\ "lines" \notin Gone
    BY DEF Gone
<1> QED BY <1>1, <1>2, <1>3, <1>4, <1>5, Moves

LEMMA LeaveStep ==
    ASSUME HttpInv, NEW c \in Client, ChunkDone(c) \/ Close(c) \/ CloseStore(c)
    PROVE  HttpInv'
<1>1. PICK to \in {"chunk", "load", "ended"} :
        /\ pc' = [pc EXCEPT ![c] = to]
        /\ to # "chunk" => pc[c] \in Gone
        /\ pc[c] \notin {"unconnected", "write"}
        /\ files' = files /\ acceptor' = acceptor
        /\ workerThreadCount' = workerThreadCount \/ workerThreadCount' = job[c].count - 1
        /\ fileWriter' = fileWriter /\ httpRequest' = httpRequest /\ job' = job /\ sent' = sent
        /\ lines' = lines /\ inBuf' = inBuf /\ out' = out
    BY DEF ChunkDone, Close, CloseStore, acceptVars, Gone
<1>2. Conveyed'
    BY <1>1 DEF HttpInv, Conveyed
<1>3. workerThreadCount' \in Int /\ httpRequest' \in [Client -> {"", "POST"}]
    <2>1. job[c].count \in Int /\ job[c].count - 1 \in Int
        BY JobProps
    <2> QED BY <1>1, <2>1 DEF HttpInv, TypeOK
<1>4. to \in {"chunk", "lines"} \cup Gone
    BY DEF Gone
<1>5. to \in Gone => ~fileWriter[c]
    <2>1. to \in Gone => to # "chunk"
        BY DEF Gone
    <2> QED BY <1>1, <2>1 DEF HttpInv, TypeOK
<1> QED BY <1>1, <1>2, <1>3, <1>4, <1>5, Moves

\* The worker of c goes on with its job, and no file is written.
LEMMA Works ==
    ASSUME HttpInv, NEW c \in Client, NEW to \in Where \ {"unconnected"}, pc[c] \notin {"unconnected", "write"},
           pc[c] \in Gone <=> to \in Gone, to \in Serving => pc[c] \in Serving,
           pc' = [pc EXCEPT ![c] = to],
           job' \in [Client -> JobType], job'[c].url = job[c].url,
           \A d \in Client \ {c} : job'[d] = job[d],
           to \in {"read", "truncate", "write"} => Posts(c),
           OnePoster /\ to \in {"truncate", "write"} => job'[c].content # Empty,
           Alone(c) /\ to = "body" => job'[c].content # Empty /\ job'[c].content = files[job'[c].url],
           UNCHANGED <<files, acceptVars, fileWriter, lines, httpRequest, sent, inBuf>>,
           out' \in [Client -> Seq(Answer)], WholeAnswers'
    PROVE  HttpInv'
<1>1. /\ files' = files /\ acceptor' = acceptor /\ workerThreadCount' = workerThreadCount
      /\ fileWriter' = fileWriter /\ lines' = lines /\ httpRequest' = httpRequest
      /\ sent' = sent /\ inBuf' = inBuf
    BY DEF acceptVars
<1>2. pc' \in [Client -> Where] /\ pc'[c] = to /\ \A d \in Client \ {c} : pc'[d] = pc[d]
    BY DEF HttpInv, TypeOK
<1>3. TypeOK'
    <2>1. \A d \in Client : /\ pc'[d] \in Serving => job'[d].url \in DOMAIN Pages
                            /\ fileWriter'[d] => pc'[d] \notin Gone \cup {"unconnected"}
                            /\ sent'[d] \in 0..Len(Script[d])
        BY <1>1, <1>2 DEF HttpInv, TypeOK
    <2> QED BY <1>1, <1>2, <2>1 DEF HttpInv, TypeOK, JobType
<1>4. Conveyed'
    BY <1>1 DEF HttpInv, Conveyed
<1>5. Numbered'
    BY <1>1, <1>2, NumberedKept DEF HttpInv
<1>6. Holding'
    BY <1>1, <1>2, HoldingKept DEF HttpInv
<1>7. (OnePoster => PageSurvives)'
    BY <1>1, <1>2, SurvivesKept DEF HttpInv
<1> QED BY <1>3, <1>4, <1>5, <1>6, <1>7 DEF HttpInv

LEMMA CloseLoadStep ==
    ASSUME HttpInv, NEW c \in Client, CloseLoad(c)
    PROVE  HttpInv'
<1>1. /\ pc[c] = "load" /\ job' = [job EXCEPT ![c].count = workerThreadCount]
      /\ pc' = [pc EXCEPT ![c] = "store"] /\ out' = out
      /\ UNCHANGED <<files, acceptVars, fileWriter, lines, httpRequest, sent, inBuf>>
    BY DEF CloseLoad
<1>2. workerThreadCount \in Int
    BY DEF HttpInv, TypeOK
<1>3. job' \in [Client -> JobType] /\ job'[c].url = job[c].url /\ \A d \in Client \ {c} : job'[d] = job[d]
    BY <1>1, <1>2, JobProps
<1>4. "store" \in Where \ {"unconnected"} /\ "store" \in Gone /\ "load" \in Gone /\ "store" \notin Serving
    BY DEF Where, Gone, Serving
<1>5. WholeAnswers' /\ out' \in [Client -> Seq(Answer)]
    BY <1>1, AnswersKept DEF HttpInv
<1> QED BY <1>1, <1>3, <1>4, <1>5, Works

-----------------------------------------------------------------------------
(* PostReq and HttpSend.                                                   *)

LEMMA ServingIs ==
    /\ Serving \cap Gone = {} /\ "unconnected" \notin Serving
    /\ {"read", "truncate", "write", "length", "body"} \subseteq Serving
    /\ Serving \subseteq Where \ {"unconnected"}
    /\ {"lines"} \subseteq Where \ (Gone \cup Serving \cup {"unconnected"})
BY DEF Serving, Gone, Where

\* If at most one connection posts, the page that it reads is not empty.
LEMMA PostReadStep ==
    ASSUME HttpInv, NEW c \in Client, PostRead(c)
    PROVE  HttpInv'
<1> DEFINE x == Edited(files[job[c].url], job[c].user)
<1>1. /\ pc[c] = "read" /\ job' = [job EXCEPT ![c].content = x]
      /\ pc' = [pc EXCEPT ![c] = "truncate"] /\ out' = out
      /\ UNCHANGED <<files, acceptVars, fileWriter, lines, httpRequest, sent, inBuf>>
    BY DEF PostRead
<1>2. /\ job[c].url \in DOMAIN Pages /\ files[job[c].url] \in Content /\ Posts(c)
      /\ job[c].user \in Users \cup {NoName}
    <2>1. job[c].url \in DOMAIN Pages
        BY <1>1, ServingIs DEF HttpInv, TypeOK
    <2>2. files[job[c].url] \in Content
        BY <2>1 DEF HttpInv, TypeOK
    <2> QED BY <1>1, <2>1, <2>2, JobProps DEF HttpInv, Holding
<1>3. x \in Content
    BY <1>2 DEF Edited, Content
<1>4. ASSUME OnePoster PROVE x # Empty
    <2>1. files[job[c].url] # Empty
        <3> SUFFICES ASSUME files[job[c].url] = Empty PROVE FALSE
            OBVIOUS
        <3>1. DOMAIN files = DOMAIN Pages
            BY DEF HttpInv, TypeOK
        <3>2. PICK d \in Client : pc[d] = "write"
            BY <1>2, <1>4, <3>1 DEF HttpInv, PageSurvives
        <3>3. Posts(d)
            BY <3>2 DEF HttpInv, Holding
        <3>4. d = c
            BY <1>2, <1>4, <3>3 DEF OnePoster
        <3> QED BY <1>1, <3>2, <3>4
    <2> QED BY <1>2, <2>1, UsersNotEmpty DEF Edited
<1> HIDE DEF x
<1>5. /\ job' \in [Client -> JobType] /\ job'[c].content = x /\ job'[c].url = job[c].url
      /\ \A d \in Client \ {c} : job'[d] = job[d]
    BY <1>1, <1>3, JobProps
<1>6. WholeAnswers' /\ out' \in [Client -> Seq(Answer)]
    BY <1>1, AnswersKept DEF HttpInv
<1>7. /\ "truncate" \in Where \ {"unconnected"} /\ "truncate" \in Serving /\ "truncate" \notin Gone
      /\ "read" \in Serving /\ "read" \notin Gone
    BY DEF Serving, Gone, Where
<1> QED BY <1>1, <1>2, <1>4, <1>5, <1>6, <1>7, Works

\* A writer changes a file: only connections that post do, and no reader that
\* is alone is in the middle of sending.
LEMMA Writes ==
    ASSUME HttpInv, NEW c \in Client, NEW from \in {"truncate", "write"}, pc[c] = from,
           NEW to \in {"write", "length"}, pc' = [pc EXCEPT ![c] = to],
           NEW x \in Content, files' = [files EXCEPT ![job[c].url] = x],
           x = Empty => to = "write" \/ ~OnePoster,
           to = "write" => from = "truncate",
           from = "write" => x = job[c].content,
           UNCHANGED <<acceptVars, fileWriter, lines, httpRequest, job, sent, inBuf, out>>
    PROVE  HttpInv'
<1>1. /\ acceptor' = acceptor /\ workerThreadCount' = workerThreadCount
      /\ fileWriter' = fileWriter /\ lines' = lines /\ httpRequest' = httpRequest
      /\ sent' = sent /\ inBuf' = inBuf /\ out' = out /\ job' = job
    BY DEF acceptVars
<1>2. to \in Where /\ to \in Serving /\ from \in Serving /\ to \notin Gone \cup {"unconnected"}
    BY DEF Where, Serving, Gone
<1>3. pc' \in [Client -> Where] /\ pc'[c] = to /\ \A d \in Client \ {c} : pc'[d] = pc[d]
    BY <1>2 DEF HttpInv, TypeOK
<1>4. Posts(c) /\ (OnePoster => job[c].content # Empty) /\ job[c].url \in DOMAIN Pages
    BY <1>2 DEF HttpInv, Holding, TypeOK
<1>5. /\ files' \in [DOMAIN Pages -> Content] /\ DOMAIN files = DOMAIN Pages
      /\ files'[job[c].url] = x
      /\ \A p \in DOMAIN Pages : p # job[c].url => files'[p] = files[p]
    BY <1>4 DEF HttpInv, TypeOK
<1>6. TypeOK'
    <2>1. \A d \in Client : /\ pc'[d] \in Serving => job'[d].url \in DOMAIN Pages
                            /\ fileWriter'[d] => pc'[d] \notin Gone \cup {"unconnected"}
                            /\ sent'[d] \in 0..Len(Script[d])
        BY <1>1, <1>2, <1>3, <1>4 DEF HttpInv, TypeOK
    <2>2. /\ workerThreadCount' \in Int /\ fileWriter' \in [Client -> BOOLEAN]
          /\ httpRequest' \in [Client -> {"", "POST"}]
        BY <1>1 DEF HttpInv, TypeOK
    <2>3. acceptor' \in [pc : {"accept", "load", "store"}, id : 1..Cardinality(Client) + 1, count : Int]
        BY <1>1 DEF HttpInv, TypeOK
    <2>4. job' \in [Client -> JobType]
        BY <1>1, JobProps
    <2> QED BY <1>3, <1>5, <2>1, <2>2, <2>3, <2>4 DEF TypeOK, JobType
<1>7. Conveyed'
    BY <1>1 DEF HttpInv, Conveyed
<1>8. Numbered'
    BY <1>1, <1>2, <1>3, NumberedKept DEF HttpInv
<1>9. Holding'
    <2> SUFFICES ASSUME NEW d \in Client
                 PROVE  /\ pc'[d] \in {"read", "truncate", "write"} => Posts(d)
                        /\ OnePoster /\ pc'[d] \in {"truncate", "write"} => job'[d].content # Empty
                        /\ Alone(d) /\ pc'[d] = "body" =>
                             job'[d].content # Empty /\ job'[d].content = files'[job'[d].url]
        BY DEF Holding, OnePoster, Alone, Posts
    <2>1. CASE d = c
        BY <1>1, <1>3, <1>4, <2>1
    <2>2. CASE d # c
        <3>1. pc'[d] = pc[d] /\ job'[d] = job[d]
            BY <1>1, <1>3, <2>2
        <3>2. ~Alone(d)
            BY <1>4, <2>2, AloneIsOne
        <3> QED BY <3>1, <3>2 DEF HttpInv, Holding
    <2> QED BY <2>1, <2>2
<1>10. (OnePoster => PageSurvives)'
    <2> SUFFICES ASSUME OnePoster, NEW p \in DOMAIN Pages, files'[p] = Empty
                 PROVE  \E d \in Client : pc'[d] = "write" /\ job'[d].url = p
        BY <1>5 DEF PageSurvives, OnePoster, Posts
    <2>1. CASE p = job[c].url
        <3>1. to = "write"
            BY <1>4, <1>5, <2>1
        <3> QED BY <1>1, <1>3, <2>1, <3>1
    <2>2. CASE p # job[c].url
        <3>1. files[p] = Empty /\ p \in DOMAIN files
            BY <1>5, <2>2
        <3>2. PICK d \in Client : pc[d] = "write" /\ job[d].url = p
            BY <3>1 DEF HttpInv, PageSurvives
        <3>3. d # c
            BY <2>2, <3>2
        <3> QED BY <1>1, <1>3, <3>2, <3>3
    <2> QED BY <2>1, <2>2
<1>11. WholeAnswers'
    BY <1>1, AnswersKept DEF HttpInv
<1> QED BY <1>1, <1>6, <1>7, <1>8, <1>9, <1>10, <1>11 DEF HttpInv

LEMMA PostTruncateStep ==
    ASSUME HttpInv, NEW c \in Client, PostTruncate(c)
    PROVE  HttpInv'
<1>1. /\ pc[c] = "truncate" /\ files' = [files EXCEPT ![job[c].url] = Empty]
      /\ pc' = [pc EXCEPT ![c] = "write"]
      /\ UNCHANGED <<acceptVars, fileWriter, lines, httpRequest, job, sent, inBuf, out>>
    BY DEF PostTruncate
<1>2. Empty \in Content
    BY DEF Content
<1> QED BY <1>1, <1>2, Writes

LEMMA PostWriteStep ==
    ASSUME HttpInv, NEW c \in Client, PostWrite(c)
    PROVE  HttpInv'
<1>1. /\ pc[c] = "write" /\ files' = [files EXCEPT ![job[c].url] = job[c].content]
      /\ pc' = [pc EXCEPT ![c] = "length"]
      /\ UNCHANGED <<acceptVars, fileWriter, lines, httpRequest, job, sent, inBuf, out>>
    BY DEF PostWrite
<1>2. job[c].content \in Content /\ (OnePoster => job[c].content # Empty)
    BY <1>1, JobProps DEF HttpInv, Holding
<1> QED BY <1>1, <1>2, Writes

\* Whoever is alone has no empty page before it: the only one that could be
\* writing is the connection itself.
LEMMA SendLengthStep ==
    ASSUME HttpInv, NEW c \in Client, SendLength(c)
    PROVE  HttpInv'
<1> DEFINE x == files[job[c].url]
<1>1. /\ pc[c] = "length" /\ job' = [job EXCEPT ![c].content = x]
      /\ pc' = [pc EXCEPT ![c] = "body"] /\ out' = out
      /\ UNCHANGED <<files, acceptVars, fileWriter, lines, httpRequest, sent, inBuf>>
    BY DEF SendLength
<1>2. job[c].url \in DOMAIN Pages /\ x \in Content /\ DOMAIN files = DOMAIN Pages
    <2>1. job[c].url \in DOMAIN Pages
        BY <1>1, ServingIs DEF HttpInv, TypeOK
    <2> QED BY <2>1 DEF HttpInv, TypeOK
<1>3. ASSUME Alone(c) PROVE x # Empty
    <2> SUFFICES ASSUME x = Empty PROVE FALSE
        OBVIOUS
    <2>1. OnePoster /\ \A d \in Client : Posts(d) => d = c
        BY <1>3, AloneIsOne
    <2>2. PICK d \in Client : pc[d] = "write"
        BY <1>2, <2>1 DEF HttpInv, PageSurvives
    <2>3. d = c
        BY <2>1, <2>2 DEF HttpInv, Holding
    <2> QED BY <1>1, <2>2, <2>3
<1>4. /\ job' \in [Client -> JobType] /\ job'[c].content = x /\ job'[c].url = job[c].url
      /\ \A d \in Client \ {c} : job'[d] = job[d]
    BY <1>1, <1>2, JobProps
<1>5. x = files[job'[c].url]
    BY <1>4
<1>6. WholeAnswers' /\ out' \in [Client -> Seq(Answer)]
    BY <1>1, AnswersKept DEF HttpInv
<1>7. /\ "body" \in Where \ {"unconnected"} /\ "body" \in Serving /\ "body" \notin Gone
      /\ "length" \in Serving /\ "length" \notin Gone
    BY DEF Serving, Gone, Where
<1> HIDE DEF x
<1> QED BY <1>1, <1>3, <1>4, <1>5, <1>6, <1>7, Works

LEMMA SendBodyStep ==
    ASSUME HttpInv, NEW c \in Client, SendBody(c)
    PROVE  HttpInv'
<1> DEFINE body == IF job[c].content = Empty THEN Empty ELSE files[job[c].url]
           r == [status |-> 200, file |-> job[c].url, length |-> job[c].content, body |-> body]
<1>1. /\ pc[c] = "body" /\ out' = [out EXCEPT ![c] = Append(@, r)]
      /\ pc' = [pc EXCEPT ![c] = "lines"] /\ job' = job
      /\ UNCHANGED <<files, acceptVars, fileWriter, lines, httpRequest, sent, inBuf>>
    BY DEF SendBody
<1>2. job[c].url \in DOMAIN Pages /\ job[c].content \in Content /\ body \in Content
    <2>1. job[c].url \in DOMAIN Pages
        BY <1>1, ServingIs DEF HttpInv, TypeOK
    <2>2. files[job[c].url] \in Content /\ Empty \in Content
        BY <2>1 DEF HttpInv, TypeOK, Content
    <2> QED BY <2>1, <2>2, JobProps
<1>3. Alone(c) => job[c].content = body /\ body # Empty
    BY <1>1 DEF HttpInv, Holding
<1> HIDE DEF body
<1>4. r \in Answer /\ (Alone(c) => r.length = r.body /\ r.body # Empty)
    BY <1>2, <1>3 DEF Answer
<1> HIDE DEF r
<1>5. /\ out[c] \in Seq(Answer) /\ out'[c] = Append(out[c], r)
      /\ \A d \in Client \ {c} : out'[d] = out[d]
    BY <1>1 DEF HttpInv
<1>6. /\ out'[c] \in Seq(Answer) /\ Len(out[c]) \in Nat /\ Len(out'[c]) = Len(out[c]) + 1
      /\ out'[c][Len(out[c]) + 1] = r /\ \A k \in 1..Len(out[c]) : out'[c][k] = out[c][k]
    BY <1>4, <1>5, AppendProperties, LenProperties
<1>7. out' \in [Client -> Seq(Answer)]
    BY <1>1, <1>5, <1>6 DEF HttpInv
<1>8. WholeAnswers'
    <2> SUFFICES ASSUME NEW d \in Client, Alone(d), NEW k \in 1..Len(out'[d]), out'[d][k].status = 200
                 PROVE  out'[d][k].length = out'[d][k].body /\ out'[d][k].body # Empty
        BY DEF WholeAnswers, Alone, Posts
    <2>1. CASE d = c /\ k = Len(out[c]) + 1
        BY <1>4, <1>6, <2>1
    <2>2. CASE ~(d = c /\ k = Len(out[c]) + 1)
        <3>1. k \in 1..Len(out[d]) /\ out'[d][k] = out[d][k]
            <4>1. CASE d = c
                BY <1>6, <2>2, <4>1
            <4>2. CASE d # c
                BY <1>5, <4>2
            <4> QED BY <4>1, <4>2
        <3> QED BY <3>1 DEF HttpInv, WholeAnswers
    <2> QED BY <2>1, <2>2
<1>9. job' \in [Client -> JobType]
    BY <1>1, JobProps
<1>10. /\ "lines" \in Where \ {"unconnected"} /\ "lines" \notin Serving /\ "lines" \notin Gone
       /\ "body" \notin Gone
    BY DEF Serving, Gone, Where
<1> QED BY <1>1, <1>7, <1>8, <1>9, <1>10, Works

-----------------------------------------------------------------------------
(* The clients, and the theorems.                                          *)

LEMMA ClientSendsStep ==
    ASSUME HttpInv, NEW c \in Client, ClientSends(c)
    PROVE  HttpInv'
<1>1. /\ sent[c] < Len(Script[c]) /\ sent' = [sent EXCEPT ![c] = @ + 1]
      /\ inBuf' = [inBuf EXCEPT ![c] = Append(@, Script[c][sent[c] + 1])]
      /\ files' = files /\ acceptor' = acceptor /\ workerThreadCount' = workerThreadCount
      /\ pc' = pc /\ fileWriter' = fileWriter /\ lines' = lines /\ httpRequest' = httpRequest
      /\ job' = job /\ out' = out
    BY DEF ClientSends, acceptVars, workerVars
<1>2. Len(Script[c]) \in Nat /\ sent[c] \in 0..Len(Script[c]) /\ DOMAIN sent = Client
    BY ScriptAssumption DEF HttpInv, TypeOK, Conveyed
<1>3. sent[c] + 1 \in 1..Len(Script[c])
    BY <1>1, <1>2
<1>4. Script[c][sent[c] + 1] \in LinesOf(c)
    BY <1>3 DEF LinesOf
<1>5. Conveyed'
    <2>1. inBuf[c] \in Seq(LinesOf(c)) /\ DOMAIN inBuf = Client
        BY DEF HttpInv, Conveyed
    <2>2. Append(inBuf[c], Script[c][sent[c] + 1]) \in Seq(LinesOf(c))
        BY <1>4, <2>1, AppendProperties
    <2>3. /\ DOMAIN inBuf' = Client /\ inBuf'[c] \in Seq(LinesOf(c))
          /\ \A d \in Client \ {c} : inBuf'[d] = inBuf[d]
        BY <1>1, <2>1, <2>2
    <2> QED BY <1>1, <1>2, <2>3 DEF HttpInv, Conveyed
<1>6. TypeOK'
    <2>1. sent'[c] = sent[c] + 1 /\ \A d \in Client \ {c} : sent'[d] = sent[d]
        BY <1>1, <1>2
    <2>2. ASSUME NEW d \in Client PROVE sent'[d] \in 0..Len(Script[d])
        <3>1. sent[d] \in 0..Len(Script[d])
            BY DEF HttpInv, TypeOK
        <3>2. CASE d = c
            <4>1. sent'[d] \in 1..Len(Script[d])
                BY <1>3, <2>1, <3>2
            <4> QED BY <1>2, <3>2, <4>1
        <3>3. CASE d # c
            BY <2>1, <3>1, <3>3
        <3> QED BY <3>2, <3>3
    <2> QED BY <1>1, <2>2 DEF HttpInv, TypeOK
<1>7. Numbered' /\ Holding'
    BY <1>1 DEF HttpInv, Numbered, Connected, Holding, Posts, OnePoster, Alone
<1>8. (OnePoster => PageSurvives)'
    BY <1>1, SurvivesKept DEF HttpInv
<1>9. WholeAnswers'
    BY <1>1, AnswersKept DEF HttpInv
<1> QED BY <1>1, <1>5, <1>6, <1>7, <1>8, <1>9 DEF HttpInv

LEMMA HttpInit ==
    ASSUME Init
    PROVE  HttpInv
<1>1. Cardinality(Client) \in Nat
    BY ClientAssumption, FS_CardinalityType
<1>2. files \in [DOMAIN Pages -> Content] /\ \A p \in DOMAIN files : files[p] # Empty
    <2>1. files = Pages /\ \A p \in DOMAIN Pages : Pages[p] \in Content /\ Pages[p] # Empty
        BY ContentAssumption DEF Init, Content
    <2> QED BY <2>1, PagesAssumption
<1>3. job \in [Client -> JobType]
    <2> DEFINE U == DOMAIN Pages \cup {<< >>}
               V == Users \cup {NoName}
    <2>1. << >> \in U /\ NoName \in V /\ Empty \in Content
        BY DEF Content
    <2>2. JobType = [url : U, user : V, content : Content, count : Int]
        BY DEF JobType
    <2> HIDE DEF U, V
    <2>3. NoJob \in JobType
        BY <2>1, <2>2 DEF NoJob
    <2> QED BY <2>3 DEF Init
<1>4. "unconnected" \in Where /\ "unconnected" \notin Serving
    BY DEF Where, Serving
<1>5. TypeOK
    <2>1. acceptor \in [pc : {"accept", "load", "store"}, id : 1..Cardinality(Client) + 1, count : Int]
        <3> DEFINE ids == 1..Cardinality(Client) + 1
        <3>1. acceptor = [pc |-> "accept", id |-> 1, count |-> 0]
            BY DEF Init
        <3>2. 1 \in ids
            BY <1>1
        <3> HIDE DEF ids
        <3>3. acceptor \in [pc : {"accept", "load", "store"}, id : ids, count : Int]
            BY <3>1, <3>2
        <3> QED BY <3>3 DEF ids
    <2>2. ASSUME NEW c \in Client PROVE sent[c] \in 0..Len(Script[c])
        <3>1. Len(Script[c]) \in Nat
            BY ScriptAssumption
        <3>2. sent[c] = 0
            BY DEF Init
        <3> QED BY <3>1, <3>2
    <2> QED BY <1>2, <1>3, <1>4, <2>1, <2>2 DEF Init, TypeOK, JobType
<1>6. Conveyed
    BY EmptySeq DEF Init, Conveyed
<1>7. Numbered
    <2>1. Connected = {}
        BY DEF Init, Connected
    <2>2. Cardinality(Connected) = 0
        BY <2>1, FS_EmptySet
    <2>3. acceptor.pc = "accept" /\ acceptor.id = 1
        BY DEF Init
    <2> QED BY <2>2, <2>3 DEF Numbered
<1>8. Holding
    BY DEF Init, Holding
<1>9. out \in [Client -> Seq(Answer)] /\ \A c \in Client : Len(out[c]) = 0
    BY EmptySeq DEF Init
<1>10. PageSurvives
    BY <1>2 DEF PageSurvives
<1>11. WholeAnswers
    BY <1>9 DEF WholeAnswers
<1> QED BY <1>5, <1>6, <1>7, <1>8, <1>9, <1>10, <1>11 DEF HttpInv

LEMMA HttpStutter ==
    ASSUME HttpInv, UNCHANGED vars
    PROVE  HttpInv'
<1>1. UNCHANGED <<files, workerVars, sent, inBuf, out>> /\ pc' = pc /\ UNCHANGED <<acceptor, workerThreadCount>>
    BY DEF vars, workerVars, acceptVars
<1>2. Numbered'
    BY <1>1, NumberedKept DEF HttpInv
<1>3. /\ acceptor' \in [pc : {"accept", "load", "store"}, id : 1..Cardinality(Client) + 1, count : Int]
      /\ workerThreadCount' \in Int
    BY <1>1 DEF HttpInv, TypeOK
<1> QED BY <1>1, <1>2, <1>3, AcceptorMoves

\* The invariant is inductive.
THEOREM HttpInvariant == Spec => []HttpInv
<1>1. Init => HttpInv
    BY HttpInit
<1>2. HttpInv /\ [Next]_vars => HttpInv'
    <2> SUFFICES ASSUME HttpInv, [Next]_vars PROVE HttpInv'
        OBVIOUS
    <2>1. ASSUME NEW c \in Client, Worker(c) PROVE HttpInv'
        BY <2>1, ReadChunkStep, GetLineStep, UserLineStep, PlainLineStep, LeaveStep, CloseLoadStep,
           PostReadStep, PostTruncateStep, PostWriteStep, SendLengthStep, SendBodyStep DEF Worker
    <2>2. ASSUME NEW c \in Client, Accept(c) PROVE HttpInv'
        BY <2>2, AcceptStep
    <2>3. CASE AcceptLoad \/ AcceptStore
        BY <2>3, AcceptLoadStep, AcceptStoreStep
    <2>4. ASSUME NEW c \in Client, ClientSends(c) PROVE HttpInv'
        BY <2>4, ClientSendsStep
    <2>5. CASE UNCHANGED vars
        BY <2>5, HttpStutter
    <2> QED BY <2>1, <2>2, <2>3, <2>4, <2>5 DEF Next, ServerNext
<1> QED BY <1>1, <1>2, PTL DEF Spec

\* As long as at most one connection posts no page is lost: it is empty only
\* between the truncation and the writing of the one post.
THEOREM OnePostIsSafe == OnePoster => (Spec => []PageSurvives)
<1>1. HttpInv /\ OnePoster => PageSurvives
    BY DEF HttpInv
<1>2. OnePoster => (Spec => []PageSurvives)
    <2> SUFFICES ASSUME OnePoster PROVE Spec => []PageSurvives
        OBVIOUS
    <2>1. HttpInv => PageSurvives
        BY <1>1
    <2> QED BY <2>1, HttpInvariant, PTL
<1> QED BY <1>2

\* A connection beside which no other posts gets whole answers.
THEOREM AnswersWhole == Spec => []WholeAnswers
<1>1. HttpInv => WholeAnswers
    BY DEF HttpInv
<1> QED BY <1>1, HttpInvariant, PTL
=============================================================================
