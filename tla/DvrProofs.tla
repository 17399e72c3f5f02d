----------------------------- MODULE DvrProofs -----------------------------
(***************************************************************************)
(* Proofs about the distance-vector routers: the types with the next hops, *)
(* the agreement of both ends of a link on its cost, and the detection of  *)
(* failed links.                                                           *)
(***************************************************************************)
EXTENDS Dvr, TLAPS, SequenceTheorems, FiniteSetTheorems, WellFoundedInduction

-----------------------------------------------------------------------------
(* Sequences.                                                              *)

LEMMA SeqIs ==
    ASSUME NEW S, NEW s \in Seq(S)
    PROVE  IsSequence(s)
BY LenProperties DEF IsSequence

LEMMA SeqProps ==
    ASSUME NEW s, IsSequence(s)
    PROVE  Len(s) \in Nat /\ DOMAIN s = 1..Len(s)
BY LenProperties DEF IsSequence

\* t is s with messages of X behind it.
Extends(s, t, X) ==
    /\ IsSequence(s) /\ IsSequence(t) /\ Len(s) <= Len(t)
    /\ \A k \in 1..Len(s) : t[k] = s[k]
    /\ \A k \in 1..Len(t) : k \in 1..Len(s) \/ t[k] \in X

LEMMA ExtendsProps ==
    ASSUME NEW s, NEW t, NEW X, Extends(s, t, X)
    PROVE  /\ Len(s) \in Nat /\ Len(t) \in Nat /\ 1..Len(s) \subseteq 1..Len(t)
           /\ \A k \in 1..Len(s) : t[k] = s[k]
           /\ \A k \in 1..Len(t) : k \in 1..Len(s) \/ t[k] \in X
<1>1. Len(s) \in Nat /\ Len(t) \in Nat /\ Len(s) <= Len(t)
    BY SeqProps DEF Extends
<1>2. 1..Len(s) \subseteq 1..Len(t)
    BY <1>1
<1> QED BY <1>1, <1>2 DEF Extends

LEMMA ExtendsSelf ==
    ASSUME NEW s, IsSequence(s), NEW X
    PROVE  Extends(s, s, X)
BY SeqProps DEF Extends

LEMMA ExtendsAppend ==
    ASSUME NEW s, IsSequence(s), NEW x, NEW X, x \in X
    PROVE  LET t == Append(s, x) IN
           Extends(s, t, X) /\ Len(t) = Len(s) + 1 /\ t[Len(t)] = x
<1> DEFINE S == {s[k] : k \in DOMAIN s} \cup {x}
           t == Append(s, x)
<1>1. Len(s) \in Nat /\ s \in Seq(S)
    BY SeqProps DEF IsSequence
<1>2. t \in Seq(S) /\ Len(t) = Len(s) + 1 /\ t[Len(s) + 1] = x /\ \A k \in 1..Len(s) : t[k] = s[k]
    BY <1>1, AppendProperties
<1>3. IsSequence(t)
    BY <1>2, SeqIs
<1> HIDE DEF t
<1>4. \A k \in 1..Len(t) : k \in 1..Len(s) \/ k = Len(s) + 1
    BY <1>1, <1>2
<1>5. Extends(s, t, X)
    BY <1>1, <1>2, <1>3, <1>4 DEF Extends
<1> QED BY <1>2, <1>5 DEF t

LEMMA Shortened ==
    ASSUME NEW s, IsSequence(s), s # << >>
    PROVE  /\ Head(s) = s[1] /\ 1 \in 1..Len(s)
           /\ IsSequence(Tail(s)) /\ Len(s) \in Nat /\ Len(Tail(s)) = Len(s) - 1
           /\ \A k \in 1..Len(Tail(s)) : k + 1 \in 1..Len(s) /\ Tail(s)[k] = s[k + 1]
<1> DEFINE S == {s[k] : k \in DOMAIN s}
           t == Tail(s)
<1>1. s \in Seq(S) /\ Len(s) \in Nat
    BY SeqProps DEF IsSequence
<1>2. Len(s) >= 1
    BY <1>1, EmptySeq, LenProperties
<1>3. t \in Seq(S) /\ Len(t) = Len(s) - 1 /\ Head(s) = s[1]
    BY <1>1, HeadTailProperties
<1>4. \A k \in 1..Len(t) : k + 1 \in 1..Len(s) /\ t[k] = s[k + 1]
    BY <1>1, <1>3, HeadTailProperties
<1>5. IsSequence(t)
    BY <1>3, SeqIs
<1> QED BY <1>1, <1>2, <1>3, <1>4, <1>5

-----------------------------------------------------------------------------
(* The network.                                                            *)

\* The ends of a link are two routers, neighbours of each other.
LEMMA LinkEnds ==
    ASSUME net \in Networks, NEW a, NEW b, {a, b} \in DOMAIN Topology
    PROVE  /\ a # b /\ a \in Router /\ b \in Router /\ a \in Nbr(b) /\ b \in Nbr(a)
           /\ Topology[{a, b}] \in Nat /\ Topology[{a, b}] < INF
<1>1. Cardinality({a, b}) = 2 /\ Topology[{a, b}] \in Nat /\ Topology[{a, b}] < INF
    BY NetworkAssumption DEF Topology
<1>2. a # b
    <2> SUFFICES ASSUME a = b PROVE FALSE
        OBVIOUS
    <2>1. {a, b} = {a}
        OBVIOUS
    <2>2. Cardinality({a}) = 1
        BY FS_Singleton
    <2> QED BY <1>1, <2>1, <2>2
<1>3. a \in Router /\ b \in Router
    BY DEF Router
<1>4. {b, a} = {a, b}
    OBVIOUS
<1> QED BY <1>1, <1>2, <1>3, <1>4 DEF Nbr

LEMMA NbrProps ==
    ASSUME net \in Networks, NEW r \in Router, NEW i \in Nbr(r)
    PROVE  /\ {r, i} \in DOMAIN Topology /\ i \in Router /\ r # i /\ r \in Nbr(i)
           /\ Topology[{r, i}] \in Nat /\ Topology[{r, i}] < INF
BY LinkEnds DEF Nbr

LEMMA RouterNat ==
    ASSUME net \in Networks
    PROVE  Router \subseteq Nat
BY NetworkAssumption DEF Router, Topology

LEMMA SameNet ==
    ASSUME net' = net
    PROVE  /\ Topology' = Topology /\ Session' = Session /\ Hosts' = Hosts /\ Router' = Router
           /\ PlainText' = PlainText /\ Line' = Line
           /\ \A r : Nbr(r)' = Nbr(r)
           /\ \A l : LinkCost(l)' = LinkCost(l)
           /\ \A m, r : CostMessage(m, r)' = CostMessage(m, r)
           /\ \A r, d : Entry(r, d)' = Entry(r, d)
<1>1. Topology' = Topology /\ Session' = Session /\ Hosts' = Hosts
    BY DEF Topology, Session, Hosts
<1>2. Router' = Router
    BY <1>1 DEF Router
<1>3. \A r : Nbr(r)' = Nbr(r)
    BY <1>1, <1>2 DEF Nbr
<1>4. PlainText' = PlainText /\ Line' = Line
    BY <1>1, <1>2 DEF PlainText, Line
<1>5. \A l : LinkCost(l)' = LinkCost(l)
    BY <1>1 DEF LinkCost
<1>6. \A m, r : CostMessage(m, r)' = CostMessage(m, r)
    BY <1>1 DEF CostMessage
<1>7. \A r, d : Entry(r, d)' = Entry(r, d)
    BY <1>3 DEF Entry
<1> QED BY <1>1, <1>2, <1>3, <1>4, <1>5, <1>6, <1>7

\* One byte of the cost is read.
LEMMA ByteRange ==
    ASSUME NEW v \in Int
    PROVE  /\ SignedChar(v) \in -128..127
           /\ v \in -128..127 => SignedChar(v) = v
<1>1. v % 256 \in 0..255
    OBVIOUS
<1>2. SignedChar(v) \in -128..127
    BY <1>1 DEF SignedChar
<1>3. ASSUME v \in 0..127 PROVE SignedChar(v) = v
    <2>1. v % 256 = v
        BY <1>3
    <2> QED BY <1>3, <2>1 DEF SignedChar
<1>4. ASSUME v \in -128..-1 PROVE SignedChar(v) = v
    <2>1. v % 256 = v + 256
        BY <1>4
    <2> QED BY <1>4, <2>1 DEF SignedChar
<1> QED BY <1>2, <1>3, <1>4

-----------------------------------------------------------------------------
(* Cost commands.                                                          *)

\* The cost v that the commands in s leave at r for its link to i, if c is the
\* cost before.
Costs(s, r, i) == {k \in 1..Len(s) : ForLink(s[k], r, i)}
Coming(s, c, r, i, v) ==
    \/ \E k \in Costs(s, r, i) : v = SignedChar(s[k].value) /\ \A j \in Costs(s, r, i) : j <= k
    \/ Costs(s, r, i) = {} /\ v = c

LEMMA WillCostIs ==
    ASSUME NEW r, NEW i, NEW v
    PROVE  WillCost(r, i, v) <=>
             \/ r \in dead
             \/ \E k \in Unsent(r, i) : v = SignedChar(mainOut[k].m.value)
             \/ Unsent(r, i) = {} /\ Coming(inbox[r], neighbours[r][i], r, i, v)
BY DEF WillCost, Coming, Costs, Waiting

\* Other messages behind them change nothing.
LEMMA ComingExtends ==
    ASSUME NEW s, NEW t, NEW X, Extends(s, t, X), NEW r, NEW i, \A x \in X : ~ForLink(x, r, i),
           NEW c, NEW v, Coming(s, c, r, i, v)
    PROVE  Coming(t, c, r, i, v)
<1>1. /\ 1..Len(s) \subseteq 1..Len(t) /\ \A k \in 1..Len(s) : t[k] = s[k]
      /\ \A k \in 1..Len(t) : k \in 1..Len(s) \/ t[k] \in X
    BY ExtendsProps
<1>2. \A k \in 1..Len(t) : ForLink(t[k], r, i) => k \in 1..Len(s)
    BY <1>1
<1>3. Costs(t, r, i) = Costs(s, r, i) /\ \A k \in Costs(s, r, i) : t[k] = s[k]
    BY <1>1, <1>2 DEF Costs
<1> QED BY <1>3 DEF Coming

\* The first message is handled.
LEMMA ComingTail ==
    ASSUME NEW s, IsSequence(s), s # << >>, NEW c, NEW r, NEW i, NEW v, Coming(s, c, r, i, v)
    PROVE  Coming(Tail(s), IF ForLink(Head(s), r, i) THEN SignedChar(Head(s).value) ELSE c, r, i, v)
<1> DEFINE t == Tail(s)
           c2 == IF ForLink(Head(s), r, i) THEN SignedChar(Head(s).value) ELSE c
           C == Costs(s, r, i)
           D == Costs(t, r, i)
<1>1. /\ Head(s) = s[1] /\ 1 \in 1..Len(s) /\ Len(s) \in Nat /\ Len(t) = Len(s) - 1
      /\ \A k \in 1..Len(t) : k + 1 \in 1..Len(s) /\ t[k] = s[k + 1]
    BY Shortened
<1> HIDE DEF t
<1>2. ASSUME NEW k \in D PROVE k \in 1..Len(t) /\ k + 1 \in C /\ t[k] = s[k + 1]
    BY <1>1, <1>2 DEF Costs
<1>3. ASSUME NEW k \in C, k # 1 PROVE k \in Nat /\ k - 1 \in D /\ t[k - 1] = s[k]
    <2>1. k \in 1..Len(s) /\ ForLink(s[k], r, i)
        BY <1>3 DEF Costs
    <2>2. k - 1 \in 1..Len(t) /\ (k - 1) + 1 = k
        BY <1>1, <1>3, <2>1
    <2>3. t[k - 1] = s[k]
        BY <1>1, <2>2
    <2> QED BY <2>1, <2>2, <2>3 DEF Costs
<1>4. 1 \in C <=> ForLink(Head(s), r, i)
    BY <1>1 DEF Costs
<1>5. CASE C = {}
    <2>1. D = {} /\ v = c /\ c2 = c
        BY <1>2, <1>4, <1>5 DEF Coming
    <2> HIDE DEF c2
    <2>2. Coming(t, c2, r, i, v)
        BY <2>1 DEF Coming
    <2> QED BY <2>2 DEF t, c2
<1>6. CASE C # {}
    <2>1. PICK k \in C : v = SignedChar(s[k].value) /\ \A j \in C : j <= k
        BY <1>6 DEF Coming
    <2>2. CASE k = 1
        <3>1. c2 = v
            BY <1>1, <1>4, <2>1, <2>2
        <3>2. ASSUME NEW j \in D PROVE FALSE
            <4>1. j \in 1..Len(t) /\ j + 1 <= 1
                BY <1>2, <2>1, <2>2
            <4> QED BY <1>1, <4>1
        <3> HIDE DEF c2
        <3>3. Coming(t, c2, r, i, v)
            BY <3>1, <3>2 DEF Coming
        <3> QED BY <3>3 DEF t, c2
    <2>3. CASE k # 1
        <3>1. k \in Nat /\ k - 1 \in D /\ t[k - 1] = s[k]
            BY <1>3, <2>3
        <3>2. ASSUME NEW j \in D PROVE j <= k - 1
            <4>1. j \in 1..Len(t) /\ j + 1 <= k
                BY <1>2, <2>1
            <4> QED BY <1>1, <3>1, <4>1
        <3> HIDE DEF c2
        <3>3. Coming(t, c2, r, i, v)
            BY <2>1, <3>1, <3>2 DEF Coming
        <3> QED BY <3>3 DEF t, c2
    <2> QED BY <2>2, <2>3
<1> QED BY <1>5, <1>6

\* A command comes last.
LEMMA ComingLast ==
    ASSUME NEW s, IsSequence(s), NEW x, NEW c, NEW r, NEW i, ForLink(x, r, i)
    PROVE  Coming(Append(s, x), c, r, i, SignedChar(x.value))
<1> DEFINE t == Append(s, x)
<1>1. Extends(s, t, {x}) /\ Len(t) = Len(s) + 1 /\ t[Len(t)] = x
    BY ExtendsAppend
<1>2. Len(s) \in Nat
    BY SeqProps
<1> HIDE DEF t
<1>3. Len(t) \in Costs(t, r, i) /\ \A j \in Costs(t, r, i) : j <= Len(t)
    BY <1>1, <1>2 DEF Costs
<1>4. Coming(t, c, r, i, SignedChar(x.value))
    BY <1>1, <1>3 DEF Coming
<1> QED BY <1>4 DEF t

-----------------------------------------------------------------------------
(* Clocks and updates in an inbox.                                         *)

Ticks(s) == {k \in 1..Len(s) : Kind(s[k]) = "clk"}
Ups(s, i) == {k \in 1..Len(s) : s[k].type = "Update" /\ s[k].from = i}

LEMMA TicksExtends ==
    ASSUME NEW s, NEW t, NEW X, Extends(s, t, X), \A x \in X : Kind(x) # "clk"
    PROVE  Ticks(t) = Ticks(s)
<1>1. /\ 1..Len(s) \subseteq 1..Len(t) /\ \A k \in 1..Len(s) : t[k] = s[k]
      /\ \A k \in 1..Len(t) : k \in 1..Len(s) \/ t[k] \in X
    BY ExtendsProps
<1>2. \A k \in 1..Len(t) : Kind(t[k]) = "clk" => k \in 1..Len(s)
    BY <1>1
<1> QED BY <1>1, <1>2 DEF Ticks

LEMMA TicksTail ==
    ASSUME NEW s, IsSequence(s), s # << >>, \A j, k \in Ticks(s) : j = k
    PROVE  /\ \A j, k \in Ticks(Tail(s)) : j = k
           /\ Kind(Head(s)) = "clk" => Ticks(s) # {} /\ Ticks(Tail(s)) = {}
           /\ Kind(Head(s)) # "clk" => (Ticks(Tail(s)) = {} <=> Ticks(s) = {})
<1> DEFINE t == Tail(s)
<1>1. /\ Head(s) = s[1] /\ 1 \in 1..Len(s) /\ Len(s) \in Nat /\ Len(t) = Len(s) - 1
      /\ \A k \in 1..Len(t) : k + 1 \in 1..Len(s) /\ t[k] = s[k + 1]
    BY Shortened
<1> HIDE DEF t
<1>2. ASSUME NEW k \in Ticks(t) PROVE k \in 1..Len(t) /\ k + 1 \in Ticks(s)
    BY <1>1, <1>2 DEF Ticks
<1>3. ASSUME NEW k \in Ticks(s), k # 1 PROVE k - 1 \in Ticks(t)
    <2>1. k \in 1..Len(s) /\ Kind(s[k]) = "clk"
        BY <1>3 DEF Ticks
    <2>2. k - 1 \in 1..Len(t) /\ (k - 1) + 1 = k
        BY <1>1, <1>3, <2>1
    <2>3. t[k - 1] = s[k]
        BY <1>1, <2>2
    <2> QED BY <2>1, <2>2, <2>3 DEF Ticks
<1>4. ASSUME NEW j \in Ticks(t), NEW k \in Ticks(t) PROVE j = k
    <2>1. j \in 1..Len(t) /\ k \in 1..Len(t) /\ j + 1 = k + 1
        BY <1>2
    <2> QED BY <1>1, <2>1
<1>5. 1 \in Ticks(s) <=> Kind(Head(s)) = "clk"
    BY <1>1 DEF Ticks
<1>6. ASSUME Kind(Head(s)) = "clk", NEW k \in Ticks(t) PROVE FALSE
    <2>1. k \in 1..Len(t) /\ k + 1 = 1
        BY <1>2, <1>5, <1>6
    <2> QED BY <1>1, <2>1
<1>7. ASSUME Kind(Head(s)) # "clk" PROVE Ticks(t) = {} <=> Ticks(s) = {}
    BY <1>2, <1>3, <1>5, <1>7
<1> QED BY <1>4, <1>5, <1>6, <1>7 DEF t

LEMMA UpsExtends ==
    ASSUME NEW s, NEW t, NEW X, Extends(s, t, X), NEW i, Ups(s, i) # {}
    PROVE  Ups(t, i) # {}
<1>1. 1..Len(s) \subseteq 1..Len(t) /\ \A k \in 1..Len(s) : t[k] = s[k]
    BY ExtendsProps
<1> QED BY <1>1 DEF Ups

LEMMA UpsTail ==
    ASSUME NEW s, IsSequence(s), s # << >>, NEW i, Ups(s, i) # {},
           ~(Head(s).type = "Update" /\ Head(s).from = i)
    PROVE  Ups(Tail(s), i) # {}
<1> DEFINE t == Tail(s)
<1>1. /\ Head(s) = s[1] /\ 1 \in 1..Len(s) /\ Len(s) \in Nat /\ Len(t) = Len(s) - 1
      /\ \A k \in 1..Len(t) : k + 1 \in 1..Len(s) /\ t[k] = s[k + 1]
    BY Shortened
<1> HIDE DEF t
<1>2. PICK k \in 1..Len(s) : s[k].type = "Update" /\ s[k].from = i
    BY DEF Ups
<1>3. k - 1 \in 1..Len(t) /\ (k - 1) + 1 = k
    BY <1>1, <1>2
<1>4. t[k - 1] = s[k]
    BY <1>1, <1>3
<1> QED BY <1>2, <1>3, <1>4 DEF Ups, t

-----------------------------------------------------------------------------
(* A router takes its first message, and messages of X[i] are sent to i.   *)

Rest(r, i) == IF i = r THEN Tail(inbox[i]) ELSE inbox[i]
Taken(r, X) ==
    /\ r \in Router /\ r \notin dead /\ inbox[r] # << >> /\ DOMAIN inbox' = Router
    /\ \A i \in Router : Extends(Rest(r, i), inbox'[i], X[i])

\* What is in an inbox then was there before or is new.
LEMMA TakenMessages ==
    ASSUME DvrInv, NEW r, NEW X, Taken(r, X), NEW i \in Router, NEW k \in 1..Len(inbox'[i])
    PROVE  inbox'[i][k] \in X[i] \/ \E j \in 1..Len(inbox[i]) : inbox'[i][k] = inbox[i][j]
<1> DEFINE s == Rest(r, i)
<1>1. Extends(s, inbox'[i], X[i]) /\ IsSequence(inbox[i])
    BY DEF Taken, DvrInv, Sent
<1> SUFFICES ASSUME inbox'[i][k] \notin X[i]
             PROVE  \E j \in 1..Len(inbox[i]) : inbox'[i][k] = inbox[i][j]
    OBVIOUS
<1>2. k \in 1..Len(s) /\ inbox'[i][k] = s[k]
    BY <1>1, ExtendsProps
<1>3. CASE i = r
    <2>1. s = Tail(inbox[i]) /\ inbox[i] # << >>
        BY <1>3 DEF Rest, Taken
    <2>2. k + 1 \in 1..Len(inbox[i]) /\ s[k] = inbox[i][k + 1]
        BY <1>1, <1>2, <2>1, Shortened
    <2> QED BY <1>2, <2>2
<1>4. CASE i # r
    BY <1>2, <1>4 DEF Rest
<1> QED BY <1>3, <1>4

\* A message in the inbox of r, when the routers have sent up updates.
Proper(m, r, up) ==
    /\ CostMessage(m, r)
    /\ m.type = "Update" => m.from \in Nbr(r) /\ m.number \in 1..up[m.from] /\ m.lines \in Seq(Line)

LEMMA ProperIs ==
    ASSUME DvrInv, NEW r \in Router, NEW k \in 1..Len(inbox[r])
    PROVE  Proper(inbox[r][k], r, routingupdate)
BY DEF DvrInv, Sent, UpdateMessage, Proper

LEMMA ProperLater ==
    ASSUME DvrInv, NEW r \in Router, NEW m, Proper(m, r, routingupdate), NEW up,
           \A q \in Router : up[q] \in Nat /\ routingupdate[q] <= up[q]
    PROVE  Proper(m, r, up)
<1>1. ASSUME m.type = "Update" PROVE m.number \in 1..up[m.from]
    <2>1. m.from \in Nbr(r) /\ m.number \in 1..routingupdate[m.from]
        BY <1>1 DEF Proper
    <2>2. m.from \in Router /\ routingupdate[m.from] \in Nat
        BY <2>1 DEF Nbr, DvrInv, TypeOK
    <2> QED BY <2>1, <2>2
<1> QED BY <1>1 DEF Proper

\* What the driver has yet to send or to insert.
Order(o) ==
    /\ o.to \in Router /\ o.m.type \in {"cost", "send", "show", "down", "up"}
    /\ CostMessage(o.m, o.to) /\ (IsRule(o) => o.m.from \in Router)

LEMMA SentNext ==
    ASSUME net' = net, DOMAIN inbox' = Router, IsSequence(timerOut'), IsSequence(mainOut'),
           \A r \in Router : IsSequence(inbox'[r]) /\ \A k \in 1..Len(inbox'[r]) : Proper(inbox'[r][k], r, routingupdate'),
           \A k \in 1..Len(mainOut') : Order(mainOut'[k]),
           \A k \in 1..Len(timerOut') : timerOut'[k].to \in Router /\ timerOut'[k].m = [type |-> "clk"],
           \A j, k \in 1..Len(mainOut') : mainOut'[j].to = mainOut'[k].to => j = k
    PROVE  Sent'
<1>1. \A k \in 1..Len(mainOut') :
         /\ mainOut'[k].to \in Router' /\ mainOut'[k].m.type \in {"cost", "send", "show", "down", "up"}
         /\ CostMessage(mainOut[k].m, mainOut[k].to)'
         /\ IsRule(mainOut'[k]) => mainOut'[k].m.from \in Router'
    BY SameNet DEF Order, CostMessage
<1>2. ASSUME NEW r \in Router, NEW k \in 1..Len(inbox'[r])
      PROVE  CostMessage(inbox[r][k], r)' /\ UpdateMessage(inbox[r][k], r)'
    <2>1. Proper(inbox'[r][k], r, routingupdate')
        OBVIOUS
    <2>2. CostMessage(inbox[r][k], r)'
        BY <2>1, SameNet DEF Proper, CostMessage
    <2>3. UpdateMessage(inbox[r][k], r)'
        BY <2>1, SameNet DEF Proper, UpdateMessage
    <2> QED BY <2>2, <2>3
<1> QED BY <1>1, <1>2, SameNet DEF Sent

LEMMA SentKept ==
    ASSUME DvrInv, net' = net, NEW r, NEW X, Taken(r, X),
           \A q \in Router : routingupdate'[q] \in Nat /\ routingupdate[q] <= routingupdate'[q],
           \A i \in Router : \A x \in X[i] : Proper(x, i, routingupdate'),
           timerOut' = timerOut, mainOut' = mainOut
    PROVE  Sent'
<1>1. \A i \in Router : IsSequence(inbox'[i])
    BY DEF Taken, Extends
<1>2. ASSUME NEW i \in Router, NEW k \in 1..Len(inbox'[i])
      PROVE  Proper(inbox'[i][k], i, routingupdate')
    <2>1. CASE inbox'[i][k] \in X[i]
        BY <2>1
    <2>2. CASE inbox'[i][k] \notin X[i]
        <3>1. PICK j \in 1..Len(inbox[i]) : inbox'[i][k] = inbox[i][j]
            BY <2>2, TakenMessages
        <3>2. Proper(inbox[i][j], i, routingupdate)
            BY ProperIs
        <3> QED BY <3>1, <3>2, ProperLater
    <2> QED BY <2>1, <2>2
<1>3. /\ IsSequence(timerOut') /\ IsSequence(mainOut') /\ DOMAIN inbox' = Router
      /\ \A k \in 1..Len(mainOut') : Order(mainOut'[k])
      /\ \A k \in 1..Len(timerOut') : timerOut'[k].to \in Router /\ timerOut'[k].m = [type |-> "clk"]
      /\ \A j, k \in 1..Len(mainOut') : mainOut'[j].to = mainOut'[k].to => j = k
    BY DEF DvrInv, Sent, Taken, Order
<1> QED BY <1>1, <1>2, <1>3, SentNext

LEMMA AgreedFrom ==
    ASSUME net' = net, DOMAIN linkCost' = DOMAIN Topology,
           \A r \in Router : \A i \in Nbr(r) :
             /\ neighbours'[r][i] \in LinkCost({r, i})
             /\ \E v \in LinkCost({r, i}) : /\ WillCost(r, i, v)' /\ WillCost(i, r, v)'
                                            /\ linkCost'[{r, i}] \in -128..127 => v = linkCost'[{r, i}]
    PROVE  Agreed'
BY SameNet DEF Agreed

\* The cost of a command is taken when the command is.
LEMMA AgreedKept ==
    ASSUME DvrInv, net' = net, NEW r, NEW X, Taken(r, X),
           \A i \in Router : \A x \in X[i] : x.type # "cost",
           mainOut' = mainOut, linkCost' = linkCost, dead' = dead,
           \A q \in Router : \A i \in Nbr(q) :
             neighbours'[q][i] = IF q = r /\ ForLink(Head(inbox[r]), r, i)
                                 THEN SignedChar(Head(inbox[r]).value) ELSE neighbours[q][i]
    PROVE  Agreed'
<1>1. ASSUME NEW q \in Router, NEW i \in Nbr(q), NEW v, WillCost(q, i, v)
      PROVE  WillCost(q, i, v)'
    <2> DEFINE c == neighbours'[q][i]
    <2>1. Unsent(q, i)' = Unsent(q, i)
        BY DEF Unsent
    <2>2. ASSUME Coming(inbox[q], neighbours[q][i], q, i, v) PROVE Coming(inbox'[q], c, q, i, v)
        <3>1. Extends(Rest(r, q), inbox'[q], X[q]) /\ IsSequence(inbox[q])
            BY DEF Taken, DvrInv, Sent
        <3>2. Coming(Rest(r, q), c, q, i, v)
            <4>1. CASE q = r
                <5>1. c = IF ForLink(Head(inbox[q]), q, i) THEN SignedChar(Head(inbox[q]).value) ELSE neighbours[q][i]
                    BY <4>1
                <5>2. inbox[q] # << >>
                    BY <4>1 DEF Taken
                <5> HIDE DEF c
                <5>3. Coming(Tail(inbox[q]), c, q, i, v)
                    BY <2>2, <3>1, <5>1, <5>2, ComingTail
                <5> QED BY <4>1, <5>3 DEF Rest
            <4>2. CASE q # r
                BY <2>2, <4>2 DEF Rest
            <4> QED BY <4>1, <4>2
        <3>3. \A x \in X[q] : ~ForLink(x, q, i)
            BY DEF ForLink
        <3> HIDE DEF c
        <3> QED BY <3>1, <3>2, <3>3, ComingExtends
    <2>3. WillCost(q, i, v)' <=>
             \/ q \in dead'
             \/ \E k \in Unsent(q, i)' : v = SignedChar(mainOut'[k].m.value)
             \/ Unsent(q, i)' = {} /\ Coming(inbox'[q], c, q, i, v)
        BY DEF WillCost, Coming, Costs, Waiting
    <2> HIDE DEF c
    <2> QED BY <1>1, <2>1, <2>2, <2>3, WillCostIs
<1>2. ASSUME NEW q \in Router, NEW i \in Nbr(q)
      PROVE  /\ neighbours'[q][i] \in LinkCost({q, i})
             /\ \E v \in LinkCost({q, i}) : /\ WillCost(q, i, v)' /\ WillCost(i, q, v)'
                                            /\ linkCost'[{q, i}] \in -128..127 => v = linkCost'[{q, i}]
    <2>1. i \in Router /\ q \in Nbr(i)
        BY NbrProps DEF DvrInv
    <2>2. PICK v \in LinkCost({q, i}) : /\ WillCost(q, i, v) /\ WillCost(i, q, v)
                                        /\ linkCost[{q, i}] \in -128..127 => v = linkCost[{q, i}]
        BY DEF DvrInv, Agreed
    <2>3. WillCost(q, i, v)' /\ WillCost(i, q, v)'
        BY <1>1, <2>1, <2>2
    <2>4. neighbours'[q][i] \in LinkCost({q, i})
        <3>1. CASE q = r /\ ForLink(Head(inbox[r]), r, i)
            <4> DEFINE m == Head(inbox[r])
            <4>1. IsSequence(inbox[r]) /\ inbox[r] # << >>
                BY DEF Taken, DvrInv, Sent
            <4>2. m = inbox[r][1] /\ 1 \in 1..Len(inbox[r])
                BY <4>1, Shortened
            <4>3. CostMessage(m, r)
                BY <4>2 DEF Taken, DvrInv, Sent
            <4>4. m.value \in Int
                <5>1. m.type = "cost"
                    BY <3>1 DEF ForLink
                <5> QED BY <4>3, <5>1 DEF CostMessage
            <4>5. neighbours'[q][i] = SignedChar(m.value)
                BY <3>1
            <4> HIDE DEF m
            <4> QED BY <4>4, <4>5, ByteRange DEF LinkCost
        <3>2. CASE ~(q = r /\ ForLink(Head(inbox[r]), r, i))
            BY <3>2 DEF DvrInv, Agreed
        <3> QED BY <3>1, <3>2
    <2> QED BY <2>2, <2>3, <2>4
<1>3. DOMAIN linkCost' = DOMAIN Topology
    BY DEF DvrInv, Agreed
<1> QED BY <1>2, <1>3, AgreedFrom

-----------------------------------------------------------------------------
(* Clocks and link tracking, for one router or one link.                   *)

ClockedAt(s, un, up, c) ==
    /\ \A k \in 1..Len(s) : s[k].type \in {"send", "frwd"} => s[k].msg # "clk"
    /\ \A j, k \in Ticks(s) : j = k
    /\ Ticks(s) # {} => un = {}
    /\ up = (IF Ticks(s) \cup un = {} THEN c ELSE c - 1)

LEMMA ClockedIs ==
    ASSUME Clocked, NEW r \in Router, r \notin dead
    PROVE  ClockedAt(inbox[r], Unclocked(r), routingupdate[r], clk)
BY DEF Clocked, ClockedAt, ClocksAt, Ticks, Alive

\* What the driver has yet to send.
Outgoing(t, q) ==
    /\ \A j, k \in 1..Len(t) : t[j].to = t[k].to => j = k
    /\ \A k \in 1..Len(q) : q[k].m.type = "send" => q[k].m.msg # "clk"

LEMMA ClockedNext ==
    ASSUME net' = net, Outgoing(timerOut', mainOut'),
           \A r \in Router : routingupdate'[r] <= clk',
           \A r \in Router \ dead' : ClockedAt(inbox'[r], Unclocked(r)', routingupdate'[r], clk')
    PROVE  Clocked'
<1>1. \A r : ClocksAt(r)' = Ticks(inbox'[r])
    BY DEF ClocksAt, Ticks, Kind
<1>2. ASSUME NEW r \in Router \ dead'
      PROVE  /\ \A k \in 1..Len(inbox'[r]) : inbox'[r][k].type \in {"send", "frwd"} => inbox'[r][k].msg # "clk"
             /\ \A j, k \in ClocksAt(r)' : j = k
             /\ ClocksAt(r)' # {} => Unclocked(r)' = {}
             /\ routingupdate'[r] = (IF ClocksAt(r)' \cup Unclocked(r)' = {} THEN clk' ELSE clk' - 1)
    BY <1>1 DEF ClockedAt
<1> QED BY <1>2, SameNet DEF Clocked, Outgoing, Alive

LEMMA OutgoingIs ==
    ASSUME Clocked
    PROVE  Outgoing(timerOut, mainOut)
BY DEF Clocked, Outgoing

UpdateAt(m, r, up, dr, c) ==
    m.type = "Update" => m.number = c /\ <<m.from, r, c>> \notin dr /\ up[m.from] = c
TrackAt(s, r, i, track, up, dr, c) ==
    /\ track[i] > 0 => <<i, r, track[i]>> \notin dr
    /\ track[i] # -1 =>
         /\ \A n \in track[i] + 1 .. up : <<i, r, n>> \in dr \/ (n = c /\ Ups(s, i) # {})
         /\ \A j \in Nbr(r) : track[j] <= track[i] + 3

LEMMA TrackedIs ==
    ASSUME Tracked, NEW r \in Router
    PROVE  /\ \A k \in 1..Len(inbox[r]) : UpdateAt(inbox[r][k], r, routingupdate, dropped, clk)
           /\ r \notin dead =>
                \A i \in Nbr(r) : TrackAt(inbox[r], r, i, linktrack[r], routingupdate[i], dropped, clk)
BY DEF Tracked, UpdateAt, TrackAt, Updates, Ups, Alive

LEMMA TrackedNext ==
    ASSUME net' = net, \A e \in dropped' : e[1] \in Router /\ e[3] \in 1..routingupdate'[e[1]],
           \A r \in Router : \A k \in 1..Len(inbox'[r]) : UpdateAt(inbox'[r][k], r, routingupdate', dropped', clk'),
           \A r \in Router \ dead' : \A i \in Nbr(r) :
             TrackAt(inbox'[r], r, i, linktrack'[r], routingupdate'[i], dropped', clk')
    PROVE  Tracked'
<1>1. \A r, i : Updates(r, i)' = Ups(inbox'[r], i)
    BY DEF Updates, Ups
<1>2. ASSUME NEW r \in Router \ dead', NEW i \in Nbr(r)
      PROVE  /\ linktrack'[r][i] > 0 => <<i, r, linktrack'[r][i]>> \notin dropped'
             /\ linktrack'[r][i] # -1 =>
                  /\ \A n \in linktrack'[r][i] + 1 .. routingupdate'[i] :
                       <<i, r, n>> \in dropped' \/ (n = clk' /\ Updates(r, i)' # {})
                  /\ \A j \in Nbr(r) : linktrack'[r][j] <= linktrack'[r][i] + 3
    BY <1>1 DEF TrackAt
<1>3. ASSUME NEW r \in Router, NEW k \in 1..Len(inbox'[r]), inbox'[r][k].type = "Update"
      PROVE  /\ inbox'[r][k].number = clk'
             /\ <<inbox'[r][k].from, r, clk'>> \notin dropped' /\ routingupdate'[inbox'[r][k].from] = clk'
    BY <1>3 DEF UpdateAt
<1> QED BY <1>2, <1>3, SameNet DEF Tracked, Alive

-----------------------------------------------------------------------------
(* ... when a router takes a message.                                      *)

\* A router that takes a clock counts an update.
LEMMA ClockedKept ==
    ASSUME DvrInv, Clocked, net' = net, NEW r, NEW X, Taken(r, X),
           \A i \in Router : \A x \in X[i] : Kind(x) # "clk" /\ (x.type \in {"send", "frwd"} => x.msg # "clk"),
           clk' = clk, timerOut' = timerOut, mainOut' = mainOut, dead' = dead,
           \A q \in Router : routingupdate'[q] =
             IF q = r /\ Kind(Head(inbox[r])) = "clk" THEN routingupdate[q] + 1 ELSE routingupdate[q]
    PROVE  Clocked'
<1>0. ASSUME NEW q \in Router PROVE routingupdate'[q] <= clk'
    <2>1. routingupdate[q] <= clk /\ clk \in Int /\ routingupdate[q] \in Nat
        BY DEF Clocked, DvrInv, TypeOK
    <2>2. CASE q = r /\ Kind(Head(inbox[r])) = "clk"
        <3>1. IsSequence(inbox[r]) /\ inbox[r] # << >>
            BY DEF Taken, DvrInv, Sent
        <3>2. ClockedAt(inbox[r], Unclocked(r), routingupdate[r], clk)
            BY <2>2, ClockedIs DEF Taken
        <3>3. Ticks(inbox[r]) # {}
            BY <2>2, <3>1, <3>2, TicksTail DEF ClockedAt
        <3>4. routingupdate[q] = clk - 1
            BY <2>2, <3>2, <3>3 DEF ClockedAt
        <3> QED BY <2>1, <2>2, <3>4
    <2>3. CASE ~(q = r /\ Kind(Head(inbox[r])) = "clk")
        BY <2>1, <2>3
    <2> QED BY <2>2, <2>3
<1> SUFFICES ASSUME NEW q \in Router \ dead
             PROVE  ClockedAt(inbox'[q], Unclocked(q)', routingupdate'[q], clk')
    BY <1>0, OutgoingIs, ClockedNext
<1> DEFINE s == Rest(r, q)
           t == inbox'[q]
           U == Unclocked(q)
<1>1. ClockedAt(inbox[q], U, routingupdate[q], clk) /\ clk \in Int /\ routingupdate[q] \in Nat
    BY ClockedIs DEF DvrInv, TypeOK
<1>2. Unclocked(q)' = U
    BY DEF Unclocked
<1>3. IsSequence(inbox[q]) /\ Extends(s, t, X[q])
    BY DEF DvrInv, Sent, Taken
<1>4. \A k \in 1..Len(t) : t[k].type \in {"send", "frwd"} => t[k].msg # "clk"
    <2> SUFFICES ASSUME NEW k \in 1..Len(t) PROVE t[k].type \in {"send", "frwd"} => t[k].msg # "clk"
        OBVIOUS
    <2>1. t[k] \in X[q] \/ \E j \in 1..Len(inbox[q]) : t[k] = inbox[q][j]
        BY TakenMessages
    <2> QED BY <1>1, <2>1 DEF ClockedAt
<1>5. Ticks(t) = Ticks(s)
    BY <1>3, TicksExtends
<1> HIDE DEF s, t, U
<1>6. CASE q = r
    <2>1. s = Tail(inbox[q]) /\ inbox[q] # << >>
        BY <1>6 DEF Rest, Taken, s
    <2>2. /\ \A j, k \in Ticks(s) : j = k
          /\ Kind(Head(inbox[q])) = "clk" => Ticks(inbox[q]) # {} /\ Ticks(s) = {}
          /\ Kind(Head(inbox[q])) # "clk" => (Ticks(s) = {} <=> Ticks(inbox[q]) = {})
        BY <1>1, <1>3, <2>1, TicksTail DEF ClockedAt
    <2>3. CASE Kind(Head(inbox[q])) = "clk"
        <3>1. routingupdate'[q] = routingupdate[q] + 1
            BY <1>6, <2>3
        <3>2. U = {} /\ routingupdate[q] = clk - 1
            BY <1>1, <2>2, <2>3 DEF ClockedAt
        <3>3. routingupdate'[q] = clk
            BY <1>1, <3>1, <3>2
        <3> QED BY <1>2, <1>4, <1>5, <2>2, <2>3, <3>2, <3>3 DEF ClockedAt, t
    <2>4. CASE Kind(Head(inbox[q])) # "clk"
        <3>1. routingupdate'[q] = routingupdate[q]
            BY <1>6, <2>4
        <3> QED BY <1>1, <1>2, <1>4, <1>5, <2>2, <2>4, <3>1 DEF ClockedAt, t
    <2> QED BY <2>3, <2>4
<1>7. CASE q # r
    <2>1. s = inbox[q] /\ routingupdate'[q] = routingupdate[q]
        BY <1>7 DEF Rest, s
    <2> QED BY <1>1, <1>2, <1>4, <1>5, <2>1 DEF ClockedAt, t
<1> QED BY <1>6, <1>7

\* An update waits until it is taken.
LEMMA UpsTaken ==
    ASSUME DvrInv, NEW r, NEW X, Taken(r, X), NEW q \in Router, NEW i, Ups(inbox[q], i) # {},
           ~(q = r /\ Head(inbox[r]).type = "Update" /\ Head(inbox[r]).from = i)
    PROVE  Ups(inbox'[q], i) # {}
<1>1. IsSequence(inbox[q]) /\ Extends(Rest(r, q), inbox'[q], X[q])
    BY DEF DvrInv, Sent, Taken
<1>2. Ups(Rest(r, q), i) # {}
    <2>1. CASE q = r
        <3>1. Rest(r, q) = Tail(inbox[q]) /\ inbox[q] # << >>
            BY <2>1 DEF Rest, Taken
        <3> QED BY <1>1, <2>1, <3>1, UpsTail
    <2>2. CASE q # r
        BY <2>2 DEF Rest
    <2> QED BY <2>1, <2>2
<1> QED BY <1>1, <1>2, UpsExtends

\* Links are tracked on, given up, or heard of again.
LEMMA TrackedKept ==
    ASSUME DvrInv, Tracked, net' = net, NEW r, NEW X, Taken(r, X),
           \A i \in Router : \A x \in X[i] : x.type # "Update",
           clk' = clk, routingupdate' = routingupdate, dropped' = dropped, dead' = dead,
           \A q \in Router : \A i \in Nbr(q) :
             \/ /\ linktrack'[q][i] = linktrack[q][i]
                /\ ~(q = r /\ Head(inbox[r]).type = "Update" /\ Head(inbox[r]).from = i)
             \/ /\ linktrack'[q][i] = clk
                /\ q = r /\ Head(inbox[r]).type = "Update" /\ Head(inbox[r]).from = i
             \/ linktrack'[q][i] = -1,
           \A q \in Router \ dead : \A i, j \in Nbr(q) :
             linktrack'[q][i] # -1 => linktrack'[q][j] <= linktrack'[q][i] + 3
    PROVE  Tracked'
<1>1. \A e \in dropped' : e[1] \in Router /\ e[3] \in 1..routingupdate'[e[1]]
    BY DEF Tracked
<1>2. ASSUME NEW q \in Router, NEW k \in 1..Len(inbox'[q])
      PROVE  UpdateAt(inbox'[q][k], q, routingupdate', dropped', clk')
    <2>1. inbox'[q][k] \in X[q] \/ \E j \in 1..Len(inbox[q]) : inbox'[q][k] = inbox[q][j]
        BY TakenMessages
    <2>2. \A j \in 1..Len(inbox[q]) : UpdateAt(inbox[q][j], q, routingupdate, dropped, clk)
        BY TrackedIs
    <2> QED BY <2>1, <2>2 DEF UpdateAt
<1>3. ASSUME NEW q \in Router \ dead, NEW i \in Nbr(q)
      PROVE  TrackAt(inbox'[q], q, i, linktrack'[q], routingupdate'[i], dropped', clk')
    <2>1. TrackAt(inbox[q], q, i, linktrack[q], routingupdate[i], dropped, clk)
        BY TrackedIs
    <2>2. \A j \in Nbr(q) : linktrack'[q][i] # -1 => linktrack'[q][j] <= linktrack'[q][i] + 3
        OBVIOUS
    <2>3. CASE /\ linktrack'[q][i] = linktrack[q][i]
               /\ ~(q = r /\ Head(inbox[r]).type = "Update" /\ Head(inbox[r]).from = i)
        <3>1. Ups(inbox[q], i) # {} => Ups(inbox'[q], i) # {}
            BY <2>3, UpsTaken
        <3> QED BY <2>1, <2>2, <2>3, <3>1 DEF TrackAt
    <2>4. CASE /\ linktrack'[q][i] = clk
               /\ q = r /\ Head(inbox[r]).type = "Update" /\ Head(inbox[r]).from = i
        <3>1. IsSequence(inbox[r]) /\ inbox[r] # << >>
            BY DEF Taken, DvrInv, Sent
        <3>2. Head(inbox[r]) = inbox[r][1] /\ 1 \in 1..Len(inbox[r])
            BY <3>1, Shortened
        <3>3. <<i, r, clk>> \notin dropped /\ routingupdate[i] = clk
            BY <2>4, <3>2, TrackedIs DEF UpdateAt
        <3>4. clk \in Int
            BY DEF DvrInv, TypeOK
        <3>5. clk + 1 .. clk = {}
            BY <3>4
        <3> QED BY <2>2, <2>4, <3>3, <3>5 DEF TrackAt
    <2>5. CASE linktrack'[q][i] = -1
        BY <2>5 DEF TrackAt
    <2> QED BY <2>3, <2>4, <2>5
<1> QED BY <1>1, <1>2, <1>3, TrackedNext

-----------------------------------------------------------------------------
(* The types.                                                              *)

RouterTyped(r, table, nbrs, track, buf, up) ==
    /\ DOMAIN table = Router \ {r} /\ \A d \in Router \ {r} : table[d] \in Entry(r, d)
    /\ nbrs \in [Nbr(r) -> Int]
    /\ DOMAIN track = Nbr(r) /\ \A i \in Nbr(r) : track[i] \in -1..up[i]
    /\ IsSequence(buf) /\ \A k \in 1..Len(buf) : buf[k].line \in Line

LEMMA TypedIs ==
    ASSUME DvrInv, NEW r \in Router
    PROVE  RouterTyped(r, routingtable[r], neighbours[r], linktrack[r], buffer[r], routingupdate)
BY DEF DvrInv, TypeOK, RouterTyped

LEMMA TypedNext ==
    ASSUME net' = net, routingupdate' \in [Router -> Nat],
           DOMAIN routingtable' = Router, DOMAIN neighbours' = Router, DOMAIN linktrack' = Router,
           DOMAIN buffer' = Router,
           \A r \in Router :
             RouterTyped(r, routingtable'[r], neighbours'[r], linktrack'[r], buffer'[r], routingupdate'),
           clk' \in 0..net.clocks, commands' \in 0..Len(Session),
           downLinks' \subseteq Router \X Router, dead' \subseteq Router
    PROVE  TypeOK'
<1>1. ASSUME NEW r \in Router
      PROVE  /\ DOMAIN routingtable'[r] = Router' \ {r}
             /\ \A d \in Router' \ {r} : routingtable'[r][d] \in Entry(r, d)'
             /\ neighbours'[r] \in [Nbr(r)' -> Int]
             /\ DOMAIN linktrack'[r] = Nbr(r)' /\ \A i \in Nbr(r)' : linktrack'[r][i] \in -1..routingupdate'[i]
             /\ IsSequence(buffer'[r]) /\ \A k \in 1..Len(buffer'[r]) : buffer'[r][k].line \in Line'
    BY SameNet DEF RouterTyped
<1> QED BY <1>1, SameNet DEF TypeOK

-----------------------------------------------------------------------------
(* A clock: an update to every neighbour.                                  *)

LEMMA RouterFinite ==
    ASSUME net \in Networks
    PROVE  IsFiniteSet(Router)
<1> DEFINE n == Len(Hosts)
           f == [k \in 1..n |-> Hosts[k]]
<1>1. Hosts \in Seq(Router) /\ \A r \in Router : \E k \in 1..n : Hosts[k] = r
    BY HostsAssumption DEF Hosts, Router, Topology
<1>2. n \in Nat /\ \A k \in 1..n : Hosts[k] \in Router
    BY <1>1, LenProperties, ElementOfSeq
<1>3. f \in Surjection(1..n, Router)
    BY <1>1, <1>2 DEF Surjection
<1>4. IsFiniteSet(1..n)
    BY <1>2, FS_Interval
<1> QED BY <1>3, <1>4, FS_Surjection

\* Every place in the order of the addresses is taken: ranks are injective.
LEMMA InOrderIn ==
    ASSUME net \in Networks, NEW S \in SUBSET Router, NEW k \in 1..Cardinality(S)
    PROVE  InOrder(S, k) \in S
<1> DEFINE n == Cardinality(S)
           B(d) == {e \in S : e < d}
           f == [d \in S |-> Cardinality(B(d))]
<1>1. IsFiniteSet(S) /\ n \in Nat /\ S \subseteq Nat
    BY RouterFinite, RouterNat, FS_Subset, FS_CardinalityType
<1>2. ASSUME NEW d \in S PROVE IsFiniteSet(B(d)) /\ Cardinality(B(d)) \in 0..n - 1
    <2>1. IsFiniteSet(S \ {d}) /\ Cardinality(S \ {d}) = n - 1
        BY <1>1, FS_RemoveElement
    <2>2. B(d) \in SUBSET (S \ {d})
        BY <1>1
    <2>3. IsFiniteSet(B(d)) /\ Cardinality(B(d)) <= n - 1
        BY <2>1, <2>2, FS_Subset
    <2>4. Cardinality(B(d)) \in Nat
        BY <2>3, FS_CardinalityType
    <2> HIDE DEF B, n
    <2> QED BY <1>1, <2>3, <2>4
<1>3. ASSUME NEW c \in S, NEW d \in S, c < d PROVE Cardinality(B(c)) < Cardinality(B(d))
    <2>1. B(c) \cup {c} \in SUBSET B(d) /\ c \notin B(c)
        <3>1. ASSUME NEW e \in B(c) PROVE e \in B(d) /\ e # c
            <4>1. e \in S /\ e < c /\ e \in Nat /\ c \in Nat /\ d \in Nat
                BY <1>1
            <4> QED BY <1>3, <4>1
        <3>2. c \in B(d)
            BY <1>3
        <3> QED BY <3>1, <3>2
    <2>2. Cardinality(B(c) \cup {c}) = Cardinality(B(c)) + 1
        BY <1>2, <2>1, FS_AddElement
    <2>3. Cardinality(B(c) \cup {c}) <= Cardinality(B(d))
        BY <1>2, <2>1, FS_Subset
    <2>4. Cardinality(B(c)) \in 0..n - 1 /\ Cardinality(B(d)) \in 0..n - 1
        BY <1>2
    <2> HIDE DEF B, n
    <2> QED BY <1>1, <2>2, <2>3, <2>4
<1> HIDE DEF B
<1>4. ASSUME NEW c \in S, NEW d \in S, Cardinality(B(c)) = Cardinality(B(d)) PROVE c = d
    <2>1. c \in Nat /\ d \in Nat
        BY <1>1
    <2>2. Cardinality(B(c)) \in 0..n - 1 /\ Cardinality(B(d)) \in 0..n - 1
        BY <1>2
    <2>3. CASE c < d
        BY <1>1, <1>3, <1>4, <2>2, <2>3
    <2>4. CASE d < c
        BY <1>1, <1>3, <1>4, <2>2, <2>4
    <2> QED BY <2>1, <2>3, <2>4
<1>5. f \in Injection(S, 0..n - 1)
    <2>1. f \in [S -> 0..n - 1]
        BY <1>2
    <2>2. \A c, d \in S : f[c] = f[d] => c = d
        BY <1>4
    <2> HIDE DEF f
    <2> QED BY <2>1, <2>2 DEF Injection, IsInjective
<1>6. IsFiniteSet(0..n - 1) /\ Cardinality(0..n - 1) = n
    <2>1. 0 \in Int /\ n - 1 \in Int
        BY <1>1
    <2>2. IsFiniteSet(0..n - 1) /\ Cardinality(0..n - 1) = IF 0 > n - 1 THEN 0 ELSE n - 1 - 0 + 1
        BY <2>1, FS_Interval
    <2> HIDE DEF n
    <2> QED BY <1>1, <2>2
<1>7. f \in Surjection(S, 0..n - 1)
    BY <1>5, <1>6, FS_Injection
<1>8. k - 1 \in 0..n - 1
    BY <1>1
<1>9. \E d \in S : Cardinality(B(d)) = k - 1
    BY <1>7, <1>8 DEF Surjection
<1>10. \E d \in S : Cardinality({e \in S : e < d}) = k - 1
    BY <1>9 DEF B
<1> QED BY <1>10 DEF InOrder

LEMMA LinesTyped ==
    ASSUME DvrInv, NEW r \in Router
    PROVE  RouteLines(r) \in Seq(Line)
<1> DEFINE S == {d \in Router \ {r} : routingtable[r][d].cost # INF}
           n == Cardinality(S)
           line(k) == [dest |-> InOrder(S, k), nexthop |-> routingtable[r][InOrder(S, k)].nexthop,
                       cost |-> routingtable[r][InOrder(S, k)].cost]
<1>1. RouteLines(r) = [k \in 1..n |-> line(k)]
    BY DEF RouteLines
<1>2. n \in Nat
    BY RouterFinite, FS_Subset, FS_CardinalityType DEF DvrInv
<1>3. ASSUME NEW k \in 1..n PROVE line(k) \in Line
    <2> DEFINE d == InOrder(S, k)
    <2>1. d \in S
        BY InOrderIn DEF DvrInv
    <2> HIDE DEF d
    <2>2. d \in Router /\ routingtable[r][d] \in Entry(r, d) /\ routingtable[r][d].cost # INF
        BY <2>1 DEF DvrInv, TypeOK
    <2>3. routingtable[r][d] \in [nexthop : Nbr(r), cost : Int]
        BY <2>2 DEF Entry
    <2>4. Nbr(r) \subseteq Router
        BY DEF Nbr
    <2>5. [dest |-> d, nexthop |-> routingtable[r][d].nexthop, cost |-> routingtable[r][d].cost] \in Line
        BY <2>2, <2>3, <2>4 DEF Line
    <2> QED BY <2>5 DEF d
<1> HIDE DEF n, line
<1> QED BY <1>1, <1>2, <1>3

\* An inbox after r has taken its first message.
LEMMA RestIs ==
    ASSUME DvrInv, NEW r \in Router, inbox[r] # << >>, NEW i \in Router
    PROVE  /\ [inbox EXCEPT ![r] = Tail(@)][i] = Rest(r, i) /\ IsSequence(Rest(r, i))
           /\ DOMAIN [inbox EXCEPT ![r] = Tail(@)] = Router
<1>1. DOMAIN inbox = Router /\ IsSequence(inbox[i])
    BY DEF DvrInv, Sent
<1>2. CASE i = r
    <2>1. Rest(r, i) = Tail(inbox[i]) /\ IsSequence(Tail(inbox[i]))
        BY <1>1, <1>2, Shortened DEF Rest
    <2> QED BY <1>1, <1>2, <2>1
<1>3. CASE i # r
    BY <1>1, <1>3 DEF Rest
<1> QED BY <1>2, <1>3

LEMMA BelowINF ==
    ASSUME NEW c, NEW t, c \in -128..127 \/ c = t, t \in Nat, t < INF
    PROVE  c # INF
<1>1. INF \in Nat /\ INF > 127
    BY INFAssumption
<1>2. CASE c \in -128..127
    <2>1. c <= 127
        BY <1>2
    <2>2. c \in Int
        BY <1>2
    <2> QED BY <1>1, <2>1, <2>2
<1> QED BY <1>2

LEMMA TickStep ==
    ASSUME DvrInv, NEW r \in Router, r \notin dead, inbox[r] # << >>, Kind(Head(inbox[r])) = "clk",
           SendRoutingUpdates(r, [inbox EXCEPT ![r] = Tail(@)]), UNCHANGED buffer,
           UNCHANGED <<net, driver>>
    PROVE  DvrInv'
<1> DEFINE rest == [inbox EXCEPT ![r] = Tail(@)]
           number == routingupdate[r] + 1
           u == [type |-> "Update", from |-> r, number |-> number, lines |-> RouteLines(r)]
           to == {i \in Nbr(r) : neighbours[r][i] # INF}
           X == [i \in Router |-> IF i \in to \ dead /\ Passes(r, i) THEN {u} ELSE {}]
           lost == {<<r, i, number>> : i \in {j \in to : ~Passes(r, j)}}
<1>1. /\ net' = net /\ clk' = clk /\ timerOut' = timerOut /\ mainOut' = mainOut
      /\ downLinks' = downLinks /\ commands' = commands /\ buffer' = buffer
      /\ routingtable' = routingtable /\ neighbours' = neighbours /\ linktrack' = linktrack
      /\ linkCost' = linkCost /\ dropped' = dropped \cup lost /\ dead' = dead
      /\ routingupdate' = [routingupdate EXCEPT ![r] = number]
    BY DEF SendRoutingUpdates, driver
<1>2. inbox' = [i \in Router |-> IF i \in to \ dead /\ Passes(r, i) THEN Append(rest[i], u) ELSE rest[i]]
    BY DEF SendRoutingUpdates
<1>3. /\ routingupdate \in [Router -> Nat] /\ routingupdate' \in [Router -> Nat] /\ number \in Nat
      /\ routingupdate'[r] = number /\ number = routingupdate[r] + 1
      /\ \A q \in Router \ {r} : routingupdate'[q] = routingupdate[q]
    BY <1>1 DEF DvrInv, TypeOK
<1>4. to = Nbr(r)
    <2> SUFFICES ASSUME NEW i \in Nbr(r) PROVE neighbours[r][i] # INF
        OBVIOUS
    <2>1. neighbours[r][i] \in LinkCost({r, i}) /\ Topology[{r, i}] \in Nat /\ Topology[{r, i}] < INF
        BY NbrProps DEF DvrInv, Agreed
    <2>2. neighbours[r][i] \in -128..127 \/ neighbours[r][i] = Topology[{r, i}]
        BY <2>1 DEF LinkCost
    <2> QED BY <2>1, <2>2, BelowINF
<1>5. u.type = "Update" /\ u.from = r /\ u.number = number /\ u.lines \in Seq(Line)
    BY LinesTyped
<1> HIDE DEF u, number, to
<1>6. Taken(r, X)
    <2> SUFFICES ASSUME NEW i \in Router PROVE Extends(Rest(r, i), inbox'[i], X[i])
        BY <1>2 DEF Taken
    <2>1. rest[i] = Rest(r, i) /\ IsSequence(Rest(r, i))
        BY RestIs
    <2> HIDE DEF rest
    <2>2. CASE i \in to \ dead /\ Passes(r, i)
        BY <1>2, <2>1, <2>2, ExtendsAppend
    <2>3. CASE ~(i \in to \ dead /\ Passes(r, i))
        BY <1>2, <2>1, <2>3, ExtendsSelf
    <2> QED BY <2>2, <2>3
<1>7. \A i \in Router : \A x \in X[i] : x = u /\ i \in Nbr(r) /\ Passes(r, i)
    BY <1>4
<1>8. Sent'
    <2>1. \A q \in Router : routingupdate'[q] \in Nat /\ routingupdate[q] <= routingupdate'[q]
        BY <1>3, SMTT(30)
    <2>2. ASSUME NEW i \in Router, NEW x \in X[i] PROVE Proper(x, i, routingupdate')
        <3>1. x = u /\ r \in Nbr(i) /\ i \in Nbr(r)
            BY <1>7, NbrProps DEF DvrInv
        <3>2. number \in 1..routingupdate'[r]
            BY <1>3
        <3> QED BY <1>5, <3>1, <3>2 DEF Proper, CostMessage
    <2> QED BY <1>1, <1>6, <2>1, <2>2, SentKept
<1>9. Agreed'
    <2>1. \A i \in Router : \A x \in X[i] : x.type # "cost"
        BY <1>5, <1>7
    <2>2. ASSUME NEW i PROVE ~ForLink(Head(inbox[r]), r, i)
        BY DEF ForLink, Kind
    <2>3. \A q \in Router : \A i \in Nbr(q) :
             neighbours'[q][i] = IF q = r /\ ForLink(Head(inbox[r]), r, i)
                                 THEN SignedChar(Head(inbox[r]).value) ELSE neighbours[q][i]
        BY <1>1, <2>2
    <2> QED BY <1>1, <1>6, <2>1, <2>3, AgreedKept
<1>10. TypeOK'
    <2>1. ASSUME NEW q \in Router
          PROVE  RouterTyped(q, routingtable'[q], neighbours'[q], linktrack'[q], buffer'[q], routingupdate')
        <3>1. RouterTyped(q, routingtable[q], neighbours[q], linktrack[q], buffer[q], routingupdate)
            BY TypedIs
        <3>2. ASSUME NEW i \in Nbr(q) PROVE linktrack[q][i] \in -1..routingupdate'[i]
            <4>1. linktrack[q][i] \in -1..routingupdate[i] /\ i \in Router
                BY <3>1 DEF RouterTyped, Nbr
            <4>2. routingupdate[i] \in Nat /\ routingupdate'[i] \in Nat /\ routingupdate[i] <= routingupdate'[i]
                BY <1>3, <4>1, SMTT(30)
            <4> QED BY <4>1, <4>2
        <3> QED BY <1>1, <3>1, <3>2 DEF RouterTyped
    <2> QED BY <1>1, <1>3, <2>1, TypedNext DEF DvrInv, TypeOK
<1>11. ASSUME PlainText PROVE Clocked' /\ Tracked'
    <2>1. Clocked /\ Tracked /\ clk \in Int
        BY <1>11 DEF DvrInv, TypeOK
    <2>2. Clocked'
        <3>1. \A i \in Router : \A x \in X[i] : Kind(x) # "clk" /\ (x.type \in {"send", "frwd"} => x.msg # "clk")
            BY <1>5, <1>7 DEF Kind
        <3>2. \A q \in Router : routingupdate'[q] =
                IF q = r /\ Kind(Head(inbox[r])) = "clk" THEN routingupdate[q] + 1 ELSE routingupdate[q]
            BY <1>3
        <3> QED BY <1>1, <1>6, <2>1, <3>1, <3>2, ClockedKept
    <2>3. number = clk /\ routingupdate[r] = clk - 1
        <3>1. IsSequence(inbox[r]) /\ ClockedAt(inbox[r], Unclocked(r), routingupdate[r], clk)
            BY <2>1, ClockedIs DEF DvrInv, Sent
        <3>2. Ticks(inbox[r]) # {}
            BY <3>1, TicksTail DEF ClockedAt
        <3> QED BY <1>3, <2>1, <3>1, <3>2 DEF ClockedAt
    <2>4. ASSUME NEW e \in dropped' PROVE e[1] \in Router /\ e[3] \in 1..routingupdate'[e[1]]
        <3>1. CASE e \in dropped
            <4>1. e[1] \in Router /\ e[3] \in 1..routingupdate[e[1]]
                BY <2>1, <3>1 DEF Tracked
            <4>2. routingupdate[e[1]] \in Nat /\ routingupdate'[e[1]] \in Nat /\ routingupdate[e[1]] <= routingupdate'[e[1]]
                BY <1>3, <4>1
            <4> QED BY <4>1, <4>2
        <3>2. CASE e \in lost
            <4>1. e[1] = r /\ e[3] = number
                BY <3>2
            <4> QED BY <1>3, <4>1
        <3> QED BY <1>1, <3>1, <3>2
    <2>5. ASSUME NEW q, NEW i PROVE <<r, q, clk>> \notin dropped /\ (<<i, q, clk>> \in lost => i = r /\ q \in to /\ ~Passes(r, q))
        <3>1. ASSUME <<r, q, clk>> \in dropped PROVE FALSE
            <4>1. <<r, q, clk>>[3] \in 1..routingupdate[<<r, q, clk>>[1]]
                BY <2>1, <3>1 DEF Tracked
            <4> QED BY <1>3, <2>1, <2>3, <4>1
        <3> QED BY <3>1
    <2>6. ASSUME NEW q \in Router, NEW k \in 1..Len(inbox'[q])
          PROVE  UpdateAt(inbox'[q][k], q, routingupdate', dropped', clk')
        <3>1. CASE inbox'[q][k] \in X[q]
            <4>1. inbox'[q][k] = u /\ Passes(r, q)
                BY <1>7, <3>1
            <4>2. <<r, q, clk>> \notin dropped'
                BY <1>1, <2>5, <4>1
            <4> QED BY <1>1, <1>3, <1>5, <2>3, <4>1, <4>2 DEF UpdateAt
        <3>2. CASE inbox'[q][k] \notin X[q]
            <4>1. PICK j \in 1..Len(inbox[q]) : inbox'[q][k] = inbox[q][j]
                BY <1>6, <3>2, TakenMessages
            <4> DEFINE m == inbox[q][j]
            <4>2. UpdateAt(m, q, routingupdate, dropped, clk) /\ Proper(m, q, routingupdate)
                BY <2>1, TrackedIs, ProperIs
            <4> HIDE DEF m
            <4>3. ASSUME m.type = "Update" PROVE m.from \in Router \ {r} /\ <<m.from, q, clk>> \notin lost
                <5>1. m.from \in Router /\ routingupdate[m.from] = clk
                    BY <4>2, <4>3 DEF Proper, UpdateAt, Nbr
                <5> QED BY <2>1, <2>3, <2>5, <5>1
            <4>4. UpdateAt(m, q, routingupdate', dropped', clk')
                BY <1>1, <1>3, <4>2, <4>3 DEF UpdateAt
            <4> QED BY <4>1, <4>4 DEF m
        <3> QED BY <3>1, <3>2
    <2>7. ASSUME NEW q \in Router \ dead, NEW i \in Nbr(q)
          PROVE  TrackAt(inbox'[q], q, i, linktrack'[q], routingupdate'[i], dropped', clk')
        <3>1. TrackAt(inbox[q], q, i, linktrack[q], routingupdate[i], dropped, clk)
            BY <2>1, TrackedIs
        <3>2. Ups(inbox[q], i) # {} => Ups(inbox'[q], i) # {}
            <4>1. Head(inbox[r]).type # "Update"
                BY DEF Kind
            <4> QED BY <1>6, <4>1, UpsTaken
        <3>3. i \in Router /\ q \in Nbr(i) /\ linktrack[q][i] \in -1..routingupdate[i]
            BY NbrProps DEF DvrInv, TypeOK
        <3>4. CASE i # r
            <4>1. \A n : <<i, q, n>> \notin lost
                BY <3>4
            <4> QED BY <1>1, <1>3, <3>1, <3>2, <3>3, <3>4, <4>1 DEF TrackAt
        <3>5. CASE i = r
            <4>1. linktrack[q][i] <= clk - 1
                BY <1>3, <2>3, <3>3, <3>5
            <4>2. ASSUME linktrack[q][i] > 0 PROVE <<i, q, linktrack[q][i]>> \notin dropped'
                <5>1. <<i, q, linktrack[q][i]>> \notin dropped
                    BY <3>1, <4>2 DEF TrackAt
                <5>2. linktrack[q][i] # number
                    BY <2>1, <2>3, <3>3, <4>1
                <5> QED BY <1>1, <5>1, <5>2
            <4>3. ASSUME linktrack[q][i] # -1, NEW n \in linktrack[q][i] + 1 .. routingupdate'[i]
                  PROVE  <<i, q, n>> \in dropped' \/ (n = clk' /\ Ups(inbox'[q], i) # {})
                <5>1. CASE n <= clk - 1
                    <6>1. n \in linktrack[q][i] + 1 .. routingupdate[i]
                        BY <1>3, <2>1, <2>3, <3>3, <3>5, <5>1
                    <6> QED BY <1>1, <3>1, <3>2, <4>3, <6>1 DEF TrackAt
                <5>2. CASE n > clk - 1
                    <6>1. n = clk
                        BY <1>3, <2>1, <2>3, <3>3, <3>5, <5>2
                    <6>2. q \in to
                        BY <1>4, <3>3, <3>5
                    <6>3. CASE Passes(r, q)
                        <7>1. rest[q] = Rest(r, q) /\ IsSequence(Rest(r, q))
                            BY RestIs
                        <7>2. inbox'[q] = Append(Rest(r, q), u)
                            BY <1>2, <6>2, <6>3, <7>1
                        <7>3. Len(inbox'[q]) = Len(Rest(r, q)) + 1 /\ inbox'[q][Len(inbox'[q])] = u
                            BY <7>1, <7>2, ExtendsAppend
                        <7>4. Len(inbox'[q]) \in 1..Len(inbox'[q])
                            BY <7>1, <7>3, SeqProps
                        <7> QED BY <1>1, <1>5, <3>5, <6>1, <7>3, <7>4 DEF Ups
                    <6>4. CASE ~Passes(r, q)
                        BY <1>1, <2>3, <3>5, <6>1, <6>2, <6>4
                    <6> QED BY <6>3, <6>4
                <5> QED BY <2>1, <5>1, <5>2
            <4>4. linktrack[q][i] # -1 => \A j \in Nbr(q) : linktrack[q][j] <= linktrack[q][i] + 3
                BY <3>1 DEF TrackAt
            <4> QED BY <1>1, <4>2, <4>3, <4>4 DEF TrackAt
        <3> QED BY <3>4, <3>5
    <2>8. Tracked'
        BY <1>1, <2>4, <2>6, <2>7, TrackedNext
    <2> QED BY <2>2, <2>8
<1>12. PlainText' = PlainText
    BY <1>1, SameNet
<1> QED BY <1>1, <1>8, <1>9, <1>10, <1>11, <1>12 DEF DvrInv

-----------------------------------------------------------------------------
(* Messages that send no update.                                           *)

\* A router takes a message that is no clock.
LEMMA OtherMessage ==
    ASSUME DvrInv, net' = net, NEW r, NEW X, Taken(r, X),
           \A i \in Router : \A x \in X[i] : x.type = "frwd" /\ (PlainText => x.msg # "clk"),
           PlainText => Kind(Head(inbox[r])) # "clk",
           UNCHANGED <<driver, dropped, linkCost, routingupdate, dead>>,
           TypeOK',
           \A q \in Router : \A i \in Nbr(q) :
             neighbours'[q][i] = IF q = r /\ ForLink(Head(inbox[r]), r, i)
                                 THEN SignedChar(Head(inbox[r]).value) ELSE neighbours[q][i],
           PlainText => \A q \in Router : \A i \in Nbr(q) :
             \/ /\ linktrack'[q][i] = linktrack[q][i]
                /\ ~(q = r /\ Head(inbox[r]).type = "Update" /\ Head(inbox[r]).from = i)
             \/ /\ linktrack'[q][i] = clk
                /\ q = r /\ Head(inbox[r]).type = "Update" /\ Head(inbox[r]).from = i
             \/ linktrack'[q][i] = -1,
           PlainText => \A q \in Router \ dead : \A i, j \in Nbr(q) :
             linktrack'[q][i] # -1 => linktrack'[q][j] <= linktrack'[q][i] + 3
    PROVE  DvrInv'
<1>1. /\ clk' = clk /\ timerOut' = timerOut /\ mainOut' = mainOut /\ linkCost' = linkCost
      /\ routingupdate' = routingupdate /\ dropped' = dropped /\ dead' = dead
    BY DEF driver
<1>2. Sent'
    <2>1. \A q \in Router : routingupdate'[q] \in Nat /\ routingupdate[q] <= routingupdate'[q]
        BY <1>1 DEF DvrInv, TypeOK
    <2>2. ASSUME NEW i \in Router, NEW x \in X[i] PROVE Proper(x, i, routingupdate')
        <3>1. x.type = "frwd"
            OBVIOUS
        <3> QED BY <3>1 DEF Proper, CostMessage
    <2> QED BY <1>1, <2>1, <2>2, SentKept
<1>3. Agreed'
    <2>1. \A i \in Router : \A x \in X[i] : x.type # "cost"
        OBVIOUS
    <2> QED BY <1>1, <2>1, AgreedKept
<1>4. ASSUME PlainText PROVE Clocked' /\ Tracked'
    <2>1. Clocked /\ Tracked
        BY <1>4 DEF DvrInv
    <2>2. Clocked'
        <3>1. \A i \in Router : \A x \in X[i] : Kind(x) # "clk" /\ (x.type \in {"send", "frwd"} => x.msg # "clk")
            BY <1>4 DEF Kind
        <3>2. \A q \in Router : routingupdate'[q] =
                IF q = r /\ Kind(Head(inbox[r])) = "clk" THEN routingupdate[q] + 1 ELSE routingupdate[q]
            BY <1>1, <1>4
        <3> QED BY <1>1, <2>1, <3>1, <3>2, ClockedKept
    <2>3. Tracked'
        <3>1. \A i \in Router : \A x \in X[i] : x.type # "Update"
            OBVIOUS
        <3> QED BY <1>1, <1>4, <2>1, <3>1, TrackedKept
    <2> QED BY <2>2, <2>3
<1>5. PlainText' = PlainText
    BY SameNet
<1> QED BY <1>2, <1>3, <1>4, <1>5 DEF DvrInv

\* ... that leaves links and counters as they are.
LEMMA QuietMessage ==
    ASSUME DvrInv, net' = net, NEW r, NEW X, Taken(r, X),
           \A i \in Router : \A x \in X[i] : x.type = "frwd" /\ (PlainText => x.msg # "clk"),
           Kind(Head(inbox[r])) \in {"show", "cost", "send", "frwd"},
           UNCHANGED <<driver, dropped, linkCost, routingupdate, linktrack, dead>>,
           TypeOK',
           \A q \in Router : \A i \in Nbr(q) :
             neighbours'[q][i] = IF q = r /\ ForLink(Head(inbox[r]), r, i)
                                 THEN SignedChar(Head(inbox[r]).value) ELSE neighbours[q][i]
    PROVE  DvrInv'
<1>1. Kind(Head(inbox[r])) # "clk" /\ Head(inbox[r]).type # "Update"
    BY DEF Kind
<1>2. linktrack' = linktrack
    OBVIOUS
<1>3. ASSUME PlainText, NEW q \in Router \ dead, NEW i \in Nbr(q), NEW j \in Nbr(q), linktrack'[q][i] # -1
      PROVE  linktrack'[q][j] <= linktrack'[q][i] + 3
    BY <1>2, <1>3 DEF DvrInv, Tracked, Alive
<1> QED BY <1>1, <1>2, <1>3, OtherMessage

LEMMA TypesStay ==
    ASSUME DvrInv, UNCHANGED <<net, router, driver>>
    PROVE  TypeOK'
<1>1. ASSUME NEW q \in Router
      PROVE  RouterTyped(q, routingtable'[q], neighbours'[q], linktrack'[q], buffer'[q], routingupdate')
    BY TypedIs DEF router
<1> QED BY <1>1, TypedNext DEF DvrInv, TypeOK, router, driver

\* A router only takes a message, or forwards a packet.
LEMMA TakenNothing ==
    ASSUME DvrInv, NEW r \in Router, r \notin dead, inbox[r] # << >>, inbox' = [inbox EXCEPT ![r] = Tail(@)]
    PROVE  Taken(r, [i \in Router |-> {}])
<1>1. ASSUME NEW i \in Router PROVE Extends(Rest(r, i), inbox'[i], {})
    BY RestIs, ExtendsSelf, ZenonT(30)
<1> QED BY <1>1, RestIs DEF Taken

LEMMA TakenForward ==
    ASSUME DvrInv, NEW r \in Router, r \notin dead, inbox[r] # << >>, NEW p,
           Forward(r, p, [inbox EXCEPT ![r] = Tail(@)])
    PROVE  Taken(r, [i \in Router |-> {p}])
<1> DEFINE rest == [inbox EXCEPT ![r] = Tail(@)]
<1>1. inbox' = rest \/ \E h : inbox' = [rest EXCEPT ![h] = Append(@, p)]
    BY DEF Forward
<1>2. \A i \in Router : rest[i] = Rest(r, i) /\ IsSequence(Rest(r, i))
    BY RestIs
<1>3. DOMAIN rest = Router
    BY RestIs
<1> HIDE DEF rest
<1>4. ASSUME NEW i \in Router PROVE Extends(Rest(r, i), inbox'[i], {p})
    <2> DEFINE s == Rest(r, i)
    <2>1. inbox'[i] = s \/ inbox'[i] = Append(s, p)
        BY <1>1, <1>2, <1>3
    <2>2. IsSequence(s) /\ p \in {p}
        BY <1>2
    <2> HIDE DEF s
    <2>3. Extends(s, s, {p}) /\ Extends(s, Append(s, p), {p})
        BY <2>2, ExtendsSelf, ExtendsAppend
    <2>4. Extends(s, inbox'[i], {p})
        BY <2>1, <2>3
    <2> QED BY <2>4 DEF s
<1> QED BY <1>1, <1>3, <1>4 DEF Taken

LEMMA ShowStep ==
    ASSUME DvrInv, NEW r \in Router, r \notin dead, inbox[r] # << >>, Kind(Head(inbox[r])) = "show",
           inbox' = [inbox EXCEPT ![r] = Tail(@)], UNCHANGED <<router, history>>,
           UNCHANGED <<net, driver>>
    PROVE  DvrInv'
<1> DEFINE X == [i \in Router |-> {}]
<1>1. Taken(r, X) /\ \A i \in Router : X[i] = {}
    BY TakenNothing
<1>2. TypeOK'
    BY TypesStay
<1>3. ~ForLink(Head(inbox[r]), r, r) /\ \A i : ~ForLink(Head(inbox[r]), r, i)
    BY DEF ForLink, Kind
<1> HIDE DEF X
<1> QED BY <1>1, <1>2, <1>3, QuietMessage DEF router, history

\* send and frwd.
LEMMA PacketStep ==
    ASSUME DvrInv, NEW r \in Router, r \notin dead, inbox[r] # << >>,
           \/ Kind(Head(inbox[r])) = "send" /\ Send(r, Head(inbox[r]), [inbox EXCEPT ![r] = Tail(@)])
           \/ Kind(Head(inbox[r])) = "frwd" /\ Frwd(r, Head(inbox[r]), [inbox EXCEPT ![r] = Tail(@)]),
           ~Die(r),
           UNCHANGED <<net, driver>>
    PROVE  DvrInv'
<1> DEFINE m == Head(inbox[r])
           p == [type |-> "frwd", dest |-> m.ip2, len |-> SignedChar(m.len), msg |-> m.msg]
           rest == [inbox EXCEPT ![r] = Tail(@)]
<1>1. UNCHANGED <<router, dropped, linkCost>>
    BY DEF Send, Frwd
<1>2. TypeOK'
    BY <1>1, TypesStay
<1>3. Kind(m) \in {"show", "cost", "send", "frwd"} /\ \A i : ~ForLink(m, r, i)
    BY DEF Kind, ForLink
<1>4. m.type \in {"send", "frwd"} /\ (PlainText => m.msg # "clk")
    <2>1. IsSequence(inbox[r])
        BY DEF DvrInv, Sent
    <2>2. m = inbox[r][1] /\ 1 \in 1..Len(inbox[r])
        BY <2>1, Shortened
    <2>3. m.type \in {"send", "frwd"}
        BY DEF Kind
    <2> QED BY <2>2, <2>3 DEF DvrInv, Clocked, Alive
<1>5. inbox' = rest \/ \E q : Forward(r, q, rest) /\ q.type = "frwd" /\ (PlainText => q.msg # "clk")
    <2>1. CASE Kind(m) = "send" /\ Send(r, m, rest)
        <3>1. inbox' = rest \/ Forward(r, p, rest)
            BY <2>1 DEF Send
        <3> QED BY <1>4, <3>1
    <2>2. CASE Kind(m) = "frwd" /\ Frwd(r, m, rest)
        <3>1. inbox' = rest \/ Forward(r, m, rest)
            BY <2>2 DEF Frwd
        <3>2. m.type = "frwd"
            BY <1>4, <2>2 DEF Kind
        <3> QED BY <1>4, <3>1, <3>2
    <2> QED BY <2>1, <2>2
<1>6. CASE inbox' = rest
    <2> DEFINE X == [i \in Router |-> {}]
    <2>1. Taken(r, X) /\ \A i \in Router : X[i] = {}
        BY <1>6, TakenNothing
    <2> HIDE DEF X
    <2> QED BY <1>1, <1>2, <1>3, <2>1, QuietMessage DEF router
<1>7. ASSUME NEW q, Forward(r, q, rest), q.type = "frwd", PlainText => q.msg # "clk" PROVE DvrInv'
    <2> DEFINE X == [i \in Router |-> {q}]
    <2>1. Taken(r, X) /\ \A i \in Router : X[i] = {q}
        BY <1>7, TakenForward
    <2> HIDE DEF X
    <2>2. \A i \in Router : \A x \in X[i] : x.type = "frwd" /\ (PlainText => x.msg # "clk")
        BY <1>7, <2>1
    <2> QED BY <1>1, <1>2, <1>3, <2>1, <2>2, QuietMessage DEF router
<1> QED BY <1>5, <1>6, <1>7

-----------------------------------------------------------------------------
(* A cost command.                                                         *)

LEMMA EntryIs ==
    ASSUME NEW r, NEW d, NEW e \in Entry(r, d)
    PROVE  /\ e = [nexthop |-> e.nexthop, cost |-> e.cost] /\ e.cost \in Int
           /\ e.nexthop \in Nbr(r) => \A c \in Int : [e EXCEPT !.cost = c] \in Entry(r, d)
           /\ e.nexthop = Undefined => e \in [nexthop : Nbr(r), cost : Int] \/ (d \notin Nbr(r) /\ e.cost = INF)
<1>1. INF \in Int
    BY INFAssumption
<1>2. CASE e \in [nexthop : Nbr(r), cost : Int]
    BY <1>2 DEF Entry
<1>3. CASE e = [nexthop |-> Undefined, cost |-> INF] /\ d \notin Nbr(r)
    BY <1>1, <1>3 DEF Entry
<1> QED BY <1>2, <1>3 DEF Entry

LEMMA EntryMade ==
    ASSUME NEW r, NEW d, NEW h \in Nbr(r), NEW c \in Int
    PROVE  [nexthop |-> h, cost |-> c] \in Entry(r, d)
BY DEF Entry

LEMMA CostStep ==
    ASSUME DvrInv, NEW r \in Router, r \notin dead, inbox[r] # << >>, Kind(Head(inbox[r])) = "cost",
           inbox' = [inbox EXCEPT ![r] = Tail(@)], UpdateCost(r, Head(inbox[r])),
           UNCHANGED <<net, driver>>
    PROVE  DvrInv'
<1> DEFINE m == Head(inbox[r])
           ip == IF r = m.ip1 THEN m.ip2 ELSE m.ip1
           val == SignedChar(m.value)
           X == [i \in Router |-> {}]
<1>1. /\ net' = net /\ clk' = clk /\ commands' = commands /\ downLinks' = downLinks
      /\ routingtable' = [routingtable EXCEPT ![r] = [d \in Router \ {r} |-> Recosted(r, ip, val, d)]]
      /\ neighbours' = [neighbours EXCEPT ![r][ip] = val]
      /\ UNCHANGED <<linktrack, routingupdate, buffer, dead, history>>
    BY DEF UpdateCost, driver
<1>2. Taken(r, X) /\ \A i \in Router : X[i] = {}
    BY TakenNothing
<1>3. m.type = "cost" /\ CostMessage(m, r)
    <2>1. IsSequence(inbox[r])
        BY DEF DvrInv, Sent
    <2>2. m = inbox[r][1] /\ 1 \in 1..Len(inbox[r])
        BY <2>1, Shortened
    <2>3. CostMessage(m, r)
        BY <2>2 DEF DvrInv, Sent
    <2> QED BY <2>3 DEF Kind
<1> HIDE DEF X
<1>4. {m.ip1, m.ip2} \in DOMAIN Topology /\ r \in {m.ip1, m.ip2} /\ m.value \in Int
    BY <1>3 DEF CostMessage
<1>5. ip \in Nbr(r) /\ \A i : (ForLink(m, r, i) <=> i = ip)
    <2>1. m.ip1 \in Nbr(m.ip2) /\ m.ip2 \in Nbr(m.ip1) /\ m.ip1 # m.ip2
        BY <1>4, LinkEnds DEF DvrInv
    <2>2. \A i : ForLink(m, r, i) <=> {m.ip1, m.ip2} = {r, i}
        BY <1>3 DEF ForLink
    <2> HIDE DEF m
    <2>3. CASE r = m.ip1
        <3>1. ip = m.ip2
            BY <2>3
        <3> QED BY <2>1, <2>2, <2>3, <3>1
    <2>4. CASE r # m.ip1
        <3>1. ip = m.ip1 /\ r = m.ip2
            BY <1>4, <2>4
        <3> QED BY <2>1, <2>2, <3>1
    <2> QED BY <2>3, <2>4
<1>6. val \in Int
    <2>1. val \in -128..127
        BY <1>4, ByteRange
    <2> HIDE DEF val
    <2> QED BY <2>1
<1>7. RouterTyped(r, routingtable[r], neighbours[r], linktrack[r], buffer[r], routingupdate)
    BY TypedIs
<1> HIDE DEF m, ip, val
<1>8. ASSUME NEW d \in Router \ {r} PROVE Recosted(r, ip, val, d) \in Entry(r, d)
    <2> DEFINE e == routingtable[r][d]
               shifted == IF e.nexthop = ip THEN [e EXCEPT !.cost = val + e.cost - neighbours[r][ip]] ELSE e
    <2>1. e \in Entry(r, d) /\ \A i \in Nbr(r) : neighbours[r][i] \in Int
        BY <1>7 DEF RouterTyped
    <2>2. shifted \in Entry(r, d)
        <3>1. CASE e.nexthop = ip
            <4>1. e.cost \in Int /\ neighbours[r][ip] \in Int
                BY <1>5, <2>1, EntryIs
            <4>2. val + e.cost - neighbours[r][ip] \in Int
                BY <1>6, <4>1
            <4> HIDE DEF e
            <4>3. [e EXCEPT !.cost = val + e.cost - neighbours[r][ip]] \in Entry(r, d)
                BY <1>5, <2>1, <3>1, <4>2, EntryIs
            <4> QED BY <3>1, <4>3
        <3>2. CASE e.nexthop # ip
            BY <2>1, <3>2
        <3> QED BY <3>1, <3>2
    <2>3. Recosted(r, ip, val, d) = CASE d = ip -> [nexthop |-> ip, cost |-> val]
                                      [] d # ip /\ d \in Nbr(r) /\ neighbours[r][d] < shifted.cost ->
                                           [nexthop |-> d, cost |-> neighbours[r][d]]
                                      [] OTHER -> shifted
        BY DEF Recosted
    <2> HIDE DEF shifted
    <2>4. [nexthop |-> ip, cost |-> val] \in Entry(r, d)
        BY <1>5, <1>6, EntryMade
    <2>5. d \in Nbr(r) => [nexthop |-> d, cost |-> neighbours[r][d]] \in Entry(r, d)
        BY <2>1, EntryMade
    <2> QED BY <2>2, <2>3, <2>4, <2>5
<1>9. neighbours'[r] \in [Nbr(r) -> Int] /\ neighbours'[r] = [neighbours[r] EXCEPT ![ip] = val]
    <2>1. neighbours[r] \in [Nbr(r) -> Int] /\ DOMAIN neighbours = Router
        BY <1>7 DEF RouterTyped, DvrInv, TypeOK
    <2>2. neighbours'[r] = [neighbours[r] EXCEPT ![ip] = val]
        BY <1>1, <2>1
    <2> QED BY <1>6, <2>1, <2>2
<1>10. TypeOK'
    <2>1. ASSUME NEW q \in Router
          PROVE  RouterTyped(q, routingtable'[q], neighbours'[q], linktrack'[q], buffer'[q], routingupdate')
        <3>1. CASE q = r
            <4>1. routingtable'[r] = [d \in Router \ {r} |-> Recosted(r, ip, val, d)]
                BY <1>1 DEF DvrInv, TypeOK
            <4> QED BY <1>1, <1>7, <1>8, <1>9, <3>1, <4>1 DEF RouterTyped
        <3>2. CASE q # r
            <4>1. routingtable'[q] = routingtable[q] /\ neighbours'[q] = neighbours[q]
                BY <1>1, <3>2 DEF DvrInv, TypeOK
            <4> QED BY <1>1, <4>1, TypedIs
        <3> QED BY <3>1, <3>2
    <2>2. DOMAIN routingtable' = Router /\ DOMAIN neighbours' = Router
        BY <1>1 DEF DvrInv, TypeOK
    <2> QED BY <1>1, <2>1, <2>2, TypedNext DEF DvrInv, TypeOK
<1>11. ASSUME NEW q \in Router, NEW i \in Nbr(q)
       PROVE  neighbours'[q][i] = IF q = r /\ ForLink(Head(inbox[r]), r, i)
                                  THEN SignedChar(Head(inbox[r]).value) ELSE neighbours[q][i]
    <2>1. CASE q = r
        <3>1. neighbours[r] \in [Nbr(r) -> Int]
            BY <1>7 DEF RouterTyped
        <3>2. neighbours'[r][i] = IF i = ip THEN val ELSE neighbours[r][i]
            BY <1>9, <2>1, <3>1
        <3> QED BY <1>5, <2>1, <3>2 DEF m, val
    <2>2. CASE q # r
        BY <1>1, <2>2 DEF DvrInv, TypeOK
    <2> QED BY <2>1, <2>2
<1>12. \A i \in Router : \A x \in X[i] : x.type = "frwd" /\ (PlainText => x.msg # "clk")
    BY <1>2
<1> QED BY <1>1, <1>2, <1>10, <1>11, <1>12, QuietMessage DEF history

-----------------------------------------------------------------------------
(* What an update does to a table.                                         *)

TableTyped(r, t) == DOMAIN t = Router \ {r} /\ \A d \in Router \ {r} : t[d] \in Entry(r, d)

LEMMA TableSet ==
    ASSUME NEW r, NEW t, TableTyped(r, t), NEW d \in Router \ {r}, NEW e \in Entry(r, d)
    PROVE  TableTyped(r, [t EXCEPT ![d] = e])
BY DEF TableTyped

LEMMA CostSet ==
    ASSUME NEW r, NEW t, TableTyped(r, t), NEW d \in Router \ {r}, t[d].nexthop \in Nbr(r), NEW c \in Int
    PROVE  TableTyped(r, [t EXCEPT ![d].cost = c])
<1> DEFINE e == t[d]
<1>1. [t EXCEPT ![d].cost = c] = [t EXCEPT ![d] = [e EXCEPT !.cost = c]]
    BY DEF TableTyped
<1>2. e \in Entry(r, d) /\ e.nexthop \in Nbr(r)
    BY DEF TableTyped
<1> HIDE DEF e
<1>3. [e EXCEPT !.cost = c] \in Entry(r, d)
    BY <1>2, EntryIs
<1> QED BY <1>1, <1>3, TableSet

\* The route to a neighbour always has a next hop.
LEMMA RouteToSender ==
    ASSUME NEW r, NEW t, TableTyped(r, t), NEW from \in Nbr(r)
    PROVE  from \in Router \ {r} /\ t[from].nexthop \in Nbr(r) /\ t[from].cost \in Int
<1>1. from \in Router \ {r}
    BY DEF Nbr
<1>2. t[from] \in [nexthop : Nbr(r), cost : Int]
    BY <1>1 DEF TableTyped, Entry
<1> QED BY <1>1, <1>2

LEMMA LineTyped ==
    ASSUME NEW r, NEW t, TableTyped(r, t), NEW from \in Nbr(r), neighbours[r] \in [Nbr(r) -> Int],
           NEW line \in Line
    PROVE  TableTyped(r, ApplyLine(r, from, t, line))
<1> SUFFICES ASSUME line.dest \in DOMAIN t
             PROVE  TableTyped(r, DirectToSender(r, from, BellmanFord(r, from, ViaSender(r, from, t, line), line)))
    BY DEF ApplyLine
<1> DEFINE t1 == ViaSender(r, from, t, line)
           t2 == BellmanFord(r, from, t1, line)
<1>1. line.dest \in Router \ {r} /\ line.cost \in Int /\ neighbours[r][from] \in Int
    BY DEF TableTyped, Line
<1>2. TableTyped(r, t1)
    <2>1. neighbours[r][from] + line.cost \in Int
        BY <1>1
    <2> QED BY <1>1, <2>1, CostSet DEF ViaSender
<1> HIDE DEF t1
<1>3. TableTyped(r, t2)
    <2>1. t1[from].nexthop \in Nbr(r) /\ t1[from].cost + line.cost \in Int
        BY <1>1, <1>2, RouteToSender
    <2>2. [nexthop |-> t1[from].nexthop, cost |-> t1[from].cost + line.cost] \in Entry(r, line.dest)
        BY <2>1, EntryMade
    <2> QED BY <1>1, <1>2, <2>2, TableSet DEF BellmanFord
<1> HIDE DEF t2
<1>4. TableTyped(r, DirectToSender(r, from, t2))
    <2>1. from \in Router \ {r}
        BY DEF Nbr
    <2>2. [nexthop |-> from, cost |-> neighbours[r][from]] \in Entry(r, from)
        BY <1>1, EntryMade
    <2> QED BY <1>3, <2>1, <2>2, TableSet DEF DirectToSender
<1> QED BY <1>4 DEF t1, t2

\* Every non-empty set of natural numbers has a least element.
LEMMA LeastNumber ==
    ASSUME NEW S, S \subseteq Nat, S # {}
    PROVE  \E m \in S : \A n \in S : m <= n
<1>1. PICK m \in S : \A n \in S : ~(<<n, m>> \in OpToRel(<, Nat))
    BY WFMin, NatLessThanWellFounded
<1>2. ASSUME NEW n \in S PROVE m <= n
    <2>1. n \in Nat /\ m \in Nat /\ ~(n < m)
        BY <1>1 DEF OpToRel
    <2> QED BY <2>1
<1> QED BY <1>2

\* g holds the tables after 0, 1, ..., n lines of the buffer.
Applied(r, from, table, buf, n, g) ==
    g = [k \in 0..n |-> IF k = 0 THEN table ELSE ApplyLine(r, from, g[k - 1], buf[k].line)]

LEMMA AppliedExists ==
    ASSUME NEW r, NEW from, NEW table, NEW buf, NEW n \in Nat
    PROVE  \E g : Applied(r, from, table, buf, n, g)
<1> DEFINE S == {k \in Nat : \A g : ~Applied(r, from, table, buf, k, g)}
<1> SUFFICES ASSUME S # {} PROVE FALSE
    OBVIOUS
<1>1. PICK m \in S : \A k \in S : m <= k
    <2>1. S \subseteq Nat
        OBVIOUS
    <2> HIDE DEF S
    <2> QED BY <2>1, LeastNumber
<1>2. m \in Nat /\ \A g : ~Applied(r, from, table, buf, m, g)
    OBVIOUS
<1>3. m # 0
    <2>1. Applied(r, from, table, buf, 0, [k \in 0..0 |-> table])
        BY DEF Applied
    <2> QED BY <1>2, <2>1
<1>4. m - 1 \in Nat /\ m - 1 \notin S
    BY <1>1, <1>2, <1>3
<1>5. PICK h : Applied(r, from, table, buf, m - 1, h)
    BY <1>4
<1> DEFINE step(t, k) == ApplyLine(r, from, t, buf[k].line)
           g == [k \in 0..m |-> IF k = 0 THEN table ELSE step(h[k - 1], k)]
<1>6. \A k \in 0..m - 1 : h[k] = IF k = 0 THEN table ELSE step(h[k - 1], k)
    BY <1>4, <1>5 DEF Applied
<1> HIDE DEF step
<1>7. \A k \in 0..m - 1 : g[k] = h[k]
    BY <1>2, <1>6
<1>8. \A k \in 0..m : k # 0 => k - 1 \in 0..m - 1
    BY <1>2
<1>9. g = [k \in 0..m |-> IF k = 0 THEN table ELSE step(g[k - 1], k)]
    BY <1>7, <1>8
<1>10. Applied(r, from, table, buf, m, g)
    BY <1>9 DEF Applied, step
<1> QED BY <1>2, <1>10

LEMMA LinesTypedToo ==
    ASSUME NEW r, NEW table, TableTyped(r, table), NEW from \in Nbr(r),
           neighbours[r] \in [Nbr(r) -> Int],
           NEW buf, IsSequence(buf), \A k \in 1..Len(buf) : buf[k].line \in Line
    PROVE  TableTyped(r, ApplyLines(r, from, table, buf))
<1> DEFINE n == Len(buf)
           g == CHOOSE f : Applied(r, from, table, buf, n, f)
<1>1. n \in Nat
    BY SeqProps
<1>2. ApplyLines(r, from, table, buf) = g[n]
    BY DEF ApplyLines, Applied
<1>3. Applied(r, from, table, buf, n, g)
    BY <1>1, AppliedExists
<1> HIDE DEF g
<1>4. \A k \in 0..n : g[k] = IF k = 0 THEN table ELSE ApplyLine(r, from, g[k - 1], buf[k].line)
    BY <1>3 DEF Applied
<1> DEFINE S == {k \in 0..n : ~TableTyped(r, g[k])}
<1>5. S = {}
    <2> SUFFICES ASSUME S # {} PROVE FALSE
        OBVIOUS
    <2>1. PICK m \in S : \A k \in S : m <= k
        <3>1. S \subseteq Nat
            BY <1>1
        <3> HIDE DEF S
        <3> QED BY <3>1, LeastNumber
    <2>2. m # 0
        BY <1>1, <1>4
    <2>3. m - 1 \in 0..n /\ m - 1 \notin S /\ m \in 1..n
        BY <1>1, <2>1, <2>2
    <2>4. TableTyped(r, g[m - 1]) /\ g[m] = ApplyLine(r, from, g[m - 1], buf[m].line)
        BY <1>4, <2>2, <2>3
    <2>5. TableTyped(r, g[m])
        BY <2>3, <2>4, LineTyped
    <2> QED BY <2>5
<1>6. n \in 0..n
    BY <1>1
<1> QED BY <1>2, <1>5, <1>6

-----------------------------------------------------------------------------
(* The receive buffer.                                                     *)

AllLines(b) == IsSequence(b) /\ \A k \in 1..Len(b) : b[k].line \in Line

LEMMA PlacedTyped ==
    ASSUME NEW number, NEW lines \in Seq(Line)
    PROVE  AllLines(Placed(number, lines))
<1> DEFINE n == Len(lines)
           at(k) == FoldLeft(LAMBDA a, l : a + LineLength(l), HeaderLength(number), SubSeq(lines, 1, k - 1))
           p == [k \in 1..n |-> [at |-> at(k), line |-> lines[k]]]
           A == {[at |-> at(k), line |-> lines[k]] : k \in 1..n}
<1>1. Placed(number, lines) = p
    BY DEF Placed
<1>2. n \in Nat /\ \A k \in 1..n : lines[k] \in Line
    BY LenProperties, ElementOfSeq
<1> HIDE DEF at, n
<1>3. p \in Seq(A) /\ Len(p) = n
    BY <1>2
<1>4. IsSequence(p)
    BY <1>3, SeqIs
<1>5. \A k \in 1..Len(p) : p[k].line \in Line
    BY <1>2, <1>3
<1> QED BY <1>1, <1>4, <1>5 DEF AllLines

LEMMA JoinedTyped ==
    ASSUME NEW b, AllLines(b), NEW c, AllLines(c)
    PROVE  AllLines(b \o c)
<1> DEFINE B == {b[k] : k \in DOMAIN b}
           C == {c[k] : k \in DOMAIN c}
           S == B \cup C
<1>1. b \in Seq(B) /\ c \in Seq(C) /\ DOMAIN b = 1..Len(b) /\ DOMAIN c = 1..Len(c)
    BY SeqProps DEF AllLines, IsSequence
<1>2. \A x \in S : x.line \in Line
    BY <1>1 DEF AllLines
<1> HIDE DEF B, C
<1>3. b \in Seq(S) /\ c \in Seq(S)
    BY <1>1
<1> HIDE DEF S
<1>4. b \o c \in Seq(S)
    BY <1>3, ConcatProperties
<1>5. \A k \in 1..Len(b \o c) : (b \o c)[k] \in S
    BY <1>4, ElementOfSeq
<1> QED BY <1>2, <1>4, <1>5, SeqIs DEF AllLines

LEMMA BehindTyped ==
    ASSUME NEW b, AllLines(b), NEW over \in 0..Len(b)
    PROVE  AllLines(SubSeq(b, over + 1, Len(b)))
<1> DEFINE S == {b[k] : k \in DOMAIN b}
           t == SubSeq(b, over + 1, Len(b))
<1>1. b \in Seq(S) /\ DOMAIN b = 1..Len(b) /\ Len(b) \in Nat
    BY SeqProps DEF AllLines, IsSequence
<1>2. \A x \in S : x.line \in Line
    BY <1>1 DEF AllLines
<1> HIDE DEF S
<1>3. over + 1 \in 1..Len(b) + 1 /\ Len(b) \in (over + 1) - 1 .. Len(b)
    BY <1>1
<1>4. t \in Seq(S)
    BY <1>1, <1>3, SubSeqProperties
<1> HIDE DEF t
<1>5. \A k \in 1..Len(t) : t[k] \in S
    BY <1>4, ElementOfSeq
<1>6. AllLines(t)
    BY <1>2, <1>4, <1>5, SeqIs DEF AllLines
<1> QED BY <1>6 DEF t

LEMMA ReceivedTyped ==
    ASSUME NEW b, AllLines(b), NEW number, NEW lines \in Seq(Line)
    PROVE  AllLines(Received(b, number, lines))
<1> DEFINE end == FoldLeft(LAMBDA a, l : a + LineLength(l), HeaderLength(number), lines)
           K == {k \in 1..Len(b) : b[k].at < end}
           over == Cardinality(K)
<1>1. Received(b, number, lines) = Placed(number, lines) \o SubSeq(b, over + 1, Len(b))
    BY DEF Received
<1> HIDE DEF end
<1>2. over \in 0..Len(b)
    <2>1. Len(b) \in Nat
        BY SeqProps DEF AllLines
    <2>2. IsFiniteSet(1..Len(b)) /\ Cardinality(1..Len(b)) = Len(b)
        <3>1. Len(b) \in Int /\ 1 \in Int
            BY <2>1
        <3>2. /\ IsFiniteSet(1..Len(b))
              /\ Cardinality(1..Len(b)) = IF 1 > Len(b) THEN 0 ELSE Len(b) - 1 + 1
            BY <3>1, FS_Interval
        <3> QED BY <2>1, <3>2
    <2>3. K \in SUBSET (1..Len(b))
        OBVIOUS
    <2> HIDE DEF K
    <2>4. IsFiniteSet(K) /\ Cardinality(K) <= Len(b)
        BY <2>2, <2>3, FS_Subset
    <2>5. Cardinality(K) \in Nat
        BY <2>4, FS_CardinalityType
    <2> QED BY <2>1, <2>4, <2>5
<1> HIDE DEF over
<1> QED BY <1>1, <1>2, PlacedTyped, BehindTyped, JoinedTyped

-----------------------------------------------------------------------------
(* An update.                                                              *)

\* The header: which links are up afterwards.
LEMMA HeaderTyped ==
    ASSUME DvrInv, NEW r \in Router, NEW from \in Nbr(r), NEW number
    PROVE  LET F == Overdue(Heard(r, from, number).track, number)
               h == FailLinks(Heard(r, from, number), number)
           IN  /\ TableTyped(r, h.table) /\ DOMAIN h.track = Nbr(r)
               /\ \A i \in Nbr(r) :
                    /\ h.track[i] = IF i \in F THEN -1 ELSE IF i = from THEN number ELSE linktrack[r][i]
                    /\ i \in F <=> LET t == IF i = from THEN number ELSE linktrack[r][i]
                                   IN  t # -1 /\ t + 3 < number
<1> DEFINE h0 == Heard(r, from, number)
           F == Overdue(h0.track, number)
           h == FailLinks(h0, number)
<1>1. RouterTyped(r, routingtable[r], neighbours[r], linktrack[r], buffer[r], routingupdate)
    BY TypedIs
<1>2. TableTyped(r, h0.table)
    <2>1. from \in Router \ {r} /\ neighbours[r][from] \in Int
        BY <1>1 DEF Nbr, RouterTyped
    <2>2. TableTyped(r, routingtable[r])
        BY <1>1 DEF RouterTyped, TableTyped
    <2>3. [nexthop |-> from, cost |-> neighbours[r][from]] \in Entry(r, from)
        BY <2>1, EntryMade
    <2>4. TableTyped(r, [routingtable[r] EXCEPT ![from] = [nexthop |-> from, cost |-> neighbours[r][from]]])
        BY <2>1, <2>2, <2>3, TableSet
    <2> QED BY <2>2, <2>4 DEF Heard
<1>3. h0.track = [linktrack[r] EXCEPT ![from] = number]
    BY DEF Heard
<1>4. DOMAIN h0.track = Nbr(r) /\ \A i \in Nbr(r) : h0.track[i] = IF i = from THEN number ELSE linktrack[r][i]
    BY <1>1, <1>3 DEF RouterTyped
<1> HIDE DEF h0
<1>5. F = {i \in Nbr(r) : h0.track[i] # -1 /\ h0.track[i] + 3 < number}
    BY <1>4 DEF Overdue
<1>6. /\ h.table = [d \in DOMAIN h0.table |->
                      IF d \in F THEN [nexthop |-> d, cost |-> INF]
                      ELSE IF h0.table[d].nexthop \in F THEN [h0.table[d] EXCEPT !.cost = INF]
                      ELSE h0.table[d]]
      /\ h.track = [i \in DOMAIN h0.track |-> IF i \in F THEN -1 ELSE h0.track[i]]
    BY DEF FailLinks
<1>7. F \subseteq Nbr(r)
    BY <1>5
<1> HIDE DEF h, F
<1>8. TableTyped(r, h.table)
    <2> SUFFICES ASSUME NEW d \in Router \ {r} PROVE h.table[d] \in Entry(r, d)
        BY <1>2, <1>6 DEF TableTyped
    <2> DEFINE e == h0.table[d]
    <2>1. e \in Entry(r, d) /\ INF \in Int
        BY <1>2, INFAssumption DEF TableTyped
    <2>2. h.table[d] = IF d \in F THEN [nexthop |-> d, cost |-> INF]
                       ELSE IF e.nexthop \in F THEN [e EXCEPT !.cost = INF] ELSE e
        BY <1>2, <1>6 DEF TableTyped
    <2> HIDE DEF e
    <2>3. d \in F => [nexthop |-> d, cost |-> INF] \in Entry(r, d)
        BY <1>7, <2>1, EntryMade
    <2>4. e.nexthop \in F => [e EXCEPT !.cost = INF] \in Entry(r, d)
        BY <1>7, <2>1, EntryIs
    <2> QED BY <2>1, <2>2, <2>3, <2>4
<1>9. \A i \in Nbr(r) : h.track[i] = IF i \in F THEN -1 ELSE IF i = from THEN number ELSE linktrack[r][i]
    BY <1>4, <1>6
<1>10. \A i \in Nbr(r) : i \in F <=> LET t == IF i = from THEN number ELSE linktrack[r][i]
                                     IN  t # -1 /\ t + 3 < number
    BY <1>4, <1>5
<1>11. DOMAIN h.track = Nbr(r)
    BY <1>4, <1>6
<1> QED BY <1>8, <1>9, <1>10, <1>11 DEF h, F, h0

\* The update at the head of an inbox.
LEMMA UpdateIs ==
    ASSUME DvrInv, NEW r \in Router, inbox[r] # << >>, Kind(Head(inbox[r])) = "Update"
    PROVE  LET m == Head(inbox[r]) IN
           /\ m.type = "Update" /\ m.from \in Nbr(r) /\ m.lines \in Seq(Line)
           /\ m.number \in 1..routingupdate[m.from]
           /\ PlainText => m.number = clk
<1> DEFINE m == Head(inbox[r])
<1>1. IsSequence(inbox[r])
    BY DEF DvrInv, Sent
<1>2. m = inbox[r][1] /\ 1 \in 1..Len(inbox[r])
    BY <1>1, Shortened
<1>3. m.type = "Update"
    BY DEF Kind
<1>4. UpdateMessage(m, r)
    BY <1>2 DEF DvrInv, Sent
<1>5. ASSUME PlainText PROVE m.number = clk
    <2>1. Tracked
        BY <1>5 DEF DvrInv
    <2>2. UpdateAt(inbox[r][1], r, routingupdate, dropped, clk)
        BY <1>2, <2>1, TrackedIs
    <2> QED BY <1>2, <1>3, <2>2 DEF UpdateAt
<1> QED BY <1>3, <1>4, <1>5 DEF UpdateMessage

LEMMA UpdateStep ==
    ASSUME DvrInv, NEW r \in Router, r \notin dead, inbox[r] # << >>, Kind(Head(inbox[r])) = "Update",
           UpdateRoutingTable(r, Head(inbox[r]), [inbox EXCEPT ![r] = Tail(@)]), ~Die(r),
           UNCHANGED <<net, driver>>
    PROVE  DvrInv'
<1> DEFINE m == Head(inbox[r])
           buf == Received(buffer[r], m.number, m.lines)
           F == Overdue(Heard(r, m.from, m.number).track, m.number)
           h == FailLinks(Heard(r, m.from, m.number), m.number)
           X == [i \in Router |-> {}]
<1>1. /\ net' = net /\ clk' = clk /\ commands' = commands /\ downLinks' = downLinks
      /\ buffer' = [buffer EXCEPT ![r] = buf]
      /\ linktrack' = [linktrack EXCEPT ![r] = h.track]
      /\ routingtable' = [routingtable EXCEPT ![r] = ApplyLines(r, m.from, h.table, buf)]
      /\ UNCHANGED <<neighbours, routingupdate, dead, history>>
    BY DEF UpdateRoutingTable, driver
<1>2. Taken(r, X) /\ \A i \in Router : X[i] = {}
    BY TakenNothing DEF UpdateRoutingTable
<1> HIDE DEF X
<1>3. /\ m.type = "Update" /\ m.from \in Nbr(r) /\ m.lines \in Seq(Line)
      /\ m.number \in 1..routingupdate[m.from]
      /\ PlainText => m.number = clk
    BY UpdateIs
<1>4. RouterTyped(r, routingtable[r], neighbours[r], linktrack[r], buffer[r], routingupdate)
    BY TypedIs
<1>5. /\ TableTyped(r, h.table) /\ DOMAIN h.track = Nbr(r)
      /\ \A i \in Nbr(r) :
           /\ h.track[i] = IF i \in F THEN -1 ELSE IF i = m.from THEN m.number ELSE linktrack[r][i]
           /\ i \in F <=> LET t == IF i = m.from THEN m.number ELSE linktrack[r][i]
                          IN  t # -1 /\ t + 3 < m.number
    BY <1>3, HeaderTyped
<1>6. AllLines(buf)
    BY <1>3, <1>4, ReceivedTyped DEF RouterTyped, AllLines
<1>7. m.number \in Int /\ \A q \in Router : routingupdate[q] \in Nat
    <2>1. \A q \in Router : routingupdate[q] \in Nat
        BY DEF DvrInv, TypeOK
    <2>2. m.from \in Router
        BY <1>3 DEF Nbr
    <2> QED BY <1>3, <2>1, <2>2
<1> HIDE DEF m, buf, F, h
<1>8. TypeOK'
    <2>1. ASSUME NEW q \in Router
          PROVE  RouterTyped(q, routingtable'[q], neighbours'[q], linktrack'[q], buffer'[q], routingupdate')
        <3>1. CASE q = r
            <4>1. /\ routingtable'[r] = ApplyLines(r, m.from, h.table, buf) /\ linktrack'[r] = h.track
                  /\ buffer'[r] = buf /\ neighbours'[r] = neighbours[r]
                BY <1>1 DEF DvrInv, TypeOK
            <4>2. TableTyped(r, ApplyLines(r, m.from, h.table, buf))
                BY <1>3, <1>4, <1>5, <1>6, LinesTypedToo DEF RouterTyped, AllLines
            <4>3. ASSUME NEW i \in Nbr(r) PROVE h.track[i] \in -1..routingupdate[i]
                <5>1. linktrack[r][i] \in -1..routingupdate[i] /\ i \in Router /\ routingupdate[i] \in Nat
                    BY <1>4, <1>7 DEF RouterTyped, Nbr
                <5>2. h.track[i] = -1 \/ (i = m.from /\ h.track[i] = m.number) \/ h.track[i] = linktrack[r][i]
                    BY <1>5
                <5>3. h.track[i] = m.number /\ i = m.from => h.track[i] \in 1..routingupdate[i]
                    BY <1>3
                <5> QED BY <5>1, <5>2, <5>3
            <4> QED BY <1>1, <1>4, <1>5, <1>6, <3>1, <4>1, <4>2, <4>3 DEF RouterTyped, TableTyped, AllLines
        <3>2. CASE q # r
            <4>1. routingtable'[q] = routingtable[q] /\ linktrack'[q] = linktrack[q] /\ buffer'[q] = buffer[q]
                BY <1>1, <3>2 DEF DvrInv, TypeOK
            <4> QED BY <1>1, <4>1, TypedIs
        <3> QED BY <3>1, <3>2
    <2>2. DOMAIN routingtable' = Router /\ DOMAIN linktrack' = Router /\ DOMAIN buffer' = Router
        BY <1>1 DEF DvrInv, TypeOK
    <2> QED BY <1>1, <2>1, <2>2, TypedNext DEF DvrInv, TypeOK
<1>9. /\ \A i \in Nbr(r) : linktrack'[r][i] = h.track[i]
      /\ \A q \in Router \ {r} : linktrack'[q] = linktrack[q]
    BY <1>1 DEF DvrInv, TypeOK
<1>10. \A q \in Router : \A i \in Nbr(q) :
         neighbours'[q][i] = IF q = r /\ ForLink(Head(inbox[r]), r, i)
                             THEN SignedChar(Head(inbox[r]).value) ELSE neighbours[q][i]
    <2>1. \A i : ~ForLink(Head(inbox[r]), r, i)
        BY <1>3 DEF ForLink, m
    <2> QED BY <1>1, <2>1
<1>11. ASSUME PlainText, NEW q \in Router, NEW i \in Nbr(q)
       PROVE  \/ /\ linktrack'[q][i] = linktrack[q][i]
                 /\ ~(q = r /\ Head(inbox[r]).type = "Update" /\ Head(inbox[r]).from = i)
              \/ /\ linktrack'[q][i] = clk
                 /\ q = r /\ Head(inbox[r]).type = "Update" /\ Head(inbox[r]).from = i
              \/ linktrack'[q][i] = -1
    BY <1>3, <1>5, <1>9, <1>11 DEF m
<1>12. ASSUME PlainText, NEW q \in Router \ dead, NEW i \in Nbr(q), NEW j \in Nbr(q), linktrack'[q][i] # -1
       PROVE  linktrack'[q][j] <= linktrack'[q][i] + 3
    <2>1. CASE q # r
        BY <1>9, <1>12, <2>1 DEF DvrInv, Tracked, Alive
    <2>2. CASE q = r
        <3>1. h.track[i] # -1 /\ m.number = clk /\ clk \in Nat
            BY <1>3, <1>9, <1>12, <2>2 DEF DvrInv, TypeOK
        <3>2. h.track[i] + 3 >= clk /\ h.track[i] \in Int
            <4>1. linktrack[r][i] \in -1..routingupdate[i] /\ routingupdate[i] \in Nat
                BY <1>4, <1>7, <2>2 DEF RouterTyped, Nbr
            <4>2. i \notin F
                BY <1>5, <2>2, <3>1
            <4>3. CASE i = m.from
                <5>1. h.track[i] = clk
                    BY <1>5, <2>2, <3>1, <4>2, <4>3
                <5> QED BY <3>1, <5>1
            <4>4. CASE i # m.from
                <5>1. h.track[i] = linktrack[r][i] /\ ~(linktrack[r][i] # -1 /\ linktrack[r][i] + 3 < clk)
                    BY <1>5, <2>2, <3>1, <4>2, <4>4
                <5> QED BY <3>1, <4>1, <5>1
            <4> QED BY <4>3, <4>4
        <3>3. linktrack'[r][j] \in -1..clk
            <4>1. linktrack'[r][j] \in -1..routingupdate'[j]
                <5>1. RouterTyped(r, routingtable'[r], neighbours'[r], linktrack'[r], buffer'[r], routingupdate')
                    BY <1>8, SameNet, <1>1 DEF TypeOK, RouterTyped
                <5> QED BY <2>2, <5>1 DEF RouterTyped
            <4>2. j \in Router
                BY DEF Nbr
            <4>3. routingupdate'[j] = routingupdate[j] /\ routingupdate[j] <= clk /\ routingupdate[j] \in Nat
                BY <1>1, <1>7, <1>12, <4>2 DEF DvrInv, Clocked
            <4> QED BY <3>1, <4>1, <4>3
        <3>4. linktrack'[r][i] = h.track[i]
            BY <1>9, <2>2
        <3> QED BY <2>2, <3>1, <3>2, <3>3, <3>4
    <2> QED BY <2>1, <2>2
<1>13. \A i \in Router : \A x \in X[i] : x.type = "frwd" /\ (PlainText => x.msg # "clk")
    BY <1>2
<1>14. PlainText => Kind(Head(inbox[r])) # "clk"
    BY <1>3 DEF m
<1> QED BY <1>1, <1>2, <1>8, <1>10, <1>11, <1>12, <1>13, <1>14, OtherMessage DEF history

\* Costs and links stay, and so does what the links will cost.
LEMMA AgreedNext ==
    ASSUME DvrInv, net' = net, neighbours' = neighbours, linkCost' = linkCost,
           \A q \in Router : \A i \in Nbr(q) : \A v : WillCost(q, i, v) => WillCost(q, i, v)'
    PROVE  Agreed'
<1>1. ASSUME NEW r \in Router, NEW i \in Nbr(r)
      PROVE  /\ neighbours'[r][i] \in LinkCost({r, i})
             /\ \E v \in LinkCost({r, i}) : /\ WillCost(r, i, v)' /\ WillCost(i, r, v)'
                                            /\ linkCost'[{r, i}] \in -128..127 => v = linkCost'[{r, i}]
    <2>1. neighbours[r][i] \in LinkCost({r, i})
        BY DEF DvrInv, Agreed
    <2>2. PICK v \in LinkCost({r, i}) : /\ WillCost(r, i, v) /\ WillCost(i, r, v)
                                        /\ linkCost[{r, i}] \in -128..127 => v = linkCost[{r, i}]
        BY DEF DvrInv, Agreed
    <2>3. i \in Router /\ r \in Nbr(i)
        BY NbrProps DEF DvrInv
    <2> QED BY <2>1, <2>2, <2>3
<1>2. DOMAIN linkCost' = DOMAIN Topology
    BY DEF DvrInv, Agreed
<1> QED BY <1>1, <1>2, AgreedFrom

\* The process of a router ends: nothing is said of it any more.
LEMMA DieStep ==
    ASSUME DvrInv, NEW r \in Router, Die(r), UNCHANGED <<net, driver>>
    PROVE  DvrInv'
<1>1. /\ UNCHANGED <<net, driver, routingtable, neighbours, linktrack, routingupdate, buffer, dropped, linkCost>>
      /\ dead' = dead \cup {r} /\ inbox' = [inbox EXCEPT ![r] = << >>]
    BY DEF Die
<1>2. /\ DOMAIN inbox' = Router /\ inbox'[r] = << >>
      /\ \A q \in Router : q # r => inbox'[q] = inbox[q]
    BY <1>1 DEF DvrInv, Sent
<1>3. IsSequence(<< >>) /\ 1..Len(<< >>) = {}
    <2>1. << >> \in Seq({}) /\ Len(<< >>) = 0
        BY EmptySeq
    <2>2. IsSequence(<< >>)
        BY <2>1, SeqIs
    <2> QED BY <2>1, <2>2
<1>4. TypeOK'
    <2>1. ASSUME NEW q \in Router
          PROVE  RouterTyped(q, routingtable'[q], neighbours'[q], linktrack'[q], buffer'[q], routingupdate')
        BY <1>1, TypedIs
    <2> QED BY <1>1, <2>1, TypedNext DEF DvrInv, TypeOK, driver
<1>5. Sent'
    <2>1. ASSUME NEW q \in Router
          PROVE  IsSequence(inbox'[q]) /\ \A k \in 1..Len(inbox'[q]) : Proper(inbox'[q][k], q, routingupdate')
        BY <1>1, <1>2, <1>3, ProperIs DEF DvrInv, Sent
    <2>2. /\ IsSequence(timerOut') /\ IsSequence(mainOut')
          /\ \A k \in 1..Len(mainOut') : Order(mainOut'[k])
          /\ \A k \in 1..Len(timerOut') : timerOut'[k].to \in Router /\ timerOut'[k].m = [type |-> "clk"]
          /\ \A j, k \in 1..Len(mainOut') : mainOut'[j].to = mainOut'[k].to => j = k
        BY <1>1 DEF DvrInv, Sent, Order, driver
    <2> QED BY <1>1, <1>2, <2>1, <2>2, SentNext
<1>6. Agreed'
    <2>1. ASSUME NEW q \in Router, NEW i \in Nbr(q), NEW v, WillCost(q, i, v) PROVE WillCost(q, i, v)'
        <3>1. CASE q = r
            BY <1>1, <3>1 DEF WillCost
        <3>2. CASE q # r
            <4>1. inbox'[q] = inbox[q] /\ mainOut' = mainOut /\ neighbours' = neighbours /\ dead \subseteq dead'
                BY <1>1, <1>2, <3>2 DEF driver
            <4> QED BY <2>1, <4>1 DEF WillCost, Unsent, Waiting
        <3> QED BY <3>1, <3>2
    <2> QED BY <1>1, <2>1, AgreedNext
<1>7. ASSUME PlainText PROVE Clocked' /\ Tracked'
    <2>1. Clocked /\ Tracked
        BY <1>7 DEF DvrInv
    <2>2. Clocked'
        <3>1. Outgoing(timerOut', mainOut') /\ clk' = clk /\ \A q : Unclocked(q)' = Unclocked(q)
            BY <1>1, <2>1, OutgoingIs DEF driver, Unclocked
        <3>2. \A q \in Router : routingupdate'[q] <= clk'
            BY <1>1, <2>1, <3>1 DEF Clocked
        <3>3. \A q \in Router \ dead' : ClockedAt(inbox'[q], Unclocked(q)', routingupdate'[q], clk')
            BY <1>1, <1>2, <2>1, <3>1, ClockedIs
        <3> QED BY <1>1, <3>1, <3>2, <3>3, ClockedNext
    <2>3. Tracked'
        <3>1. \A e \in dropped' : e[1] \in Router /\ e[3] \in 1..routingupdate'[e[1]]
            BY <1>1, <2>1 DEF Tracked
        <3>2. \A q \in Router : \A k \in 1..Len(inbox'[q]) :
                UpdateAt(inbox'[q][k], q, routingupdate', dropped', clk')
            BY <1>1, <1>2, <1>3, <2>1, TrackedIs DEF driver
        <3>3. \A q \in Router \ dead' : \A i \in Nbr(q) :
                TrackAt(inbox'[q], q, i, linktrack'[q], routingupdate'[i], dropped', clk')
            BY <1>1, <1>2, <2>1, TrackedIs DEF driver
        <3> QED BY <1>1, <3>1, <3>2, <3>3, TrackedNext
    <2> QED BY <2>2, <2>3
<1>8. PlainText' = PlainText
    BY <1>1, SameNet
<1> QED BY <1>1, <1>4, <1>5, <1>6, <1>7, <1>8 DEF DvrInv

LEMMA RecvStep ==
    ASSUME DvrInv, NEW r \in Router, Recv(r)
    PROVE  DvrInv'
<1> DEFINE m == Head(inbox[r])
           rest == [inbox EXCEPT ![r] = Tail(@)]
<1>1. inbox[r] # << >> /\ r \notin dead /\ UNCHANGED <<net, driver>>
    BY DEF Recv, Alive
<1>2. CASE Kind(m) = "clk" /\ SendRoutingUpdates(r, rest) /\ UNCHANGED buffer
    BY <1>1, <1>2, TickStep
<1>3. CASE Kind(m) = "show" /\ inbox' = rest /\ UNCHANGED <<router, history>>
    BY <1>1, <1>3, ShowStep
<1>4. CASE Kind(m) = "cost" /\ inbox' = rest /\ UpdateCost(r, m)
    BY <1>1, <1>4, CostStep
<1>5. CASE Kind(m) = "Update" /\ UpdateRoutingTable(r, m, rest) /\ ~Die(r)
    BY <1>1, <1>5, UpdateStep
<1>6. CASE /\ \/ Kind(m) = "send" /\ Send(r, m, rest)
              \/ Kind(m) = "frwd" /\ Frwd(r, m, rest)
           /\ ~Die(r)
    BY <1>1, <1>6, PacketStep
<1>7. CASE Die(r)
    BY <1>1, <1>7, DieStep
<1> QED BY <1>2, <1>3, <1>4, <1>5, <1>6, <1>7 DEF Recv

-----------------------------------------------------------------------------
(* The driver.                                                             *)

\* Nothing happens to the tables.
LEMMA RoutersRest ==
    ASSUME DvrInv, UNCHANGED <<net, router>>, clk' \in 0..net.clocks, commands' \in 0..Len(Session),
           downLinks' \subseteq Router \X Router
    PROVE  TypeOK'
<1>1. ASSUME NEW q \in Router
      PROVE  RouterTyped(q, routingtable'[q], neighbours'[q], linktrack'[q], buffer'[q], routingupdate')
    BY TypedIs DEF router
<1> QED BY <1>1, TypedNext DEF DvrInv, TypeOK, router

\* The tables and the inboxes stay: so does what is known of the updates.
LEMMA TrackedRests ==
    ASSUME DvrInv, Tracked, UNCHANGED <<net, router, inbox, clk, dropped>>
    PROVE  Tracked'
<1>1. \A e \in dropped' : e[1] \in Router /\ e[3] \in 1..routingupdate'[e[1]]
    BY DEF Tracked, router
<1>2. \A r \in Router : \A k \in 1..Len(inbox'[r]) : UpdateAt(inbox'[r][k], r, routingupdate', dropped', clk')
    BY TrackedIs DEF router
<1>3. \A r \in Router \ dead' : \A i \in Nbr(r) :
        TrackAt(inbox'[r], r, i, linktrack'[r], routingupdate'[i], dropped', clk')
    BY TrackedIs DEF router
<1> QED BY <1>1, <1>2, <1>3, TrackedNext

\* A new clock: every router has sent an update for the last one.
LEMMA SendClockStep ==
    ASSUME DvrInv, SendClock
    PROVE  DvrInv'
<1> DEFINE n == Len(Hosts)
           t == [k \in 1..n |-> [to |-> Hosts[k], m |-> [type |-> "clk"]]]
<1>1. /\ UNCHANGED <<net, router, inbox, mainOut, downLinks, commands, dropped, linkCost>>
      /\ clk' = clk + 1 /\ timerOut' = t /\ clk < net.clocks
      /\ timerOut = << >> /\ \A k \in 1..Len(mainOut) : IsRule(mainOut[k])
      /\ \A r \in Router : \A k \in 1..Len(inbox[r]) : inbox[r][k].type = "frwd"
    BY DEF SendClock, Settled
<1>2. clk \in Nat /\ clk' \in 0..net.clocks
    <2>1. net.clocks \in Nat /\ clk \in 0..net.clocks
        BY BoundsAssumption DEF DvrInv, TypeOK
    <2> QED BY <1>1, <2>1
<1>3. /\ n \in Nat /\ \A k \in 1..n : Hosts[k] \in Router
      /\ \A r \in Router : \E k \in 1..n : Hosts[k] = r
      /\ \A j, k \in 1..n : Hosts[j] = Hosts[k] => j = k
    <2>1. /\ Hosts \in Seq(Router) /\ \A r \in Router : \E k \in 1..n : Hosts[k] = r
          /\ \A j, k \in 1..n : Hosts[j] = Hosts[k] => j = k
        BY HostsAssumption DEF DvrInv, Hosts, Router, Topology
    <2> QED BY <2>1, LenProperties, ElementOfSeq
<1>4. IsSequence(timerOut') /\ Len(timerOut') = n
    <2> DEFINE A == {[to |-> Hosts[k], m |-> [type |-> "clk"]] : k \in 1..n}
    <2>1. t \in Seq(A) /\ Len(t) = n
        BY <1>3
    <2> QED BY <1>1, <2>1, SeqIs
<1>5. \A k \in 1..n : timerOut'[k] = [to |-> Hosts[k], m |-> [type |-> "clk"]]
    BY <1>1
<1> HIDE DEF n, t
<1>6. TypeOK'
    BY <1>1, <1>2, RoutersRest DEF DvrInv, TypeOK
<1>7. Sent'
    <2>1. \A r \in Router : IsSequence(inbox'[r]) /\ \A k \in 1..Len(inbox'[r]) : Proper(inbox'[r][k], r, routingupdate')
        BY <1>1, ProperIs DEF DvrInv, Sent, router
    <2>2. /\ \A k \in 1..Len(mainOut') : Order(mainOut'[k])
          /\ \A j, k \in 1..Len(mainOut') : mainOut'[j].to = mainOut'[k].to => j = k
        BY <1>1 DEF DvrInv, Sent, Order
    <2>3. \A k \in 1..Len(timerOut') : timerOut'[k].to \in Router /\ timerOut'[k].m = [type |-> "clk"]
        BY <1>3, <1>4, <1>5
    <2> QED BY <1>1, <1>4, <2>1, <2>2, <2>3, SentNext DEF DvrInv, Sent
<1>8. Agreed'
    <2>1. \A q, i, v : WillCost(q, i, v)' <=> WillCost(q, i, v)
        BY <1>1 DEF WillCost, Unsent, Waiting, router
    <2> QED BY <1>1, <2>1, AgreedNext DEF router
<1>9. ASSUME PlainText PROVE Clocked' /\ Tracked'
    <2>1. Clocked /\ Tracked
        BY <1>9 DEF DvrInv
    <2>2. \A r \in Router : \A k \in 1..Len(inbox[r]) :
            inbox[r][k].type # "Update" /\ (r \notin dead => Kind(inbox[r][k]) # "clk")
        BY <1>1, <2>1 DEF Clocked, Kind, Alive
    <2>3. (\A i : Unclocked(i) = {}) /\ \A r \in Router \ dead : Ticks(inbox[r]) = {}
        BY <1>1, <2>2, EmptySeq DEF Unclocked, Ticks
    <2>4. \A r \in Router \ dead : routingupdate[r] = clk
        BY <2>1, <2>3, ClockedIs DEF ClockedAt
    <2>5. Clocked'
        <3>1. Outgoing(timerOut', mainOut')
            <4>2. \A j, k \in 1..Len(timerOut') : timerOut'[j].to = timerOut'[k].to => j = k
                BY <1>3, <1>4, <1>5
            <4>3. \A k \in 1..Len(mainOut') : mainOut'[k].m.type = "send" => mainOut'[k].m.msg # "clk"
                BY <1>1, <2>1 DEF Clocked
            <4> QED BY <4>2, <4>3 DEF Outgoing
        <3>2. ASSUME NEW r \in Router \ dead PROVE ClockedAt(inbox'[r], Unclocked(r)', routingupdate'[r], clk')
            <4>1. ClockedAt(inbox[r], Unclocked(r), routingupdate[r], clk)
                BY <2>1, ClockedIs
            <4>2. Unclocked(r)' # {}
                <5>1. PICK k \in 1..n : Hosts[k] = r
                    BY <1>3
                <5> QED BY <1>4, <1>5, <5>1 DEF Unclocked
            <4>3. routingupdate'[r] = clk' - 1
                BY <1>1, <1>2, <2>4 DEF router
            <4> QED BY <1>1, <2>3, <4>1, <4>2, <4>3 DEF ClockedAt
        <3>3. \A r \in Router : routingupdate'[r] <= clk'
            <4>1. \A r \in Router : routingupdate[r] <= clk /\ routingupdate[r] \in Nat
                BY <2>1 DEF Clocked, DvrInv, TypeOK
            <4> QED BY <1>1, <1>2, <4>1 DEF router
        <3> QED BY <1>1, <3>1, <3>2, <3>3, ClockedNext DEF router
    <2>6. Tracked'
        <3>1. \A e \in dropped' : e[1] \in Router /\ e[3] \in 1..routingupdate'[e[1]]
            BY <1>1, <2>1 DEF Tracked, router
        <3>2. \A r \in Router : \A k \in 1..Len(inbox'[r]) :
                UpdateAt(inbox'[r][k], r, routingupdate', dropped', clk')
            BY <1>1, <2>2 DEF UpdateAt
        <3>3. ASSUME NEW r \in Router \ dead, NEW i \in Nbr(r)
              PROVE  TrackAt(inbox'[r], r, i, linktrack'[r], routingupdate'[i], dropped', clk')
            <4>1. TrackAt(inbox[r], r, i, linktrack[r], routingupdate[i], dropped, clk)
                BY <2>1, TrackedIs
            <4>2. Ups(inbox[r], i) = {}
                BY <2>2 DEF Ups
            <4> QED BY <1>1, <4>1, <4>2 DEF TrackAt, router
        <3> QED BY <1>1, <3>1, <3>2, <3>3, TrackedNext DEF router
    <2> QED BY <2>5, <2>6
<1>10. PlainText' = PlainText
    BY <1>1, SameNet
<1> QED BY <1>1, <1>6, <1>7, <1>8, <1>9, <1>10 DEF DvrInv

\* A datagram x comes to q, unless q has died.
LEMMA Comes ==
    ASSUME DvrInv, NEW q \in Router, NEW x, inbox' = Arrived(inbox, q, x)
    PROVE  /\ DOMAIN inbox' = Router
           /\ \A i \in Router : Extends(inbox[i], inbox'[i], IF i = q THEN {x} ELSE {})
           /\ \A i \in Router : i # q => inbox'[i] = inbox[i]
           /\ q \notin dead => inbox'[q] = Append(inbox[q], x)
<1>1. DOMAIN inbox = Router /\ \A i \in Router : IsSequence(inbox[i])
    BY DEF DvrInv, Sent
<1>2. CASE q \in dead
    <2>1. inbox' = inbox
        BY <1>2 DEF Arrived
    <2> QED BY <1>1, <1>2, <2>1, ExtendsSelf
<1>3. CASE q \notin dead
    <2>1. inbox'[q] = Append(inbox[q], x) /\ DOMAIN inbox' = Router /\ \A i \in Router : i # q => inbox'[i] = inbox[i]
        BY <1>1, <1>3 DEF Arrived
    <2>2. ASSUME NEW i \in Router PROVE Extends(inbox[i], inbox'[i], IF i = q THEN {x} ELSE {})
        <3>1. CASE i = q
            <4>1. Extends(inbox[q], Append(inbox[q], x), {x})
                BY <1>1, ExtendsAppend
            <4> QED BY <2>1, <3>1, <4>1
        <3>2. CASE i # q
            <4>1. Extends(inbox[i], inbox[i], {})
                BY <1>1, ExtendsSelf
            <4> QED BY <2>1, <3>2, <4>1
        <3> QED BY <3>1, <3>2
    <2> QED BY <2>1, <2>2
<1> QED BY <1>2, <1>3

\* No update comes: nothing changes in what is known of the updates.
LEMMA TrackedGrown ==
    ASSUME DvrInv, Tracked, UNCHANGED <<net, router, clk, dropped>>, NEW X,
           \A i \in Router : Extends(inbox[i], inbox'[i], X[i]),
           \A i \in Router : \A x \in X[i] : x.type # "Update"
    PROVE  Tracked'
<1>1. \A e \in dropped' : e[1] \in Router /\ e[3] \in 1..routingupdate'[e[1]]
    BY DEF Tracked, router
<1>2. ASSUME NEW r \in Router, NEW k \in 1..Len(inbox'[r])
      PROVE  UpdateAt(inbox'[r][k], r, routingupdate', dropped', clk')
    <2>1. (k \in 1..Len(inbox[r]) /\ inbox'[r][k] = inbox[r][k]) \/ inbox'[r][k] \in X[r]
        BY ExtendsProps
    <2>2. k \in 1..Len(inbox[r]) => UpdateAt(inbox[r][k], r, routingupdate, dropped, clk)
        BY TrackedIs
    <2> QED BY <2>1, <2>2 DEF UpdateAt, router
<1>3. ASSUME NEW r \in Router \ dead, NEW i \in Nbr(r)
      PROVE  TrackAt(inbox'[r], r, i, linktrack'[r], routingupdate'[i], dropped', clk')
    <2>1. TrackAt(inbox[r], r, i, linktrack[r], routingupdate[i], dropped, clk)
        BY TrackedIs
    <2>2. Ups(inbox[r], i) # {} => Ups(inbox'[r], i) # {}
        BY UpsExtends
    <2> QED BY <2>1, <2>2 DEF TrackAt, router
<1> QED BY <1>1, <1>2, <1>3, TrackedNext DEF router

\* The first datagram of the driver is sent.
LEMMA TimerSendsStep ==
    ASSUME DvrInv, TimerSends
    PROVE  DvrInv'
<1> DEFINE q == timerOut[1].to
           x == [type |-> "clk"]
           X == [i \in Router |-> IF i = q THEN {x} ELSE {}]
<1>1. /\ UNCHANGED <<net, router, clk, mainOut, downLinks, commands, history>>
      /\ timerOut # << >> /\ timerOut' = Tail(timerOut)
      /\ inbox' = Arrived(inbox, Head(timerOut).to, Head(timerOut).m)
    BY DEF TimerSends
<1>2. IsSequence(timerOut)
    BY DEF DvrInv, Sent
<1>3. /\ Head(timerOut) = timerOut[1] /\ 1 \in 1..Len(timerOut) /\ IsSequence(timerOut')
      /\ Len(timerOut) \in Nat /\ Len(timerOut') = Len(timerOut) - 1
      /\ \A k \in 1..Len(timerOut') : k + 1 \in 1..Len(timerOut) /\ timerOut'[k] = timerOut[k + 1]
    BY <1>1, <1>2, Shortened
<1>4. q \in Router /\ timerOut[1].m = x
    BY <1>3 DEF DvrInv, Sent
<1>5. inbox' = Arrived(inbox, q, x)
    BY <1>1, <1>3, <1>4
<1> HIDE DEF q
<1>6. /\ DOMAIN inbox' = Router
      /\ \A i \in Router : Extends(inbox[i], inbox'[i], X[i])
      /\ \A i \in Router : i # q => inbox'[i] = inbox[i]
      /\ q \notin dead => inbox'[q] = Append(inbox[q], x)
    BY <1>4, <1>5, Comes
<1>7. \A i \in Router : \A y \in X[i] : y = x
    OBVIOUS
<1> HIDE DEF X
<1>8. TypeOK'
    BY <1>1, RoutersRest DEF DvrInv, TypeOK
<1>9. Sent'
    <2>1. ASSUME NEW r \in Router, NEW k \in 1..Len(inbox'[r]) PROVE Proper(inbox'[r][k], r, routingupdate')
        <3>1. (k \in 1..Len(inbox[r]) /\ inbox'[r][k] = inbox[r][k]) \/ inbox'[r][k] = x
            BY <1>6, <1>7, ExtendsProps
        <3>2. k \in 1..Len(inbox[r]) => Proper(inbox[r][k], r, routingupdate)
            BY ProperIs
        <3>3. Proper(x, r, routingupdate)
            BY DEF Proper, CostMessage
        <3> QED BY <1>1, <3>1, <3>2, <3>3 DEF router
    <2>2. \A r \in Router : IsSequence(inbox'[r])
        BY <1>6 DEF Extends
    <2>3. /\ IsSequence(mainOut')
          /\ \A k \in 1..Len(mainOut') : Order(mainOut'[k])
          /\ \A j, k \in 1..Len(mainOut') : mainOut'[j].to = mainOut'[k].to => j = k
        BY <1>1 DEF DvrInv, Sent, Order
    <2>4. \A k \in 1..Len(timerOut') : timerOut'[k].to \in Router /\ timerOut'[k].m = [type |-> "clk"]
        BY <1>3 DEF DvrInv, Sent
    <2> QED BY <1>1, <1>3, <1>6, <2>1, <2>2, <2>3, <2>4, SentNext
<1>10. Agreed'
    <2>1. ASSUME NEW r \in Router, NEW i \in Nbr(r), NEW v, WillCost(r, i, v) PROVE WillCost(r, i, v)'
        <3>1. Unsent(r, i)' = Unsent(r, i)
            BY <1>1 DEF Unsent
        <3>2. \A y \in X[r] : ~ForLink(y, r, i)
            BY <1>7 DEF ForLink
        <3>3. Coming(inbox[r], neighbours[r][i], r, i, v) => Coming(inbox'[r], neighbours[r][i], r, i, v)
            BY <1>6, <3>2, ComingExtends
        <3>4. WillCost(r, i, v)' <=>
                \/ r \in dead'
                \/ \E k \in Unsent(r, i)' : v = SignedChar(mainOut'[k].m.value)
                \/ Unsent(r, i)' = {} /\ Coming(inbox'[r], neighbours'[r][i], r, i, v)
            BY DEF WillCost, Coming, Costs, Waiting
        <3>5. neighbours' = neighbours /\ mainOut' = mainOut /\ dead' = dead
            BY <1>1 DEF router
        <3> QED BY <2>1, <3>1, <3>3, <3>4, <3>5, WillCostIs
    <2> QED BY <1>1, <2>1, AgreedNext DEF router, history
<1>11. ASSUME PlainText PROVE Clocked' /\ Tracked'
    <2>1. Clocked /\ Tracked /\ clk \in Int
        BY <1>11 DEF DvrInv, TypeOK
    <2>2. Tracked'
        <3>1. \A i \in Router : \A y \in X[i] : y.type # "Update"
            BY <1>7
        <3> QED BY <1>1, <1>6, <2>1, <3>1, TrackedGrown DEF history
    <2>3. Outgoing(timerOut', mainOut')
        <3>1. ASSUME NEW j \in 1..Len(timerOut'), NEW k \in 1..Len(timerOut'), timerOut'[j].to = timerOut'[k].to
              PROVE  j = k
            <4>1. j + 1 = k + 1
                BY <1>3, <2>1, <3>1 DEF Clocked
            <4> QED BY <1>3, <4>1
        <3>2. \A k \in 1..Len(mainOut') : mainOut'[k].m.type = "send" => mainOut'[k].m.msg # "clk"
            BY <1>1, <2>1 DEF Clocked
        <3> QED BY <3>1, <3>2 DEF Outgoing
    <2>4. ASSUME NEW r \in Router \ dead PROVE ClockedAt(inbox'[r], Unclocked(r)', routingupdate'[r], clk')
        <3> DEFINE s == inbox[r]
                   t == inbox'[r]
                   U == Unclocked(r)
                   V == Unclocked(r)'
        <3>1. ClockedAt(s, U, routingupdate[r], clk) /\ routingupdate'[r] = routingupdate[r] /\ clk' = clk
            BY <1>1, <2>1, ClockedIs DEF router
        <3>2. Extends(s, t, X[r])
            BY <1>6
        <3>3. \A k \in 1..Len(t) : t[k].type \in {"send", "frwd"} => t[k].msg # "clk"
            <4> SUFFICES ASSUME NEW k \in 1..Len(t) PROVE t[k].type \in {"send", "frwd"} => t[k].msg # "clk"
                OBVIOUS
            <4>1. (k \in 1..Len(s) /\ t[k] = s[k]) \/ t[k] = x
                BY <1>7, <3>2, ExtendsProps
            <4> QED BY <3>1, <4>1 DEF ClockedAt
        <3>4. \A k \in V : k + 1 \in U
            BY <1>3 DEF Unclocked
        <3>5. CASE r = q
            <4>1. 1 \in U
                BY <1>3, <3>5 DEF Unclocked, q
            <4>2. V = {}
                <5> SUFFICES ASSUME NEW k \in V PROVE FALSE
                    OBVIOUS
                <5>1. k \in 1..Len(timerOut') /\ k + 1 \in U
                    BY <3>4 DEF Unclocked
                <5>2. k + 1 = 1
                    BY <2>1, <4>1, <5>1 DEF Clocked, Unclocked
                <5> QED BY <1>3, <5>1, <5>2
            <4>3. Ticks(s) = {}
                BY <3>1, <4>1 DEF ClockedAt
            <4>4. routingupdate[r] = clk - 1
                BY <3>1, <4>1 DEF ClockedAt
            <4>5. IsSequence(s) /\ t = Append(s, x)
                BY <1>6, <3>5 DEF DvrInv, Sent
            <4> HIDE DEF s, t, U, V
            <4>6. Extends(s, t, {x}) /\ Len(t) = Len(s) + 1 /\ t[Len(t)] = x /\ Len(s) \in Nat
                BY <4>5, ExtendsAppend, SeqProps
            <4>7. Len(t) \in Ticks(t)
                BY <4>6 DEF Ticks, Kind
            <4>8. \A k \in Ticks(t) : k = Len(t)
                <5> SUFFICES ASSUME NEW k \in Ticks(t) PROVE k = Len(t)
                    OBVIOUS
                <5>1. k \in 1..Len(t) /\ (k \in 1..Len(s) => t[k] = s[k])
                    BY <4>6, ExtendsProps DEF Ticks
                <5>2. k \notin 1..Len(s)
                    BY <4>3, <5>1 DEF Ticks
                <5> QED BY <4>6, <5>1, <5>2
            <4>9. ClockedAt(t, V, routingupdate'[r], clk')
                BY <3>1, <3>3, <4>2, <4>4, <4>7, <4>8 DEF ClockedAt
            <4> QED BY <4>9 DEF t, V
        <3>6. CASE r # q
            <4>1. t = s
                BY <1>6, <3>6
            <4>2. ASSUME NEW k \in U PROVE k - 1 \in V
                <5>1. k \in 1..Len(timerOut) /\ timerOut[k].to = r
                    BY DEF Unclocked
                <5>2. k # 1
                    BY <3>6, <5>1 DEF q
                <5>3. k - 1 \in 1..Len(timerOut') /\ (k - 1) + 1 = k
                    BY <1>3, <5>1, <5>2
                <5>4. timerOut'[k - 1] = timerOut[k]
                    BY <1>3, <5>3
                <5> QED BY <5>1, <5>3, <5>4 DEF Unclocked
            <4>3. V = {} <=> U = {}
                BY <3>4, <4>2
            <4> QED BY <3>1, <4>1, <4>3 DEF ClockedAt
        <3> QED BY <3>5, <3>6
    <2>5. Clocked'
        <3>1. \A r \in Router : routingupdate'[r] <= clk'
            BY <1>1, <2>1 DEF Clocked, router
        <3> QED BY <1>1, <2>3, <2>4, <3>1, ClockedNext DEF router
    <2> QED BY <2>2, <2>5
<1>12. PlainText' = PlainText
    BY <1>1, SameNet
<1> QED BY <1>1, <1>8, <1>9, <1>10, <1>11, <1>12 DEF DvrInv

\* The cost at r of its link to i, when the driver sends the first of s and v
\* was coming: the first command for r in s is the only one.
Outstanding(s, r, i) == {k \in 1..Len(s) : s[k].to = r /\ ForLink(s[k].m, r, i)}

LEMMA WillCostNext ==
    ASSUME NEW r, NEW i, NEW v
    PROVE  WillCost(r, i, v)' <=>
             \/ r \in dead'
             \/ \E k \in Outstanding(mainOut', r, i) : v = SignedChar(mainOut'[k].m.value)
             \/ Outstanding(mainOut', r, i) = {} /\ Coming(inbox'[r], neighbours'[r][i], r, i, v)
<1>1. Unsent(r, i)' = Outstanding(mainOut', r, i)
    BY DEF Unsent, Outstanding
<1>2. WillCost(r, i, v)' <=>
             \/ r \in dead'
             \/ \E k \in Unsent(r, i)' : v = SignedChar(mainOut'[k].m.value)
             \/ Unsent(r, i)' = {} /\ Coming(inbox'[r], neighbours'[r][i], r, i, v)
    BY DEF WillCost, Coming, Costs, Waiting
<1> QED BY <1>1, <1>2

\* Something else than a cost command for the link is sent or inserted first.
LEMMA WillCostTail ==
    ASSUME IsSequence(mainOut), mainOut # << >>, mainOut' = Tail(mainOut),
           neighbours' = neighbours, dead' = dead, NEW r, NEW i, NEW v,
           ~(mainOut[1].to = r /\ ForLink(mainOut[1].m, r, i)),
           Coming(inbox[r], neighbours[r][i], r, i, v) => Coming(inbox'[r], neighbours[r][i], r, i, v),
           WillCost(r, i, v)
    PROVE  WillCost(r, i, v)'
<1> DEFINE U == Unsent(r, i)
           V == Outstanding(mainOut', r, i)
<1>1. /\ 1 \in 1..Len(mainOut) /\ Len(mainOut) \in Nat /\ Len(mainOut') = Len(mainOut) - 1
      /\ \A k \in 1..Len(mainOut') : k + 1 \in 1..Len(mainOut) /\ mainOut'[k] = mainOut[k + 1]
    BY Shortened
<1>2. \A k \in V : k \in 1..Len(mainOut') /\ k + 1 \in U /\ mainOut'[k] = mainOut[k + 1]
    BY <1>1 DEF Unsent, Outstanding
<1>3. ASSUME NEW k \in U PROVE k - 1 \in V /\ mainOut'[k - 1] = mainOut[k]
    <2>1. k \in 1..Len(mainOut) /\ mainOut[k].to = r /\ ForLink(mainOut[k].m, r, i)
        BY DEF Unsent
    <2>2. k # 1
        BY <2>1
    <2>3. k - 1 \in 1..Len(mainOut') /\ (k - 1) + 1 = k
        BY <1>1, <2>1, <2>2
    <2>4. mainOut'[k - 1] = mainOut[k]
        BY <1>1, <2>3
    <2> QED BY <2>1, <2>3, <2>4 DEF Outstanding
<1>4. U = {} <=> V = {}
    BY <1>2, <1>3
<1>5. \/ r \in dead
      \/ \E k \in U : v = SignedChar(mainOut[k].m.value)
      \/ U = {} /\ Coming(inbox[r], neighbours[r][i], r, i, v)
    BY WillCostIs
<1> HIDE DEF U, V
<1>6. \/ r \in dead'
      \/ \E k \in V : v = SignedChar(mainOut'[k].m.value)
      \/ V = {} /\ Coming(inbox'[r], neighbours'[r][i], r, i, v)
    BY <1>3, <1>4, <1>5
<1> QED BY <1>6, WillCostNext DEF V

LEMMA MainSendsStep ==
    ASSUME DvrInv, MainSends
    PROVE  DvrInv'
<1> DEFINE q == mainOut[1].to
           x == mainOut[1].m
           X == [i \in Router |-> IF i = q THEN {x} ELSE {}]
<1>1. /\ UNCHANGED <<net, router, clk, timerOut, downLinks, commands, history>>
      /\ mainOut # << >> /\ mainOut' = Tail(mainOut)
      /\ ~IsRule(Head(mainOut))
      /\ inbox' = Arrived(inbox, Head(mainOut).to, Head(mainOut).m)
    BY DEF MainSends
<1>2. IsSequence(mainOut)
    BY DEF DvrInv, Sent
<1>3. /\ Head(mainOut) = mainOut[1] /\ 1 \in 1..Len(mainOut) /\ IsSequence(mainOut')
      /\ Len(mainOut) \in Nat /\ Len(mainOut') = Len(mainOut) - 1
      /\ \A k \in 1..Len(mainOut') : k + 1 \in 1..Len(mainOut) /\ mainOut'[k] = mainOut[k + 1]
    BY <1>1, <1>2, Shortened
<1>4. /\ q \in Router /\ x.type \in {"cost", "send", "show"} /\ CostMessage(x, q)
      /\ \A k \in 1..Len(mainOut) : mainOut[k].to = q => k = 1
    BY <1>1, <1>3 DEF DvrInv, Sent, IsRule
<1>5. inbox' = Arrived(inbox, q, x)
    BY <1>1, <1>3
<1>6. /\ DOMAIN inbox' = Router
      /\ \A i \in Router : Extends(inbox[i], inbox'[i], X[i])
      /\ \A i \in Router : i # q => inbox'[i] = inbox[i]
      /\ q \notin dead => inbox'[q] = Append(inbox[q], x)
    <2> HIDE DEF q, x
    <2> QED BY <1>4, <1>5, Comes
<1>7. \A i \in Router : \A y \in X[i] : y = x /\ i = q
    OBVIOUS
<1> HIDE DEF X, x, q
<1>8. TypeOK'
    BY <1>1, RoutersRest DEF DvrInv, TypeOK
<1>9. Sent'
    <2>1. ASSUME NEW r \in Router, NEW k \in 1..Len(inbox'[r]) PROVE Proper(inbox'[r][k], r, routingupdate')
        <3>1. (k \in 1..Len(inbox[r]) /\ inbox'[r][k] = inbox[r][k]) \/ (inbox'[r][k] = x /\ r = q)
            BY <1>6, <1>7, ExtendsProps
        <3>2. k \in 1..Len(inbox[r]) => Proper(inbox[r][k], r, routingupdate)
            BY ProperIs
        <3>3. Proper(x, q, routingupdate)
            BY <1>4 DEF Proper
        <3> QED BY <1>1, <3>1, <3>2, <3>3 DEF router
    <2>2. \A r \in Router : IsSequence(inbox'[r])
        BY <1>6 DEF Extends
    <2>3. \A k \in 1..Len(mainOut') : Order(mainOut'[k])
        BY <1>3 DEF DvrInv, Sent, Order
    <2>4. ASSUME NEW j \in 1..Len(mainOut'), NEW k \in 1..Len(mainOut'), mainOut'[j].to = mainOut'[k].to
          PROVE  j = k
        <3>1. j + 1 = k + 1
            BY <1>3, <2>4 DEF DvrInv, Sent
        <3> QED BY <1>3, <3>1
    <2>5. /\ IsSequence(timerOut')
          /\ \A k \in 1..Len(timerOut') : timerOut'[k].to \in Router /\ timerOut'[k].m = [type |-> "clk"]
        BY <1>1 DEF DvrInv, Sent
    <2> QED BY <1>1, <1>3, <1>6, <2>1, <2>2, <2>3, <2>4, <2>5, SentNext
<1>10. Agreed'
    <2>1. ASSUME NEW r \in Router, NEW i \in Nbr(r), NEW v, WillCost(r, i, v) PROVE WillCost(r, i, v)'
        <3>1. neighbours' = neighbours /\ dead' = dead /\ IsSequence(inbox[r])
            BY <1>1 DEF router, DvrInv, Sent
        <3>2. CASE r \in dead
            BY <3>1, <3>2, WillCostNext
        <3>3. CASE r \notin dead /\ r = q /\ ForLink(x, r, i)
            <4>1. \A k \in Unsent(r, i) : k = 1
                BY <1>4, <3>3 DEF Unsent
            <4>2. 1 \in Unsent(r, i)
                BY <1>3, <3>3 DEF Unsent, q, x
            <4>3. v = SignedChar(x.value)
                BY <2>1, <3>3, <4>1, <4>2, WillCostIs DEF x
            <4>4. Outstanding(mainOut', r, i) = {}
                <5> SUFFICES ASSUME NEW k \in Outstanding(mainOut', r, i) PROVE FALSE
                    OBVIOUS
                <5>1. k \in 1..Len(mainOut') /\ k + 1 \in Unsent(r, i)
                    BY <1>3 DEF Unsent, Outstanding
                <5>2. k + 1 = 1
                    BY <4>1, <5>1
                <5> QED BY <1>3, <5>1, <5>2
            <4>5. Coming(Append(inbox[r], x), neighbours[r][i], r, i, SignedChar(x.value))
                BY <3>1, <3>3, ComingLast
            <4>6. inbox'[r] = Append(inbox[r], x)
                BY <1>6, <3>3
            <4>7. Coming(inbox'[r], neighbours'[r][i], r, i, v)
                BY <3>1, <4>3, <4>5, <4>6
            <4> QED BY <4>4, <4>7, WillCostNext
        <3>4. CASE ~(r = q /\ ForLink(x, r, i))
            <4>1. \A y \in X[r] : ~ForLink(y, r, i)
                BY <1>7, <3>4
            <4>2. Coming(inbox[r], neighbours[r][i], r, i, v) => Coming(inbox'[r], neighbours[r][i], r, i, v)
                BY <1>6, <4>1, ComingExtends
            <4> QED BY <1>1, <1>2, <2>1, <3>1, <3>4, <4>2, WillCostTail DEF q, x
        <3> QED BY <3>2, <3>3, <3>4
    <2> QED BY <1>1, <2>1, AgreedNext DEF router, history
<1>11. ASSUME PlainText PROVE Clocked' /\ Tracked'
    <2>1. Clocked /\ Tracked
        BY <1>11 DEF DvrInv
    <2>2. Tracked'
        <3>1. \A i \in Router : \A y \in X[i] : y.type # "Update"
            BY <1>4, <1>7
        <3> QED BY <1>1, <1>6, <2>1, <3>1, TrackedGrown DEF history
    <2>3. Outgoing(timerOut', mainOut')
        BY <1>1, <1>3, <2>1 DEF Clocked, Outgoing
    <2>4. x.type = "send" => x.msg # "clk"
        BY <1>3, <2>1 DEF Clocked, x
    <2>5. ASSUME NEW r \in Router \ dead PROVE ClockedAt(inbox'[r], Unclocked(r)', routingupdate'[r], clk')
        <3>1. /\ ClockedAt(inbox[r], Unclocked(r), routingupdate[r], clk)
              /\ routingupdate'[r] = routingupdate[r] /\ clk' = clk
            BY <1>1, <2>1, ClockedIs DEF router
        <3>2. Unclocked(r)' = Unclocked(r)
            BY <1>1 DEF Unclocked
        <3>3. Ticks(inbox'[r]) = Ticks(inbox[r])
            <4>1. \A y \in X[r] : Kind(y) # "clk"
                BY <1>4, <1>7 DEF Kind
            <4> QED BY <1>6, <4>1, TicksExtends
        <3>4. ASSUME NEW k \in 1..Len(inbox'[r])
              PROVE  inbox'[r][k].type \in {"send", "frwd"} => inbox'[r][k].msg # "clk"
            <4>1. (k \in 1..Len(inbox[r]) /\ inbox'[r][k] = inbox[r][k]) \/ inbox'[r][k] = x
                BY <1>6, <1>7, ExtendsProps
            <4> QED BY <1>4, <2>4, <3>1, <4>1 DEF ClockedAt
        <3> QED BY <3>1, <3>2, <3>3, <3>4 DEF ClockedAt
    <2>6. Clocked'
        <3>1. \A r \in Router : routingupdate'[r] <= clk'
            BY <1>1, <2>1 DEF Clocked, router
        <3> QED BY <1>1, <2>3, <2>5, <3>1, ClockedNext DEF router
    <2> QED BY <2>2, <2>6
<1>12. PlainText' = PlainText
    BY <1>1, SameNet
<1> QED BY <1>1, <1>8, <1>9, <1>10, <1>11, <1>12 DEF DvrInv

\* A rule of the packet filter.
LEMMA MainInsertsStep ==
    ASSUME DvrInv, MainInserts
    PROVE  DvrInv'
<1> DEFINE o == mainOut[1]
<1>1. /\ UNCHANGED <<net, router, inbox, clk, timerOut, commands, dropped, linkCost, fate>>
      /\ mainOut # << >> /\ mainOut' = Tail(mainOut) /\ IsRule(Head(mainOut))
      /\ downLinks' \subseteq downLinks \cup {<<Head(mainOut).m.from, Head(mainOut).to>>}
    BY DEF MainInserts
<1>2. IsSequence(mainOut)
    BY DEF DvrInv, Sent
<1>3. /\ Head(mainOut) = o /\ 1 \in 1..Len(mainOut) /\ IsSequence(mainOut')
      /\ Len(mainOut) \in Nat /\ Len(mainOut') = Len(mainOut) - 1
      /\ \A k \in 1..Len(mainOut') : k + 1 \in 1..Len(mainOut) /\ mainOut'[k] = mainOut[k + 1]
    BY <1>1, <1>2, Shortened
<1>4. IsRule(o) /\ o.m.from \in Router /\ o.to \in Router
    BY <1>1, <1>3 DEF DvrInv, Sent
<1>5. TypeOK'
    <2>1. downLinks' \subseteq Router \X Router
        BY <1>1, <1>3, <1>4 DEF DvrInv, TypeOK
    <2> QED BY <1>1, <2>1, RoutersRest DEF DvrInv, TypeOK
<1> HIDE DEF o
<1>6. Sent'
    <2>1. \A r \in Router : IsSequence(inbox'[r]) /\ \A k \in 1..Len(inbox'[r]) : Proper(inbox'[r][k], r, routingupdate')
        BY <1>1, ProperIs DEF DvrInv, Sent, router
    <2>2. \A k \in 1..Len(mainOut') : Order(mainOut'[k])
        BY <1>3 DEF DvrInv, Sent, Order
    <2>3. ASSUME NEW j \in 1..Len(mainOut'), NEW k \in 1..Len(mainOut'), mainOut'[j].to = mainOut'[k].to
          PROVE  j = k
        <3>1. j + 1 = k + 1
            BY <1>3, <2>3 DEF DvrInv, Sent
        <3> QED BY <1>3, <3>1
    <2>4. /\ IsSequence(timerOut') /\ DOMAIN inbox' = Router
          /\ \A k \in 1..Len(timerOut') : timerOut'[k].to \in Router /\ timerOut'[k].m = [type |-> "clk"]
        BY <1>1 DEF DvrInv, Sent
    <2> QED BY <1>1, <1>3, <2>1, <2>2, <2>3, <2>4, SentNext
<1>7. Agreed'
    <2>1. ASSUME NEW r \in Router, NEW i \in Nbr(r), NEW v, WillCost(r, i, v) PROVE WillCost(r, i, v)'
        <3>1. ~ForLink(mainOut[1].m, r, i)
            BY <1>4 DEF IsRule, ForLink, o
        <3>2. neighbours' = neighbours /\ dead' = dead /\ inbox' = inbox
            BY <1>1 DEF router
        <3> QED BY <1>1, <1>2, <2>1, <3>1, <3>2, WillCostTail
    <2> QED BY <1>1, <2>1, AgreedNext DEF router
<1>8. ASSUME PlainText PROVE Clocked' /\ Tracked'
    <2>1. Clocked /\ Tracked
        BY <1>8 DEF DvrInv
    <2>2. Tracked'
        BY <1>1, <2>1, TrackedRests
    <2>3. Outgoing(timerOut', mainOut')
        BY <1>1, <1>3, <2>1 DEF Clocked, Outgoing
    <2>4. \A r \in Router \ dead' : ClockedAt(inbox'[r], Unclocked(r)', routingupdate'[r], clk')
        <3>1. \A r : Unclocked(r)' = Unclocked(r)
            BY <1>1 DEF Unclocked
        <3> QED BY <1>1, <2>1, <3>1, ClockedIs DEF router
    <2>5. \A r \in Router : routingupdate'[r] <= clk'
        BY <1>1, <2>1 DEF Clocked, router
    <2> QED BY <1>1, <2>2, <2>3, <2>4, <2>5, ClockedNext
<1>9. PlainText' = PlainText
    BY <1>1, SameNet
<1> QED BY <1>1, <1>5, <1>6, <1>7, <1>8, <1>9 DEF DvrInv

\* A command is given, and what it makes the driver send was not sent before.
LEMMA CommandStep ==
    ASSUME DvrInv, Command
    PROVE  DvrInv'
<1>1. /\ UNCHANGED <<net, router, inbox, clk, timerOut, downLinks>> /\ mainOut = << >>
      /\ commands < Len(Session) /\ commands' = commands + 1
    BY DEF Command
<1>2. PICK c \in Session[commands'] : CostCommand(c) \/ SendCommand(c) \/ LinkCommand(c)
    BY DEF Command
<1>3. commands' \in 1..Len(Session) /\ commands' \in 0..Len(Session)
    <2>1. Len(Session) \in Nat /\ commands \in 0..Len(Session)
        BY SessionAssumption DEF DvrInv, TypeOK, Session
    <2> QED BY <1>1, <2>1
<1>4. /\ c.ip1 \in Router
      /\ c.type \in {"cost", "down", "up"} => {c.ip1, c.ip2} \in DOMAIN Topology
      /\ c.type = "cost" => c.value \in Int
    <2>1. /\ c.ip1 \in Router
          /\ c.type \in {"cost", "down", "up"} => {c.ip1, c.ip2} \in DOMAIN Topology
          /\ c.type = "cost" => c.value \in Packed
        BY <1>2, <1>3, SessionAssumption DEF DvrInv, Session, Router, Topology
    <2> QED BY <2>1 DEF Packed
<1> DEFINE l == {c.ip1, c.ip2}
           new == c.type = "cost"
           rule == c.type \in {"down", "up"}
           down(to, from) == [to |-> to, m |-> [type |-> c.type, from |-> from]]
<1>5. c.type \in {"cost", "send", "show", "down", "up"} /\ (new <=> CostCommand(c))
    BY <1>2 DEF CostCommand, SendCommand, LinkCommand
<1>6. /\ new \/ rule => c.ip1 # c.ip2 /\ c.ip1 \in Router /\ c.ip2 \in Router /\ l \in DOMAIN Topology
      /\ new => /\ mainOut' = <<[to |-> c.ip1, m |-> c], [to |-> c.ip2, m |-> c]>>
                /\ linkCost' = [linkCost EXCEPT ![l] = c.value]
      /\ ~new => linkCost' = linkCost
      /\ ~new /\ ~rule => mainOut' = <<[to |-> c.ip1, m |-> c]>>
      /\ rule => mainOut' = <<down(c.ip2, c.ip1), down(c.ip1, c.ip2)>>
    <2>1. new \/ rule => c.ip1 # c.ip2 /\ c.ip1 \in Router /\ c.ip2 \in Router /\ l \in DOMAIN Topology
        BY <1>4, LinkEnds DEF DvrInv
    <2>2. CASE new
        BY <1>5, <2>1, <2>2 DEF CostCommand
    <2>3. CASE rule
        BY <1>2, <2>1, <2>3 DEF CostCommand, SendCommand, LinkCommand, history
    <2>4. CASE ~new /\ ~rule
        BY <1>2, <2>4 DEF CostCommand, SendCommand, LinkCommand, history
    <2> QED BY <2>2, <2>3, <2>4
<1>7. dropped' = dropped
    BY <1>2 DEF CostCommand, SendCommand, LinkCommand, history
<1>8. IsSequence(mainOut') /\ Len(mainOut') \in Nat
    <2> DEFINE a == [to |-> c.ip1, m |-> c]
               b == [to |-> c.ip2, m |-> c]
               e == down(c.ip2, c.ip1)
               f == down(c.ip1, c.ip2)
    <2>1. mainOut' \in {<<a, b>>, <<a>>, <<e, f>>}
        BY <1>6
    <2> HIDE DEF a, b, e, f
    <2>2. <<a, b>> \in Seq({a, b, e, f})
        OBVIOUS
    <2>3. <<a>> \in Seq({a, b, e, f})
        OBVIOUS
    <2>4. <<e, f>> \in Seq({a, b, e, f})
        OBVIOUS
    <2>5. mainOut' \in Seq({a, b, e, f})
        BY <2>1, <2>2, <2>3, <2>4
    <2>6. IsSequence(mainOut')
        BY <2>5, SeqIs
    <2> QED BY <2>6, SeqProps
\* What the driver has to do for the command.
<1>9. ASSUME NEW k \in 1..Len(mainOut')
      PROVE  /\ new => mainOut'[k].m = c /\ ((k = 1 /\ mainOut'[k].to = c.ip1) \/ (k = 2 /\ mainOut'[k].to = c.ip2))
             /\ ~new /\ ~rule => mainOut'[k].m = c /\ k = 1 /\ mainOut'[k].to = c.ip1
             /\ rule => \/ k = 1 /\ mainOut'[k] = down(c.ip2, c.ip1)
                        \/ k = 2 /\ mainOut'[k] = down(c.ip1, c.ip2)
    <2>1. CASE new
        <3>1. mainOut' = <<[to |-> c.ip1, m |-> c], [to |-> c.ip2, m |-> c]>>
            BY <1>6, <2>1
        <3> QED BY <2>1, <3>1
    <2>2. CASE rule
        <3>1. mainOut' = <<down(c.ip2, c.ip1), down(c.ip1, c.ip2)>>
            BY <1>6, <2>2
        <3> HIDE DEF down
        <3> QED BY <2>2, <3>1
    <2>3. CASE ~new /\ ~rule
        <3>1. mainOut' = <<[to |-> c.ip1, m |-> c]>>
            BY <1>6, <2>3
        <3> QED BY <2>3, <3>1
    <2> QED BY <2>1, <2>2, <2>3
<1>10. new => /\ 1 \in 1..Len(mainOut') /\ mainOut'[1].to = c.ip1
              /\ 2 \in 1..Len(mainOut') /\ mainOut'[2].to = c.ip2
    <2>1. ASSUME new
          PROVE  Len(mainOut') = 2 /\ mainOut'[1].to = c.ip1 /\ mainOut'[2].to = c.ip2
        BY <1>6, <2>1
    <2> HIDE DEF new
    <2>2. 1 \in 1..2 /\ 2 \in 1..2
        OBVIOUS
    <2> QED BY <2>1, <2>2, Zenon
<1> HIDE DEF new, rule
<1>11. TypeOK'
    <2>1. clk' \in 0..net.clocks
        BY <1>1 DEF DvrInv, TypeOK
    <2>2. downLinks' \subseteq Router \X Router
        BY <1>1 DEF DvrInv, TypeOK
    <2> QED BY <1>1, <1>3, <2>1, <2>2, RoutersRest
<1>12. Sent'
    <2>1. \A r \in Router : IsSequence(inbox'[r]) /\ \A k \in 1..Len(inbox'[r]) : Proper(inbox'[r][k], r, routingupdate')
        BY <1>1, ProperIs DEF DvrInv, Sent, router
    <2>2. ASSUME NEW k \in 1..Len(mainOut') PROVE Order(mainOut'[k])
        <3>1. CASE new
            <4>1. mainOut'[k].m = c /\ mainOut'[k].to \in {c.ip1, c.ip2} /\ c.type = "cost"
                BY <1>9, <3>1 DEF new
            <4>2. CostMessage(c, mainOut'[k].to)
                BY <1>4, <4>1 DEF CostMessage
            <4> QED BY <1>6, <3>1, <4>1, <4>2 DEF Order, IsRule
        <3>2. CASE rule
            <4>1. /\ mainOut'[k].m.type = c.type /\ mainOut'[k].to \in {c.ip1, c.ip2}
                  /\ mainOut'[k].m.from \in {c.ip1, c.ip2} /\ c.type \in {"down", "up"}
                BY <1>9, <3>2 DEF rule
            <4> HIDE DEF down
            <4> QED BY <1>6, <3>2, <4>1 DEF Order, IsRule, CostMessage
        <3>3. CASE ~new /\ ~rule
            <4>1. mainOut'[k].m = c /\ mainOut'[k].to = c.ip1 /\ c.type \in {"send", "show"}
                BY <1>5, <1>9, <3>3 DEF new, rule
            <4> QED BY <1>4, <4>1 DEF Order, IsRule, CostMessage
        <3> QED BY <3>1, <3>2, <3>3
    <2>3. \A j, k \in 1..Len(mainOut') : mainOut'[j].to = mainOut'[k].to => j = k
        <3>1. CASE new
            BY <1>6, <1>9, <3>1
        <3>2. CASE rule
            BY <1>6, <1>9, <3>2
        <3>3. CASE ~new /\ ~rule
            BY <1>9, <3>3
        <3> QED BY <3>1, <3>2, <3>3
    <2>4. /\ IsSequence(timerOut') /\ DOMAIN inbox' = Router
          /\ \A k \in 1..Len(timerOut') : timerOut'[k].to \in Router /\ timerOut'[k].m = [type |-> "clk"]
        BY <1>1 DEF DvrInv, Sent
    <2> QED BY <1>1, <1>8, <2>1, <2>2, <2>3, <2>4, SentNext
<1>13. Agreed'
    <2>1. DOMAIN linkCost = DOMAIN Topology
        BY DEF DvrInv, Agreed
    <2>2. ASSUME NEW r \in Router, NEW i \in Nbr(r)
          PROVE  /\ neighbours'[r][i] \in LinkCost({r, i})
                 /\ \E v \in LinkCost({r, i}) : /\ WillCost(r, i, v)' /\ WillCost(i, r, v)'
                                                /\ linkCost'[{r, i}] \in -128..127 => v = linkCost'[{r, i}]
        <3>1. neighbours'[r][i] \in LinkCost({r, i})
            BY <1>1 DEF DvrInv, Agreed, router
        <3>2. {r, i} \in DOMAIN Topology /\ i \in Router /\ r # i /\ r \in Nbr(i)
            BY NbrProps DEF DvrInv
        <3>3. CASE new /\ {r, i} = l
            <4> DEFINE v == SignedChar(c.value)
            <4>1. linkCost'[{r, i}] = c.value /\ c.value \in Int
                BY <1>4, <1>6, <2>1, <3>2, <3>3 DEF new
            <4>2. v \in -128..127 /\ (c.value \in -128..127 => v = c.value)
                BY <4>1, ByteRange
            <4>3. ASSUME NEW p, NEW o, {p, o} = l, p # o PROVE WillCost(p, o, v)'
                <5>1. ForLink(c, p, o)
                    BY <3>3, <4>3 DEF ForLink, new
                <5>2. PICK k \in 1..Len(mainOut') : mainOut'[k].to = p
                    <6>1. p = c.ip1 \/ p = c.ip2
                        BY <4>3
                    <6>2. /\ 1 \in 1..Len(mainOut') /\ mainOut'[1].to = c.ip1
                          /\ 2 \in 1..Len(mainOut') /\ mainOut'[2].to = c.ip2
                        BY <1>10, <3>3
                    <6> QED BY <6>1, <6>2, Zenon
                <5>3. mainOut'[k].m = c
                    BY <1>9, <3>3
                <5>4. k \in Outstanding(mainOut', p, o) /\ v = SignedChar(mainOut'[k].m.value)
                    BY <5>1, <5>2, <5>3 DEF Outstanding
                <5> HIDE DEF v
                <5> QED BY <5>4, WillCostNext
            <4>4. WillCost(r, i, v)' /\ WillCost(i, r, v)'
                BY <3>2, <3>3, <4>3
            <4> HIDE DEF v
            <4>5. v \in LinkCost({r, i})
                BY <4>2 DEF LinkCost
            <4> QED BY <3>1, <4>1, <4>2, <4>4, <4>5
        <3>4. CASE ~(new /\ {r, i} = l)
            <4>1. linkCost'[{r, i}] = linkCost[{r, i}]
                BY <1>6, <2>1, <3>2, <3>4
            <4>2. ASSUME NEW p, NEW o, {p, o} = {r, i}, NEW v, WillCost(p, o, v) PROVE WillCost(p, o, v)'
                <5>1. Unsent(p, o) = {}
                    BY <1>1, EmptySeq DEF Unsent
                <5>2. p \in dead \/ Coming(inbox[p], neighbours[p][o], p, o, v)
                    BY <4>2, <5>1, WillCostIs
                <5>3. ASSUME NEW k \in Outstanding(mainOut', p, o) PROVE FALSE
                    <6>1. k \in 1..Len(mainOut') /\ ForLink(mainOut'[k].m, p, o)
                        BY DEF Outstanding
                    <6>2. ~rule
                        <7> SUFFICES ASSUME rule PROVE FALSE
                            OBVIOUS
                        <7>1. mainOut'[k].m.type = c.type /\ c.type # "cost"
                            BY <1>9, <6>1 DEF rule
                        <7> QED BY <6>1, <7>1 DEF ForLink
                    <6>3. ForLink(c, p, o)
                        BY <1>9, <6>1, <6>2
                    <6>4. c.type = "cost" /\ l = {r, i}
                        BY <4>2, <6>3 DEF ForLink
                    <6> QED BY <3>4, <6>4 DEF new
                <5>4. inbox' = inbox /\ neighbours' = neighbours /\ dead' = dead
                    BY <1>1 DEF router
                <5> QED BY <5>2, <5>3, <5>4, WillCostNext
            <4>3. PICK v \in LinkCost({r, i}) : /\ WillCost(r, i, v) /\ WillCost(i, r, v)
                                                /\ linkCost[{r, i}] \in -128..127 => v = linkCost[{r, i}]
                BY DEF DvrInv, Agreed
            <4>4. WillCost(r, i, v)' /\ WillCost(i, r, v)'
                BY <4>2, <4>3
            <4> QED BY <3>1, <4>1, <4>3, <4>4
        <3> QED BY <3>3, <3>4
    <2>3. DOMAIN linkCost' = DOMAIN Topology
        BY <1>6, <2>1
    <2> QED BY <1>1, <2>2, <2>3, AgreedFrom
<1>14. ASSUME PlainText PROVE Clocked' /\ Tracked'
    <2>1. Clocked /\ Tracked
        BY <1>14 DEF DvrInv
    <2>2. Tracked'
        BY <1>1, <1>7, <2>1, TrackedRests
    <2>3. Outgoing(timerOut', mainOut')
        <3>1. c.type = "send" => c.msg # "clk"
            BY <1>2, <1>3, <1>14 DEF PlainText
        <3>2. ASSUME NEW k \in 1..Len(mainOut'), mainOut'[k].m.type = "send" PROVE mainOut'[k].m.msg # "clk"
            <4>1. CASE rule
                <5>1. mainOut'[k].m.type = c.type /\ c.type # "send"
                    BY <1>9, <4>1 DEF rule
                <5> QED BY <3>2, <5>1
            <4>2. CASE ~rule
                BY <1>9, <3>1, <3>2, <4>2
            <4> QED BY <4>1, <4>2
        <3> QED BY <1>1, <2>1, <3>2 DEF Clocked, Outgoing
    <2>4. \A r \in Router \ dead' : ClockedAt(inbox'[r], Unclocked(r)', routingupdate'[r], clk')
        <3>1. \A r : Unclocked(r)' = Unclocked(r)
            BY <1>1 DEF Unclocked
        <3> QED BY <1>1, <2>1, <3>1, ClockedIs DEF router
    <2>5. Clocked'
        <3>1. \A r \in Router : routingupdate'[r] <= clk'
            BY <1>1, <2>1 DEF Clocked, router
        <3> QED BY <1>1, <2>3, <2>4, <3>1, ClockedNext
    <2> QED BY <2>2, <2>5
<1>15. PlainText' = PlainText
    BY <1>1, SameNet
<1> QED BY <1>1, <1>11, <1>12, <1>13, <1>14, <1>15 DEF DvrInv

-----------------------------------------------------------------------------
(* The theorems.                                                           *)

LEMMA DvrInit ==
    ASSUME Init
    PROVE  DvrInv
<1>1. net \in Networks
    BY DEF Init
<1>2. \A r \in Router : \A i \in Nbr(r) : /\ i \in Router \ {r} /\ r \in Nbr(i) /\ {r, i} \in DOMAIN Topology
                                          /\ Topology[{r, i}] \in Nat
    BY <1>1, NbrProps
<1>3. IsSequence(<< >>) /\ 1..Len(<< >>) = {}
    <2>1. << >> \in Seq({}) /\ Len(<< >>) = 0
        BY EmptySeq
    <2>2. IsSequence(<< >>)
        BY <2>1, SeqIs
    <2>3. 1..0 = {}
        OBVIOUS
    <2> QED BY <2>1, <2>2, <2>3
<1>4. TypeOK
    <2>1. INF \in Int
        BY INFAssumption
    <2>2. ASSUME NEW r \in Router, NEW d \in Router \ {r} PROVE InitialEntry(r, d) \in Entry(r, d)
        BY <1>2, <2>1 DEF InitialEntry, Entry
    <2>3. ASSUME NEW r \in Router
          PROVE  /\ DOMAIN routingtable[r] = Router \ {r}
                 /\ \A d \in Router \ {r} : routingtable[r][d] \in Entry(r, d)
                 /\ neighbours[r] \in [Nbr(r) -> Int]
                 /\ DOMAIN linktrack[r] = Nbr(r) /\ \A i \in Nbr(r) : linktrack[r][i] \in -1..routingupdate[i]
                 /\ IsSequence(buffer[r]) /\ \A k \in 1..Len(buffer[r]) : buffer[r][k].line \in Line
        <3>1. routingtable[r] = [d \in Router \ {r} |-> InitialEntry(r, d)]
            BY DEF Init
        <3>2. neighbours[r] = [i \in Nbr(r) |-> Topology[{r, i}]]
            BY DEF Init
        <3>3. linktrack[r] = [i \in Nbr(r) |-> 0] /\ \A i \in Nbr(r) : routingupdate[i] = 0
            BY <1>2 DEF Init
        <3>4. buffer[r] = << >>
            BY DEF Init
        <3>5. neighbours[r] \in [Nbr(r) -> Int]
            <4>1. \A i \in Nbr(r) : Topology[{r, i}] \in Int
                BY <1>2
            <4> QED BY <3>2, <4>1
        <3> QED BY <1>3, <2>2, <3>1, <3>3, <3>4, <3>5
    <2>4. net.clocks \in Nat /\ Len(Session) \in Nat
        BY <1>1, BoundsAssumption, SessionAssumption DEF Session
    <2>5. clk \in 0..net.clocks /\ commands \in 0..Len(Session)
        BY <2>4 DEF Init
    <2>6. /\ DOMAIN routingtable = Router /\ DOMAIN neighbours = Router /\ DOMAIN linktrack = Router
          /\ DOMAIN buffer = Router /\ routingupdate \in [Router -> Nat] /\ downLinks \subseteq Router \X Router
          /\ dead \subseteq Router
        BY DEF Init
    <2> QED BY <2>3, <2>5, <2>6 DEF TypeOK
<1>5. Sent
    <2>1. \A r \in Router : inbox[r] = << >>
        BY DEF Init
    <2>2. DOMAIN inbox = Router /\ timerOut = << >> /\ mainOut = << >>
        BY DEF Init
    <2> QED BY <1>3, <2>1, <2>2 DEF Sent
<1>6. Agreed
    <2>1. DOMAIN linkCost = DOMAIN Topology
        BY DEF Init
    <2>2. ASSUME NEW r \in Router, NEW i \in Nbr(r)
          PROVE  neighbours[r][i] = Topology[{r, i}] /\ WillCost(r, i, Topology[{r, i}])
        <3>1. neighbours[r] = [j \in Nbr(r) |-> Topology[{r, j}]]
            BY DEF Init
        <3>2. neighbours[r][i] = Topology[{r, i}]
            BY <3>1
        <3>3. inbox[r] = << >> /\ mainOut = << >>
            BY DEF Init
        <3>4. Unsent(r, i) = {} /\ Waiting(r, i) = {}
            BY <1>3, <3>3 DEF Unsent, Waiting
        <3> QED BY <3>2, <3>4 DEF WillCost
    <2>3. ASSUME NEW r \in Router, NEW i \in Nbr(r)
          PROVE  /\ neighbours[r][i] \in LinkCost({r, i})
                 /\ \E v \in LinkCost({r, i}) : /\ WillCost(r, i, v) /\ WillCost(i, r, v)
                                                /\ linkCost[{r, i}] \in -128..127 => v = linkCost[{r, i}]
        <3> DEFINE v == Topology[{r, i}]
        <3>1. {i, r} = {r, i} /\ i \in Router /\ r \in Nbr(i)
            BY <1>2
        <3>2. WillCost(r, i, v) /\ WillCost(i, r, v) /\ neighbours[r][i] = v
            BY <2>2, <3>1
        <3>3. v \in LinkCost({r, i})
            BY DEF LinkCost
        <3>4. linkCost[{r, i}] = v
            BY DEF Init
        <3> HIDE DEF v
        <3> QED BY <3>2, <3>3, <3>4
    <2> QED BY <2>1, <2>3 DEF Agreed
<1>7. ASSUME PlainText PROVE Clocked /\ Tracked
    <2>1. \A r \in Router : inbox[r] = << >> /\ routingupdate[r] = 0
        BY DEF Init
    <2>2. timerOut = << >> /\ mainOut = << >> /\ clk = 0 /\ dropped = {}
        BY DEF Init
    <2>3. Clocked
        <3>1. \A r \in Router : ClocksAt(r) = {} /\ Unclocked(r) = {}
            BY <1>3, <2>1, <2>2 DEF ClocksAt, Unclocked
        <3> QED BY <1>3, <2>1, <2>2, <3>1 DEF Clocked, Alive
    <2>4. Tracked
        <3>1. \A r \in Router : \A i \in Nbr(r) : linktrack[r][i] = 0 /\ routingupdate[i] = 0
            BY <1>2 DEF Init
        <3>2. 0 + 1 .. 0 = {}
            OBVIOUS
        <3> QED BY <1>3, <2>1, <2>2, <3>1, <3>2 DEF Tracked, Alive
    <2> QED BY <2>3, <2>4
<1> QED BY <1>1, <1>4, <1>5, <1>6, <1>7 DEF DvrInv

LEMMA DvrStep ==
    ASSUME DvrInv, [Next]_vars
    PROVE  DvrInv'
<1>1. ASSUME NEW r \in Router, Recv(r) PROVE DvrInv'
    BY <1>1, RecvStep
<1>2. CASE SendClock
    BY <1>2, SendClockStep
<1>3. CASE TimerSends
    BY <1>3, TimerSendsStep
<1>4. CASE MainSends
    BY <1>4, MainSendsStep
<1>5. CASE MainInserts
    BY <1>5, MainInsertsStep
<1>7. CASE Command
    BY <1>7, CommandStep
<1>6. CASE UNCHANGED vars
    <2>1. /\ UNCHANGED <<net, router, driver, history, inbox>> /\ PlainText' = PlainText
        BY <1>6, SameNet DEF vars
    <2>2. TypeOK'
        BY <2>1, TypesStay
    <2>3. Sent'
        <3>1. \A r \in Router : \A k \in 1..Len(inbox'[r]) : Proper(inbox'[r][k], r, routingupdate')
            BY <2>1, ProperIs DEF router
        <3>2. /\ DOMAIN inbox' = Router /\ IsSequence(timerOut') /\ IsSequence(mainOut')
              /\ \A r \in Router : IsSequence(inbox'[r])
              /\ \A k \in 1..Len(mainOut') : Order(mainOut'[k])
              /\ \A k \in 1..Len(timerOut') : timerOut'[k].to \in Router /\ timerOut'[k].m = [type |-> "clk"]
              /\ \A j, k \in 1..Len(mainOut') : mainOut'[j].to = mainOut'[k].to => j = k
            BY <2>1 DEF DvrInv, Sent, Order, driver
        <3> QED BY <2>1, <3>1, <3>2, SentNext
    <2>4. Agreed'
        <3>1. \A q, i, v : WillCost(q, i, v) => WillCost(q, i, v)'
            BY <2>1 DEF WillCost, Unsent, Waiting, router, driver
        <3> QED BY <2>1, <3>1, AgreedNext DEF router, history
    <2>5. ASSUME PlainText PROVE Clocked' /\ Tracked'
        <3>1. Clocked /\ Tracked
            BY <2>5 DEF DvrInv
        <3>2. \A r : Unclocked(r)' = Unclocked(r)
            BY <2>1 DEF Unclocked, driver
        <3>3. Outgoing(timerOut', mainOut')
            BY <2>1, <3>1, OutgoingIs DEF driver
        <3>4. \A r \in Router \ dead' : ClockedAt(inbox'[r], Unclocked(r)', routingupdate'[r], clk')
            BY <2>1, <3>1, <3>2, ClockedIs DEF router, driver
        <3>5. Clocked'
            <4>1. \A r \in Router : routingupdate'[r] <= clk'
                BY <2>1, <3>1 DEF Clocked, router, driver
            <4> QED BY <2>1, <3>3, <3>4, <4>1, ClockedNext
        <3> QED BY <2>1, <3>1, <3>5, TrackedRests DEF driver, history
    <2> QED BY <2>1, <2>2, <2>3, <2>4, <2>5 DEF DvrInv
<1> QED BY <1>1, <1>2, <1>3, <1>4, <1>5, <1>6, <1>7 DEF Next, Done

(* Every next hop is a neighbour, costs have the values the driver gave     *)
(* them, both ends of a link will agree, and as long as no packet holds    *)
(* the word clk, every update is accounted for -- whichever routers have   *)
(* died of a negative number (Routing.cpp:191, 196, 456).                  *)
THEOREM DvrInvariant == Spec => []DvrInv
<1>1. Init => DvrInv
    BY DvrInit
<1>2. DvrInv /\ [Next]_vars => DvrInv'
    BY DvrStep
<1> QED BY <1>1, <1>2, PTL DEF Spec

(* For every network, every session and every order of the datagrams: once *)
(* its datagrams are handled, a cost command has left the ends of a link   *)
(* that are alive with one cost (Routing.cpp:302-397).                     *)
THEOREM BothEndsAgree == Spec => []CostTaken
<1>1. ASSUME DvrInv PROVE CostTaken
    <2> SUFFICES ASSUME Quiet, NEW r \in Alive, NEW i \in Nbr(r)
                 PROVE  /\ i \in Alive => neighbours[r][i] = neighbours[i][r]
                        /\ linkCost[{r, i}] \in -128..127 => neighbours[r][i] = linkCost[{r, i}]
        BY DEF CostTaken
    <2>1. (\A k \in 1..Len(mainOut) : IsRule(mainOut[k])) /\ \A q \in Router : inbox[q] = << >>
        BY DEF Quiet, Settled
    <2>2. 1..Len(<< >>) = {}
        BY EmptySeq
    <2>3. \A q \in Router : \A j : Unsent(q, j) = {} /\ Waiting(q, j) = {}
        BY <2>1, <2>2 DEF Unsent, Waiting, IsRule, ForLink
    <2>4. \A q \in Alive : \A j, v : WillCost(q, j, v) => v = neighbours[q][j]
        BY <2>3 DEF WillCost, Alive
    <2>5. PICK v \in LinkCost({r, i}) : /\ WillCost(r, i, v) /\ WillCost(i, r, v)
                                        /\ linkCost[{r, i}] \in -128..127 => v = linkCost[{r, i}]
        BY <1>1 DEF DvrInv, Agreed, Alive
    <2>6. v = neighbours[r][i] /\ (i \in Alive => v = neighbours[i][r])
        BY <2>4, <2>5
    <2> QED BY <2>5, <2>6
<1> QED BY <1>1, DvrInvariant, PTL

(* A router that hears of one neighbour has given up the link to another   *)
(* whose last four updates were dropped, or that died before it sent them  *)
(* (Routing.cpp:160-174).                                                  *)
THEOREM SilenceIsNoticed == Spec => []SilenceNoticed
<1>1. ASSUME DvrInv PROVE SilenceNoticed
    <2> SUFFICES ASSUME PlainText, NEW r \in Alive, NEW i \in Nbr(r), NEW j \in Nbr(r),
                        Silent(r, i, 4), linktrack[r][j] = clk, linktrack[r][i] # -1
                 PROVE  FALSE
        BY DEF SilenceNoticed
    <2> DEFINE t == linktrack[r][i]
    <2>1. Clocked /\ Tracked /\ clk \in Nat /\ r \in Router
        BY <1>1 DEF DvrInv, TypeOK, Alive
    <2>2. i \in Router
        BY DEF Nbr
    <2>3. routingupdate[i] \in Nat /\ t \in -1..routingupdate[i] /\ routingupdate[i] <= clk
        BY <1>1, <2>1, <2>2 DEF DvrInv, TypeOK, Clocked
    <2>4. clk <= t + 3
        BY <2>1 DEF Tracked
    <2>5. clk >= 4 /\ \A k \in 0..3 : Missing(r, i, clk - k)
        <3>1. 4 - 1 = 3
            OBVIOUS
        <3> QED BY <3>1 DEF Silent
    <2>6. t > 0 => <<i, r, t>> \notin dropped
        BY <2>1 DEF Tracked
    <2> HIDE DEF t
    <2>7. clk - t \in 0..3 /\ clk - (clk - t) = t /\ t > 0 /\ ~(t > routingupdate[i])
        BY <2>1, <2>3, <2>4, <2>5
    <2>8. Missing(r, i, t)
        BY <2>5, <2>7
    <2> QED BY <2>6, <2>7, <2>8 DEF Missing
<1> QED BY <1>1, DvrInvariant, PTL

\* A step at which a link is given up.
LEMMA GivenUp ==
    ASSUME DvrInv, PlainText, [Next]_vars, NEW r \in Router, NEW i \in Nbr(r),
           linktrack[r][i] # -1, linktrack'[r][i] = -1,
           NEW n \in linktrack[r][i] + 1 .. linktrack[r][i] + 3
    PROVE  Missing(r, i, n)
<1> DEFINE m == Head(inbox[r])
<1>1. linktrack' # linktrack
    OBVIOUS
<1>2. PICK q \in Router : Recv(q)
    <2>1. CASE SendClock \/ TimerSends \/ MainSends \/ MainInserts \/ Command \/ UNCHANGED vars
        BY <1>1, <2>1 DEF SendClock, TimerSends, MainSends, MainInserts, Command, vars, router
    <2> QED BY <2>1 DEF Next, Done
<1>3. /\ q \in Alive /\ inbox[q] # << >> /\ Kind(Head(inbox[q])) = "Update" /\ ~Die(q)
      /\ UpdateRoutingTable(q, Head(inbox[q]), [inbox EXCEPT ![q] = Tail(@)])
    BY <1>1, <1>2 DEF Recv, SendRoutingUpdates, UpdateCost, Send, Frwd, Die, router
<1>4. q = r
    <2>1. linktrack' = [linktrack EXCEPT ![q] = linktrack'[q]] /\ DOMAIN linktrack = Router
        BY <1>3 DEF UpdateRoutingTable, DvrInv, TypeOK
    <2> QED BY <2>1
<1>5. /\ m.type = "Update" /\ m.from \in Nbr(r) /\ m.number = clk
      /\ m.number \in 1..routingupdate[m.from]
    BY <1>3, <1>4, UpdateIs
<1> DEFINE F == Overdue(Heard(r, m.from, m.number).track, m.number)
           h == FailLinks(Heard(r, m.from, m.number), m.number)
<1>6. linktrack'[r] = h.track
    BY <1>3, <1>4 DEF UpdateRoutingTable, DvrInv, TypeOK
<1>7. /\ h.track[i] = IF i \in F THEN -1 ELSE IF i = m.from THEN m.number ELSE linktrack[r][i]
      /\ i \in F <=> LET t == IF i = m.from THEN m.number ELSE linktrack[r][i]
                     IN  t # -1 /\ t + 3 < m.number
    BY <1>5, HeaderTyped
<1>8. clk \in Nat /\ linktrack[r][i] \in -1..routingupdate[i] /\ i \in Router /\ routingupdate[i] \in Nat
    <2>1. i \in Router
        BY DEF Nbr
    <2> QED BY <2>1 DEF DvrInv, TypeOK
<1>9. routingupdate[i] <= clk /\ (i \notin dead => routingupdate[i] \in {clk, clk - 1})
    BY <1>8 DEF DvrInv, Clocked, Alive
<1> HIDE DEF h, F, m
<1>10. linktrack[r][i] \in 0..clk /\ linktrack[r][i] + 3 < clk
    <2>1. linktrack[r][i] \in Int /\ linktrack[r][i] >= 0 /\ linktrack[r][i] <= clk
        BY <1>8, <1>9
    <2>2. CASE i \in F
        <3>1. i # m.from
            BY <1>5, <1>7, <1>8, <2>2
        <3> QED BY <1>5, <1>7, <1>8, <2>1, <2>2, <3>1
    <2>3. CASE i \notin F
        BY <1>5, <1>6, <1>7, <1>8, <2>3
    <2> QED BY <2>2, <2>3
<1>11. CASE n <= routingupdate[i]
    <2>1. n \in linktrack[r][i] + 1 .. routingupdate[i] /\ n # clk
        BY <1>8, <1>10, <1>11
    <2>2. \A k \in linktrack[r][i] + 1 .. routingupdate[i] :
            <<i, r, k>> \in dropped \/ (k = clk /\ Updates(r, i) # {})
        BY <1>3, <1>4 DEF DvrInv, Tracked
    <2> QED BY <2>1, <2>2 DEF Missing
<1>12. CASE ~(n <= routingupdate[i])
    <2>1. n > routingupdate[i] /\ n <= clk - 1
        BY <1>8, <1>10, <1>12
    <2>2. i \in dead
        BY <1>8, <1>9, <2>1
    <2> QED BY <2>1, <2>2 DEF Missing
<1> QED BY <1>11, <1>12

(* No link is given up while one of the three updates after the last one   *)
(* that came may still come: all three were dropped, or the other end died *)
(* before it sent them (Routing.cpp:169).                                  *)
THEOREM GivenUpMeansDropped == Spec => FailureMeansDropped
<1> DEFINE P == PlainText => \A r \in Router : \A i \in Nbr(r) :
                  linktrack[r][i] # -1 /\ linktrack'[r][i] = -1
                    => \A n \in linktrack[r][i] + 1 .. linktrack[r][i] + 3 : Missing(r, i, n)
<1>1. DvrInv /\ [Next]_vars => P
    BY GivenUp
<1>2. DvrInv /\ [Next]_vars => [P]_vars
    BY <1>1
<1> QED BY <1>2, DvrInvariant, PTL DEF Spec, FailureMeansDropped
=============================================================================
