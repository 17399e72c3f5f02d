-------------------------------- MODULE Dvr --------------------------------
(***************************************************************************)
(* The distance-vector routers of Routing.cpp and the driver of driver.py  *)
(* that gives them their clock and their commands.                         *)
(*                                                                         *)
(* Every router is one process with one UDP socket: the datagrams of the   *)
(* driver and of the other routers wait in inbox[r], in order of arrival,  *)
(* and are handled one at a time.  All routers run on one machine, so a    *)
(* datagram is lost only when the packet filter drops it, on a link that   *)
(* the driver took down, or when its receiver has died: a negative number  *)
(* in a datagram ends the process of the router that reads it.  A router   *)
(* is a number: the order of the routers is the order of their addresses,  *)
(* in which the maps of the program are walked through.                    *)
(***************************************************************************)
EXTENDS Integers, Sequences, FiniteSets, SequencesExt

CONSTANTS
  Networks,     \* what the program may be started with: [topology, hosts, session, clocks]
  INF,          \* the cost that stands for "unreachable"
  Undefined     \* the next hop of a destination without a route

(* topology: the lines of the topology file, from each link {i, j} to its  *)
(* cost; hosts: its addresses in the order in which the file names them;   *)
(* session: the commands given to the driver, one of session[1], then one  *)
(* of session[2], ...; clocks: bound on the clocks it sends.               *)

\* No cost that fits into a signed char is INF.
ASSUME INFAssumption == INF \in Nat /\ INF > 127
ASSUME NetworkAssumption ==
  \A n \in Networks : \A l \in DOMAIN n.topology :
    /\ l \subseteq Nat /\ Cardinality(l) = 2 /\ Undefined \notin l
    /\ n.topology[l] \in Nat /\ n.topology[l] < INF
ASSUME HostsAssumption ==
  \A n \in Networks :
    /\ n.hosts \in Seq(UNION DOMAIN n.topology)
    /\ \A r \in UNION DOMAIN n.topology : \E k \in 1..Len(n.hosts) : n.hosts[k] = r
    /\ \A j, k \in 1..Len(n.hosts) : n.hosts[j] = n.hosts[k] => j = k
\* Costs and lengths are packed into 16 bits.
Packed == -(2^15) .. 2^15 - 1

\* A command names hosts; a cost is for a link; a message is sent with its length.
ASSUME SessionAssumption ==
  \A n \in Networks : Len(n.session) \in Nat /\ \A k \in 1..Len(n.session) : \A c \in n.session[k] :
    /\ c.ip1 \in UNION DOMAIN n.topology
    /\ c.type \in {"cost", "down", "up"} => {c.ip1, c.ip2} \in DOMAIN n.topology
    /\ c.type = "cost" => c.value \in Packed
    /\ c.type = "send" => c.len \in Packed /\ c.len >= 0
ASSUME BoundsAssumption == \A n \in Networks : n.clocks \in Nat

VARIABLES
  net,           \* the member of Networks this run is about
  routingtable,  \* [r][d]: the Entry for d, with its next hop and its cost
  neighbours,    \* [r][i]: the cost of r's link to i
  linktrack,     \* [r][i]: the number of i's last update, -1: link down
  routingupdate, \* [r]: how many updates r has sent
  buffer,        \* [r]: the route lines in r's receive buffer, by offset
  dead,          \* the routers whose process has ended
  inbox,         \* [r]: the datagrams waiting at r's socket
  clk,           \* clocks sent by the driver
  timerOut,      \* datagrams the timer thread of the driver has yet to send
  mainOut,       \* datagrams its main thread has yet to send, rules it has yet to insert
  downLinks,     \* the pairs <<from, to>> with a DROP rule in front of the packet filter
  commands,      \* commands given so far
  dropped,       \* history: the updates <<from, to, number>> that were dropped
  calm,          \* history: clocks since the network was last changed
  linkCost,      \* history: the cost last commanded for each link
  fate           \* history: what became of the packets that were sent

router == <<routingtable, neighbours, linktrack, routingupdate, buffer, dead>>
driver == <<clk, timerOut, mainOut, downLinks, commands>>
history == <<dropped, calm, linkCost, fate>>
vars == <<net, router, inbox, driver, history>>

Topology == net.topology
Session == net.session

\* The addresses in the topology file.
Router == UNION DOMAIN Topology

Alive == Router \ dead

Nbr(r) == {i \in Router : i # r /\ {r, i} \in DOMAIN Topology}
Hosts == net.hosts

-----------------------------------------------------------------------------
(* Datagrams.  A route line is [dest, nexthop, cost]. *)

\* The number of characters of a cost or a counter written in decimal.
Digits(n) == LET m == IF n < 0 THEN -n ELSE n
             IN  (IF n < 0 THEN 1 ELSE 0) + (CHOOSE k \in 1..10 : (k = 1 \/ 10^(k-1) <= m) /\ m < 10^k)

\* Addresses have 12 characters: where the first line of an update begins,
\* and how long a line is.
HeaderLength(number) == 21 + Digits(number)
LineLength(line) == 27 + Digits(line.cost)

\* The lines of an update at their offsets in the receive buffer.
Placed(number, lines) ==
  [k \in 1..Len(lines) |->
     [at |-> FoldLeft(LAMBDA a, l : a + LineLength(l), HeaderLength(number), SubSeq(lines, 1, k - 1)),
      line |-> lines[k]]]

\* recvfrom writes the datagram over the front of the buffer and does not
\* terminate it: whole lines of earlier datagrams behind its end stay and are
\* read as lines of this one.  (The line the end falls into is cut; what is
\* left of it names no router.  The other datagrams are shorter than an update
\* with one line and so leave nothing behind for the next update to uncover.)
Received(buf, number, lines) ==
  LET end == FoldLeft(LAMBDA a, l : a + LineLength(l), HeaderLength(number), lines)
      over == Cardinality({k \in 1..Len(buf) : buf[k].at < end})
  IN  Placed(number, lines) \o SubSeq(buf, over + 1, Len(buf))

\* A link carries datagrams unless the packet filter drops them; the socket of
\* a router that has died takes none.
Passes(r, i) == <<r, i>> \notin downLinks
Arrived(box, i, m) == IF i \in dead THEN box ELSE [box EXCEPT ![i] = Append(@, m)]

-----------------------------------------------------------------------------
(* initRoutingTable: direct routes to the neighbours, none to the others.  *)

InitialEntry(r, d) ==
  IF d \in Nbr(r) THEN [nexthop |-> d, cost |-> Topology[{r, d}]]
                  ELSE [nexthop |-> Undefined, cost |-> INF]

Init ==
  /\ net \in Networks
  /\ routingtable = [r \in Router |-> [d \in Router \ {r} |-> InitialEntry(r, d)]]
  /\ neighbours = [r \in Router |-> [i \in Nbr(r) |-> Topology[{r, i}]]]
  /\ linktrack = [r \in Router |-> [i \in Nbr(r) |-> 0]]
  /\ routingupdate = [r \in Router |-> 0]
  /\ buffer = [r \in Router |-> <<>>]
  /\ dead = {}
  /\ inbox = [r \in Router |-> <<>>]
  /\ clk = 0 /\ timerOut = <<>> /\ mainOut = <<>>
  /\ downLinks = {} /\ commands = 0
  /\ dropped = {} /\ calm = 0 /\ linkCost = Topology /\ fate = {}

-----------------------------------------------------------------------------
(* sendRoutingUpdates: every route that is not unreachable, to every       *)
(* neighbour.                                                              *)

\* The k-th router of a set in the order of their addresses.
InOrder(S, k) == CHOOSE d \in S : Cardinality({e \in S : e < d}) = k - 1

\* Mutant: only the direct links are advertised.
RouteLines_direct(r) ==
  LET advertised == {d \in Router \ {r} : routingtable[r][d].nexthop = d /\ routingtable[r][d].cost # INF}
  IN  [k \in 1..Cardinality(advertised) |->
         LET d == InOrder(advertised, k)
         IN  [dest |-> d, nexthop |-> routingtable[r][d].nexthop, cost |-> routingtable[r][d].cost]]

RouteLines(r) ==
  LET advertised == {d \in Router \ {r} : routingtable[r][d].cost # INF}
  IN  [k \in 1..Cardinality(advertised) |->
         LET d == InOrder(advertised, k)
         IN  [dest |-> d, nexthop |-> routingtable[r][d].nexthop, cost |-> routingtable[r][d].cost]]

SendRoutingUpdates(r, rest) ==
  LET number == routingupdate[r] + 1
      update == [type |-> "Update", from |-> r, number |-> number, lines |-> RouteLines(r)]
      to == {i \in Nbr(r) : neighbours[r][i] # INF}
  IN  /\ routingupdate' = [routingupdate EXCEPT ![r] = number]
      /\ inbox' = [i \in Router |-> IF i \in to \ dead /\ Passes(r, i) THEN Append(rest[i], update) ELSE rest[i]]
      /\ dropped' = dropped \cup {<<r, i, number>> : i \in {j \in to : ~Passes(r, j)}}
      /\ UNCHANGED <<routingtable, neighbours, linktrack, dead, calm, linkCost, fate>>

-----------------------------------------------------------------------------
(* A negative number in a datagram.  Its fields are separated by "-", so    *)
(* its sign ends a field that is empty, stoi throws on that and nothing    *)
(* catches it: the process ends, and with it what waits at its socket.     *)

PacketsAt(r) == {inbox[r][k] : k \in {j \in 1..Len(inbox[r]) : inbox[r][j].type = "frwd"}}

Die(r) ==
  /\ dead' = dead \cup {r}
  /\ inbox' = [inbox EXCEPT ![r] = <<>>]
  /\ fate' = fate \cup {<<p, "lost">> : p \in PacketsAt(r)}
  /\ calm' = 0
  /\ UNCHANGED <<routingtable, neighbours, linktrack, routingupdate, buffer, dropped, linkCost>>

-----------------------------------------------------------------------------
(* updateRoutingTable. *)

\* The header: the link to the sender is up (again).
Heard(r, from, number) ==
  LET wasDown == linktrack[r][from] = -1
  IN  [table |-> IF wasDown
                 THEN [routingtable[r] EXCEPT ![from] = [nexthop |-> from, cost |-> neighbours[r][from]]]
                 ELSE routingtable[r],
       track |-> [linktrack[r] EXCEPT ![from] = number]]

\* Mutants: a link is given up one update too early, or too late.
Overdue_early(track, number) == {i \in DOMAIN track : track[i] # -1 /\ track[i] + 2 < number}
Overdue_late(track, number) == {i \in DOMAIN track : track[i] # -1 /\ track[i] + 4 < number}

\* ... and the links to the neighbours whose updates have stopped are down.
Overdue(track, number) == {i \in DOMAIN track : track[i] # -1 /\ track[i] + 3 < number}

FailLinks(h, number) ==
  LET F == Overdue(h.track, number)
  IN  [table |-> [d \in DOMAIN h.table |->
                    IF d \in F THEN [nexthop |-> d, cost |-> INF]
                    ELSE IF h.table[d].nexthop \in F THEN [h.table[d] EXCEPT !.cost = INF]
                    ELSE h.table[d]],
       track |-> [i \in DOMAIN h.track |-> IF i \in F THEN -1 ELSE h.track[i]]]

\* One route line, by its three cases.
\* Mutant: the cost is taken over whatever the next hop is.
ViaSender_any(r, from, table, line) ==
  IF line.nexthop # r THEN [table EXCEPT ![line.dest].cost = neighbours[r][from] + line.cost] ELSE table

ViaSender(r, from, table, line) ==
  IF table[line.dest].nexthop = from /\ line.nexthop # r
  THEN [table EXCEPT ![line.dest].cost = neighbours[r][from] + line.cost]
  ELSE table

\* Mutants: the next hop is the one the sender uses; routes that lead back to
\* this router are taken.
BellmanFord_hop(r, from, table, line) ==
  LET newCost == table[from].cost + line.cost
  IN  IF newCost < table[line.dest].cost /\ line.nexthop # r
      THEN [table EXCEPT ![line.dest] = [nexthop |-> line.nexthop, cost |-> newCost]]
      ELSE table
BellmanFord_back(r, from, table, line) ==
  LET newCost == table[from].cost + line.cost
  IN  IF newCost < table[line.dest].cost
      THEN [table EXCEPT ![line.dest] = [nexthop |-> table[from].nexthop, cost |-> newCost]]
      ELSE table

BellmanFord(r, from, table, line) ==
  LET newCost == table[from].cost + line.cost
  IN  IF newCost < table[line.dest].cost /\ line.nexthop # r
      THEN [table EXCEPT ![line.dest] = [nexthop |-> table[from].nexthop, cost |-> newCost]]
      ELSE table

DirectToSender(r, from, table) ==
  IF neighbours[r][from] < table[from].cost
  THEN [table EXCEPT ![from] = [nexthop |-> from, cost |-> neighbours[r][from]]]
  ELSE table

ApplyLine(r, from, table, line) ==
  IF line.dest \in DOMAIN table
  THEN DirectToSender(r, from, BellmanFord(r, from, ViaSender(r, from, table, line), line))
  ELSE table

\* The cost of a line is read once its destination is found in the table.
Readable(r, line) == line.dest \in Router \ {r} => line.cost >= 0

\* The lines in the buffer, one after the other.
ApplyLines(r, from, table, buf) ==
  LET t[k \in 0..Len(buf)] == IF k = 0 THEN table ELSE ApplyLine(r, from, t[k - 1], buf[k].line)
  IN  t[Len(buf)]

UpdateRoutingTable(r, m, rest) ==
  LET buf == Received(buffer[r], m.number, m.lines)
      h == FailLinks(Heard(r, m.from, m.number), m.number)
  IN  \/ /\ \E k \in 1..Len(buf) : ~Readable(r, buf[k].line)
         /\ Die(r)
      \/ /\ \A k \in 1..Len(buf) : Readable(r, buf[k].line)
         /\ inbox' = rest
         /\ buffer' = [buffer EXCEPT ![r] = buf]
         /\ linktrack' = [linktrack EXCEPT ![r] = h.track]
         /\ routingtable' = [routingtable EXCEPT ![r] = ApplyLines(r, m.from, h.table, buf)]
         /\ UNCHANGED <<neighbours, routingupdate, dead, history>>

-----------------------------------------------------------------------------
(* The cost command: 16 bits are sent, one signed char is read. *)

SignedChar(v) == LET b == v % 256 IN IF b >= 128 THEN b - 256 ELSE b


\* The entry for d after the cost of the link to ip became val: routes over
\* ip are shifted by the difference, and a direct link may now be shorter.
Recosted(r, ip, val, d) ==
  LET e == routingtable[r][d]
      shifted == IF e.nexthop = ip THEN [e EXCEPT !.cost = val + e.cost - neighbours[r][ip]] ELSE e
  IN  CASE d = ip -> [nexthop |-> ip, cost |-> val]
        [] d # ip /\ d \in Nbr(r) /\ neighbours[r][d] < shifted.cost ->
             [nexthop |-> d, cost |-> neighbours[r][d]]
        [] OTHER -> shifted

\* Mutant: the second end of the link forgets its neighbour table.
UpdateCost_one_end(r, m) ==
  LET ip == IF r = m.ip1 THEN m.ip2 ELSE m.ip1
      val == SignedChar(m.value)
  IN  /\ routingtable' = [routingtable EXCEPT ![r] = [d \in Router \ {r} |-> Recosted(r, ip, val, d)]]
      /\ neighbours' = IF r = m.ip1 THEN [neighbours EXCEPT ![r][ip] = val] ELSE neighbours
      /\ UNCHANGED <<linktrack, routingupdate, buffer, dead, history>>

UpdateCost(r, m) ==
  LET ip == IF r = m.ip1 THEN m.ip2 ELSE m.ip1
      val == SignedChar(m.value)
  IN  /\ routingtable' = [routingtable EXCEPT ![r] = [d \in Router \ {r} |-> Recosted(r, ip, val, d)]]
      /\ neighbours' = [neighbours EXCEPT ![r][ip] = val]
      /\ UNCHANGED <<linktrack, routingupdate, buffer, dead, history>>

-----------------------------------------------------------------------------
(* Forwarding of a packet: forwardmsg, the send command and frwd.  The      *)
(* length of the message is one signed char too.                           *)

Forward(r, p, rest) ==
  LET e == routingtable[r][p.dest]
      goes == e.cost # INF
      arrives == goes /\ Passes(r, e.nexthop) /\ e.nexthop \notin dead
  IN  /\ inbox' = IF arrives THEN [rest EXCEPT ![e.nexthop] = Append(@, p)] ELSE rest
      /\ fate' = IF arrives THEN fate ELSE fate \cup {<<p, IF goes THEN "lost" ELSE "cannot be sent">>}

Send(r, m, rest) ==
  /\ LET p == [type |-> "frwd", dest |-> m.ip2, len |-> SignedChar(m.len), msg |-> m.msg]
     IN  IF p.dest \in DOMAIN routingtable[r]
         THEN Forward(r, p, rest)
         ELSE fate' = fate \cup {<<p, "not found">>} /\ inbox' = rest
  /\ UNCHANGED <<router, dropped, calm, linkCost>>

Frwd(r, p, rest) ==
  \/ p.len < 0 /\ Die(r)
  \/ /\ p.len >= 0
     /\ IF p.dest = r
        THEN fate' = fate \cup {<<p, "reached destination">>} /\ inbox' = rest
        ELSE Forward(r, p, rest)
     /\ UNCHANGED <<router, dropped, calm, linkCost>>

-----------------------------------------------------------------------------
(* The main loop of a router.  The kind of a datagram is the first of the  *)
(* words clk, show, cost, Update, send, frwd found anywhere in it, the     *)
(* message inside a frwd packet included.                                  *)

Kind(m) == IF m.type = "frwd" /\ m.msg \in {"clk", "show"} THEN m.msg ELSE m.type

Recv(r) ==
  /\ r \in Alive /\ inbox[r] # <<>>
  /\ LET m == Head(inbox[r])
         rest == [inbox EXCEPT ![r] = Tail(@)]
     IN  \/ Kind(m) = "clk" /\ SendRoutingUpdates(r, rest) /\ UNCHANGED buffer
         \/ Kind(m) = "show" /\ inbox' = rest /\ UNCHANGED <<router, history>>
         \/ Kind(m) = "cost" /\ inbox' = rest /\ UpdateCost(r, m)
         \/ Kind(m) = "Update" /\ UpdateRoutingTable(r, m, rest)
         \/ Kind(m) = "send" /\ Send(r, m, rest)
         \/ Kind(m) = "frwd" /\ Frwd(r, m, rest)
  /\ UNCHANGED <<net, driver>>

-----------------------------------------------------------------------------
(* The driver: a timer thread that sends the clock to every host, and the  *)
(* main thread that carries out the commands.                              *)

IsRule(o) == o.m.type \in {"down", "up"}

\* Bound: five seconds are long enough for the routers to handle a clock and
\* the updates it causes, and for a cost command to reach both its routers, not
\* for the programs that insert the two rules of a link.
Settled ==
  /\ timerOut = <<>> /\ \A k \in 1..Len(mainOut) : IsRule(mainOut[k])
  /\ \A r \in Router : \A k \in 1..Len(inbox[r]) : inbox[r][k].type = "frwd"

SendClock ==
  /\ Settled /\ clk < net.clocks
  /\ clk' = clk + 1
  /\ timerOut' = [k \in 1..Len(Hosts) |-> [to |-> Hosts[k], m |-> [type |-> "clk"]]]
  /\ calm' = calm + 1
  /\ UNCHANGED <<net, router, inbox, mainOut, downLinks, commands, dropped, linkCost, fate>>

TimerSends ==
  /\ timerOut # <<>>
  /\ inbox' = Arrived(inbox, Head(timerOut).to, Head(timerOut).m)
  /\ timerOut' = Tail(timerOut)
  /\ UNCHANGED <<net, router, clk, mainOut, downLinks, commands, history>>

MainSends ==
  /\ mainOut # <<>> /\ ~IsRule(Head(mainOut))
  /\ inbox' = Arrived(inbox, Head(mainOut).to, Head(mainOut).m)
  /\ mainOut' = Tail(mainOut)
  /\ UNCHANGED <<net, router, clk, timerOut, downLinks, commands, history>>

\* iptables -I: the rule comes before those inserted earlier.
MainInserts ==
  /\ mainOut # <<>> /\ IsRule(Head(mainOut))
  /\ LET way == <<Head(mainOut).m.from, Head(mainOut).to>>
     IN  downLinks' = IF Head(mainOut).m.type = "down" THEN downLinks \cup {way} ELSE downLinks \ {way}
  /\ mainOut' = Tail(mainOut) /\ calm' = 0
  /\ UNCHANGED <<net, router, inbox, clk, timerOut, commands, dropped, linkCost, fate>>

\* update_cost: to both ends of the link.
CostCommand(c) ==
  /\ c.type = "cost"
  /\ mainOut' = <<[to |-> c.ip1, m |-> c], [to |-> c.ip2, m |-> c]>>
  /\ calm' = 0 /\ linkCost' = [linkCost EXCEPT ![{c.ip1, c.ip2}] = c.value]
  /\ UNCHANGED <<dropped, fate>>

\* send and show_rt: to the first router.
SendCommand(c) ==
  /\ c.type \in {"send", "show"}
  /\ mainOut' = <<[to |-> c.ip1, m |-> c]>>
  /\ UNCHANGED history

\* link_down and link_up: a rule for each direction, one after the other.
LinkCommand(c) ==
  /\ c.type \in {"down", "up"}
  /\ mainOut' = <<[to |-> c.ip2, m |-> [type |-> c.type, from |-> c.ip1]],
                  [to |-> c.ip1, m |-> [type |-> c.type, from |-> c.ip2]]>>
  /\ UNCHANGED history

Command ==
  /\ mainOut = <<>> /\ commands < Len(Session)
  /\ commands' = commands + 1
  /\ \E c \in Session[commands'] : CostCommand(c) \/ SendCommand(c) \/ LinkCommand(c)
  /\ UNCHANGED <<net, router, inbox, clk, timerOut, downLinks>>

Done == clk = net.clocks /\ Settled /\ (\A r \in Router : inbox[r] = <<>>) /\ UNCHANGED vars

Next ==
  \/ \E r \in Router : Recv(r)
  \/ SendClock \/ TimerSends \/ MainSends \/ MainInserts \/ Command
  \/ Done

Spec == Init /\ [][Next]_vars

\* The machine the routers and the driver run on does not stop: some process
\* that has something to do gets on with it.
Fairness ==
  WF_vars((\E r \in Router : Recv(r)) \/ SendClock \/ TimerSends \/ MainSends \/ MainInserts)

FairSpec == Spec /\ Fairness
-----------------------------------------------------------------------------
(* Properties. *)

IsSequence(s) == s \in Seq({s[k] : k \in DOMAIN s})
Line == [dest : Router, nexthop : Router, cost : Int]
Entry(r, d) ==
  [nexthop : Nbr(r), cost : Int] \cup (IF d \in Nbr(r) THEN {} ELSE {[nexthop |-> Undefined, cost |-> INF]})

(* Every next hop is a neighbour (Routing.cpp:200 copies the next hop of    *)
(* the route to the sender, :155 and :171 set the neighbour itself) unless *)
(* there is no route, so a router never sends a packet where it has no     *)
(* link; and no router has heard of an update that was not sent.           *)
TypeOK ==
  /\ DOMAIN routingtable = Router /\ DOMAIN neighbours = Router /\ DOMAIN linktrack = Router
  /\ DOMAIN buffer = Router /\ routingupdate \in [Router -> Nat]
  /\ \A r \in Router :
       /\ DOMAIN routingtable[r] = Router \ {r}
       /\ \A d \in Router \ {r} : routingtable[r][d] \in Entry(r, d)
       /\ neighbours[r] \in [Nbr(r) -> Int]
       /\ DOMAIN linktrack[r] = Nbr(r) /\ \A i \in Nbr(r) : linktrack[r][i] \in -1..routingupdate[i]
       /\ IsSequence(buffer[r]) /\ \A k \in 1..Len(buffer[r]) : buffer[r][k].line \in Line
  /\ clk \in 0..net.clocks /\ commands \in 0..Len(Session)
  /\ downLinks \subseteq Router \X Router /\ dead \subseteq Router

Quiet == Settled /\ \A r \in Router : inbox[r] = <<>>

\* The links that carry datagrams both ways, and the least cost over them,
\* after k rounds of relaxation.
Up(i, j) == {i, j} \in DOMAIN Topology /\ Passes(i, j) /\ Passes(j, i) /\ {i, j} \cap dead = {}
Least(S) == CHOOSE x \in S : \A y \in S : x <= y
Distance ==
  LET dist[k \in 0..Cardinality(Router)] ==
        IF k = 0 THEN [p \in Router \X Router |-> IF p[1] = p[2] THEN 0 ELSE INF]
        ELSE [p \in Router \X Router |->
                Least({dist[k-1][p]} \cup
                      {neighbours[p[1]][i] + dist[k-1][<<i, p[2]>>] : i \in {j \in Nbr(p[1]) : Up(p[1], j)}})]
  IN  dist[Cardinality(Router)]

Reachable(r, d) == Distance[<<r, d>>] < INF

\* Where the tables take a packet from r to d within k hops.
Hop(r, d) ==
  IF r # d /\ routingtable[r][d].cost # INF /\ routingtable[r][d].nexthop # Undefined
  THEN routingtable[r][d].nexthop ELSE r
Follow(r, d) ==
  LET at[k \in 0..Cardinality(Router)] == IF k = 0 THEN r ELSE Hop(at[k-1], d)
  IN  at[Cardinality(Router)]

Rounds == Cardinality(Router) - 1

(* A network without a failed link that nobody has touched for Rounds       *)
(* clocks has the shortest paths in all its tables, whatever the order in  *)
(* which updateRoutingTable met the updates, and also when links failed    *)
(* and came back before (Routing.cpp:149-213).  True of the topology the   *)
(* repository ships, topo.txt, and of a triangle, not of every one: a line *)
(* left in the receive buffer by a longer update counts as a line of the   *)
(* next sender (Routing.cpp:289), see Delivers.                            *)
Converged ==
  Quiet /\ calm >= Rounds /\ downLinks = {} /\ dead = {} =>
    \A r, d \in Router : r # d => routingtable[r][d].cost = Distance[<<r, d>>]

\* No message that is sent holds the word clk, at which a router would send
\* updates of its own accord and its counter run ahead of the others.
PlainText == \A k \in 1..Len(Session) : \A c \in Session[k] : c.type = "send" => c.msg # "clk"

\* The n-th update of i for r was dropped, or i died before it sent it.
Missing(r, i, n) == <<i, r, n>> \in dropped \/ (i \in dead /\ n > routingupdate[i])

(* A link is given up (Routing.cpp:169) only after three consecutive       *)
(* updates over it were dropped or, its other end having died, never sent. *)
FailureMeansDropped ==
  [][PlainText => \A r \in Router : \A i \in Nbr(r) :
       linktrack[r][i] # -1 /\ linktrack'[r][i] = -1
         => \A n \in linktrack[r][i] + 1 .. linktrack[r][i] + 3 : Missing(r, i, n)]_vars

\* The updates of i for r are missing since n clocks.
Silent(r, i, n) == clk >= n /\ \A k \in 0..n-1 : Missing(r, i, clk - k)

(* ... and once four are missing, because the link or the neighbour is     *)
(* down, every router that still hears of another neighbour has given the  *)
(* link up.                                                                *)
SilenceNoticed ==
  PlainText /\ Quiet => \A r \in Alive : \A i, j \in Nbr(r) :
    Silent(r, i, 4) /\ linktrack[r][j] = clk => linktrack[r][i] = -1

(* Assignment text, 6.6: a packet is forwarded from router to router, "This *)
(* goes on until the packet reaches the destination"; 7.3, of a changed    *)
(* cost: "Routing tables are updated as required".  Long after the last    *)
(* command, and in a network without any, the tables lead to every router  *)
(* that can be reached.                                                    *)
Delivers ==
  Quiet /\ calm >= Rounds + 5 =>
    \A r, d \in Alive : Reachable(r, d) => Follow(r, d) = d

(* The next hops never form a loop as long as nobody has changed the       *)
(* network, not even while the routers are still learning, whatever the    *)
(* order of the updates (Routing.cpp:195-202).  Of topo.txt and of a       *)
(* triangle, like Converged.                                               *)
NoLoop ==
  commands = 0 =>
    \A r, d \in Router : r # d => Follow(r, d) = d \/ Hop(Follow(r, d), d) = Follow(r, d)

(* Once its datagrams are handled, a cost command has left both ends of    *)
(* the link with one cost, however its two datagrams raced with updates    *)
(* and clocks, and with the cost it names if that fits into a signed char  *)
(* (Routing.cpp:302-397, driver.py:72) -- unless an end has died of a      *)
(* negative cost before, see Survival.                                     *)
CostTaken ==
  Quiet => \A r \in Alive : \A i \in Nbr(r) :
    /\ i \in Alive => neighbours[r][i] = neighbours[i][r]
    /\ linkCost[{r, i}] \in -128..127 => neighbours[r][i] = linkCost[{r, i}]

\* No cost and no length of a message is commanded that is read as negative.
Harmless ==
  \A k \in 1..Len(Session) : \A c \in Session[k] :
    /\ c.type = "cost" => SignedChar(c.value) >= 0
    /\ c.type = "send" => SignedChar(c.len) >= 0

\* No datagram holds a negative cost or length, or will make a router send one.
NonNegative(m) ==
  /\ m.type = "cost" => SignedChar(m.value) >= 0
  /\ m.type = "send" => SignedChar(m.len) >= 0
  /\ m.type = "frwd" => m.len >= 0
  /\ m.type = "Update" => \A k \in 1..Len(m.lines) : m.lines[k].cost >= 0

\* No route is cheaper than the link it begins with.
NoCheapRoute(r, table) ==
  \A d \in DOMAIN table : \A i \in Nbr(r) : table[d].nexthop = i => table[d].cost >= neighbours[r][i]


\* The packets under way.
InFlight == UNION {PacketsAt(r) : r \in Router}

(* No packet is forwarded for ever, although nothing counts its hops, and  *)
(* one whose text holds none of the words the main loop looks for does not *)
(* vanish: it reaches its destination, or a router says that it cannot be  *)
(* sent, or it is lost on a link that is down or with a router that dies   *)
(* (Routing.cpp:402-479).                                                  *)
PacketsEnd ==
  /\ []<>(InFlight = {})
  /\ [][\A p \in InFlight : Kind(p) = "frwd" => p \in InFlight' \/ \E f \in fate' : f[1] = p]_vars

-----------------------------------------------------------------------------
(* The inductive invariant.                                                *)

\* What the routers and the driver send: cost commands for a link of the
\* router they go to, updates of a neighbour, clocks.
CostMessage(m, r) ==
  m.type = "cost" => /\ {m.ip1, m.ip2} \in DOMAIN Topology /\ r \in {m.ip1, m.ip2}
                     /\ m.value \in Int
UpdateMessage(m, r) ==
  m.type = "Update" => /\ m.from \in Nbr(r) /\ m.number \in 1..routingupdate[m.from]
                       /\ m.lines \in Seq(Line)
Sent ==
  /\ DOMAIN inbox = Router /\ IsSequence(timerOut) /\ IsSequence(mainOut)
  /\ \A r \in Router :
       /\ IsSequence(inbox[r])
       /\ \A k \in 1..Len(inbox[r]) : CostMessage(inbox[r][k], r) /\ UpdateMessage(inbox[r][k], r)
  /\ \A k \in 1..Len(mainOut) :
       /\ mainOut[k].to \in Router /\ mainOut[k].m.type \in {"cost", "send", "show", "down", "up"}
       /\ CostMessage(mainOut[k].m, mainOut[k].to)
       /\ IsRule(mainOut[k]) => mainOut[k].m.from \in Router
  /\ \A k \in 1..Len(timerOut) : timerOut[k].to \in Router /\ timerOut[k].m = [type |-> "clk"]
  /\ \A j, k \in 1..Len(mainOut) : mainOut[j].to = mainOut[k].to => j = k

\* The cost commands for the link of r to i that the driver has yet to send and
\* that wait at r, and the cost that r has when they are handled: the one of
\* the last of them.  (Nothing is said of a router that has died.)
ForLink(m, r, i) == m.type = "cost" /\ {m.ip1, m.ip2} = {r, i}
Unsent(r, i) == {k \in 1..Len(mainOut) : mainOut[k].to = r /\ ForLink(mainOut[k].m, r, i)}
Waiting(r, i) == {k \in 1..Len(inbox[r]) : ForLink(inbox[r][k], r, i)}
WillCost(r, i, v) ==
  \/ r \in dead
  \/ \E k \in Unsent(r, i) : v = SignedChar(mainOut[k].m.value)
  \/ /\ Unsent(r, i) = {}
     /\ \E k \in Waiting(r, i) : v = SignedChar(inbox[r][k].value) /\ \A j \in Waiting(r, i) : j <= k
  \/ Unsent(r, i) = {} /\ Waiting(r, i) = {} /\ v = neighbours[r][i]

\* The costs a link can have.
LinkCost(l) == -128..127 \cup {Topology[l]}

\* Both ends of a link will have one cost, the one last commanded if it fits.
Agreed ==
  /\ DOMAIN linkCost = DOMAIN Topology
  /\ \A r \in Router : \A i \in Nbr(r) :
       /\ neighbours[r][i] \in LinkCost({r, i})
       /\ \E v \in LinkCost({r, i}) : /\ WillCost(r, i, v) /\ WillCost(i, r, v)
                                      /\ linkCost[{r, i}] \in -128..127 => v = linkCost[{r, i}]

\* A router has sent an update for every clock but the last, and for the last
\* one unless it is still on its way to it, or it has died.
Unclocked(r) == {k \in 1..Len(timerOut) : timerOut[k].to = r}
ClocksAt(r) == {k \in 1..Len(inbox[r]) : Kind(inbox[r][k]) = "clk"}
Clocked ==
  /\ \A j, k \in 1..Len(timerOut) : timerOut[j].to = timerOut[k].to => j = k
  /\ \A k \in 1..Len(mainOut) : mainOut[k].m.type = "send" => mainOut[k].m.msg # "clk"
  /\ \A r \in Router : routingupdate[r] <= clk
  /\ \A r \in Alive :
       /\ \A k \in 1..Len(inbox[r]) : inbox[r][k].type \in {"send", "frwd"} => inbox[r][k].msg # "clk"
       /\ \A j, k \in ClocksAt(r) : j = k
       /\ ClocksAt(r) # {} => Unclocked(r) = {}
       /\ routingupdate[r] = (IF ClocksAt(r) \cup Unclocked(r) = {} THEN clk ELSE clk - 1)

\* Updates wait only until the next clock; what was neither received nor waits
\* was dropped; no link is still counted as up that is overdue.
Updates(r, i) == {k \in 1..Len(inbox[r]) : inbox[r][k].type = "Update" /\ inbox[r][k].from = i}
Tracked ==
  /\ \A r \in Router : \A k \in 1..Len(inbox[r]) :
       inbox[r][k].type = "Update" =>
         /\ inbox[r][k].number = clk
         /\ <<inbox[r][k].from, r, clk>> \notin dropped /\ routingupdate[inbox[r][k].from] = clk
  /\ \A e \in dropped : e[1] \in Router /\ e[3] \in 1..routingupdate[e[1]]
  /\ \A r \in Alive : \A i \in Nbr(r) :
       /\ linktrack[r][i] > 0 => <<i, r, linktrack[r][i]>> \notin dropped
       /\ linktrack[r][i] # -1 =>
            /\ \A n \in linktrack[r][i] + 1 .. routingupdate[i] :
                 <<i, r, n>> \in dropped \/ (n = clk /\ Updates(r, i) # {})
            /\ \A j \in Nbr(r) : linktrack[r][j] <= linktrack[r][i] + 3

DvrInv ==
  /\ net \in Networks /\ TypeOK
  /\ Sent /\ Agreed
  /\ PlainText => Clocked /\ Tracked
=============================================================================
