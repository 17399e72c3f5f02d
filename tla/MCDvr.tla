------------------------------- MODULE MCDvr -------------------------------
(* Small networks of routers, and sessions of the driver, for TLC. *)
EXTENDS Dvr

\* Networks: topo.txt; a triangle in which the way over 2 is shorter than the
\* link 1-3; a line.
TopoTxt == {1, 2} :> 10 @@ {2, 3} :> 2 @@ {1, 3} :> 3 @@ {2, 4} :> 5 @@ {3, 4} :> 11
Triangle == {1, 2} :> 1 @@ {2, 3} :> 1 @@ {1, 3} :> 5
Line3 == {1, 2} :> 1 @@ {2, 3} :> 1

Net(t, s, n) == [topology |-> t, hosts |-> SetToSortSeq(UNION DOMAIN t, <), session |-> s, clocks |-> n]
Cost(i, j, v) == [type |-> "cost", ip1 |-> i, ip2 |-> j, value |-> v]
Down(i, j) == [type |-> "down", ip1 |-> i, ip2 |-> j]
UpAgain(i, j) == [type |-> "up", ip1 |-> i, ip2 |-> j]
Packet(i, j, w) == [type |-> "send", ip1 |-> i, ip2 |-> j, len |-> 5, msg |-> w]
LongPacket(i, j, w) == [type |-> "send", ip1 |-> i, ip2 |-> j, len |-> 200, msg |-> w]

\* The routers learn topo.txt; a link of the triangle fails and comes back; a
\* router of the triangle dies of a packet.
Tables == { Net(TopoTxt, <<>>, 3),
            Net(Triangle, <<{Down(2, 3)}, {UpAgain(2, 3)}>>, 6),
            Net(Triangle, <<{LongPacket(1, 3, "hello")}>>, 5) }

\* A cost that fits into a signed char and one that is read as negative, and
\* packets in both directions, one too long, while the tables change.
Packets == { Net(Line3, <<{Cost(1, 2, 9), Packet(1, 3, "hello")}, {Packet(3, 1, "hello")}>>, 2),
             Net(Line3, <<{Cost(1, 2, 200), LongPacket(1, 3, "hello")}, {Packet(3, 1, "show")}>>, 2) }

\* Nothing happens but the exchange of tables: 2 hangs on 1 by an expensive link,
\* 4 on 2 and 3 on 1 by cheap ones.
Chain == {1, 2} :> 5 @@ {1, 3} :> 1 @@ {2, 4} :> 1
Untouched == { Net(Chain, <<>>, 8) }

\* A loop of another origin: the cost of a link of the triangle is raised.
CostRaised == { Net(Triangle, <<{Cost(1, 2, 7)}>>, 8) }
=============================================================================
