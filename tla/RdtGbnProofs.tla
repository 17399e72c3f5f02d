---------------------------- MODULE RdtGbnProofs ----------------------------
(***************************************************************************)
(* Proofs about the Go-Back-N protocol of rdt_gbn.cpp, for every number of *)
(* messages, every window, buffer and range of numbers, every delay, gap   *)
(* and garbage, and whatever the medium loses or damages.                  *)
(***************************************************************************)
EXTENDS RdtGbn, EmulatorProofs

-----------------------------------------------------------------------------
(* Numbers modulo MAX_SEQ.                                                 *)

\* A remainder is determined by any way of writing the dividend.
LEMMA ModUnique ==
    ASSUME NEW m \in Nat \ {0}, NEW q \in Nat, NEW r \in 0..m - 1
    PROVE  (m * q + r) % m = r
OBVIOUS

LEMMA ModProps ==
    ASSUME NEW n \in Nat, NEW m \in Nat \ {0}
    PROVE  /\ n % m \in 0..m - 1
           /\ n % m <= n
           /\ n < m => n % m = n
           /\ n \div m \in Nat
           /\ n = m * (n \div m) + (n % m)
OBVIOUS

\* Counting modulo m: what SEQ_NUM and ACK do when they are incremented.
LEMMA ModSucc ==
    ASSUME NEW n \in Nat, NEW m \in Nat \ {0}
    PROVE  (n + 1) % m = ((n % m) + 1) % m
<1> DEFINE q == n \div m
           r == n % m
<1>1. q \in Nat /\ r \in 0..m - 1 /\ n = m * q + r
    BY ModProps
<1> HIDE DEF q, r
<1>2. CASE r + 1 < m
    <2>1. r + 1 \in 0..m - 1 /\ n + 1 = m * q + (r + 1)
        BY <1>1, <1>2
    <2>2. (n + 1) % m = r + 1
        BY <1>1, <2>1, ModUnique
    <2>3. (r + 1) % m = r + 1
        <3>1. r + 1 \in Nat
            BY <2>1
        <3> QED BY <3>1, <1>2, ModProps
    <2> QED BY <2>2, <2>3 DEF r
<1>3. CASE r + 1 = m
    <2>1. n + 1 = m * (q + 1) + 0
        BY <1>1, <1>3
    <2>2. (n + 1) % m = 0
        BY <1>1, <2>1, ModUnique
    <2>3. m = m * 1 + 0
        OBVIOUS
    <2>4. (r + 1) % m = 0
        BY <1>3, <2>3, ModUnique
    <2> QED BY <2>2, <2>4 DEF r
<1> QED BY <1>1, <1>2, <1>3

-----------------------------------------------------------------------------
(* Packets.                                                                *)

\* The packets the protocol and the medium produce are packets.
LEMMA PacketTypes ==
    /\ ZeroPkt \in Pkt
    /\ \A n \in Nat : Letter(n) \in Letters
    /\ Letters \subseteq Payload
    /\ \A p \in Pkt, fate \in Fate : Damage(p, fate) \in Pkt
<1>1. ZeroPkt \in Pkt
    BY DEF ZeroPkt, Pkt, Payload
<1>2. ASSUME NEW n \in Nat
      PROVE  Letter(n) \in Letters
    <2>1. n % 26 \in 0..25 /\ (n % 26) % 26 = n % 26
        OBVIOUS
    <2>2. Letter(n) = Letter(n % 26)
        BY <2>1 DEF Letter
    <2> QED BY <2>1, <2>2 DEF Letters
<1>3. Letters \subseteq Payload
    BY DEF Letters, Letter, Payload
<1>4. ASSUME NEW p \in Pkt, NEW fate \in Fate
      PROVE  Damage(p, fate) \in Pkt
    <2>1. BadNumber \in Int
        BY SMT DEF BadNumber
    <2> QED BY <2>1 DEF Damage, Pkt, Payload, Fate
<1> QED BY <1>1, <1>2, <1>3, <1>4

\* A packet with the sum its sender wrote into it, and a first character that
\* the medium's "Z" would change.
Sound(p) ==
    /\ p \in Pkt
    /\ p.payload.first # 90
    /\ p.checksum = getchecksum(p)

\* MakePkt writes the fields and a sound checksum.
LEMMA MakePktProps ==
    ASSUME NEW seq \in Int, NEW ack \in Int, NEW data \in Payload
    PROVE  LET p == MakePkt(seq, ack, data) IN
           /\ p \in Pkt
           /\ p.checksum = getchecksum(p)
           /\ p.seqnum = seq /\ p.acknum = ack /\ p.payload = data
<1>1. data.first \in Int /\ data.rest \in Int
    BY DEF Payload
<1> QED BY <1>1 DEF MakePkt, getchecksum, Pkt

\* The sum of getchecksum changes with each of the three fields the medium
\* may change.
LEMMA SumChanges ==
    ASSUME NEW a \in Int, NEW b \in Int, NEW c \in Int, NEW d \in Int, NEW x \in Int
    PROVE  /\ a + b + (c + d) = x + b + (c + d) => a = x
           /\ a + b + (c + d) = a + b + (x + d) => c = x
           /\ a + b + (c + d) = a + b + (c + x) => d = x
OBVIOUS

\* The checksum tells every damage tolayer3 can do to a sound packet.
LEMMA DamageDetected ==
    ASSUME NEW p, Sound(p), NEW fate \in Fate,
           getchecksum(Damage(p, fate)) = Damage(p, fate).checksum
    PROVE  Damage(p, fate) = p
<1> DEFINE q == Damage(p, fate)
           a == p.payload.first
           b == p.payload.rest
           c == p.seqnum
           d == p.acknum
<1>1. a \in Int /\ b \in Int /\ c \in Int /\ d \in Int /\ a # 90
    BY DEF Sound, Pkt, Payload
<1>2. getchecksum(p) = a + b + (c + d)
    BY DEF getchecksum
<1>3. 90 \in Int /\ BadNumber \in Int
    BY SMT DEF BadNumber
<1>4. CASE fate = "payload"
    <2>1. q = [p EXCEPT !.payload.first = 90]
        BY <1>4 DEF Damage
    <2>2. /\ q.payload.first = 90 /\ q.payload.rest = b
          /\ q.seqnum = c /\ q.acknum = d /\ q.checksum = p.checksum
        BY <2>1 DEF Sound, Pkt, Payload
    <2>3. getchecksum(q) = 90 + b + (c + d)
        BY <2>2 DEF getchecksum
    <2>4. getchecksum(q) = getchecksum(p)
        BY <2>2 DEF Sound
    <2> HIDE DEF a, b, c, d, q
    <2> QED BY <1>1, <1>2, <1>3, <2>3, <2>4, SumChanges
<1>5. CASE fate = "seqnum"
    <2>1. q = [p EXCEPT !.seqnum = BadNumber]
        BY <1>5 DEF Damage
    <2>2. /\ q.payload = p.payload /\ q.seqnum = BadNumber
          /\ q.acknum = d /\ q.checksum = p.checksum
        BY <2>1 DEF Sound, Pkt
    <2>3. getchecksum(q) = a + b + (BadNumber + d)
        BY <2>2 DEF getchecksum
    <2>4. getchecksum(q) = getchecksum(p)
        BY <2>2 DEF Sound
    <2>5. c = BadNumber
        <3> HIDE DEF a, b, c, d, q
        <3> QED BY <1>1, <1>2, <1>3, <2>3, <2>4, SumChanges
    <2> QED BY <2>1, <2>5 DEF Sound, Pkt
<1>6. CASE fate = "acknum"
    <2>1. q = [p EXCEPT !.acknum = BadNumber]
        BY <1>6 DEF Damage
    <2>2. /\ q.payload = p.payload /\ q.acknum = BadNumber
          /\ q.seqnum = c /\ q.checksum = p.checksum
        BY <2>1 DEF Sound, Pkt
    <2>3. getchecksum(q) = a + b + (c + BadNumber)
        BY <2>2 DEF getchecksum
    <2>4. getchecksum(q) = getchecksum(p)
        BY <2>2 DEF Sound
    <2>5. d = BadNumber
        <3> HIDE DEF a, b, c, d, q
        <3> QED BY <1>1, <1>2, <1>3, <2>3, <2>4, SumChanges
    <2> QED BY <2>1, <2>5 DEF Sound, Pkt
<1>7. CASE fate \in {"lost", "intact"}
    BY <1>7 DEF Damage
<1> QED BY <1>4, <1>5, <1>6, <1>7 DEF Fate

-----------------------------------------------------------------------------
(***************************************************************************)
(* The event list, orderly and with packets of the set P on their way to B *)
(* and of K on their way to A, damaged or not.                             *)
(***************************************************************************)
Carried(ev, P, K) ==
    ev.evtype = FROM_LAYER3 =>
        \E p \in IF ev.eventity = B THEN P ELSE K, fate \in Fate :
            ev.pkt = Damage(p, fate)

Good(l, P, K) ==
    /\ Orderly(l)
    /\ \A ev \in Events(l) : Carried(ev, P, K)

LEMMA GoodMono ==
    ASSUME NEW l, NEW P, NEW K, NEW P2, NEW K2, Good(l, P, K),
           P \subseteq P2, K \subseteq K2
    PROVE  Good(l, P2, K2)
BY DEF Good, Carried

LEMMA GoodInsert ==
    ASSUME NEW l, NEW P, NEW K, Good(l, P, K), NEW e \in Event, Carried(e, P, K),
           IsTimer(e, A) => ~TimerRunning(l, A)
    PROVE  LET r == insertevent(l, e) IN
           /\ Good(r, P, K)
           /\ TimerRunning(l, A) \/ IsTimer(e, A) => TimerRunning(r, A)
<1> DEFINE r == insertevent(l, e)
<1>1. Orderly(r) /\ Events(r) = Events(l) \cup {e}
    BY InsertOrderly DEF Good
<1>2. l \in Seq(Event) /\ r \in Seq(Event)
    BY <1>1 DEF Good, Orderly
<1> HIDE DEF r
<1>3. Good(r, P, K)
    BY <1>1 DEF Good
<1>4. TimerRunning(l, A) \/ IsTimer(e, A) => TimerRunning(r, A)
    BY <1>1, <1>2, EventsProps
<1> QED BY <1>3, <1>4 DEF r

\* generate_next_arrival adds the next message.
LEMMA GoodArrival ==
    ASSUME NEW l, NEW P, NEW K, Good(l, P, K), NEW gap \in Nat
    PROVE  LET r == generate_next_arrival(l, gap) IN
           /\ Good(r, P, K)
           /\ TimerRunning(l, A) => TimerRunning(r, A)
<1> DEFINE e == Ev(gap, FROM_LAYER5, A, ZeroPkt)
<1>1. e \in Event /\ e.evtype = FROM_LAYER5
    BY PacketTypes DEF Ev, Event
<1> HIDE DEF e
<1>2. Carried(e, P, K) /\ ~IsTimer(e, A)
    BY <1>1 DEF Carried, IsTimer, FROM_LAYER5, FROM_LAYER3, TIMER_INTERRUPT
<1> QED BY <1>1, <1>2, GoodInsert DEF generate_next_arrival, e

\* After starttimer a timer runs, the old one or a new one.
LEMMA GoodStart ==
    ASSUME NEW l, NEW P, NEW K, Good(l, P, K), NEW t \in Nat
    PROVE  Good(starttimer(l, A, t), P, K) /\ TimerRunning(starttimer(l, A, t), A)
<1> DEFINE e == Ev(t, TIMER_INTERRUPT, A, ZeroPkt)
<1>1. e \in Event /\ e.evtype = TIMER_INTERRUPT /\ e.eventity = A
    BY PacketTypes DEF Ev, Event
<1>2. CASE TimerRunning(l, A)
    BY <1>2 DEF starttimer
<1>3. CASE ~TimerRunning(l, A)
    <2>1. starttimer(l, A, t) = insertevent(l, e)
        BY <1>3 DEF starttimer
    <2> HIDE DEF e
    <2>2. Carried(e, P, K) /\ IsTimer(e, A)
        BY <1>1 DEF Carried, IsTimer, FROM_LAYER3, TIMER_INTERRUPT
    <2> QED BY <1>1, <1>3, <2>1, <2>2, GoodInsert
<1> QED BY <1>2, <1>3

LEMMA GoodStop ==
    ASSUME NEW l, NEW P, NEW K, Good(l, P, K)
    PROVE  Good(stoptimer(l, A), P, K)
BY StopTimerOrderly DEF Good

\* The last arrival is found.
LEMMA LastArrival ==
    ASSUME NEW l \in Seq(Event), NEW x, Arrivals(l, x) # {}
    PROVE  \E i \in Arrivals(l, x) : /\ LastTime(l, x) = l[i].evtime
                                     /\ \A j \in Arrivals(l, x) : j <= i
<1> DEFINE S == Arrivals(l, x)
           T == {k \in 0..Len(l) : \E i \in S : i + k = Len(l)}
           last == CHOOSE i \in S : \A j \in S : j <= i
<1>1. Len(l) \in Nat /\ S \subseteq 1..Len(l)
    BY LenProperties DEF Arrivals
<1>2. LastTime(l, x) = l[last].evtime
    BY DEF LastTime
<1> HIDE DEF S
<1>3. \A i \in S : Len(l) - i \in T
    BY <1>1
<1>4. T # {} /\ T \subseteq Nat
    BY <1>3 DEF S
<1>5. PICK m \in T : \A n \in T : m <= n
    BY <1>4, LeastNat
<1>6. PICK i \in S : i + m = Len(l)
    OBVIOUS
<1>7. ASSUME NEW j \in S PROVE j <= i
    <2>1. m <= Len(l) - j
        BY <1>3, <1>5
    <2> QED BY <1>1, <1>6, <2>1
<1>8. last \in S /\ \A j \in S : j <= last
    BY <1>7
<1> QED BY <1>2, <1>8 DEF S

\* The clock of the medium is never before the emulator's.
LEMMA LastTimeNat ==
    ASSUME NEW l \in Seq(Event), NEW x
    PROVE  LastTime(l, x) \in Nat
<1>1. CASE Arrivals(l, x) = {}
    BY <1>1 DEF LastTime
<1>2. CASE Arrivals(l, x) # {}
    <2>1. PICK i \in Arrivals(l, x) : LastTime(l, x) = l[i].evtime
        BY <1>2, LastArrival
    <2>2. i \in 1..Len(l)
        BY DEF Arrivals
    <2>3. l[i] \in Event
        BY <2>2, ElementOfSeq
    <2> QED BY <2>1, <2>3 DEF Event
<1> QED BY <1>1, <1>2

\* tolayer3 loses the packet or adds its arrival, damaged or not.
LEMMA GoodToLayer3 ==
    ASSUME NEW l, NEW P, NEW K, Good(l, P, K), P \subseteq Pkt, K \subseteq Pkt,
           NEW x \in {A, B}, NEW p \in IF x = A THEN P ELSE K,
           NEW fate \in Fate, NEW delay \in Delay
    PROVE  LET r == tolayer3(l, x, p, fate, delay) IN
           /\ Good(r, P, K)
           /\ TimerRunning(l, A) => TimerRunning(r, A)
<1> DEFINE other == (x + 1) % 2
           t == LastTime(l, other) + delay
           e == Ev(t, FROM_LAYER3, other, Damage(p, fate))
<1>1. /\ other \in {A, B}
      /\ other = B <=> x = A
    BY DEF A, B
<1>2. t \in Nat
    BY LastTimeNat, MaxDelayAssumption DEF Good, Orderly, Delay
<1> HIDE DEF t, other
<1>3. /\ e \in Event /\ e.evtype = FROM_LAYER3 /\ e.eventity = other
      /\ e.pkt = Damage(p, fate)
    BY <1>1, <1>2, PacketTypes DEF Ev, Event
<1>4. tolayer3(l, x, p, fate, delay) = IF fate = "lost" THEN l ELSE insertevent(l, e)
    BY DEF tolayer3, t, other
<1> HIDE DEF e
<1>5. Carried(e, P, K)
    BY <1>1, <1>3 DEF Carried
<1>6. ~IsTimer(e, A)
    BY <1>3 DEF IsTimer, FROM_LAYER3, TIMER_INTERRUPT
<1> QED BY <1>3, <1>4, <1>5, <1>6, GoodInsert

LEMMA GoodRemoveNext ==
    ASSUME NEW l, NEW P, NEW K, Good(l, P, K), l # << >>
    PROVE  LET r == RemoveNext(l) IN
           /\ Good(r, P, K)
           /\ l[1] \in Event /\ Carried(l[1], P, K)
           /\ TimerRunning(l, A) /\ ~IsTimer(l[1], A) => TimerRunning(r, A)
<1> DEFINE r == RemoveNext(l)
<1>1. /\ l[1] \in Events(l)
      /\ Orderly(r)
      /\ \A ev \in Events(r) : \E old \in Events(l) :
             /\ ev.evtype = old.evtype
             /\ ev.eventity = old.eventity
             /\ ev.pkt = old.pkt
      /\ TimerRunning(l, A) /\ ~IsTimer(l[1], A) => TimerRunning(r, A)
    BY RemoveNextOrderly DEF Good
<1> HIDE DEF r
<1>2. l[1] \in Event
    BY <1>1, EventsProps DEF Good, Orderly
<1>3. Good(r, P, K)
    BY <1>1 DEF Good, Carried
<1> QED BY <1>1, <1>2, <1>3 DEF Good, r

-----------------------------------------------------------------------------
(***************************************************************************)
(* Packets and Acks for given histories, so that a lemma speaks of them    *)
(* before and after a step.                                                *)
(***************************************************************************)
PacketsOf(acc) == {MakePkt(Number(i), Number(i), acc[i]) : i \in 1..Len(acc)}

AcksOf(acc, del) ==
    {ZeroPkt} \cup
    {AckPkt(p, g) : p \in {q \in PacketsOf(acc) : q.payload \in ToSet(del)}, g \in Garbage}

\* What may be on its way to A: nothing before A has sent something.
AnswersOf(acc, del) == {p \in AcksOf(acc, del) : acc # << >>}

LEMMA NumberProps ==
    ASSUME NEW i \in Nat \ {0}
    PROVE  Number(i) \in 0..MAX_SEQ - 1 /\ Number(i) \in Int /\ Number(i) < i
<1> DEFINE n == i - 1
<1>1. n \in Nat /\ n < i /\ MAX_SEQ \in Nat \ {0}
    BY GbnAssumption
<1>2. Number(i) = n % MAX_SEQ
    BY DEF Number
<1> HIDE DEF n
<1>3. n % MAX_SEQ \in 0..MAX_SEQ - 1 /\ n % MAX_SEQ <= n
    BY <1>1, ModProps
<1> HIDE DEF Number
<1> QED BY <1>1, <1>2, <1>3

LEMMA ToSetProps ==
    ASSUME NEW T, NEW s \in Seq(T)
    PROVE  /\ \A x : x \in ToSet(s) <=> \E i \in 1..Len(s) : x = s[i]
           /\ ToSet(s) \subseteq T
           /\ \A x \in T : ToSet(Append(s, x)) = ToSet(s) \cup {x}
<1>1. \A x : x \in ToSet(s) <=> \E i \in 1..Len(s) : x = s[i]
    BY DEF ToSet
<1>2. ToSet(s) \subseteq T
    <2>1. \A i \in 1..Len(s) : s[i] \in T
        BY ElementOfSeq
    <2> QED BY <1>1, <2>1
<1>3. ASSUME NEW x \in T
      PROVE  ToSet(Append(s, x)) = ToSet(s) \cup {x}
    <2> DEFINE r == Append(s, x)
    <2>1. /\ r \in Seq(T) /\ Len(r) = Len(s) + 1 /\ Len(s) \in Nat
          /\ \A i \in 1..Len(s) : r[i] = s[i]
          /\ r[Len(s) + 1] = x
        BY AppendProperties, LenProperties
    <2> HIDE DEF r
    <2>2. \A y : y \in ToSet(r) <=> \E i \in 1..Len(r) : y = r[i]
        BY <2>1 DEF ToSet
    <2>3. \A i \in 1..Len(r) : i \in 1..Len(s) \/ i = Len(s) + 1
        BY <2>1
    <2>4. 1..Len(s) \subseteq 1..Len(r) /\ Len(s) + 1 \in 1..Len(r)
        BY <2>1
    <2>5. ToSet(r) = ToSet(s) \cup {x}
        BY <1>1, <2>1, <2>2, <2>3, <2>4
    <2> QED BY <2>5 DEF r
<1> QED BY <1>1, <1>2, <1>3

LEMMA LettersFirst ==
    ASSUME NEW x \in Letters
    PROVE  x \in Payload /\ x.first # 90
<1>1. PICK n \in 0..25 : x = Letter(n)
    BY DEF Letters
<1>2. n % 26 \in 0..25
    OBVIOUS
<1> DEFINE c == 97 + (n % 26)
<1>3. c \in Int /\ c # 90 /\ 18 * c \in Int
    BY <1>2
<1> HIDE DEF c
<1>4. x = [first |-> c, rest |-> 18 * c]
    BY <1>1 DEF Letter, c
<1> QED BY <1>3, <1>4 DEF Payload

\* A's packets are sound and carry the number of their message.
LEMMA PacketsProps ==
    ASSUME NEW acc \in Seq(Letters), NEW p \in PacketsOf(acc)
    PROVE  /\ Sound(p)
           /\ \E i \in 1..Len(acc) :
                 p.seqnum = Number(i) /\ p.acknum = Number(i) /\ p.payload = acc[i]
<1>1. PICK i \in 1..Len(acc) : p = MakePkt(Number(i), Number(i), acc[i])
    BY DEF PacketsOf
<1>2. Number(i) \in Int
    BY <1>1, NumberProps, LenProperties
<1>3. acc[i] \in Letters
    BY ElementOfSeq
<1>4. acc[i] \in Payload /\ acc[i].first # 90
    BY <1>3, LettersFirst
<1>5. /\ p \in Pkt
      /\ p.checksum = getchecksum(p)
      /\ p.seqnum = Number(i) /\ p.acknum = Number(i) /\ p.payload = acc[i]
    BY <1>1, <1>2, <1>4, MakePktProps
<1> QED BY <1>4, <1>5 DEF Sound

\* An ACK is sound, and but for number 0 names a message that was delivered.
LEMMA AcksProps ==
    ASSUME NEW acc \in Seq(Letters), NEW del, NEW p \in AcksOf(acc, del)
    PROVE  /\ Sound(p)
           /\ \/ p.acknum = 0
              \/ \E i \in 1..Len(acc) : p.acknum = Number(i) /\ acc[i] \in ToSet(del)
<1>1. CASE p = ZeroPkt
    <2>1. ZeroPkt \in Pkt
        BY PacketTypes
    <2> QED BY <1>1, <2>1 DEF Sound, ZeroPkt, getchecksum
<1>2. CASE p # ZeroPkt
    <2>1. PICK q \in PacketsOf(acc), g \in Garbage : p = AckPkt(q, g) /\ q.payload \in ToSet(del)
        BY <1>2 DEF AcksOf
    <2>2. PICK i \in 1..Len(acc) :
              q.seqnum = Number(i) /\ q.acknum = Number(i) /\ q.payload = acc[i]
        BY PacketsProps
    <2>3. Number(i) \in Int
        BY <2>2, NumberProps, LenProperties
    <2> DEFINE data == [first |-> 0, rest |-> g]
    <2>4. data \in Payload /\ data.first # 90
        BY GarbageAssumption DEF Payload
    <2> HIDE DEF data
    <2>5. p = MakePkt(Number(i), Number(i), data)
        BY <2>1, <2>2 DEF AckPkt, data
    <2>6. /\ p \in Pkt
          /\ p.checksum = getchecksum(p)
          /\ p.seqnum = Number(i) /\ p.acknum = Number(i) /\ p.payload = data
        BY <2>3, <2>4, <2>5, MakePktProps
    <2> QED BY <2>1, <2>2, <2>4, <2>6 DEF Sound
<1> QED BY <1>1, <1>2

\* One more accepted message adds one packet; the ACKs only grow.
LEMMA PacketsGrow ==
    ASSUME NEW acc \in Seq(Letters), NEW x \in Letters
    PROVE  PacketsOf(Append(acc, x)) =
               PacketsOf(acc) \cup {MakePkt(Len(acc) % MAX_SEQ, Len(acc) % MAX_SEQ, x)}
<1> DEFINE r == Append(acc, x)
           n == Len(acc)
<1>1. /\ Len(r) = n + 1 /\ n \in Nat
      /\ \A i \in 1..n : r[i] = acc[i]
      /\ r[n + 1] = x
    BY AppendProperties, LenProperties
<1>2. Number(n + 1) = n % MAX_SEQ
    <2>1. (n + 1) - 1 = n
        BY <1>1
    <2> QED BY <2>1 DEF Number
<1> HIDE DEF r, n
<1>3. \A i \in 1..Len(r) : i \in 1..n \/ i = n + 1
    BY <1>1
<1>4. 1..n \subseteq 1..Len(r) /\ n + 1 \in 1..Len(r)
    BY <1>1
<1> DEFINE f(i, y) == MakePkt(Number(i), Number(i), y)
<1>5. PacketsOf(r) = {f(i, r[i]) : i \in 1..Len(r)}
    BY DEF PacketsOf
<1>6. PacketsOf(acc) = {f(i, acc[i]) : i \in 1..n}
    BY DEF PacketsOf, n
<1>7. f(n + 1, x) = MakePkt(n % MAX_SEQ, n % MAX_SEQ, x)
    BY <1>2
<1> HIDE DEF f
<1>8. PacketsOf(r) = PacketsOf(acc) \cup {f(n + 1, x)}
    BY <1>1, <1>3, <1>4, <1>5, <1>6
<1> QED BY <1>7, <1>8 DEF r, n

LEMMA AnswersGrow ==
    ASSUME NEW acc, NEW acc2, NEW del, NEW del2,
           PacketsOf(acc) \subseteq PacketsOf(acc2), ToSet(del) \subseteq ToSet(del2),
           acc # << >> => acc2 # << >>
    PROVE  /\ AcksOf(acc, del) \subseteq AcksOf(acc2, del2)
           /\ AnswersOf(acc, del) \subseteq AnswersOf(acc2, del2)
BY DEF AcksOf, AnswersOf

-----------------------------------------------------------------------------
(* Prefixes.                                                               *)

LEMMA PrefixProps ==
    ASSUME NEW T, NEW s \in Seq(T), NEW t \in Seq(T)
    PROVE  IsPrefix(s, t) <=> Len(s) <= Len(t) /\ \A i \in 1..Len(s) : s[i] = t[i]
<1>1. Len(s) \in Nat /\ Len(t) \in Nat
    BY LenProperties
<1>2. SubSeq(s, 1, Len(s)) = s
    BY SubSeqFull
<1>3. ASSUME Len(s) <= Len(t)
      PROVE  s = SubSeq(t, 1, Len(s)) <=> \A i \in 1..Len(s) : s[i] = t[i]
    <2> DEFINE u == SubSeq(t, 1, Len(s))
    <2>1. u \in Seq(T) /\ Len(u) = Len(s) /\ \A i \in 1..Len(s) : u[i] = t[i]
        <3>1. 1 \in 1..Len(t) + 1 /\ Len(s) \in 1 - 1..Len(t)
            BY <1>1, <1>3
        <3> QED BY <1>1, <3>1, SubSeqProperties
    <2> HIDE DEF u
    <2>2. s = u <=> \A i \in 1..Len(s) : s[i] = u[i]
        BY <2>1, SeqEqual
    <2>3. s = u <=> \A i \in 1..Len(s) : s[i] = t[i]
        BY <2>1, <2>2
    <2> QED BY <2>3 DEF u
<1> QED BY <1>2, <1>3 DEF IsPrefix

\* The accepted messages only grow at the end.
LEMMA PrefixGrows ==
    ASSUME NEW T, NEW s \in Seq(T), NEW t \in Seq(T), NEW x \in T, IsPrefix(s, t)
    PROVE  IsPrefix(s, Append(t, x))
<1> DEFINE r == Append(t, x)
<1>1. /\ r \in Seq(T) /\ Len(r) = Len(t) + 1 /\ Len(t) \in Nat /\ Len(s) \in Nat
      /\ \A i \in 1..Len(t) : r[i] = t[i]
    BY AppendProperties, LenProperties
<1> HIDE DEF r
<1>2. Len(s) <= Len(t) /\ \A i \in 1..Len(s) : s[i] = t[i]
    BY PrefixProps
<1>3. Len(s) <= Len(r) /\ \A i \in 1..Len(s) : s[i] = r[i]
    BY <1>1, <1>2
<1>4. IsPrefix(s, r)
    BY <1>1, <1>3, PrefixProps
<1> QED BY <1>4 DEF r

\* B took the k-th message under a number up to the expected one: either it
\* had it already, or it was the next.
LEMMA NextOrRepeat ==
    ASSUME NEW T, NEW del \in Seq(T), NEW acc \in Seq(T), NEW k \in 1..Len(acc),
           k <= Len(del) + 1, IsPrefix(del, acc), NoRepeats(Append(del, acc[k]))
    PROVE  IsPrefix(Append(del, acc[k]), acc)
<1> DEFINE x == acc[k]
           r == Append(del, x)
<1>1. x \in T
    BY ElementOfSeq
<1>2. /\ r \in Seq(T) /\ Len(r) = Len(del) + 1 /\ Len(del) \in Nat /\ Len(acc) \in Nat
      /\ \A i \in 1..Len(del) : r[i] = del[i]
      /\ r[Len(del) + 1] = x
    BY <1>1, AppendProperties, LenProperties
<1>3. Len(del) <= Len(acc) /\ \A i \in 1..Len(del) : del[i] = acc[i]
    BY PrefixProps
<1> HIDE DEF r
<1>4. k = Len(del) + 1
    <2> SUFFICES ASSUME k \in 1..Len(del) PROVE FALSE
        BY <1>2
    <2>1. r[k] = r[Len(del) + 1]
        BY <1>2, <1>3
    <2>2. k \in 1..Len(r) /\ Len(del) + 1 \in 1..Len(r) /\ k # Len(del) + 1
        BY <1>2
    <2> QED BY <2>1, <2>2 DEF NoRepeats, r
<1>5. Len(r) <= Len(acc) /\ \A i \in 1..Len(r) : r[i] = acc[i]
    <2>1. Len(r) <= Len(acc)
        BY <1>2, <1>4
    <2>2. ASSUME NEW i \in 1..Len(r)
          PROVE  r[i] = acc[i]
        <3>1. i \in 1..Len(del) \/ i = Len(del) + 1
            BY <1>2
        <3> QED BY <1>2, <1>3, <1>4, <3>1
    <2> QED BY <2>1, <2>2
<1>6. IsPrefix(r, acc)
    BY <1>2, <1>5, PrefixProps
<1> QED BY <1>6 DEF r

LEMMA NoRepeatsPrefix ==
    ASSUME NEW T, NEW s \in Seq(T), NEW x \in T, NoRepeats(Append(s, x))
    PROVE  NoRepeats(s)
<1> DEFINE r == Append(s, x)
<1>1. /\ Len(r) = Len(s) + 1 /\ Len(s) \in Nat
      /\ \A i \in 1..Len(s) : r[i] = s[i]
    BY AppendProperties, LenProperties
<1>2. NoRepeats(r)
    OBVIOUS
<1> HIDE DEF r
<1>3. \A i \in 1..Len(s) : i \in 1..Len(r)
    BY <1>1
<1> QED BY <1>1, <1>2, <1>3 DEF NoRepeats

-----------------------------------------------------------------------------
(***************************************************************************)
(* The packets under way.  Picks(l, x, f) says that f[n] has those of the  *)
(* first n events.                                                         *)
(***************************************************************************)
Picks(l, x, f) ==
    /\ f \in [0..Len(l) -> Seq(Pkt)]
    /\ f[0] = << >>
    /\ \A n \in 1..Len(l) :
           f[n] = IF n \in Arrivals(l, x) THEN Append(f[n - 1], l[n].pkt) ELSE f[n - 1]

\* The recursive function of InTransit exists.
LEMMA Picked ==
    ASSUME NEW l \in Seq(Event), NEW x
    PROVE  \E f : Picks(l, x, f) /\ InTransit(l, x) = f[Len(l)]
<1> DEFINE step(s, n) == IF n \in Arrivals(l, x) THEN Append(s, l[n].pkt) ELSE s
           body(g, n) == IF n = 0 THEN << >> ELSE step(g[n - 1], n)
           F(m, g) == g = [n \in 0..m |-> IF n = 0 THEN << >> ELSE step(g[n - 1], n)]
           C(g) == g = [n \in 0..Len(l) |-> 
                          IF n = 0 THEN << >>
                          ELSE IF n \in Arrivals(l, x) THEN Append(g[n - 1], l[n].pkt)
                          ELSE g[n - 1]]
           f == CHOOSE g : C(g)
<1>1. InTransit(l, x) = f[Len(l)]
    BY DEF InTransit
<1>2. Len(l) \in Nat
    BY LenProperties
<1>3. ASSUME NEW g PROVE F(Len(l), g) => C(g)
    OBVIOUS
<1>4. ASSUME NEW s \in Seq(Pkt), NEW n \in 1..Len(l)
      PROVE  step(s, n) \in Seq(Pkt)
    <2>1. l[n] \in Event
        BY ElementOfSeq
    <2>2. l[n].pkt \in Pkt
        BY <2>1 DEF Event
    <2> QED BY <2>2, AppendProperties
<1> HIDE DEF step
<1>5. \A m \in Nat : \E g : F(m, g)
    <2> DEFINE S == {m \in Nat : ~\E g : F(m, g)}
    <2> SUFFICES ASSUME S # {} PROVE FALSE
        OBVIOUS
    <2>1. PICK m \in S : \A k \in S : m <= k
        BY LeastNat
    <2>2. m # 0
        <3>1. F(0, [i \in 0..0 |-> << >>])
            OBVIOUS
        <3> QED BY <3>1
    <2>3. m \in Nat /\ m - 1 \in Nat /\ m - 1 \notin S
        <3>1. m \in Nat
            OBVIOUS
        <3> HIDE DEF S
        <3> QED BY <2>1, <2>2, <3>1
    <2>4. PICK h : F(m - 1, h)
        BY <2>3
    <2> DEFINE g == [i \in 0..m |-> IF i = m THEN step(h[m - 1], m) ELSE h[i]]
    <2>5. ASSUME NEW i \in 0..m
          PROVE  g[i] = IF i = 0 THEN << >> ELSE step(g[i - 1], i)
        <3>1. CASE i = m
            BY <2>2, <2>3, <3>1
        <3>2. CASE i # m
            <4>1. i \in 0..m - 1 /\ g[i] = h[i]
                BY <2>3, <3>2
            <4>2. h[i] = IF i = 0 THEN << >> ELSE step(h[i - 1], i)
                BY <2>4, <4>1
            <4>3. i # 0 => g[i - 1] = h[i - 1]
                BY <2>3, <4>1
            <4> QED BY <4>1, <4>2, <4>3
        <3> QED BY <3>1, <3>2
    <2>6. F(m, g)
        BY <2>5
    <2> QED BY <2>1, <2>6
<1>6. C(f)
    <2>1. PICK g : F(Len(l), g)
        BY <1>2, <1>5
    <2>2. C(g)
        BY <2>1, <1>3
    <2> HIDE DEF C
    <2> QED BY <2>2
<1> HIDE DEF f
<1>7. /\ DOMAIN f = 0..Len(l) /\ f = [n \in 0..Len(l) |-> f[n]]
      /\ f[0] = << >>
      /\ \A n \in 1..Len(l) : f[n] = step(f[n - 1], n)
    <2>1. 0 \in 0..Len(l) /\ \A i \in 1..Len(l) : i \in 0..Len(l) /\ i # 0
        BY <1>2
    <2> QED BY <1>6, <2>1 DEF step
<1> HIDE DEF C
<1>8. ASSUME NEW n \in 0..Len(l) PROVE f[n] \in Seq(Pkt)
    <2> DEFINE Bad == {i \in 0..Len(l) : f[i] \notin Seq(Pkt)}
    <2> SUFFICES ASSUME Bad # {} PROVE FALSE
        OBVIOUS
    <2>1. PICK m \in Bad : \A k \in Bad : m <= k
        <3>1. Bad \subseteq Nat
            BY <1>2
        <3> HIDE DEF Bad
        <3> QED BY <3>1, LeastNat
    <2>2. m # 0
        BY <1>7, SMTT(30)
    <2>3. m \in 1..Len(l) /\ m - 1 \in 0..Len(l) /\ m - 1 \notin Bad
        BY <1>2, <2>1, <2>2
    <2>4. f[m - 1] \in Seq(Pkt)
        BY <2>3
    <2> QED BY <1>4, <1>7, <2>3, <2>4
<1>9. Picks(l, x, f)
    BY <1>7, <1>8 DEF Picks, step
<1> QED BY <1>1, <1>9

\* What InTransit gives are packets.
LEMMA TransitType ==
    ASSUME NEW l \in Seq(Event), NEW x
    PROVE  InTransit(l, x) \in Seq(Pkt)
<1>1. PICK f : Picks(l, x, f) /\ InTransit(l, x) = f[Len(l)]
    BY Picked
<1>2. Len(l) \in 0..Len(l)
    BY LenProperties
<1> QED BY <1>1, <1>2 DEF Picks

\* r is l with one more event at position k, but for the times.
Alike(d, e) == d.evtype = e.evtype /\ d.eventity = e.eventity /\ d.pkt = e.pkt
Spliced(l, e, r, k) ==
    /\ r \in Seq(Event) /\ Len(r) = Len(l) + 1 /\ k \in 1..Len(l) + 1
    /\ \A i \in 1..k - 1 : Alike(r[i], l[i])
    /\ Alike(r[k], e)
    /\ \A i \in k..Len(l) : Alike(r[i + 1], l[i])

Arrives(e, x) == e.evtype = FROM_LAYER3 /\ e.eventity = x

\* What the additional event adds to the packets under way: nothing, unless it
\* is an arrival; a packet at the end, if no arrival is behind it.
LEMMA SplicePicks ==
    ASSUME NEW l \in Seq(Event), NEW e, NEW r, NEW k, NEW x, Spliced(l, e, r, k), e.pkt \in Pkt,
           Arrives(e, x) => \A j \in Arrivals(l, x) : j < k
    PROVE  InTransit(r, x) = IF Arrives(e, x) THEN Append(InTransit(l, x), e.pkt)
                                              ELSE InTransit(l, x)
<1>1. PICK f : Picks(l, x, f) /\ InTransit(l, x) = f[Len(l)]
    BY Picked
<1>2. r \in Seq(Event) /\ Len(r) = Len(l) + 1 /\ k \in 1..Len(l) + 1 /\ Len(l) \in Nat
    BY LenProperties DEF Spliced
<1>3. PICK g : Picks(r, x, g) /\ InTransit(r, x) = g[Len(r)]
    BY <1>2, Picked
<1> DEFINE add(s) == IF Arrives(e, x) THEN Append(s, e.pkt) ELSE s
<1>4. ASSUME NEW i \in 1..k - 1
      PROVE  /\ i \in 1..Len(l) /\ i \in 1..Len(r) /\ Alike(r[i], l[i])
             /\ i \in Arrivals(r, x) <=> i \in Arrivals(l, x)
    BY <1>2 DEF Spliced, Alike, Arrivals
<1>5. /\ k \in 1..Len(r) /\ Alike(r[k], e)
      /\ k \in Arrivals(r, x) <=> Arrives(e, x)
    BY <1>2 DEF Spliced, Alike, Arrivals, Arrives
<1>6. ASSUME NEW i \in k..Len(l)
      PROVE  /\ i \in 1..Len(l) /\ i + 1 \in 1..Len(r) /\ Alike(r[i + 1], l[i])
             /\ i + 1 \in Arrivals(r, x) <=> i \in Arrivals(l, x)
             /\ Arrives(e, x) => i \notin Arrivals(l, x)
    <2>1. i \in 1..Len(l) /\ i + 1 \in 1..Len(r) /\ Alike(r[i + 1], l[i])
        BY <1>2 DEF Spliced
    <2>2. i + 1 \in Arrivals(r, x) <=> i \in Arrivals(l, x)
        BY <2>1 DEF Alike, Arrivals
    <2>3. ~(i < k)
        BY <1>2
    <2> QED BY <2>1, <2>2, <2>3
<1>7. ASSUME NEW m \in 0..k - 1 PROVE g[m] = f[m]
    <2> DEFINE Bad == {i \in 0..k - 1 : g[i] # f[i]}
    <2> SUFFICES ASSUME Bad # {} PROVE FALSE
        OBVIOUS
    <2>1. PICK n \in Bad : \A i \in Bad : n <= i
        <3>1. Bad \subseteq Nat
            BY <1>2
        <3> HIDE DEF Bad
        <3> QED BY <3>1, LeastNat
    <2>2. n # 0
        BY <1>1, <1>3 DEF Picks
    <2>3. n \in 1..k - 1 /\ n - 1 \in 0..k - 1 /\ n - 1 \notin Bad
        BY <1>2, <2>1, <2>2
    <2>4. g[n - 1] = f[n - 1]
        BY <2>3
    <2>5. g[n] = f[n]
        BY <1>1, <1>3, <1>4, <2>3, <2>4, ZenonT(30) DEF Picks, Alike
    <2> QED BY <2>5
<1>8. g[k] = add(f[k - 1])
    <2>1. k - 1 \in 0..k - 1
        BY <1>2
    <2> QED BY <1>3, <1>5, <1>7, <2>1 DEF Picks, Alike
<1>9. ASSUME NEW m \in k - 1..Len(l) PROVE g[m + 1] = add(f[m])
    <2> DEFINE Bad == {i \in k - 1..Len(l) : g[i + 1] # add(f[i])}
    <2> SUFFICES ASSUME Bad # {} PROVE FALSE
        OBVIOUS
    <2>1. PICK n \in Bad : \A i \in Bad : n <= i
        <3>1. Bad \subseteq Nat
            BY <1>2
        <3> HIDE DEF Bad
        <3> QED BY <3>1, LeastNat
    <2>2. n # k - 1
        <3>1. k - 1 + 1 = k
            BY <1>2
        <3> HIDE DEF add
        <3> QED BY <1>8, <3>1
    <2>3. /\ n \in k..Len(l) /\ n - 1 \in k - 1..Len(l)
          /\ (n - 1) + 1 = n /\ (n + 1) - 1 = n
        BY <1>2, <2>2
    <2>8. n - 1 \notin Bad
        <3>1. ~(n <= n - 1)
            BY <1>2
        <3> HIDE DEF Bad
        <3> QED BY <2>1, <3>1
    <2>4. g[n] = add(f[n - 1])
        <3>1. g[(n - 1) + 1] = add(f[n - 1])
            BY <2>3, <2>8
        <3> HIDE DEF add
        <3> QED BY <2>3, <3>1
    <2>5. g[n + 1] = IF n \in Arrivals(l, x) THEN Append(g[n], l[n].pkt) ELSE g[n]
        <3>1. n + 1 \in 1..Len(r)
            BY <1>6, <2>3
        <3>2. g[n + 1] = IF n + 1 \in Arrivals(r, x) THEN Append(g[(n + 1) - 1], r[n + 1].pkt)
                                                     ELSE g[(n + 1) - 1]
            BY <1>3, <3>1 DEF Picks
        <3> QED BY <1>6, <2>3, <3>2 DEF Alike
    <2>6. f[n] = IF n \in Arrivals(l, x) THEN Append(f[n - 1], l[n].pkt) ELSE f[n - 1]
        BY <1>1, <1>6, <2>3 DEF Picks
    <2>7. g[n + 1] = add(f[n])
        BY <1>6, <2>3, <2>4, <2>5, <2>6
    <2> QED BY <2>7
<1>10. Len(l) \in k - 1..Len(l)
    BY <1>2
<1> QED BY <1>1, <1>2, <1>3, <1>9, <1>10

\* An event at the front that is an arrival stands before all others.
LEMMA SpliceFirst ==
    ASSUME NEW l \in Seq(Event), NEW e, NEW r, NEW x, Spliced(l, e, r, 1), e.pkt \in Pkt,
           Arrives(e, x)
    PROVE  InTransit(r, x) # << >> /\ Tail(InTransit(r, x)) = InTransit(l, x)
<1>1. PICK f : Picks(l, x, f) /\ InTransit(l, x) = f[Len(l)]
    BY Picked
<1>2. r \in Seq(Event) /\ Len(r) = Len(l) + 1 /\ Len(l) \in Nat
    BY LenProperties DEF Spliced
<1>3. PICK g : Picks(r, x, g) /\ InTransit(r, x) = g[Len(r)]
    BY <1>2, Picked
<1>4. 1 \in Arrivals(r, x) /\ r[1].pkt = e.pkt
    <2>1. 1 \in 1..Len(r) /\ Alike(r[1], e)
        BY <1>2 DEF Spliced
    <2> QED BY <2>1 DEF Alike, Arrivals, Arrives
<1>5. ASSUME NEW i \in 1..Len(l)
      PROVE  /\ i + 1 \in 1..Len(r) /\ r[i + 1].pkt = l[i].pkt /\ l[i].pkt \in Pkt
             /\ i + 1 \in Arrivals(r, x) <=> i \in Arrivals(l, x)
    <2>1. i + 1 \in 1..Len(r) /\ Alike(r[i + 1], l[i])
        BY <1>2 DEF Spliced
    <2>2. l[i] \in Event
        BY ElementOfSeq
    <2> QED BY <2>1, <2>2 DEF Alike, Arrivals, Event
<1> DEFINE Ahead(m) == g[m + 1] # << >> /\ Tail(g[m + 1]) = f[m]
<1>6. ASSUME NEW s \in Seq(Pkt), s # << >>, NEW p \in Pkt
      PROVE  Append(s, p) # << >> /\ Tail(Append(s, p)) = Append(Tail(s), p)
    BY <1>6
<1>7. Ahead(0)
    <2>1. 1 \in 1..Len(r) /\ 1 - 1 = 0 /\ 0 + 1 = 1
        BY <1>2
    <2>2. g[1] = Append(<< >>, e.pkt)
        BY <1>3, <1>4, <2>1 DEF Picks
    <2>3. Append(<< >>, e.pkt) # << >> /\ Tail(Append(<< >>, e.pkt)) = << >>
        <3> DEFINE p == e.pkt
        <3>1. p \in Pkt
            OBVIOUS
        <3> HIDE DEF p
        <3>2. /\ Append(<< >>, p) # << >> /\ Tail(Append(<< >>, p)) \in Seq(Pkt)
              /\ Len(Tail(Append(<< >>, p))) = 0
            BY <3>1
        <3>3. Tail(Append(<< >>, p)) = << >>
            BY <3>2, EmptySeq
        <3> QED BY <3>2, <3>3 DEF p
    <2> QED BY <1>1, <2>1, <2>2, <2>3 DEF Picks
<1>8. ASSUME NEW n \in 1..Len(l), Ahead(n - 1) PROVE Ahead(n)
    <2>1. (n - 1) + 1 = n /\ (n + 1) - 1 = n /\ n \in 0..Len(r)
        BY <1>2
    <2>2. g[n] # << >> /\ Tail(g[n]) = f[n - 1]
        BY <1>8, <2>1
    <2>3. g[n] \in Seq(Pkt)
        BY <1>3, <2>1 DEF Picks
    <2>4. g[n + 1] = IF n \in Arrivals(l, x) THEN Append(g[n], l[n].pkt) ELSE g[n]
        <3>1. g[n + 1] = IF n + 1 \in Arrivals(r, x) THEN Append(g[(n + 1) - 1], r[n + 1].pkt)
                                                     ELSE g[(n + 1) - 1]
            BY <1>3, <1>5 DEF Picks
        <3> QED BY <1>5, <2>1, <3>1
    <2>5. f[n] = IF n \in Arrivals(l, x) THEN Append(f[n - 1], l[n].pkt) ELSE f[n - 1]
        BY <1>1 DEF Picks
    <2> QED BY <1>5, <1>6, <2>2, <2>3, <2>4, <2>5
<1>9. ASSUME NEW m \in 0..Len(l) PROVE Ahead(m)
    <2> DEFINE Bad == {i \in 0..Len(l) : ~Ahead(i)}
    <2> SUFFICES ASSUME Bad # {} PROVE FALSE
        OBVIOUS
    <2>1. PICK n \in Bad : \A i \in Bad : n <= i
        <3>1. Bad \subseteq Nat
            BY <1>2
        <3> HIDE DEF Bad
        <3> QED BY <3>1, LeastNat
    <2>2. n \in 0..Len(l) /\ ~Ahead(n)
        OBVIOUS
    <2>3. n # 0
        BY <1>7, <2>2
    <2>4. n \in 1..Len(l) /\ n - 1 \in 0..Len(l) /\ ~(n <= n - 1)
        BY <1>2, <2>2, <2>3
    <2>5. n - 1 \notin Bad
        <3> HIDE DEF Bad
        <3> QED BY <2>1, <2>4
    <2>6. Ahead(n - 1)
        <3> HIDE DEF Ahead
        <3> QED BY <2>4, <2>5
    <2> HIDE DEF Ahead
    <2> QED BY <1>8, <2>2, <2>4, <2>6
<1>10. Len(l) \in 0..Len(l)
    BY <1>2
<1> QED BY <1>1, <1>2, <1>3, <1>9, <1>10

-----------------------------------------------------------------------------
(* What the operations on the list do to the packets under way: r has those *)
(* of l, and perhaps more behind them.                                     *)
Onward(l, r) == \A x \in {A, B} : IsPrefix(InTransit(l, x), InTransit(r, x))

\* Onward is reflexive ...
LEMMA OnwardStays ==
    ASSUME NEW l \in Seq(Event), NEW r \in Seq(Event),
           \A x \in {A, B} : InTransit(r, x) = InTransit(l, x)
    PROVE  Onward(l, r)
<1> SUFFICES ASSUME NEW x \in {A, B}
             PROVE  IsPrefix(InTransit(l, x), InTransit(r, x))
    BY DEF Onward
<1>1. InTransit(l, x) \in Seq(Pkt)
    BY TransitType
<1>2. InTransit(r, x) = InTransit(l, x)
    OBVIOUS
<1> HIDE DEF InTransit
<1>3. IsPrefix(InTransit(l, x), InTransit(l, x))
    BY <1>1, PrefixProps, LenProperties
<1> QED BY <1>2, <1>3

\* ... and transitive, so that the calls of a handler can be taken one by one.
LEMMA OnwardTrans ==
    ASSUME NEW l \in Seq(Event), NEW m \in Seq(Event), NEW r \in Seq(Event),
           Onward(l, m), Onward(m, r)
    PROVE  Onward(l, r)
<1> SUFFICES ASSUME NEW x \in {A, B}
             PROVE  IsPrefix(InTransit(l, x), InTransit(r, x))
    BY DEF Onward
<1> DEFINE s == InTransit(l, x)
           t == InTransit(m, x)
           u == InTransit(r, x)
<1>1. s \in Seq(Pkt) /\ t \in Seq(Pkt) /\ u \in Seq(Pkt)
    BY TransitType
<1>2. IsPrefix(s, t) /\ IsPrefix(t, u)
    BY DEF Onward
<1> HIDE DEF s, t, u
<1>3. /\ Len(s) \in Nat /\ Len(t) \in Nat /\ Len(u) \in Nat
      /\ Len(s) <= Len(t) /\ \A i \in 1..Len(s) : s[i] = t[i]
      /\ Len(t) <= Len(u) /\ \A i \in 1..Len(t) : t[i] = u[i]
    BY <1>1, <1>2, PrefixProps, LenProperties
<1>4. IsPrefix(s, u)
    BY <1>1, <1>3, PrefixProps
<1> QED BY <1>4 DEF s, u

\* insertevent splices the event into the list.
LEMMA InsertedSplices ==
    ASSUME NEW l \in Seq(Event), NEW e, NEW r, NEW k, Inserted(l, e, r, k)
    PROVE  Spliced(l, e, r, k)
BY DEF Inserted, Spliced, Alike

\* An event that is no arrival changes nothing.
LEMMA OnwardInsert ==
    ASSUME NEW l \in Seq(Event), NEW e \in Event, e.evtype # FROM_LAYER3
    PROVE  insertevent(l, e) \in Seq(Event) /\ Onward(l, insertevent(l, e))
<1> DEFINE r == insertevent(l, e)
<1>1. PICK k \in 1..Len(l) + 1 : Inserted(l, e, r, k)
    BY InsertEvent
<1> HIDE DEF r
<1>2. r \in Seq(Event) /\ Spliced(l, e, r, k) /\ e.pkt \in Pkt
    BY <1>1, InsertedSplices DEF Inserted, Event
<1>3. ASSUME NEW x \in {A, B} PROVE InTransit(r, x) = InTransit(l, x)
    <2>1. ~Arrives(e, x)
        BY DEF Arrives
    <2> QED BY <1>2, <2>1, SplicePicks
<1>4. Onward(l, r)
    BY <1>2, <1>3, OnwardStays
<1> QED BY <1>2, <1>4 DEF r

\* What Ev builds is an event.
LEMMA EvType ==
    ASSUME NEW t \in Nat, NEW type \in {TIMER_INTERRUPT, FROM_LAYER5, FROM_LAYER3},
           NEW x \in {A, B}, NEW p \in Pkt
    PROVE  Ev(t, type, x, p) \in Event /\ Ev(t, type, x, p).evtype = type
BY DEF Ev, Event

\* starttimer adds a timer at most ...
LEMMA OnwardStart ==
    ASSUME NEW l \in Seq(Event), NEW t \in Nat
    PROVE  starttimer(l, A, t) \in Seq(Event) /\ Onward(l, starttimer(l, A, t))
<1> DEFINE e == Ev(t, TIMER_INTERRUPT, A, ZeroPkt)
<1>1. e \in Event /\ e.evtype # FROM_LAYER3
    BY EvType, PacketTypes DEF TIMER_INTERRUPT, FROM_LAYER3
<1> HIDE DEF e
<1>2. insertevent(l, e) \in Seq(Event) /\ Onward(l, insertevent(l, e))
    BY <1>1, OnwardInsert
<1>3. Onward(l, l)
    BY OnwardStays
<1> QED BY <1>2, <1>3 DEF starttimer, e

\* ... and generate_next_arrival a message of layer 5.
LEMMA OnwardGenerate ==
    ASSUME NEW l \in Seq(Event), NEW gap \in Nat
    PROVE  /\ generate_next_arrival(l, gap) \in Seq(Event)
           /\ Onward(l, generate_next_arrival(l, gap))
<1> DEFINE e == Ev(gap, FROM_LAYER5, A, ZeroPkt)
<1>1. e \in Event /\ e.evtype # FROM_LAYER3
    BY EvType, PacketTypes DEF FROM_LAYER5, FROM_LAYER3
<1> HIDE DEF e
<1>2. insertevent(l, e) \in Seq(Event) /\ Onward(l, insertevent(l, e))
    BY <1>1, OnwardInsert
<1> QED BY <1>2 DEF generate_next_arrival, e

\* stoptimer takes a timer out, no packet.
LEMMA OnwardStop ==
    ASSUME NEW l \in Seq(Event)
    PROVE  stoptimer(l, A) \in Seq(Event) /\ Onward(l, stoptimer(l, A))
<1>1. CASE ~TimerRunning(l, A)
    BY <1>1, OnwardStays DEF stoptimer
<1>2. CASE TimerRunning(l, A)
    <2> DEFINE k == TimerPos(l, A)
               r == RemoveAt(l, k)
               e == l[k]
    <2>1. k \in 1..Len(l) /\ IsTimer(e, A)
        BY <1>2, TimerPosProps
    <2>2. e \in Event
        BY <2>1, ElementOfSeq
    <2>3. stoptimer(l, A) = r
        BY <1>2 DEF stoptimer
    <2> HIDE DEF k
    <2>4. /\ r \in Seq(Event) /\ Len(r) = Len(l) - 1
          /\ \A i \in 1..k - 1 : r[i] = l[i]
          /\ \A i \in k..Len(l) - 1 : r[i] = l[i + 1]
        BY <2>1, RemoveAtProps
    <2> HIDE DEF r
    <2>5. Spliced(r, e, l, k)
        <3>1. Len(l) \in Nat
            BY LenProperties
        <3>2. Len(l) = Len(r) + 1 /\ k \in 1..Len(r) + 1
            BY <2>1, <2>4, <3>1
        <3>3. ASSUME NEW i \in k..Len(r) PROVE l[i + 1] = r[i]
            BY <2>4
        <3> QED BY <2>4, <3>2, <3>3 DEF Spliced, Alike
    <2> HIDE DEF e
    <2>6. ASSUME NEW x \in {A, B} PROVE InTransit(r, x) = InTransit(l, x)
        <3>1. ~Arrives(e, x) /\ e.pkt \in Pkt
            BY <2>1, <2>2 DEF Arrives, IsTimer, TIMER_INTERRUPT, FROM_LAYER3, Event
        <3>2. InTransit(l, x) = InTransit(r, x)
            BY <2>4, <2>5, <3>1, SplicePicks
        <3> QED BY <3>2
    <2> QED BY <2>3, <2>4, <2>6, OnwardStays
<1> QED BY <1>1, <1>2

\* The clock of the medium: no packet under way to the entity arrives later.
LEMMA LastTimeIsLast ==
    ASSUME NEW l \in Seq(Event), Sorted(l), NEW x, NEW j \in Arrivals(l, x)
    PROVE  l[j].evtime <= LastTime(l, x)
<1>1. PICK i \in Arrivals(l, x) : /\ LastTime(l, x) = l[i].evtime
                                  /\ \A k \in Arrivals(l, x) : k <= i
    BY LastArrival
<1>2. i \in 1..Len(l) /\ j \in 1..Len(l) /\ j <= i
    BY <1>1 DEF Arrivals
<1> QED BY <1>1, <1>2 DEF Sorted

\* tolayer3 puts a packet behind all that travel the same way.
LEMMA OnwardToLayer3 ==
    ASSUME NEW l \in Seq(Event), Sorted(l), NEW from \in {A, B}, NEW p \in Pkt,
           NEW fate \in Fate, NEW delay \in Delay
    PROVE  LET r == tolayer3(l, from, p, fate, delay) IN
           r \in Seq(Event) /\ Onward(l, r)
<1> DEFINE other == (from + 1) % 2
           t == LastTime(l, other) + delay
           e == Ev(t, FROM_LAYER3, other, Damage(p, fate))
           r == insertevent(l, e)
<1>1. other \in {A, B}
    BY DEF A, B
<1>2. t \in Nat /\ LastTime(l, other) \in Nat /\ LastTime(l, other) < t
    BY LastTimeNat, MaxDelayAssumption DEF Delay
<1> HIDE DEF t, other
<1>3. /\ e \in Event /\ e.evtype = FROM_LAYER3 /\ e.eventity = other /\ e.evtime = t
      /\ e.pkt \in Pkt
    BY <1>1, <1>2, PacketTypes DEF Ev, Event
<1>4. tolayer3(l, from, p, fate, delay) = IF fate = "lost" THEN l ELSE r
    BY DEF tolayer3, t, other
<1> HIDE DEF e
<1>5. PICK k \in 1..Len(l) + 1 : Inserted(l, e, r, k)
    BY <1>3, InsertEvent
<1> HIDE DEF r
<1>6. r \in Seq(Event) /\ Spliced(l, e, r, k)
    BY <1>5, InsertedSplices DEF Inserted
<1>7. ASSUME NEW j \in Arrivals(l, other) PROVE j < k
    <2>1. j \in 1..Len(l) /\ Len(l) \in Nat
        BY LenProperties DEF Arrivals
    <2>2. l[j].evtime <= LastTime(l, other)
        BY LastTimeIsLast
    <2> SUFFICES ASSUME ~(j < k) PROVE FALSE
        OBVIOUS
    <2>3. k <= j /\ k \in 1..Len(l)
        BY <2>1
    <2>4. t <= l[k].evtime /\ l[k].evtime <= l[j].evtime
        BY <1>3, <1>5, <2>1, <2>3 DEF Inserted, Sorted
    <2>5. l[j] \in Event /\ l[k] \in Event
        BY <2>1, <2>3, ElementOfSeq
    <2>6. l[j].evtime \in Nat /\ l[k].evtime \in Nat
        BY <2>5 DEF Event
    <2> QED BY <1>2, <2>2, <2>4, <2>6
<1>8. ASSUME NEW x \in {A, B} PROVE IsPrefix(InTransit(l, x), InTransit(r, x))
    <2> DEFINE s == InTransit(l, x)
    <2>1. s \in Seq(Pkt) /\ IsPrefix(s, s)
        <3>1. s \in Seq(Pkt)
            BY TransitType
        <3> HIDE DEF s
        <3> QED BY <3>1, PrefixProps, LenProperties
    <2>2. CASE x = other
        <3>1. Arrives(e, x)
            BY <1>3, <2>2 DEF Arrives
        <3>2. InTransit(r, x) = Append(s, e.pkt)
            BY <1>3, <1>6, <1>7, <2>2, <3>1, SplicePicks
        <3> HIDE DEF s
        <3>3. IsPrefix(s, Append(s, e.pkt))
            BY <1>3, <2>1, PrefixGrows
        <3> QED BY <3>2, <3>3 DEF s
    <2>3. CASE x # other
        <3>1. ~Arrives(e, x)
            BY <1>3, <2>3 DEF Arrives
        <3>2. InTransit(r, x) = s
            BY <1>3, <1>6, <3>1, SplicePicks
        <3> QED BY <2>1, <3>2
    <2> QED BY <2>2, <2>3
<1>9. Onward(l, r) /\ Onward(l, l)
    BY <1>8, OnwardStays DEF Onward
<1> QED BY <1>4, <1>6, <1>9

\* main() takes a packet only from the front.
LEMMA NextTaken ==
    ASSUME NEW l \in Seq(Event), Sorted(l), l # << >>, NEW x \in {A, B}
    PROVE  /\ RemoveNext(l) \in Seq(Event)
           /\ InTransit(RemoveNext(l), x) = IF NextIs(l, FROM_LAYER3, x)
                                            THEN Tail(InTransit(l, x)) ELSE InTransit(l, x)
<1> DEFINE r == RemoveNext(l)
           e == l[1]
<1>1. Len(l) \in Nat \ {0} /\ 1 \in 1..Len(l)
    BY LenProperties, EmptySeq
<1>2. e \in Event
    BY <1>1, ElementOfSeq
<1>3. \A i \in 1..Len(l) : l[1].evtime <= l[i].evtime
    BY <1>1 DEF Sorted
<1>4. /\ r \in Seq(Event) /\ Len(r) = Len(l) - 1
      /\ \A i \in 1..Len(r) : Alike(r[i], l[i + 1])
    BY <1>3, RemoveNextProps DEF Alike
<1> HIDE DEF r
<1>5. Spliced(r, e, l, 1)
    <2>1. Len(l) = Len(r) + 1 /\ 1 \in 1..Len(r) + 1
        BY <1>1, <1>4
    <2>2. ASSUME NEW i \in 1..Len(r) PROVE Alike(l[i + 1], r[i])
        BY <1>4 DEF Alike
    <2>3. Alike(l[1], e) /\ \A i \in 1..1 - 1 : FALSE
        BY DEF Alike
    <2> QED BY <2>1, <2>2, <2>3 DEF Spliced
<1>6. NextIs(l, FROM_LAYER3, x) <=> Arrives(e, x)
    BY DEF NextIs, Arrives
<1> HIDE DEF e
<1>7. e.pkt \in Pkt
    BY <1>2 DEF Event
<1>8. CASE Arrives(e, x)
    <2>1. Tail(InTransit(l, x)) = InTransit(r, x)
        BY <1>4, <1>5, <1>7, <1>8, SpliceFirst
    <2> QED BY <1>4, <1>6, <1>8, <2>1 DEF r
<1>9. CASE ~Arrives(e, x)
    <2>1. InTransit(l, x) = InTransit(r, x)
        BY <1>4, <1>5, <1>7, <1>9, SplicePicks
    <2> QED BY <1>4, <1>6, <1>9, <2>1 DEF r
<1> QED BY <1>8, <1>9
-----------------------------------------------------------------------------
(* The loop of A_timerinterrupt.                                           *)

\* One round starts the timer unless it runs and sends one packet.
LEMMA ResendGood ==
    ASSUME NEW l, NEW P, NEW K, Good(l, P, K), P \subseteq Pkt, K \subseteq Pkt,
           NEW p \in P, NEW d \in Draw
    PROVE  /\ Good(Resend(l, p, d), P, K)
           /\ TimerRunning(Resend(l, p, d), A)
           /\ Onward(l, Resend(l, p, d))
<1> DEFINE s == starttimer(l, A, TIMEOUT)
           r == tolayer3(s, A, p, d.fate, d.delay)
<1>1. TIMEOUT \in Nat /\ d.fate \in Fate /\ d.delay \in Delay
    BY GbnAssumption DEF Draw
<1>2. Good(s, P, K) /\ TimerRunning(s, A)
    BY <1>1, GoodStart
<1>3. l \in Seq(Event)
    BY DEF Good, Orderly
<1>4. s \in Seq(Event) /\ Sorted(s) /\ Onward(l, s)
    BY <1>1, <1>2, <1>3, OnwardStart DEF Good, Orderly
<1>5. r = Resend(l, p, d)
    BY DEF Resend
<1> HIDE DEF s
<1>6. A \in {A, B} /\ p \in IF A = A THEN P ELSE K
    OBVIOUS
<1>7. Good(r, P, K) /\ TimerRunning(r, A)
    BY <1>1, <1>2, <1>6, GoodToLayer3
<1>8. r \in Seq(Event) /\ Onward(s, r)
    BY <1>1, <1>4, OnwardToLayer3
<1> HIDE DEF r
<1>9. Onward(l, r)
    BY <1>3, <1>4, <1>8, OnwardTrans
<1> QED BY <1>5, <1>7, <1>9

\* The loop goes over packets of P only, so what it leaves is a good list, with
\* its packets behind those under way, and if it sends anything the timer runs.
LEMMA ResentGood ==
    ASSUME NEW P, NEW K, P \subseteq Pkt, K \subseteq Pkt, Good(RemoveNext(evlist), P, K),
           buffer \in Seq(Pkt), ToSet(buffer) \subseteq P,
           NEW draws \in [1..WIN_SIZE -> Draw]
    PROVE  /\ Good(Resent(draws), P, K)
           /\ Onward(RemoveNext(evlist), Resent(draws))
           /\ buffer # << >> => TimerRunning(Resent(draws), A)
<1> DEFINE base == RemoveNext(evlist)
           n == IF Len(buffer) < WIN_SIZE THEN Len(buffer) ELSE WIN_SIZE
           step(l, i) == Resend(l, buffer[i], draws[i])
           F(m, g) == g = [i \in 0..m |-> IF i = 0 THEN base ELSE step(g[i - 1], i)]
           f == CHOOSE g : F(n, g)
<1>1. Resent(draws) = f[n]
    BY DEF Resent
<1>2. /\ Len(buffer) \in Nat /\ WIN_SIZE \in Nat \ {0}
      /\ n \in Nat /\ n <= Len(buffer) /\ n <= WIN_SIZE
      /\ buffer # << >> => n # 0
    BY GbnAssumption, LenProperties, EmptySeq
<1>3. ASSUME NEW i \in 1..n
      PROVE  buffer[i] \in P /\ draws[i] \in Draw
    <2>1. i \in 1..Len(buffer) /\ i \in 1..WIN_SIZE
        BY <1>2
    <2>2. buffer[i] \in ToSet(buffer)
        BY <2>1, ToSetProps
    <2> QED BY <2>1, <2>2
<1>4. ASSUME NEW l, Good(l, P, K), NEW i \in 1..n
      PROVE  Good(step(l, i), P, K) /\ TimerRunning(step(l, i), A) /\ Onward(l, step(l, i))
    BY <1>3, <1>4, ResendGood
<1> HIDE DEF base, n, step
<1>5. \A m \in Nat : \E g : F(m, g)
    <2> DEFINE S == {m \in Nat : ~\E g : F(m, g)}
    <2> SUFFICES ASSUME S # {} PROVE FALSE
        OBVIOUS
    <2>1. PICK m \in S : \A k \in S : m <= k
        BY LeastNat
    <2>2. m # 0
        <3>1. F(0, [i \in 0..0 |-> base])
            OBVIOUS
        <3> QED BY <3>1
    <2>3. m \in Nat /\ m - 1 \in Nat /\ m - 1 \notin S
        <3>1. m \in Nat
            OBVIOUS
        <3> HIDE DEF S
        <3> QED BY <2>1, <2>2, <3>1
    <2>4. PICK h : F(m - 1, h)
        BY <2>3
    <2> DEFINE g == [i \in 0..m |-> IF i = m THEN step(h[m - 1], m) ELSE h[i]]
    <2>5. ASSUME NEW i \in 0..m
          PROVE  g[i] = IF i = 0 THEN base ELSE step(g[i - 1], i)
        <3>1. CASE i = m
            BY <2>2, <2>3, <3>1
        <3>2. CASE i # m
            <4>1. i \in 0..m - 1 /\ g[i] = h[i]
                BY <2>3, <3>2
            <4>2. h[i] = IF i = 0 THEN base ELSE step(h[i - 1], i)
                BY <2>4, <4>1
            <4>3. i # 0 => g[i - 1] = h[i - 1]
                BY <2>3, <4>1
            <4> QED BY <4>1, <4>2, <4>3
        <3> QED BY <3>1, <3>2
    <2>6. F(m, g)
        BY <2>5
    <2> QED BY <2>1, <2>6
<1>6. F(n, f)
    BY <1>2, <1>5
<1> HIDE DEF f
<1>7. /\ f[0] = base
      /\ \A i \in 1..n : f[i] = step(f[i - 1], i)
    <2>1. 0 \in 0..n /\ \A i \in 1..n : i \in 0..n /\ i # 0
        BY <1>2
    <2> QED BY <1>6, <2>1
<1> DEFINE Sent(i) == Good(f[i], P, K) /\ Onward(base, f[i])
           Bad == {i \in 0..n : ~Sent(i)}
<1>8. Bad = {}
    <2> SUFFICES ASSUME Bad # {} PROVE FALSE
        OBVIOUS
    <2>1. PICK m \in Bad : \A k \in Bad : m <= k
        <3>1. Bad \subseteq Nat
            BY <1>2
        <3> HIDE DEF Bad
        <3> QED BY <3>1, LeastNat
    <2>2. m # 0
        <3>1. Good(base, P, K)
            BY DEF base
        <3>2. base \in Seq(Event)
            BY <3>1 DEF Good, Orderly
        <3>3. Onward(base, base)
            BY <3>2, OnwardStays
        <3> QED BY <1>7, <3>1, <3>3
    <2>3. m \in 1..n /\ m - 1 \in 0..n /\ m - 1 \notin Bad
        BY <1>2, <2>1, <2>2
    <2>4. Good(f[m - 1], P, K) /\ Onward(base, f[m - 1])
        BY <2>3
    <2>5. Good(f[m], P, K) /\ Onward(f[m - 1], f[m])
        BY <1>4, <1>7, <2>3, <2>4
    <2>6. base \in Seq(Event) /\ f[m - 1] \in Seq(Event) /\ f[m] \in Seq(Event)
        BY <2>4, <2>5 DEF Good, Orderly, base
    <2>7. Onward(base, f[m])
        BY <2>4, <2>5, <2>6, OnwardTrans
    <2> QED BY <2>5, <2>7
<1>9. Good(f[n], P, K) /\ Onward(base, f[n])
    BY <1>2, <1>8
<1>10. ASSUME buffer # << >> PROVE TimerRunning(f[n], A)
    <2>1. n \in 1..n /\ n - 1 \in 0..n
        BY <1>2, <1>10
    <2>2. Good(f[n - 1], P, K)
        BY <1>8, <2>1
    <2> QED BY <1>4, <1>7, <2>1, <2>2
<1> QED BY <1>1, <1>9, <1>10 DEF base

-----------------------------------------------------------------------------
(***************************************************************************)
(* The inductive invariant as the proofs use it: what GbnInv says of the   *)
(* list is one predicate, Good.  Listed speaks of the event list, Kept of  *)
(* the rest of the two entities.                                           *)
(***************************************************************************)
Listed ==
    /\ Good(evlist, PacketsOf(accepted), AnswersOf(accepted, delivered))
    /\ win_start = 0 /\ buffer # << >> => TimerRunning(evlist, A)

Kept ==
    /\ win_start \in 0..MAX_SEQ
    /\ buffer \in Seq(Pkt)
    /\ accepted \in Seq(Letters)
    /\ delivered \in Seq(Letters)
    /\ ToSet(buffer) \subseteq PacketsOf(accepted)
    /\ B_prev_ack \in AcksOf(accepted, delivered)
    /\ Counts
    /\ DeliveredWasAccepted
    /\ OrderedUntilRepeat
    /\ AckNamesDelivered

Ind == nsim \in 0..nsimmax /\ Listed /\ Kept

LEMMA IndGbnInv == Ind => GbnInv
<1> SUFFICES ASSUME Ind PROVE GbnInv
    OBVIOUS
<1>1. Packets = PacketsOf(accepted) /\ Acks = AcksOf(accepted, delivered)
    BY DEF Packets, PacketsOf, Acks, AcksOf
<1>2. Orderly(evlist) /\ evlist \in Seq(Event)
    BY DEF Ind, Listed, Good, Orderly
<1>3. ASSUME NEW i \in 1..Len(evlist), evlist[i].evtype = FROM_LAYER3
      PROVE  /\ accepted # << >>
             /\ \E p \in IF evlist[i].eventity = B THEN Packets ELSE Acks, fate \in Fate :
                    evlist[i].pkt = Damage(p, fate)
    <2>1. evlist[i] \in Events(evlist)
        BY <1>2, EventsProps
    <2>2. PICK p \in IF evlist[i].eventity = B THEN PacketsOf(accepted)
                                              ELSE AnswersOf(accepted, delivered),
               fate \in Fate : evlist[i].pkt = Damage(p, fate)
        BY <1>3, <2>1 DEF Ind, Listed, Good, Carried
    <2>3. CASE evlist[i].eventity = B
        <3>1. p \in PacketsOf(accepted)
            BY <2>2, <2>3
        <3>2. accepted # << >>
            BY <3>1, PacketsProps, EmptySeq DEF Ind, Kept
        <3> QED BY <1>1, <2>2, <2>3, <3>1, <3>2
    <2>4. CASE evlist[i].eventity # B
        <3>1. p \in AcksOf(accepted, delivered) /\ accepted # << >>
            BY <2>2, <2>4 DEF AnswersOf
        <3> QED BY <1>1, <2>2, <2>4, <3>1
    <2> QED BY <2>3, <2>4
<1>4. Medium(evlist)
    BY <1>3 DEF Medium
<1>5. /\ ACK \in 0..MAX_SEQ - 1 /\ SEQ_NUM \in 0..MAX_SEQ - 1
    <2>1. /\ Len(accepted) \in Nat /\ Len(delivered) \in Nat /\ MAX_SEQ \in Nat \ {0}
          /\ SEQ_NUM = Len(accepted) % MAX_SEQ
          /\ ACK = Len(delivered) % MAX_SEQ
        BY GbnAssumption, LenProperties DEF Ind, Kept, Counts
    <2> QED BY <2>1, ModProps
<1>6. B_prev_ack \in Pkt
    BY AcksProps DEF Ind, Kept, Sound
<1>7. TypeOK
    BY <1>2, <1>5, <1>6 DEF TypeOK, Ind, Kept
<1>8. OneTimer
    BY <1>2 DEF OneTimer, Orderly, Ind, Listed
<1> QED BY <1>1, <1>4, <1>7, <1>8 DEF GbnInv, Ind, Kept

LEMMA EmptyProps ==
    ASSUME NEW T, NEW s \in Seq(T), Len(s) = 0
    PROVE  ToSet(s) = {} /\ IsPrefix(s, s)
<1>1. 1..Len(s) = {} /\ Len(s) <= Len(s)
    OBVIOUS
<1>2. \A x : x \notin ToSet(s)
    BY <1>1, ToSetProps
<1>3. IsPrefix(s, s)
    BY <1>1 DEF IsPrefix
<1> QED BY <1>2, <1>3

LEMMA IndInit == Init => Ind
<1> SUFFICES ASSUME Init PROVE Ind
    OBVIOUS
<1> USE DEF Init, init, A_init, B_init
<1>1. PICK gap \in Gap : evlist = generate_next_arrival(<< >>, gap)
    OBVIOUS
<1>2. gap \in Nat
    BY GbnAssumption DEF Gap
<1>3. << >> \in Seq(Event) /\ << >> \in Seq(Pkt) /\ << >> \in Seq(Letters) /\ Len(<< >>) = 0
    BY EmptySeq
<1>4. Good(<< >>, PacketsOf(accepted), AnswersOf(accepted, delivered))
    BY <1>3 DEF Good, Orderly, Sorted, Events
<1>5. Listed
    BY <1>1, <1>2, <1>4, GoodArrival DEF Listed
<1>6. /\ nsimmax \in Nat /\ MAX_SEQ \in Nat \ {0}
      /\ 0 % MAX_SEQ = 0
    BY GbnAssumption, ModProps
<1>7. ToSet(<< >>) = {}
    BY <1>3, EmptyProps
<1>8. IsPrefix(<< >>, << >>)
    BY <1>3, EmptyProps
<1>9. Counts /\ DeliveredWasAccepted /\ OrderedUntilRepeat /\ AckNamesDelivered
    BY <1>3, <1>6, <1>7, <1>8
    DEF Counts, DeliveredWasAccepted, OrderedUntilRepeat, AckNamesDelivered
<1>10. Kept
    BY <1>3, <1>6, <1>7, <1>9 DEF Kept, AcksOf
<1> QED BY <1>5, <1>6, <1>10 DEF Ind

-----------------------------------------------------------------------------
(* The steps of A.                                                         *)

\* Facts about the histories that every step needs.
LEMMA KeptFacts ==
    ASSUME Kept
    PROVE  /\ Len(accepted) \in Nat /\ Len(delivered) \in Nat /\ Len(buffer) \in Nat
           /\ MAX_SEQ \in Nat \ {0}
           /\ PacketsOf(accepted) \subseteq Pkt
           /\ AcksOf(accepted, delivered) \subseteq Pkt
           /\ AnswersOf(accepted, delivered) \subseteq AcksOf(accepted, delivered)
           /\ AnswersOf(accepted, delivered) \subseteq Pkt
<1>1. /\ Len(accepted) \in Nat /\ Len(delivered) \in Nat /\ Len(buffer) \in Nat
      /\ MAX_SEQ \in Nat \ {0}
    BY GbnAssumption, LenProperties DEF Kept
<1>2. PacketsOf(accepted) \subseteq Pkt /\ AcksOf(accepted, delivered) \subseteq Pkt
    BY PacketsProps, AcksProps DEF Kept, Sound
<1> QED BY <1>1, <1>2 DEF AnswersOf

\* main() takes the message off the list and may schedule the next one.
LEMMA AfterArrivalGood ==
    ASSUME NEW P, NEW K, Good(evlist, P, K), NextIs(evlist, FROM_LAYER5, A), NEW gap \in Gap
    PROVE  /\ Good(AfterArrival(gap), P, K)
           /\ TimerRunning(evlist, A) => TimerRunning(AfterArrival(gap), A)
<1>1. gap \in Nat
    BY GbnAssumption DEF Gap
<1>2. evlist # << >> /\ ~IsTimer(evlist[1], A)
    BY DEF NextIs, IsTimer, FROM_LAYER5, TIMER_INTERRUPT
<1>3. /\ Good(RemoveNext(evlist), P, K)
      /\ TimerRunning(evlist, A) => TimerRunning(RemoveNext(evlist), A)
    BY <1>2, GoodRemoveNext
<1> QED BY <1>1, <1>3, GoodArrival DEF AfterArrival

\* The message that A takes, and its packet.
NewPkt == MakePkt(SEQ_NUM, SEQ_NUM, Letter(nsim))

LEMMA PacketizeFacts ==
    ASSUME Kept, nsim \in 0..nsimmax, Packetize, UNCHANGED delivered
    PROVE  /\ NewPkt \in Pkt
           /\ buffer' = Append(buffer, NewPkt)
           /\ Letter(nsim) \in Letters
           /\ accepted' = Append(accepted, Letter(nsim))
           /\ PacketsOf(accepted') = PacketsOf(accepted) \cup {NewPkt}
           /\ AcksOf(accepted, delivered) \subseteq AcksOf(accepted', delivered')
           /\ AnswersOf(accepted, delivered) \subseteq AnswersOf(accepted', delivered')
<1>1. Letter(nsim) \in Letters /\ Letter(nsim) \in Payload
    BY GbnAssumption, PacketTypes
<1>2. /\ Len(accepted) \in Nat /\ MAX_SEQ \in Nat \ {0}
      /\ SEQ_NUM = Len(accepted) % MAX_SEQ
    BY KeptFacts DEF Kept, Counts
<1>3. SEQ_NUM \in Int
    BY <1>2, ModProps
<1>4. NewPkt \in Pkt /\ NewPkt.payload = Letter(nsim)
    BY <1>1, <1>3, MakePktProps DEF NewPkt
<1>5. buffer' = Append(buffer, NewPkt) /\ accepted' = Append(accepted, Letter(nsim))
    BY <1>4 DEF Packetize, NewPkt
<1>6. PacketsOf(accepted') = PacketsOf(accepted) \cup {NewPkt}
    BY <1>1, <1>2, <1>5, PacketsGrow DEF Kept, NewPkt
<1>7. accepted' # << >>
    BY <1>1, <1>5, AppendProperties DEF Kept
<1>8. /\ AcksOf(accepted, delivered) \subseteq AcksOf(accepted', delivered')
      /\ AnswersOf(accepted, delivered) \subseteq AnswersOf(accepted', delivered')
    BY <1>6, <1>7, AnswersGrow
<1> QED BY <1>1, <1>4, <1>5, <1>6, <1>8

\* Taking a message: the number follows the count, the new packet is kept.
LEMMA PacketizeKeeps ==
    ASSUME Kept, nsim \in 0..nsimmax, Packetize,
           UNCHANGED <<ACK, win_start, B_prev_ack, delivered>>
    PROVE  Kept'
<1> DEFINE x == Letter(nsim)
<1>1. /\ NewPkt \in Pkt
      /\ buffer' = Append(buffer, NewPkt)
      /\ x \in Letters
      /\ accepted' = Append(accepted, x)
      /\ PacketsOf(accepted') = PacketsOf(accepted) \cup {NewPkt}
      /\ AcksOf(accepted, delivered) \subseteq AcksOf(accepted', delivered')
    BY PacketizeFacts
<1>2. /\ Len(accepted) \in Nat /\ Len(delivered) \in Nat /\ Len(buffer) \in Nat
      /\ MAX_SEQ \in Nat \ {0}
    BY KeptFacts
<1> HIDE DEF x
<1>3. /\ accepted' \in Seq(Letters) /\ Len(accepted') = Len(accepted) + 1
      /\ \A i \in 1..Len(accepted) : accepted'[i] = accepted[i]
    BY <1>1, AppendProperties DEF Kept
<1>4. buffer' \in Seq(Pkt) /\ Len(buffer') = Len(buffer) + 1
    BY <1>1, AppendProperties DEF Kept
<1>5. ToSet(buffer') = ToSet(buffer) \cup {NewPkt}
    BY <1>1, ToSetProps DEF Kept
<1>6. ToSet(accepted') = ToSet(accepted) \cup {x}
    BY <1>1, ToSetProps DEF Kept
<1>7. Counts'
    <2>1. SEQ_NUM' = Len(accepted') % MAX_SEQ
        BY <1>2, <1>3, ModSucc DEF Kept, Counts, Packetize
    <2>2. Len(accepted') <= Len(buffer') + win_start'
        BY <1>2, <1>3, <1>4, GbnAssumption DEF Kept, Counts
    <2> QED BY <2>1, <2>2 DEF Kept, Counts
<1>8. DeliveredWasAccepted'
    BY <1>6 DEF Kept, DeliveredWasAccepted
<1>9. OrderedUntilRepeat'
    <2> SUFFICES ASSUME Len(accepted') <= MAX_SEQ, NoRepeats(delivered)
                 PROVE  IsPrefix(delivered, accepted')
        BY DEF OrderedUntilRepeat
    <2>1. Len(accepted) <= MAX_SEQ
        BY <1>2, <1>3
    <2>2. IsPrefix(delivered, accepted)
        BY <2>1 DEF Kept, OrderedUntilRepeat
    <2> QED BY <1>1, <2>2, PrefixGrows DEF Kept
<1>10. AckNamesDelivered'
    <2>1. win_start <= Len(accepted')
        BY <1>2, <1>3, GbnAssumption DEF Kept, AckNamesDelivered
    <2>2. ASSUME win_start > 1
          PROVE  \E i \in 1..Len(accepted') :
                     (i - 1) % MAX_SEQ = win_start - 1 /\ accepted'[i] \in ToSet(delivered)
        <3>1. PICK i \in 1..Len(accepted) :
                     (i - 1) % MAX_SEQ = win_start - 1 /\ accepted[i] \in ToSet(delivered)
            BY <2>2 DEF Kept, AckNamesDelivered
        <3>2. i \in 1..Len(accepted')
            BY <1>2, <1>3
        <3> QED BY <1>3, <3>1, <3>2
    <2> QED BY <2>1, <2>2 DEF AckNamesDelivered
<1> QED BY <1>1, <1>3, <1>4, <1>5, <1>7, <1>8, <1>9, <1>10 DEF Kept

LEMMA A_outputKeeps ==
    ASSUME Ind, NEW gap \in Gap, NEW d \in Draw, A_output(gap, d)
    PROVE  Ind'
<1> USE DEF A_output, FromLayer5, Fires
<1>1. Kept'
    BY PacketizeKeeps DEF Ind
<1>2. nsim' \in 0..nsimmax
    BY GbnAssumption DEF Ind
<1>3. /\ NewPkt \in Pkt
      /\ PacketsOf(accepted') = PacketsOf(accepted) \cup {NewPkt}
      /\ AnswersOf(accepted, delivered) \subseteq AnswersOf(accepted', delivered')
    BY PacketizeFacts DEF Ind
<1> DEFINE P == PacketsOf(accepted')
           K == AnswersOf(accepted', delivered')
           l == AfterArrival(gap)
           m == tolayer3(l, A, NewPkt, d.fate, d.delay)
<1>4. P \subseteq Pkt /\ K \subseteq Pkt
    <2>1. accepted' \in Seq(Letters)
        BY <1>1 DEF Kept
    <2> QED BY <2>1, PacketsProps, AcksProps DEF AnswersOf, Sound
<1>5. Good(evlist, P, K)
    BY <1>3, GoodMono DEF Ind, Listed
<1>6. evlist' = starttimer(m, A, TIMEOUT)
    BY DEF NewPkt
<1>7. NewPkt \in P
    BY <1>3
<1> HIDE DEF P, K
<1>8. Good(l, P, K)
    BY <1>5, AfterArrivalGood
<1> HIDE DEF l
<1>9. d.fate \in Fate /\ d.delay \in Delay
    BY GbnAssumption DEF Draw
<1>10. Good(m, P, K)
    <2>1. A \in {A, B} /\ NewPkt \in IF A = A THEN P ELSE K
        BY <1>7
    <2> QED BY <1>4, <1>8, <1>9, <2>1, GoodToLayer3
<1> HIDE DEF m
<1>11. Good(evlist', P, K) /\ TimerRunning(evlist', A)
    BY <1>6, <1>10, GbnAssumption, GoodStart
<1>12. Listed'
    BY <1>11 DEF Listed, P, K
<1> QED BY <1>1, <1>2, <1>12 DEF Ind

\* The window is full only when A has sent something, so its timer runs.
LEMMA A_output_savedKeeps ==
    ASSUME Ind, NEW gap \in Gap, A_output_saved(gap)
    PROVE  Ind'
<1> USE DEF A_output_saved, FromLayer5, Fires
<1>1. Kept'
    BY PacketizeKeeps DEF Ind
<1>2. nsim' \in 0..nsimmax
    BY GbnAssumption DEF Ind
<1> DEFINE P == PacketsOf(accepted')
           K == AnswersOf(accepted', delivered')
<1>3. Good(evlist, P, K)
    <2>1. /\ PacketsOf(accepted) \subseteq P
          /\ AnswersOf(accepted, delivered) \subseteq K
        BY PacketizeFacts DEF Ind
    <2> QED BY <2>1, GoodMono DEF Ind, Listed
<1> HIDE DEF P, K
<1>4. Good(evlist', P, K) /\ (TimerRunning(evlist, A) => TimerRunning(evlist', A))
    BY <1>3, AfterArrivalGood
<1>5. ASSUME win_start = 0
      PROVE  TimerRunning(evlist, A)
    <2>1. /\ Len(accepted) \in Nat /\ Len(buffer) \in Nat /\ MAX_SEQ \in Nat \ {0}
        BY KeptFacts DEF Ind
    <2>2. Len(accepted) % MAX_SEQ <= Len(accepted) /\ Len(accepted) % MAX_SEQ \in Int
        <3>1. ASSUME NEW n \in Nat
              PROVE  n % MAX_SEQ <= n /\ n % MAX_SEQ \in 0..MAX_SEQ - 1
            BY <2>1, ModProps
        <3> QED BY <2>1, <3>1
    <2>3. SEQ_NUM = Len(accepted) % MAX_SEQ /\ Len(accepted) <= Len(buffer) + win_start
        BY DEF Ind, Kept, Counts
    <2>4. SEQ_NUM > 0
        BY <1>5, <2>2, <2>3, GbnAssumption DEF InWindow
    <2>5. Len(buffer) > 0
        BY <1>5, <2>1, <2>2, <2>3, <2>4
    <2>6. buffer # << >>
        BY <2>5
    <2> QED BY <1>5, <2>6 DEF Ind, Listed
<1>6. Listed'
    BY <1>4, <1>5 DEF Listed, P, K
<1> QED BY <1>1, <1>2, <1>6 DEF Ind

LEMMA A_output_fullKeeps ==
    ASSUME Ind, NEW gap \in Gap, A_output_full(gap)
    PROVE  Ind'
<1> USE DEF A_output_full, FromLayer5, Fires
<1>1. UNCHANGED <<ACK, SEQ_NUM, win_start, buffer, B_prev_ack, accepted, delivered>>
    OBVIOUS
<1>2. Kept'
    BY <1>1 DEF Ind, Kept, Counts, DeliveredWasAccepted, OrderedUntilRepeat, AckNamesDelivered
<1>3. nsim' \in 0..nsimmax
    BY GbnAssumption DEF Ind
<1>4. Listed'
    BY <1>1, AfterArrivalGood DEF Ind, Listed
<1> QED BY <1>2, <1>3, <1>4 DEF Ind

(***************************************************************************)
(* What A knows when an ACK passes the checksum: its number is that of a   *)
(* message it sent, and one of a delivered message unless it is 0.         *)
(***************************************************************************)
LEMMA GoodAck ==
    ASSUME Ind, NextIs(evlist, FROM_LAYER3, A), GoodChecksum
    PROVE  LET k == evlist[1].pkt.acknum IN
           /\ k \in 0..MAX_SEQ - 1
           /\ k < Len(accepted)
           /\ k > 0 => \E i \in 1..Len(accepted) :
                           Number(i) = k /\ accepted[i] \in ToSet(delivered)
<1> DEFINE k == evlist[1].pkt.acknum
<1>1. Carried(evlist[1], PacketsOf(accepted), AnswersOf(accepted, delivered))
    BY GoodRemoveNext DEF Ind, Listed, NextIs
<1>2. A # B
    BY DEF A, B
<1>3. PICK p \in AnswersOf(accepted, delivered), fate \in Fate :
          evlist[1].pkt = Damage(p, fate)
    BY <1>1, <1>2 DEF Carried, NextIs
<1>4. p \in AcksOf(accepted, delivered) /\ accepted # << >> /\ accepted \in Seq(Letters)
    BY DEF AnswersOf, Ind, Kept
<1>5. /\ Sound(p)
      /\ \/ p.acknum = 0
         \/ \E i \in 1..Len(accepted) : p.acknum = Number(i) /\ accepted[i] \in ToSet(delivered)
    BY <1>4, AcksProps
<1>6. evlist[1].pkt = p
    BY <1>3, <1>5, DamageDetected DEF GoodChecksum
<1>7. k = p.acknum
    BY <1>6
<1>8. Len(accepted) \in Nat \ {0} /\ MAX_SEQ \in Nat \ {0}
    BY <1>4, EmptySeq, LenProperties, GbnAssumption
<1> HIDE DEF k
<1>9. CASE k = 0
    BY <1>8, <1>9 DEF k
<1>10. CASE k # 0
    <2>1. PICK i \in 1..Len(accepted) : k = Number(i) /\ accepted[i] \in ToSet(delivered)
        BY <1>5, <1>7, <1>10
    <2>2. i \in Nat \ {0} /\ i <= Len(accepted)
        BY <1>8
    <2>3. k \in 0..MAX_SEQ - 1 /\ k < i
        BY <2>1, <2>2, NumberProps
    <2>4. k < Len(accepted)
        BY <1>8, <2>2, <2>3
    <2> QED BY <2>1, <2>3, <2>4 DEF k
<1> QED BY <1>9, <1>10

\* The buffer holds a packet that pop_back() can remove.
LEMMA AckFindsPacket ==
    ASSUME Ind, NextIs(evlist, FROM_LAYER3, A), GoodChecksum,
           evlist[1].pkt.acknum >= win_start
    PROVE  Len(buffer) >= 1
<1> DEFINE k == evlist[1].pkt.acknum
<1>1. k \in 0..MAX_SEQ - 1 /\ k < Len(accepted)
    BY GoodAck
<1>2. /\ Len(accepted) \in Nat /\ Len(buffer) \in Nat
      /\ win_start \in Int /\ MAX_SEQ \in Int
      /\ Len(accepted) <= Len(buffer) + win_start
    BY KeptFacts, GbnAssumption DEF Ind, Kept, Counts
<1>3. k >= win_start
    OBVIOUS
<1> HIDE DEF k
<1> QED BY <1>1, <1>2, <1>3

LEMMA A_inputKeeps ==
    ASSUME Ind, A_input
    PROVE  Ind'
<1> USE DEF A_input, Fires
<1> DEFINE k == evlist[1].pkt.acknum
           P == PacketsOf(accepted)
           K == AnswersOf(accepted, delivered)
<1>1. /\ k \in 0..MAX_SEQ - 1
      /\ k < Len(accepted)
      /\ k > 0 => \E i \in 1..Len(accepted) :
                      Number(i) = k /\ accepted[i] \in ToSet(delivered)
    BY GoodAck
<1>2. Len(buffer) >= 1
    BY AckFindsPacket
<1>3. /\ win_start' = k + 1 /\ k >= win_start
      /\ buffer' = SubSeq(buffer, 1, Len(buffer) - 1)
      /\ evlist' = stoptimer(RemoveNext(evlist), A)
      /\ UNCHANGED <<nsim, ACK, SEQ_NUM, B_prev_ack, accepted, delivered>>
    OBVIOUS
<1>4. /\ Len(accepted) \in Nat /\ Len(buffer) \in Nat /\ MAX_SEQ \in Nat \ {0}
      /\ win_start \in Int
      /\ Len(accepted) <= Len(buffer) + win_start
    BY KeptFacts, GbnAssumption, SMTT(30) DEF Ind, Kept, Counts
<1>5. Good(RemoveNext(evlist), P, K)
    BY GoodRemoveNext DEF Ind, Listed, NextIs
<1>6. Good(evlist', P, K)
    <2> HIDE DEF P, K
    <2> QED BY <1>3, <1>5, GoodStop
<1> HIDE DEF k, A_input
<1>7. Listed'
    <2>1. win_start' # 0
        BY <1>1, <1>3, <1>4
    <2> QED BY <1>3, <1>6, <2>1 DEF Listed
<1> HIDE DEF P, K
<1>8. win_start' \in 0..MAX_SEQ
    BY <1>1, <1>3, <1>4
<1>9. /\ buffer' \in Seq(Pkt) /\ Len(buffer') = Len(buffer) - 1
      /\ \A i \in 1..Len(buffer') : buffer'[i] = buffer[i]
    <2>1. buffer \in Seq(Pkt)
        BY DEF Ind, Kept
    <2>2. \A i \in 1..Len(buffer) - 1 : buffer[i] \in Pkt
        BY <1>4, <2>1, ElementOfSeq
    <2> DEFINE n == Len(buffer) - 1
    <2>3. n \in Nat /\ \A i \in 1..n : buffer[i] \in Pkt
        BY <1>2, <1>4, <2>2
    <2> HIDE DEF n
    <2>4. /\ SubSeq(buffer, 1, n) \in Seq(Pkt)
          /\ Len(SubSeq(buffer, 1, n)) = n
          /\ \A i \in 1..n : SubSeq(buffer, 1, n)[i] = buffer[i]
        BY <2>3, SubSeqProperties
    <2> QED BY <1>3, <2>4 DEF n
<1>10. ToSet(buffer') \subseteq ToSet(buffer)
    <2>1. \A i \in 1..Len(buffer') : i \in 1..Len(buffer)
        BY <1>4, <1>9
    <2>2. buffer \in Seq(Pkt)
        BY DEF Ind, Kept
    <2>3. ASSUME NEW x \in ToSet(buffer') PROVE x \in ToSet(buffer)
        <3>1. PICK i \in 1..Len(buffer') : x = buffer'[i]
            BY <1>9, ToSetProps
        <3>2. i \in 1..Len(buffer) /\ x = buffer[i]
            BY <1>9, <2>1, <3>1
        <3> QED BY <2>2, <3>2, ToSetProps
    <2> QED BY <2>3
<1>11. Counts'
    <2>1. k \in Int /\ k >= win_start /\ win_start' = k + 1 /\ Len(buffer') = Len(buffer) - 1
        BY <1>1, <1>3, <1>4, <1>9
    <2>2. Len(accepted) <= Len(buffer') + win_start'
        BY <1>4, <2>1
    <2> QED BY <1>3, <2>2 DEF Counts, Ind, Kept
<1>12. AckNamesDelivered'
    <2>1. win_start' <= Len(accepted)
        BY <1>1, <1>3, <1>4
    <2>2. ASSUME win_start' > 1
          PROVE  \E i \in 1..Len(accepted) :
                     (i - 1) % MAX_SEQ = win_start' - 1 /\ accepted[i] \in ToSet(delivered)
        <3>1. k > 0 /\ win_start' - 1 = k
            BY <1>1, <1>3, <1>4, <2>2
        <3> QED BY <1>1, <3>1 DEF Number
    <2> QED BY <1>3, <2>1, <2>2 DEF AckNamesDelivered
<1>13. Kept'
    BY <1>3, <1>8, <1>9, <1>10, <1>11, <1>12
    DEF Ind, Kept, DeliveredWasAccepted, OrderedUntilRepeat
<1> QED BY <1>3, <1>7, <1>13 DEF Ind

LEMMA A_input_ignoredKeeps ==
    ASSUME Ind, A_input_ignored
    PROVE  Ind'
<1> USE DEF A_input_ignored, Fires
<1>1. /\ evlist' = RemoveNext(evlist)
      /\ UNCHANGED <<nsim, ACK, SEQ_NUM, win_start, buffer, B_prev_ack, accepted, delivered>>
    OBVIOUS
<1>2. evlist # << >> /\ ~IsTimer(evlist[1], A)
    BY DEF NextIs, IsTimer, FROM_LAYER3, TIMER_INTERRUPT
<1>3. Listed'
    BY <1>1, <1>2, GoodRemoveNext DEF Ind, Listed
<1>4. Kept'
    BY <1>1 DEF Ind, Kept, Counts, DeliveredWasAccepted, OrderedUntilRepeat, AckNamesDelivered
<1> QED BY <1>1, <1>3, <1>4 DEF Ind

LEMMA A_timerinterruptKeeps ==
    ASSUME Ind, NEW draws \in [1..WIN_SIZE -> Draw], A_timerinterrupt(draws)
    PROVE  Ind'
<1> USE DEF A_timerinterrupt, Fires
<1>1. /\ evlist' = Resent(draws)
      /\ UNCHANGED <<nsim, ACK, SEQ_NUM, win_start, buffer, B_prev_ack, accepted, delivered>>
    OBVIOUS
<1> DEFINE P == PacketsOf(accepted)
           K == AnswersOf(accepted, delivered)
<1>2. P \subseteq Pkt /\ K \subseteq Pkt
    BY KeptFacts DEF Ind
<1>3. Good(RemoveNext(evlist), P, K)
    BY GoodRemoveNext DEF Ind, Listed, NextIs
<1>4. buffer \in Seq(Pkt) /\ ToSet(buffer) \subseteq P
    BY DEF Ind, Kept
<1>5. Good(evlist', P, K) /\ (buffer # << >> => TimerRunning(evlist', A))
    <2> HIDE DEF P, K
    <2> QED BY <1>1, <1>2, <1>3, <1>4, ResentGood
<1>6. Listed'
    BY <1>1, <1>5 DEF Listed
<1>7. Kept'
    BY <1>1 DEF Ind, Kept, Counts, DeliveredWasAccepted, OrderedUntilRepeat, AckNamesDelivered
<1> QED BY <1>1, <1>6, <1>7 DEF Ind

-----------------------------------------------------------------------------
(* The steps of B.                                                         *)

\* A packet that passes the checksum is one that A built.
LEMMA GoodPacket ==
    ASSUME Ind, NextIs(evlist, FROM_LAYER3, B), GoodChecksum
    PROVE  /\ evlist[1].pkt \in PacketsOf(accepted)
           /\ \E i \in 1..Len(accepted) :
                  evlist[1].pkt.acknum = Number(i) /\ evlist[1].pkt.payload = accepted[i]
<1>1. Carried(evlist[1], PacketsOf(accepted), AnswersOf(accepted, delivered))
    BY GoodRemoveNext DEF Ind, Listed, NextIs
<1>2. PICK p \in PacketsOf(accepted), fate \in Fate : evlist[1].pkt = Damage(p, fate)
    BY <1>1 DEF Carried, NextIs
<1>3. /\ Sound(p)
      /\ \E i \in 1..Len(accepted) :
             p.seqnum = Number(i) /\ p.acknum = Number(i) /\ p.payload = accepted[i]
    BY PacketsProps DEF Ind, Kept
<1>4. evlist[1].pkt = p
    BY <1>2, <1>3, DamageDetected DEF GoodChecksum
<1> QED BY <1>3, <1>4

LEMMA B_inputKeeps ==
    ASSUME Ind, NEW g \in Garbage, NEW d \in Draw, B_input(g, d)
    PROVE  Ind'
<1> DEFINE packet == evlist[1].pkt
           ackpkt == AckPkt(packet, g)
           x == packet.payload
<1>1. /\ NextIs(evlist, FROM_LAYER3, B)
      /\ GoodChecksum
      /\ packet.acknum <= ACK
      /\ evlist' = tolayer3(RemoveNext(evlist), B, ackpkt, d.fate, d.delay)
      /\ delivered' = Append(delivered, x)
      /\ B_prev_ack' = ackpkt
      /\ ACK' = (ACK + 1) % MAX_SEQ
      /\ UNCHANGED <<nsim, SEQ_NUM, win_start, buffer, accepted>>
    BY DEF B_input, Fires
<1>2. packet \in PacketsOf(accepted)
    BY <1>1, GoodPacket
<1>3. PICK i \in 1..Len(accepted) : packet.acknum = Number(i) /\ x = accepted[i]
    BY <1>1, GoodPacket
<1>4. /\ Len(accepted) \in Nat /\ Len(delivered) \in Nat /\ MAX_SEQ \in Nat \ {0}
      /\ accepted \in Seq(Letters) /\ delivered \in Seq(Letters)
    BY KeptFacts DEF Ind, Kept
<1>5. x \in Letters /\ x \in ToSet(accepted)
    BY <1>3, <1>4, ElementOfSeq, ToSetProps
<1> HIDE DEF packet, x
<1>6. /\ delivered' \in Seq(Letters) /\ Len(delivered') = Len(delivered) + 1
      /\ ToSet(delivered') = ToSet(delivered) \cup {x}
    BY <1>1, <1>4, <1>5, AppendProperties, ToSetProps
<1>7. /\ AcksOf(accepted, delivered) \subseteq AcksOf(accepted, delivered')
      /\ AnswersOf(accepted, delivered) \subseteq AnswersOf(accepted, delivered')
    BY <1>6, AnswersGrow
<1>8. ackpkt \in AcksOf(accepted, delivered') /\ ackpkt \in AnswersOf(accepted, delivered')
    <2>1. packet.payload \in ToSet(delivered')
        BY <1>6 DEF x
    <2>2. accepted # << >>
        BY <1>3, <1>4
    <2> QED BY <1>2, <2>1, <2>2 DEF AcksOf, AnswersOf
<1> DEFINE P == PacketsOf(accepted)
           K == AnswersOf(accepted, delivered')
<1>9. P \subseteq Pkt /\ K \subseteq Pkt
    BY <1>4, PacketsProps, AcksProps DEF AnswersOf, Sound
<1>10. Good(evlist, P, K)
    BY <1>7, GoodMono DEF Ind, Listed
<1>11. ackpkt \in K
    BY <1>8
<1> HIDE DEF P, K, ackpkt
<1>12. /\ Good(RemoveNext(evlist), P, K)
       /\ TimerRunning(evlist, A) => TimerRunning(RemoveNext(evlist), A)
    <2>1. evlist # << >> /\ ~IsTimer(evlist[1], A)
        BY <1>1 DEF NextIs, IsTimer, FROM_LAYER3, TIMER_INTERRUPT
    <2> QED BY <1>10, <2>1, GoodRemoveNext
<1>13. /\ Good(evlist', P, K)
       /\ TimerRunning(evlist, A) => TimerRunning(evlist', A)
    <2>1. d.fate \in Fate /\ d.delay \in Delay
        BY GbnAssumption DEF Draw
    <2>2. B \in {A, B} /\ ackpkt \in IF B = A THEN P ELSE K
        BY <1>11 DEF A, B
    <2> QED BY <1>1, <1>9, <1>12, <2>1, <2>2, GoodToLayer3
<1>14. Listed'
    BY <1>1, <1>13 DEF Ind, Listed, P, K
<1>15. Counts'
    BY <1>1, <1>4, <1>6, ModSucc DEF Ind, Kept, Counts
<1>16. DeliveredWasAccepted'
    BY <1>1, <1>5, <1>6 DEF Ind, Kept, DeliveredWasAccepted
<1>17. OrderedUntilRepeat'
    <2> SUFFICES ASSUME Len(accepted) <= MAX_SEQ, NoRepeats(delivered')
                 PROVE  IsPrefix(delivered', accepted)
        BY <1>1 DEF OrderedUntilRepeat
    <2>1. NoRepeats(delivered)
        BY <1>1, <1>4, <1>5, NoRepeatsPrefix
    <2>2. IsPrefix(delivered, accepted)
        BY <2>1 DEF Ind, Kept, OrderedUntilRepeat
    <2>3. i \in Nat \ {0} /\ i <= Len(accepted)
        BY <1>4
    <2>4. Number(i) = i - 1
        <3> DEFINE n == i - 1
        <3>1. n \in Nat /\ n < MAX_SEQ
            BY <1>4, <2>3
        <3>2. Number(i) = n % MAX_SEQ
            BY DEF Number
        <3> HIDE DEF n
        <3>3. n % MAX_SEQ = n
            BY <1>4, <3>1, ModProps
        <3> QED BY <3>2, <3>3 DEF n
    <2>5. ASSUME NEW n \in Nat
          PROVE  n % MAX_SEQ <= n /\ n % MAX_SEQ \in 0..MAX_SEQ - 1
        BY <1>4, ModProps
    <2>6. ACK <= Len(delivered) /\ ACK \in Int
        BY <1>4, <2>5 DEF Ind, Kept, Counts
    <2>7. i - 1 <= ACK
        BY <1>1, <1>3, <2>4
    <2>8. i <= Len(delivered) + 1
        BY <1>4, <2>3, <2>6, <2>7
    <2> QED BY <1>1, <1>3, <1>4, <2>2, <2>8, NextOrRepeat
<1>18. AckNamesDelivered'
    BY <1>1, <1>6 DEF Ind, Kept, AckNamesDelivered
<1>19. Kept'
    BY <1>1, <1>6, <1>8, <1>15, <1>16, <1>17, <1>18 DEF Ind, Kept
<1> QED BY <1>1, <1>14, <1>19 DEF Ind

LEMMA B_input_nakKeeps ==
    ASSUME Ind, NEW d \in Draw, B_input_nak(d)
    PROVE  Ind'
<1>1. /\ NextIs(evlist, FROM_LAYER3, B)
      /\ evlist' = tolayer3(RemoveNext(evlist), B, B_prev_ack, d.fate, d.delay)
      /\ UNCHANGED <<nsim, ACK, SEQ_NUM, win_start, buffer, B_prev_ack, accepted, delivered>>
    BY DEF B_input_nak, Fires
<1> DEFINE P == PacketsOf(accepted)
           K == AnswersOf(accepted, delivered)
<1>2. /\ Good(RemoveNext(evlist), P, K)
      /\ Carried(evlist[1], P, K)
      /\ TimerRunning(evlist, A) => TimerRunning(RemoveNext(evlist), A)
    <2>1. evlist # << >> /\ ~IsTimer(evlist[1], A)
        BY <1>1 DEF NextIs, IsTimer, FROM_LAYER3, TIMER_INTERRUPT
    <2>2. Good(evlist, P, K)
        BY DEF Ind, Listed
    <2> HIDE DEF P, K
    <2> QED BY <2>1, <2>2, GoodRemoveNext
<1>3. accepted # << >>
    <2>1. PICK p \in P : TRUE
        BY <1>1, <1>2 DEF Carried, NextIs
    <2> QED BY <2>1, PacketsProps DEF Ind, Kept
<1>4. P \subseteq Pkt /\ K \subseteq Pkt
    BY KeptFacts DEF Ind
<1>5. B_prev_ack \in K
    BY <1>3 DEF Ind, Kept, AnswersOf
<1> HIDE DEF P, K
<1>6. /\ Good(evlist', P, K)
      /\ TimerRunning(evlist, A) => TimerRunning(evlist', A)
    <2>1. d.fate \in Fate /\ d.delay \in Delay
        BY GbnAssumption DEF Draw
    <2>2. B \in {A, B} /\ B_prev_ack \in IF B = A THEN P ELSE K
        BY <1>5 DEF A, B
    <2> QED BY <1>1, <1>2, <1>4, <2>1, <2>2, GoodToLayer3
<1>7. Listed'
    BY <1>1, <1>6 DEF Ind, Listed, P, K
<1>8. Kept'
    BY <1>1 DEF Ind, Kept, Counts, DeliveredWasAccepted, OrderedUntilRepeat, AckNamesDelivered
<1> QED BY <1>1, <1>7, <1>8 DEF Ind

-----------------------------------------------------------------------------
LEMMA IndNext == Ind /\ [Next]_vars => Ind'
<1> SUFFICES ASSUME Ind, [Next]_vars PROVE Ind'
    OBVIOUS
<1>1. ASSUME NEW gap \in Gap, NEW d \in Draw, A_output(gap, d) PROVE Ind'
    BY <1>1, A_outputKeeps
<1>2. ASSUME NEW gap \in Gap, A_output_saved(gap) PROVE Ind'
    BY <1>2, A_output_savedKeeps
<1>3. ASSUME NEW gap \in Gap, A_output_full(gap) PROVE Ind'
    BY <1>3, A_output_fullKeeps
<1>4. CASE A_input
    BY <1>4, A_inputKeeps
<1>5. CASE A_input_ignored
    BY <1>5, A_input_ignoredKeeps
<1>6. ASSUME NEW draws \in [1..WIN_SIZE -> Draw], A_timerinterrupt(draws) PROVE Ind'
    BY <1>6, A_timerinterruptKeeps
<1>7. ASSUME NEW g \in Garbage, NEW d \in Draw, B_input(g, d) PROVE Ind'
    BY <1>7, B_inputKeeps
<1>8. ASSUME NEW d \in Draw, B_input_nak(d) PROVE Ind'
    BY <1>8, B_input_nakKeeps
<1>9. CASE UNCHANGED vars
    BY <1>9 DEF vars, Ind, Listed, Kept, Counts, DeliveredWasAccepted, OrderedUntilRepeat,
                AckNamesDelivered
<1> QED BY <1>1, <1>2, <1>3, <1>4, <1>5, <1>6, <1>7, <1>8, <1>9 DEF Next

LEMMA IndPopSafe == Ind => PopSafe
<1> SUFFICES ASSUME Ind, NextIs(evlist, FROM_LAYER3, A), GoodChecksum,
                    evlist[1].pkt.acknum >= win_start
             PROVE  buffer # << >>
    BY DEF PopSafe
<1>1. Len(buffer) >= 1
    BY AckFindsPacket
<1> QED BY <1>1

-----------------------------------------------------------------------------
(* The medium is first in, first out: what a handler makes of the list     *)
(* that main() gives it has the packets under way as they were, and        *)
(* perhaps more behind them.                                               *)

\* A new message of layer 5 may be scheduled before A_output sends.
LEMMA AfterArrivalOnward ==
    ASSUME Orderly(evlist), evlist # << >>, NEW gap \in Gap
    PROVE  /\ AfterArrival(gap) \in Seq(Event) /\ Sorted(AfterArrival(gap))
           /\ Onward(RemoveNext(evlist), AfterArrival(gap))
<1> DEFINE l == RemoveNext(evlist)
           e == Ev(gap, FROM_LAYER5, A, ZeroPkt)
<1>1. Orderly(l)
    BY RemoveNextOrderly
<1> HIDE DEF l
<1>2. l \in Seq(Event) /\ Sorted(l) /\ Onward(l, l)
    BY <1>1, OnwardStays DEF Orderly
<1>3. gap \in Nat
    BY GbnAssumption DEF Gap
<1>4. Onward(l, generate_next_arrival(l, gap))
    BY <1>2, <1>3, OnwardGenerate
<1>5. Orderly(generate_next_arrival(l, gap))
    <2>1. e \in Event /\ ~IsTimer(e, A)
        BY <1>3, EvType, PacketTypes DEF IsTimer, FROM_LAYER5, TIMER_INTERRUPT
    <2>2. generate_next_arrival(l, gap) = insertevent(l, e)
        BY DEF generate_next_arrival
    <2> HIDE DEF e
    <2> QED BY <1>1, <2>1, <2>2, InsertOrderly
<1> QED BY <1>2, <1>4, <1>5 DEF AfterArrival, Orderly, l

\* Each handler, call by call.
LEMMA HandlersOnward ==
    ASSUME Ind, Next
    PROVE  /\ evlist # << >> /\ evlist' \in Seq(Event)
           /\ Onward(RemoveNext(evlist), evlist')
<1> DEFINE l == RemoveNext(evlist)
<1>1. /\ Orderly(evlist) /\ Orderly(evlist')
      /\ evlist \in Seq(Event) /\ evlist' \in Seq(Event)
    BY IndNext DEF Ind, Listed, Good, Orderly
<1>2. evlist # << >>
    BY DEF Next, A_output, A_output_saved, A_output_full, FromLayer5, A_input, A_input_ignored,
           A_timerinterrupt, B_input, B_input_nak, Fires, NextIs
<1>3. Orderly(l)
    BY <1>1, <1>2, RemoveNextOrderly
<1>4. l \in Seq(Event) /\ Sorted(l) /\ Onward(l, l)
    <2> HIDE DEF l
    <2> QED BY <1>3, OnwardStays DEF Orderly
<1>5. evlist[1].pkt \in Pkt
    <2>1. 1 \in 1..Len(evlist)
        BY <1>1, <1>2, LenProperties, EmptySeq
    <2>2. evlist[1] \in Event
        BY <1>1, <2>1, ElementOfSeq
    <2> QED BY <2>2 DEF Event
<1>6. ASSUME NEW d \in Draw PROVE d.fate \in Fate /\ d.delay \in Delay
    BY GbnAssumption DEF Draw
<1>7. TypeOK
    BY IndGbnInv DEF GbnInv
<1>8. ASSUME NEW gap \in Gap, NEW d \in Draw, A_output(gap, d) PROVE Onward(l, evlist')
    <2> DEFINE p == MakePkt(SEQ_NUM, SEQ_NUM, Letter(nsim))
               a == AfterArrival(gap)
               s == tolayer3(a, A, p, d.fate, d.delay)
    <2>1. evlist' = starttimer(s, A, TIMEOUT)
        BY <1>8 DEF A_output
    <2>2. p \in Pkt
        <3>1. SEQ_NUM \in Int /\ nsim \in Nat
            BY <1>7, GbnAssumption DEF TypeOK
        <3>2. Letter(nsim) \in Payload
            BY <3>1, PacketTypes
        <3> QED BY <3>1, <3>2, MakePktProps
    <2>3. a \in Seq(Event) /\ Sorted(a) /\ Onward(l, a)
        BY <1>1, <1>2, AfterArrivalOnward
    <2> HIDE DEF p, a
    <2>4. s \in Seq(Event) /\ Onward(a, s)
        BY <1>6, <2>2, <2>3, OnwardToLayer3
    <2> HIDE DEF s
    <2>5. Onward(s, evlist')
        BY <2>1, <2>4, OnwardStart, GbnAssumption
    <2>6. Onward(l, s)
        BY <1>4, <2>3, <2>4, OnwardTrans
    <2> HIDE DEF l
    <2> QED BY <1>1, <1>4, <2>4, <2>5, <2>6, OnwardTrans
<1>9. ASSUME NEW gap \in Gap, A_output_saved(gap) \/ A_output_full(gap)
      PROVE  Onward(l, evlist')
    <2>1. evlist' = AfterArrival(gap)
        BY <1>9 DEF A_output_saved, A_output_full
    <2> QED BY <1>1, <1>2, <2>1, AfterArrivalOnward
<1>10. ASSUME A_input PROVE Onward(l, evlist')
    <2>1. evlist' = stoptimer(l, A)
        BY <1>10 DEF A_input
    <2> HIDE DEF l
    <2> QED BY <1>4, <2>1, OnwardStop
<1>11. ASSUME A_input_ignored PROVE Onward(l, evlist')
    BY <1>4, <1>11 DEF A_input_ignored
<1>12. ASSUME NEW draws \in [1..WIN_SIZE -> Draw], A_timerinterrupt(draws)
       PROVE  Onward(l, evlist')
    <2> DEFINE P == PacketsOf(accepted)
               K == AnswersOf(accepted, delivered)
    <2>1. P \subseteq Pkt /\ K \subseteq Pkt
        BY KeptFacts DEF Ind
    <2>2. Good(RemoveNext(evlist), P, K)
        BY <1>2, GoodRemoveNext DEF Ind, Listed
    <2>3. buffer \in Seq(Pkt) /\ ToSet(buffer) \subseteq P
        BY DEF Ind, Kept
    <2>4. evlist' = Resent(draws)
        BY <1>12 DEF A_timerinterrupt
    <2> HIDE DEF P, K
    <2> QED BY <2>1, <2>2, <2>3, <2>4, ResentGood
<1>13. ASSUME NEW p \in Pkt, NEW d \in Draw, evlist' = tolayer3(l, B, p, d.fate, d.delay)
       PROVE  Onward(l, evlist')
    <2> HIDE DEF l
    <2> QED BY <1>4, <1>6, <1>13, OnwardToLayer3
<1>14. ASSUME NEW g \in Garbage, NEW d \in Draw, B_input(g, d) PROVE Onward(l, evlist')
    <2> DEFINE p == AckPkt(evlist[1].pkt, g)
    <2>1. evlist' = tolayer3(l, B, p, d.fate, d.delay)
        BY <1>14 DEF B_input
    <2>2. p \in Pkt
        <3>1. evlist[1].pkt.seqnum \in Int /\ evlist[1].pkt.acknum \in Int
            BY <1>5 DEF Pkt
        <3>2. [first |-> 0, rest |-> g] \in Payload
            BY GarbageAssumption DEF Payload
        <3> QED BY <3>1, <3>2, MakePktProps DEF AckPkt
    <2> HIDE DEF p, l
    <2> QED BY <1>13, <2>1, <2>2
<1>15. ASSUME NEW d \in Draw, B_input_nak(d) PROVE Onward(l, evlist')
    <2>1. evlist' = tolayer3(l, B, B_prev_ack, d.fate, d.delay)
        BY <1>15 DEF B_input_nak
    <2>2. B_prev_ack \in Pkt
        BY <1>7 DEF TypeOK
    <2> HIDE DEF l
    <2> QED BY <1>13, <2>1, <2>2
<1>16. Onward(l, evlist')
    BY <1>8, <1>9, <1>10, <1>11, <1>12, <1>14, <1>15 DEF Next
<1> QED BY <1>1, <1>2, <1>16

\* Hence every step of the program.
LEMMA FifoStep ==
    ASSUME Ind, [Next]_vars
    PROVE  [\A x \in {A, B} :
              IsPrefix(IF NextIs(evlist, FROM_LAYER3, x) THEN Tail(InTransit(evlist, x))
                                                         ELSE InTransit(evlist, x),
                       InTransit(evlist', x))]_vars
<1> SUFFICES ASSUME Next, NEW x \in {A, B}
             PROVE  IsPrefix(IF NextIs(evlist, FROM_LAYER3, x) THEN Tail(InTransit(evlist, x))
                                                               ELSE InTransit(evlist, x),
                             InTransit(evlist', x))
    OBVIOUS
<1>1. evlist # << >> /\ Onward(RemoveNext(evlist), evlist')
    BY HandlersOnward
<1>2. evlist \in Seq(Event) /\ Sorted(evlist)
    BY DEF Ind, Listed, Good, Orderly
<1>3. InTransit(RemoveNext(evlist), x) =
          IF NextIs(evlist, FROM_LAYER3, x) THEN Tail(InTransit(evlist, x)) ELSE InTransit(evlist, x)
    BY <1>1, <1>2, NextTaken
<1>4. IsPrefix(InTransit(RemoveNext(evlist), x), InTransit(evlist', x))
    BY <1>1 DEF Onward
<1> QED BY <1>3, <1>4

LEMMA SpecInd == Spec => []Ind
BY IndInit, IndNext, PTL DEF Spec

(***************************************************************************)
(* The inductive invariant that the run gbn_faults checks, for any number  *)
(* of messages, window, buffer and range of numbers.                       *)
(***************************************************************************)
THEOREM GbnInvariant == Spec => []GbnInv
BY SpecInd, IndGbnInv, PTL

\* The variables of rdt_gbn.cpp keep their types: numbers stay below MAX_SEQ,
\* the window start at most at MAX_SEQ.
THEOREM GbnTypeCorrect == Spec => []TypeOK
<1>1. GbnInv => TypeOK
    BY DEF GbnInv
<1> QED BY <1>1, GbnInvariant, PTL

\* starttimer and stoptimer as A uses them leave at most one timer, events in
\* the order of time, and until the first ACK a timer whenever a packet waits.
THEOREM GbnOneTimer == Spec => []OneTimer
<1>1. GbnInv => OneTimer
    BY DEF GbnInv
<1> QED BY <1>1, GbnInvariant, PTL

\* A_input never calls pop_back() on an empty buffer.
THEOREM GbnPopSafe == Spec => []PopSafe
BY SpecInd, IndPopSafe, PTL

\* Layer 5 gets only messages that A accepted, whatever the medium damages.
THEOREM GbnIntegrity == Spec => []DeliveredWasAccepted
<1>1. GbnInv => DeliveredWasAccepted
    BY DEF GbnInv
<1> QED BY <1>1, GbnInvariant, PTL

\* Without a repetition and before the numbers wrap, layer 5 has the accepted
\* messages in order and without a gap.
THEOREM GbnOrder == Spec => []OrderedUntilRepeat
<1>1. GbnInv => OrderedUntilRepeat
    BY DEF GbnInv
<1> QED BY <1>1, GbnInvariant, PTL

\* The window starts behind the number of a delivered message, or at 0 or 1.
THEOREM GbnAcknowledged == Spec => []AckNamesDelivered
<1>1. GbnInv => AckNamesDelivered
    BY DEF GbnInv
<1> QED BY <1>1, GbnInvariant, PTL

(***************************************************************************)
(* Each direction of the medium is first in, first out, for every draw of  *)
(* fates and delays and however many packets a timeout sends again.        *)
(***************************************************************************)
THEOREM GbnFifo == Spec => FifoMedium
BY SpecInd, FifoStep, PTL DEF Spec, FifoMedium
=============================================================================
