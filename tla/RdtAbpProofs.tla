---------------------------- MODULE RdtAbpProofs ----------------------------
(***************************************************************************)
(* Proofs about the alternating-bit protocol of rdt_abp.c, for every       *)
(* number of messages, every delay, gap and garbage, and every timeout     *)
(* that covers a round trip.                                               *)
(***************************************************************************)
EXTENDS RdtAbp, EmulatorProofs

Pending(l, type) == \E ev \in Events(l) : ev.evtype = type

\* The events that may join a well-formed list l.
MayJoin(l, e) ==
    /\ e \in Event
    /\ ~Pending(l, e.evtype)
    /\ e.evtype # FROM_LAYER3 => e.eventity = A
    /\ e.evtype = FROM_LAYER3 =>
           \A ev \in Events(l) : ev.evtype = TIMER_INTERRUPT =>
               /\ e.evtime <= ev.evtime
               /\ e.eventity = B => e.evtime + MaxDelay <= ev.evtime
    /\ e.evtype = TIMER_INTERRUPT =>
           \A ev \in Events(l) : ev.evtype = FROM_LAYER3 =>
               /\ ev.evtime < e.evtime
               /\ ev.eventity = B => ev.evtime + MaxDelay <= e.evtime

\* insertevent keeps a list well-formed when the event may join it.
LEMMA InsertWellFormed ==
    ASSUME NEW l, NEW e, WellFormed(l), MayJoin(l, e)
    PROVE  /\ WellFormed(insertevent(l, e))
           /\ Events(insertevent(l, e)) = Events(l) \cup {e}
<1> DEFINE r == insertevent(l, e)
<1>1. l \in Seq(Event) /\ e \in Event
    BY DEF WellFormed, MayJoin
<1>2. PICK k \in 1..Len(l) + 1 : Inserted(l, e, r, k)
    BY <1>1, InsertEvent
<1> HIDE DEF r
<1> DEFINE src(i) == IF i < k THEN i ELSE i - 1
<1>3. Len(l) \in Nat /\ Len(r) = Len(l) + 1 /\ r \in Seq(Event) /\ r[k] = e
    BY <1>1, <1>2, LenProperties DEF Inserted
<1>4. ASSUME NEW i \in 1..Len(r), i # k
      PROVE  src(i) \in 1..Len(l) /\ r[i] = l[src(i)]
    <2>1. CASE i < k
        BY <1>2, <1>3, <2>1 DEF Inserted
    <2>2. CASE i > k
        <3>1. i - 1 \in k..Len(l) /\ (i - 1) + 1 = i
            BY <1>3, <2>2
        <3>2. r[(i - 1) + 1] = l[i - 1]
            BY <1>2, <3>1 DEF Inserted
        <3> QED BY <2>2, <3>1, <3>2
    <2> QED BY <1>3, <1>4, <2>1, <2>2
<1>5. ASSUME NEW i \in 1..Len(l)
      PROVE  l[i] \in Event /\ l[i] \in Events(l) /\ l[i].evtime \in Nat
    <2>1. l[i] \in Event
        BY <1>1, ElementOfSeq
    <2> QED BY <2>1 DEF Events, Event
<1>6. Events(r) = Events(l) \cup {e}
    <2>1. \A i \in 1..Len(r) : r[i] \in Events(l) \cup {e}
        BY <1>3, <1>4, <1>5
    <2>2. \A j \in 1..Len(l) : \E i \in 1..Len(r) : r[i] = l[j]
        <3> SUFFICES ASSUME NEW j \in 1..Len(l)
                     PROVE  \E i \in 1..Len(r) : r[i] = l[j]
            OBVIOUS
        <3>1. CASE j < k
            BY <1>2, <1>3, <3>1 DEF Inserted
        <3>2. CASE j >= k
            <4>1. j + 1 \in 1..Len(r) /\ r[j + 1] = l[j]
                BY <1>2, <1>3, <3>2 DEF Inserted
            <4> QED BY <4>1
        <3> QED BY <3>1, <3>2
    <2> QED BY <1>3, <2>1, <2>2 DEF Events
<1>7. e.evtime \in Nat
    BY <1>1 DEF Event
<1>8. /\ \A i \in 1..k - 1 : l[i].evtime < e.evtime
      /\ \A i \in k..Len(l) : e.evtime <= l[i].evtime
    <2>1. \A i \in 1..k - 1 : l[i].evtime < e.evtime
        BY <1>2 DEF Inserted
    <2>2. ASSUME NEW i \in k..Len(l)
          PROVE  e.evtime <= l[i].evtime
        <3>1. k \in 1..Len(l) /\ i \in 1..Len(l) /\ k <= i
            BY <1>3
        <3>2. l[k].evtime <= l[i].evtime
            BY <3>1 DEF WellFormed, Sorted
        <3>3. e.evtime <= l[k].evtime
            BY <1>2, <3>1 DEF Inserted
        <3> QED BY <1>5, <1>7, <3>1, <3>2, <3>3
    <2> QED BY <2>1, <2>2
<1>9. Sorted(r)
    <2> SUFFICES ASSUME NEW i \in 1..Len(r), NEW j \in 1..Len(r), i <= j
                 PROVE  r[i].evtime <= r[j].evtime
        BY DEF Sorted
    <2>1. CASE i = k /\ j = k
        BY <1>3, <1>7, <2>1
    <2>2. CASE i = k /\ j # k
        <3>1. src(j) \in k..Len(l) /\ r[j] = l[src(j)]
            BY <1>3, <1>4, <2>2
        <3> QED BY <1>3, <1>8, <2>2, <3>1
    <2>3. CASE i # k /\ j = k
        <3>1. src(i) \in 1..k - 1 /\ r[i] = l[src(i)] /\ src(i) \in 1..Len(l)
            BY <1>3, <1>4, <2>3
        <3> QED BY <1>3, <1>5, <1>7, <1>8, <2>3, <3>1
    <2>4. CASE i # k /\ j # k
        <3>1. /\ src(i) \in 1..Len(l) /\ r[i] = l[src(i)]
              /\ src(j) \in 1..Len(l) /\ r[j] = l[src(j)]
            BY <1>4, <2>4
        <3>2. src(i) <= src(j)
            BY <1>3, <2>4
        <3> HIDE DEF src
        <3> QED BY <3>1, <3>2 DEF WellFormed, Sorted
    <2> QED BY <2>1, <2>2, <2>3, <2>4
<1>10. OnePerType(r)
    <2> SUFFICES ASSUME NEW i \in 1..Len(r), NEW j \in 1..Len(r),
                        r[i].evtype = r[j].evtype
                 PROVE  i = j
        BY DEF OnePerType
    <2>1. \A n \in 1..Len(l) : l[n].evtype # e.evtype
        BY <1>5 DEF MayJoin, Pending
    <2>2. CASE i = k \/ j = k
        <3>1. ASSUME NEW n \in 1..Len(r), n # k
              PROVE  r[n].evtype # e.evtype
            <4>1. src(n) \in 1..Len(l) /\ r[n] = l[src(n)]
                BY <1>4, <3>1
            <4> HIDE DEF src
            <4> QED BY <2>1, <4>1
        <3> QED BY <1>3, <2>2, <3>1
    <2>3. CASE i # k /\ j # k
        <3>1. /\ src(i) \in 1..Len(l) /\ r[i] = l[src(i)]
              /\ src(j) \in 1..Len(l) /\ r[j] = l[src(j)]
            BY <1>4, <2>3
        <3>2. src(i) = src(j)
            BY <3>1 DEF WellFormed, OnePerType
        <3> QED BY <2>3, <3>2
    <2> QED BY <2>2, <2>3
<1>11. OnlyPacketsToB(r)
    <2> SUFFICES ASSUME NEW i \in 1..Len(r), r[i].evtype # FROM_LAYER3
                 PROVE  r[i].eventity = A
        BY DEF OnlyPacketsToB
    <2>1. CASE i = k
        BY <1>3, <2>1 DEF MayJoin
    <2>2. CASE i # k
        <3>1. src(i) \in 1..Len(l) /\ r[i] = l[src(i)]
            BY <1>4, <2>2
        <3> HIDE DEF src
        <3> QED BY <3>1 DEF WellFormed, OnlyPacketsToB
    <2> QED BY <2>1, <2>2
<1>12. RoundTrip(r)
    <2> SUFFICES ASSUME NEW i \in 1..Len(r), NEW j \in 1..Len(r),
                        r[i].evtype = FROM_LAYER3,
                        r[j].evtype = TIMER_INTERRUPT
                 PROVE  /\ i < j
                        /\ r[i].eventity = B => r[i].evtime + MaxDelay <= r[j].evtime
        BY DEF RoundTrip
    <2>1. i # j
        BY DEF FROM_LAYER3, TIMER_INTERRUPT
    <2>2. CASE i = k
        <3>1. src(j) \in 1..Len(l) /\ r[j] = l[src(j)]
            BY <1>4, <2>1, <2>2
        <3>2. /\ e.evtime <= r[j].evtime
              /\ r[i].eventity = B => r[i].evtime + MaxDelay <= r[j].evtime
            BY <1>3, <1>5, <2>2, <3>1 DEF MayJoin
        <3>3. ~(j < k)
            BY <1>3, <1>5, <1>7, <1>8, <3>1, <3>2
        <3> QED BY <1>3, <2>1, <2>2, <3>2, <3>3
    <2>3. CASE j = k
        <3>1. src(i) \in 1..Len(l) /\ r[i] = l[src(i)]
            BY <1>4, <2>1, <2>3
        <3>2. /\ r[i].evtime < e.evtime
              /\ r[i].eventity = B => r[i].evtime + MaxDelay <= r[j].evtime
            BY <1>3, <1>5, <2>3, <3>1 DEF MayJoin
        <3>3. ~(i > k)
            BY <1>3, <1>5, <1>7, <1>8, <3>1, <3>2
        <3> QED BY <1>3, <2>1, <2>3, <3>2, <3>3
    <2>4. CASE i # k /\ j # k
        <3>1. /\ src(i) \in 1..Len(l) /\ r[i] = l[src(i)]
              /\ src(j) \in 1..Len(l) /\ r[j] = l[src(j)]
            BY <1>4, <2>4
        <3>2. /\ src(i) < src(j)
              /\ r[i].eventity = B => r[i].evtime + MaxDelay <= r[j].evtime
            BY <3>1 DEF WellFormed, RoundTrip
        <3>3. i < j
            BY <1>3, <2>4, <3>2
        <3> QED BY <3>2, <3>3
    <2> QED BY <2>2, <2>3, <2>4
<1> QED BY <1>3, <1>6, <1>9, <1>10, <1>11, <1>12 DEF WellFormed, r

\* main() takes the first event off a well-formed list: its type is then no
\* longer pending, and the others keep all but their distance to the clock.
LEMMA RemoveNextWellFormed ==
    ASSUME NEW l, WellFormed(l), l # << >>
    PROVE  /\ l[1] \in Events(l)
           /\ WellFormed(RemoveNext(l))
           /\ ~Pending(RemoveNext(l), l[1].evtype)
           /\ \A ev \in Events(RemoveNext(l)) : \E old \in Events(l) :
                  /\ ev.evtype = old.evtype /\ ev.evtype # l[1].evtype
                  /\ ev.eventity = old.eventity
                  /\ ev.pkt = old.pkt
                  /\ ev.evtime = old.evtime - l[1].evtime
           /\ \A old \in Events(l) : old.evtype # l[1].evtype =>
                  \E ev \in Events(RemoveNext(l)) :
                      /\ ev.evtype = old.evtype
                      /\ ev.eventity = old.eventity
<1> DEFINE r == RemoveNext(l)
<1>1. /\ l \in Seq(Event) /\ Len(l) \in Nat \ {0} /\ 1 \in 1..Len(l)
      /\ \A i \in 1..Len(l) : l[1].evtime <= l[i].evtime
    BY EmptySeq DEF WellFormed, Sorted
<1>2. /\ r \in Seq(Event)
      /\ Len(r) = Len(l) - 1
      /\ \A i \in 1..Len(r) :
             /\ i + 1 \in 1..Len(l)
             /\ r[i].evtype = l[i + 1].evtype
             /\ r[i].eventity = l[i + 1].eventity
             /\ r[i].pkt = l[i + 1].pkt
             /\ r[i].evtime = l[i + 1].evtime - l[1].evtime
    BY <1>1, RemoveNextProps
<1> HIDE DEF r
<1>3. ASSUME NEW i \in 1..Len(l)
      PROVE  l[i] \in Event /\ l[i].evtime \in Nat /\ l[i] \in Events(l)
    <2>1. l[i] \in Event
        BY <1>1, ElementOfSeq
    <2> QED BY <2>1 DEF Events, Event
<1>4. \A i \in 1..Len(r) : r[i].evtype # l[1].evtype
    BY <1>1, <1>2 DEF WellFormed, OnePerType
<1>5. Sorted(r)
    <2> SUFFICES ASSUME NEW i \in 1..Len(r), NEW j \in 1..Len(r), i <= j
                 PROVE  r[i].evtime <= r[j].evtime
        BY DEF Sorted
    <2>1. i + 1 \in 1..Len(l) /\ j + 1 \in 1..Len(l) /\ i + 1 <= j + 1
        BY <1>2
    <2>2. l[i + 1].evtime <= l[j + 1].evtime
        BY <2>1 DEF WellFormed, Sorted
    <2>3. /\ r[i].evtime = l[i + 1].evtime - l[1].evtime
          /\ r[j].evtime = l[j + 1].evtime - l[1].evtime
        BY <1>2
    <2>4. l[1].evtime \in Nat /\ l[i + 1].evtime \in Nat /\ l[j + 1].evtime \in Nat
        BY <1>1, <1>3, <2>1
    <2> QED BY <2>2, <2>3, <2>4
<1>6. OnePerType(r)
    <2> SUFFICES ASSUME NEW i \in 1..Len(r), NEW j \in 1..Len(r),
                        r[i].evtype = r[j].evtype
                 PROVE  i = j
        BY DEF OnePerType
    <2>1. i + 1 = j + 1
        BY <1>2 DEF WellFormed, OnePerType
    <2> QED BY <2>1
<1>7. OnlyPacketsToB(r)
    BY <1>2 DEF WellFormed, OnlyPacketsToB
<1>8. RoundTrip(r)
    <2> SUFFICES ASSUME NEW i \in 1..Len(r), NEW j \in 1..Len(r),
                        r[i].evtype = FROM_LAYER3,
                        r[j].evtype = TIMER_INTERRUPT
                 PROVE  /\ i < j
                        /\ r[i].eventity = B => r[i].evtime + MaxDelay <= r[j].evtime
        BY DEF RoundTrip
    <2>1. i + 1 \in 1..Len(l) /\ j + 1 \in 1..Len(l)
        BY <1>2
    <2>2. /\ i + 1 < j + 1
          /\ l[i + 1].eventity = B =>
                 l[i + 1].evtime + MaxDelay <= l[j + 1].evtime
        BY <1>2, <2>1 DEF WellFormed, RoundTrip
    <2>3. /\ r[i].evtime = l[i + 1].evtime - l[1].evtime
          /\ r[j].evtime = l[j + 1].evtime - l[1].evtime
          /\ r[i].eventity = l[i + 1].eventity
        BY <1>2
    <2>4. l[1].evtime \in Nat /\ l[i + 1].evtime \in Nat /\ l[j + 1].evtime \in Nat
        BY <1>1, <1>3, <2>1
    <2>5. i < j
        BY <2>2
    <2>6. r[i].eventity = B => r[i].evtime + MaxDelay <= r[j].evtime
        BY <2>2, <2>3, <2>4, MaxDelayAssumption, SMTT(30)
    <2> QED BY <2>5, <2>6
<1>9. ASSUME NEW old \in Events(l), old.evtype # l[1].evtype
      PROVE  \E ev \in Events(r) : /\ ev.evtype = old.evtype
                                   /\ ev.eventity = old.eventity
    <2>1. PICK j \in 1..Len(l) : old = l[j]
        BY DEF Events
    <2>2. j # 1
        BY <1>9, <2>1
    <2>3. j - 1 \in 1..Len(r) /\ (j - 1) + 1 = j
        BY <1>1, <1>2, <2>2
    <2>4. r[j - 1].evtype = old.evtype /\ r[j - 1].eventity = old.eventity
        BY <1>2, <2>1, <2>3
    <2> QED BY <2>3, <2>4 DEF Events
<1>10. \A ev \in Events(r) : \E old \in Events(l) :
          /\ ev.evtype = old.evtype /\ ev.evtype # l[1].evtype
          /\ ev.eventity = old.eventity
          /\ ev.pkt = old.pkt
          /\ ev.evtime = old.evtime - l[1].evtime
    <2> SUFFICES ASSUME NEW i \in 1..Len(r)
                 PROVE  \E old \in Events(l) :
                          /\ r[i].evtype = old.evtype /\ r[i].evtype # l[1].evtype
                          /\ r[i].eventity = old.eventity
                          /\ r[i].pkt = old.pkt
                          /\ r[i].evtime = old.evtime - l[1].evtime
        BY DEF Events
    <2>1. l[i + 1] \in Events(l)
        BY <1>2, <1>3
    <2> QED BY <1>2, <1>4, <2>1
<1>11. ~Pending(r, l[1].evtype)
    BY <1>10 DEF Pending
<1>12. WellFormed(r)
    BY <1>2, <1>5, <1>6, <1>7, <1>8 DEF WellFormed
<1> QED BY <1>1, <1>3, <1>9, <1>10, <1>11, <1>12 DEF r

\* stoptimer removes A's timer and leaves the rest as it is.
LEMMA StopTimerWellFormed ==
    ASSUME NEW l, WellFormed(l)
    PROVE  /\ WellFormed(stoptimer(l, A))
           /\ ~TimerRunning(stoptimer(l, A), A)
           /\ Events(stoptimer(l, A)) \subseteq Events(l)
<1>1. CASE ~TimerRunning(l, A)
    BY <1>1 DEF stoptimer
<1>2. CASE TimerRunning(l, A)
    <2> DEFINE k == TimerPos(l, A)
               r == RemoveAt(l, k)
               src(i) == IF i < k THEN i ELSE i + 1
    <2>1. l \in Seq(Event) /\ Len(l) \in Nat
        BY LenProperties DEF WellFormed
    <2>2. k \in 1..Len(l) /\ IsTimer(l[k], A)
        BY <1>2, <2>1, TimerPosProps
    <2> HIDE DEF k
    <2>3. /\ r \in Seq(Event)
          /\ Len(r) = Len(l) - 1
          /\ \A i \in 1..k - 1 : r[i] = l[i]
          /\ \A i \in k..Len(l) - 1 : r[i] = l[i + 1]
        BY <2>1, <2>2, RemoveAtProps
    <2> HIDE DEF r
    <2>4. ASSUME NEW i \in 1..Len(r)
          PROVE  src(i) \in 1..Len(l) /\ src(i) # k /\ r[i] = l[src(i)]
        BY <2>1, <2>2, <2>3
    <2>5. \A i, j \in 1..Len(r) : /\ i <= j => src(i) <= src(j)
                                  /\ src(i) < src(j) => i < j
                                  /\ src(i) = src(j) => i = j
        BY <2>1, <2>2, <2>3
    <2> HIDE DEF src
    <2>6. Sorted(r)
        BY <2>4, <2>5 DEF WellFormed, Sorted
    <2>7. OnePerType(r)
        <3> SUFFICES ASSUME NEW i \in 1..Len(r), NEW j \in 1..Len(r),
                            r[i].evtype = r[j].evtype
                     PROVE  i = j
            BY DEF OnePerType
        <3>1. src(i) = src(j)
            BY <2>4 DEF WellFormed, OnePerType
        <3> QED BY <2>5, <3>1
    <2>8. OnlyPacketsToB(r)
        BY <2>4 DEF WellFormed, OnlyPacketsToB
    <2>9. RoundTrip(r)
        BY <2>4, <2>5 DEF WellFormed, RoundTrip
    <2>10. ~TimerRunning(r, A)
        BY <2>2, <2>4 DEF WellFormed, OnePerType, TimerRunning, IsTimer
    <2>11. Events(r) \subseteq Events(l)
        BY <2>4 DEF Events
    <2>12. r = stoptimer(l, A)
        BY <1>2 DEF stoptimer, r, k
    <2> QED BY <2>3, <2>6, <2>7, <2>8, <2>9, <2>10, <2>11, <2>12 DEF WellFormed
<1> QED BY <1>1, <1>2

\* The packets the protocol and the medium produce are packets.
LEMMA PacketTypes ==
    /\ ZeroPkt \in Pkt
    /\ \A n \in Nat : Letter(n) \in Letters
    /\ Letters \subseteq Payload
    /\ \A p \in Pkt, fate \in Fate : Damage(p, fate) \in Pkt
<1>1. ZeroPkt \in Pkt
    BY DEF ZeroPkt, Pkt, Payload
<1>2. ASSUME NEW n \in Nat
      PROVE  Letter(n) \in Letters
    <2>1. n % 26 \in 0..25 /\ (n % 26) % 26 = n % 26
        OBVIOUS
    <2>2. Letter(n) = Letter(n % 26)
        BY <2>1 DEF Letter
    <2> QED BY <2>1, <2>2 DEF Letters
<1>3. Letters \subseteq Payload
    BY DEF Letters, Letter, Payload
<1>4. ASSUME NEW p \in Pkt, NEW fate \in Fate
      PROVE  Damage(p, fate) \in Pkt
    <2>1. BadNumber \in Int
        BY SMT DEF BadNumber
    <2> QED BY <2>1 DEF Damage, Pkt, Payload, Fate
<1> QED BY <1>1, <1>2, <1>3, <1>4

\* A packet as A_output builds it.
GoodPkt(p) ==
    /\ p \in Pkt
    /\ p.seqnum \in {0, 1}
    /\ p.acknum \in {0, 1}
    /\ p.payload \in Letters
    /\ p.checksum = getchecksum(p)

\* The checksum tells every damage tolayer3 can do to such a packet.
LEMMA DamageDetected ==
    ASSUME NEW p, GoodPkt(p), NEW fate \in Fate,
           getchecksum(Damage(p, fate)) = Damage(p, fate).checksum
    PROVE  Damage(p, fate) = p
<1>1. p.payload.first \in 97..122 /\ p.payload.rest \in Int
    BY DEF GoodPkt, Letters, Letter
<1>2. CASE fate = "payload"
    <2> DEFINE q == [p EXCEPT !.payload.first = 90]
    <2>1. Damage(p, fate) = q
        BY <1>2 DEF Damage
    <2>2. /\ q.payload.first = 90 /\ q.payload.rest = p.payload.rest
          /\ q.seqnum = p.seqnum /\ q.acknum = p.acknum /\ q.checksum = p.checksum
        BY DEF GoodPkt, Pkt, Payload
    <2>3. p.seqnum \in Int /\ p.acknum \in Int
        BY DEF GoodPkt
    <2> HIDE DEF q
    <2>4. getchecksum(q) # getchecksum(p)
        BY <1>1, <2>2, <2>3 DEF getchecksum
    <2> QED BY <2>1, <2>2, <2>4 DEF GoodPkt
<1> BadNumber \in Int \ {0, 1}
    BY SMT DEF BadNumber
<1>3. CASE fate = "seqnum"
    BY <1>1, <1>3 DEF GoodPkt, Damage, getchecksum, Pkt, Payload
<1>4. CASE fate = "acknum"
    BY <1>1, <1>4 DEF GoodPkt, Damage, getchecksum, Pkt, Payload
<1>5. CASE fate \notin {"payload", "seqnum", "acknum"}
    BY <1>5 DEF Damage
<1> QED BY <1>2, <1>3, <1>4, <1>5

\* The medium leaves a sequence number alone or makes it an impossible one.
LEMMA DamagedSeqnum ==
    ASSUME NEW p \in Pkt, NEW fate \in Fate
    PROVE  Damage(p, fate).seqnum \in {p.seqnum, BadNumber}
BY DEF Damage, Pkt, Fate

\* generate_next_arrival adds the next message.
LEMMA ArrivalWellFormed ==
    ASSUME NEW l, WellFormed(l), ~Pending(l, FROM_LAYER5), NEW gap \in Nat
    PROVE  LET r == generate_next_arrival(l, gap) IN
           /\ WellFormed(r)
           /\ Events(r) = Events(l) \cup {Ev(gap, FROM_LAYER5, A, ZeroPkt)}
<1> DEFINE e == Ev(gap, FROM_LAYER5, A, ZeroPkt)
<1>1. e \in Event /\ e.evtype = FROM_LAYER5 /\ e.eventity = A
    BY PacketTypes DEF Ev, Event
<1>2. MayJoin(l, e)
    <2> HIDE DEF e
    <2> QED BY <1>1 DEF MayJoin, FROM_LAYER5, FROM_LAYER3, TIMER_INTERRUPT
<1> QED BY <1>2, InsertWellFormed DEF generate_next_arrival

\* tolayer3 loses the packet or adds its arrival, damaged or not.
LEMMA ToLayer3WellFormed ==
    ASSUME NEW l, WellFormed(l), ~Pending(l, FROM_LAYER3), NEW x \in {A, B},
           NEW p \in Pkt, NEW fate \in Fate, NEW delay \in Delay,
           \A ev \in Events(l) : ev.evtype = TIMER_INTERRUPT =>
               /\ delay <= ev.evtime
               /\ x = A => delay + MaxDelay <= ev.evtime
    PROVE  LET r == tolayer3(l, x, p, fate, delay) IN
           /\ WellFormed(r)
           /\ \/ Events(r) = Events(l)
              \/ Events(r) = Events(l) \cup
                     {Ev(delay, FROM_LAYER3, (x + 1) % 2, Damage(p, fate))}
<1> DEFINE other == (x + 1) % 2
           e == Ev(delay, FROM_LAYER3, other, Damage(p, fate))
<1>1. /\ e \in Event /\ e.evtype = FROM_LAYER3 /\ e.evtime = delay
      /\ e.eventity = B <=> x = A
    BY PacketTypes, MaxDelayAssumption DEF Ev, Event, A, B, Delay
<1>2. MayJoin(l, e)
    <2> HIDE DEF e
    <2> QED BY <1>1 DEF MayJoin, FROM_LAYER3, TIMER_INTERRUPT
<1>3. Arrivals(l, other) = {}
    BY DEF Arrivals, Pending, Events
<1>4. LastTime(l, other) = 0
    BY <1>3 DEF LastTime
<1>5. 0 + delay = delay
    BY DEF Delay
<1>6. tolayer3(l, x, p, fate, delay) = IF fate = "lost" THEN l ELSE insertevent(l, e)
    BY <1>4, <1>5 DEF tolayer3
<1> HIDE DEF e
<1>7. /\ WellFormed(insertevent(l, e))
      /\ Events(insertevent(l, e)) = Events(l) \cup {e}
    BY <1>2, InsertWellFormed
<1> QED BY <1>6, <1>7 DEF e

\* starttimer adds A's timer behind every packet and its ACK.
LEMMA StartTimerWellFormed ==
    ASSUME NEW l, WellFormed(l), ~Pending(l, TIMER_INTERRUPT),
           \A ev \in Events(l) : ev.evtype = FROM_LAYER3 => ev.evtime <= MaxDelay
    PROVE  LET r == starttimer(l, A, TIMEOUT) IN
           /\ WellFormed(r)
           /\ Events(r) = Events(l) \cup {Ev(TIMEOUT, TIMER_INTERRUPT, A, ZeroPkt)}
<1> DEFINE e == Ev(TIMEOUT, TIMER_INTERRUPT, A, ZeroPkt)
<1>1. /\ e \in Event /\ e.evtype = TIMER_INTERRUPT /\ e.evtime = TIMEOUT
      /\ e.eventity = A
    BY PacketTypes, TimeoutAssumption DEF Ev, Event
<1>2. ASSUME NEW ev \in Events(l), ev.evtype = FROM_LAYER3
      PROVE  ev.evtime < TIMEOUT /\ ev.evtime + MaxDelay <= TIMEOUT
    <2>1. ev \in Event
        BY EventsProps DEF WellFormed
    <2>2. ev.evtime \in Nat /\ ev.evtime <= MaxDelay
        BY <1>2, <2>1 DEF Event
    <2> QED BY <2>2, MaxDelayAssumption, TimeoutAssumption
<1> HIDE DEF e
<1>3. MayJoin(l, e)
    BY <1>1, <1>2 DEF MayJoin, FROM_LAYER3, TIMER_INTERRUPT
<1>4. ~TimerRunning(l, A)
    BY EventsProps DEF WellFormed, Pending, IsTimer
<1>5. starttimer(l, A, TIMEOUT) = insertevent(l, e)
    BY <1>4 DEF starttimer, e
<1> QED BY <1>3, <1>5, InsertWellFormed DEF e
-----------------------------------------------------------------------------
(***************************************************************************)
(* IInv over the set of pending events: the form in which the steps        *)
(* below establish it.                                                     *)
(***************************************************************************)
MediumOf(evs) ==
    \A ev \in evs : ev.evtype = FROM_LAYER3 =>
        /\ A_STATE = WAIT_ACK
        /\ ev.eventity = B => \E fate \in Fate : ev.pkt = Damage(A_prev_packet, fate)
        /\ ev.eventity = A => delivered = accepted

\* Medium, as a statement about the set of pending events.
LEMMA MediumIsMediumOf == Medium <=> MediumOf(Events(evlist))
BY DEF Medium, MediumOf, Events, InFlight

\* The state init(), A_init and B_init leave satisfies the invariant.
LEMMA InitIInv == Init => IInv
<1> SUFFICES ASSUME Init PROVE IInv
    OBVIOUS
<1>1. WellFormed(<< >>) /\ Events(<< >>) = {}
    BY EmptySeq DEF WellFormed, Events, Sorted, OnePerType, OnlyPacketsToB, RoundTrip
<1>2. PICK gap \in Gap : evlist = generate_next_arrival(<< >>, gap)
    BY DEF Init, init
<1>3. gap \in Nat
    BY MaxGapAssumption DEF Gap
<1>4. /\ WellFormed(evlist)
      /\ Events(evlist) = {Ev(gap, FROM_LAYER5, A, ZeroPkt)}
    BY <1>1, <1>2, <1>3, ArrivalWellFormed DEF Pending
<1>5. \A ev \in Events(evlist) : ev.evtype = FROM_LAYER5
    BY <1>4 DEF Ev
<1>6. TypeOK
    <2>1. /\ A_prev_packet \in Pkt
          /\ B_prev_ack \in Pkt
        BY PacketTypes DEF Init, B_init, ZeroPkt, Pkt, Payload
    <2>2. accepted \in Seq(Letters) /\ delivered \in Seq(Letters)
        BY EmptySeq DEF Init
    <2> QED BY <1>4, <2>1, <2>2, NsimmaxAssumption
           DEF Init, init, A_init, TypeOK, WellFormed
<1>7. TimerIffWaiting
    BY <1>4, <1>5, EventsProps
       DEF Init, A_init, TimerIffWaiting, IsTimer, WellFormed, WAIT_ACK, SEND_PCKT,
           FROM_LAYER5, TIMER_INTERRUPT
<1>8. Medium
    BY <1>5, MediumIsMediumOf DEF MediumOf, FROM_LAYER5, FROM_LAYER3
<1>9. Alternation /\ Outstanding /\ delivered = accepted
    BY DEF Init, A_init, B_init, Alternation, Outstanding, Flip, ZeroPkt, WAIT_ACK,
           SEND_PCKT
<1> QED BY <1>4, <1>6, <1>7, <1>8, <1>9 DEF IInv

\* The same for the state after a step.
LEMMA MediumPrime == Medium' <=> MediumOf(Events(evlist))'
BY DEF Medium, MediumOf, Events, InFlight

\* All timers are A's.
LEMMA TimerPending ==
    ASSUME NEW l, WellFormed(l)
    PROVE  TimerRunning(l, A) <=> Pending(l, TIMER_INTERRUPT)
<1>1. \A i \in 1..Len(l) : l[i].evtype = TIMER_INTERRUPT => l[i].eventity = A
    BY DEF WellFormed, OnlyPacketsToB, TIMER_INTERRUPT, FROM_LAYER3
<1> QED BY <1>1 DEF TimerRunning, IsTimer, Pending, Events

\* What is pending once main() has taken the first event.
LEMMA PendingAfter ==
    ASSUME NEW l, WellFormed(l), l # << >>, NEW type
    PROVE  Pending(RemoveNext(l), type) <=> type # l[1].evtype /\ Pending(l, type)
BY RemoveNextWellFormed DEF Pending

\* A packet A_output builds has the type of a packet and a good checksum.
LEMMA MakeGoodPkt ==
    ASSUME NEW seq \in {0, 1}, NEW ack \in {0, 1}, NEW data \in Letters
    PROVE  /\ GoodPkt(MakePkt(seq, ack, data))
           /\ MakePkt(seq, ack, data).seqnum = seq
           /\ MakePkt(seq, ack, data).payload = data
<1>1. data \in Payload
    BY PacketTypes
<1>2. data.first \in Int /\ data.rest \in Int
    BY <1>1 DEF Payload
<1> QED BY <1>1, <1>2 DEF GoodPkt, MakePkt, getchecksum, Pkt

\* An ACK B builds is a packet with the number of the packet it answers.
LEMMA AckPktProps ==
    ASSUME NEW p \in Pkt, NEW g \in Garbage
    PROVE  AckPkt(p, g) \in Pkt /\ AckPkt(p, g).seqnum = p.seqnum
<1>1. g \in Int
    BY GarbageAssumption
<1>2. p.seqnum \in Int /\ p.acknum \in Int
    BY DEF Pkt
<1> QED BY <1>1, <1>2 DEF AckPkt, MakePkt, getchecksum, Pkt, Payload

\* A_output keeps the invariant when it sends.
LEMMA A_outputStep ==
    ASSUME IInv, NEW gap \in Gap, NEW fate \in Fate, NEW delay \in Delay,
           A_output(gap, fate, delay)
    PROVE  IInv'
<1> DEFINE r == RemoveNext(evlist)
           a == AfterArrival(gap)
           mypkt == MakePkt(SEQ_NUM, ACK, Letter(nsim))
           b == tolayer3(a, A, mypkt, fate, delay)
           arrival == Ev(delay, FROM_LAYER3, B, Damage(mypkt, fate))
           timer == Ev(TIMEOUT, TIMER_INTERRUPT, A, ZeroPkt)
<1>1. /\ WellFormed(evlist) /\ evlist # << >> /\ evlist[1].evtype = FROM_LAYER5
      /\ A_STATE = SEND_PCKT /\ delivered = accepted /\ nsim \in Nat
    BY NsimmaxAssumption DEF IInv, TypeOK, A_output, NextIs
<1>2. /\ ~Pending(evlist, TIMER_INTERRUPT)
      /\ ~Pending(evlist, FROM_LAYER3)
    BY <1>1, TimerPending, MediumIsMediumOf
       DEF IInv, TimerIffWaiting, MediumOf, Pending, WAIT_ACK, SEND_PCKT
<1>3. /\ WellFormed(r)
      /\ ~Pending(r, FROM_LAYER5) /\ ~Pending(r, TIMER_INTERRUPT)
      /\ ~Pending(r, FROM_LAYER3)
    BY <1>1, <1>2, PendingAfter, RemoveNextWellFormed
<1> HIDE DEF r
<1>4. gap \in Nat
    BY MaxGapAssumption DEF Gap
<1>5. /\ WellFormed(a)
      /\ ~Pending(a, TIMER_INTERRUPT) /\ ~Pending(a, FROM_LAYER3)
    <2>1. CASE nsim + 1 < nsimmax
        <3>1. a = generate_next_arrival(r, gap)
            BY <2>1 DEF AfterArrival, r
        <3>2. /\ WellFormed(generate_next_arrival(r, gap))
              /\ Events(generate_next_arrival(r, gap)) =
                     Events(r) \cup {Ev(gap, FROM_LAYER5, A, ZeroPkt)}
            BY <1>3, <1>4, ArrivalWellFormed
        <3> QED BY <1>3, <3>1, <3>2
                DEF Pending, Ev, FROM_LAYER5, FROM_LAYER3, TIMER_INTERRUPT
    <2>2. CASE ~(nsim + 1 < nsimmax)
        <3>1. a = r
            BY <2>2 DEF AfterArrival, r
        <3> QED BY <1>3, <3>1
    <2> QED BY <2>1, <2>2
<1> HIDE DEF a
<1>6. GoodPkt(mypkt) /\ mypkt.seqnum = SEQ_NUM /\ mypkt.payload = Letter(nsim)
    BY <1>1, MakeGoodPkt, PacketTypes DEF IInv, TypeOK
<1>7. /\ evlist' = starttimer(b, A, TIMEOUT)
      /\ nsim' = nsim + 1 /\ nsim < nsimmax
      /\ A_prev_packet' = mypkt
      /\ A_STATE' = WAIT_ACK
      /\ accepted' = Append(accepted, mypkt.payload)
      /\ UNCHANGED <<ACK, SEQ_NUM, B_prev_ack, delivered>>
    BY DEF A_output, a
<1> HIDE DEF mypkt
<1>8. /\ WellFormed(b)
      /\ Events(b) = Events(a) \/ Events(b) = Events(a) \cup {arrival}
    <2>1. (A + 1) % 2 = B /\ A \in {A, B}
        BY DEF A, B
    <2>2. mypkt \in Pkt
        BY <1>6 DEF GoodPkt
    <2> QED BY <1>5, <2>1, <2>2, ToLayer3WellFormed DEF Pending
<1> HIDE DEF b
<1>9. /\ ~Pending(b, TIMER_INTERRUPT)
      /\ \A ev \in Events(b) : ev.evtype = FROM_LAYER3 => ev = arrival
    BY <1>5, <1>8 DEF Pending, Ev, FROM_LAYER3, TIMER_INTERRUPT
<1>10. /\ arrival.evtime <= MaxDelay
       /\ arrival.eventity = B /\ arrival.pkt = Damage(mypkt, fate)
    BY MaxDelayAssumption DEF Ev, Delay
<1>11. timer.evtype = TIMER_INTERRUPT
    BY DEF Ev
<1> HIDE DEF arrival, timer
<1>12. /\ WellFormed(evlist')
       /\ Events(evlist') = Events(b) \cup {timer}
    BY <1>7, <1>8, <1>9, <1>10, StartTimerWellFormed DEF timer
<1>13. TypeOK'
    <2>1. accepted' \in Seq(Letters)
        BY <1>6, <1>7, AppendProperties DEF IInv, TypeOK, GoodPkt
    <2>2. evlist' \in Seq(Event)
        BY <1>12 DEF WellFormed
    <2>3. nsim' \in 0..nsimmax
        BY <1>1, <1>7, NsimmaxAssumption
    <2> QED BY <1>6, <1>7, <2>1, <2>2, <2>3 DEF IInv, TypeOK, GoodPkt
<1>14. TimerIffWaiting'
    <2>1. Pending(evlist', TIMER_INTERRUPT)
        BY <1>11, <1>12 DEF Pending
    <2>2. TimerRunning(evlist', A)
        BY <1>12, <2>1, TimerPending
    <2> QED BY <1>7, <2>2 DEF TimerIffWaiting
<1>15. Medium'
    <2>1. \A ev \in Events(evlist') : ev.evtype = FROM_LAYER3 => ev = arrival
        BY <1>9, <1>11, <1>12 DEF FROM_LAYER3, TIMER_INTERRUPT
    <2>2. MediumOf(Events(evlist))'
        BY <1>7, <1>10, <2>1 DEF MediumOf, A, B
    <2> QED BY <2>2, MediumPrime
<1>16. Alternation'
    BY <1>7 DEF IInv, Alternation
<1>17. Outstanding'
    BY <1>1, <1>6, <1>7 DEF GoodPkt, Outstanding
<1>18. (A_STATE = SEND_PCKT => delivered = accepted)'
    BY <1>7 DEF WAIT_ACK, SEND_PCKT
<1> QED BY <1>12, <1>13, <1>14, <1>15, <1>16, <1>17, <1>18 DEF IInv

\* A_output keeps the invariant when A is waiting.
LEMMA A_output_waitingStep ==
    ASSUME IInv, NEW gap \in Gap, A_output_waiting(gap)
    PROVE  IInv'
<1> DEFINE r == RemoveNext(evlist)
<1>1. /\ WellFormed(evlist) /\ evlist # << >> /\ evlist[1].evtype = FROM_LAYER5
      /\ A_STATE = WAIT_ACK /\ nsim \in Nat
    BY NsimmaxAssumption DEF IInv, TypeOK, A_output_waiting, NextIs
<1>2. /\ WellFormed(r)
      /\ ~Pending(r, FROM_LAYER5) /\ Pending(r, TIMER_INTERRUPT)
      /\ MediumOf(Events(r))
    <2>1. Pending(r, TIMER_INTERRUPT)
        BY <1>1, PendingAfter, TimerPending
           DEF IInv, TimerIffWaiting, TIMER_INTERRUPT, FROM_LAYER5
    <2>2. MediumOf(Events(r))
        BY <1>1, RemoveNextWellFormed, MediumIsMediumOf DEF IInv, MediumOf
    <2> QED BY <1>1, <2>1, <2>2, PendingAfter, RemoveNextWellFormed
<1> HIDE DEF r
<1>3. gap \in Nat
    BY MaxGapAssumption DEF Gap
<1>4. /\ nsim' = nsim + 1 /\ nsim < nsimmax
      /\ UNCHANGED <<ACK, SEQ_NUM, A_STATE, A_prev_packet, B_prev_ack,
                     accepted, delivered>>
    BY DEF A_output_waiting
<1>5. /\ WellFormed(evlist')
      /\ Pending(evlist', TIMER_INTERRUPT)
      /\ MediumOf(Events(evlist'))
    <2>1. CASE nsim + 1 < nsimmax
        <3>1. evlist' = generate_next_arrival(r, gap)
            BY <2>1 DEF A_output_waiting, AfterArrival, r
        <3>2. /\ WellFormed(generate_next_arrival(r, gap))
              /\ Events(generate_next_arrival(r, gap)) =
                     Events(r) \cup {Ev(gap, FROM_LAYER5, A, ZeroPkt)}
            BY <1>2, <1>3, ArrivalWellFormed
        <3>3. Ev(gap, FROM_LAYER5, A, ZeroPkt).evtype # FROM_LAYER3
            BY DEF Ev, FROM_LAYER5, FROM_LAYER3
        <3> QED BY <1>2, <3>1, <3>2, <3>3 DEF Pending, MediumOf
    <2>2. CASE ~(nsim + 1 < nsimmax)
        <3>1. evlist' = r
            BY <2>2 DEF A_output_waiting, AfterArrival, r
        <3> QED BY <1>2, <3>1
    <2> QED BY <2>1, <2>2
<1>6. TypeOK'
    <2>1. nsim' \in 0..nsimmax
        BY <1>1, <1>4, NsimmaxAssumption
    <2> QED BY <1>4, <1>5, <2>1 DEF IInv, TypeOK, WellFormed
<1>7. TimerIffWaiting'
    BY <1>1, <1>4, <1>5, TimerPending DEF TimerIffWaiting
<1>8. Medium'
    BY <1>4, <1>5, MediumPrime DEF MediumOf
<1>9. Alternation' /\ Outstanding' /\ (A_STATE = SEND_PCKT => delivered = accepted)'
    BY <1>4 DEF IInv, Alternation, Outstanding
<1> QED BY <1>5, <1>6, <1>7, <1>8, <1>9 DEF IInv

\* A_input keeps the invariant: the timer goes, and nothing is under way.
LEMMA A_inputStep ==
    ASSUME IInv, A_input
    PROVE  IInv'
<1> DEFINE r == RemoveNext(evlist)
<1>1. /\ WellFormed(evlist) /\ evlist # << >>
      /\ evlist[1].evtype = FROM_LAYER3 /\ evlist[1].eventity = A
    BY DEF IInv, A_input, NextIs
<1>2. WellFormed(r) /\ ~Pending(r, FROM_LAYER3) /\ evlist[1] \in Events(evlist)
    BY <1>1, PendingAfter, RemoveNextWellFormed
<1> HIDE DEF r
<1>3. delivered = accepted
    BY <1>1, <1>2, MediumIsMediumOf DEF IInv, MediumOf
<1>4. /\ evlist' = stoptimer(r, A)
      /\ ACK' = Flip(ACK) /\ A_STATE' = SEND_PCKT
      /\ UNCHANGED <<nsim, SEQ_NUM, A_prev_packet, B_prev_ack, accepted, delivered>>
    BY DEF A_input, r
<1>5. /\ WellFormed(evlist') /\ ~TimerRunning(evlist', A)
      /\ Events(evlist') \subseteq Events(r)
    BY <1>2, <1>4, StopTimerWellFormed
<1>6. TypeOK'
    BY <1>4, <1>5 DEF IInv, TypeOK, WellFormed, Flip
<1>7. TimerIffWaiting'
    BY <1>4, <1>5 DEF TimerIffWaiting, WAIT_ACK, SEND_PCKT
<1>8. Medium'
    BY <1>2, <1>5, MediumPrime DEF MediumOf, Pending
<1>9. Alternation' /\ Outstanding' /\ (A_STATE = SEND_PCKT => delivered = accepted)'
    BY <1>3, <1>4 DEF IInv, Alternation, Outstanding, WAIT_ACK, SEND_PCKT
<1> QED BY <1>5, <1>6, <1>7, <1>8, <1>9 DEF IInv

\* Dropping a packet that arrived keeps the invariant, at A and at B.
LEMMA DropStep ==
    ASSUME IInv, evlist # << >>, evlist[1].evtype = FROM_LAYER3,
           evlist' = RemoveNext(evlist),
           UNCHANGED <<nsim, ACK, SEQ_NUM, A_STATE, A_prev_packet, B_prev_ack,
                       accepted, delivered>>
    PROVE  IInv'
<1>1. WellFormed(evlist)
    BY DEF IInv
<1>2. /\ WellFormed(evlist') /\ ~Pending(evlist', FROM_LAYER3)
      /\ Pending(evlist', TIMER_INTERRUPT) <=> Pending(evlist, TIMER_INTERRUPT)
    BY <1>1, PendingAfter, RemoveNextWellFormed DEF FROM_LAYER3, TIMER_INTERRUPT
<1>3. TypeOK'
    BY <1>2 DEF IInv, TypeOK, WellFormed
<1>4. TimerIffWaiting'
    <2>1. TimerRunning(evlist', A) <=> TimerRunning(evlist, A)
        BY <1>1, <1>2, TimerPending
    <2> QED BY <2>1 DEF IInv, TimerIffWaiting
<1>5. Medium'
    BY <1>2, MediumPrime DEF MediumOf, Pending
<1>6. Alternation' /\ Outstanding' /\ (A_STATE = SEND_PCKT => delivered = accepted)'
    BY DEF IInv, Alternation, Outstanding
<1> QED BY <1>2, <1>3, <1>4, <1>5, <1>6 DEF IInv

\* A_timerinterrupt keeps the invariant: the medium was empty.
LEMMA A_timerinterruptStep ==
    ASSUME IInv, NEW fate \in Fate, NEW delay \in Delay,
           A_timerinterrupt(fate, delay)
    PROVE  IInv'
<1> DEFINE r == RemoveNext(evlist)
           s == starttimer(r, A, TIMEOUT)
           arrival == Ev(delay, FROM_LAYER3, B, Damage(A_prev_packet, fate))
           timer == Ev(TIMEOUT, TIMER_INTERRUPT, A, ZeroPkt)
<1>1. /\ WellFormed(evlist) /\ evlist # << >>
      /\ evlist[1].evtype = TIMER_INTERRUPT
    BY DEF IInv, A_timerinterrupt, NextIs
<1>2. A_STATE = WAIT_ACK
    <2>1. evlist[1] \in Events(evlist)
        BY <1>1, RemoveNextWellFormed
    <2>2. TimerRunning(evlist, A)
        BY <1>1, <2>1, TimerPending DEF Pending
    <2> QED BY <2>2 DEF IInv, TimerIffWaiting
<1>3. ~Pending(evlist, FROM_LAYER3)
    <2> SUFFICES ASSUME NEW i \in 1..Len(evlist), evlist[i].evtype = FROM_LAYER3
                 PROVE  FALSE
        BY DEF Pending, Events
    <2>1. 1 \in 1..Len(evlist)
        OBVIOUS
    <2>2. i < 1
        BY <1>1, <2>1 DEF WellFormed, RoundTrip
    <2> QED BY <2>2
<1>4. /\ WellFormed(r)
      /\ ~Pending(r, FROM_LAYER3) /\ ~Pending(r, TIMER_INTERRUPT)
    BY <1>1, <1>3, PendingAfter, RemoveNextWellFormed
<1> HIDE DEF r
<1>5. timer.evtype = TIMER_INTERRUPT /\ timer.evtime = TIMEOUT
    BY DEF Ev
<1>6. /\ arrival.evtype = FROM_LAYER3
      /\ arrival.eventity = B /\ arrival.pkt = Damage(A_prev_packet, fate)
    BY DEF Ev
<1>7. WellFormed(s) /\ Events(s) = Events(r) \cup {timer}
    BY <1>4, StartTimerWellFormed DEF Pending
<1>8. /\ evlist' = tolayer3(s, A, A_prev_packet, fate, delay)
      /\ UNCHANGED <<nsim, ACK, SEQ_NUM, A_STATE, A_prev_packet, B_prev_ack,
                     accepted, delivered>>
    BY <1>2 DEF A_timerinterrupt, r
<1> HIDE DEF s, timer
<1>9. /\ WellFormed(evlist')
      /\ Events(evlist') = Events(s) \/ Events(evlist') = Events(s) \cup {arrival}
    <2>1. (A + 1) % 2 = B /\ A \in {A, B}
        BY DEF A, B
    <2>2. A_prev_packet \in Pkt
        BY DEF IInv, TypeOK
    <2>3. ~Pending(s, FROM_LAYER3)
        BY <1>4, <1>5, <1>7 DEF Pending, FROM_LAYER3, TIMER_INTERRUPT
    <2>4. delay <= TIMEOUT /\ delay + MaxDelay <= TIMEOUT
        BY MaxDelayAssumption, TimeoutAssumption DEF Delay
    <2>5. \A ev \in Events(s) : ev.evtype = TIMER_INTERRUPT =>
              delay <= ev.evtime /\ delay + MaxDelay <= ev.evtime
        BY <1>4, <1>5, <1>7, <2>4 DEF Pending
    <2> QED BY <1>7, <1>8, <2>1, <2>2, <2>3, <2>5, ToLayer3WellFormed
<1> HIDE DEF arrival
<1>10. TypeOK'
    BY <1>8, <1>9 DEF IInv, TypeOK, WellFormed
<1>11. TimerIffWaiting'
    <2>1. Pending(evlist', TIMER_INTERRUPT)
        BY <1>5, <1>7, <1>9 DEF Pending
    <2> QED BY <1>2, <1>8, <1>9, <2>1, TimerPending DEF TimerIffWaiting
<1>12. Medium'
    <2>1. \A ev \in Events(evlist') : ev.evtype = FROM_LAYER3 => ev = arrival
        BY <1>4, <1>5, <1>7, <1>9 DEF Pending, FROM_LAYER3, TIMER_INTERRUPT
    <2>2. MediumOf(Events(evlist))'
        BY <1>2, <1>6, <1>8, <2>1 DEF MediumOf, A, B
    <2> QED BY <2>2, MediumPrime
<1>13. Alternation' /\ Outstanding' /\ (A_STATE = SEND_PCKT => delivered = accepted)'
    BY <1>8 DEF IInv, Alternation, Outstanding
<1> QED BY <1>9, <1>10, <1>11, <1>12, <1>13 DEF IInv

\* What the arrival of a packet at B says of the packet.
LEMMA ArrivedAtB ==
    ASSUME IInv, NextIs(evlist, FROM_LAYER3, B)
    PROVE  /\ A_STATE = WAIT_ACK
           /\ GoodPkt(A_prev_packet)
           /\ evlist[1].pkt \in Pkt
           /\ \E fate \in Fate : evlist[1].pkt = Damage(A_prev_packet, fate)
<1>1. /\ WellFormed(evlist) /\ evlist # << >>
      /\ evlist[1].evtype = FROM_LAYER3 /\ evlist[1].eventity = B
    BY DEF IInv, NextIs
<1>2. evlist[1] \in Events(evlist)
    BY <1>1, RemoveNextWellFormed
<1>3. /\ A_STATE = WAIT_ACK
      /\ \E fate \in Fate : evlist[1].pkt = Damage(A_prev_packet, fate)
    BY <1>1, <1>2, MediumIsMediumOf DEF IInv, MediumOf
<1>4. GoodPkt(A_prev_packet)
    BY <1>3 DEF IInv, TypeOK, Outstanding, GoodPkt
<1>5. evlist[1].pkt \in Pkt
    BY <1>3, PacketTypes DEF IInv, TypeOK
<1> QED BY <1>3, <1>4, <1>5

\* When B answers a packet, the ACK is alone in the medium and arrives
\* before A's timer goes off.
LEMMA ReplyList ==
    ASSUME IInv, NextIs(evlist, FROM_LAYER3, B), NEW p \in Pkt,
           NEW fate \in Fate, NEW delay \in Delay,
           evlist' = tolayer3(RemoveNext(evlist), B, p, fate, delay),
           UNCHANGED A_STATE
    PROVE  /\ WellFormed(evlist')
           /\ TimerIffWaiting'
           /\ \A ev \in Events(evlist') : ev.evtype = FROM_LAYER3 => ev.eventity = A
<1> DEFINE r == RemoveNext(evlist)
           arrival == Ev(delay, FROM_LAYER3, A, Damage(p, fate))
<1>1. /\ WellFormed(evlist) /\ evlist # << >>
      /\ evlist[1].evtype = FROM_LAYER3 /\ evlist[1].eventity = B
    BY DEF IInv, NextIs
<1>2. WellFormed(r) /\ ~Pending(r, FROM_LAYER3)
    BY <1>1, PendingAfter, RemoveNextWellFormed
<1>3. ASSUME NEW ev \in Events(r), ev.evtype = TIMER_INTERRUPT
      PROVE  delay <= ev.evtime
    <2>1. PICK old \in Events(evlist) :
              /\ old.evtype = TIMER_INTERRUPT
              /\ ev.evtime = old.evtime - evlist[1].evtime
        BY <1>1, <1>3, RemoveNextWellFormed
    <2>2. PICK j \in 1..Len(evlist) : old = evlist[j]
        BY DEF Events
    <2>3. 1 \in 1..Len(evlist)
        BY <2>2
    <2>4. evlist[1].evtime + MaxDelay <= evlist[j].evtime
        BY <1>1, <2>1, <2>2, <2>3 DEF WellFormed, RoundTrip
    <2>5. evlist[1] \in Event /\ evlist[j] \in Event
        BY <2>3, ElementOfSeq, <1>1 DEF WellFormed
    <2>6. evlist[1].evtime \in Nat /\ evlist[j].evtime \in Nat
        BY <2>5 DEF Event
    <2>7. delay \in Nat /\ delay <= MaxDelay /\ MaxDelay \in Nat
        BY MaxDelayAssumption DEF Delay
    <2> QED BY <2>1, <2>2, <2>4, <2>6, <2>7
<1>4. (B + 1) % 2 = A /\ B \in {A, B} /\ B # A
    BY DEF A, B
<1>5. Pending(r, TIMER_INTERRUPT) <=> Pending(evlist, TIMER_INTERRUPT)
    BY <1>1, PendingAfter DEF FROM_LAYER3, TIMER_INTERRUPT
<1> HIDE DEF r
<1>6. /\ WellFormed(evlist')
      /\ Events(evlist') = Events(r) \/ Events(evlist') = Events(r) \cup {arrival}
    BY <1>2, <1>3, <1>4, ToLayer3WellFormed DEF r
<1>7. arrival.evtype = FROM_LAYER3 /\ arrival.eventity = A
    BY DEF Ev
<1> HIDE DEF arrival
<1>8. TimerIffWaiting'
    <2>1. Pending(evlist', TIMER_INTERRUPT) <=> Pending(r, TIMER_INTERRUPT)
        BY <1>6, <1>7 DEF Pending, FROM_LAYER3, TIMER_INTERRUPT
    <2>2. TimerRunning(evlist', A) <=> TimerRunning(evlist, A)
        BY <1>1, <1>5, <1>6, <2>1, TimerPending
    <2> QED BY <2>2 DEF IInv, TimerIffWaiting
<1>9. \A ev \in Events(evlist') : ev.evtype = FROM_LAYER3 => ev.eventity = A
    BY <1>2, <1>6, <1>7 DEF Pending
<1> QED BY <1>6, <1>8, <1>9

\* B answers a duplicate: what A sent last has been delivered.
LEMMA B_input_duplicateStep ==
    ASSUME IInv, NEW fate \in Fate, NEW delay \in Delay,
           B_input_duplicate(fate, delay)
    PROVE  IInv'
<1>1. /\ NextIs(evlist, FROM_LAYER3, B)
      /\ evlist[1].pkt.seqnum = B_prev_ack.seqnum
      /\ evlist' = tolayer3(RemoveNext(evlist), B, B_prev_ack, fate, delay)
      /\ UNCHANGED <<nsim, ACK, SEQ_NUM, A_STATE, A_prev_packet, B_prev_ack,
                     accepted, delivered>>
    BY DEF B_input_duplicate
<1>2. /\ WellFormed(evlist') /\ TimerIffWaiting'
      /\ \A ev \in Events(evlist') : ev.evtype = FROM_LAYER3 => ev.eventity = A
    BY <1>1, ReplyList DEF IInv, TypeOK
<1>3. A_STATE = WAIT_ACK /\ accepted = delivered
    <2>1. PICK f \in Fate : evlist[1].pkt = Damage(A_prev_packet, f)
        BY <1>1, ArrivedAtB
    <2>2. evlist[1].pkt.seqnum \in {A_prev_packet.seqnum, BadNumber}
        BY <2>1, DamagedSeqnum DEF IInv, TypeOK
    <2>3. BadNumber \notin {0, 1}
        BY SMT DEF BadNumber
    <2>4. A_prev_packet.seqnum # SEQ_NUM
        BY <1>1, <2>2, <2>3 DEF IInv, TypeOK, Alternation, Flip
    <2> QED BY <1>1, <2>4, ArrivedAtB DEF IInv, Outstanding
<1>4. TypeOK'
    BY <1>1, <1>2 DEF IInv, TypeOK, WellFormed
<1>5. Medium'
    BY <1>1, <1>2, <1>3, MediumPrime DEF MediumOf, A, B
<1>6. Alternation' /\ Outstanding' /\ (A_STATE = SEND_PCKT => delivered = accepted)'
    BY <1>1 DEF IInv, Alternation, Outstanding
<1> QED BY <1>2, <1>4, <1>5, <1>6 DEF IInv

\* What B_input accepts is the message A is waiting for.
LEMMA B_inputAccepts ==
    ASSUME IInv, NextIs(evlist, FROM_LAYER3, B),
           evlist[1].pkt.seqnum # B_prev_ack.seqnum,
           getchecksum(evlist[1].pkt) = evlist[1].pkt.checksum
    PROVE  /\ A_STATE = WAIT_ACK
           /\ evlist[1].pkt = A_prev_packet
           /\ A_prev_packet.seqnum = SEQ_NUM
           /\ accepted = Append(delivered, evlist[1].pkt.payload)
<1>1. PICK f \in Fate : evlist[1].pkt = Damage(A_prev_packet, f)
    BY ArrivedAtB
<1>2. evlist[1].pkt = A_prev_packet
    BY <1>1, ArrivedAtB, DamageDetected
<1>3. A_STATE = WAIT_ACK /\ A_prev_packet.seqnum \in {0, 1}
    BY ArrivedAtB DEF GoodPkt
<1>4. A_prev_packet.seqnum = SEQ_NUM
    BY <1>2, <1>3 DEF IInv, TypeOK, Alternation, Flip
<1> QED BY <1>2, <1>3, <1>4 DEF IInv, Outstanding

\* B delivers the message A is waiting for.
LEMMA B_inputStep ==
    ASSUME IInv, NEW g \in Garbage, NEW fate \in Fate, NEW delay \in Delay,
           B_input(g, fate, delay)
    PROVE  IInv'
<1> DEFINE packet == evlist[1].pkt
           ackpkt == AckPkt(packet, g)
<1>1. /\ NextIs(evlist, FROM_LAYER3, B)
      /\ packet.seqnum # B_prev_ack.seqnum
      /\ getchecksum(packet) = packet.checksum
      /\ evlist' = tolayer3(RemoveNext(evlist), B, ackpkt, fate, delay)
      /\ delivered' = Append(delivered, packet.payload)
      /\ B_prev_ack' = ackpkt
      /\ SEQ_NUM' = Flip(SEQ_NUM)
      /\ UNCHANGED <<nsim, ACK, A_STATE, A_prev_packet, accepted>>
    BY DEF B_input
<1>2. ackpkt \in Pkt /\ ackpkt.seqnum = packet.seqnum
    BY <1>1, ArrivedAtB, AckPktProps
<1>3. /\ A_STATE = WAIT_ACK
      /\ packet = A_prev_packet
      /\ A_prev_packet.seqnum = SEQ_NUM
      /\ accepted = Append(delivered, packet.payload)
    BY <1>1, B_inputAccepts
<1> HIDE DEF packet, ackpkt
<1>4. /\ WellFormed(evlist') /\ TimerIffWaiting'
      /\ \A ev \in Events(evlist') : ev.evtype = FROM_LAYER3 => ev.eventity = A
    BY <1>1, <1>2, ReplyList
<1>5. SEQ_NUM \in {0, 1} /\ SEQ_NUM' \in {0, 1} /\ SEQ_NUM' # SEQ_NUM
    BY <1>1 DEF IInv, TypeOK, Flip
<1>6. delivered' = accepted'
    BY <1>1, <1>3
<1>7. TypeOK'
    BY <1>1, <1>2, <1>4, <1>5, <1>6 DEF IInv, TypeOK, WellFormed
<1>8. Medium'
    BY <1>1, <1>3, <1>4, <1>6, MediumPrime DEF MediumOf, A, B
<1>9. Alternation'
    BY <1>1, <1>2, <1>3, <1>5 DEF Alternation, Flip
<1>10. Outstanding'
    BY <1>1, <1>3, <1>5, <1>6 DEF IInv, Outstanding
<1> QED BY <1>4, <1>6, <1>7, <1>8, <1>9, <1>10 DEF IInv

\* Every step of the main loop keeps the invariant.
LEMMA NextIInv == IInv /\ [Next]_vars => IInv'
<1> SUFFICES ASSUME IInv, [Next]_vars
             PROVE  IInv'
    OBVIOUS
<1>1. ASSUME NEW gap \in Gap, NEW fate \in Fate, NEW delay \in Delay,
             A_output(gap, fate, delay)
      PROVE  IInv'
    BY <1>1, A_outputStep
<1>2. ASSUME NEW gap \in Gap, A_output_waiting(gap)
      PROVE  IInv'
    BY <1>2, A_output_waitingStep
<1>3. CASE A_input
    BY <1>3, A_inputStep
<1>4. CASE A_input_corrupted
    BY <1>4, DropStep DEF A_input_corrupted, NextIs
<1>5. ASSUME NEW fate \in Fate, NEW delay \in Delay, A_timerinterrupt(fate, delay)
      PROVE  IInv'
    BY <1>5, A_timerinterruptStep
<1>6. ASSUME NEW fate \in Fate, NEW delay \in Delay, B_input_duplicate(fate, delay)
      PROVE  IInv'
    BY <1>6, B_input_duplicateStep
<1>7. ASSUME NEW g \in Garbage, NEW fate \in Fate, NEW delay \in Delay,
             B_input(g, fate, delay)
      PROVE  IInv'
    BY <1>7, B_inputStep
<1>8. CASE B_input_corrupted
    BY <1>8, DropStep DEF B_input_corrupted, NextIs
<1>9. CASE UNCHANGED vars
    BY <1>9 DEF vars, IInv, TypeOK, WellFormed, TimerIffWaiting, Medium, InFlight,
                Alternation, Outstanding
<1> QED BY <1>1, <1>2, <1>3, <1>4, <1>5, <1>6, <1>7, <1>8, <1>9 DEF Next
-----------------------------------------------------------------------------
(***************************************************************************)
(* The inductive invariant holds in every run of rdt_abp.c.                *)
(***************************************************************************)
THEOREM Invariance == Spec => []IInv
BY InitIInv, NextIInv, PTL DEF Spec

(***************************************************************************)
(* The program's variables keep their types: in particular both bits stay  *)
(* 0 or 1, no event is due before the clock, and only whole messages of    *)
(* layer 5 are ever accepted or delivered.                                 *)
(***************************************************************************)
THEOREM TypeCorrect == Spec => []TypeOK
<1>1. IInv => TypeOK
    BY DEF IInv
<1> QED BY <1>1, Invariance, PTL

(***************************************************************************)
(* A's timer runs exactly while A waits for an ACK.                        *)
(***************************************************************************)
THEOREM TimerRunsIffWaiting == Spec => []TimerIffWaiting
<1>1. IInv => TimerIffWaiting
    BY DEF IInv
<1> QED BY <1>1, Invariance, PTL

(***************************************************************************)
(* A_timerinterrupt never fires while a packet or an ACK is under way.     *)
(***************************************************************************)
THEOREM TimeoutMeansLoss == Spec => []NoPrematureTimeout
<1>1. IInv => NoPrematureTimeout
    <2> SUFFICES ASSUME IInv, NextIs(evlist, TIMER_INTERRUPT, A),
                        NEW i \in 1..Len(evlist), InFlight(i)
                 PROVE  FALSE
        BY DEF NoPrematureTimeout
    <2>1. 1 \in 1..Len(evlist)
        OBVIOUS
    <2>2. i < 1
        BY <2>1 DEF IInv, WellFormed, RoundTrip, NextIs, InFlight
    <2> QED BY <2>2
<1> QED BY <1>1, Invariance, PTL

(***************************************************************************)
(* When A is free to send, everything it accepted has been delivered and   *)
(* the medium is empty.                                                    *)
(***************************************************************************)
THEOREM IdleImpliesDelivered == Spec => []IdleMeansDelivered
<1>1. IInv => IdleMeansDelivered
    BY DEF IInv, IdleMeansDelivered, Medium, WAIT_ACK, SEND_PCKT
<1> QED BY <1>1, Invariance, PTL

(***************************************************************************)
(* A_output never sends a new message under the number of the last one     *)
(* that B delivered.                                                       *)
(***************************************************************************)
THEOREM NewIsNotDuplicate == Spec => []NextIsNotDuplicate
<1>1. IInv => NextIsNotDuplicate
    BY DEF IInv, TypeOK, NextIsNotDuplicate, Alternation, Flip
<1> QED BY <1>1, Invariance, PTL

(***************************************************************************)
(* The protocol implements StopAndWait: whatever is lost or damaged, B     *)
(* gives layer 5 exactly the messages A accepted, once each and in order,  *)
(* and A accepts none before the last one is delivered.                    *)
(***************************************************************************)
THEOREM Refinement == Spec => StopAndWaitSafety
<1>1. Init => SW!Init
    BY DEF Init, SW!Init
<1>2. IInv /\ [Next]_vars => [SW!Next]_<<accepted, delivered>>
    <2> SUFFICES ASSUME IInv, [Next]_vars
                 PROVE  [SW!Next]_<<accepted, delivered>>
        OBVIOUS
    <2> USE DEF SW!Next
    <2>1. ASSUME NEW gap \in Gap, NEW fate \in Fate, NEW delay \in Delay,
                 A_output(gap, fate, delay)
          PROVE  SW!Accept
        <3>1. /\ accepted' = Append(accepted, MakePkt(SEQ_NUM, ACK, Letter(nsim)).payload)
              /\ delivered = accepted /\ UNCHANGED delivered
            BY <2>1 DEF A_output, IInv
        <3>2. nsim \in Nat /\ Letter(nsim) \in Letters
            BY PacketTypes, NsimmaxAssumption DEF IInv, TypeOK
        <3>3. MakePkt(SEQ_NUM, ACK, Letter(nsim)).payload \in Letters
            BY <3>2, MakeGoodPkt DEF IInv, TypeOK
        <3> QED BY <3>1, <3>3 DEF SW!Accept
    <2>2. ASSUME NEW g \in Garbage, NEW fate \in Fate, NEW delay \in Delay,
                 B_input(g, fate, delay)
          PROVE  SW!Deliver
        <3>1. /\ accepted = Append(delivered, evlist[1].pkt.payload)
              /\ delivered' = Append(delivered, evlist[1].pkt.payload)
              /\ UNCHANGED accepted
            BY <2>2, B_inputAccepts DEF B_input
        <3>2. evlist[1].pkt.payload \in Letters /\ delivered \in Seq(Letters)
            BY <2>2, B_inputAccepts DEF B_input, IInv, Outstanding, TypeOK
        <3>3. /\ Len(accepted) = Len(delivered) + 1 /\ Len(delivered) \in Nat
              /\ accepted[Len(delivered) + 1] = evlist[1].pkt.payload
            BY <3>1, <3>2, AppendProperties, LenProperties
        <3> QED BY <3>1, <3>3 DEF SW!Deliver
    <2>3. ASSUME \/ \E gap \in Gap : A_output_waiting(gap)
                 \/ A_input
                 \/ A_input_corrupted
                 \/ \E fate \in Fate, delay \in Delay : A_timerinterrupt(fate, delay)
                 \/ \E fate \in Fate, delay \in Delay : B_input_duplicate(fate, delay)
                 \/ B_input_corrupted
                 \/ UNCHANGED vars
          PROVE  UNCHANGED <<accepted, delivered>>
        BY <2>3 DEF A_output_waiting, A_input, A_input_corrupted, A_timerinterrupt,
                    B_input_duplicate, B_input_corrupted, vars
    <2> QED BY <2>1, <2>2, <2>3 DEF Next
<1> QED BY <1>1, <1>2, Invariance, PTL DEF Spec, StopAndWaitSafety, SW!Spec
=============================================================================
