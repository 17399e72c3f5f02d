--------------------------- MODULE EmulatorProofs ---------------------------
(***************************************************************************)
(* What the emulator's event-list routines do to the list, for every list: *)
(* the lemmas the proofs about the protocols rest on.                      *)
(***************************************************************************)
EXTENDS Emulator, TLAPS, SequenceTheorems, WellFoundedInduction

\* Every non-empty set of natural numbers has a least element.
LEMMA LeastNat ==
    ASSUME NEW S, S \subseteq Nat, S # {}
    PROVE  \E m \in S : \A n \in S : m <= n
<1>1. PICK m \in S : \A n \in S : ~(<<n, m>> \in OpToRel(<, Nat))
    BY WFMin, NatLessThanWellFounded
<1>2. ASSUME NEW n \in S
      PROVE  m <= n
    <2>1. n \in Nat /\ m \in Nat
        OBVIOUS
    <2>2. <<n, m>> \in Nat \X Nat
        BY <2>1
    <2>3. ~(n < m)
        BY <1>1, <2>2 DEF OpToRel
    <2> QED BY <2>1, <2>3
<1> QED BY <1>2

\* InsertAt shifts what lies at and behind the position by one.
LEMMA InsertAtProps ==
    ASSUME NEW T, NEW l \in Seq(T), NEW e \in T, NEW k \in 1..Len(l) + 1
    PROVE  LET r == InsertAt(l, k, e) IN
           /\ r \in Seq(T)
           /\ Len(r) = Len(l) + 1
           /\ \A i \in 1..k - 1 : r[i] = l[i]
           /\ r[k] = e
           /\ \A i \in k..Len(l) : r[i + 1] = l[i]
<1> DEFINE p == SubSeq(l, 1, k - 1)
           s == SubSeq(l, k, Len(l))
<1>1. /\ p \in Seq(T)
      /\ Len(p) = k - 1
      /\ \A i \in 1..k - 1 : p[i] = l[i]
    BY SubSeqProperties
<1>2. /\ s \in Seq(T)
      /\ Len(s) = Len(l) + 1 - k
      /\ \A i \in 1..Len(l) + 1 - k : s[i] = l[k + i - 1]
    BY SubSeqProperties
<1> DEFINE q == p \o <<e>>
<1>3. /\ q \in Seq(T)
      /\ Len(q) = k
      /\ \A i \in 1..k - 1 : q[i] = l[i]
      /\ q[k] = e
    BY <1>1
<1>4. InsertAt(l, k, e) = q \o s
    BY DEF InsertAt
<1> HIDE DEF p, q, s
<1>5. /\ q \o s \in Seq(T)
      /\ Len(q \o s) = Len(q) + Len(s)
      /\ \A i \in 1..Len(q) + Len(s) :
             (q \o s)[i] = IF i <= Len(q) THEN q[i] ELSE s[i - Len(q)]
    BY <1>2, <1>3, ConcatProperties
<1>6. Len(l) \in Nat /\ k \in Nat /\ Len(q) + Len(s) = Len(l) + 1
    BY <1>2, <1>3
<1>7. ASSUME NEW i \in 1..k
      PROVE  (q \o s)[i] = q[i]
    <2>1. i \in 1..Len(q) + Len(s) /\ i <= Len(q)
        BY <1>3, <1>6
    <2> QED BY <1>5, <2>1
<1>8. ASSUME NEW i \in k..Len(l)
      PROVE  (q \o s)[i + 1] = l[i]
    <2>1. i + 1 \in 1..Len(q) + Len(s) /\ ~(i + 1 <= Len(q))
        BY <1>3, <1>6
    <2>2. (q \o s)[i + 1] = s[(i + 1) - k]
        BY <1>3, <1>5, <2>1
    <2>3. (i + 1) - k \in 1..Len(l) + 1 - k /\ k + ((i + 1) - k) - 1 = i
        BY <1>6
    <2> QED BY <1>2, <2>2, <2>3
<1>9. /\ \A i \in 1..k - 1 : (q \o s)[i] = l[i]
      /\ (q \o s)[k] = e
    BY <1>3, <1>6, <1>7
<1> QED BY <1>4, <1>5, <1>6, <1>8, <1>9

\* RemoveAt closes the gap.
LEMMA RemoveAtProps ==
    ASSUME NEW T, NEW l \in Seq(T), NEW k \in 1..Len(l)
    PROVE  LET r == RemoveAt(l, k) IN
           /\ r \in Seq(T)
           /\ Len(r) = Len(l) - 1
           /\ \A i \in 1..k - 1 : r[i] = l[i]
           /\ \A i \in k..Len(l) - 1 : r[i] = l[i + 1]
<1> DEFINE p == SubSeq(l, 1, k - 1)
           s == SubSeq(l, k + 1, Len(l))
<1>1. /\ p \in Seq(T)
      /\ Len(p) = k - 1
      /\ \A i \in 1..k - 1 : p[i] = l[i]
    BY SubSeqProperties
<1>2. /\ s \in Seq(T)
      /\ Len(s) = Len(l) - k
      /\ \A i \in 1..Len(l) - k : s[i] = l[k + i]
    BY SubSeqProperties
<1> HIDE DEF p, s
<1>3. /\ p \o s \in Seq(T)
      /\ Len(p \o s) = Len(p) + Len(s)
      /\ \A i \in 1..Len(p) + Len(s) :
             (p \o s)[i] = IF i <= Len(p) THEN p[i] ELSE s[i - Len(p)]
    BY <1>1, <1>2, ConcatProperties
<1>4. ASSUME NEW i \in k..Len(l) - 1
      PROVE  (p \o s)[i] = l[i + 1]
    <2>1. i \in 1..Len(p) + Len(s) /\ ~(i <= Len(p))
        BY <1>1, <1>2
    <2>2. (p \o s)[i] = s[i - (k - 1)]
        BY <1>1, <1>3, <2>1
    <2>3. i - (k - 1) \in 1..Len(l) - k /\ k + (i - (k - 1)) = i + 1
        OBVIOUS
    <2> QED BY <1>2, <2>2, <2>3
<1>5. ASSUME NEW i \in 1..k - 1
      PROVE  (p \o s)[i] = l[i]
    <2>1. i \in 1..Len(p) + Len(s) /\ i <= Len(p)
        BY <1>1, <1>2
    <2> QED BY <1>1, <1>3, <2>1
<1>6. RemoveAt(l, k) = p \o s
    BY DEF RemoveAt, p, s
<1>7. Len(p \o s) = Len(l) - 1
    BY <1>1, <1>2, <1>3
<1> QED BY <1>3, <1>4, <1>5, <1>6, <1>7
-----------------------------------------------------------------------------
(***************************************************************************)
(* insertevent puts the event in front of the first one that is not        *)
(* earlier and keeps all others in their order.                            *)
(***************************************************************************)
Inserted(l, e, r, k) ==
    /\ k \in 1..Len(l) + 1
    /\ r \in Seq(Event)
    /\ Len(r) = Len(l) + 1
    /\ \A i \in 1..k - 1 : r[i] = l[i] /\ l[i].evtime < e.evtime
    /\ r[k] = e
    /\ \A i \in k..Len(l) : r[i + 1] = l[i]
    /\ k <= Len(l) => e.evtime <= l[k].evtime

\* The search loop of insertevent always finds a place.
LEMMA InsertPosProps ==
    ASSUME NEW l \in Seq(Event), NEW e \in Event
    PROVE  LET k == InsertPos(l, e) IN
           /\ k \in 1..Len(l) + 1
           /\ \A i \in 1..k - 1 : e.evtime > l[i].evtime
           /\ k <= Len(l) => e.evtime <= l[k].evtime
<1> DEFINE S == {k \in 1..Len(l) + 1 : k <= Len(l) => e.evtime <= l[k].evtime}
<1>1. Len(l) + 1 \in S /\ S \subseteq Nat
    OBVIOUS
<1>2. PICK m \in S : \A n \in S : m <= n
    BY <1>1, LeastNat
<1>3. \A i \in 1..m - 1 : e.evtime > l[i].evtime
    <2> SUFFICES ASSUME NEW i \in 1..m - 1
                 PROVE  e.evtime > l[i].evtime
        OBVIOUS
    <2>1. i \notin S /\ i \in 1..Len(l)
        BY <1>2
    <2>2. l[i] \in Event
        BY <2>1, ElementOfSeq
    <2>3. e.evtime \in Nat /\ l[i].evtime \in Nat
        BY <2>2 DEF Event
    <2> QED BY <2>1, <2>3
<1>4. \E k \in 1..Len(l) + 1 : /\ \A i \in 1..k - 1 : e.evtime > l[i].evtime
                               /\ k <= Len(l) => e.evtime <= l[k].evtime
    BY <1>2, <1>3
<1> QED BY <1>4 DEF InsertPos

\* insertevent keeps the list and adds the event at its place.
LEMMA InsertEvent ==
    ASSUME NEW l \in Seq(Event), NEW e \in Event
    PROVE  \E k \in 1..Len(l) + 1 : Inserted(l, e, insertevent(l, e), k)
<1> DEFINE k == InsertPos(l, e)
           r == InsertAt(l, k, e)
<1>1. /\ k \in 1..Len(l) + 1
      /\ \A i \in 1..k - 1 : e.evtime > l[i].evtime
      /\ k <= Len(l) => e.evtime <= l[k].evtime
    BY InsertPosProps
<1> HIDE DEF k
<1>2. /\ r \in Seq(Event)
      /\ Len(r) = Len(l) + 1
      /\ \A i \in 1..k - 1 : r[i] = l[i]
      /\ r[k] = e
      /\ \A i \in k..Len(l) : r[i + 1] = l[i]
    BY <1>1, InsertAtProps
<1> HIDE DEF r
<1>3. \A i \in 1..k - 1 : l[i].evtime < e.evtime
    <2> SUFFICES ASSUME NEW i \in 1..k - 1
                 PROVE  l[i].evtime < e.evtime
        OBVIOUS
    <2>1. i \in 1..Len(l)
        BY <1>1
    <2>2. l[i] \in Event
        BY <2>1, ElementOfSeq
    <2>3. e.evtime \in Nat /\ l[i].evtime \in Nat
        BY <2>2 DEF Event
    <2> QED BY <1>1, <2>3
<1>4. Inserted(l, e, r, k)
    BY <1>1, <1>2, <1>3 DEF Inserted
<1>5. r = insertevent(l, e)
    BY DEF r, k, insertevent
<1> QED BY <1>1, <1>4, <1>5

\* stoptimer removes exactly the first timer event.
LEMMA TimerPosProps ==
    ASSUME NEW l \in Seq(Event), NEW x, TimerRunning(l, x)
    PROVE  /\ TimerPos(l, x) \in 1..Len(l)
           /\ IsTimer(l[TimerPos(l, x)], x)
<1> DEFINE S == {i \in 1..Len(l) : IsTimer(l[i], x)}
<1>1. S # {} /\ S \subseteq Nat
    BY DEF TimerRunning
<1>2. PICK m \in S : \A n \in S : m <= n
    BY <1>1, LeastNat
<1>3. \A i \in 1..m - 1 : ~IsTimer(l[i], x)
    <2> SUFFICES ASSUME NEW i \in 1..m - 1, IsTimer(l[i], x)
                 PROVE  FALSE
        OBVIOUS
    <2>1. i \in S
        BY <1>2
    <2> QED BY <1>2, <2>1
<1>4. \E k \in 1..Len(l) : /\ IsTimer(l[k], x)
                           /\ \A i \in 1..k - 1 : ~IsTimer(l[i], x)
    BY <1>2, <1>3
<1> QED BY <1>4 DEF TimerPos

\* RemoveNext takes the first event off and moves the others towards the
\* clock by its time.
LEMMA RemoveNextProps ==
    ASSUME NEW l \in Seq(Event), l # << >>,
           \A i \in 1..Len(l) : l[1].evtime <= l[i].evtime
    PROVE  LET r == RemoveNext(l) IN
           /\ r \in Seq(Event)
           /\ Len(r) = Len(l) - 1
           /\ \A i \in 1..Len(r) :
                  /\ i + 1 \in 1..Len(l)
                  /\ r[i].evtype = l[i + 1].evtype
                  /\ r[i].eventity = l[i + 1].eventity
                  /\ r[i].pkt = l[i + 1].pkt
                  /\ r[i].evtime = l[i + 1].evtime - l[1].evtime
<1> DEFINE f(i) == [l[i + 1] EXCEPT !.evtime = @ - l[1].evtime]
           r == [i \in 1..Len(l) - 1 |-> f(i)]
<1>1. Len(l) \in Nat /\ Len(l) - 1 \in Nat
    BY EmptySeq
<1>2. ASSUME NEW i \in 1..Len(l) - 1
      PROVE  /\ i + 1 \in 1..Len(l)
             /\ f(i) \in Event
             /\ f(i).evtype = l[i + 1].evtype
             /\ f(i).eventity = l[i + 1].eventity
             /\ f(i).pkt = l[i + 1].pkt
             /\ f(i).evtime = l[i + 1].evtime - l[1].evtime
    <2>1. i + 1 \in 1..Len(l) /\ 1 \in 1..Len(l)
        BY <1>1
    <2>2. l[i + 1] \in Event /\ l[1] \in Event
        BY <2>1, ElementOfSeq
    <2>3. l[1].evtime <= l[i + 1].evtime
        BY <2>1
    <2>4. l[i + 1].evtime - l[1].evtime \in Nat
        BY <2>2, <2>3 DEF Event
    <2> QED BY <2>1, <2>2, <2>4 DEF Event
<1> HIDE DEF f
<1>3. r \in [1..Len(l) - 1 -> Event]
    BY <1>2
<1>4. r \in Seq(Event) /\ Len(r) = Len(l) - 1
    BY <1>1, <1>3, IsASeq, LenProperties
<1>5. r = RemoveNext(l)
    BY DEF RemoveNext, f
<1> QED BY <1>2, <1>4, <1>5
-----------------------------------------------------------------------------
\* The pending events, whatever their order.
Events(l) == {l[i] : i \in 1..Len(l)}

\* Every event of a list is an event, and TimerRunning looks at all of them.
LEMMA EventsProps ==
    ASSUME NEW l \in Seq(Event)
    PROVE  /\ Events(l) \subseteq Event
           /\ \A i \in 1..Len(l) : l[i] \in Events(l)
           /\ \A x : TimerRunning(l, x) <=> \E ev \in Events(l) : IsTimer(ev, x)
<1>1. \A i \in 1..Len(l) : l[i] \in Event
    BY ElementOfSeq
<1> QED BY <1>1 DEF Events, TimerRunning

(***************************************************************************)
(* The list as the protocol with several packets under way needs it: in    *)
(* the order of time and with at most one timer for A.                     *)
(***************************************************************************)
Orderly(l) ==
    /\ l \in Seq(Event)
    /\ Sorted(l)
    /\ \A i, j \in 1..Len(l) : IsTimer(l[i], A) /\ IsTimer(l[j], A) => i = j

\* insertevent keeps a list orderly, unless it adds a second timer.
LEMMA InsertOrderly ==
    ASSUME NEW l, NEW e \in Event, Orderly(l), IsTimer(e, A) => ~TimerRunning(l, A)
    PROVE  /\ Orderly(insertevent(l, e))
           /\ Events(insertevent(l, e)) = Events(l) \cup {e}
<1> DEFINE r == insertevent(l, e)
<1>1. l \in Seq(Event)
    BY DEF Orderly
<1>2. PICK k \in 1..Len(l) + 1 : Inserted(l, e, r, k)
    BY <1>1, InsertEvent
<1> HIDE DEF r
<1> DEFINE src(i) == IF i < k THEN i ELSE i - 1
<1>3. Len(l) \in Nat /\ Len(r) = Len(l) + 1 /\ r \in Seq(Event) /\ r[k] = e
    BY <1>1, <1>2, LenProperties DEF Inserted
<1>4. ASSUME NEW i \in 1..Len(r), i # k
      PROVE  src(i) \in 1..Len(l) /\ r[i] = l[src(i)]
    <2>1. CASE i < k
        BY <1>2, <1>3, <2>1 DEF Inserted
    <2>2. CASE i > k
        <3>1. i - 1 \in k..Len(l) /\ (i - 1) + 1 = i
            BY <1>3, <2>2
        <3>2. r[(i - 1) + 1] = l[i - 1]
            BY <1>2, <3>1 DEF Inserted
        <3> QED BY <2>2, <3>1, <3>2
    <2> QED BY <1>3, <1>4, <2>1, <2>2
<1>5. ASSUME NEW i \in 1..Len(l)
      PROVE  l[i] \in Events(l) /\ l[i].evtime \in Nat
    <2>1. l[i] \in Event
        BY <1>1, ElementOfSeq
    <2> QED BY <2>1 DEF Events, Event
<1>6. Events(r) = Events(l) \cup {e}
    <2>1. \A i \in 1..Len(r) : r[i] \in Events(l) \cup {e}
        BY <1>3, <1>4, <1>5
    <2>2. \A j \in 1..Len(l) : \E i \in 1..Len(r) : r[i] = l[j]
        <3> SUFFICES ASSUME NEW j \in 1..Len(l)
                     PROVE  \E i \in 1..Len(r) : r[i] = l[j]
            OBVIOUS
        <3>1. CASE j < k
            BY <1>2, <1>3, <3>1 DEF Inserted
        <3>2. CASE j >= k
            <4>1. j + 1 \in 1..Len(r) /\ r[j + 1] = l[j]
                BY <1>2, <1>3, <3>2 DEF Inserted
            <4> QED BY <4>1
        <3> QED BY <3>1, <3>2
    <2> QED BY <1>3, <2>1, <2>2 DEF Events
<1>7. e.evtime \in Nat
    BY DEF Event
<1>8. /\ \A i \in 1..k - 1 : l[i].evtime < e.evtime
      /\ \A i \in k..Len(l) : e.evtime <= l[i].evtime
    <2>1. \A i \in 1..k - 1 : l[i].evtime < e.evtime
        BY <1>2 DEF Inserted
    <2>2. ASSUME NEW i \in k..Len(l)
          PROVE  e.evtime <= l[i].evtime
        <3>1. k \in 1..Len(l) /\ i \in 1..Len(l) /\ k <= i
            BY <1>3
        <3>2. l[k].evtime <= l[i].evtime
            BY <3>1 DEF Orderly, Sorted
        <3>3. e.evtime <= l[k].evtime
            BY <1>2, <3>1 DEF Inserted
        <3> QED BY <1>5, <1>7, <3>1, <3>2, <3>3
    <2> QED BY <2>1, <2>2
<1>9. Sorted(r)
    <2> SUFFICES ASSUME NEW i \in 1..Len(r), NEW j \in 1..Len(r), i <= j
                 PROVE  r[i].evtime <= r[j].evtime
        BY DEF Sorted
    <2>1. CASE i = k /\ j = k
        BY <1>3, <1>7, <2>1
    <2>2. CASE i = k /\ j # k
        <3>1. src(j) \in k..Len(l) /\ r[j] = l[src(j)]
            BY <1>3, <1>4, <2>2
        <3> QED BY <1>3, <1>8, <2>2, <3>1
    <2>3. CASE i # k /\ j = k
        <3>1. src(i) \in 1..k - 1 /\ r[i] = l[src(i)] /\ src(i) \in 1..Len(l)
            BY <1>3, <1>4, <2>3
        <3> QED BY <1>3, <1>5, <1>7, <1>8, <2>3, <3>1
    <2>4. CASE i # k /\ j # k
        <3>1. /\ src(i) \in 1..Len(l) /\ r[i] = l[src(i)]
              /\ src(j) \in 1..Len(l) /\ r[j] = l[src(j)]
            BY <1>4, <2>4
        <3>2. src(i) <= src(j)
            BY <1>3, <2>4
        <3> HIDE DEF src
        <3> QED BY <3>1, <3>2 DEF Orderly, Sorted
    <2> QED BY <2>1, <2>2, <2>3, <2>4
<1>10. ASSUME NEW i \in 1..Len(r), NEW j \in 1..Len(r),
              IsTimer(r[i], A), IsTimer(r[j], A)
       PROVE  i = j
    <2>1. CASE i = k \/ j = k
        <3>1. ~TimerRunning(l, A)
            BY <1>3, <1>10, <2>1
        <3>2. \A n \in 1..Len(r) : n # k => ~IsTimer(r[n], A)
            <4> SUFFICES ASSUME NEW n \in 1..Len(r), n # k
                         PROVE  ~IsTimer(r[n], A)
                OBVIOUS
            <4>1. src(n) \in 1..Len(l) /\ r[n] = l[src(n)]
                BY <1>4
            <4> HIDE DEF src
            <4> QED BY <3>1, <4>1 DEF TimerRunning
        <3> QED BY <1>10, <2>1, <3>2
    <2>2. CASE i # k /\ j # k
        <3>1. /\ src(i) \in 1..Len(l) /\ r[i] = l[src(i)]
              /\ src(j) \in 1..Len(l) /\ r[j] = l[src(j)]
            BY <1>4, <2>2
        <3>2. src(i) = src(j)
            BY <1>10, <3>1 DEF Orderly
        <3> QED BY <2>2, <3>2
    <2> QED BY <2>1, <2>2
<1> QED BY <1>3, <1>6, <1>9, <1>10 DEF Orderly, r

\* main() takes the first event off an orderly list: the others keep all but
\* their distance to the clock.
LEMMA RemoveNextOrderly ==
    ASSUME NEW l, Orderly(l), l # << >>
    PROVE  /\ l[1] \in Events(l)
           /\ Orderly(RemoveNext(l))
           /\ \A ev \in Events(RemoveNext(l)) : \E old \in Events(l) :
                  /\ ev.evtype = old.evtype
                  /\ ev.eventity = old.eventity
                  /\ ev.pkt = old.pkt
           /\ \A x : TimerRunning(l, x) /\ ~IsTimer(l[1], x) => TimerRunning(RemoveNext(l), x)
           /\ IsTimer(l[1], A) => ~TimerRunning(RemoveNext(l), A)
<1> DEFINE r == RemoveNext(l)
<1>1. /\ l \in Seq(Event) /\ Len(l) \in Nat \ {0} /\ 1 \in 1..Len(l)
      /\ \A i \in 1..Len(l) : l[1].evtime <= l[i].evtime
    BY EmptySeq DEF Orderly, Sorted
<1>2. /\ r \in Seq(Event)
      /\ Len(r) = Len(l) - 1
      /\ \A i \in 1..Len(r) :
             /\ i + 1 \in 1..Len(l)
             /\ r[i].evtype = l[i + 1].evtype
             /\ r[i].eventity = l[i + 1].eventity
             /\ r[i].pkt = l[i + 1].pkt
             /\ r[i].evtime = l[i + 1].evtime - l[1].evtime
    BY <1>1, RemoveNextProps
<1> HIDE DEF r
<1>3. ASSUME NEW i \in 1..Len(l)
      PROVE  l[i].evtime \in Nat /\ l[i] \in Events(l)
    <2>1. l[i] \in Event
        BY <1>1, ElementOfSeq
    <2> QED BY <2>1 DEF Events, Event
<1>4. Sorted(r)
    <2> SUFFICES ASSUME NEW i \in 1..Len(r), NEW j \in 1..Len(r), i <= j
                 PROVE  r[i].evtime <= r[j].evtime
        BY DEF Sorted
    <2>1. i + 1 \in 1..Len(l) /\ j + 1 \in 1..Len(l) /\ i + 1 <= j + 1
        BY <1>2
    <2>2. l[i + 1].evtime <= l[j + 1].evtime
        BY <2>1 DEF Orderly, Sorted
    <2>3. /\ r[i].evtime = l[i + 1].evtime - l[1].evtime
          /\ r[j].evtime = l[j + 1].evtime - l[1].evtime
        BY <1>2
    <2>4. l[1].evtime \in Nat /\ l[i + 1].evtime \in Nat /\ l[j + 1].evtime \in Nat
        BY <1>1, <1>3, <2>1
    <2> QED BY <2>2, <2>3, <2>4
<1>5. \A i \in 1..Len(r) : \A x : IsTimer(r[i], x) <=> IsTimer(l[i + 1], x)
    BY <1>2 DEF IsTimer
<1>6. ASSUME NEW i \in 1..Len(r), NEW j \in 1..Len(r),
             IsTimer(r[i], A), IsTimer(r[j], A)
      PROVE  i = j
    <2>1. i + 1 = j + 1
        BY <1>2, <1>5, <1>6 DEF Orderly
    <2> QED BY <2>1
<1>7. ASSUME NEW x, TimerRunning(l, x), ~IsTimer(l[1], x)
      PROVE  TimerRunning(r, x)
    <2>1. PICK j \in 1..Len(l) : IsTimer(l[j], x)
        BY <1>7 DEF TimerRunning
    <2>2. j - 1 \in 1..Len(r) /\ (j - 1) + 1 = j
        BY <1>1, <1>2, <1>7, <2>1
    <2> QED BY <1>5, <2>1, <2>2 DEF TimerRunning
<1>8. ASSUME IsTimer(l[1], A), TimerRunning(r, A)
      PROVE  FALSE
    <2>1. PICK j \in 1..Len(r) : IsTimer(r[j], A)
        BY <1>8 DEF TimerRunning
    <2>2. j + 1 \in 1..Len(l) /\ j + 1 # 1
        BY <1>2
    <2>3. IsTimer(l[j + 1], A)
        BY <1>5, <2>1
    <2> QED BY <1>1, <1>8, <2>2, <2>3 DEF Orderly
<1>9. \A ev \in Events(r) : \E old \in Events(l) :
          /\ ev.evtype = old.evtype
          /\ ev.eventity = old.eventity
          /\ ev.pkt = old.pkt
    <2> SUFFICES ASSUME NEW i \in 1..Len(r)
                 PROVE  \E old \in Events(l) :
                          /\ r[i].evtype = old.evtype
                          /\ r[i].eventity = old.eventity
                          /\ r[i].pkt = old.pkt
        BY DEF Events
    <2>1. l[i + 1] \in Events(l)
        BY <1>2, <1>3
    <2> QED BY <1>2, <2>1
<1> QED BY <1>1, <1>2, <1>3, <1>4, <1>6, <1>7, <1>8, <1>9 DEF Orderly, r

\* stoptimer removes A's timer and leaves the rest as it is.
LEMMA StopTimerOrderly ==
    ASSUME NEW l, Orderly(l)
    PROVE  /\ Orderly(stoptimer(l, A))
           /\ Events(stoptimer(l, A)) \subseteq Events(l)
<1>1. CASE ~TimerRunning(l, A)
    BY <1>1 DEF stoptimer
<1>2. CASE TimerRunning(l, A)
    <2> DEFINE k == TimerPos(l, A)
               r == RemoveAt(l, k)
               src(i) == IF i < k THEN i ELSE i + 1
    <2>1. l \in Seq(Event) /\ Len(l) \in Nat
        BY LenProperties DEF Orderly
    <2>2. k \in 1..Len(l)
        BY <1>2, <2>1, TimerPosProps
    <2> HIDE DEF k
    <2>3. /\ r \in Seq(Event)
          /\ Len(r) = Len(l) - 1
          /\ \A i \in 1..k - 1 : r[i] = l[i]
          /\ \A i \in k..Len(l) - 1 : r[i] = l[i + 1]
        BY <2>1, <2>2, RemoveAtProps
    <2> HIDE DEF r
    <2>4. ASSUME NEW i \in 1..Len(r)
          PROVE  src(i) \in 1..Len(l) /\ r[i] = l[src(i)]
        BY <2>1, <2>2, <2>3
    <2>5. \A i, j \in 1..Len(r) : /\ i <= j => src(i) <= src(j)
                                  /\ src(i) = src(j) => i = j
        BY <2>1, <2>2, <2>3
    <2> HIDE DEF src
    <2>6. Sorted(r)
        BY <2>4, <2>5 DEF Orderly, Sorted
    <2>7. ASSUME NEW i \in 1..Len(r), NEW j \in 1..Len(r),
                 IsTimer(r[i], A), IsTimer(r[j], A)
          PROVE  i = j
        <3>1. src(i) = src(j)
            BY <2>4, <2>7 DEF Orderly
        <3> QED BY <2>5, <3>1
    <2>8. Events(r) \subseteq Events(l)
        BY <2>4 DEF Events
    <2>9. r = stoptimer(l, A)
        BY <1>2 DEF stoptimer, r, k
    <2> QED BY <2>3, <2>6, <2>7, <2>8, <2>9 DEF Orderly
<1> QED BY <1>1, <1>2

=============================================================================
