------------------------------ MODULE Emulator ------------------------------
(***************************************************************************)
(* The layer-3 network emulator that rdt_abp.c and rdt_gbn.cpp share: the  *)
(* packets, the checksum, the lossy and corrupting medium, the timers and  *)
(* the time-ordered event list that main() consumes.                       *)
(*                                                                         *)
(* Event times are kept relative to the emulator's clock ("time" in        *)
(* rdt_abp.c, "time_rdt" in rdt_gbn.cpp): the code only ever compares and  *)
(* adds event times, so evtime - time is all that matters.  The delay      *)
(* 1 + 9 * jimsrand() of a packet is one of 1..MaxDelay ticks.             *)
(***************************************************************************)
EXTENDS Integers, Sequences, SequencesExt

CONSTANTS
    MaxDelay,   \* longest one-way delay added by tolayer3 (10 in the code)
    Garbage     \* byte sums an uninitialised payload tail may hold

ASSUME MaxDelayAssumption == MaxDelay \in Nat \ {0}
ASSUME GarbageAssumption  == Garbage \subseteq Int

A == 0
B == 1

TIMER_INTERRUPT == 0
FROM_LAYER5     == 1
FROM_LAYER3     == 2

Delay == 1..MaxDelay

(***************************************************************************)
(* A payload is the code of its first character, which the medium may      *)
(* overwrite, and the sum of the characters behind it, which is all the    *)
(* checksum sees of them.                                                  *)
(***************************************************************************)
Payload == [first : Int, rest : Int]

\* struct pkt
Pkt == [seqnum : Int, acknum : Int, checksum : Int, payload : Payload]

\* A zero-initialised global packet; also the unused pktptr of an event.
ZeroPkt == [seqnum |-> 0, acknum |-> 0, checksum |-> 0,
            payload |-> [first |-> 0, rest |-> 0]]

\* main() fills nineteen characters with the letter of the message's number.
Letter(n) == LET c == 97 + (n % 26) IN [first |-> c, rest |-> 18 * c]

\* Mutant: the loop over the payload starts at 1.
getchecksum_skips_first(p) == p.payload.rest + (p.seqnum + p.acknum)

getchecksum(p) == p.payload.first + p.payload.rest + (p.seqnum + p.acknum)

\* A packet as its sender builds it, checksum included.
MakePkt(seq, ack, data) ==
    LET p == [seqnum |-> seq, acknum |-> ack, checksum |-> 0, payload |-> data]
    IN  [p EXCEPT !.checksum = getchecksum(p)]

\* B clears an uninitialised payload with memset(.., strlen(..)): the first
\* character becomes 0, what lies behind the first NUL is left as it was.
AckPkt(p, g) == MakePkt(p.seqnum, p.acknum, [first |-> 0, rest |-> g])

(***************************************************************************)
(* What the medium does to one packet: the random draws of tolayer3.       *)
(***************************************************************************)
Fate == {"lost", "intact", "payload", "seqnum", "acknum"}

\* What a damaged sequence or ACK number reads.
BadNumber == 999999

Damage(p, fate) ==
    CASE fate = "payload" -> [p EXCEPT !.payload.first = 90]
      [] fate = "seqnum"  -> [p EXCEPT !.seqnum = BadNumber]
      [] fate = "acknum"  -> [p EXCEPT !.acknum = BadNumber]
      [] OTHER            -> p
-----------------------------------------------------------------------------
(***************************************************************************)
(* struct event, and the list evlist of pending events in firing order.    *)
(***************************************************************************)
Event == [evtime : Nat, evtype : {TIMER_INTERRUPT, FROM_LAYER5, FROM_LAYER3},
          eventity : {A, B}, pkt : Pkt]

Ev(t, type, entity, p) ==
    [evtime |-> t, evtype |-> type, eventity |-> entity, pkt |-> p]

IsTimer(e, AorB) == e.evtype = TIMER_INTERRUPT /\ e.eventity = AorB

\* Mutant: >= for > in the search, so that equal times fire first in, first out.
InsertPos_after_equal(l, e) ==
    CHOOSE k \in 1..Len(l) + 1 :
        /\ \A i \in 1..k - 1 : e.evtime >= l[i].evtime
        /\ k <= Len(l) => e.evtime < l[k].evtime

\* An event is inserted in front of the first one that is not earlier, so of
\* two events with the same time the later inserted one fires first.
InsertPos(l, e) ==
    CHOOSE k \in 1..Len(l) + 1 :
        /\ \A i \in 1..k - 1 : e.evtime > l[i].evtime
        /\ k <= Len(l) => e.evtime <= l[k].evtime

insertevent(l, e) == InsertAt(l, InsertPos(l, e), e)

\* The first timer event of the entity is removed; without one the call
\* only prints a warning.
TimerPos(l, AorB) ==
    CHOOSE k \in 1..Len(l) :
        /\ IsTimer(l[k], AorB)
        /\ \A i \in 1..k - 1 : ~IsTimer(l[i], AorB)

TimerRunning(l, AorB) == \E i \in 1..Len(l) : IsTimer(l[i], AorB)

stoptimer(l, AorB) ==
    IF TimerRunning(l, AorB) THEN RemoveAt(l, TimerPos(l, AorB)) ELSE l

\* Mutant: the search for a running timer is left out.
starttimer_unchecked(l, AorB, increment) ==
    insertevent(l, Ev(increment, TIMER_INTERRUPT, AorB, ZeroPkt))

\* A second timer for the same entity is refused with a warning.
starttimer(l, AorB, increment) ==
    IF TimerRunning(l, AorB)
    THEN l
    ELSE insertevent(l, Ev(increment, TIMER_INTERRUPT, AorB, ZeroPkt))

Arrivals(l, entity) ==
    {i \in 1..Len(l) : l[i].evtype = FROM_LAYER3 /\ l[i].eventity = entity}

\* Mutant: the packets under way are not looked at.
LastTime_clock(l, entity) == 0

\* Arrival time of the last packet under way to the entity, else the clock.
LastTime(l, entity) ==
    IF Arrivals(l, entity) = {} THEN 0
    ELSE l[CHOOSE i \in Arrivals(l, entity) :
               \A j \in Arrivals(l, entity) : j <= i].evtime

\* The medium never reorders: a packet arrives after the ones under way.
tolayer3(l, AorB, p, fate, delay) ==
    LET other == (AorB + 1) % 2 IN
    IF fate = "lost" THEN l
    ELSE insertevent(l, Ev(LastTime(l, other) + delay, FROM_LAYER3, other,
                           Damage(p, fate)))

\* BIDIRECTIONAL is 0: every message from layer 5 is A's.
generate_next_arrival(l, gap) == insertevent(l, Ev(gap, FROM_LAYER5, A, ZeroPkt))

\* main() removes the first event and moves the clock to its time.
RemoveNext(l) ==
    [i \in 1..Len(l) - 1 |-> [l[i + 1] EXCEPT !.evtime = @ - l[1].evtime]]

NextIs(l, type, entity) ==
    /\ l # << >>
    /\ l[1].evtype = type
    /\ l[1].eventity = entity

\* The events are in firing order: no event fires before the clock's time.
Sorted(l) == \A i, j \in 1..Len(l) : i <= j => l[i].evtime <= l[j].evtime
=============================================================================
