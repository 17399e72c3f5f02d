------------------------------- MODULE RdtGbn -------------------------------
(***************************************************************************)
(* The Go-Back-N protocol of rdt_gbn.cpp: the sender A with its window and *)
(* buffer, the receiver B and the main loop of the emulator, one action    *)
(* per handler or branch of a handler.  Several packets may be under way   *)
(* at a time.                                                              *)
(***************************************************************************)
EXTENDS Emulator

CONSTANTS
    nsimmax,        \* messages layer 5 gives to A
    MaxGap,         \* longest time between two messages (2 * lambda in the code)
    TIMEOUT,        \* 20.0 in the code
    WIN_SIZE,       \* 4 in the code
    BUFF_SIZE,      \* 8 in the code
    MAX_SEQ,        \* 7 in the code
    Fates,          \* what lossprob and corruptprob let the medium do
    MaxEvents,      \* bound: no step is taken from a longer event list
    MaxDelivered    \* bound: no step is taken once B has delivered so many

ASSUME GbnAssumption ==
    /\ {nsimmax, WIN_SIZE, BUFF_SIZE, MAX_SEQ} \subseteq Nat \ {0}
    /\ {MaxGap, TIMEOUT, MaxEvents, MaxDelivered} \subseteq Nat
    /\ Fates \subseteq Fate

VARIABLES
    evlist,         \* pending events
    nsim,           \* messages layer 5 has given so far
    ACK,            \* the number B expects
    SEQ_NUM,        \* the number of A's next packet
    win_start,      \* first number of A's window
    buffer,         \* packets A may have to send (again)
    B_prev_ack,     \* what B answers to a corrupted or an early packet
    accepted,       \* history: the messages A took from layer 5
    delivered       \* history: what B gave to tolayer5

vars == <<evlist, nsim, ACK, SEQ_NUM, win_start, buffer, B_prev_ack,
          accepted, delivered>>

Gap == 0..MaxGap

\* The random draws of one call of tolayer3.
Draw == [fate : Fates, delay : Delay]
-----------------------------------------------------------------------------
init ==
    /\ \E gap \in Gap : evlist = generate_next_arrival(<< >>, gap)
    /\ nsim = 0

A_init == ACK = 0 /\ SEQ_NUM = 0

B_init == B_prev_ack = ZeroPkt /\ ACK = 0

Init ==
    /\ init
    /\ A_init
    /\ B_init
    /\ win_start = 0
    /\ buffer = << >>
    /\ accepted = << >>
    /\ delivered = << >>

\* The first event is of the type and for the entity, within the bounds.
Fires(type, entity) ==
    /\ NextIs(evlist, type, entity)
    /\ Len(evlist) <= MaxEvents
    /\ Len(delivered) < MaxDelivered

AfterArrival(gap) ==
    IF nsim + 1 < nsimmax
    THEN generate_next_arrival(RemoveNext(evlist), gap)
    ELSE RemoveNext(evlist)

InWindow == SEQ_NUM <= win_start + WIN_SIZE

\* Mutant: the sequence number does not wrap.
Packetize_no_wrap ==
    LET mypkt == MakePkt(SEQ_NUM, SEQ_NUM, Letter(nsim)) IN
    /\ buffer' = Append(buffer, mypkt)
    /\ SEQ_NUM' = SEQ_NUM + 1
    /\ accepted' = Append(accepted, mypkt.payload)

\* A packet of the next number is built and kept in the buffer.
Packetize ==
    LET mypkt == MakePkt(SEQ_NUM, SEQ_NUM, Letter(nsim)) IN
    /\ buffer' = Append(buffer, mypkt)
    /\ SEQ_NUM' = (SEQ_NUM + 1) % MAX_SEQ
    /\ accepted' = Append(accepted, mypkt.payload)

FromLayer5 ==
    /\ Fires(FROM_LAYER5, A)
    /\ nsim < nsimmax
    /\ nsim' = nsim + 1
    /\ UNCHANGED <<ACK, win_start, B_prev_ack, delivered>>

\* The number is within the window: the packet is sent.
A_output(gap, d) ==
    /\ FromLayer5
    /\ InWindow
    /\ Packetize
    /\ evlist' = starttimer(tolayer3(AfterArrival(gap), A,
                                     MakePkt(SEQ_NUM, SEQ_NUM, Letter(nsim)),
                                     d.fate, d.delay),
                            A, TIMEOUT)

\* The window is full: the packet waits in the buffer ...
A_output_saved(gap) ==
    /\ FromLayer5
    /\ ~InWindow
    /\ Len(buffer) < BUFF_SIZE
    /\ Packetize
    /\ evlist' = AfterArrival(gap)

\* ... and when that is full too the message is discarded.
A_output_full(gap) ==
    /\ FromLayer5
    /\ ~InWindow
    /\ Len(buffer) >= BUFF_SIZE
    /\ evlist' = AfterArrival(gap)
    /\ UNCHANGED <<SEQ_NUM, buffer, accepted>>

GoodChecksum == getchecksum(evlist[1].pkt) = evlist[1].pkt.checksum

\* Mutant: an ACK before the window is not ignored.
A_input_any ==
    /\ Fires(FROM_LAYER3, A)
    /\ GoodChecksum
    /\ win_start' = evlist[1].pkt.acknum + 1
    /\ evlist' = stoptimer(RemoveNext(evlist), A)
    /\ buffer' = SubSeq(buffer, 1, Len(buffer) - 1)
    /\ UNCHANGED <<nsim, ACK, SEQ_NUM, B_prev_ack, accepted, delivered>>

\* An ACK at or behind the start of the window: the window slides, the timer
\* stops and buffer.pop_back() removes the newest packet.
A_input ==
    /\ Fires(FROM_LAYER3, A)
    /\ GoodChecksum
    /\ evlist[1].pkt.acknum >= win_start
    /\ win_start' = evlist[1].pkt.acknum + 1
    /\ evlist' = stoptimer(RemoveNext(evlist), A)
    /\ buffer' = SubSeq(buffer, 1, Len(buffer) - 1)
    /\ UNCHANGED <<nsim, ACK, SEQ_NUM, B_prev_ack, accepted, delivered>>

\* A corrupted ACK, or one before the window, is dropped.
A_input_ignored ==
    /\ Fires(FROM_LAYER3, A)
    /\ GoodChecksum => evlist[1].pkt.acknum < win_start
    /\ evlist' = RemoveNext(evlist)
    /\ UNCHANGED <<nsim, ACK, SEQ_NUM, win_start, buffer, B_prev_ack,
                   accepted, delivered>>

\* One round of the loop over the buffer: of the calls of starttimer only the
\* first finds no timer running.
Resend(l, p, d) == tolayer3(starttimer(l, A, TIMEOUT), A, p, d.fate, d.delay)

\* The loop goes over the first WIN_SIZE packets of the buffer.
Resent(draws) ==
    LET n == IF Len(buffer) < WIN_SIZE THEN Len(buffer) ELSE WIN_SIZE
        resent[i \in 0..n] ==
            IF i = 0 THEN RemoveNext(evlist)
                     ELSE Resend(resent[i - 1], buffer[i], draws[i])
    IN  resent[n]

A_timerinterrupt(draws) ==
    /\ Fires(TIMER_INTERRUPT, A)
    /\ evlist' = Resent(draws)
    /\ UNCHANGED <<nsim, ACK, SEQ_NUM, win_start, buffer, B_prev_ack,
                   accepted, delivered>>

\* Mutant: the number after the expected one is taken too.
B_input_ahead(g, d) ==
    LET packet == evlist[1].pkt
        ackpkt == AckPkt(packet, g)
    IN
    /\ Fires(FROM_LAYER3, B)
    /\ GoodChecksum
    /\ packet.acknum <= ACK + 1
    /\ evlist' = tolayer3(RemoveNext(evlist), B, ackpkt, d.fate, d.delay)
    /\ delivered' = Append(delivered, packet.payload)
    /\ B_prev_ack' = ackpkt
    /\ ACK' = (ACK + 1) % MAX_SEQ
    /\ UNCHANGED <<nsim, SEQ_NUM, win_start, buffer, accepted>>

\* B takes every number up to the expected one.
B_input(g, d) ==
    LET packet == evlist[1].pkt
        ackpkt == AckPkt(packet, g)
    IN
    /\ Fires(FROM_LAYER3, B)
    /\ GoodChecksum
    /\ packet.acknum <= ACK
    /\ evlist' = tolayer3(RemoveNext(evlist), B, ackpkt, d.fate, d.delay)
    /\ delivered' = Append(delivered, packet.payload)
    /\ B_prev_ack' = ackpkt
    /\ ACK' = (ACK + 1) % MAX_SEQ
    /\ UNCHANGED <<nsim, SEQ_NUM, win_start, buffer, accepted>>

\* Mutant: the packet that is refused is acknowledged.
B_input_nak_acks(d) ==
    /\ Fires(FROM_LAYER3, B)
    /\ GoodChecksum => evlist[1].pkt.acknum > ACK
    /\ \E g \in Garbage :
         evlist' = tolayer3(RemoveNext(evlist), B, AckPkt(evlist[1].pkt, g), d.fate, d.delay)
    /\ UNCHANGED <<nsim, ACK, SEQ_NUM, win_start, buffer, B_prev_ack,
                   accepted, delivered>>

\* A corrupted packet, or a number ahead of the expected one, is answered
\* with the previous ACK.
B_input_nak(d) ==
    /\ Fires(FROM_LAYER3, B)
    /\ GoodChecksum => evlist[1].pkt.acknum > ACK
    /\ evlist' = tolayer3(RemoveNext(evlist), B, B_prev_ack, d.fate, d.delay)
    /\ UNCHANGED <<nsim, ACK, SEQ_NUM, win_start, buffer, B_prev_ack,
                   accepted, delivered>>

Next ==
    \/ \E gap \in Gap, d \in Draw : A_output(gap, d)
    \/ \E gap \in Gap : A_output_saved(gap)
    \/ \E gap \in Gap : A_output_full(gap)
    \/ A_input
    \/ A_input_ignored
    \/ \E draws \in [1..WIN_SIZE -> Draw] : A_timerinterrupt(draws)
    \/ \E g \in Garbage, d \in Draw : B_input(g, d)
    \/ \E d \in Draw : B_input_nak(d)

Spec == Init /\ [][Next]_vars
-----------------------------------------------------------------------------
Letters == {Letter(n) : n \in 0..25}

TypeOK ==
    /\ evlist \in Seq(Event)
    /\ nsim \in 0..nsimmax
    /\ ACK \in 0..MAX_SEQ - 1
    /\ SEQ_NUM \in 0..MAX_SEQ - 1
    /\ win_start \in 0..MAX_SEQ
    /\ buffer \in Seq(Pkt)
    /\ B_prev_ack \in Pkt
    /\ accepted \in Seq(Letters)
    /\ delivered \in Seq(Letters)

\* The packets on their way to the entity, in the order of their arrival.
InTransit(l, x) ==
    LET picked[n \in 0..Len(l)] ==
            IF n = 0 THEN << >>
            ELSE IF n \in Arrivals(l, x) THEN Append(picked[n - 1], l[n].pkt)
            ELSE picked[n - 1]
    IN  picked[Len(l)]

(***************************************************************************)
(* The medium is first in, first out for each direction, however delays    *)
(* are drawn ("packets will be delivered in the order in which they were   *)
(* sent"): tolayer3 puts a packet behind all that travel the same way, and *)
(* a packet leaves only from the front, when its arrival is processed.     *)
(***************************************************************************)
FifoMedium ==
    [][\A x \in {A, B} :
          IsPrefix(IF NextIs(evlist, FROM_LAYER3, x) THEN Tail(InTransit(evlist, x))
                                                     ELSE InTransit(evlist, x),
                   InTransit(evlist', x))]_vars

(***************************************************************************)
(* A_timerinterrupt calls starttimer once per packet and A_output starts   *)
(* the timer that may run already; there is still at most one timer event, *)
(* and events are processed in the order of time.  Until the first ACK     *)
(* slides the window (and stops the timer all packets share) A never waits *)
(* without one, however often it has fired and whatever was lost.          *)
(***************************************************************************)
OneTimer ==
    /\ Sorted(evlist)
    /\ \A i, j \in 1..Len(evlist) :
           IsTimer(evlist[i], A) /\ IsTimer(evlist[j], A) => i = j
    /\ win_start = 0 /\ buffer # << >> => TimerRunning(evlist, A)

(***************************************************************************)
(* buffer.pop_back() in A_input is undefined on an empty vector.  An ACK   *)
(* that slides the window always finds a packet in the buffer.             *)
(***************************************************************************)
PopSafe ==
    /\ NextIs(evlist, FROM_LAYER3, A)
    /\ GoodChecksum
    /\ evlist[1].pkt.acknum >= win_start
    => buffer # << >>

(***************************************************************************)
(* Whatever the medium does, B_input gives layer 5 only messages that A    *)
(* accepted, undamaged: the checksum catches every corruption.             *)
(***************************************************************************)
DeliveredWasAccepted == ToSet(delivered) \subseteq ToSet(accepted)

NoRepeats(s) == \A i, j \in 1..Len(s) : s[i] = s[j] => i = j

(***************************************************************************)
(* Order is lost only by repetition: as long as the numbers have not       *)
(* wrapped and B_input has given layer 5 no message twice, layer 5 has the *)
(* accepted messages in order and without a gap, although the test         *)
(* acknum <= ACK lets older numbers pass and ACK counts whatever does.     *)
(***************************************************************************)
OrderedUntilRepeat ==
    Len(accepted) <= MAX_SEQ /\ NoRepeats(delivered) => IsPrefix(delivered, accepted)

(***************************************************************************)
(* The ACK that moved the window to where it is was sent for a message of  *)
(* that number which B had delivered.  Number 0 is the exception: B_init   *)
(* leaves B_prev_ack zeroed, and as the answer to a damaged first packet   *)
(* it acknowledges message 0 before anything was delivered, but never one  *)
(* that was not sent.                                                      *)
(***************************************************************************)
AckNamesDelivered ==
    /\ win_start <= Len(accepted)
    /\ win_start > 1 =>
           \E i \in 1..Len(accepted) :
               /\ (i - 1) % MAX_SEQ = win_start - 1
               /\ accepted[i] \in ToSet(delivered)

-----------------------------------------------------------------------------
(***************************************************************************)
(* The inductive invariant.                                                *)
(***************************************************************************)
Number(i) == (i - 1) % MAX_SEQ

\* What A has built: the i-th message it accepted under the i-th number.
Packets == {MakePkt(Number(i), Number(i), accepted[i]) : i \in 1..Len(accepted)}

\* What B may answer: the zeroed packet it starts with, and the ACK of a
\* packet whose message it has delivered.
Acks ==
    {ZeroPkt} \cup
    {AckPkt(p, g) : p \in {q \in Packets : q.payload \in ToSet(delivered)}, g \in Garbage}

\* A packet of the medium is one of these, perhaps damaged, and B answers only
\* what A has sent.
Medium(l) ==
    \A i \in 1..Len(l) : l[i].evtype = FROM_LAYER3 =>
        /\ accepted # << >>
        /\ \E p \in IF l[i].eventity = B THEN Packets ELSE Acks, fate \in Fate :
               l[i].pkt = Damage(p, fate)

\* Every ACK that slides the window moves it by at least the one packet that
\* pop_back() removes, so the buffer lacks no more packets than that.
Counts ==
    /\ SEQ_NUM = Len(accepted) % MAX_SEQ
    /\ ACK = Len(delivered) % MAX_SEQ
    /\ Len(accepted) <= Len(buffer) + win_start

GbnInv ==
    /\ TypeOK
    /\ OneTimer
    /\ Medium(evlist)
    /\ ToSet(buffer) \subseteq Packets
    /\ B_prev_ack \in Acks
    /\ Counts
    /\ DeliveredWasAccepted
    /\ OrderedUntilRepeat
    /\ AckNamesDelivered
-----------------------------------------------------------------------------
(***************************************************************************)
(* Delivery in order: of two messages given to layer 5 the one given first *)
(* was accepted first, so that none is given twice (run gbn_wrap has fewer *)
(* messages than letters).  The assignment's words for A_output: insure    *)
(* that the data is delivered in-order, and correctly.                     *)
(***************************************************************************)
DeliveredInOrder ==
    \A i, j \in 1..Len(delivered) : i < j =>
        \E k, l \in 1..Len(accepted) :
            k < l /\ accepted[k] = delivered[i] /\ accepted[l] = delivered[j]
=============================================================================
