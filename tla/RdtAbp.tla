------------------------------- MODULE RdtAbp -------------------------------
(***************************************************************************)
(* The alternating-bit protocol of rdt_abp.c: the sender A, the receiver B *)
(* and the main loop of the emulator that runs them, one action per        *)
(* handler.  A step takes the first event off the list and runs the whole  *)
(* handler, the calls into the emulator included.                          *)
(***************************************************************************)
EXTENDS Emulator

CONSTANTS
    nsimmax,    \* messages layer 5 gives to A
    MaxGap,     \* longest time between two messages (2 * lambda in the code)
    TIMEOUT     \* 20.0 in the code

ASSUME NsimmaxAssumption == nsimmax \in Nat \ {0}
ASSUME MaxGapAssumption  == MaxGap \in Nat

\* The timer outlasts a round trip: 20.0 against twice the delay of 10.
ASSUME TimeoutAssumption == TIMEOUT \in Nat /\ 2 * MaxDelay <= TIMEOUT

VARIABLES
    evlist,         \* pending events
    nsim,           \* messages layer 5 has given so far
    ACK,            \* written into acknum, flipped at A
    SEQ_NUM,        \* one global: read by A, flipped by B
    A_STATE,
    A_prev_packet,  \* what A sends again on a timeout
    B_prev_ack,     \* what B sends again for a duplicate
    accepted,       \* history: the messages A took from layer 5
    delivered       \* history: what B gave to tolayer5

vars == <<evlist, nsim, ACK, SEQ_NUM, A_STATE, A_prev_packet, B_prev_ack,
          accepted, delivered>>

WAIT_ACK  == "WAIT_ACK"
SEND_PCKT == "SEND_PCKT"

Gap == 0..MaxGap

Flip(b) == IF b = 0 THEN 1 ELSE 0
-----------------------------------------------------------------------------
init ==
    /\ \E gap \in Gap : evlist = generate_next_arrival(<< >>, gap)
    /\ nsim = 0

A_init ==
    /\ ACK = 0
    /\ SEQ_NUM = 0
    /\ A_STATE = SEND_PCKT

B_init == B_prev_ack = [ZeroPkt EXCEPT !.seqnum = 1]

Init ==
    /\ init
    /\ A_init
    /\ B_init
    /\ A_prev_packet = ZeroPkt
    /\ accepted = << >>
    /\ delivered = << >>

\* The event list as main() leaves it for A_output: the message's own event
\* is gone and the next arrival is scheduled.
AfterArrival(gap) ==
    IF nsim + 1 < nsimmax
    THEN generate_next_arrival(RemoveNext(evlist), gap)
    ELSE RemoveNext(evlist)

\* Mutant: the timer is not started.
A_output_no_timer(gap, fate, delay) ==
    LET mypkt == MakePkt(SEQ_NUM, ACK, Letter(nsim)) IN
    /\ NextIs(evlist, FROM_LAYER5, A)
    /\ nsim < nsimmax
    /\ A_STATE = SEND_PCKT
    /\ nsim' = nsim + 1
    /\ A_prev_packet' = mypkt
    /\ A_STATE' = WAIT_ACK
    /\ evlist' = tolayer3(AfterArrival(gap), A, mypkt, fate, delay)
    /\ accepted' = Append(accepted, mypkt.payload)
    /\ UNCHANGED <<ACK, SEQ_NUM, B_prev_ack, delivered>>

\* Layer 5 has a message and A is free to send it.
A_output(gap, fate, delay) ==
    LET mypkt == MakePkt(SEQ_NUM, ACK, Letter(nsim)) IN
    /\ NextIs(evlist, FROM_LAYER5, A)
    /\ nsim < nsimmax
    /\ A_STATE = SEND_PCKT
    /\ nsim' = nsim + 1
    /\ A_prev_packet' = mypkt
    /\ A_STATE' = WAIT_ACK
    /\ evlist' = starttimer(tolayer3(AfterArrival(gap), A, mypkt, fate, delay),
                            A, TIMEOUT)
    /\ accepted' = Append(accepted, mypkt.payload)
    /\ UNCHANGED <<ACK, SEQ_NUM, B_prev_ack, delivered>>

\* Layer 5 has a message while A waits for an ACK: the message is dropped.
A_output_waiting(gap) ==
    /\ NextIs(evlist, FROM_LAYER5, A)
    /\ nsim < nsimmax
    /\ A_STATE = WAIT_ACK
    /\ nsim' = nsim + 1
    /\ evlist' = AfterArrival(gap)
    /\ UNCHANGED <<ACK, SEQ_NUM, A_STATE, A_prev_packet, B_prev_ack,
                   accepted, delivered>>

\* Mutant: the timer keeps running.
A_input_no_stoptimer ==
    /\ NextIs(evlist, FROM_LAYER3, A)
    /\ getchecksum(evlist[1].pkt) = evlist[1].pkt.checksum
    /\ ACK' = Flip(ACK)
    /\ evlist' = RemoveNext(evlist)
    /\ A_STATE' = SEND_PCKT
    /\ UNCHANGED <<nsim, SEQ_NUM, A_prev_packet, B_prev_ack, accepted, delivered>>

\* Any packet with a good checksum counts as the ACK that A waits for.
A_input ==
    /\ NextIs(evlist, FROM_LAYER3, A)
    /\ getchecksum(evlist[1].pkt) = evlist[1].pkt.checksum
    /\ ACK' = Flip(ACK)
    /\ evlist' = stoptimer(RemoveNext(evlist), A)
    /\ A_STATE' = SEND_PCKT
    /\ UNCHANGED <<nsim, SEQ_NUM, A_prev_packet, B_prev_ack, accepted, delivered>>

A_input_corrupted ==
    /\ NextIs(evlist, FROM_LAYER3, A)
    /\ getchecksum(evlist[1].pkt) # evlist[1].pkt.checksum
    /\ evlist' = RemoveNext(evlist)
    /\ UNCHANGED <<nsim, ACK, SEQ_NUM, A_STATE, A_prev_packet, B_prev_ack,
                   accepted, delivered>>

\* The timer is restarted first; nothing is sent unless A is waiting.
A_timerinterrupt(fate, delay) ==
    LET restarted == starttimer(RemoveNext(evlist), A, TIMEOUT) IN
    /\ NextIs(evlist, TIMER_INTERRUPT, A)
    /\ evlist' = IF A_STATE = WAIT_ACK
                 THEN tolayer3(restarted, A, A_prev_packet, fate, delay)
                 ELSE restarted
    /\ UNCHANGED <<nsim, ACK, SEQ_NUM, A_STATE, A_prev_packet, B_prev_ack,
                   accepted, delivered>>

\* Mutant: a duplicate is not answered.
B_input_duplicate_silent(fate, delay) ==
    /\ NextIs(evlist, FROM_LAYER3, B)
    /\ evlist[1].pkt.seqnum = B_prev_ack.seqnum
    /\ evlist' = RemoveNext(evlist)
    /\ UNCHANGED <<nsim, ACK, SEQ_NUM, A_STATE, A_prev_packet, B_prev_ack,
                   accepted, delivered>>

\* B compares the sequence number before it looks at the checksum.
B_input_duplicate(fate, delay) ==
    /\ NextIs(evlist, FROM_LAYER3, B)
    /\ evlist[1].pkt.seqnum = B_prev_ack.seqnum
    /\ evlist' = tolayer3(RemoveNext(evlist), B, B_prev_ack, fate, delay)
    /\ UNCHANGED <<nsim, ACK, SEQ_NUM, A_STATE, A_prev_packet, B_prev_ack,
                   accepted, delivered>>

\* Mutant: the number B expects next is not flipped.
B_input_no_flip(g, fate, delay) ==
    LET packet == evlist[1].pkt
        ackpkt == AckPkt(packet, g)
    IN
    /\ NextIs(evlist, FROM_LAYER3, B)
    /\ packet.seqnum # B_prev_ack.seqnum
    /\ getchecksum(packet) = packet.checksum
    /\ evlist' = tolayer3(RemoveNext(evlist), B, ackpkt, fate, delay)
    /\ delivered' = Append(delivered, packet.payload)
    /\ B_prev_ack' = ackpkt
    /\ UNCHANGED <<nsim, ACK, SEQ_NUM, A_STATE, A_prev_packet, accepted>>

B_input(g, fate, delay) ==
    LET packet == evlist[1].pkt
        ackpkt == AckPkt(packet, g)
    IN
    /\ NextIs(evlist, FROM_LAYER3, B)
    /\ packet.seqnum # B_prev_ack.seqnum
    /\ getchecksum(packet) = packet.checksum
    /\ evlist' = tolayer3(RemoveNext(evlist), B, ackpkt, fate, delay)
    /\ delivered' = Append(delivered, packet.payload)
    /\ B_prev_ack' = ackpkt
    /\ SEQ_NUM' = Flip(SEQ_NUM)
    /\ UNCHANGED <<nsim, ACK, A_STATE, A_prev_packet, accepted>>

\* Mutant: a corrupted packet is answered with the previous ACK.
B_input_corrupted_nak ==
    /\ NextIs(evlist, FROM_LAYER3, B)
    /\ evlist[1].pkt.seqnum # B_prev_ack.seqnum
    /\ getchecksum(evlist[1].pkt) # evlist[1].pkt.checksum
    /\ evlist' = tolayer3(RemoveNext(evlist), B, B_prev_ack, "intact", 1)
    /\ UNCHANGED <<nsim, ACK, SEQ_NUM, A_STATE, A_prev_packet, B_prev_ack,
                   accepted, delivered>>

B_input_corrupted ==
    /\ NextIs(evlist, FROM_LAYER3, B)
    /\ evlist[1].pkt.seqnum # B_prev_ack.seqnum
    /\ getchecksum(evlist[1].pkt) # evlist[1].pkt.checksum
    /\ evlist' = RemoveNext(evlist)
    /\ UNCHANGED <<nsim, ACK, SEQ_NUM, A_STATE, A_prev_packet, B_prev_ack,
                   accepted, delivered>>

Next ==
    \/ \E gap \in Gap, fate \in Fate, delay \in Delay : A_output(gap, fate, delay)
    \/ \E gap \in Gap : A_output_waiting(gap)
    \/ A_input
    \/ A_input_corrupted
    \/ \E fate \in Fate, delay \in Delay : A_timerinterrupt(fate, delay)
    \/ \E fate \in Fate, delay \in Delay : B_input_duplicate(fate, delay)
    \/ \E g \in Garbage, fate \in Fate, delay \in Delay : B_input(g, fate, delay)
    \/ B_input_corrupted

Spec == Init /\ [][Next]_vars

(***************************************************************************)
(* The main loop runs until the list is empty.  lossprob and corruptprob   *)
(* are below 1 and every packet draws anew, so a packet that is sent again *)
(* and again, or answered again and again, gets through in the end.        *)
(***************************************************************************)
Resend == \E delay \in Delay : A_timerinterrupt("intact", delay)

Reply ==
    \E delay \in Delay :
        \/ B_input_duplicate("intact", delay)
        \/ \E g \in Garbage : B_input(g, "intact", delay)

Fairness == WF_vars(Next) /\ SF_vars(Resend) /\ SF_vars(Reply)

FairSpec == Spec /\ Fairness
-----------------------------------------------------------------------------
Letters == {Letter(n) : n \in 0..25}

TypeOK ==
    /\ evlist \in Seq(Event)
    /\ nsim \in 0..nsimmax
    /\ ACK \in {0, 1}
    /\ SEQ_NUM \in {0, 1}
    /\ A_STATE \in {WAIT_ACK, SEND_PCKT}
    /\ A_prev_packet \in Pkt
    /\ B_prev_ack \in Pkt
    /\ accepted \in Seq(Letters)
    /\ delivered \in Seq(Letters)

InFlight(i) == evlist[i].evtype = FROM_LAYER3

(***************************************************************************)
(* A_output, A_input and A_timerinterrupt keep the timer and A_STATE in    *)
(* step: A waits for an ACK exactly while its timer runs.  So a lost       *)
(* packet is always sent again, the timer never goes off while A is idle   *)
(* ("Interrupt before sending packet") and starttimer never finds an old   *)
(* timer that would cut the next wait short.                               *)
(***************************************************************************)
TimerIffWaiting == A_STATE = WAIT_ACK <=> TimerRunning(evlist, A)

(***************************************************************************)
(* When A_timerinterrupt is about to send again, the medium is empty:      *)
(* neither the packet nor its ACK is still under way.  A_input relies on   *)
(* this, for it takes any ACK as the one it waits for.                     *)
(***************************************************************************)
NoPrematureTimeout ==
    NextIs(evlist, TIMER_INTERRUPT, A) => \A i \in 1..Len(evlist) : ~InFlight(i)

(***************************************************************************)
(* When A_input has freed A for the next message, B has given every        *)
(* message A accepted to layer 5, and no stale packet can meet the next    *)
(* one in the medium.                                                      *)
(***************************************************************************)
IdleMeansDelivered ==
    A_STATE = SEND_PCKT =>
        /\ delivered = accepted
        /\ \A i \in 1..Len(evlist) : ~InFlight(i)

(***************************************************************************)
(* A and B share the variable SEQ_NUM.  B flips it before A has the ACK,   *)
(* and still A_output never sends a new message under the number B would   *)
(* take for a duplicate.                                                   *)
(***************************************************************************)
NextIsNotDuplicate == A_STATE = SEND_PCKT => SEQ_NUM # B_prev_ack.seqnum

\* The protocol implements StopAndWait: every message A_output accepts is
\* given to layer 5 by B_input exactly once and in order.
SW == INSTANCE StopAndWait WITH Data <- Letters

StopAndWaitSafety == SW!Spec

\* Under FairSpec B delivers every accepted message in the end ...
StopAndWaitDelivery == SW!FairSpec

\* ... and main() leaves its loop: the event list runs empty, with all
\* messages taken from layer 5.
Terminates == <>(evlist = << >> /\ nsim = nsimmax)
-----------------------------------------------------------------------------
(***************************************************************************)
(* The inductive invariant.                                                *)
(***************************************************************************)
\* At most one timer, one message and one packet are pending at any time.
OnePerType(l) == \A i, j \in 1..Len(l) : l[i].evtype = l[j].evtype => i = j

OnlyPacketsToB(l) == \A i \in 1..Len(l) : l[i].evtype # FROM_LAYER3 => l[i].eventity = A

\* A packet comes before the timer, and one on its way to B leaves the ACK
\* time to come back before it.
RoundTrip(l) ==
    \A i, j \in 1..Len(l) :
        l[i].evtype = FROM_LAYER3 /\ l[j].evtype = TIMER_INTERRUPT =>
            /\ i < j
            /\ l[i].eventity = B => l[i].evtime + MaxDelay <= l[j].evtime

WellFormed(l) ==
    /\ l \in Seq(Event)
    /\ Sorted(l)
    /\ OnePerType(l)
    /\ OnlyPacketsToB(l)
    /\ RoundTrip(l)

\* Only a waiting A has a packet in the medium: its last one, perhaps
\* damaged, or the ACK of a delivered one.
Medium ==
    \A i \in 1..Len(evlist) :
        InFlight(i) =>
            /\ A_STATE = WAIT_ACK
            /\ evlist[i].eventity = B =>
                   \E fate \in Fate : evlist[i].pkt = Damage(A_prev_packet, fate)
            /\ evlist[i].eventity = A => delivered = accepted

Alternation == B_prev_ack.seqnum = Flip(SEQ_NUM)

\* What A has sent is new to B or has just been delivered.
Outstanding ==
    A_STATE = WAIT_ACK =>
        /\ A_prev_packet.seqnum \in {0, 1}
        /\ A_prev_packet.acknum \in {0, 1}
        /\ A_prev_packet.payload \in Letters
        /\ A_prev_packet.checksum = getchecksum(A_prev_packet)
        /\ accepted = IF A_prev_packet.seqnum = SEQ_NUM
                      THEN Append(delivered, A_prev_packet.payload)
                      ELSE delivered

IInv ==
    /\ TypeOK
    /\ WellFormed(evlist)
    /\ TimerIffWaiting
    /\ Medium
    /\ Alternation
    /\ Outstanding
    /\ A_STATE = SEND_PCKT => delivered = accepted
=============================================================================
