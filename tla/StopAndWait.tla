----------------------------- MODULE StopAndWait -----------------------------
(***************************************************************************)
(* What the alternating-bit protocol of rdt_abp.c promises its two layer-5 *)
(* users, with no packets, timers or sequence numbers in sight: a message  *)
(* is accepted only when every earlier one has been delivered, and what is *)
(* delivered is the accepted messages, each once and in order.             *)
(***************************************************************************)
EXTENDS Naturals, Sequences

CONSTANT Data

VARIABLES accepted, delivered

Init == accepted = << >> /\ delivered = << >>

Accept ==
    /\ accepted = delivered
    /\ \E d \in Data : accepted' = Append(accepted, d)
    /\ UNCHANGED delivered

Deliver ==
    /\ Len(delivered) < Len(accepted)
    /\ delivered' = Append(delivered, accepted[Len(delivered) + 1])
    /\ UNCHANGED accepted

Next == Accept \/ Deliver

Spec == Init /\ [][Next]_<<accepted, delivered>>

FairSpec == Spec /\ WF_<<accepted, delivered>>(Deliver)
=============================================================================
