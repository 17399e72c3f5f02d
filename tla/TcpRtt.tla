------------------------------- MODULE TcpRtt -------------------------------
(***************************************************************************)
(* The round-trip estimator of TcpAgent with the change of this repository *)
(* (marked "Mod SPC" in tcp.cc): a sample that lies more than three mean   *)
(* deviations from the estimate replaces the estimate.  Times are counted  *)
(* in ticks (tcp_tick_), and the configuration is ns-2's default one:      *)
(* rttvar_exp_ = 2, srtt_init_ = 0, rfc2988_ true, no time-stamp option    *)
(* and no ECN, so that ect_ is never set and the test around the end of    *)
(* the backoff in newack is always true.                                   *)
(***************************************************************************)
EXTENDS Integers

CONSTANTS
  MaxRtt,       \* bound on the round-trip times of the network, in ticks
  RttvarInit,   \* rttvar_init_ / tcp_tick_
  RtxcurInit,   \* rtxcur_init_
  minrto, maxrto,
  HalfShort     \* half the number of values of a short, 2^15 in the code

ASSUME RttAssumption ==
  /\ MaxRtt \in Nat \ {0} /\ RttvarInit \in Nat \ {0}
  /\ RtxcurInit \in Nat \ {0} /\ minrto \in Nat \ {0} /\ maxrto \in Nat
  /\ minrto <= maxrto /\ 2 <= maxrto
  /\ HalfShort \in Nat \ {0}

\* rtt_update computes with the difference of two round-trip times in a short.
\* The properties are about networks whose round trips fit one: at ns-2's
\* tick of 10 ms those of less than 327 seconds.  Beyond them delta wraps, and
\* neither the deviation nor the retransmit value stays bounded.  The other two
\* limits keep t_rttvar and t_backoff, which grows to twice maxrto, in an int.
ASSUME Widths ==
  /\ MaxRtt < HalfShort
  /\ maxrto < HalfShort * HalfShort /\ 2 * RttvarInit < HalfShort * HalfShort

VARIABLES
  rtt,       \* the round-trip time of the network now
  t_rtt,     \* the latest sample
  t_srtt,    \* 8 times the smoothed round-trip time
  t_rttvar,  \* 4 times its mean deviation
  t_rtxcur,  \* the retransmit value computed from them
  t_backoff  \* the factor by which timeouts have stretched it

vars == <<rtt, t_rtt, t_srtt, t_rttvar, t_rtxcur, t_backoff>>

Abs(x) == IF x < 0 THEN -x ELSE x
Larger(a, b) == IF a < b THEN b ELSE a
Smaller(a, b) == IF a < b THEN a ELSE b

\* What a short keeps of an int.
Short(x) == ((x + HalfShort) % (2 * HalfShort)) - HalfShort

\* x >> 3 and x >> 2 of a number that is not negative.
Srtt(s) == s \div 8
Rttvar(v) == v \div 4

-----------------------------------------------------------------------------
(* rtt_timeout: the time the retransmit timer is set to.  A value below    *)
(* minrto is raised before the backoff is applied, one below two ticks     *)
(* after it.                                                               *)
Clamped(cur, backoff) ==
  Larger(2, Smaller(maxrto, Larger(cur, minrto) * backoff))

rtt_timeout == Clamped(t_rtxcur, t_backoff)

\* The test of the change: diff > 3*(t_rttvar_*tcp_tick_/4), over the reals.
Outlier(m, s, v) == 4 * Abs(m - Srtt(s)) > 3 * v

\* srtt = rtt, rttvar = rtt / 2.
Restarted(m) == [srtt |-> 8 * m, rttvar |-> 2 * m]

\* Mutant: the deviation takes the signed difference.
Smoothed_signed(m, s, v) ==
  LET d == Short(m - Srtt(s))
      s1 == s + d
      v1 == v + Short(d - Rttvar(v))
  IN [srtt   |-> IF s1 <= 0 THEN 1 ELSE s1,
      rttvar |-> IF v1 <= 0 THEN 1 ELSE v1]

\* Mutant: the deviation is not updated.
Smoothed_sticky(m, s, v) ==
  LET s1 == s + Short(m - Srtt(s))
  IN [srtt |-> IF s1 <= 0 THEN 1 ELSE s1, rttvar |-> v]

\* a1 = 7/8 a0 + 1/8 m and var1 = 3/4 var0 + 1/4 |d|, in scaled integers; each
\* value of delta goes through a short.
Smoothed(m, s, v) ==
  LET d == Short(m - Srtt(s))
      s1 == s + d
      v1 == v + Short(Short(Abs(d)) - Rttvar(v))
  IN [srtt   |-> IF s1 <= 0 THEN 1 ELSE s1,
      rttvar |-> IF v1 <= 0 THEN 1 ELSE v1]

Estimate(m, s, v) ==
  IF Outlier(m, s, v) \/ s = 0 THEN Restarted(m) ELSE Smoothed(m, s, v)

\* Mutants: the deviation is shifted too little, and too far.
Rtxcur_narrow(s, v) == (v + s) \div 8
Rtxcur_wide(s, v) == (16 * v + s) \div 8

\* ((t_rttvar_ << (rttvar_exp_ + 1)) + t_srtt_) >> 3
Rtxcur(s, v) == (8 * v + s) \div 8

\* Mutant: a sample of less than one tick counts as none.
rtt_update_zero(tao) ==
  LET e == Estimate(tao, t_srtt, t_rttvar)
  IN /\ t_rtt' = tao
     /\ t_srtt' = e.srtt /\ t_rttvar' = e.rttvar
     /\ t_rtxcur' = Rtxcur(e.srtt, e.rttvar)

rtt_update(tao) ==
  LET m == Larger(tao, 1)
      e == Estimate(m, t_srtt, t_rttvar)
  IN /\ t_rtt' = m
     /\ t_srtt' = e.srtt /\ t_rttvar' = e.rttvar
     /\ t_rtxcur' = Rtxcur(e.srtt, e.rttvar)

-----------------------------------------------------------------------------
Init ==
  /\ rtt \in 0..MaxRtt
  /\ t_rtt = 0 /\ t_srtt = 0 /\ t_rttvar = 4 * RttvarInit
  /\ t_rtxcur = RtxcurInit /\ t_backoff = 1

\* The network takes another round-trip time.
Change ==
  /\ rtt' \in 0..MaxRtt
  /\ UNCHANGED <<t_rtt, t_srtt, t_rttvar, t_rtxcur, t_backoff>>

\* newack for the packet that is being timed: the backoff ends.
NewAck ==
  /\ t_backoff' = 1
  /\ rtt_update(rtt)
  /\ UNCHANGED rtt

\* timeout calls reset_rtx_timer(0, 1), which calls rtt_backoff.
Timeout ==
  /\ t_backoff' = IF t_backoff < 64 \/ rtt_timeout < maxrto THEN 2 * t_backoff ELSE t_backoff
  /\ t_rttvar' = IF t_backoff' > 8 THEN t_rttvar + Srtt(t_srtt) ELSE t_rttvar
  /\ t_srtt' = IF t_backoff' > 8 THEN 0 ELSE t_srtt
  /\ UNCHANGED <<rtt, t_rtt, t_rtxcur>>

Next == Change \/ NewAck \/ Timeout

Spec == Init /\ [][Next]_vars /\ WF_vars(NewAck)

-----------------------------------------------------------------------------
(* Properties.                                                             *)

\* The scaled values stay positive integers: the guards against <= 0 of lines
\* 623 and 628 and the clobbering of rtt_backoff leave nothing else.
TypeOK ==
  /\ t_rtt \in 0..Larger(MaxRtt, 1) /\ t_srtt \in Nat /\ t_rttvar \in Nat \ {0}
  /\ t_rtxcur \in Nat \ {0} /\ t_backoff \in Nat \ {0}

\* In spite of all truncation (lines 623-640) the retransmit value is longer
\* than the round trip just measured, whichever branch rtt_update took.
TimerCoversSample == t_rtt # 0 => t_rtxcur > t_rtt

\* One sample is never an outlier twice: after rtt_update (lines 614-634) the
\* same round trip measured again is smoothed in, so an estimate is replaced
\* only when the network has changed.
NoRepeatedRestart ==
  t_srtt # 0 => ~Outlier(t_rtt, t_srtt, t_rttvar)

\* The timer never runs away: whatever the order of the samples, the retransmit
\* value stays within four times the longest round trip the network can have.
TimerBounded == t_rtt # 0 => t_rtxcur <= 4 * Larger(MaxRtt, 1)

\* What holds an estimate within bounds, for round-trip times of 1..M: a high
\* deviation takes samples on the far side of the estimate, which pull it
\* towards them and so leave less room for the next.  A bound of the deviation
\* alone would only last at about 4 * M, too high for TimerBounded.
WithinBounds(s, v, M) ==
  /\ 8 <= s /\ s <= 8 * M
  /\ 2 * v + s <= 12 * M + 4
  /\ 2 * v + 8 <= s + 4 * M
  /\ 8 * v + s <= 32 * M + 4

\* The inductive invariant.
RttInv ==
  /\ TypeOK
  /\ rtt \in 0..MaxRtt
  /\ TimerCoversSample
  /\ NoRepeatedRestart
  /\ TimerBounded
  /\ t_srtt # 0 => WithinBounds(t_srtt, t_rttvar, Larger(MaxRtt, 1))

\* When the network stays with one round-trip time, and no more than three
\* timeouts come in a row, the estimate reaches it and the retransmit value
\* comes to within three ticks of it.
Settles ==
  <>[][rtt' = rtt]_vars /\ <>[](t_backoff <= 8)
     => <>[](Srtt(t_srtt) = Larger(rtt, 1) /\ t_rtxcur - Larger(rtt, 1) \in 1..3)
=============================================================================
