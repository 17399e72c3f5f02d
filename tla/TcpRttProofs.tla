---------------------------- MODULE TcpRttProofs ----------------------------
(***************************************************************************)
(* What the round-trip estimator of TcpRtt keeps for every round-trip time *)
(* that fits a short and every configuration: the scaled values stay       *)
(* positive, the timer covers the latest sample, and no sample is an       *)
(* outlier twice.                                                          *)
(***************************************************************************)
EXTENDS TcpRtt, TLAPS

\* A shift to the right by two or three bits is division rounded down.
LEMMA ShiftTwo ==
  ASSUME NEW v \in Nat
  PROVE  Rttvar(v) \in Nat /\ 4 * Rttvar(v) <= v /\ v < 4 * Rttvar(v) + 4
BY SMT DEF Rttvar

LEMMA ShiftThree ==
  ASSUME NEW s \in Nat
  PROVE  Srtt(s) \in Nat /\ 8 * Srtt(s) <= s /\ s < 8 * Srtt(s) + 8
BY SMT DEF Srtt

\* A short keeps an int that fits it.
LEMMA ShortKeeps ==
  ASSUME NEW x \in Int, -HalfShort <= x, x < HalfShort
  PROVE  Short(x) = x
<1> DEFINE y == x + HalfShort
           n == 2 * HalfShort
<1>1. HalfShort \in Nat \ {0}
  BY RttAssumption
<1>2. y \in Nat /\ n \in Nat \ {0} /\ y < n /\ y - HalfShort = x
  BY <1>1
<1>3. Short(x) = (y % n) - HalfShort
  BY DEF Short
<1> HIDE DEF y, n
<1>4. y % n = y
  BY <1>2
<1>. QED BY <1>2, <1>3, <1>4

-----------------------------------------------------------------------------
(* rtt_update on one sample.                                               *)

\* No value of delta wraps as long as the estimate is within bounds.
LEMMA SmoothedExact ==
  ASSUME NEW m \in Nat, NEW M \in Nat, m <= M, M < HalfShort,
         NEW s \in Nat, NEW v \in Nat, WithinBounds(s, v, M)
  PROVE  Smoothed(m, s, v) =
           LET d == m - Srtt(s)
               s1 == s + d
               v1 == v + (Abs(d) - Rttvar(v))
           IN [srtt   |-> IF s1 <= 0 THEN 1 ELSE s1,
               rttvar |-> IF v1 <= 0 THEN 1 ELSE v1]
<1> DEFINE q == Srtt(s)
           r == Rttvar(v)
           d == m - q
           a == Abs(d)
<1>0. HalfShort \in Nat
  BY RttAssumption
<1>w. 8 <= s /\ s <= 8 * M /\ 8 * v + s <= 32 * M + 4
  BY DEF WithinBounds
<1>x. q \in Nat /\ 8 * q <= s
  BY ShiftThree
<1>y. r \in Nat /\ 4 * r <= v
  BY ShiftTwo
<1> HIDE DEF q, r
<1>1. q <= M
  BY <1>w, <1>x
<1>2. r <= M
  BY <1>w, <1>y
<1>3. d \in Int /\ -HalfShort <= d /\ d < HalfShort
  BY <1>0, <1>1, <1>x
<1>4. a \in Int /\ -HalfShort <= a /\ a < HalfShort /\ 0 <= a
  BY <1>0, <1>1, <1>x DEF Abs
<1>5. Short(d) = d
  BY <1>3, ShortKeeps
<1> HIDE DEF a
<1>6. Short(a) = a
  BY <1>4, ShortKeeps
<1>7. Short(a - r) = a - r
  <2>1. a - r \in Int /\ -HalfShort <= a - r /\ a - r < HalfShort
    BY <1>0, <1>2, <1>4, <1>y
  <2>. QED BY <2>1, ShortKeeps
<1>. QED BY <1>5, <1>6, <1>7 DEF Smoothed, q, r, a


\* The branch that smooths: with a sample within three deviations both guards
\* against values that are not positive stay idle, the new retransmit value
\* exceeds the sample and the sample is within three deviations again.
LEMMA SmoothedCovers ==
  ASSUME NEW m \in Nat \ {0}, NEW s \in Nat \ {0}, NEW v \in Nat \ {0},
         NEW M \in Nat, m <= M, M < HalfShort, WithinBounds(s, v, M),
         ~Outlier(m, s, v)
  PROVE  LET e == Smoothed(m, s, v)
         IN /\ e.srtt \in Nat \ {0} /\ e.rttvar \in Nat \ {0}
            /\ Rtxcur(e.srtt, e.rttvar) \in Nat
            /\ Rtxcur(e.srtt, e.rttvar) > m
            /\ ~Outlier(m, e.srtt, e.rttvar)
<1> DEFINE q == Srtt(s)
           r == Rttvar(v)
           d == m - q
           a == Abs(d)
           s1 == s + d
           v1 == v + (a - r)
<1>1. q \in Nat /\ 8 * q <= s /\ s < 8 * q + 8
  BY ShiftThree
<1>2. r \in Nat /\ 4 * r <= v /\ v < 4 * r + 4
  BY ShiftTwo
<1>3. d \in Int /\ a \in Nat /\ (a = d \/ a = -d)
  <2>1. d \in Int
    BY <1>1
  <2>. QED BY <2>1 DEF Abs
<1>4. 4 * a <= 3 * v
  BY <1>1, <1>3 DEF Outlier
<1> HIDE DEF q, r, a
<1>5. s1 \in Nat \ {0}
  BY <1>1
<1>6. v1 \in Nat \ {0}
  BY <1>2, <1>3
<1>7. Smoothed(m, s, v) = [srtt |-> s1, rttvar |-> v1]
  <2>1. ~(s1 <= 0) /\ ~(v1 <= 0)
    BY <1>5, <1>6
  <2>2. m \in Nat /\ s \in Nat /\ v \in Nat
    OBVIOUS
  <2>. QED BY <2>1, <2>2, SmoothedExact DEF q, r, a
<1>8. Rtxcur(s1, v1) \in Nat /\ Rtxcur(s1, v1) > m
  <2>1. 8 * v1 + s1 >= 8 * (m + 1)
    BY <1>1, <1>2, <1>3
  <2>2. 8 * v1 + s1 \in Nat
    BY <1>5, <1>6
  <2>. QED BY <2>1, <2>2, <1>5, <1>6 DEF Rtxcur
<1>9. ~Outlier(m, s1, v1)
  <2> DEFINE q1 == Srtt(s1)
  <2>1. q1 \in Nat /\ 8 * q1 <= s1 /\ s1 < 8 * q1 + 8
    BY <1>5, ShiftThree
  <2> HIDE DEF q1
  <2>2. m - q1 <= a /\ q1 - m <= a
    BY <2>1, <1>1, <1>3
  <2>3. Abs(m - q1) \in Nat /\ Abs(m - q1) <= a
    BY <2>1, <2>2, <1>3 DEF Abs
  <2>4. 4 * a <= 3 * v1
    BY <1>2, <1>3, <1>4
  <2>. QED BY <2>3, <2>4, <1>3, <1>6 DEF Outlier, q1
<1>. QED
  BY <1>5, <1>6, <1>7, <1>8, <1>9

\* The branch that restarts.
LEMMA RestartedCovers ==
  ASSUME NEW m \in Nat \ {0}
  PROVE  LET e == Restarted(m)
         IN /\ e.srtt \in Nat \ {0} /\ e.rttvar \in Nat \ {0}
            /\ Rtxcur(e.srtt, e.rttvar) \in Nat
            /\ Rtxcur(e.srtt, e.rttvar) > m
            /\ ~Outlier(m, e.srtt, e.rttvar)
<1>1. Restarted(m).srtt = 8 * m /\ Restarted(m).rttvar = 2 * m
  BY DEF Restarted
<1>2. Rtxcur(8 * m, 2 * m) = 3 * m
  BY SMT DEF Rtxcur
<1>3. Srtt(8 * m) = m
  BY SMT DEF Srtt
<1>4. ~Outlier(m, 8 * m, 2 * m)
  BY <1>3 DEF Outlier, Abs
<1>. QED BY <1>1, <1>2, <1>4

LEMMA EstimateCovers ==
  ASSUME NEW m \in Nat \ {0}, NEW s \in Nat, NEW v \in Nat \ {0},
         NEW M \in Nat, m <= M, M < HalfShort,
         s # 0 => WithinBounds(s, v, M)
  PROVE  LET e == Estimate(m, s, v)
         IN /\ e.srtt \in Nat \ {0} /\ e.rttvar \in Nat \ {0}
            /\ Rtxcur(e.srtt, e.rttvar) \in Nat
            /\ Rtxcur(e.srtt, e.rttvar) > m
            /\ ~Outlier(m, e.srtt, e.rttvar)
<1>1. CASE Outlier(m, s, v) \/ s = 0
  <2>1. Estimate(m, s, v) = Restarted(m)
    BY <1>1 DEF Estimate
  <2>. QED BY <2>1, RestartedCovers
<1>2. CASE ~Outlier(m, s, v) /\ s # 0
  <2>1. Estimate(m, s, v) = Smoothed(m, s, v)
    BY <1>2 DEF Estimate
  <2>. QED BY <2>1, <1>2, SmoothedCovers
<1>. QED BY <1>1, <1>2

-----------------------------------------------------------------------------
(* The bounds of the estimate.                                             *)

LEMMA SmoothedBounded ==
  ASSUME NEW M \in Nat, NEW m \in 1..M, NEW s \in Nat \ {0}, NEW v \in Nat \ {0},
         M < HalfShort, WithinBounds(s, v, M)
  PROVE  WithinBounds(Smoothed(m, s, v).srtt, Smoothed(m, s, v).rttvar, M)
<1> DEFINE q == Srtt(s)
           r == Rttvar(v)
           d == m - q
           a == Abs(d)
           s1 == s + d
           v1 == v + (a - r)
<1>1. q \in Nat /\ 8 * q <= s /\ s < 8 * q + 8
  BY ShiftThree
<1>2. r \in Nat /\ 4 * r <= v /\ v < 4 * r + 4
  BY ShiftTwo
<1>3. d \in Int /\ a \in Nat /\ (a = d \/ a = -d)
  <2>1. d \in Int
    BY <1>1
  <2>. QED BY <2>1 DEF Abs
<1>4. m \in Nat /\ 1 <= m /\ m <= M
  OBVIOUS
<1>5. Smoothed(m, s, v) = [srtt   |-> IF s1 <= 0 THEN 1 ELSE s1,
                           rttvar |-> IF v1 <= 0 THEN 1 ELSE v1]
  <2>1. s \in Nat /\ v \in Nat
    OBVIOUS
  <2>. QED BY <2>1, <1>4, SmoothedExact
<1> HIDE DEF q, r, a
<1>6. s1 \in Nat \ {0}
  BY <1>1, <1>4
<1>7. v1 \in Nat \ {0}
  BY <1>2, <1>3
<1>8. Smoothed(m, s, v).srtt = s1 /\ Smoothed(m, s, v).rttvar = v1
  <2>1. ~(s1 <= 0) /\ ~(v1 <= 0)
    BY <1>6, <1>7
  <2>. QED BY <1>5, <2>1
<1>9. WithinBounds(s1, v1, M)
  <2>1. CASE a = d
    BY <1>1, <1>2, <1>3, <1>4, <2>1 DEF WithinBounds
  <2>2. CASE a = -d
    BY <1>1, <1>2, <1>3, <1>4, <2>2 DEF WithinBounds
  <2>. QED BY <1>3, <2>1, <2>2
<1>. QED BY <1>8, <1>9

LEMMA EstimateBounded ==
  ASSUME NEW M \in Nat, NEW m \in 1..M, NEW s \in Nat, NEW v \in Nat \ {0},
         M < HalfShort, s # 0 => WithinBounds(s, v, M)
  PROVE  LET e == Estimate(m, s, v)
         IN /\ WithinBounds(e.srtt, e.rttvar, M)
            /\ Rtxcur(e.srtt, e.rttvar) <= 4 * M
<1> DEFINE e == Estimate(m, s, v)
<1>1. WithinBounds(e.srtt, e.rttvar, M)
  <2>1. CASE Outlier(m, s, v) \/ s = 0
    <3>1. e.srtt = 8 * m /\ e.rttvar = 2 * m
      BY <2>1 DEF Estimate, Restarted
    <3>2. WithinBounds(8 * m, 2 * m, M)
      BY DEF WithinBounds
    <3>. QED BY <3>1, <3>2
  <2>2. CASE ~Outlier(m, s, v) /\ s # 0
    BY <2>2, SmoothedBounded DEF Estimate
  <2>. QED BY <2>1, <2>2
<1>2. e.srtt \in Nat \ {0} /\ e.rttvar \in Nat \ {0}
  <2>1. m \in Nat \ {0} /\ m <= M
    OBVIOUS
  <2>. QED BY <2>1, EstimateCovers
<1> HIDE DEF e
<1> DEFINE x == e.srtt
           y == e.rttvar
           z == 8 * y + x
<1>3. z \in Nat /\ z <= 32 * M + 4
  BY <1>1, <1>2 DEF WithinBounds
<1>4. Rtxcur(x, y) = z \div 8
  BY DEF Rtxcur
<1> HIDE DEF z
<1>5. z \div 8 <= 4 * M
  BY <1>3
<1>. QED BY <1>1, <1>4, <1>5 DEF e

-----------------------------------------------------------------------------
(* The specification.                                                      *)

LEMMA InitEstablishes == Init => RttInv
BY RttAssumption
DEF Init, RttInv, TypeOK, TimerCoversSample, NoRepeatedRestart, TimerBounded, Larger

LEMMA NewAckPreserves == RttInv /\ NewAck => RttInv'
<1> SUFFICES ASSUME RttInv, NewAck PROVE RttInv'
  OBVIOUS
<1> DEFINE m == Larger(rtt, 1)
           e == Estimate(m, t_srtt, t_rttvar)
<1>1. m \in Nat \ {0} /\ m \in 0..Larger(MaxRtt, 1)
  BY RttAssumption DEF RttInv, Larger
<1>2. t_srtt \in Nat /\ t_rttvar \in Nat \ {0}
  BY DEF RttInv, TypeOK
<1> DEFINE M == Larger(MaxRtt, 1)
<1>3. M \in Nat /\ m \in 1..M /\ m <= M /\ M < HalfShort
  <2>1. M \in Nat /\ M < HalfShort
    BY RttAssumption, Widths DEF Larger
  <2> HIDE DEF m, M
  <2>. QED BY <1>1, <2>1 DEF M
<1>4. t_srtt # 0 => WithinBounds(t_srtt, t_rttvar, M)
  BY DEF RttInv
<1>5. /\ e.srtt \in Nat \ {0} /\ e.rttvar \in Nat \ {0}
      /\ Rtxcur(e.srtt, e.rttvar) \in Nat
      /\ Rtxcur(e.srtt, e.rttvar) > m
      /\ ~Outlier(m, e.srtt, e.rttvar)
  BY <1>1, <1>2, <1>3, <1>4, EstimateCovers
<1>6. WithinBounds(e.srtt, e.rttvar, M) /\ Rtxcur(e.srtt, e.rttvar) <= 4 * M
  BY <1>2, <1>3, <1>4, EstimateBounded
<1>12. /\ t_rtt' = m /\ t_srtt' = e.srtt /\ t_rttvar' = e.rttvar
       /\ t_rtxcur' = Rtxcur(e.srtt, e.rttvar)
       /\ t_backoff' = 1 /\ rtt' = rtt
  BY DEF NewAck, rtt_update
<1> HIDE DEF m, e
<1>7. TimerBounded' /\ (t_srtt # 0 => WithinBounds(t_srtt, t_rttvar, M))'
  BY <1>6, <1>12 DEF TimerBounded
<1>8. TypeOK'
  BY <1>1, <1>5, <1>12 DEF TypeOK
<1>9. TimerCoversSample'
  BY <1>5, <1>12 DEF TimerCoversSample
<1>10. NoRepeatedRestart'
  BY <1>5, <1>12 DEF NoRepeatedRestart
<1>11. (rtt \in 0..MaxRtt)'
  BY <1>12 DEF RttInv
<1>. QED BY <1>8, <1>9, <1>10, <1>11, <1>7 DEF RttInv

LEMMA TimeoutPreserves == RttInv /\ Timeout => RttInv'
<1> SUFFICES ASSUME RttInv, Timeout PROVE RttInv'
  OBVIOUS
<1>1. t_backoff' \in Nat \ {0}
  BY DEF RttInv, TypeOK, Timeout
<1>2. rtt' = rtt /\ t_rtt' = t_rtt /\ t_rtxcur' = t_rtxcur
  BY DEF Timeout
<1>3. CASE t_backoff' > 8
  <2>1. t_srtt' = 0 /\ t_rttvar' = t_rttvar + Srtt(t_srtt)
    BY <1>3 DEF Timeout
  <2>2. Srtt(t_srtt) \in Nat
    BY ShiftThree DEF RttInv, TypeOK
  <2>3. t_rttvar' \in Nat \ {0}
    BY <2>1, <2>2 DEF RttInv, TypeOK
  <2>. QED BY <1>1, <1>2, <2>1, <2>3
           DEF RttInv, TypeOK, TimerCoversSample, NoRepeatedRestart, TimerBounded
<1>4. CASE ~(t_backoff' > 8)
  <2>1. t_srtt' = t_srtt /\ t_rttvar' = t_rttvar
    BY <1>4 DEF Timeout
  <2>. QED BY <1>1, <1>2, <2>1
           DEF RttInv, TypeOK, TimerCoversSample, NoRepeatedRestart, TimerBounded
<1>. QED BY <1>3, <1>4

LEMMA ChangePreserves == RttInv /\ Change => RttInv'
BY DEF RttInv, Change, TypeOK, TimerCoversSample, NoRepeatedRestart, TimerBounded

LEMMA StepPreserves == RttInv /\ [Next]_vars => RttInv'
<1> SUFFICES ASSUME RttInv, [Next]_vars PROVE RttInv'
  OBVIOUS
<1>1. CASE Change
  BY <1>1, ChangePreserves
<1>2. CASE NewAck
  BY <1>2, NewAckPreserves
<1>3. CASE Timeout
  BY <1>3, TimeoutPreserves
<1>4. CASE UNCHANGED vars
  BY <1>4 DEF vars, RttInv, TypeOK, TimerCoversSample, NoRepeatedRestart, TimerBounded
<1>. QED BY <1>1, <1>2, <1>3, <1>4 DEF Next

\* The invariant holds in every behaviour of the estimator on a network whose
\* round-trip times fit a short.
THEOREM RttInvariance == Spec => []RttInv
BY InitEstablishes, StepPreserves, PTL DEF Spec

\* rtt_update and rtt_backoff keep the scaled values positive integers.
THEOREM EstimateTyped == Spec => []TypeOK
<1>1. RttInv => TypeOK
  BY DEF RttInv
<1>. QED BY <1>1, RttInvariance, PTL

\* The retransmit value always exceeds the sample it was computed from.
THEOREM TimerLongEnough == Spec => []TimerCoversSample
<1>1. RttInv => TimerCoversSample
  BY DEF RttInv
<1>. QED BY <1>1, RttInvariance, PTL

\* No sample replaces the estimate twice in a row.
THEOREM RestartsOnce == Spec => []NoRepeatedRestart
<1>1. RttInv => NoRepeatedRestart
  BY DEF RttInv
<1>. QED BY <1>1, RttInvariance, PTL

\* The retransmit value stays within four times the longest round trip.
THEOREM TimerStaysBounded == Spec => []TimerBounded
<1>1. RttInv => TimerBounded
  BY DEF RttInv
<1>. QED BY <1>1, RttInvariance, PTL

=============================================================================
