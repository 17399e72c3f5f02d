SPECIFICATION Spec
CONSTANTS
  MaxRtt = 9
  RttvarInit = 12
  RtxcurInit = 6
  minrto = 2
  maxrto = 60
  HalfShort = 10
INVARIANTS RttInv TimerCoversSample NoRepeatedRestart TimerBounded
PROPERTY Settles
