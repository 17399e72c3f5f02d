SPECIFICATION Spec
CONSTANTS
  Input <- SmallInputs
  MaxToggles = 3
INVARIANTS TypeOK OneErrorPerRowCorrected VerdictExact
CHECK_DEADLOCK FALSE
