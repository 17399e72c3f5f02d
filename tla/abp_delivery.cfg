SPECIFICATION FairSpec
CONSTANTS
  MaxDelay = 3
  Garbage <- MCGarbage
  nsimmax = 4
  MaxGap = 8
  TIMEOUT = 6
INVARIANTS IInv NoPrematureTimeout IdleMeansDelivered NextIsNotDuplicate
PROPERTIES StopAndWaitSafety Terminates StopAndWaitDelivery
CHECK_DEADLOCK FALSE
