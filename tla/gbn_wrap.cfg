SPECIFICATION Spec
CONSTANTS
  Garbage <- MCGarbage
  MaxDelay = 1
  nsimmax = 8
  MaxGap = 2
  TIMEOUT = 2
  WIN_SIZE = 4
  BUFF_SIZE = 8
  MAX_SEQ = 7
  Fates <- Perfect
  MaxEvents = 20
  MaxDelivered = 20
INVARIANT DeliveredInOrder
CHECK_DEADLOCK FALSE
