SPECIFICATION Spec
CONSTANTS
  Garbage <- MCGarbage
  MaxDelay = 1
  nsimmax = 5
  MaxGap = 2
  TIMEOUT = 2
  WIN_SIZE = 2
  BUFF_SIZE = 4
  MAX_SEQ = 5
  Fates <- Faulty
  MaxEvents = 5
  MaxDelivered = 5
INVARIANTS GbnInv OneTimer PopSafe DeliveredWasAccepted OrderedUntilRepeat AckNamesDelivered
PROPERTY FifoMedium
CHECK_DEADLOCK FALSE
