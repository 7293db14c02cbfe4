CONSTANTS
  MaxBytes = 6
  MaxPrint = 3
  MaxCallers = 2
  BufSize = 3
  FifoSize = 2
  EscBytes = {3}
SPECIFICATION FairSpec
INVARIANTS BytesInOrder ControllerReady
PROPERTIES AllSent
CHECK_DEADLOCK FALSE
