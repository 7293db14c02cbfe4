CONSTANTS
  Readers = {"u", "v", "w"}
  Servers = {"generic", "fifo"}
  FifoReaders = 1
  MaxBytes = 4
  MaxGets = 5
  BufSize = 2
  FifoSize = 2
  MaxTasks = 3
SPECIFICATION FairSpec
INVARIANTS EveryByteOnce
PROPERTIES FirstComeFirstServed Delivered
CHECK_DEADLOCK FALSE
