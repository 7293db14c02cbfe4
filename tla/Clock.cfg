CONSTANTS
  Slots = {a, b}
  MaxGeneration = 1
  QueueSize = 2
  MaxTicks = 4
  Delays = {0, 1, 2}
  Untils = {2, 4}
  MayKill = {"delayed"}
  IntMax = 9
  a = a
  b = b
SPECIFICATION FairSpec
INVARIANTS NoTickLost NoAssertFails
PROPERTIES DelayImplemented Answered
CHECK_DEADLOCK FALSE
