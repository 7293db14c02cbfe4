CONSTANTS
  Slots = {a, b}
  MaxGeneration = 2
  QueueSize = 2
  MaxTicks = 3
  Delays = {0, 1, 2}
  Untils = {2}
  MayKill = {"delayed"}
  IntMax = 9
  a = a
  b = b
SPECIFICATION Spec
PROPERTIES WakesItsWaiter
CHECK_DEADLOCK FALSE
