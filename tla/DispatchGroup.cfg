CONSTANTS
  Trains = {"a", "b"}
  Driven = {"a"}
  Goals = {"x"}
  QueueLen = 2
  MaxGroups = 1
  Cares = {FALSE}
  Entered = {"tr", "loop"}
  MaxExcess = 0
  MaxReplaced = 1
  Sparing = TRUE
CHECK_DEADLOCK FALSE
SPECIFICATION FairSpec

PROPERTY SunsetArrives
