CONSTANTS
  Trains = {"a", "b"}
  Driven = {"a"}
  Goals = {"x"}
  QueueLen = 2
  MaxGroups = 2
  Cares = {TRUE, FALSE}
  Entered = {"tr", "loop"}
  MaxExcess = 0
  MaxReplaced = 1
  Sparing = TRUE
CHECK_DEADLOCK FALSE
SPECIFICATION FairSpec
INVARIANTS ReadyExact OneDriver NothingFails
PROPERTIES CommandsImplemented UserAnswered DemoGoesOn
