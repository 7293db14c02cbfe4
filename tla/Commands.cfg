CONSTANTS
  Trains = {t1}
  Switchers = {s1, s2}
  Speeds = {0, 1}
  Turnouts <- MCTurnouts
  MaxOrders = 3
  MaxTime = 165
SPECIFICATION Spec
INVARIANTS RecordTrue PairsApart
PROPERTIES ReversedAtRest
SYMMETRY Symmetry
CHECK_DEADLOCK FALSE
