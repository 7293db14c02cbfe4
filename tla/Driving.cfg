CONSTANTS
  Train = 24
  Trips <- MCTrips
  Lags = {0, 1}
  Phases = {100}
  Earlies = {8000}
  Lates = {8000}
  Finds <- MCFinds
SPECIFICATION FairSpec
INVARIANT StopWatched
PROPERTIES StopsInTime StaysOnRoute CommandEnds
