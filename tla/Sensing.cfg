SPECIFICATION Spec
CONSTANTS
  Fleets <- MCFleets
  Origin <- MCOrigin
  Area <- MCArea
  Expected <- MCExpected
  Asked = {1}
  MaxSilent <- MCMaxSilent
  MaxTurns = 1
  Separation = 3
INVARIANT GivenUpInTime
PROPERTIES RightTrain HitFound
CHECK_DEADLOCK FALSE
