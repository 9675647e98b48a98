SPECIFICATION Spec
CHECK_DEADLOCK FALSE
CONSTANTS
  None = None
  StopIds = {"A", "B"}
  Rows <- MCRows
  Updates <- MCUpdates
  TripRows <- MCTripRows
  MaxUpdates = 3
  HalfWord = 4
INVARIANTS
  E051IsForAnUnknownSequence
