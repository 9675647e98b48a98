SPECIFICATION Spec
CHECK_DEADLOCK FALSE
CONSTANTS
  None = None
  StopIds = {"A", "B"}
  Rows <- MCRows
  Updates <- MCUpdates
  TripRows <- MCTripRows
  MaxUpdates = 3
  HalfWord = 4
INVARIANTS
  OrderHolds
  MatchesAreInOrder
  E051MeansTheRowsRanOut
PROPERTIES
  BreakIsFinal
  WalkEnds
