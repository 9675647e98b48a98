SPECIFICATION Spec
CHECK_DEADLOCK FALSE
CONSTANTS
  Rules = {"E002", "W002"}
  Occurrences <- MCOccurrences
  MAX_TOTAL_OCCURRENCES = 3
  MAX_OCCURRENCES_PER_RULE = 2
  MAX_EXPORTS_PER_RULE = 1
  Unlimited = 1000
  Boxes = {"worker", "report"}
  Caps <- MCCaps
  MaxSerial = 4
  MaxMerges = 2
INVARIANTS
  CountsHold
  CapsHoldUntilMerged
  LostOnlyToACap
PROPERTIES
  RetainedStay
