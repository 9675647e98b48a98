SPECIFICATION Spec
CONSTANTS
  None = None
  Unset = Unset
  Absent = Absent
  Bad = Bad
  Odd = Odd
INVARIANTS
  TheFallbackIsModerns
CHECK_DEADLOCK FALSE
