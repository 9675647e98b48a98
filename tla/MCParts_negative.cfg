SPECIFICATION Spec
CONSTANTS
  None = None
  Unset = Unset
  Absent = Absent
  Bad = Bad
  Odd = Odd
INVARIANTS
  VehicleClocksAgree
CHECK_DEADLOCK FALSE
