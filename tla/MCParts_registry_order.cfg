SPECIFICATION Spec
CONSTANTS
  None = None
  Unset = Unset
  Absent = Absent
  Bad = Bad
  Odd = Odd
INVARIANTS
  RegistryOrderIsDiscoverys
CHECK_DEADLOCK FALSE
