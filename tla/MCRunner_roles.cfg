SPECIFICATION Spec
CHECK_DEADLOCK FALSE
CONSTANTS
  a = a
  a2 = a2
  b = b
  junk = junk
  A = A
  B = B
  None = None
  Payloads = {a, a2, b, junk}
  Messages = {A, B}
  Decoded <- MCDecoded
  Findings <- MCFindings
  Rules <- MCRules
  Occurrences <- MCOccurrences
  GateErrors <- MaybeNoTimezone
  Roles = {"tu", "vp", "sa"}
  CycleShapes <- MCThreeRoles
  MaxCycles = 2
  Mode = "modern"
  AbortRequested = TRUE
  DirectoryReplay = FALSE
  AtFixed = FALSE
  SortByName = FALSE
  HasSink = FALSE
  Fetched = {"vp"}
  MAX_TOTAL_OCCURRENCES = 2
  MAX_OCCURRENCES_PER_RULE = 1
  MAX_EXPORTS_PER_RULE = 1
  Unlimited = 1000
INVARIANTS
  ReportsHold
  PreviousIsPerRole
  OwnFindingsOnly
PROPERTIES
  SilentSkipNeedsABasis
  EachRoleIsABatchLoop
