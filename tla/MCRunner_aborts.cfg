SPECIFICATION Spec
CHECK_DEADLOCK FALSE
CONSTANTS
  a = a
  a2 = a2
  b = b
  junk = junk
  A = A
  B = B
  None = None
  Payloads = {a, a2, b, junk}
  Messages = {A, B}
  Decoded <- MCDecoded
  Findings <- MCFindings
  Rules <- MCRules
  Occurrences <- MCOccurrences
  GateErrors <- NothingFromTheGate
  Roles = {"rt"}
  CycleShapes <- MCReplayCycles
  MaxCycles = 4
  Mode = "compat"
  AbortRequested = TRUE
  DirectoryReplay = TRUE
  AtFixed = FALSE
  SortByName = TRUE
  HasSink = TRUE
  Fetched = {}
  MAX_TOTAL_OCCURRENCES = 2
  MAX_OCCURRENCES_PER_RULE = 1
  MAX_EXPORTS_PER_RULE = 1
  Unlimited = 1000
INVARIANTS
  CompatAbortWritesNothing
