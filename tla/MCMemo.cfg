SPECIFICATION Spec
CHECK_DEADLOCK FALSE
CONSTANTS
  walk = walk
  namesake = namesake
  shapes = shapes
  polyline = polyline
  None = None
  Walks = {walk}
  Structures = {shapes, namesake}
  Decoders = {polyline}
  Calls <- MCCalls
  Name <- MCName
  Scopes = {""}
  Texts = {"one"}
  Addresses = {"0x7f10", "0x7f40"}
  MaxBuilds = 4
  MaxObjects = 4
  MaxContexts = 2
INVARIANTS
  MemoHolds
  AnswersTheQuestion
