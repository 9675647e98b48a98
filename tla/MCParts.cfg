SPECIFICATION Spec
CONSTANTS
  None = None
  Unset = Unset
  Absent = Absent
  Bad = Bad
  Odd = Odd
INVARIANTS
  TypesHold
  TripDescriptorsHold
  TripRulesHold
  EntitiesHold
  DetoursHold
  TranslationsHold
  PlacesHold
  HeadwaysHold
  FeedsHold
  RunsHold
  RegistriesHold
  MessagesAgree
  WireHolds
PROPERTIES
  LoopsEnd
CHECK_DEADLOCK FALSE
