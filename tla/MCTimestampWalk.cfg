SPECIFICATION Spec
CHECK_DEADLOCK FALSE
CONSTANTS
  None = None
  Feeds <- MCFeeds
  HalfWord = 8
  MIN_POSIX_TIME = 2
  MAX_POSIX_TIME = 6
  MILLIS_PER_SECOND = 2
  MINIMUM_REFRESH_INTERVAL_SECONDS = 1
  MAX_AGE_SECONDS = 2
  IN_FUTURE_TOLERANCE_SECONDS = 1
INVARIANTS
  AgeHolds
  SilentExactlyWhenTimesClimb
  HeadersClimb
