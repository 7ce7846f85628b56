SPECIFICATION SearchFairSpec
CONSTANTS
  HASH_STRENGTH_FULL = 3
  HASH_STRENGTH_LOOPBACK = 1
  HASH_STRENGTH_START = 2
  HASH_STRENGTH_DELTA_MAX = 1
  EXPLORE_PERIOD = 2
  EXPLORE_ROUND = 1
  U8_MAX = 15
  Measurements <- MCMeasurements
INVARIANTS
  SearchStaysInRange
  SearchIsBounded
  BelowCountIsCurrent
  TurningPointsMeasured
  SettlesAtBestCandidate
PROPERTY
  ImplementsSearch
