SPECIFICATION FairSpec
CONSTANTS
  HASH_STRENGTH_FULL = 6
  HASH_STRENGTH_LOOPBACK = 1
  HASH_STRENGTH_START = 1
  HASH_STRENGTH_DELTA_MAX = 2
  EXPLORE_PERIOD = 8
  EXPLORE_ROUND = 3
  U8_MAX = 15
  Measurements <- MCLiveMeasurements
PROPERTIES
  Reexplores
  DriftsDown
  DriftsUp
