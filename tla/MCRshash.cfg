SPECIFICATION RshashSpec
VIEW LoopView
CONSTANTS
 HASH_STRENGTH_FULL = 4
 HASH_STRENGTH_START = 2
 HASH_STRENGTH_LOOPBACK = 2
 HASH_STRENGTH_DELTA_MAX = 1
 EXPLORE_PERIOD = 4
 EXPLORE_ROUND = 1
 U8_MAX = 15
 Measurements <- MCMeasurements
 U64_MAX = 1000000
 BASE_MAX = 1
 MEMCMP_COST = 3
 ROUND_PAGES = 2
 CALLS_PER_PAGE = 2
 REBUILD_NODES = 2
INVARIANTS
 CreditsAreCurrent
 MeasurementInRange
PROPERTY
 FullStrengthHolds
