SPECIFICATION SampledSpec
CHECK_DEADLOCK FALSE
CONSTANTS
  RANDOM <- MCRandom
  JIFFIES = 8
  SPAN = 3
  LAPSE = 2
  WIDTH = 8
  shiftl = 2
  shiftr = 3
  SEED = 239
  HASH_STRENGTH_FULL = 3
  HASH_STRENGTH_LOOPBACK = 2
  WORDS <- MCWords
INVARIANTS
  SamplesDistinctWords
  DivisorIsPositive
  DeltaIsRehash
  ZeroPagesFound
