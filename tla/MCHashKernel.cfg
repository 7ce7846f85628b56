SPECIFICATION KernelSpec
CHECK_DEADLOCK FALSE
CONSTANTS
  WIDTH = 5
  FH_K1 = 21
  FH_K2 = 13
  FH_K3 = 27
  SHIFTS <- MCShifts
  LONG = 20
  ThreadsPerBlock = 3
  SEEDS <- MCSeeds
  GARBAGE = {0, 9}
INVARIANTS
  ResultsAreHashes
  FlippedBitShows
