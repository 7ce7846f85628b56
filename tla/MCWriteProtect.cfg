SPECIFICATION Spec
CONSTANTS
  Changes = {"wrprotect", "protnone", "clean"}
  DMA = TRUE
  SHARERS = 1
  SHARING = FALSE
INVARIANTS
  ProtectedNeedsFault
  DmaExcluded
  DirtyNeverLost
  OrigPteShowsWrites
