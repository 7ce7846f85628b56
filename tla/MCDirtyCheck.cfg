SPECIFICATION Spec
CONSTANTS
 HASH_STRENGTH_FULL = 3
 HASH_STRENGTH_LOOPBACK = 1
 WORDS = {0, 1}
INVARIANTS
 ChangedMeansWritten
 CollisionReadTheSame
