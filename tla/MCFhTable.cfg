SPECIFICATION Spec
CONSTANTS
 b1 = b1
 b2 = b2
 b3 = b3
 c1 = c1
 c2 = c2
 c3 = c3
 short = short
 long = long
 Blocks = {b1, b2, b3}
 BlockLen <- MCLen
 Contents = {c1, c2, c3}
 Hash <- MCHash
 Addresses = {a1, a2, a3}
 SIZE_MOD = 8
 Requests = {0, 1, 3, 4}
 NULL = NULL
INVARIANTS
 FoundWhileUnchanged
 NothingLeaked
