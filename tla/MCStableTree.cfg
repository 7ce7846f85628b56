SPECIFICATION StableTreeSpec
SYMMETRY NodeSymmetry
CONSTANTS
  n1 = n1
  n2 = n2
  n3 = n3
  a = a
  b = b
  c = c
  Nodes = {n1, n2, n3}
  Contents = {a, b, c}
  Strengths = {1, 3}
  FullStrength = 3
  Hash <- MCHash
  MAX_RMAPS = 2
INVARIANTS
  CountsMatch
  SubtreesKeyed
  LinkedUnderTheirHash
  CursorIsAllocated
  PagesCounted
PROPERTY
  OnlyHiddenNodesUnlinked
