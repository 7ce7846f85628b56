SPECIFICATION FairSpec
CONSTANTS
 Pages = {p1, p2, p3, p4}
 First = p1
 OPERATIONS = 3
 RETURNS = FALSE
INVARIANTS
 ReturnedPageIsNodes
 NodeKeptWhilePageLives
PROPERTIES
 ImplementsKeyhole
 CallReturns
