SPECIFICATION Spec
CONSTANTS
 Pages = {p1, p2}
 First = p1
 OPERATIONS = 3
 RETURNS = TRUE
INVARIANT NodeKeptWhilePageLives
