\* Players that write 1, and writes of 0 that nobody is entitled to.
SPECIFICATION Spec
CONSTANTS
  Players = {p1, p2, p3}
  StartValue = 1
  Strays = {s1, s2}
  MaxCount = 15
INVARIANTS TypeOK NeverMoreThanBlocking
CHECK_DEADLOCK FALSE
