SPECIFICATION IdSpec
CONSTANTS
  c1 = c1
  c2 = c2
  c3 = c3
  c4 = c4
  s1 = s1
  s2 = s2
  Call = {c1, c2, c3, c4}
  Starter = {s1, s2}
  Increment = 1
  MaxFaults = 2
SYMMETRY Symmetry
INVARIANT UniqueOnceSettled
CHECK_DEADLOCK FALSE
