SPECIFICATION FairSpec
CONSTANTS
  r1 = r1
  r2 = r2
  a1 = a1
  b1 = b1
  a2 = a2
  b2 = b2
  pa = pa
  pb = pb
  x1 = x1
  Run = {r1}
  Kind = {"run"}
  Task = {a1, b1}
  RunOf <- MCRunOf
  Page = {pa, pb}
  PageOf <- MCPageOf
  Thread = {x1}
  RetryLimit = 1
  MaxFaults = 1
  MaxStops = 0
PROPERTY Settles
CHECK_DEADLOCK FALSE
