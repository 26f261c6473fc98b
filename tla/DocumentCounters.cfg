SPECIFICATION CountersSpec
CONSTANTS
  r1 = r1
  r2 = r2
  a1 = a1
  a2 = a2
  pa = pa
  x1 = x1
  Run = {r1, r2}
  Kind = {"parse", "guarded", "run"}
  Task = {a1, a2}
  RunOf <- MCRunOf
  Page = {pa}
  PageOf <- MCPageOf
  Thread = {}
  RetryLimit = 1
  MaxFaults = 1
  MaxStops = 1
  MaxEvents = 1
SYMMETRY Symmetry
INVARIANTS CountersTypeOK NoDrift DatasetNotBelow CountsChunks RemovedIsEmpty
CHECK_DEADLOCK FALSE
