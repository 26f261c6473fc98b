SPECIFICATION Spec
CONSTANTS
  r1 = r1
  r2 = r2
  t1 = t1
  t2 = t2
  t3 = t3
  m1 = m1
  m2 = m2
  m3 = m3
  m4 = m4
  NoKey = NoKey
  NoRun = NoRun
  Run = {r1, r2}
  Task = {t1, t2, t3}
  RunOf <- MCRunOf
  Msg = {m1, m2, m3}
  TaskOf <- MCTaskOf
  RetryLimit = 2
  MaxFaults = 1
  MaxStops = 0
SYMMETRY Symmetry
INVARIANTS FinalizedAtMostOnce GateIsExact
CHECK_DEADLOCK FALSE
