SPECIFICATION MCSpec
CONSTANTS
  k1 = k1
  k2 = k2
  d1 = d1
  d2 = d2
  q1 = q1
  q2 = q2
  Kb = {k1}
  Linked = {k1}
  Shared = {}
  Doc = {d1, d2}
  s1 = s1
  s2 = s2
  s3 = s3
  s4 = s4
  Slot = {s1, s2, s3}
  NoRow = NoRow
  Req = {q1}
  Syncer = Syncer
  Prune = TRUE
  MaxEvents = 2
SYMMETRY Symmetry
INVARIANTS OneWaiting KeepsSyncing NothingMissed CancelHolds Dispatchable
CHECK_DEADLOCK FALSE
