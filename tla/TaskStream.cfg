SPECIFICATION FairSpec
CONSTANTS
  c1 = c1
  c2 = c2
  h1 = h1
  h2 = h2
  l1 = l1
  l2 = l2
  Consumer = {c1, c2}
  Msg = {h1, l1, l2}
  HighMsg = {h1}
  MaxCrashes = 2
  MaxFaults = 1
INVARIANTS OneExecution NothingForgotten
PROPERTIES DeliverySpec Acknowledged
CHECK_DEADLOCK FALSE
