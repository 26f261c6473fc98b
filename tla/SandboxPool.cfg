SPECIFICATION FairSpec
CONSTANTS
  q1 = q1
  q2 = q2
  q3 = q3
  q4 = q4
  d1 = d1
  d2 = d2
  d3 = d3
  None = None
  Container = {d1, d2}
  Request = {q1, q2, q3}
INVARIANTS OneUserPerContainer NoContainerForgotten BusyOnlyAfterLoss
PROPERTY EveryoneIsServed
CHECK_DEADLOCK FALSE
