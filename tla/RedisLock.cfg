SPECIFICATION FairSpec
CONSTANTS
  o1 = o1
  o2 = o2
  o3 = o3
  s1 = s1
  s2 = s2
  k1 = k1
  k2 = k2
  k3 = k3
  k4 = k4
  k5 = k5
  Free = Free
  Owner = {o1, o2, o3, s1, s2}
  Spinner = {s1, s2}
  Token = {k1, k2, k3, k4, k5}
  TokenOf <- MCTokenOf
  MaxCrashes = 2
INVARIANT ExclusiveUntilExpiry
PROPERTY PassedOn
