---------------------------- MODULE MCRedisLock -----------------------------
(* o1, o2 and o3 use acquire, s1 and s2 spin.                              *)
EXTENDS RedisLock, TLC

CONSTANTS o1, o2, o3, s1, s2, k1, k2, k3, k4, k5

MCTokenOf ==
  [o \in Owner |-> CASE o = o1 -> k1 [] o = o2 -> k2 [] o = o3 -> k3 [] o = s1 -> k4
                     [] OTHER -> k5]
=============================================================================
