--------------------------- MODULE MCSandboxPool ----------------------------
(* A pool of at most three containers and more requests than containers.   *)
EXTENDS SandboxPool, TLC

CONSTANTS q1, q2, q3, q4, d1, d2, d3

Symmetry == Permutations(Container) \cup Permutations(Request)
=============================================================================
