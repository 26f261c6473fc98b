---------------------------- MODULE MCTaskStream ----------------------------
(* Two executors and up to four messages, two of them of high priority.    *)
EXTENDS TaskStream, TLC

CONSTANTS c1, c2, h1, h2, l1, l2

Symmetry == Permutations({c1, c2}) \cup Permutations({h1, h2}) \cup Permutations({l1, l2})
=============================================================================
