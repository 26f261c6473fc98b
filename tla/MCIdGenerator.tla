--------------------------- MODULE MCIdGenerator ----------------------------
(* Four concurrent calls and two servers that start.                       *)
EXTENDS IdGenerator, TLC

CONSTANTS c1, c2, c3, c4, s1, s2

Symmetry == Permutations(Call) \cup Permutations(Starter)
=============================================================================
