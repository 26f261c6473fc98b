-------------------------- MODULE MCConnectorSync ---------------------------
(* A connector and a dataset it is linked to, with the prune_freq that     *)
(* create_connector gives by default.                                      *)
EXTENDS ConnectorSync, TLC

CONSTANTS k1, k2, d1, d2, s1, s2, s3, s4, q1, q2

Symmetry == Permutations(Slot) \cup Permutations(Doc)

MCInit == Init /\ prune_freq = 1

MCSpec == MCInit /\ [][Next]_vars
=============================================================================
