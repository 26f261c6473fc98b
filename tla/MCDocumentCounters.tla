------------------------- MODULE MCDocumentCounters -------------------------
(* A document of one page and two parse requests.                          *)
EXTENDS DocumentCounters, TLC

CONSTANTS r1, r2, a1, a2, pa, x1

MCRunOf == [t \in Task |-> IF t = a1 THEN r1 ELSE r2]
MCPageOf == [t \in Task |-> pa]

(* The requests are interchangeable, each with its task.                   *)
Symmetry == {f \in Permutations({r1, r2, a1, a2}) :
               f[r1] \in {r1, r2} /\ (f[r1] = r1) = (f[a1] = a1)
                                  /\ (f[r2] = r2) = (f[a2] = a2)}
=============================================================================
