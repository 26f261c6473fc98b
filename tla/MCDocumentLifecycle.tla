------------------------ MODULE MCDocumentLifecycle ------------------------
(* A document of at most two pages and two parse requests: a1 and b1 are   *)
(* the tasks of the first one, a2 and b2 of the second.                    *)
EXTENDS DocumentLifecycle, TLC

CONSTANTS r1, r2, a1, b1, a2, b2, pa, pb, x1

MCRunOf == [t \in Task |-> IF t \in {a1, b1} THEN r1 ELSE r2]
MCPageOf == [t \in Task |-> IF t \in {a1, a2} THEN pa ELSE pb]

(* The requests of a one-page document are interchangeable, each with its *)
(* task.                                                                   *)
Symmetry == {f \in Permutations({r1, r2, a1, a2}) :
               f[r1] \in {r1, r2} /\ (f[r1] = r1) = (f[a1] = a1)
                                  /\ (f[r2] = r2) = (f[a2] = a2)}
=============================================================================
