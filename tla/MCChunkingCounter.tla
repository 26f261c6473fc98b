------------------------- MODULE MCChunkingCounter -------------------------
(* Parse requests for one document: t1 belongs to the first one, t2 and t3 *)
(* to the second.  Message m4, where a run has it, carries t2 once more.   *)
EXTENDS ChunkingCounter, TLC

CONSTANTS r1, r2, t1, t2, t3, m1, m2, m3, m4

MCRunOf == [t \in Task |-> IF t = t1 THEN r1 ELSE r2]
MCTaskOf == [m \in Msg |-> IF m = m1 THEN t1 ELSE IF m = m3 THEN t3 ELSE t2]

(* t2 with m2 and t3 with m3 play the same part, when m4 is not there.     *)
Symmetry == {f \in Permutations({t2, t3, m2, m3}) :
               f[t2] \in {t2, t3} /\ (f[t2] = t2) = (f[m2] = m2)
                                  /\ (f[t3] = t3) = (f[m3] = m3)}
=============================================================================
