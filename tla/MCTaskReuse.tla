---------------------------- MODULE MCTaskReuse ----------------------------
(* A document of three pages and tasks of two: one configuration has all   *)
(* pages, the other overlapping ranges, of which one is cut into the same  *)
(* tasks and one ends before the last page.                                *)
EXTENDS TaskReuse

CONSTANTS all, some

Range(first, last) == [first |-> first, last |-> last]
MCRangesOf == [c \in Config |-> IF c = all THEN <<Range(1, 100)>>
                                ELSE <<Range(1, 9), Range(2, 3)>>]
MCSizeOf == [c \in Config |-> 2]
=============================================================================
