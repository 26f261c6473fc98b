------------------------------ MODULE PageSplit ------------------------------
(***************************************************************************)
(* How queue_tasks cuts a document into tasks.  Pages are numbered from 0  *)
(* in tasks, and from 1 in the ranges that a user chooses; rows of a table *)
(* are cut in the same way.                                                *)
(***************************************************************************)
EXTENDS Integers

-----------------------------------------------------------------------------
(* Where a range starts, and the page before which it ends.                *)
FromPage(first) == IF first - 1 < 0 THEN 0 ELSE first - 1

ToPage(last, pages) == IF last - 1 < pages THEN last - 1 ELSE pages

(* Python's range(s, e, size).                                             *)
Steps(s, e, size) == {p \in s .. e - 1 : (p - s) % size = 0}

(* Mutation of Cut: the last task is not clamped.                          *)
CutUnclamped(s, e, size) ==
  {[from_page |-> p, to_page |-> p + size] : p \in Steps(s, e, size)}

Cut(s, e, size) ==
  {[from_page |-> p, to_page |-> IF p + size < e THEN p + size ELSE e] : p \in Steps(s, e, size)}

(* The tasks of one chosen range of a PDF, and of a table.                 *)
PdfTasks(first, last, pages, size) == Cut(FromPage(first), ToPage(last, pages), size)

RowsPerTask == 3000
TableTasks(rows) == Cut(0, rows, RowsPerTask)

-----------------------------------------------------------------------------
Holds(task, q) == task.from_page <= q /\ q < task.to_page

(* T has exactly one task for each element of S, none for other numbers,   *)
(* and no task without an element or with more than size.                  *)
Exactly(T, Q, S, size) ==
  /\ \A q \in Q \cap S : \E t \in T : Holds(t, q)
  /\ \A q \in Q \ S : ~ \E t \in T : Holds(t, q)
  /\ \A q \in Q : \A t, u \in T : Holds(t, q) /\ Holds(u, q) => t = u
  /\ \A t \in T : t.from_page < t.to_page /\ t.to_page <= t.from_page + size
=============================================================================
