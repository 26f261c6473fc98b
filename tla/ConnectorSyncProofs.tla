------------------------ MODULE ConnectorSyncProofs ------------------------
(***************************************************************************)
(* For any number of datasets, documents, rows, requests and events: at    *)
(* most one task of a type waits for a dataset, a cancel that met no task  *)
(* in hand holds, what waits is what the rounds list, every linked dataset *)
(* has its next sync, and the windows of the syncs leave no gap.           *)
(*                                                                         *)
(* IInv, of the tables alone, comes first.  The rest is SyncInv, which     *)
(* relates them to what the process, the requests and the calls of         *)
(* schedule have in hand: its parts are proved one by one from what each   *)
(* step does to the rows (Steady, Settled, Stretched, NewRow, OldRow), to  *)
(* the calls (Calls), the process (ProcessSteps) and the source            *)
(* (SourceSteps).                                                          *)
(***************************************************************************)
EXTENDS ConnectorSync, TLAPS

(* What UpdateRows, ScheduleInsert and the deletions keep of the tables.   *)
RowsOK ==
  /\ rows \in [Row -> RowType \cup {NoRow}] /\ latest \in [Pair -> Row \cup {NoRow}]
  /\ LatestInv

RestOK ==
  /\ conn \in {"unstart", "schedule", "running", "done", "cancel", "gone"}
  /\ linked \subseteq Kb
  /\ prune_freq \in {0, 1}
  /\ source \in [Doc -> Nat] /\ now \in Nat /\ stored \in [Kb \X Doc -> Nat]
  /\ dpc \in {"list", "listprune", "next", "start", "generate", "batch",
              "snapshot", "prune", "done"}
  /\ due \subseteq TaskType /\ task \in TaskType \cup {NoTask}
  /\ todo \subseteq Doc \X Nat /\ next \in Nat
  /\ unlisted \subseteq Doc /\ until \in Nat /\ late \subseteq Doc
  /\ rpc \in [Req -> {"idle", "cancel", "delete", "rmrows", "rmdocs", "plan"}]
  /\ kbs \in [Req -> SUBSET Kb] /\ plan \in [Req -> SUBSET Pair]
  /\ call \in [Proc -> CallType] /\ events \in 0..MaxEvents
  /\ TaskInv

LEMMA TypeParts == (TypeOK /\ LatestInv /\ TaskInv) <=> (RowsOK /\ RestOK)
  BY DEF TypeOK, RowsOK, RestOK

LEMMA PairOfRow == ASSUME NEW w \in Row PROVE w[1] \in Pair /\ w[1][1] \in Kb /\ w[1][2] \in Type
  BY DEF Row, Pair

-----------------------------------------------------------------------------
LEMMA TidyRows ==
  ASSUME NEW rs \in [Row -> RowType \cup {NoRow}], NEW lt, NEW held
  PROVE  /\ Tidy(rs, lt, held) \in [Row -> RowType \cup {NoRow}]
         /\ \A w \in Row : Tidy(rs, lt, held)[w] \in {rs[w], NoRow}
         /\ \A w \in Row : lt[w[1]] = w => Tidy(rs, lt, held)[w] = rs[w]
         /\ \A w \in Row : rs[w] # NoRow /\ rs[w].status \notin Finished
                            => Tidy(rs, lt, held)[w] = rs[w]
  BY DEF Tidy

LEMMA TouchRows ==
  ASSUME RowsOK, NEW W \in SUBSET Row
  PROVE  /\ Touch(W) \in [Pair -> Row \cup {NoRow}]
         /\ \A p \in Pair : Touch(W)[p] # NoRow => Touch(W)[p][1] = p /\ Exists(Touch(W)[p])
<1> DEFINE V(p) == {w \in W : Exists(w) /\ w[1] = p}
<1> SUFFICES ASSUME NEW p \in Pair
             PROVE  /\ Touch(W)[p] \in Row \cup {NoRow}
                    /\ Touch(W)[p] # NoRow => Touch(W)[p][1] = p /\ Exists(Touch(W)[p])
  BY DEF Touch
<1>1. Touch(W)[p] = IF V(p) = {} THEN latest[p] ELSE CHOOSE w \in V(p) : TRUE
  BY DEF Touch
<1>2. CASE V(p) = {}
  BY <1>1, <1>2 DEF RowsOK, LatestInv
<1>3. CASE V(p) # {}
  <2>1. Touch(W)[p] \in V(p)
    BY <1>1, <1>3
  <2> QED
    BY <2>1
<1> QED
  BY <1>2, <1>3

(* An update that takes no row away keeps the tables in order.             *)
LEMMA Updated ==
  ASSUME RowsOK, NEW W \in SUBSET Row, NEW set \in [Row -> RowType \cup {NoRow}], NEW held,
         \A w \in Row : Exists(w) => set[w] # NoRow,
         latest' = Touch(W), rows' = Tidy(set, latest', held)
  PROVE  RowsOK' /\ \A w \in Row : rows'[w] \in {set[w], NoRow}
<1>1. /\ latest' \in [Pair -> Row \cup {NoRow}]
      /\ \A p \in Pair : latest'[p] # NoRow => latest'[p][1] = p /\ Exists(latest'[p])
  BY TouchRows
<1>2. /\ rows' \in [Row -> RowType \cup {NoRow}]
      /\ \A w \in Row : rows'[w] \in {set[w], NoRow}
      /\ \A w \in Row : latest'[w[1]] = w => rows'[w] = set[w]
  BY TidyRows
<1>3. LatestInv'
  BY <1>1, <1>2 DEF LatestInv, Exists
<1> QED
  BY <1>1, <1>2, <1>3 DEF RowsOK

(* UpdateRows with each of its functions: what they do to a row.           *)
LEMMA RowTypes ==
  ASSUME NEW r \in RowType, NEW n \in Nat, NEW m \in Nat,
         NEW s \in Finished \cup {"schedule", "running"}
  PROVE  /\ [r EXCEPT !.status = s, !.zero = FALSE] \in RowType
         /\ [r EXCEPT !.status = s, !.zero = FALSE].status = s
         /\ [r EXCEPT !.status = s, !.zero = FALSE, !.start = n] \in RowType
         /\ [r EXCEPT !.start = n, !.end = m, !.zero = FALSE] \in RowType
         /\ [r EXCEPT !.start = n, !.end = m, !.zero = FALSE].status = r.status
         /\ r.start \in Nat /\ r.end \in Nat
  BY DEF RowType, Finished

(* No row waits that did not wait before.                                  *)
NoneMore == \A w \in Row : Waits(w)' => Waits(w)

LEMMA StatusUpdated ==
  ASSUME RowsOK, NEW W \in SUBSET Row, NEW s \in Finished \cup {"running"}, NEW held,
         latest' = Touch(W),
         rows' = Tidy([w \in Row |-> IF w \in W /\ Exists(w)
                                     THEN [rows[w] EXCEPT !.status = s, !.zero = FALSE]
                                     ELSE rows[w]], latest', held)
  PROVE  RowsOK' /\ NoneMore
<1> DEFINE set == [w \in Row |-> IF w \in W /\ Exists(w)
                                 THEN [rows[w] EXCEPT !.status = s, !.zero = FALSE]
                                 ELSE rows[w]]
<1>1. latest' = Touch(W) /\ rows' = Tidy(set, latest', held)
  OBVIOUS
<1>2. ASSUME NEW w \in Row
      PROVE  /\ set[w] \in RowType \cup {NoRow} /\ (Exists(w) => set[w] # NoRow)
             /\ set[w] # NoRow /\ set[w].status = "schedule" => Waits(w)
  <2>1. CASE w \in W /\ Exists(w)
    <3>1. rows[w] \in RowType
      BY <2>1 DEF RowsOK, Exists
    <3>2. set[w] \in RowType /\ set[w].status = s
      BY <2>1, <3>1, RowTypes
    <3> QED
      BY <3>2, NoRowAssumption DEF Finished
  <2>2. CASE ~(w \in W /\ Exists(w))
    BY <2>2 DEF RowsOK, Exists, Waits
  <2> QED
    BY <2>1, <2>2
<1>3. set \in [Row -> RowType \cup {NoRow}]
  BY <1>2
<1> HIDE DEF set
<1>4. RowsOK' /\ \A w \in Row : rows'[w] \in {set[w], NoRow}
  BY <1>1, <1>2, <1>3, Updated
<1> QED
  BY <1>2, <1>4 DEF NoneMore, Waits, Exists

-----------------------------------------------------------------------------
(* The rows after a step: no more of them wait, but after ScheduleInsert   *)
(* and ScheduleFails.                                                      *)
LEMMA RowsKept ==
  ASSUME RowsOK, UNCHANGED <<rows, latest>>
  PROVE  RowsOK' /\ NoneMore
  BY DEF RowsOK, LatestInv, Exists, NoneMore, Waits

(* What is trimmed is of one dataset, and a row stays if it is the latest  *)
(* of its pair or if that one stays.                                       *)
LEMMA TrimmedRows ==
  ASSUME RowsOK, NEW p \in Proc, ScheduleTrim(p)
  PROVE  \E W \in SUBSET Row :
           /\ rows' = [w \in Row |-> IF w \in W THEN NoRow ELSE rows[w]]
           /\ latest' = [of \in Pair |-> IF latest[of] \in W THEN NoRow ELSE latest[of]]
           /\ halted' = halted \cup {w[1][1] : w \in {v \in W : Waits(v) /\ v[1][2] = "sync"}}
           /\ \A w \in W : Exists(w) /\ w[1][1] = call[p].of[1]
<1>1. PICK W \in Trimmable(call[p].of[1]) :
        /\ rows' = [w \in Row |-> IF w \in W THEN NoRow ELSE rows[w]]
        /\ latest' = [of \in Pair |-> IF latest[of] \in W THEN NoRow ELSE latest[of]]
        /\ halted' = halted \cup {w[1][1] : w \in {v \in W : Waits(v) /\ v[1][2] = "sync"}}
  BY DEF ScheduleTrim
<1>2. W \in SUBSET {w \in Row : Exists(w) /\ w[1][1] = call[p].of[1]}
  BY DEF Trimmable
<1>3. W \in SUBSET Row /\ \A w \in W : Exists(w) /\ w[1][1] = call[p].of[1]
  BY <1>2
<1> QED
  BY <1>1, <1>3

LEMMA RowsTrimmed ==
  ASSUME RowsOK, NEW p \in Proc, ScheduleTrim(p)
  PROVE  RowsOK' /\ NoneMore
<1>1. PICK W \in SUBSET Row :
        /\ rows' = [w \in Row |-> IF w \in W THEN NoRow ELSE rows[w]]
        /\ latest' = [of \in Pair |-> IF latest[of] \in W THEN NoRow ELSE latest[of]]
  BY TrimmedRows
<1> QED
  BY <1>1 DEF RowsOK, LatestInv, Exists, NoneMore, Waits

LEMMA RowsDeleted ==
  ASSUME RowsOK, NEW q \in Req, DeleteRows(q)
  PROVE  RowsOK' /\ NoneMore
<1>1. /\ rows' = [w \in Row |-> IF Exists(w) /\ w[1][1] \in kbs[q] THEN NoRow ELSE rows[w]]
      /\ latest' = [p \in Pair |-> IF p[1] \in kbs[q] THEN NoRow ELSE latest[p]]
  BY DEF DeleteRows
<1> QED
  BY <1>1, PairOfRow DEF RowsOK, LatestInv, Exists, NoneMore, Waits

LEMMA RowsTidied ==
  ASSUME RowsOK, NEW held, rows' = Tidy(rows, latest, held), latest' = latest
  PROVE  RowsOK' /\ NoneMore
<1>1. /\ rows' \in [Row -> RowType \cup {NoRow}]
      /\ \A w \in Row : rows'[w] \in {rows[w], NoRow}
      /\ \A w \in Row : latest[w[1]] = w => rows'[w] = rows[w]
  BY TidyRows DEF RowsOK
<1> QED
  BY <1>1 DEF RowsOK, LatestInv, Exists, NoneMore, Waits

LEMMA RowsCanceled ==
  ASSUME RowsOK, NEW q \in Req, CancelRows(q)
  PROVE  RowsOK' /\ NoneMore
<1>1. PICK kb \in kbs[q] :
        UpdateRows(Canceled(kb), LAMBDA r : [r EXCEPT !.status = "cancel", !.zero = FALSE], Held)
  BY DEF CancelRows
<1>2. Canceled(kb) \in SUBSET Row /\ "cancel" \in Finished \cup {"running"}
  BY DEF Canceled, Finished
<1> QED
  BY <1>1, <1>2, StatusUpdated DEF UpdateRows

(* The process sets the status of the row of its task.                     *)
LEMMA RowsOfTask ==
  ASSUME RowsOK, TaskInv, Start \/ Done \/ Fail
  PROVE  RowsOK' /\ NoneMore
<1>1. {task.row} \in SUBSET Row
  BY DEF Start, Done, Fail, TaskInv, TaskType
<1>2. {"running", "done", "fail"} \subseteq Finished \cup {"running"}
  BY DEF Finished
<1>3. CASE Start
  BY <1>1, <1>2, <1>3, StatusUpdated DEF Start, UpdateRows
<1>4. CASE Done
  BY <1>1, <1>2, <1>4, StatusUpdated DEF Done, UpdateRows
<1>5. CASE Fail
  BY <1>1, <1>2, <1>5, StatusUpdated DEF Fail, UpdateRows
<1> QED
  BY <1>3, <1>4, <1>5

LEMMA RowsOfBatch ==
  ASSUME RowsOK, RestOK, Batch
  PROVE  RowsOK' /\ NoneMore
<1>1. CASE UNCHANGED <<rows, latest>>
  BY <1>1, RowsKept
<1>2. CASE \E x \in todo :
             UpdateRows({task.row}, LAMBDA r : [r EXCEPT !.start = Later(@, x[2]),
                                                         !.end = Later(@, x[2]),
                                                         !.zero = FALSE], Held)
  <2>1. PICK x \in todo :
          UpdateRows({task.row}, LAMBDA r : [r EXCEPT !.start = Later(@, x[2]),
                                                      !.end = Later(@, x[2]),
                                                      !.zero = FALSE], Held)
    BY <1>2
  <2>2. task.row \in Row /\ x[2] \in Nat
    BY DEF RestOK, Batch, TaskInv, TaskType
  <2> DEFINE moved(r) == [r EXCEPT !.start = Later(r.start, x[2]),
                                   !.end = Later(r.end, x[2]), !.zero = FALSE]
             set == [w \in Row |-> IF w \in {task.row} /\ Exists(w) THEN moved(rows[w])
                                   ELSE rows[w]]
  <2>3. latest' = Touch({task.row}) /\ rows' = Tidy(set, latest', Held)
    BY <2>1 DEF UpdateRows
  <2>4. ASSUME NEW w \in Row
        PROVE  /\ set[w] \in RowType \cup {NoRow} /\ (Exists(w) => set[w] # NoRow)
               /\ set[w] # NoRow /\ set[w].status = "schedule" => Waits(w)
    <3>1. CASE w = task.row /\ Exists(w)
      <4>1. rows[w] \in RowType
        BY <3>1 DEF RowsOK, Exists
      <4>2. Later(rows[w].start, x[2]) \in Nat /\ Later(rows[w].end, x[2]) \in Nat
        BY <2>2, <4>1 DEF Later, RowType
      <4>3. moved(rows[w]) \in RowType /\ moved(rows[w]).status = rows[w].status
        BY <4>1, <4>2 DEF RowType
      <4> QED
        BY <3>1, <4>3, NoRowAssumption DEF Waits
    <3>2. CASE ~(w = task.row /\ Exists(w))
      BY <3>2 DEF RowsOK, Exists, Waits
    <3> QED
      BY <3>1, <3>2
  <2>5. set \in [Row -> RowType \cup {NoRow}]
    BY <2>4
  <2> HIDE DEF set
  <2>6. RowsOK' /\ \A w \in Row : rows'[w] \in {set[w], NoRow}
    BY <2>2, <2>3, <2>4, <2>5, Updated
  <2> QED
    BY <2>4, <2>6 DEF NoneMore, Waits, Exists
<1> QED
  BY <1>1, <1>2 DEF Batch

(* The one row that may wait after an insert is the new one.               *)
LEMMA RowsInserted ==
  ASSUME RowsOK, RestOK, NEW p \in Proc, ScheduleInsert(p)
  PROVE  RowsOK' /\ \E v \in Row : /\ v[1] = call[p].of
                                   /\ \A w \in Row \ {v} : Waits(w)' => Waits(w)
<1> DEFINE of == call[p].of
           free == {u \in {of} \X Slot : ~Exists(u) /\ u \notin Held}
           new == [status |-> "schedule", start |-> call[p].start, end |-> 0,
                   zero |-> call[p].now]
<1>1. PICK v : /\ v \in free
               /\ latest' = IF call[p].now /\ latest[of] # NoRow THEN latest
                            ELSE [latest EXCEPT ![of] = v]
               /\ rows' = Tidy([rows EXCEPT ![v] = new], latest', Held)
  <2>1. free # {}
    BY DEF ScheduleInsert
  <2>2. (CHOOSE u \in {of} \X Slot : ~Exists(u) /\ u \notin Held) \in free
    BY <2>1
  <2> QED
    BY <2>2 DEF ScheduleInsert
<1>2. call[p] \in CallType \ {NoCall}
  BY DEF RestOK, ScheduleInsert
<1>3. of \in Pair /\ new \in RowType
  BY <1>2 DEF CallType, NoCall, RowType
<1>4. v \in Row /\ v[1] = of /\ ~Exists(v)
  BY <1>1, <1>3 DEF Row
<1> DEFINE set == [rows EXCEPT ![v] = new]
<1>5. set \in [Row -> RowType \cup {NoRow}] /\ set[v] = new /\ new # NoRow
      /\ \A w \in Row \ {v} : set[w] = rows[w]
  BY <1>3, <1>4, NoRowAssumption DEF RowsOK
<1>6. latest' \in [Pair -> Row \cup {NoRow}]
      /\ \A q \in Pair : latest'[q] = latest[q] \/ (q = of /\ latest'[q] = v)
  BY <1>1, <1>3, <1>4 DEF RowsOK
<1>7. rows' = Tidy(set, latest', Held)
  BY <1>1
<1> HIDE DEF set, new, of, free
<1>8. /\ rows' \in [Row -> RowType \cup {NoRow}]
      /\ \A w \in Row : rows'[w] \in {set[w], NoRow}
      /\ \A w \in Row : latest'[w[1]] = w => rows'[w] = set[w]
  BY <1>5, <1>7, TidyRows
<1>9. LatestInv'
  <2> SUFFICES ASSUME NEW q \in Pair, latest'[q] # NoRow
               PROVE  latest'[q][1] = q /\ rows'[latest'[q]] # NoRow
    BY DEF LatestInv, Exists
  <2>1. CASE q = of /\ latest'[q] = v
    BY <2>1, <1>4, <1>5, <1>8
  <2>2. CASE latest'[q] = latest[q]
    BY <2>2, <1>4, <1>5, <1>6, <1>8 DEF RowsOK, LatestInv, Exists
  <2> QED
    BY <1>6, <2>1, <2>2
<1>10. \A w \in Row \ {v} : Waits(w)' => Waits(w)
  BY <1>5, <1>8 DEF Waits, Exists
<1> QED
  BY <1>4, <1>6, <1>8, <1>9, <1>10 DEF RowsOK, of

(* The row that an error revives is one of the pair.                       *)
LEMMA RowsRevived ==
  ASSUME RowsOK, RestOK, NEW p \in Proc, ScheduleFails(p)
  PROVE  RowsOK' /\ \A w \in Row : Waits(w)' => Waits(w) \/ w[1] = call[p].of
<1>1. call[p] \in CallType \ {NoCall}
  BY DEF RestOK, ScheduleFails
<1>2. call[p].of \in Pair /\ call[p].start \in Nat
  BY <1>1 DEF CallType, NoCall
<1> DEFINE u == latest[call[p].of]
<1>3. CASE u = NoRow
  <2>1. UNCHANGED <<rows, latest>>
    BY <1>3 DEF ScheduleFails
  <2> QED
    BY <2>1, RowsKept DEF NoneMore
<1>4. CASE u # NoRow
  <2>1. u \in Row /\ u[1] = call[p].of
    BY <1>2, <1>4 DEF RowsOK, LatestInv
  <2> DEFINE set == [w \in Row |-> IF w \in {u} /\ Exists(w)
                                   THEN [rows[w] EXCEPT !.status = "schedule", !.zero = FALSE,
                                                        !.start = call[p].start]
                                   ELSE rows[w]]
  <2>2. latest' = Touch({u}) /\ rows' = Tidy(set, latest', Held)
    BY <1>4 DEF ScheduleFails, UpdateRows
  <2>3. ASSUME NEW w \in Row
        PROVE  /\ set[w] \in RowType \cup {NoRow} /\ (Exists(w) => set[w] # NoRow)
               /\ w # u => set[w] = rows[w]
    <3>1. CASE w = u /\ Exists(w)
      <4>1. rows[w] \in RowType
        BY <3>1 DEF RowsOK, Exists
      <4>2. set[w] \in RowType
        BY <1>2, <3>1, <4>1, RowTypes
      <4> QED
        BY <3>1, <4>2, NoRowAssumption
    <3>2. CASE ~(w = u /\ Exists(w))
      BY <3>2 DEF RowsOK, Exists
    <3> QED
      BY <3>1, <3>2
  <2>4. set \in [Row -> RowType \cup {NoRow}]
    BY <2>3
  <2> HIDE DEF set
  <2>5. RowsOK' /\ \A w \in Row : rows'[w] \in {set[w], NoRow}
    BY <2>1, <2>2, <2>3, <2>4, Updated
  <2> QED
    BY <2>1, <2>3, <2>5 DEF Waits, Exists
<1> QED
  BY <1>3, <1>4

-----------------------------------------------------------------------------
(* The types of everything else after a step.                              *)
LEMMA CallTypes ==
  ASSUME RestOK, NEW p \in Proc, call[p] # NoCall
  PROVE  /\ call[p].of \in Pair /\ call[p].start \in Nat /\ call[p].of[1] \in Kb
         /\ call[p] \in [pc : {"check", "insert"}, of : Pair, start : Nat, now : BOOLEAN]
  BY DEF RestOK, CallType, NoCall, Pair

LEMMA Counted == ASSUME RestOK, Event \/ UNCHANGED events PROVE events' \in 0..MaxEvents
  BY ConnectorAssumption DEF RestOK, Event

LEMMA RestOfSource ==
  ASSUME RestOK, SetPruneFreq \/ \E d \in Doc : Change(d) \/ Remove(d)
  PROVE  RestOK'
<1>1. events' \in 0..MaxEvents
  BY Counted DEF Change, Remove, SetPruneFreq
<1>2. source' \in [Doc -> Nat] /\ now' \in Nat /\ prune_freq' \in {0, 1} /\ late' \subseteq Doc
  BY DEF RestOK, Change, Remove, SetPruneFreq, process, listing
<1> QED
  BY <1>1, <1>2 DEF RestOK, TaskInv, Change, Remove, SetPruneFreq, tables, process, listing,
                    request

LEMMA RestOfSchedule ==
  ASSUME RestOK, NEW p \in Proc,
         ScheduleTrim(p) \/ ScheduleExists(p) \/ ScheduleConn(p) \/ ScheduleInsert(p)
           \/ ScheduleFails(p)
  PROVE  RestOK'
<1>1. events' \in 0..MaxEvents
  BY Counted DEF ScheduleTrim, ScheduleExists, ScheduleConn, ScheduleInsert, ScheduleFails
<1>2. conn' \in {"unstart", "schedule", "running", "done", "cancel", "gone"}
  BY DEF RestOK, ScheduleTrim, ScheduleExists, ScheduleConn, ScheduleInsert, ScheduleFails,
         SetConn, tables
<1>3. call' \in [Proc -> CallType]
  <2>1. call \in [Proc -> CallType]
    BY DEF RestOK
  <2>2. CASE call' = call \/ call' = [call EXCEPT ![p] = NoCall]
    BY <2>1, <2>2 DEF CallType
  <2>3. CASE ScheduleConn(p)
    <3>1. [call[p] EXCEPT !.pc = "insert"] \in CallType
      BY <2>3, CallTypes DEF ScheduleConn, CallType
    <3> QED
      BY <2>1, <2>3, <3>1 DEF ScheduleConn
  <2> QED
    BY <2>2, <2>3 DEF ScheduleTrim, ScheduleExists, ScheduleInsert, ScheduleFails
<1>4. UNCHANGED <<linked, content, process, request>>
  BY DEF ScheduleTrim, ScheduleExists, ScheduleConn, ScheduleInsert, ScheduleFails, tables
<1> QED
  BY <1>1, <1>2, <1>3, <1>4 DEF RestOK, TaskInv, content, process, listing, request

LEMMA RestOfAsk ==
  ASSUME RestOK, NEW q \in Req, Ask(q)
  PROVE  RestOK'
<1>1. events' \in 0..MaxEvents
  BY Counted DEF Ask
<1>2. linked \subseteq Kb /\ linked \X Type \subseteq Pair
      /\ \A kb \in Kb : {kb} \X Type \subseteq Pair
  BY DEF RestOK, Pair
<1>3. /\ linked' \subseteq Kb
      /\ rpc' \in [Req -> {"idle", "cancel", "delete", "rmrows", "rmdocs", "plan"}]
      /\ kbs' \in [Req -> SUBSET Kb] /\ plan' \in [Req -> SUBSET Pair]
  BY <1>2 DEF RestOK, Ask
<1> QED
  BY <1>1, <1>3 DEF RestOK, TaskInv, Ask, content, process, listing

LEMMA RestOfCancel ==
  ASSUME RestOK, NEW q \in Req, CancelRows(q) \/ CancelConn(q)
  PROVE  RestOK'
<1>1. CASE CancelRows(q)
  <2>1. kbs' \in [Req -> SUBSET Kb]
    BY <1>1 DEF RestOK, CancelRows
  <2> QED
    BY <1>1, <2>1 DEF RestOK, TaskInv, CancelRows, content, process, listing
<1>2. CASE CancelConn(q)
  <2>1. linked \X Type \in SUBSET Pair
    BY DEF RestOK, Pair
  <2>2. rpc' \in [Req -> {"idle", "cancel", "delete", "rmrows", "rmdocs", "plan"}]
    BY <1>2 DEF RestOK, CancelConn
  <2>3. plan' \in [Req -> SUBSET Pair]
    BY <1>2, <2>1 DEF RestOK, CancelConn
  <2>4. conn' \in {"unstart", "schedule", "running", "done", "cancel", "gone"}
    BY <1>2 DEF RestOK, CancelConn, SetConn
  <2> QED
    BY <1>2, <2>2, <2>3, <2>4 DEF RestOK, TaskInv, CancelConn, content, process,
                                      listing
<1> QED
  BY <1>1, <1>2

LEMMA RestOfDelete ==
  ASSUME RestOK, NEW q \in Req, DeleteConn(q) \/ DeleteRows(q) \/ DeleteDocs(q)
  PROVE  RestOK'
<1>1. rpc' \in [Req -> {"idle", "cancel", "delete", "rmrows", "rmdocs", "plan"}]
  BY DEF RestOK, DeleteConn, DeleteRows, DeleteDocs
<1>2. stored' \in [Kb \X Doc -> Nat]
  BY DEF RestOK, DeleteConn, DeleteRows, DeleteDocs, content
<1>3. kbs' \in [Req -> SUBSET Kb]
  BY DEF RestOK, DeleteConn, DeleteRows, DeleteDocs
<1> QED
  BY <1>1, <1>2, <1>3 DEF RestOK, TaskInv, DeleteConn, DeleteRows, DeleteDocs, tables,
                          content, process, listing

LEMMA RestOfPlan ==
  ASSUME RowsOK, RestOK, NEW q \in Req, PlanNext(q) \/ Answer(q) \/ RequestDies(q)
  PROVE  RestOK'
<1>1. events' \in 0..MaxEvents
  BY Counted DEF PlanNext, Answer, RequestDies
<1>2. q \in Proc
  BY DEF Proc
<1>3. call' \in [Proc -> CallType]
  <2>1. CASE PlanNext(q)
    <3>1. PICK p \in plan[q] :
            Call(q, p, IF kind[q] \in {"schedule", "reschedule"} /\ p[2] = "sync"
                       THEN LatestEnd(p[1]) ELSE 0, TRUE)
      BY <2>1 DEF PlanNext
    <3>2. p \in Pair
      BY DEF RestOK
    <3>3. LatestEnd(p[1]) \in Nat
      <4>1. <<p[1], "sync">> \in Pair
        BY <3>2 DEF Pair, Type
      <4>2. \A w \in Row : rows[w] # NoRow => rows[w].end \in Nat
        BY DEF RowsOK, RowType
      <4> QED
        BY <4>1, <4>2 DEF LatestEnd, RowsOK, LatestInv, Exists
    <3> DEFINE n == IF kind[q] \in {"schedule", "reschedule"} /\ p[2] = "sync"
                    THEN LatestEnd(p[1]) ELSE 0
    <3>4. n \in Nat
      BY <3>3
    <3>5. Call(q, p, n, TRUE)
      BY <3>1
    <3> HIDE DEF n
    <3> QED
      BY <1>2, <3>2, <3>4, <3>5 DEF Call, RestOK, CallType
  <2>2. CASE ~PlanNext(q)
    BY <1>2, <2>2 DEF RestOK, CallType, Answer, RequestDies
  <2> QED
    BY <2>1, <2>2
<1>4. /\ rpc' \in [Req -> {"idle", "cancel", "delete", "rmrows", "rmdocs", "plan"}]
      /\ kbs' \in [Req -> SUBSET Kb] /\ plan' \in [Req -> SUBSET Pair]
  BY DEF RestOK, PlanNext, Answer, RequestDies
<1> QED
  BY <1>1, <1>3, <1>4 DEF RestOK, TaskInv, PlanNext, Answer, RequestDies, tables, content,
                          process, listing

LEMMA RestOfRound ==
  ASSUME RowsOK, RestOK, ListSync \/ ListPrune \/ NextTask \/ Crash
  PROVE  RestOK'
<1>1. events' \in 0..MaxEvents
  BY Counted DEF ListSync, ListPrune, NextTask, Crash
<1>2. CASE ListSync \/ ListPrune
  <2>1. \A type : List(type) => due' \subseteq TaskType
    <3> SUFFICES ASSUME NEW type, List(type), NEW t \in due' PROVE t \in TaskType
      OBVIOUS
    <3>1. CASE t \in due
      BY <3>1 DEF RestOK
    <3>2. CASE t \in Eligible(type)
      BY <3>2 DEF Eligible, Listable, TaskType, RowsOK, Waits, Exists, RowType
    <3> QED
      BY <3>1, <3>2 DEF List
  <2> QED
    BY <1>1, <1>2, <2>1 DEF RestOK, TaskInv, ListSync, ListPrune, tables, content, listing,
                            request
<1>3. CASE NextTask
  BY <1>1, <1>3 DEF RestOK, TaskInv, NextTask, content, listing, request
<1>4. CASE Crash
  <2>1. call' \in [Proc -> CallType]
    BY <1>4 DEF RestOK, Crash, CallType
  <2> QED
    BY <1>1, <1>4, <2>1 DEF RestOK, TaskInv, Crash, Forget, content, request
<1> QED
  BY <1>2, <1>3, <1>4

LEMMA RestOfTask ==
  ASSUME RestOK, Start \/ Generate \/ Fetch \/ PruneDocs \/ Fail
  PROVE  RestOK'
<1>1. events' \in 0..MaxEvents
  BY Counted DEF Start, Generate, Fetch, PruneDocs, Fail
<1>2. task \in TaskType /\ task.start \in Nat
  BY DEF RestOK, TaskInv, TaskType, Start, Generate, Fetch, PruneDocs, Fail
<1>3. CASE Start
  BY <1>1, <1>2, <1>3 DEF RestOK, TaskInv, Start, SetConn, content, request
<1>4. CASE Generate
  BY <1>1, <1>2, <1>4 DEF RestOK, TaskInv, Generate, tables, content, request
<1>5. CASE Fetch
  <2>1. todo' \subseteq Doc \X Nat /\ unlisted' \subseteq Doc
    BY <1>5 DEF RestOK, Fetch
  <2> QED
    BY <1>1, <1>2, <1>5, <2>1 DEF RestOK, TaskInv, Fetch, tables, content, request
<1>6. CASE PruneDocs
  <2>1. stored' \in [Kb \X Doc -> Nat]
    BY <1>6 DEF RestOK, PruneDocs
  <2> QED
    BY <1>1, <1>2, <1>6, <2>1 DEF RestOK, TaskInv, PruneDocs, tables, listing, request
<1>7. CASE Fail
  BY <1>1, <1>2, <1>7 DEF RestOK, TaskInv, Fail, Forget, content, request
<1> QED
  BY <1>3, <1>4, <1>5, <1>6, <1>7

LEMMA RestOfSnapshot ==
  ASSUME RestOK, Snapshot \/ SnapshotFails
  PROVE  RestOK'
<1>1. events' \in 0..MaxEvents
  BY Counted DEF Snapshot, SnapshotFails
<1>2. todo' \subseteq Doc \X Nat /\ unlisted' \subseteq Doc
  BY DEF RestOK, Snapshot, SnapshotFails
<1>3. dpc' \in {"snapshot", "prune", "done"} /\ task \in TaskType
  BY DEF RestOK, TaskInv, Snapshot, SnapshotFails
<1> QED
  BY <1>1, <1>2, <1>3 DEF RestOK, TaskInv, Snapshot, SnapshotFails, tables, content, request

LEMMA RestOfBatch ==
  ASSUME RestOK, Batch
  PROVE  RestOK'
<1>1. events' \in 0..MaxEvents
  BY Counted DEF Batch
<1>2. PICK x \in todo, kept \in BOOLEAN :
        /\ todo' = todo \ {x} /\ next' = Advance(x[2])
        /\ stored' = IF kept THEN [stored EXCEPT ![<<task.row[1][1], x[1]>>] = x[2]] ELSE stored
  BY DEF Batch
<1>3. x[2] \in Nat
  BY DEF RestOK
<1>4. next' \in Nat /\ stored' \in [Kb \X Doc -> Nat] /\ todo' \subseteq Doc \X Nat
  BY <1>2, <1>3 DEF RestOK, Advance, Later
<1> QED
  BY <1>1, <1>4 DEF RestOK, TaskInv, Batch, listing, request

LEMMA RestOfDone ==
  ASSUME RestOK, Done
  PROVE  RestOK'
<1>1. task.row[1] \in Pair /\ next \in Nat /\ Syncer \in Proc
  BY PairOfRow DEF RestOK, Done, TaskInv, TaskType, Proc
<1>2. call' \in [Proc -> CallType]
  BY <1>1 DEF RestOK, Done, Call, CallType
<1>3. conn' \in {"unstart", "schedule", "running", "done", "cancel", "gone"}
  BY DEF RestOK, Done, SetConn
<1> QED
  BY <1>2, <1>3 DEF RestOK, TaskInv, Done, Forget, content, request

-----------------------------------------------------------------------------
(* A step after which no more rows wait and no more calls are about to     *)
(* insert one.                                                             *)
NoMoreInserts ==
  /\ raced \subseteq raced'
  /\ \A p \in Proc : Inserts(p)' => Inserts(p) /\ call'[p].of = call[p].of

LEMMA AloneKept ==
  ASSUME RestOK, OneWaiting, InsertInv, NoneMore, NoMoreInserts
  PROVE  OneWaiting' /\ InsertInv'
<1>1. \A p : Waiting(p)' \subseteq Waiting(p)
  BY DEF NoneMore, Waiting
<1>2. OneWaiting'
  BY <1>1 DEF NoMoreInserts, OneWaiting
<1>3. InsertInv'
  BY <1>1 DEF NoMoreInserts, InsertInv
<1> QED
  BY <1>2, <1>3

LEMMA AloneToInsert ==
  ASSUME RestOK, NEW p \in Proc, ScheduleConn(p), OneWaiting, InsertInv
  PROVE  OneWaiting' /\ InsertInv'
<1>1. \A x : Waiting(x)' = Waiting(x)
  BY DEF ScheduleConn, Waiting, Waits, Exists
<1>2. raced \subseteq raced'
  BY DEF ScheduleConn
<1>3. OneWaiting'
  BY <1>1, <1>2 DEF OneWaiting
<1>4. Inserts(p)' /\ call'[p].of = call[p].of
      /\ \A q \in Proc \ {p} : call'[q] = call[q]
  <2>1. [call[p] EXCEPT !.pc = "insert"] \in CallType \ {NoCall}
        /\ [call[p] EXCEPT !.pc = "insert"].pc = "insert"
        /\ [call[p] EXCEPT !.pc = "insert"].of = call[p].of
    BY CallTypes DEF ScheduleConn, CallType, NoCall
  <2> QED
    BY <2>1 DEF ScheduleConn, Inserts, RestOK
<1>5. ASSUME NEW q \in Proc \ {p}, Inserts(q), call[q].of = call[p].of
      PROVE  call[p].of \in raced'
  BY <1>5 DEF ScheduleConn, Inserts
<1>6. Waiting(call[p].of) = {}
  BY DEF ScheduleConn
<1>7. InsertInv'
  BY <1>1, <1>2, <1>4, <1>5, <1>6 DEF InsertInv, Inserts
<1> QED
  BY <1>3, <1>7

LEMMA AloneInserted ==
  ASSUME RowsOK, RestOK, NEW p \in Proc, ScheduleInsert(p), OneWaiting, InsertInv
  PROVE  OneWaiting' /\ InsertInv'
<1>0. PICK of \in Pair : of = call[p].of
  BY CallTypes DEF ScheduleInsert
<1>1. PICK v \in Row : v[1] = of /\ \A w \in Row \ {v} : Waits(w)' => Waits(w)
  BY <1>0, RowsInserted
<1>2. Inserts(p) /\ raced' = raced /\ ~Inserts(p)'
      /\ \A q \in Proc \ {p} : call'[q] = call[q]
  BY DEF ScheduleInsert, Inserts, RestOK
<1>3. \A x \in Pair : x # of => Waiting(x)' \subseteq Waiting(x)
  BY <1>1 DEF Waiting
<1>4. of \notin raced => Waiting(of) = {} /\ Waiting(of)' \subseteq {v}
  BY <1>0, <1>1, <1>2 DEF InsertInv, Waiting
<1>5. OneWaiting'
  BY <1>2, <1>3, <1>4 DEF OneWaiting
<1>6. ASSUME NEW q \in Proc, Inserts(q)', call'[q].of \notin raced'
      PROVE  (/\ Waiting(call[q].of) = {}
              /\ \A r \in Proc \ {q} : Inserts(r) => call[r].of # call[q].of)'
  <2>1. q # p /\ call'[q] = call[q] /\ Inserts(q)
    BY <1>2, <1>6 DEF Inserts
  <2>2. call[q].of # of /\ call[q].of \in Pair
    BY <1>0, <1>2, <1>6, <2>1, CallTypes DEF InsertInv, Inserts
  <2>3. \A r \in Proc \ {q} : Inserts(r)' => Inserts(r) /\ call'[r] = call[r]
    BY <1>2 DEF Inserts
  <2> QED
    BY <1>2, <1>3, <1>6, <2>1, <2>2, <2>3 DEF InsertInv
<1>7. InsertInv'
  BY <1>6 DEF InsertInv
<1> QED
  BY <1>5, <1>7

LEMMA AloneRevived ==
  ASSUME RowsOK, RestOK, NEW p \in Proc, ScheduleFails(p), OneWaiting, InsertInv
  PROVE  OneWaiting' /\ InsertInv'
<1>1. \A w \in Row : Waits(w)' => Waits(w) \/ w[1] = call[p].of
  BY RowsRevived
<1>2. raced' = raced \cup {call[p].of} /\ ~Inserts(p)'
      /\ \A q \in Proc \ {p} : call'[q] = call[q]
  BY DEF ScheduleFails, Inserts, RestOK
<1>3. \A x : x \notin raced' => Waiting(x)' \subseteq Waiting(x)
  BY <1>1, <1>2 DEF Waiting
<1>4. OneWaiting'
  BY <1>2, <1>3 DEF OneWaiting
<1>5. ASSUME NEW q \in Proc, Inserts(q)', call'[q].of \notin raced'
      PROVE  (/\ Waiting(call[q].of) = {}
              /\ \A r \in Proc \ {q} : Inserts(r) => call[r].of # call[q].of)'
  <2>1. q # p /\ call'[q] = call[q] /\ Inserts(q) /\ call[q].of \notin raced
    BY <1>2, <1>5 DEF Inserts
  <2>2. \A r \in Proc \ {q} : Inserts(r)' => Inserts(r) /\ call'[r] = call[r]
    BY <1>2 DEF Inserts
  <2> QED
    BY <1>3, <1>5, <2>1, <2>2 DEF InsertInv
<1>6. InsertInv'
  BY <1>5 DEF InsertInv
<1> QED
  BY <1>4, <1>6

-----------------------------------------------------------------------------
LEMMA Initially == Init => IInv
<1> SUFFICES ASSUME Init PROVE IInv
  OBVIOUS
<1> DEFINE first == CHOOSE x \in Slot : TRUE
<1>1. first \in Slot
  BY ConnectorAssumption
<1>2. /\ rows = [w \in Row |-> IF w[1][1] \in Linked /\ w[2] = first
                               THEN [status |-> "schedule", start |-> 0, end |-> 0, zero |-> TRUE]
                               ELSE NoRow]
      /\ latest = [p \in Pair |-> IF p[1] \in Linked THEN <<p, first>> ELSE NoRow]
  BY DEF Init
<1> HIDE DEF first
<1>3. /\ [status |-> "schedule", start |-> 0, end |-> 0, zero |-> TRUE] \in RowType
      /\ [status |-> "schedule", start |-> 0, end |-> 0, zero |-> TRUE] # NoRow
  <2>1. [status |-> "schedule", start |-> 0, end |-> 0, zero |-> TRUE] \in RowType
    BY DEF RowType
  <2> QED
    BY <2>1, NoRowAssumption
<1>4. rows \in [Row -> RowType \cup {NoRow}] /\ latest \in [Pair -> Row \cup {NoRow}]
  BY <1>1, <1>2, <1>3 DEF Row
<1>5. LatestInv
  BY <1>1, <1>2, <1>3 DEF LatestInv, Exists, Row, Pair
<1>6. TypeOK
  BY <1>4, ConnectorAssumption DEF Init, TypeOK, CallType
<1>7. TaskInv /\ InsertInv
  BY DEF Init, TaskInv, InsertInv, Inserts
<1>8. \A w \in Row : Exists(w) => w = <<w[1], first>>
  BY <1>2 DEF Row, Exists
<1>9. OneWaiting
  BY <1>8 DEF OneWaiting, Waiting, Waits
<1> QED
  BY <1>5, <1>6, <1>7, <1>9 DEF IInv

(* The steps other than ScheduleConn, ScheduleInsert and ScheduleFails.    *)
Plain ==
  \/ ListSync \/ ListPrune \/ NextTask \/ Start \/ Generate \/ Fetch \/ Batch
  \/ Snapshot \/ SnapshotFails \/ PruneDocs \/ Done \/ Fail \/ Crash \/ SetPruneFreq
  \/ \E q \in Req : \/ Ask(q) \/ CancelRows(q) \/ CancelConn(q) \/ DeleteConn(q)
                    \/ DeleteRows(q) \/ DeleteDocs(q) \/ PlanNext(q) \/ Answer(q)
                    \/ RequestDies(q)
  \/ \E p \in Proc : ScheduleTrim(p) \/ ScheduleExists(p)
  \/ \E d \in Doc : Change(d) \/ Remove(d)

LEMMA Split ==
  Next => Plain \/ \E p \in Proc : ScheduleConn(p) \/ ScheduleInsert(p) \/ ScheduleFails(p)
  BY DEF Next, Plain, Dispatcher, Request, Schedule, Proc

LEMMA PlainRows == ASSUME RowsOK, RestOK, Plain PROVE RowsOK' /\ NoneMore
<1>1. CASE UNCHANGED <<rows, latest>>
  BY <1>1, RowsKept
<1>2. CASE NextTask \/ Crash
  BY <1>2, RowsTidied DEF NextTask, Crash
<1>3. CASE Start \/ Done \/ Fail
  BY <1>3, RowsOfTask DEF RestOK
<1>4. CASE Batch
  BY <1>4, RowsOfBatch
<1>5. CASE \E q \in Req : CancelRows(q) \/ DeleteRows(q)
  BY <1>5, RowsCanceled, RowsDeleted
<1>6. CASE \E p \in Proc : ScheduleTrim(p)
  BY <1>6, RowsTrimmed
<1>7. CASE ListSync \/ ListPrune \/ Generate \/ Fetch \/ Snapshot \/ SnapshotFails \/ PruneDocs
  BY <1>1, <1>7 DEF ListSync, ListPrune, Generate, Fetch, Snapshot, SnapshotFails, PruneDocs,
                    tables
<1>8. CASE \E q \in Req : \/ Ask(q) \/ CancelConn(q) \/ DeleteConn(q) \/ DeleteDocs(q)
                          \/ PlanNext(q) \/ Answer(q) \/ RequestDies(q)
  BY <1>1, <1>8 DEF Ask, CancelConn, DeleteConn, DeleteDocs, PlanNext, Answer, RequestDies,
                    tables
<1>9. CASE \E p \in Proc : ScheduleExists(p)
  BY <1>1, <1>9 DEF ScheduleExists, tables
<1>10. CASE SetPruneFreq \/ \E d \in Doc : Change(d) \/ Remove(d)
  BY <1>1, <1>10 DEF Change, Remove, SetPruneFreq, tables
<1> QED
  BY <1>2, <1>3, <1>4, <1>5, <1>6, <1>7, <1>8, <1>9, <1>10 DEF Plain

LEMMA PlainRest == ASSUME RowsOK, RestOK, Plain PROVE RestOK'
<1>1. CASE ListSync \/ ListPrune \/ NextTask \/ Crash
  BY <1>1, RestOfRound
<1>2. CASE Start \/ Generate \/ Fetch \/ Snapshot \/ SnapshotFails \/ PruneDocs \/ Fail
  BY <1>2, RestOfTask, RestOfSnapshot
<1>3. CASE Batch \/ Done
  BY <1>3, RestOfBatch, RestOfDone
<1>4. CASE \E q \in Req : Ask(q) \/ CancelRows(q) \/ CancelConn(q)
  BY <1>4, RestOfAsk, RestOfCancel
<1>5. CASE \E q \in Req : DeleteConn(q) \/ DeleteRows(q) \/ DeleteDocs(q)
  BY <1>5, RestOfDelete
<1>6. CASE \E q \in Req : PlanNext(q) \/ Answer(q) \/ RequestDies(q)
  BY <1>6, RestOfPlan
<1>7. CASE \E p \in Proc : ScheduleTrim(p) \/ ScheduleExists(p)
  BY <1>7, RestOfSchedule
<1>8. CASE SetPruneFreq \/ \E d \in Doc : Change(d) \/ Remove(d)
  BY <1>8, RestOfSource
<1> QED
  BY <1>1, <1>2, <1>3, <1>4, <1>5, <1>6, <1>7, <1>8 DEF Plain

LEMMA PlainInserts == ASSUME RestOK, Plain PROVE NoMoreInserts
<1>1. raced \subseteq raced'
  BY DEF Plain, ListSync, ListPrune, NextTask, Start, Generate, Fetch, Batch, Snapshot,
         SnapshotFails, PruneDocs, Done, Fail, Crash, SetPruneFreq, Ask, CancelRows, CancelConn,
         DeleteConn, DeleteRows, DeleteDocs, PlanNext, Answer, RequestDies, ScheduleTrim,
         ScheduleExists, Change, Remove, history
<1>2. CASE call' = call
  BY <1>1, <1>2 DEF NoMoreInserts, Inserts
<1>3. CASE \E p \in Proc : call' = [call EXCEPT ![p] = NoCall]
  BY <1>1, <1>3 DEF NoMoreInserts, Inserts, RestOK
<1>4. CASE \E p \in Proc : \E of, s, n : Call(p, of, s, n)
  <2>1. PICK p \in Proc : \E of, s, n : Call(p, of, s, n)
    BY <1>4
  <2>2. ~Inserts(p)' /\ \A q \in Proc \ {p} : call'[q] = call[q]
    BY <2>1 DEF Call, Inserts, RestOK
  <2> QED
    BY <1>1, <2>2 DEF NoMoreInserts, Inserts
<1>5. Req \subseteq Proc /\ Syncer \in Proc
  BY DEF Proc
<1>6. CASE ListSync \/ ListPrune \/ NextTask \/ Start \/ Generate \/ Fetch \/ Batch \/ Snapshot
             \/ SnapshotFails \/ PruneDocs \/ Fail
  BY <1>2, <1>6 DEF ListSync, ListPrune, NextTask, Start, Generate, Fetch, Batch, Snapshot,
                    SnapshotFails, PruneDocs, Fail
<1>7. CASE Done
  BY <1>4, <1>5, <1>7 DEF Done
<1>8. CASE Crash \/ \E q \in Req : RequestDies(q)
  BY <1>3, <1>5, <1>8 DEF Crash, RequestDies
<1>9. CASE \E q \in Req : \/ Ask(q) \/ CancelRows(q) \/ CancelConn(q) \/ DeleteConn(q)
                          \/ DeleteRows(q) \/ DeleteDocs(q) \/ Answer(q)
  BY <1>2, <1>9 DEF Ask, CancelRows, CancelConn, DeleteConn, DeleteRows, DeleteDocs, Answer
<1>10. CASE \E q \in Req : PlanNext(q)
  BY <1>4, <1>5, <1>10 DEF PlanNext
<1>11. CASE \E p \in Proc : ScheduleTrim(p)
  BY <1>2, <1>11 DEF ScheduleTrim
<1>12. CASE \E p \in Proc : ScheduleExists(p)
  BY <1>3, <1>12 DEF ScheduleExists
<1>13. CASE SetPruneFreq \/ \E d \in Doc : Change(d) \/ Remove(d)
  BY <1>2, <1>13 DEF Change, Remove, SetPruneFreq
<1> QED
  BY <1>6, <1>7, <1>8, <1>9, <1>10, <1>11, <1>12, <1>13 DEF Plain

LEMMA Preserved == IInv /\ [Next]_vars => IInv'
<1> SUFFICES ASSUME RowsOK, RestOK, OneWaiting, InsertInv, [Next]_vars
             PROVE  RowsOK' /\ RestOK' /\ OneWaiting' /\ InsertInv'
  BY TypeParts, PTL DEF IInv
<1>1. CASE Plain
  BY <1>1, PlainRows, PlainRest, PlainInserts, AloneKept
<1>2. CASE \E p \in Proc : ScheduleConn(p)
  <2>1. PICK p \in Proc : ScheduleConn(p)
    BY <1>2
  <2>2. RowsOK'
    BY <2>1, RowsKept DEF ScheduleConn
  <2> QED
    BY <2>1, <2>2, RestOfSchedule, AloneToInsert
<1>3. CASE \E p \in Proc : ScheduleInsert(p)
  BY <1>3, RowsInserted, RestOfSchedule, AloneInserted
<1>4. CASE \E p \in Proc : ScheduleFails(p)
  BY <1>4, RowsRevived, RestOfSchedule, AloneRevived
<1>5. CASE UNCHANGED vars
  <2>1. RowsOK' /\ NoneMore
    BY <1>5, RowsKept DEF vars, tables
  <2>2. RestOK' /\ NoMoreInserts
    BY <1>5 DEF vars, tables, content, process, listing, request, history, RestOK, TaskInv,
                NoMoreInserts, Inserts
  <2> QED
    BY <2>1, <2>2, AloneKept
<1> QED
  BY <1>1, <1>2, <1>3, <1>4, <1>5, Split

(* Types, the latest row of a pair, the task of the process and who may    *)
(* insert a row stay in order through every schedule, cancel, rebuild,     *)
(* crash and error (SyncLogsService, sync_data_source.py).                 *)
THEOREM ConnectorInvariant == Spec => []IInv
<1>1. Init => IInv
  BY Initially
<1>2. IInv /\ [Next]_vars => IInv'
  BY Preserved
<1> QED
  BY <1>1, <1>2, PTL DEF Spec

(* SyncLogsService.schedule queries, writes the connector and inserts      *)
(* without a transaction, yet no dataset has two tasks of a type waiting   *)
(* unless two of its calls overlapped or one of its statements failed.     *)
THEOREM AtMostOneWaits == Spec => []OneWaiting
<1>1. IInv => OneWaiting
  BY DEF IInv
<1> QED
  BY <1>1, ConnectorInvariant, PTL

-----------------------------------------------------------------------------
(* What a step does to the windows of the rows: those that are left keep   *)
(* theirs, and the latest sync of a dataset ends where it ended, or is not *)
(* DONE any more.                                                          *)
Steady ==
  \A w \in Row : Exists(w)' =>
    /\ Exists(w) /\ rows'[w].start = rows[w].start /\ rows'[w].end = rows[w].end
    /\ Waits(w)' => Waits(w)

EndsKept == \A kb \in Kb : LatestEnd(kb)' \in {0, LatestEnd(kb)}

(* The rows that a step leaves alone, or forgets once they are finished.   *)
Others(W) ==
  \A w \in Row \ W : rows'[w] \in {rows[w], NoRow} /\ (Waits(w) => Waits(w)')

LEMMA SyncPair == ASSUME NEW kb \in Kb PROVE <<kb, "sync">> \in Pair
  BY DEF Pair, Type

LEMMA Rewritten ==
  ASSUME NEW set \in [Row -> RowType \cup {NoRow}], NEW held, rows' = Tidy(set, latest', held)
  PROVE  /\ \A w \in Row : rows'[w] \in {set[w], NoRow}
         /\ \A w \in Row : latest'[w[1]] = w => rows'[w] = set[w]
         /\ \A w \in Row : set[w] # NoRow /\ set[w].status \notin Finished
                            => rows'[w] = set[w]
  BY TidyRows

(* The rows of W have got the status s.                                    *)
Settled(W, s) ==
  /\ Steady /\ Others(W)
  /\ \A w \in W : Exists(w)' => rows'[w].status = s
  /\ \A kb \in Kb :
       \/ LatestEnd(kb)' \in {0, LatestEnd(kb)}
       \/ s = "done" /\ \E w \in W : /\ Exists(w) /\ w[1] = <<kb, "sync">>
                                     /\ LatestEnd(kb)' = rows[w].end

LEMMA StatusSteady ==
  ASSUME RowsOK, NEW W \in SUBSET Row, NEW s \in Finished \cup {"running"}, NEW held,
         latest' = Touch(W),
         rows' = Tidy([w \in Row |-> IF w \in W /\ Exists(w)
                                     THEN [rows[w] EXCEPT !.status = s, !.zero = FALSE]
                                     ELSE rows[w]], latest', held)
  PROVE  Settled(W, s)
<1> DEFINE set == [w \in Row |-> IF w \in W /\ Exists(w)
                                 THEN [rows[w] EXCEPT !.status = s, !.zero = FALSE]
                                 ELSE rows[w]]
<1>1. latest' = Touch(W) /\ rows' = Tidy(set, latest', held)
  OBVIOUS
<1>2. ASSUME NEW w \in Row
      PROVE  /\ set[w] \in RowType \cup {NoRow}
             /\ w \notin W => set[w] = rows[w]
             /\ ~Exists(w) => set[w] = NoRow
             /\ Exists(w) /\ w \in W =>
                  /\ set[w] # NoRow /\ set[w].status = s
                  /\ set[w].start = rows[w].start /\ set[w].end = rows[w].end
  <2>1. CASE w \in W /\ Exists(w)
    <3>1. rows[w] \in RowType
      BY <2>1 DEF RowsOK, Exists
    <3>2. set[w] \in RowType /\ set[w].status = s
          /\ set[w].start = rows[w].start /\ set[w].end = rows[w].end
      BY <2>1, <3>1, RowTypes DEF RowType
    <3> QED
      BY <2>1, <3>2, NoRowAssumption
  <2>2. CASE ~(w \in W /\ Exists(w))
    BY <2>2 DEF RowsOK, Exists
  <2> QED
    BY <2>1, <2>2
<1>3. set \in [Row -> RowType \cup {NoRow}]
  BY <1>2
<1> HIDE DEF set
<1>4. /\ \A w \in Row : rows'[w] \in {set[w], NoRow}
      /\ \A w \in Row : latest'[w[1]] = w => rows'[w] = set[w]
      /\ \A w \in Row : set[w] # NoRow /\ set[w].status \notin Finished => rows'[w] = set[w]
  BY <1>1, <1>3, Rewritten
<1>5. s # "schedule"
  BY DEF Finished
<1>6. Steady
  BY <1>2, <1>4, <1>5 DEF Steady, Exists, Waits
<1>7. Others(W)
  BY <1>2, <1>4 DEF Others, Exists, Waits, Finished
<1>8. \A w \in W : Exists(w)' => rows'[w].status = s
  BY <1>2, <1>4 DEF Exists
<1>9. ASSUME NEW kb \in Kb
      PROVE  \/ LatestEnd(kb)' \in {0, LatestEnd(kb)}
             \/ s = "done" /\ \E w \in W : /\ Exists(w) /\ w[1] = <<kb, "sync">>
                                           /\ LatestEnd(kb)' = rows[w].end
  <2> DEFINE p == <<kb, "sync">>
             V == {w \in W : Exists(w) /\ w[1] = p}
  <2>1. p \in Pair
    BY SyncPair
  <2>2. latest'[p] = IF V = {} THEN latest[p] ELSE CHOOSE w \in V : TRUE
    BY <1>1, <2>1 DEF Touch
  <2>3. LatestEnd(kb)' = IF latest'[p] # NoRow /\ rows'[latest'[p]].status = "done"
                         THEN rows'[latest'[p]].end ELSE 0
    BY DEF LatestEnd
  <2>4. CASE V = {}
    <3>1. latest'[p] = latest[p]
      BY <2>2, <2>4
    <3>2. CASE latest[p] # NoRow
      <4>1. latest[p] \in Row /\ latest[p][1] = p /\ Exists(latest[p])
        BY <2>1, <3>2 DEF RowsOK, LatestInv
      <4>2. rows'[latest[p]] = rows[latest[p]]
        BY <1>2, <1>4, <2>4, <3>1, <4>1
      <4> QED
        BY <2>3, <3>1, <4>2 DEF LatestEnd
    <3> QED
      BY <2>3, <3>1, <3>2
  <2>5. CASE V # {}
    <3>1. PICK u \in V : latest'[p] = u
      BY <2>2, <2>5
    <3>2. u \in Row /\ u \in W /\ Exists(u) /\ u[1] = p
      BY <3>1
    <3>3. rows'[u] = set[u] /\ set[u].status = s /\ set[u].end = rows[u].end
      BY <1>2, <1>4, <3>1, <3>2
    <3>4. u # NoRow
      BY <3>2, NoRowAssumption
    <3> QED
      BY <2>3, <3>1, <3>2, <3>3, <3>4
  <2> QED
    BY <2>4, <2>5
<1> QED
  BY <1>6, <1>7, <1>8, <1>9 DEF Settled

LEMMA TablesKept ==
  ASSUME RowsOK, UNCHANGED <<rows, latest>>
  PROVE  Steady /\ EndsKept /\ Others({})
  BY DEF Steady, EndsKept, Others, LatestEnd, Waits, Exists

LEMMA TablesTidied ==
  ASSUME RowsOK, NEW held, rows' = Tidy(rows, latest, held), latest' = latest
  PROVE  Steady /\ EndsKept /\ Others({})
<1>1. /\ \A w \in Row : rows'[w] \in {rows[w], NoRow}
      /\ \A w \in Row : latest'[w[1]] = w => rows'[w] = rows[w]
      /\ \A w \in Row : rows[w] # NoRow /\ rows[w].status \notin Finished => rows'[w] = rows[w]
  BY Rewritten DEF RowsOK
<1>2. Steady
  BY <1>1 DEF Steady, Waits, Exists
<1>3. Others({})
  BY <1>1 DEF Others, Waits, Exists, Finished
<1>4. EndsKept
  BY <1>1, SyncPair DEF EndsKept, LatestEnd, RowsOK, LatestInv
<1> QED
  BY <1>2, <1>3, <1>4

(* Rows of one dataset are deleted, whichever they are.                    *)
LEMMA TablesTrimmed ==
  ASSUME RowsOK, NEW p \in Proc, ScheduleTrim(p)
  PROVE  /\ Steady /\ EndsKept
         /\ \A w \in Row : /\ rows'[w] \in {rows[w], NoRow}
                           /\ w[1][1] # call[p].of[1] => rows'[w] = rows[w]
                           /\ Waits(w) /\ w[1][2] = "sync" => Waits(w)' \/ w[1][1] \in halted'
         /\ halted \subseteq halted'
<1>1. PICK W \in SUBSET Row :
        /\ rows' = [w \in Row |-> IF w \in W THEN NoRow ELSE rows[w]]
        /\ latest' = [of \in Pair |-> IF latest[of] \in W THEN NoRow ELSE latest[of]]
        /\ halted' = halted \cup {w[1][1] : w \in {v \in W : Waits(v) /\ v[1][2] = "sync"}}
        /\ \A w \in W : Exists(w) /\ w[1][1] = call[p].of[1]
  BY TrimmedRows
<1>2. \A w \in Row : /\ rows'[w] \in {rows[w], NoRow}
                     /\ w[1][1] # call[p].of[1] => rows'[w] = rows[w]
                     /\ Waits(w) /\ w[1][2] = "sync" => Waits(w)' \/ w[1][1] \in halted'
  <2> TAKE w \in Row
  <2>1. CASE w \in W
    BY <1>1, <2>1
  <2>2. CASE w \notin W
    BY <1>1, <2>2 DEF Waits, Exists
  <2> QED
    BY <2>1, <2>2
<1>3. Steady
  BY <1>2 DEF Steady, Waits, Exists
<1>4. ASSUME NEW kb \in Kb PROVE LatestEnd(kb)' \in {0, LatestEnd(kb)}
  <2>1. PICK p0 \in Pair : p0 = <<kb, "sync">>
    BY SyncPair
  <2>2. LatestEnd(kb)' = IF latest'[p0] # NoRow /\ rows'[latest'[p0]].status = "done"
                         THEN rows'[latest'[p0]].end ELSE 0
    BY <2>1 DEF LatestEnd
  <2>3. CASE latest[p0] \in W \/ latest[p0] = NoRow
    BY <1>1, <2>2, <2>3
  <2>4. CASE latest[p0] \notin W /\ latest[p0] # NoRow
    <3>1. latest'[p0] = latest[p0] /\ latest[p0] \in Row
      BY <1>1, <2>4 DEF RowsOK
    <3>2. rows'[latest[p0]] = rows[latest[p0]]
      BY <1>1, <2>4, <3>1
    <3> QED
      BY <2>1, <2>2, <3>1, <3>2 DEF LatestEnd
  <2> QED
    BY <2>3, <2>4
<1> QED
  BY <1>1, <1>2, <1>3, <1>4 DEF EndsKept

LEMMA TablesDeleted ==
  ASSUME RowsOK, NEW q \in Req, DeleteRows(q)
  PROVE  /\ Steady /\ EndsKept
         /\ \A w \in Row : /\ rows'[w] \in {rows[w], NoRow}
                           /\ w[1][1] \notin kbs[q] => rows'[w] = rows[w]
<1>1. /\ rows' = [w \in Row |-> IF Exists(w) /\ w[1][1] \in kbs[q] THEN NoRow ELSE rows[w]]
      /\ latest' = [p \in Pair |-> IF p[1] \in kbs[q] THEN NoRow ELSE latest[p]]
  BY DEF DeleteRows
<1>2. \A w \in Row : /\ rows'[w] \in {rows[w], NoRow}
                     /\ w[1][1] \notin kbs[q] => rows'[w] = rows[w]
  BY <1>1
<1>3. Steady
  BY <1>2 DEF Steady, Waits, Exists
<1>4. ASSUME NEW kb \in Kb PROVE LatestEnd(kb)' \in {0, LatestEnd(kb)}
  <2>1. <<kb, "sync">> \in Pair
    BY SyncPair
  <2>2. LatestEnd(kb)' = IF /\ latest'[<<kb, "sync">>] # NoRow
                            /\ rows'[latest'[<<kb, "sync">>]].status = "done"
                         THEN rows'[latest'[<<kb, "sync">>]].end ELSE 0
    BY DEF LatestEnd
  <2>3. CASE kb \in kbs[q]
    BY <1>1, <2>1, <2>2, <2>3
  <2>4. CASE kb \notin kbs[q]
    <3>1. latest'[<<kb, "sync">>] = latest[<<kb, "sync">>]
      BY <1>1, <2>1, <2>4
    <3> QED
      BY <1>2, <2>1, <2>2, <2>4, <3>1 DEF LatestEnd, RowsOK, LatestInv
  <2> QED
    BY <2>3, <2>4
<1> QED
  BY <1>2, <1>3, <1>4 DEF EndsKept

LEMMA TablesCanceled ==
  ASSUME RowsOK, NEW q \in Req, CancelRows(q)
  PROVE  /\ Steady /\ EndsKept
         /\ \A w \in Row : Exists(w)' => /\ Exists(w)
                                         /\ rows'[w].status \in {"cancel", rows[w].status}
         /\ \E kb \in kbs[q] :
              /\ Others({w \in Row : w[1][1] = kb})
              /\ \A w \in Row : Exists(w)' /\ w[1][1] = kb => rows'[w].status \in Finished
              /\ halted' = halted \cup {kb}
              /\ quiet' = IF InHand(kb) THEN quiet \ {kb} ELSE quiet \cup {kb}
<1>1. PICK kb \in kbs[q] :
        /\ UpdateRows(Canceled(kb), LAMBDA r : [r EXCEPT !.status = "cancel", !.zero = FALSE],
                      Held)
        /\ halted' = halted \cup {kb}
        /\ quiet' = IF InHand(kb) THEN quiet \ {kb} ELSE quiet \cup {kb}
  BY DEF CancelRows
<1>2. Canceled(kb) \in SUBSET Row /\ "cancel" \in Finished
  BY DEF Canceled, Finished
<1>0. Canceled(kb) \in SUBSET Row /\ "cancel" \in Finished \cup {"running"}
  BY <1>2
<1>set. Settled(Canceled(kb), "cancel")
  BY <1>1, <1>0, StatusSteady DEF UpdateRows
<1>3. /\ Steady /\ Others(Canceled(kb))
      /\ \A w \in Canceled(kb) : Exists(w)' => rows'[w].status = "cancel"
      /\ EndsKept
  BY <1>set DEF Settled, EndsKept
<1>4. Others({w \in Row : w[1][1] = kb})
  BY <1>3 DEF Others, Canceled
<1>5. ASSUME NEW w \in Row, Exists(w)', w[1][1] = kb
      PROVE  rows'[w].status \in Finished
  <2>1. CASE w \in Canceled(kb)
    BY <1>2, <1>3, <1>5, <2>1
  <2>2. CASE w \notin Canceled(kb)
    <3>1. rows'[w] = rows[w] /\ Exists(w)
      BY <1>3, <1>5, <2>2 DEF Others, Exists
    <3> QED
      BY <1>5, <2>2, <3>1 DEF Canceled, RowsOK, RowType, Exists
  <2> QED
    BY <2>1, <2>2
<1>6. \A w \in Row : Exists(w)' => Exists(w) /\ rows'[w].status \in {"cancel", rows[w].status}
  BY <1>3 DEF Others, Steady, Exists
<1> QED
  BY <1>1, <1>3, <1>4, <1>5, <1>6

LEMMA TablesOfTask ==
  ASSUME RowsOK, TaskInv
  PROVE  /\ Start => Settled({task.row}, "running")
         /\ Done => Settled({task.row}, "done")
         /\ Fail => Settled({task.row}, "fail")
<1>1. Start \/ Done \/ Fail => {task.row} \in SUBSET Row
  BY DEF Start, Done, Fail, TaskInv, TaskType
<1>2. {"running", "done", "fail"} \subseteq Finished \cup {"running"}
  BY DEF Finished
<1>3. ASSUME Start PROVE Settled({task.row}, "running")
  BY <1>1, <1>2, <1>3, StatusSteady DEF Start, UpdateRows
<1>4. ASSUME Done PROVE Settled({task.row}, "done")
  BY <1>1, <1>2, <1>4, StatusSteady DEF Done, UpdateRows
<1>5. ASSUME Fail PROVE Settled({task.row}, "fail")
  BY <1>1, <1>2, <1>5, StatusSteady DEF Fail, UpdateRows
<1> QED
  BY <1>3, <1>4, <1>5

LEMMA EndsSettled ==
  ASSUME NEW W, NEW s, Settled(W, s)
  PROVE  Steady /\ Others(W) /\ (s # "done" => EndsKept)
  BY DEF Settled, EndsKept

(* A batch moves the window of its task's row to n at most.                *)
Stretched(n) ==
  /\ Others({task.row})
  /\ \A w \in Row : Exists(w)' =>
       /\ Exists(w) /\ rows'[w].status = rows[w].status
       /\ rows'[w].start \in {rows[w].start, n} /\ rows'[w].end \in {rows[w].end, n}
  /\ \A w \in Row : Waits(w) => Waits(w)'
  /\ (Exists(task.row) /\ rows[task.row].status = "done") \/ EndsKept

LEMMA TablesOfBatch ==
  ASSUME RowsOK, task.row \in Row, NEW n \in Nat,
         UpdateRows({task.row}, LAMBDA r : [r EXCEPT !.start = Later(@, n),
                                                     !.end = Later(@, n),
                                                     !.zero = FALSE], Held)
  PROVE  Stretched(n)
<1> DEFINE u == task.row
           moved(r) == [r EXCEPT !.start = Later(r.start, n), !.end = Later(r.end, n),
                                 !.zero = FALSE]
           set == [w \in Row |-> IF w \in {u} /\ Exists(w) THEN moved(rows[w]) ELSE rows[w]]
<1>1. latest' = Touch({u}) /\ rows' = Tidy(set, latest', Held)
  BY DEF UpdateRows
<1>2. u \in Row
  OBVIOUS
<1>3. ASSUME NEW w \in Row
      PROVE  /\ set[w] \in RowType \cup {NoRow}
             /\ w # u => set[w] = rows[w]
             /\ ~Exists(w) => set[w] = NoRow
             /\ Exists(w) => /\ set[w] # NoRow /\ set[w].status = rows[w].status
                             /\ set[w].start \in {rows[w].start, n}
                             /\ set[w].end \in {rows[w].end, n}
  <2>1. CASE w = u /\ Exists(w)
    <3>1. PICK r \in RowType : r = rows[w]
      BY <2>1 DEF RowsOK, Exists
    <3>2. Later(r.start, n) \in {r.start, n} /\ Later(r.end, n) \in {r.end, n}
          /\ r.start \in Nat /\ r.end \in Nat
      BY <3>1 DEF Later, RowType
    <3>3. moved(r) \in RowType /\ moved(r).status = r.status
          /\ moved(r).start = Later(r.start, n) /\ moved(r).end = Later(r.end, n)
      BY <3>1, <3>2 DEF RowType
    <3>4. set[w] = moved(r)
      BY <2>1, <3>1
    <3> HIDE DEF moved, set
    <3> QED
      BY <2>1, <3>1, <3>2, <3>3, <3>4, NoRowAssumption
  <2>2. CASE ~(w = u /\ Exists(w))
    BY <2>2 DEF RowsOK, Exists
  <2> QED
    BY <2>1, <2>2
<1>4. set \in [Row -> RowType \cup {NoRow}]
  BY <1>3
<1> HIDE DEF set, moved, u
<1>5. /\ \A w \in Row : rows'[w] \in {set[w], NoRow}
      /\ \A w \in Row : latest'[w[1]] = w => rows'[w] = set[w]
      /\ \A w \in Row : set[w] # NoRow /\ set[w].status \notin Finished => rows'[w] = set[w]
  BY <1>1, <1>4, Rewritten
<1>6. Others({u})
  BY <1>3, <1>5 DEF Others, Exists, Waits, Finished
<1>7. \A w \in Row : Exists(w)' =>
        /\ Exists(w) /\ rows'[w].status = rows[w].status
        /\ rows'[w].start \in {rows[w].start, n} /\ rows'[w].end \in {rows[w].end, n}
  BY <1>3, <1>5 DEF Exists
<1>8. ASSUME NEW w \in Row, Waits(w) PROVE Waits(w)'
  <2>1. set[w] # NoRow /\ set[w].status = "schedule"
    BY <1>2, <1>3, <1>8 DEF Waits
  <2>2. rows'[w] = set[w]
    BY <1>2, <1>5, <2>1 DEF Finished
  <2> QED
    BY <2>1, <2>2 DEF Waits, Exists
<1>9. ASSUME ~(Exists(u) /\ rows[u].status = "done"), NEW kb \in Kb
      PROVE  LatestEnd(kb)' \in {0, LatestEnd(kb)}
  <2> DEFINE p == <<kb, "sync">>
  <2>1. p \in Pair
    BY SyncPair
  <2>2. latest'[p] = IF {w \in {u} : Exists(w) /\ w[1] = p} = {} THEN latest[p]
                     ELSE CHOOSE w \in {w \in {u} : Exists(w) /\ w[1] = p} : TRUE
    BY <1>1, <2>1 DEF Touch
  <2>3. LatestEnd(kb)' = IF latest'[p] # NoRow /\ rows'[latest'[p]].status = "done"
                         THEN rows'[latest'[p]].end ELSE 0
    BY DEF LatestEnd
  <2>4. CASE Exists(u) /\ u[1] = p
    <3>1. latest'[p] = u
      BY <2>2, <2>4
    <3>2. rows'[u] = set[u] /\ set[u].status = rows[u].status
      BY <1>2, <1>3, <1>5, <2>4, <3>1
    <3> QED
      BY <1>9, <2>3, <2>4, <3>1, <3>2
  <2>5. CASE ~(Exists(u) /\ u[1] = p)
    <3>1. latest'[p] = latest[p]
      BY <2>2, <2>5
    <3>2. CASE latest[p] # NoRow
      <4>1. latest[p] \in Row /\ latest[p][1] = p /\ Exists(latest[p])
        BY <2>1, <3>2 DEF RowsOK, LatestInv
      <4>2. rows'[latest[p]] = rows[latest[p]]
        BY <1>3, <1>5, <2>5, <3>1, <4>1
      <4> QED
        BY <2>3, <3>1, <4>2 DEF LatestEnd
    <3> QED
      BY <2>3, <3>1, <3>2
  <2> QED
    BY <2>4, <2>5
<1> QED
  BY <1>6, <1>7, <1>8, <1>9 DEF Stretched, EndsKept, u

(* What a call of schedule does to the tables at its end.                  *)
NewRow(v, p) ==
  /\ v \in Row /\ v[1] = call[p].of /\ ~Exists(v)
  /\ Others({v}) /\ EndsKept
  /\ Waits(v)' /\ rows'[v].start = call[p].start /\ rows'[v].end = 0

LEMMA TablesInserted ==
  ASSUME RowsOK, RestOK, NEW p \in Proc, ScheduleInsert(p)
  PROVE  \E v : NewRow(v, p)
<1> DEFINE of == call[p].of
           free == {u \in {of} \X Slot : ~Exists(u) /\ u \notin Held}
           new == [status |-> "schedule", start |-> call[p].start, end |-> 0,
                   zero |-> call[p].now]
<1>1. PICK v : /\ v \in free
               /\ latest' = IF call[p].now /\ latest[of] # NoRow THEN latest
                            ELSE [latest EXCEPT ![of] = v]
               /\ rows' = Tidy([rows EXCEPT ![v] = new], latest', Held)
  <2>1. free # {}
    BY DEF ScheduleInsert
  <2>2. (CHOOSE u \in {of} \X Slot : ~Exists(u) /\ u \notin Held) \in free
    BY <2>1
  <2> QED
    BY <2>2 DEF ScheduleInsert
<1>2. call[p] \in CallType \ {NoCall}
  BY DEF RestOK, ScheduleInsert
<1>3. of \in Pair /\ new \in RowType
  BY <1>2 DEF CallType, NoCall, RowType
<1>4. v \in Row /\ v[1] = of /\ ~Exists(v)
  BY <1>1, <1>3 DEF Row
<1> DEFINE set == [rows EXCEPT ![v] = new]
<1>5. set \in [Row -> RowType \cup {NoRow}] /\ set[v] = new /\ new # NoRow
      /\ \A w \in Row \ {v} : set[w] = rows[w]
  BY <1>3, <1>4, NoRowAssumption DEF RowsOK
<1>6. \A q \in Pair : latest'[q] = latest[q] \/ latest'[q] = v
  BY <1>1, <1>3, <1>4 DEF RowsOK
<1>7. new.status = "schedule" /\ new.start = call[p].start /\ new.end = 0
  OBVIOUS
<1>8. rows' = Tidy(set, latest', Held)
  BY <1>1
<1> HIDE DEF set, new, of, free
<1>9. /\ \A w \in Row : rows'[w] \in {set[w], NoRow}
      /\ \A w \in Row : latest'[w[1]] = w => rows'[w] = set[w]
      /\ \A w \in Row : set[w] # NoRow /\ set[w].status \notin Finished => rows'[w] = set[w]
  BY <1>5, <1>8, Rewritten
<1>10. rows'[v] = new
  BY <1>4, <1>5, <1>7, <1>9 DEF Finished
<1>11. Others({v})
  BY <1>5, <1>9 DEF Others, Exists, Waits, Finished
<1>12. ASSUME NEW kb \in Kb PROVE LatestEnd(kb)' \in {0, LatestEnd(kb)}
  <2> DEFINE q == <<kb, "sync">>
  <2>1. q \in Pair
    BY SyncPair
  <2>2. LatestEnd(kb)' = IF latest'[q] # NoRow /\ rows'[latest'[q]].status = "done"
                         THEN rows'[latest'[q]].end ELSE 0
    BY DEF LatestEnd
  <2>3. CASE latest'[q] = v
    BY <1>7, <1>10, <2>2, <2>3
  <2>4. CASE latest'[q] = latest[q] /\ latest[q] # NoRow /\ latest[q] # v
    <3>1. latest[q] \in Row /\ latest[q][1] = q /\ Exists(latest[q])
      BY <2>1, <2>4 DEF RowsOK, LatestInv
    <3>2. rows'[latest[q]] = rows[latest[q]]
      BY <1>5, <1>9, <2>4, <3>1
    <3> QED
      BY <2>2, <2>4, <3>2 DEF LatestEnd
  <2>5. CASE latest'[q] = latest[q] /\ latest[q] = NoRow
    BY <2>2, <2>5
  <2> QED
    BY <1>6, <2>1, <2>3, <2>4, <2>5
<1>13. Waits(v)' /\ rows'[v].start = call[p].start /\ rows'[v].end = 0
  BY <1>5, <1>7, <1>10 DEF Waits, Exists
<1>14. v[1] = call[p].of
  BY <1>4 DEF of
<1> QED
  BY <1>4, <1>11, <1>12, <1>13, <1>14 DEF NewRow, EndsKept

OldRow(u, p) ==
  /\ u \in Row /\ u = latest[call[p].of] /\ u[1] = call[p].of /\ Exists(u)
  /\ Others({u}) /\ EndsKept
  /\ Waits(u)' /\ rows'[u].start = call[p].start /\ rows'[u].end = rows[u].end

LEMMA TablesRevived ==
  ASSUME RowsOK, RestOK, NEW p \in Proc, ScheduleFails(p), latest[call[p].of] # NoRow
  PROVE  \E u : OldRow(u, p)
<1>1. call[p] \in CallType \ {NoCall}
  BY DEF RestOK, ScheduleFails
<1>2. PICK n \in Nat : n = call[p].start
  BY <1>1 DEF CallType, NoCall
<1>3. PICK of \in Pair : of = call[p].of
  BY <1>1 DEF CallType, NoCall
<1>4. PICK u \in Row : u = latest[of] /\ u[1] = of /\ Exists(u)
  BY <1>3 DEF RowsOK, LatestInv
<1> DEFINE moved(r) == [r EXCEPT !.status = "schedule", !.zero = FALSE, !.start = n]
           set == [w \in Row |-> IF w \in {u} /\ Exists(w) THEN moved(rows[w]) ELSE rows[w]]
<1>5. latest' = Touch({u}) /\ rows' = Tidy(set, latest', Held)
  BY <1>2, <1>3, <1>4 DEF ScheduleFails, UpdateRows
<1>6. /\ set \in [Row -> RowType \cup {NoRow}]
      /\ \A w \in Row \ {u} : set[w] = rows[w]
      /\ set[u] # NoRow /\ set[u].status = "schedule" /\ set[u].start = n
      /\ set[u].end = rows[u].end
  <2>1. PICK r \in RowType : r = rows[u]
    BY <1>4 DEF RowsOK, Exists
  <2>2. moved(r) \in RowType /\ moved(r).status = "schedule" /\ moved(r).start = n
        /\ moved(r).end = r.end
    BY <1>2 DEF RowType
  <2>3. set[u] = moved(r) /\ \A w \in Row \ {u} : set[w] = rows[w]
    BY <1>4, <2>1
  <2>4. \A w \in Row : set[w] \in RowType \cup {NoRow}
    <3>1. \A w \in Row \ {u} : set[w] \in RowType \cup {NoRow}
      BY <2>3 DEF RowsOK
    <3> QED
      BY <2>2, <2>3, <3>1
  <2>5. set \in [Row -> RowType \cup {NoRow}]
    BY <2>4
  <2> HIDE DEF set, moved
  <2> QED
    BY <2>1, <2>2, <2>3, <2>5, NoRowAssumption
<1> HIDE DEF set, moved
<1>7. /\ \A w \in Row : rows'[w] \in {set[w], NoRow}
      /\ \A w \in Row : latest'[w[1]] = w => rows'[w] = set[w]
      /\ \A w \in Row : set[w] # NoRow /\ set[w].status \notin Finished => rows'[w] = set[w]
  BY <1>5, <1>6, Rewritten
<1>8. rows'[u] = set[u]
  BY <1>6, <1>7 DEF Finished
<1>9. Others({u})
  BY <1>6, <1>7 DEF Others, Exists, Waits, Finished
<1>10. ASSUME NEW kb \in Kb PROVE LatestEnd(kb)' \in {0, LatestEnd(kb)}
  <2> DEFINE q == <<kb, "sync">>
  <2>1. q \in Pair
    BY SyncPair
  <2>2. latest'[q] = IF {w \in {u} : Exists(w) /\ w[1] = q} = {} THEN latest[q]
                     ELSE CHOOSE w \in {w \in {u} : Exists(w) /\ w[1] = q} : TRUE
    BY <1>5, <2>1 DEF Touch
  <2>3. LatestEnd(kb)' = IF latest'[q] # NoRow /\ rows'[latest'[q]].status = "done"
                         THEN rows'[latest'[q]].end ELSE 0
    BY DEF LatestEnd
  <2>4. CASE u[1] = q
    <3>1. latest'[q] = u
      BY <1>4, <2>2, <2>4
    <3> QED
      BY <1>6, <1>8, <2>3, <3>1
  <2>5. CASE u[1] # q
    <3>1. latest'[q] = latest[q]
      BY <2>2, <2>5
    <3>2. CASE latest[q] # NoRow
      <4>1. latest[q] \in Row /\ latest[q][1] = q /\ Exists(latest[q])
        BY <2>1, <3>2 DEF RowsOK, LatestInv
      <4>2. rows'[latest[q]] = rows[latest[q]]
        BY <1>6, <1>7, <2>5, <3>1, <4>1
      <4> QED
        BY <2>3, <3>1, <4>2 DEF LatestEnd
    <3> QED
      BY <2>3, <3>1, <3>2
  <2> QED
    BY <2>4, <2>5
<1>11. Waits(u)' /\ rows'[u].start = n /\ rows'[u].end = rows[u].end
  BY <1>6, <1>8 DEF Waits, Exists
<1> QED
  BY <1>2, <1>3, <1>4, <1>9, <1>10, <1>11 DEF OldRow, EndsKept

-----------------------------------------------------------------------------
(* Who has what in hand.                                                   *)
LEMMA ReqProc == Syncer \in Proc /\ \A q \in Req : q \in Proc /\ q # Syncer
  BY ConnectorAssumption DEF Proc

(* The calls of schedule after a step: it ends one, begins one, or lets    *)
(* one go on.                                                              *)
Calls(p) ==
  /\ \A r \in Proc \ {p} : call'[r] = call[r]
  /\ call'[p] # NoCall => /\ call[p] # NoCall /\ call'[p].of = call[p].of
                          /\ call'[p].start = call[p].start

LEMMA CallsOfSchedule ==
  ASSUME RestOK, NEW p \in Proc,
         ScheduleTrim(p) \/ ScheduleExists(p) \/ ScheduleConn(p) \/ ScheduleInsert(p)
           \/ ScheduleFails(p)
  PROVE  /\ Calls(p) /\ call[p] # NoCall
         /\ UNCHANGED <<process, rpc, kind, kbs, plan, content, linked>>
<1>1. UNCHANGED <<process, rpc, kind, kbs, plan, content, linked>> /\ call[p] # NoCall
  BY DEF ScheduleTrim, ScheduleExists, ScheduleConn, ScheduleInsert, ScheduleFails, tables,
         request
<1>2. CASE ScheduleConn(p)
  <2>1. call' = [call EXCEPT ![p].pc = "insert"]
    BY <1>2 DEF ScheduleConn
  <2>2. [call[p] EXCEPT !.pc = "insert"].of = call[p].of
        /\ [call[p] EXCEPT !.pc = "insert"].start = call[p].start
    BY <1>1, CallTypes
  <2> QED
    BY <1>1, <2>1, <2>2 DEF Calls, RestOK
<1>3. CASE call' = [call EXCEPT ![p] = NoCall] \/ call' = call
  BY <1>1, <1>3 DEF Calls, RestOK
<1>4. ScheduleTrim(p) \/ ScheduleExists(p) \/ ScheduleInsert(p) \/ ScheduleFails(p)
        => call' = [call EXCEPT ![p] = NoCall] \/ call' = call
  BY DEF ScheduleTrim, ScheduleExists, ScheduleInsert, ScheduleFails
<1> QED
  BY <1>1, <1>2, <1>3, <1>4

LEMMA CallMade ==
  ASSUME RestOK, NEW p \in Proc, NEW of, NEW s, NEW n, Call(p, of, s, n)
  PROVE  /\ \A q \in Proc \ {p} : call'[q] = call[q]
         /\ call'[p] # NoCall /\ call'[p].of = of /\ call'[p].start = s
         /\ call'[p].pc = "check"
  BY DEF Call, RestOK, NoCall

ProcessInv ==
  /\ dpc = "list" => due = {}
  /\ dpc \in {"list", "listprune"} => task = NoTask
  /\ dpc \in {"generate", "batch"} => task.row[1][2] = "sync"
  /\ dpc \in {"snapshot", "prune", "done"} => task.row[1][2] = "prune"
  /\ call[Syncer] # NoCall => /\ dpc = "next" /\ task # NoTask
                              /\ call[Syncer].of = task.row[1]

RequestInv ==
  \A q \in Req : /\ call[q] # NoCall => rpc[q] = "plan"
                 /\ rpc[q] \in {"idle", "cancel", "delete"} => plan[q] = {}

LEMMA StepParts == StepInv <=> ProcessInv /\ RequestInv
  BY DEF StepInv, ProcessInv, RequestInv

LEMMA ProcessKept ==
  ASSUME RestOK, StepInv, Next
  PROVE  ProcessInv'
<1>1. ProcessInv /\ \A q \in Req : q \in Proc /\ q # Syncer
  BY StepParts, ReqProc
<1>2. ASSUME UNCHANGED <<dpc, due, task>>,
             call'[Syncer] # NoCall => /\ call[Syncer] # NoCall
                                       /\ call'[Syncer].of = call[Syncer].of
      PROVE  ProcessInv'
  BY <1>1, <1>2 DEF ProcessInv
<1>3. CASE \E p \in Proc : \/ ScheduleTrim(p) \/ ScheduleExists(p) \/ ScheduleConn(p)
                           \/ ScheduleInsert(p) \/ ScheduleFails(p)
  <2>1. PICK p \in Proc : \/ ScheduleTrim(p) \/ ScheduleExists(p) \/ ScheduleConn(p)
                          \/ ScheduleInsert(p) \/ ScheduleFails(p)
    BY <1>3
  <2> QED
    BY <1>2, <2>1, CallsOfSchedule, ReqProc DEF Calls, process
<1>4. CASE \E q \in Req : \/ Ask(q) \/ CancelRows(q) \/ CancelConn(q) \/ DeleteConn(q)
                          \/ DeleteRows(q) \/ DeleteDocs(q) \/ Answer(q)
  BY <1>2, <1>4 DEF Ask, CancelRows, CancelConn, DeleteConn, DeleteRows, DeleteDocs, Answer,
                    process
<1>5. CASE \E q \in Req : PlanNext(q)
  <2>1. PICK q \in Req : PlanNext(q)
    BY <1>5
  <2>2. PICK of, s, n : Call(q, of, s, n)
    BY <2>1 DEF PlanNext
  <2>3. call'[Syncer] = call[Syncer]
    BY <1>1, <2>2, CallMade, ReqProc
  <2> QED
    BY <1>2, <2>1, <2>3 DEF PlanNext, process
<1>6. CASE \E q \in Req : RequestDies(q)
  BY <1>1, <1>2, <1>6, ReqProc DEF RequestDies, process, RestOK
<1>7. CASE SetPruneFreq \/ \E d \in Doc : Change(d) \/ Remove(d)
  BY <1>2, <1>7 DEF Change, Remove, SetPruneFreq, process
<1>8. CASE ListSync \/ ListPrune
  BY <1>1, <1>8 DEF ListSync, ListPrune, ProcessInv
<1>9. CASE NextTask
  BY <1>1, <1>9 DEF NextTask, ProcessInv
<1>10. CASE Start
  BY <1>1, <1>10, PairOfRow DEF Start, ProcessInv, RestOK, TaskInv, TaskType, Type
<1>11. CASE Generate \/ Fetch \/ Snapshot \/ SnapshotFails \/ PruneDocs
  BY <1>1, <1>11 DEF Generate, Fetch, Snapshot, SnapshotFails, PruneDocs, ProcessInv
<1>12. CASE Batch
  BY <1>1, <1>12 DEF Batch, ProcessInv
<1>13. CASE Done
  <2>1. Call(Syncer, task.row[1], next, FALSE) /\ UNCHANGED <<due, task>> /\ dpc' = "next"
    BY <1>13 DEF Done
  <2>2. call'[Syncer].of = task.row[1]
    BY <2>1, CallMade, ReqProc
  <2>3. task # NoTask
    BY <1>13, NoRowAssumption DEF Done, RestOK, TaskInv, TaskType, NoTask
  <2> QED
    BY <2>1, <2>2, <2>3 DEF ProcessInv
<1>14. CASE Fail
  BY <1>1, <1>14 DEF Fail, ProcessInv
<1>15. CASE Crash
  BY <1>1, <1>15, ReqProc DEF Crash, ProcessInv, RestOK
<1> QED
  BY <1>3, <1>4, <1>5, <1>6, <1>7, <1>8, <1>9, <1>10, <1>11, <1>12, <1>13, <1>14, <1>15, Split
     DEF Plain

LEMMA RequestsKept ==
  ASSUME RestOK, StepInv, Next
  PROVE  RequestInv'
<1>1. RequestInv /\ \A q \in Req : q \in Proc /\ q # Syncer
  BY StepParts, ReqProc
<1>2. ASSUME UNCHANGED <<rpc, plan>>,
             \A q \in Req : call'[q] # NoCall => call[q] # NoCall
      PROVE  RequestInv'
  BY <1>1, <1>2 DEF RequestInv
<1>3. CASE \E p \in Proc : \/ ScheduleTrim(p) \/ ScheduleExists(p) \/ ScheduleConn(p)
                           \/ ScheduleInsert(p) \/ ScheduleFails(p)
  <2>1. PICK p \in Proc : \/ ScheduleTrim(p) \/ ScheduleExists(p) \/ ScheduleConn(p)
                          \/ ScheduleInsert(p) \/ ScheduleFails(p)
    BY <1>3
  <2> QED
    BY <1>1, <1>2, <2>1, CallsOfSchedule DEF Calls
<1>4. CASE ListSync \/ ListPrune \/ NextTask \/ Start \/ Generate \/ Fetch \/ Batch \/ Snapshot
             \/ SnapshotFails \/ PruneDocs \/ Fail \/ SetPruneFreq \/ \E d \in Doc : Change(d)
             \/ Remove(d)
  BY <1>2, <1>4 DEF ListSync, ListPrune, NextTask, Start, Generate, Fetch, Batch, Snapshot,
                    SnapshotFails, PruneDocs, Fail, Change, Remove, SetPruneFreq, request
<1>5. CASE Done
  <2>1. Call(Syncer, task.row[1], next, FALSE) /\ UNCHANGED request
    BY <1>5 DEF Done
  <2>2. \A q \in Req : call'[q] = call[q]
    BY <1>1, <2>1, CallMade, ReqProc
  <2> QED
    BY <1>2, <2>1, <2>2 DEF request
<1>6. CASE Crash
  BY <1>1, <1>2, <1>6 DEF Crash, request, RestOK
<1>7. CASE \E q \in Req : Ask(q)
  <2>1. PICK q \in Req : Ask(q)
    BY <1>7
  <2>2. rpc[q] = "idle" /\ call' = call
        /\ \A r \in Req \ {q} : rpc'[r] = rpc[r] /\ plan'[r] = plan[r]
    BY <2>1 DEF Ask, RestOK
  <2>3. rpc'[q] \in {"plan", "rmrows"} \/ (rpc'[q] = "cancel" /\ plan' = plan)
    BY <2>1 DEF Ask, RestOK
  <2>4. call[q] = NoCall /\ plan[q] = {}
    BY <1>1, <2>2 DEF RequestInv
  <2>5. ASSUME NEW r \in Req
        PROVE  /\ call'[r] # NoCall => rpc'[r] = "plan"
               /\ rpc'[r] \in {"idle", "cancel", "delete"} => plan'[r] = {}
    <3>1. CASE r = q
      BY <2>2, <2>3, <2>4, <3>1
    <3>2. CASE r # q
      BY <1>1, <2>2, <3>2 DEF RequestInv
    <3> QED
      BY <3>1, <3>2
  <2> QED
    BY <2>5 DEF RequestInv
<1>8. CASE \E q \in Req : CancelRows(q)
  BY <1>2, <1>8 DEF CancelRows
<1>9. CASE \E q \in Req : CancelConn(q)
  <2>1. PICK q \in Req : CancelConn(q)
    BY <1>9
  <2>2. rpc[q] = "cancel" /\ call' = call
        /\ \A r \in Req \ {q} : rpc'[r] = rpc[r] /\ plan'[r] = plan[r]
    BY <2>1 DEF CancelConn, RestOK
  <2>3. rpc'[q] = "plan" \/ plan'[q] = {}
    BY <2>1 DEF CancelConn, RestOK
  <2>4. call[q] = NoCall
    BY <1>1, <2>2 DEF RequestInv
  <2> QED
    BY <1>1, <2>2, <2>3, <2>4 DEF RequestInv
<1>10. CASE \E q \in Req : DeleteConn(q) \/ DeleteRows(q) \/ DeleteDocs(q)
  <2>1. PICK q \in Req : DeleteConn(q) \/ DeleteRows(q) \/ DeleteDocs(q)
    BY <1>10
  <2>2. UNCHANGED <<call, plan>> /\ \A r \in Req \ {q} : rpc'[r] = rpc[r]
    BY <2>1 DEF DeleteConn, DeleteRows, DeleteDocs, RestOK
  <2>3. \/ rpc[q] = "delete" /\ rpc'[q] = "idle"
        \/ rpc[q] # "plan" /\ rpc'[q] \in {"rmdocs", "plan"}
    BY <2>1 DEF DeleteConn, DeleteRows, DeleteDocs, RestOK
  <2> QED
    BY <1>1, <2>2, <2>3 DEF RequestInv
<1>11. CASE \E q \in Req : PlanNext(q)
  <2>1. PICK q \in Req : PlanNext(q)
    BY <1>11
  <2>2. PICK of, s, n : Call(q, of, s, n)
    BY <2>1 DEF PlanNext
  <2>3. \A r2 \in Proc \ {q} : call'[r2] = call[r2]
    BY <1>1, <2>2, CallMade
  <2>4. rpc' = rpc /\ rpc[q] = "plan" /\ \A r2 \in Req \ {q} : plan'[r2] = plan[r2]
    BY <2>1 DEF PlanNext, RestOK
  <2> QED
    BY <1>1, <2>3, <2>4 DEF RequestInv
<1>12. CASE \E q \in Req : Answer(q) \/ RequestDies(q)
  <2>1. PICK q \in Req : Answer(q) \/ RequestDies(q)
    BY <1>12
  <2>2. /\ call'[q] = NoCall /\ plan'[q] = {}
        /\ \A r \in Req \ {q} : rpc'[r] = rpc[r] /\ plan'[r] = plan[r] /\ call'[r] = call[r]
    BY <1>1, <2>1 DEF Answer, RequestDies, RestOK
  <2> QED
    BY <1>1, <2>2 DEF RequestInv
<1> QED
  BY <1>3, <1>4, <1>5, <1>6, <1>7, <1>8, <1>9, <1>10, <1>11, <1>12, Split DEF Plain

-----------------------------------------------------------------------------
(* A cancel holds: what is quiet nobody has in hand.                       *)
LEMMA TaskInHand == ASSUME task \in TaskType PROVE task.row \in Row /\ InHand(task.row[1][1])
<1>1. task.row \in Row /\ task.row \in Held /\ task.row # NoRow
  BY NoRowAssumption DEF TaskType, Held
<1> QED
  BY <1>1 DEF InHand

LEMMA CallInHand == ASSUME NEW p \in Proc, call[p] # NoCall PROVE InHand(call[p].of[1])
  BY DEF InHand

(* The datasets of which no step but List, Done and PlanNext takes         *)
(* anything in hand.                                                       *)
NoNewHands == \A kb : InHand(kb)' => InHand(kb)

LEMMA HandsKept ==
  ASSUME RestOK, Held' \subseteq Held \cup {NoRow},
         \A p \in Proc : call'[p] # NoCall => call[p] # NoCall /\ call'[p].of = call[p].of
  PROVE  NoNewHands
  BY DEF NoNewHands, InHand

LEMMA HandsOfSchedule ==
  ASSUME RestOK, NEW p \in Proc,
         ScheduleTrim(p) \/ ScheduleExists(p) \/ ScheduleConn(p) \/ ScheduleInsert(p)
           \/ ScheduleFails(p)
  PROVE  NoNewHands /\ InHand(call[p].of[1]) /\ quiet' = quiet
<1>1. Held' = Held
  BY CallsOfSchedule DEF process, Held
<1>2. NoNewHands
  BY <1>1, CallsOfSchedule, HandsKept DEF Calls
<1>3. quiet' = quiet
  BY DEF ScheduleTrim, ScheduleExists, ScheduleConn, ScheduleInsert, ScheduleFails, history
<1> QED
  BY <1>2, <1>3, CallsOfSchedule, CallInHand

(* The rows of a dataset are none but old ones, or finished.               *)
StillFinished(kb) ==
  \A w \in Row : w[1][1] = kb => rows'[w] \in {rows[w], NoRow}

LEMMA QuietSteps ==
  ASSUME QuietInv, CancelHolds, quiet' \subseteq quiet,
         \A kb \in quiet' : StillFinished(kb) /\ ~InHand(kb)'
  PROVE  QuietInv' /\ CancelHolds'
<1>1. QuietInv'
  BY DEF QuietInv
<1>2. CancelHolds'
  BY DEF CancelHolds, StillFinished, Exists
<1> QED
  BY <1>1, <1>2

LEMMA QuietOfRows ==
  ASSUME QuietInv, CancelHolds, NoNewHands, quiet' = quiet,
         \A kb \in quiet : StillFinished(kb)
  PROVE  QuietInv' /\ CancelHolds'
  BY QuietSteps DEF NoNewHands, QuietInv

LEMMA QuietKept ==
  ASSUME RowsOK, RestOK, StepInv, QuietInv, CancelHolds, Next
  PROVE  QuietInv' /\ CancelHolds'
<1>1. ASSUME UNCHANGED <<rows, latest>> PROVE \A kb : StillFinished(kb)
  BY <1>1 DEF StillFinished
<1>2. \A W : Others(W) => \A kb : (\A w \in W : w[1][1] # kb) => StillFinished(kb)
  BY DEF Others, StillFinished
<1>3. CASE \E p \in Proc : \/ ScheduleTrim(p) \/ ScheduleExists(p) \/ ScheduleConn(p)
                           \/ ScheduleInsert(p) \/ ScheduleFails(p)
  <2>1. PICK p \in Proc : \/ ScheduleTrim(p) \/ ScheduleExists(p) \/ ScheduleConn(p)
                          \/ ScheduleInsert(p) \/ ScheduleFails(p)
    BY <1>3
  <2>2. NoNewHands /\ quiet' = quiet /\ call[p].of[1] \notin quiet
    BY <2>1, HandsOfSchedule DEF QuietInv
  <2>3. CASE ScheduleExists(p) \/ ScheduleConn(p)
    BY <1>1, <2>2, <2>3, QuietOfRows DEF ScheduleExists, ScheduleConn, tables
  <2>4. CASE ScheduleTrim(p)
    BY <2>2, <2>4, TablesTrimmed, QuietOfRows DEF StillFinished
  <2>5. CASE ScheduleInsert(p)
    <3>1. PICK v : NewRow(v, p)
      BY <2>5, TablesInserted
    <3> QED
      BY <1>2, <2>2, <3>1, QuietOfRows DEF NewRow
  <2>6. CASE ScheduleFails(p)
    <3>1. CASE latest[call[p].of] = NoRow
      BY <1>1, <2>2, <2>6, <3>1, QuietOfRows DEF ScheduleFails
    <3>2. CASE latest[call[p].of] # NoRow
      <4>1. PICK u : OldRow(u, p)
        BY <2>6, <3>2, TablesRevived
      <4> QED
        BY <1>2, <2>2, <4>1, QuietOfRows DEF OldRow
    <3> QED
      BY <3>1, <3>2
  <2> QED
    BY <2>1, <2>3, <2>4, <2>5, <2>6
<1>4. CASE \E q \in Req : \/ Ask(q) \/ CancelConn(q) \/ DeleteConn(q) \/ DeleteDocs(q)
                          \/ Answer(q)
  <2>1. UNCHANGED <<process, call, quiet, rows, latest>>
    BY <1>4 DEF Ask, CancelConn, DeleteConn, DeleteDocs, Answer, tables, history
  <2>2. NoNewHands
    BY <2>1, HandsKept DEF process, Held
  <2> QED
    BY <1>1, <2>1, <2>2, QuietOfRows
<1>5. CASE \E q \in Req : DeleteRows(q)
  <2>1. UNCHANGED <<process, call, quiet>>
    BY <1>5 DEF DeleteRows
  <2>2. NoNewHands
    BY <2>1, HandsKept DEF process, Held
  <2> QED
    BY <1>5, <2>1, <2>2, TablesDeleted, QuietOfRows DEF StillFinished
<1>6. CASE \E q \in Req : RequestDies(q)
  <2>1. UNCHANGED <<process, quiet, rows, latest>>
    BY <1>6 DEF RequestDies, tables
  <2>2. \A p \in Proc : call'[p] # NoCall => call[p] # NoCall /\ call'[p].of = call[p].of
    BY <1>6, ReqProc DEF RequestDies, RestOK
  <2>3. NoNewHands
    BY <2>1, <2>2, HandsKept DEF process, Held
  <2> QED
    BY <1>1, <2>1, <2>3, QuietOfRows
<1>7. CASE \E q \in Req : PlanNext(q)
  <2>1. PICK q \in Req : PlanNext(q)
    BY <1>7
  <2>2. PICK p \in plan[q] : (\E s, n : Call(q, p, s, n)) /\ quiet' = quiet \ {p[1]}
    BY <2>1 DEF PlanNext
  <2>3. call'[q].of = p /\ \A o \in Proc \ {q} : call'[o] = call[o]
    BY <2>2, CallMade, ReqProc
  <2>4. UNCHANGED <<process, rows, latest>>
    BY <2>1 DEF PlanNext, tables
  <2>5. \A kb \in quiet' : kb \in quiet /\ kb # p[1]
    BY <2>2
  <2>6. \A kb \in quiet' : ~InHand(kb)'
    BY <2>3, <2>4, <2>5 DEF QuietInv, InHand, process, Held
  <2> QED
    BY <1>1, <2>2, <2>4, <2>6, QuietSteps
<1>8. CASE \E q \in Req : CancelRows(q)
  <2>1. PICK q \in Req : CancelRows(q)
    BY <1>8
  <2>2. UNCHANGED <<process, call>>
    BY <2>1 DEF CancelRows
  <2>3. NoNewHands
    BY <2>2, HandsKept DEF process, Held
  <2>4. PICK kb \in kbs[q] :
          /\ Others({w \in Row : w[1][1] = kb})
          /\ \A w \in Row : Exists(w)' /\ w[1][1] = kb => rows'[w].status \in Finished
          /\ quiet' = IF InHand(kb) THEN quiet \ {kb} ELSE quiet \cup {kb}
    BY <2>1, TablesCanceled
  <2>5. QuietInv'
    BY <2>3, <2>4 DEF QuietInv, NoNewHands
  <2>6. \A w \in Row : w[1][1] # kb => rows'[w] \in {rows[w], NoRow}
    BY <2>4 DEF Others
  <2>7. CancelHolds'
    BY <2>4, <2>6 DEF CancelHolds, Exists
  <2> QED
    BY <2>5, <2>7
<1>9. CASE SetPruneFreq \/ \E d \in Doc : Change(d) \/ Remove(d)
  <2>1. UNCHANGED <<due, task, call, quiet, rows, latest>>
    BY <1>9 DEF Change, Remove, SetPruneFreq, tables, process, history
  <2>2. NoNewHands
    BY <2>1, HandsKept DEF Held
  <2> QED
    BY <1>1, <2>1, <2>2, QuietOfRows
<1>10. CASE ListSync \/ ListPrune
  <2>1. UNCHANGED <<rows, latest, task, call, quiet>>
    BY <1>10 DEF ListSync, ListPrune, tables, history
  <2>2. PICK type : List(type)
    BY <1>10 DEF ListSync, ListPrune
  <2>3. \A t \in due' : t \in due \/ (t.row \in Row /\ Waits(t.row))
    BY <2>2 DEF List, Eligible, Listable
  <2>4. ASSUME NEW kb \in quiet, NEW t \in due' \cup {task}, t.row # NoRow, t.row[1][1] = kb
        PROVE  FALSE
    <3>1. CASE t \in due \cup {task}
      BY <2>4, <3>1 DEF QuietInv, InHand, Held
    <3>2. CASE t.row \in Row /\ Waits(t.row)
      BY <2>4, <3>2 DEF CancelHolds, Waits, Finished
    <3> QED
      BY <2>3, <2>4, <3>1, <3>2
  <2>5. \A kb \in quiet : ~InHand(kb)'
    BY <2>1, <2>4 DEF InHand, Held, QuietInv
  <2> QED
    BY <1>1, <2>1, <2>5, QuietSteps
<1>11. CASE NextTask \/ Crash
  <2>1. PICK held : rows' = Tidy(rows, latest, held) /\ latest' = latest
    BY <1>11 DEF NextTask, Crash
  <2>2. Others({})
    BY <2>1, TablesTidied
  <2>3. quiet' = quiet
    BY <1>11 DEF NextTask, Crash, history
  <2>4. \A p \in Proc : call'[p] # NoCall => call[p] # NoCall /\ call'[p].of = call[p].of
    BY <1>11, ReqProc DEF NextTask, Crash, RestOK
  <2>5. Held' \subseteq Held \cup {NoRow}
    BY <1>11 DEF NextTask, Crash, Held, NoTask
  <2>6. NoNewHands
    BY <2>4, <2>5, HandsKept
  <2> QED
    BY <1>2, <2>2, <2>3, <2>6, QuietOfRows
<1>12. CASE Generate \/ Fetch \/ Snapshot \/ SnapshotFails \/ PruneDocs
  <2>1. UNCHANGED <<due, task, call, quiet, rows, latest>>
    BY <1>12 DEF Generate, Fetch, Snapshot, SnapshotFails, PruneDocs, tables, history
  <2>2. NoNewHands
    BY <2>1, HandsKept DEF Held
  <2> QED
    BY <1>1, <2>1, <2>2, QuietOfRows
<1>13. CASE Start \/ Fail \/ Batch \/ Done
  <2>1. task \in TaskType
    BY <1>13 DEF Start, Fail, Batch, Done, RestOK, TaskInv
  <2>2. task.row \in Row /\ task.row[1][1] \notin quiet
    BY <2>1, TaskInHand DEF QuietInv
  <2>3. UNCHANGED <<due, task, quiet>>
    BY <1>13 DEF Start, Fail, Batch, Done, history
  <2>4. Others({task.row}) \/ UNCHANGED <<rows, latest>>
    <3>1. CASE Batch
      <4>1. PICK x \in todo : \/ UpdateRows({task.row}, LAMBDA r : [r EXCEPT !.start = Later(@, x[2]),
                                                           !.end = Later(@, x[2]),
                                                           !.zero = FALSE], Held)
                              \/ UNCHANGED <<rows, latest>>
        BY <3>1 DEF Batch
      <4>2. x[2] \in Nat
        BY DEF RestOK
      <4>3. CASE UpdateRows({task.row}, LAMBDA r : [r EXCEPT !.start = Later(@, x[2]),
                                                           !.end = Later(@, x[2]),
                                                           !.zero = FALSE], Held)
        BY <2>2, <4>2, <4>3, TablesOfBatch DEF Stretched
      <4> QED
        BY <4>1, <4>3
    <3>2. CASE ~Batch
      BY <1>13, <3>2, TablesOfTask, EndsSettled DEF RestOK
    <3> QED
      BY <3>1, <3>2
  <2>5. \A kb \in quiet : StillFinished(kb)
    BY <1>1, <1>2, <2>2, <2>4
  <2>6. CASE ~Done
    <3>1. call' = call
      BY <1>13, <2>6 DEF Start, Fail, Batch
    <3>2. NoNewHands
      BY <2>3, <3>1, HandsKept DEF Held
    <3> QED
      BY <2>3, <2>5, <3>2, QuietOfRows
  <2>7. CASE Done
    <3>1. call'[Syncer].of = task.row[1] /\ \A p \in Proc \ {Syncer} : call'[p] = call[p]
      BY <2>7, CallMade, ReqProc DEF Done
    <3>2. \A kb \in quiet : ~InHand(kb)'
      BY <2>2, <2>3, <3>1 DEF InHand, Held, QuietInv
    <3> QED
      BY <2>3, <2>5, <3>2, QuietSteps
  <2> QED
    BY <2>6, <2>7
<1> QED
  BY <1>3, <1>4, <1>5, <1>6, <1>7, <1>8, <1>9, <1>10, <1>11, <1>12, <1>13, Split DEF Plain

-----------------------------------------------------------------------------
(* A connector that waits is SCHEDULE, or something is to make it so.      *)
LEMMA DispatchKept ==
  ASSUME RowsOK, RestOK, DispatchInv, Next
  PROVE  DispatchInv'
<1> DEFINE works == {"generate", "batch", "snapshot", "prune", "done"}
<1>1. ASSUME Plain, conn' = conn, blocked => blocked',
             dpc \in works => dpc' \in works, call'[Syncer] = call[Syncer]
      PROVE  DispatchInv'
  <2>1. NoneMore /\ NoMoreInserts
    BY <1>1, PlainRows, PlainInserts
  <2> QED
    BY <1>1, <2>1 DEF DispatchInv, NoneMore, NoMoreInserts
<1>2. conn' \in {"schedule", "gone"} \/ blocked' \/ dpc' \in works => DispatchInv'
  BY DEF DispatchInv
<1>3. CASE ListSync \/ ListPrune \/ NextTask \/ Generate \/ Fetch \/ Batch \/ Snapshot
             \/ SnapshotFails \/ PruneDocs
  <2>1. conn' = conn /\ blocked' = blocked /\ call' = call
    BY <1>3 DEF ListSync, ListPrune, NextTask, Generate, Fetch, Batch, Snapshot, SnapshotFails,
                PruneDocs, tables, history
  <2>2. dpc \in works => dpc' \in works
    BY <1>3 DEF ListSync, ListPrune, NextTask, Generate, Fetch, Batch, Snapshot, SnapshotFails,
                PruneDocs
  <2> QED
    BY <1>1, <1>3, <2>1, <2>2 DEF Plain
<1>4. CASE Start
  BY <1>2, <1>4 DEF Start
<1>5. CASE Done
  <2>1. call'[Syncer] # NoCall /\ call'[Syncer].pc = "check"
    BY <1>5, CallMade, ReqProc DEF Done
  <2> QED
    BY <2>1 DEF DispatchInv
<1>6. CASE Fail \/ Crash
  BY <1>2, <1>6 DEF Fail, Crash
<1>7. CASE \E q \in Req : \/ Ask(q) \/ CancelRows(q) \/ DeleteRows(q) \/ DeleteDocs(q)
                          \/ Answer(q) \/ RequestDies(q)
  <2>1. conn' = conn /\ blocked' = blocked /\ dpc' = dpc
    BY <1>7 DEF Ask, CancelRows, DeleteRows, DeleteDocs, Answer, RequestDies, tables, process,
                history
  <2>2. call'[Syncer] = call[Syncer]
    BY <1>7, ReqProc DEF Ask, CancelRows, DeleteRows, DeleteDocs, Answer, RequestDies, RestOK
  <2> QED
    BY <1>1, <1>7, <2>1, <2>2 DEF Plain
<1>8. CASE \E q \in Req : PlanNext(q)
  <2>1. PICK q \in Req : PlanNext(q)
    BY <1>8
  <2>2. \E of, s, n : Call(q, of, s, n)
    BY <2>1 DEF PlanNext
  <2>3. call'[Syncer] = call[Syncer]
    BY <2>2, CallMade, ReqProc
  <2>4. conn' = conn /\ blocked' = blocked /\ dpc' = dpc
    BY <2>1 DEF PlanNext, tables, process
  <2> QED
    BY <1>1, <2>1, <2>3, <2>4 DEF Plain
<1>9. CASE \E q \in Req : CancelConn(q)
  <2>1. PICK q \in Req : CancelConn(q)
    BY <1>9
  <2>2. CASE kind[q] = "unlink"
    BY <1>1, <2>1, <2>2 DEF CancelConn, process, Plain
  <2>3. CASE kind[q] # "unlink"
    <3>1. UNCHANGED <<rows, dpc, call>>
          /\ blocked' = (blocked \/ (\E w \in Row : Waits(w))
                                 \/ (\E p \in Proc : call[p] # NoCall /\ call[p].pc = "insert"))
      BY <2>1, <2>3 DEF CancelConn, process
    <3>2. CASE blocked'
      BY <1>2, <3>2
    <3>3. CASE ~blocked'
      <4>1. (\A w \in Row : ~Waits(w)) /\ (\A p \in Proc : ~Inserts(p))
        BY <3>1, <3>3 DEF Inserts
      <4>2. (\A w \in Row : ~Waits(w)') /\ (\A p \in Proc : ~Inserts(p)')
        BY <3>1, <4>1 DEF Inserts, Waits, Exists
      <4> QED
        BY <4>2 DEF DispatchInv
    <3> QED
      BY <3>2, <3>3
  <2> QED
    BY <2>2, <2>3
<1>10. CASE \E q \in Req : DeleteConn(q)
  BY <1>2, <1>10 DEF DeleteConn
<1>11. CASE SetPruneFreq \/ \E d \in Doc : Change(d) \/ Remove(d)
  BY <1>1, <1>11 DEF Change, Remove, SetPruneFreq, tables, process, history, Plain
<1>12. CASE \E p \in Proc : ScheduleTrim(p)
  BY <1>1, <1>12 DEF ScheduleTrim, process, Plain
<1>13. CASE \E p \in Proc : ScheduleExists(p)
  <2>1. PICK p \in Proc : ScheduleExists(p)
    BY <1>13
  <2>2. conn' = conn /\ (blocked => blocked') /\ dpc' = dpc
    BY <2>1 DEF ScheduleExists, tables, process
  <2>3. CASE p = Syncer
    BY <1>2, <2>1, <2>3 DEF ScheduleExists
  <2>4. CASE p # Syncer
    BY <1>1, <2>1, <2>2, <2>4, ReqProc DEF ScheduleExists, RestOK, Plain
  <2> QED
    BY <2>3, <2>4
<1>14. CASE \E p \in Proc : ScheduleConn(p)
  BY <1>2, <1>14 DEF ScheduleConn, SetConn
<1>15. CASE \E p \in Proc : ScheduleInsert(p)
  <2>1. PICK p \in Proc : ScheduleInsert(p)
    BY <1>15
  <2>2. Inserts(p) /\ UNCHANGED <<conn, blocked, dpc>> /\ call[p].pc # "check"
        /\ \A q \in Proc \ {p} : call'[q] = call[q]
    BY <2>1 DEF ScheduleInsert, Inserts, process, RestOK
  <2> QED
    BY <2>2, ReqProc DEF DispatchInv
<1>16. CASE \E p \in Proc : ScheduleFails(p)
  <2>1. PICK p \in Proc : ScheduleFails(p)
    BY <1>16
  <2>2. blocked' \/ SetConn("schedule")
    BY <2>1 DEF ScheduleFails
  <2> QED
    BY <1>2, <2>2 DEF SetConn
<1> QED
  BY <1>3, <1>4, <1>5, <1>6, <1>7, <1>8, <1>9, <1>10, <1>11, <1>12, <1>13, <1>14, <1>15, <1>16,
     Split DEF Plain

-----------------------------------------------------------------------------
(* The next sync waits, or something is to bring it.                       *)
Chained(kb) == Waiting(<<kb, "sync">>) # {} \/ kb \in halted \/ Coming(kb)

LEMMA ChainedWaits ==
  ASSUME NEW kb \in Kb, NEW W, Others(W), \A w \in W : w[1] # <<kb, "sync">>,
         Waiting(<<kb, "sync">>) # {}
  PROVE  Waiting(<<kb, "sync">>)' # {}
<1>1. PICK w \in Row : Waits(w) /\ w[1] = <<kb, "sync">>
  BY DEF Waiting
<1>2. Waits(w)'
  BY <1>1 DEF Others
<1> QED
  BY <1>1, <1>2 DEF Waiting

LEMMA ChainedSame ==
  ASSUME NEW kb \in Kb, Chained(kb), Others({}) \/ UNCHANGED <<rows, latest>>, halted' = halted,
         Coming(kb) => Coming(kb)'
  PROVE  Chained(kb)'
<1>1. Waiting(<<kb, "sync">>) # {} => Waiting(<<kb, "sync">>)' # {}
  <2>1. CASE Others({})
    BY <2>1, ChainedWaits
  <2>2. CASE UNCHANGED <<rows, latest>>
    BY <2>2 DEF Waiting, Waits, Exists
  <2> QED
    BY <2>1, <2>2
<1> QED
  BY <1>1 DEF Chained

LEMMA ChainedTask ==
  ASSUME RowsOK, RestOK, StepInv, NEW kb \in Kb, Chained(kb),
         Start \/ Batch \/ Done \/ Fail \/ Crash
  PROVE  Chained(kb)'
<1> DEFINE p == <<kb, "sync">>
<1>1. \A q \in Proc \ {Syncer} : call[q] # NoCall /\ call[q].of = p
                                => call'[q] # NoCall /\ call'[q].of = p
  <2>1. CASE Done
    BY <2>1, CallMade, ReqProc DEF Done
  <2>2. CASE Crash
    BY <2>2 DEF Crash, RestOK
  <2>3. CASE Start \/ Batch \/ Fail
    BY <2>3 DEF Start, Batch, Fail
  <2> QED
    BY <2>1, <2>2, <2>3
<1>2. plan' = plan
  BY DEF Start, Batch, Done, Fail, Crash, request
<1>3. Coming(kb) => \/ dpc \in {"generate", "batch"} /\ task.row[1] = p
                    \/ call[Syncer] # NoCall /\ call[Syncer].of = p
                    \/ Coming(kb)'
  BY <1>1, <1>2, ReqProc DEF Coming
<1>4. CASE Start
  <2>1. Others({task.row}) /\ dpc # "next" /\ dpc' \in {"generate", "snapshot"}
        /\ (task.row[1] = p => dpc' = "generate") /\ task' = task /\ halted' = halted
    BY <1>4, TablesOfTask, EndsSettled DEF Start, RestOK, history
  <2>2. CASE task.row[1] = p
    BY <2>1, <2>2 DEF Chained, Coming
  <2>3. CASE task.row[1] # p
    <3>1. call[Syncer] = NoCall
      BY <2>1 DEF StepInv
    <3>2. Waiting(p) # {} => Waiting(p)' # {}
      BY <2>1, <2>3, ChainedWaits
    <3> QED
      BY <1>3, <2>1, <2>3, <3>1, <3>2 DEF Chained
  <2> QED
    BY <2>2, <2>3
<1>5. CASE Batch
  <2>1. UNCHANGED <<dpc, task, call, halted>>
    BY <1>5 DEF Batch
  <2>2. Waiting(p) # {} => Waiting(p)' # {}
    <3>1. PICK x \in todo : \/ UpdateRows({task.row}, LAMBDA r : [r EXCEPT !.start = Later(@, x[2]),
                                                           !.end = Later(@, x[2]),
                                                           !.zero = FALSE], Held)
                            \/ UNCHANGED <<rows, latest>>
      BY <1>5 DEF Batch
    <3>2. x[2] \in Nat /\ task.row \in Row
      BY <1>5 DEF RestOK, TaskInv, TaskType, Batch
    <3>3. \A w \in Row : Waits(w) => Waits(w)'
      <4>1. CASE UpdateRows({task.row}, LAMBDA r : [r EXCEPT !.start = Later(@, x[2]),
                                                           !.end = Later(@, x[2]),
                                                           !.zero = FALSE], Held)
        BY <3>2, <4>1, TablesOfBatch DEF Stretched
      <4>2. CASE UNCHANGED <<rows, latest>>
        BY <4>2 DEF Waits, Exists
      <4> QED
        BY <3>1, <4>1, <4>2
    <3> QED
      BY <3>3 DEF Waiting
  <2> QED
    BY <1>2, <2>1, <2>2 DEF Chained, Coming
<1>6. CASE Done
  <2>1. call'[Syncer] # NoCall /\ call'[Syncer].of = task.row[1] /\ halted' = halted
        /\ Others({task.row}) /\ call[Syncer] = NoCall
    <3>1. call'[Syncer] # NoCall /\ call'[Syncer].of = task.row[1]
      BY <1>6, CallMade, ReqProc DEF Done
    <3>2. Others({task.row})
      BY <1>6, TablesOfTask, EndsSettled DEF RestOK
    <3>3. halted' = halted /\ call[Syncer] = NoCall
      BY <1>6 DEF Done, StepInv, history
    <3> QED
      BY <3>1, <3>2, <3>3
  <2>2. CASE task.row[1] = p
    BY <2>1, <2>2, ReqProc DEF Chained, Coming
  <2>3. CASE task.row[1] # p
    <3>1. Waiting(p) # {} => Waiting(p)' # {}
      BY <2>1, <2>3, ChainedWaits
    <3> QED
      BY <1>3, <2>1, <2>3, <3>1 DEF Chained
  <2> QED
    BY <2>2, <2>3
<1>7. CASE Fail
  <2>1. Others({task.row}) /\ call[Syncer] = NoCall /\ halted' = halted \cup {task.row[1][1]}
    <3>1. Others({task.row})
      BY <1>7, TablesOfTask, EndsSettled DEF RestOK
    <3>2. call[Syncer] = NoCall /\ halted' = halted \cup {task.row[1][1]}
      BY <1>7 DEF Fail, StepInv
    <3> QED
      BY <3>1, <3>2
  <2>2. CASE task.row[1] = p
    BY <2>1, <2>2 DEF Chained
  <2>3. CASE task.row[1] # p
    <3>1. Waiting(p) # {} => Waiting(p)' # {}
      BY <2>1, <2>3, ChainedWaits
    <3> QED
      BY <1>3, <2>1, <2>3, <3>1 DEF Chained
  <2> QED
    BY <2>2, <2>3
<1>8. CASE Crash
  <2>1. halted \subseteq halted' /\ (task # NoTask => task.row[1][1] \in halted')
    BY <1>8 DEF Crash
  <2>2. Others({})
    BY <1>8, TablesTidied DEF Crash
  <2>3. Waiting(p) # {} => Waiting(p)' # {}
    BY <2>2, ChainedWaits
  <2>4. dpc \in {"generate", "batch"} => task # NoTask
    BY NoRowAssumption DEF RestOK, TaskInv, TaskType, NoTask
  <2>5. call[Syncer] # NoCall => task # NoTask /\ call[Syncer].of = task.row[1]
    BY DEF StepInv
  <2> QED
    BY <1>3, <2>1, <2>3, <2>4, <2>5 DEF Chained
<1> QED
  BY <1>4, <1>5, <1>6, <1>7, <1>8

LEMMA ChainedSchedule ==
  ASSUME RowsOK, RestOK, NEW p \in Proc, NEW kb \in Kb, Chained(kb),
         ScheduleTrim(p) \/ ScheduleExists(p) \/ ScheduleConn(p) \/ ScheduleInsert(p)
           \/ ScheduleFails(p)
  PROVE  Chained(kb)'
<1>1. /\ Calls(p) /\ call[p] # NoCall
      /\ UNCHANGED <<dpc, task, plan>>
  BY CallsOfSchedule DEF process
<1>2. Coming(kb) => Coming(kb)' \/ (call[p].of = <<kb, "sync">> /\ call'[p] = NoCall)
  BY <1>1 DEF Coming, Calls
<1>3. CASE ScheduleTrim(p)
  <2>1. call' = call /\ halted \subseteq halted'
    BY <1>3, TablesTrimmed DEF ScheduleTrim
  <2>2. Waiting(<<kb, "sync">>) # {} => Waiting(<<kb, "sync">>)' # {} \/ kb \in halted'
    <3>1. \A w \in Row : Waits(w) /\ w[1] = <<kb, "sync">> => Waits(w)' \/ kb \in halted'
      BY <1>3, TablesTrimmed
    <3> QED
      BY <3>1 DEF Waiting
  <2> QED
    BY <1>1, <1>2, <2>1, <2>2 DEF Chained
<1>4. CASE ScheduleExists(p)
  <2>1. Waiting(call[p].of) # {} /\ Waiting(<<kb, "sync">>)' = Waiting(<<kb, "sync">>)
        /\ halted' = halted
    BY <1>4 DEF ScheduleExists, tables, Waiting, Waits, Exists
  <2> QED
    BY <1>2, <2>1 DEF Chained
<1>5. CASE ScheduleConn(p)
  <2>1. call'[p] # NoCall
    BY <1>5, <1>1, CallTypes DEF ScheduleConn, RestOK, NoCall
  <2> QED
    BY <1>2, <1>5, <2>1, ChainedSame DEF ScheduleConn
<1>6. CASE ScheduleInsert(p)
  <2>1. PICK v : NewRow(v, p)
    BY <1>6, TablesInserted
  <2>2. CASE call[p].of = <<kb, "sync">>
    <3>1. v \in Waiting(<<kb, "sync">>)'
      BY <2>1, <2>2 DEF NewRow, Waiting
    <3> QED
      BY <3>1 DEF Chained
  <2>3. CASE call[p].of # <<kb, "sync">>
    <3>1. Waiting(<<kb, "sync">>) # {} => Waiting(<<kb, "sync">>)' # {}
      BY <2>1, <2>3, ChainedWaits DEF NewRow
    <3>2. kb \in halted => kb \in halted'
      <4>1. call[p].of \in Pair
        BY <1>1, CallTypes
      <4>2. call[p].of[2] = "sync" => call[p].of[1] # kb
        BY <2>3, <4>1 DEF Pair
      <4> QED
        BY <1>6, <4>2 DEF ScheduleInsert
    <3> QED
      BY <1>2, <2>3, <3>1, <3>2 DEF Chained
  <2> QED
    BY <2>2, <2>3
<1>7. CASE ScheduleFails(p)
  <2>1. halted \subseteq halted'
        /\ (latest[call[p].of] = NoRow => call[p].of[1] \in halted')
    BY <1>7 DEF ScheduleFails
  <2>2. CASE latest[call[p].of] = NoRow
    <3>1. Waiting(<<kb, "sync">>)' = Waiting(<<kb, "sync">>)
      BY <1>7, <2>2 DEF ScheduleFails, Waiting, Waits, Exists
    <3> QED
      BY <1>2, <2>1, <2>2, <3>1 DEF Chained
  <2>3. CASE latest[call[p].of] # NoRow
    <3>1. PICK u : OldRow(u, p)
      BY <1>7, <2>3, TablesRevived
    <3>2. CASE call[p].of = <<kb, "sync">>
      <4>1. u \in Waiting(<<kb, "sync">>)'
        BY <3>1, <3>2 DEF OldRow, Waiting
      <4> QED
        BY <4>1 DEF Chained
    <3>3. CASE call[p].of # <<kb, "sync">>
      <4>1. Waiting(<<kb, "sync">>) # {} => Waiting(<<kb, "sync">>)' # {}
        BY <3>1, <3>3, ChainedWaits DEF OldRow
      <4> QED
        BY <1>2, <2>1, <3>3, <4>1 DEF Chained
    <3> QED
      BY <3>2, <3>3
  <2> QED
    BY <2>2, <2>3
<1> QED
  BY <1>3, <1>4, <1>5, <1>6, <1>7

LEMMA ChainedRequest ==
  ASSUME RowsOK, RestOK, StepInv, NEW q \in Req, NEW kb \in Kb, Chained(kb),
         \/ Ask(q) \/ CancelRows(q) \/ CancelConn(q) \/ DeleteConn(q) \/ DeleteRows(q)
         \/ DeleteDocs(q) \/ PlanNext(q) \/ Answer(q) \/ RequestDies(q)
  PROVE  Chained(kb)'
<1> DEFINE p == <<kb, "sync">>
<1>0. rpc[q] \in {"idle", "cancel", "delete"} => plan[q] = {}
  BY DEF StepInv
<1>1. ASSUME UNCHANGED <<process, call>>, \A r \in Req : plan[r] \subseteq plan'[r]
      PROVE  Coming(kb) => Coming(kb)'
  BY <1>1 DEF Coming, process
<1>2. ASSUME plan[q] = {}, plan' = [plan EXCEPT ![q] = plan'[q]]
      PROVE  \A r \in Req : plan[r] \subseteq plan'[r]
  BY <1>2 DEF RestOK
<1>3. CASE Ask(q)
  <2>1. UNCHANGED <<process, call, rows, latest, halted>>
    BY <1>3 DEF Ask, history
  <2>2. \A r \in Req : plan[r] \subseteq plan'[r]
    <3>1. plan[q] = {}
      BY <1>0, <1>3 DEF Ask
    <3>2. \A r \in Req \ {q} : plan'[r] = plan[r]
      BY <1>3 DEF Ask, RestOK
    <3> QED
      BY <3>1, <3>2
  <2> QED
    BY <1>1, <2>1, <2>2, ChainedSame
<1>4. CASE CancelConn(q)
  <2>1. UNCHANGED <<process, call, rows, latest, halted>>
    BY <1>4 DEF CancelConn
  <2>2. \A r \in Req : plan[r] \subseteq plan'[r]
    <3>1. plan[q] = {}
      BY <1>0, <1>4 DEF CancelConn
    <3>2. \A r \in Req \ {q} : plan'[r] = plan[r]
      BY <1>4 DEF CancelConn, RestOK
    <3> QED
      BY <3>1, <3>2
  <2> QED
    BY <1>1, <2>1, <2>2, ChainedSame
<1>5. CASE DeleteConn(q) \/ DeleteDocs(q) \/ Answer(q)
  <2>1. UNCHANGED <<process, call, rows, latest, halted, plan>>
    BY <1>5 DEF DeleteConn, DeleteDocs, Answer, tables, history
  <2> QED
    BY <1>1, <2>1, ChainedSame
<1>6. CASE CancelRows(q)
  <2>1. UNCHANGED <<process, call, plan>>
    BY <1>6 DEF CancelRows
  <2>2. PICK k \in kbs[q] : Others({w \in Row : w[1][1] = k}) /\ halted' = halted \cup {k}
    BY <1>6, TablesCanceled
  <2>3. CASE kb = k
    BY <2>2, <2>3 DEF Chained
  <2>4. CASE kb # k
    <3>1. Waiting(p) # {} => Waiting(p)' # {}
      BY <2>2, <2>4, ChainedWaits
    <3> QED
      BY <1>1, <2>1, <2>2, <3>1 DEF Chained
  <2> QED
    BY <2>3, <2>4
<1>7. CASE DeleteRows(q)
  <2>1. UNCHANGED <<process, call, plan>> /\ halted' = halted \cup kbs[q]
    BY <1>7 DEF DeleteRows
  <2>2. CASE kb \in kbs[q]
    BY <2>1, <2>2 DEF Chained
  <2>3. CASE kb \notin kbs[q]
    <3>1. \A w \in Row : w[1] = p => rows'[w] = rows[w]
      BY <1>7, <2>3, TablesDeleted
    <3>2. Waiting(p)' = Waiting(p)
      BY <3>1 DEF Waiting, Waits, Exists
    <3> QED
      BY <1>1, <2>1, <3>2 DEF Chained
  <2> QED
    BY <2>2, <2>3
<1>8. CASE PlanNext(q)
  <2>1. UNCHANGED <<process, rows, latest, halted>> /\ call[q] = NoCall
    BY <1>8 DEF PlanNext, tables
  <2>2. PICK o \in plan[q] : (\E s, n : Call(q, o, s, n))
                             /\ plan' = [plan EXCEPT ![q] = @ \ {o}]
    BY <1>8 DEF PlanNext
  <2>3. call'[q] # NoCall /\ call'[q].of = o /\ \A r \in Proc \ {q} : call'[r] = call[r]
    BY <2>2, CallMade, ReqProc
  <2>4. \A r \in Req : plan[r] \subseteq plan'[r] \cup (IF r = q THEN {o} ELSE {})
    BY <2>2 DEF RestOK
  <2>5. Coming(kb) => Coming(kb)'
    <3>1. CASE p = o
      BY <2>3, <3>1, ReqProc DEF Coming
    <3>2. CASE p # o
      BY <2>1, <2>3, <2>4, <3>2, ReqProc DEF Coming, process
    <3> QED
      BY <3>1, <3>2
  <2> QED
    BY <2>1, <2>5, ChainedSame
<1>9. CASE RequestDies(q)
  <2>1. /\ halted' = halted \cup {x[1] : x \in plan[q]}
                            \cup (IF call[q] = NoCall THEN {} ELSE {call[q].of[1]})
        /\ UNCHANGED <<process, rows, latest>>
        /\ \A r \in Req \ {q} : plan'[r] = plan[r]
        /\ \A r \in Proc \ {q} : call'[r] = call[r]
    BY <1>9, ReqProc DEF RequestDies, RestOK, tables
  <2>2. p \in plan[q] => kb \in halted'
    BY <2>1
  <2>3. call[q] # NoCall /\ call[q].of = p => kb \in halted'
    BY <2>1
  <2>4. Coming(kb) => Coming(kb)' \/ kb \in halted'
    BY <2>1, <2>2, <2>3, ReqProc DEF Coming, process
  <2>5. Waiting(p)' = Waiting(p) /\ halted \subseteq halted'
    BY <2>1 DEF Waiting, Waits, Exists
  <2> QED
    BY <2>4, <2>5 DEF Chained
<1> QED
  BY <1>3, <1>4, <1>5, <1>6, <1>7, <1>8, <1>9

LEMMA ChainedNext ==
  ASSUME RowsOK, RestOK, StepInv, Next, NEW kb \in Kb, Chained(kb)
  PROVE  Chained(kb)'
<1>1. CASE Start \/ Batch \/ Done \/ Fail \/ Crash
  BY <1>1, ChainedTask
<1>2. CASE \E p \in Proc : \/ ScheduleTrim(p) \/ ScheduleExists(p) \/ ScheduleConn(p)
                           \/ ScheduleInsert(p) \/ ScheduleFails(p)
  BY <1>2, ChainedSchedule
<1>3. CASE \E q \in Req : \/ Ask(q) \/ CancelRows(q) \/ CancelConn(q) \/ DeleteConn(q)
                          \/ DeleteRows(q) \/ DeleteDocs(q) \/ PlanNext(q) \/ Answer(q)
                          \/ RequestDies(q)
  BY <1>3, ChainedRequest
<1>4. CASE ListSync \/ ListPrune \/ NextTask \/ Generate \/ Fetch \/ Snapshot \/ SnapshotFails
             \/ PruneDocs
  <2>1. UNCHANGED <<call, plan, halted>>
    BY <1>4 DEF ListSync, ListPrune, NextTask, Generate, Fetch, Snapshot, SnapshotFails,
                PruneDocs, request, history
  <2>2. dpc \in {"generate", "batch"} => dpc' \in {"generate", "batch"} /\ task' = task
    BY <1>4 DEF ListSync, ListPrune, NextTask, Generate, Fetch, Snapshot, SnapshotFails, PruneDocs
  <2>3. Coming(kb) => Coming(kb)'
    BY <2>1, <2>2 DEF Coming
  <2>4. Others({}) \/ UNCHANGED <<rows, latest>>
    BY <1>4, TablesTidied DEF ListSync, ListPrune, NextTask, Generate, Fetch, Snapshot,
                              SnapshotFails, PruneDocs, tables
  <2> QED
    BY <2>1, <2>3, <2>4, ChainedSame
<1>5. CASE SetPruneFreq \/ \E d \in Doc : Change(d) \/ Remove(d)
  <2>1. UNCHANGED <<dpc, task, request, call, halted, rows, latest>>
    BY <1>5 DEF Change, Remove, SetPruneFreq, tables, process, history
  <2>2. Coming(kb) => Coming(kb)'
    BY <2>1 DEF Coming, request
  <2> QED
    BY <2>1, <2>2, ChainedSame
<1> QED
  BY <1>1, <1>2, <1>3, <1>4, <1>5, Split DEF Plain

LEMMA ChainKept ==
  ASSUME RowsOK, RestOK, StepInv, ChainInv, Next
  PROVE  ChainInv'
<1>1. conn' # "gone" => conn # "gone"
  <2>1. CASE conn' = conn \/ \E s : SetConn(s)
    BY <2>1 DEF SetConn
  <2>2. CASE \E p \in Proc : \/ ScheduleTrim(p) \/ ScheduleExists(p) \/ ScheduleConn(p)
                             \/ ScheduleInsert(p) \/ ScheduleFails(p)
    BY <2>1, <2>2 DEF ScheduleTrim, ScheduleExists, ScheduleConn, ScheduleInsert,
                      ScheduleFails, tables
  <2>3. CASE \E q \in Req : \/ Ask(q) \/ CancelRows(q) \/ CancelConn(q) \/ DeleteConn(q)
                            \/ DeleteRows(q) \/ DeleteDocs(q) \/ PlanNext(q) \/ Answer(q)
                            \/ RequestDies(q)
    BY <2>1, <2>3 DEF Ask, CancelRows, CancelConn, DeleteConn, DeleteRows, DeleteDocs, PlanNext,
                      Answer, RequestDies, tables
  <2>4. CASE \/ ListSync \/ ListPrune \/ NextTask \/ Start \/ Generate \/ Fetch \/ Batch
             \/ Snapshot \/ SnapshotFails \/ PruneDocs \/ Done \/ Fail \/ Crash
    BY <2>1, <2>4 DEF ListSync, ListPrune, NextTask, Start, Generate, Fetch, Batch, Snapshot,
                      SnapshotFails, PruneDocs, Done, Fail, Crash, tables
  <2>5. CASE SetPruneFreq \/ \E d \in Doc : Change(d) \/ Remove(d)
    BY <2>1, <2>5 DEF Change, Remove, SetPruneFreq, tables
  <2> QED
    BY <2>2, <2>3, <2>4, <2>5, Split DEF Plain
<1>2. \A kb \in Kb : Chained(kb) => Chained(kb)'
  BY ChainedNext
<1>3. \A kb \in linked' : kb \in linked \/ Coming(kb)'
  <2>1. CASE linked' = linked
    BY <2>1
  <2>2. CASE \E q \in Req : Ask(q)
    <3>1. PICK q \in Req : Ask(q)
      BY <2>2
    <3>2. \/ linked' \subseteq linked
          \/ \E kb \in Kb \ linked : linked' = linked \cup {kb} /\ plan'[q] = {kb} \X Type
      BY <3>1 DEF Ask, RestOK
    <3>3. "sync" \in Type
      BY DEF Type
    <3> QED
      BY <3>2, <3>3 DEF Coming
  <2>3. CASE \E p \in Proc : \/ ScheduleTrim(p) \/ ScheduleExists(p) \/ ScheduleConn(p)
                             \/ ScheduleInsert(p) \/ ScheduleFails(p)
    BY <2>1, <2>3, CallsOfSchedule
  <2>4. CASE \E q \in Req : \/ CancelRows(q) \/ CancelConn(q) \/ DeleteConn(q)
                            \/ DeleteRows(q) \/ DeleteDocs(q) \/ PlanNext(q) \/ Answer(q)
                            \/ RequestDies(q)
    BY <2>1, <2>4 DEF CancelRows, CancelConn, DeleteConn, DeleteRows, DeleteDocs, PlanNext,
                      Answer, RequestDies, tables
  <2>5. CASE \/ ListSync \/ ListPrune \/ NextTask \/ Start \/ Generate \/ Fetch \/ Batch
             \/ Snapshot \/ SnapshotFails \/ PruneDocs \/ Done \/ Fail \/ Crash
    BY <2>1, <2>5 DEF ListSync, ListPrune, NextTask, Start, Generate, Fetch, Batch, Snapshot,
                      SnapshotFails, PruneDocs, Done, Fail, Crash, tables
  <2>6. CASE SetPruneFreq \/ \E d \in Doc : Change(d) \/ Remove(d)
    BY <2>1, <2>6 DEF Change, Remove, SetPruneFreq, tables
  <2> QED
    BY <2>2, <2>3, <2>4, <2>5, <2>6, Split DEF Plain
<1>4. linked \subseteq Kb
  BY DEF RestOK
<1> QED
  BY <1>1, <1>2, <1>3, <1>4 DEF ChainInv, Chained

-----------------------------------------------------------------------------
(* Times.                                                                  *)
LEMMA PlainSteady ==
  ASSUME RowsOK, RestOK, Plain, ~Batch
  PROVE  Steady /\ (~Done => EndsKept)
<1>1. CASE UNCHANGED <<rows, latest>>
  BY <1>1, TablesKept
<1>2. CASE NextTask \/ Crash
  BY <1>2, TablesTidied DEF NextTask, Crash
<1>3. CASE Start \/ Done \/ Fail
  BY <1>3, TablesOfTask, EndsSettled DEF RestOK
<1>4. CASE \E q \in Req : CancelRows(q) \/ DeleteRows(q)
  BY <1>4, TablesCanceled, TablesDeleted
<1>5. CASE \E p \in Proc : ScheduleTrim(p)
  BY <1>5, TablesTrimmed
<1>6. CASE ListSync \/ ListPrune \/ Generate \/ Fetch \/ Snapshot \/ SnapshotFails \/ PruneDocs
  BY <1>1, <1>6 DEF ListSync, ListPrune, Generate, Fetch, Snapshot, SnapshotFails, PruneDocs,
                    tables
<1>7. CASE \E q \in Req : \/ Ask(q) \/ CancelConn(q) \/ DeleteConn(q) \/ DeleteDocs(q)
                          \/ PlanNext(q) \/ Answer(q) \/ RequestDies(q)
  BY <1>1, <1>7 DEF Ask, CancelConn, DeleteConn, DeleteDocs, PlanNext, Answer, RequestDies,
                    tables
<1>8. CASE \E p \in Proc : ScheduleExists(p)
  BY <1>1, <1>8 DEF ScheduleExists, tables
<1>9. CASE SetPruneFreq \/ \E d \in Doc : Change(d) \/ Remove(d)
  BY <1>1, <1>9 DEF Change, Remove, SetPruneFreq, tables
<1> QED
  BY <1>2, <1>3, <1>4, <1>5, <1>6, <1>7, <1>8, <1>9 DEF Plain

LEMMA BatchStretches ==
  ASSUME RowsOK, RestOK, Batch
  PROVE  \E x \in todo, kept \in BOOLEAN, counted \in BOOLEAN :
           /\ todo' = todo \ {x} /\ next' = Advance(x[2])
           /\ stored' = (IF kept THEN [stored EXCEPT ![<<task.row[1][1], x[1]>>] = x[2]]
                         ELSE stored)
           /\ skipped' = (IF ~kept THEN skipped \cup {<<task.row[1][1], x[1]>>}
                          ELSE IF x[1] \in late THEN skipped
                          ELSE skipped \ {<<task.row[1][1], x[1]>>})
                           \cup Overtaken(x) \cup (IF counted THEN Passed(x) ELSE {})
           /\ IF counted THEN Stretched(x[2]) ELSE UNCHANGED <<rows, latest>>
           /\ x[1] \in Doc /\ x[2] \in Nat /\ x = <<x[1], x[2]>>
<1> DEFINE shift(n) == UpdateRows({task.row}, LAMBDA r : [r EXCEPT !.start = Later(@, n),
                                                         !.end = Later(@, n),
                                                         !.zero = FALSE], Held)
<1>1. PICK x \in todo, kept \in BOOLEAN, counted \in BOOLEAN :
        /\ todo' = todo \ {x} /\ next' = Advance(x[2])
        /\ stored' = (IF kept THEN [stored EXCEPT ![<<task.row[1][1], x[1]>>] = x[2]]
                      ELSE stored)
        /\ skipped' = (IF ~kept THEN skipped \cup {<<task.row[1][1], x[1]>>}
                       ELSE IF x[1] \in late THEN skipped
                       ELSE skipped \ {<<task.row[1][1], x[1]>>})
                        \cup Overtaken(x) \cup (IF counted THEN Passed(x) ELSE {})
        /\ IF counted THEN shift(x[2]) ELSE UNCHANGED <<rows, latest>>
  BY DEF Batch
<1>2. task.row \in Row /\ x[1] \in Doc /\ x[2] \in Nat /\ x = <<x[1], x[2]>>
  BY DEF RestOK, TaskInv, TaskType, Batch
<1>3. counted => Stretched(x[2])
  BY <1>1, <1>2, TablesOfBatch
<1> HIDE DEF shift
<1> QED
  BY <1>1, <1>2, <1>3

RowsSeen(t) == \A w \in Row : Exists(w) => rows[w].start <= t /\ rows[w].end <= t
CallsSeen(t) == \A p \in Proc : call[p] # NoCall => call[p].start <= t
WorkSeen(t) ==
  /\ \A u \in due \cup {task} : u # NoTask => u.start <= t
  /\ next <= t /\ \A x \in todo : x[2] <= t

LEMMA SeenParts == ASSUME NEW t PROVE Seen(t) <=> RowsSeen(t) /\ CallsSeen(t) /\ WorkSeen(t)
  BY DEF Seen, RowsSeen, CallsSeen, WorkSeen

LEMMA RowsSeenKept ==
  ASSUME RowsOK, RestOK, NEW t \in Nat, Seen(t), Next
  PROVE  RowsSeen(t)'
<1>1. RowsSeen(t) /\ CallsSeen(t) /\ WorkSeen(t)
  BY SeenParts
<1>2. CASE Steady
  BY <1>1, <1>2 DEF RowsSeen, Steady
<1>3. CASE Batch
  <2>1. PICK x \in todo : Stretched(x[2]) \/ UNCHANGED <<rows, latest>>
    BY <1>3, BatchStretches
  <2>2. x[2] <= t
    BY <1>1 DEF WorkSeen
  <2>3. CASE Stretched(x[2])
    BY <1>1, <2>2, <2>3 DEF RowsSeen, Stretched
  <2> QED
    BY <1>2, <2>1, <2>3, TablesKept
<1>4. CASE \E p \in Proc : ScheduleInsert(p)
  <2>1. PICK p \in Proc : ScheduleInsert(p) /\ call[p] # NoCall
    BY <1>4 DEF ScheduleInsert
  <2>2. PICK v : NewRow(v, p)
    BY <2>1, TablesInserted
  <2>3. call[p].start <= t
    BY <1>1, <2>1 DEF CallsSeen
  <2> QED
    BY <1>1, <2>2, <2>3 DEF RowsSeen, NewRow, Others, Exists
<1>5. CASE \E p \in Proc : ScheduleFails(p)
  <2>1. PICK p \in Proc : ScheduleFails(p) /\ call[p] # NoCall
    BY <1>5 DEF ScheduleFails
  <2>2. call[p].start <= t
    BY <1>1, <2>1 DEF CallsSeen
  <2>3. CASE latest[call[p].of] = NoRow
    BY <1>2, <2>1, <2>3, TablesKept DEF ScheduleFails
  <2>4. CASE latest[call[p].of] # NoRow
    <3>1. PICK u : OldRow(u, p)
      BY <2>1, <2>4, TablesRevived
    <3> QED
      BY <1>1, <2>2, <3>1 DEF RowsSeen, OldRow, Others, Exists
  <2> QED
    BY <2>3, <2>4
<1>6. CASE \E p \in Proc : ScheduleConn(p)
  BY <1>2, <1>6, TablesKept DEF ScheduleConn
<1> QED
  BY <1>2, <1>3, <1>4, <1>5, <1>6, PlainSteady, Split

(* What a plan begins at is 0 or where the latest sync of a dataset ended. *)
LEMMA LatestEndSeen ==
  ASSUME RowsOK, NEW kb \in Kb, NEW t \in Nat, RowsSeen(t)
  PROVE  LatestEnd(kb) \in Nat /\ LatestEnd(kb) <= t
<1> DEFINE w == latest[<<kb, "sync">>]
<1>1. CASE w # NoRow /\ rows[w].status = "done"
  <2>1. w \in Row /\ Exists(w)
    BY <1>1, SyncPair DEF RowsOK, LatestInv
  <2>2. rows[w] \in RowType /\ rows[w].end <= t
    BY <2>1 DEF RowsOK, Exists, RowsSeen
  <2> QED
    BY <1>1, <2>2 DEF LatestEnd, RowType
<1>2. CASE ~(w # NoRow /\ rows[w].status = "done")
  BY <1>2 DEF LatestEnd
<1> QED
  BY <1>1, <1>2

LEMMA Planned ==
  ASSUME RestOK, NEW q \in Req, PlanNext(q)
  PROVE  \E p \in plan[q] :
           /\ p \in Pair /\ p[1] \in Kb /\ quiet' = quiet \ {p[1]}
           /\ \A o \in Proc \ {q} : call'[o] = call[o]
           /\ call'[q] # NoCall /\ call'[q].of = p
           /\ call'[q].start = 0 \/ (p[2] = "sync" /\ call'[q].start = LatestEnd(p[1]))
<1>1. PICK p \in plan[q] :
        /\ Call(q, p, IF kind[q] \in {"schedule", "reschedule"} /\ p[2] = "sync"
                      THEN LatestEnd(p[1]) ELSE 0, TRUE)
        /\ quiet' = quiet \ {p[1]}
  BY DEF PlanNext
<1>2. p \in Pair /\ p[1] \in Kb
  BY DEF RestOK, Pair
<1> DEFINE n == IF kind[q] \in {"schedule", "reschedule"} /\ p[2] = "sync"
                THEN LatestEnd(p[1]) ELSE 0
<1>3. Call(q, p, n, TRUE)
  BY <1>1
<1>4. n = 0 \/ (p[2] = "sync" /\ n = LatestEnd(p[1]))
  OBVIOUS
<1> HIDE DEF n
<1>5. /\ \A o \in Proc \ {q} : call'[o] = call[o]
      /\ call'[q] # NoCall /\ call'[q].of = p /\ call'[q].start = n
  BY <1>3, CallMade, ReqProc
<1> QED
  BY <1>1, <1>2, <1>4, <1>5

LEMMA CallsSeenKept ==
  ASSUME RowsOK, RestOK, NEW t \in Nat, Seen(t), Next
  PROVE  CallsSeen(t)'
<1>1. RowsSeen(t) /\ CallsSeen(t) /\ WorkSeen(t)
  BY SeenParts
<1>2. CASE \A p \in Proc : call'[p] # NoCall => call'[p] = call[p]
  BY <1>1, <1>2 DEF CallsSeen
<1>3. CASE \E p \in Proc : \/ ScheduleTrim(p) \/ ScheduleExists(p) \/ ScheduleConn(p)
                           \/ ScheduleInsert(p) \/ ScheduleFails(p)
  BY <1>1, <1>3, CallsOfSchedule DEF CallsSeen, Calls
<1>4. CASE \E q \in Req : PlanNext(q)
  <2>1. PICK q \in Req : PlanNext(q)
    BY <1>4
  <2>2. PICK p \in plan[q] :
           /\ p[1] \in Kb
           /\ \A o \in Proc \ {q} : call'[o] = call[o]
           /\ call'[q].start = 0 \/ call'[q].start = LatestEnd(p[1])
    BY <2>1, Planned
  <2>3. call'[q].start <= t
    BY <1>1, <2>2, LatestEndSeen
  <2> QED
    BY <1>1, <2>2, <2>3 DEF CallsSeen
<1>5. CASE Done
  <2>1. call'[Syncer].start = next /\ \A p \in Proc \ {Syncer} : call'[p] = call[p]
    BY <1>5, CallMade, ReqProc DEF Done
  <2> QED
    BY <1>1, <2>1 DEF CallsSeen, WorkSeen
<1>6. CASE Crash \/ \E q \in Req : RequestDies(q)
  BY <1>2, <1>6 DEF Crash, RequestDies, RestOK
<1>7. CASE \E q \in Req : \/ Ask(q) \/ CancelRows(q) \/ CancelConn(q) \/ DeleteConn(q)
                          \/ DeleteRows(q) \/ DeleteDocs(q) \/ Answer(q)
  BY <1>2, <1>7 DEF Ask, CancelRows, CancelConn, DeleteConn, DeleteRows, DeleteDocs, Answer
<1>8. CASE \/ ListSync \/ ListPrune \/ NextTask \/ Start \/ Generate \/ Fetch \/ Batch \/ Snapshot
           \/ SnapshotFails \/ PruneDocs \/ Fail
  BY <1>2, <1>8 DEF ListSync, ListPrune, NextTask, Start, Generate, Fetch, Batch, Snapshot,
                    SnapshotFails, PruneDocs, Fail
<1>9. CASE SetPruneFreq \/ \E d \in Doc : Change(d) \/ Remove(d)
  BY <1>2, <1>9 DEF Change, Remove, SetPruneFreq
<1> QED
  BY <1>3, <1>4, <1>5, <1>6, <1>7, <1>8, <1>9, Split DEF Plain

LEMMA WorkSeenKept ==
  ASSUME RowsOK, RestOK, NEW t \in Nat, Seen(t), Next,
         Fetch => \A x \in todo' : x[2] <= t
  PROVE  WorkSeen(t)'
<1>1. RowsSeen(t) /\ CallsSeen(t) /\ WorkSeen(t)
  BY SeenParts
<1>2. CASE UNCHANGED process
  BY <1>1, <1>2 DEF WorkSeen, process
<1>3. CASE \E p \in Proc : \/ ScheduleTrim(p) \/ ScheduleExists(p) \/ ScheduleConn(p)
                           \/ ScheduleInsert(p) \/ ScheduleFails(p)
  BY <1>2, <1>3, CallsOfSchedule
<1>4. CASE \E q \in Req : \/ Ask(q) \/ CancelRows(q) \/ CancelConn(q) \/ DeleteConn(q)
                          \/ DeleteRows(q) \/ DeleteDocs(q) \/ PlanNext(q) \/ Answer(q)
                          \/ RequestDies(q)
  BY <1>2, <1>4 DEF Ask, CancelRows, CancelConn, DeleteConn, DeleteRows, DeleteDocs, PlanNext,
                    Answer, RequestDies
<1>5. CASE SetPruneFreq \/ \E d \in Doc : Change(d) \/ Remove(d)
  BY <1>1, <1>5 DEF WorkSeen, Change, Remove, SetPruneFreq, process
<1>6. CASE ListSync \/ ListPrune
  <2>1. PICK type : List(type)
    BY <1>6 DEF ListSync, ListPrune
  <2>2. \A u \in due' : u \in due \/ (u.row \in Row /\ Exists(u.row) /\ u.start = rows[u.row].start)
    BY <2>1 DEF List, Eligible, Listable, Waits
  <2>3. \A u \in due' : u # NoTask => u.start <= t
    BY <1>1, <2>2 DEF WorkSeen, RowsSeen
  <2> QED
    BY <1>1, <1>6, <2>3 DEF WorkSeen, ListSync, ListPrune
<1>7. CASE NextTask
  <2>1. due' \cup {task'} \subseteq due \cup {task, NoTask} /\ UNCHANGED <<next, todo>>
    BY <1>7 DEF NextTask
  <2> QED
    BY <1>1, <2>1 DEF WorkSeen
<1>8. CASE Start
  BY <1>1, <1>8 DEF WorkSeen, Start
<1>9. CASE Generate
  <2>1. task # NoTask
    BY <1>9, NoRowAssumption DEF Generate, RestOK, TaskInv, TaskType, NoTask
  <2> QED
    BY <1>1, <1>9, <2>1 DEF WorkSeen, Generate
<1>15. CASE Fetch
  BY <1>1, <1>15 DEF WorkSeen, Fetch
<1>10. CASE Batch
  <2>1. PICK x \in todo : todo' = todo \ {x} /\ next' = Advance(x[2])
    BY <1>10 DEF Batch
  <2> QED
    BY <1>1, <1>10, <2>1 DEF WorkSeen, Batch, Advance, Later
<1>11. CASE Snapshot \/ SnapshotFails
  <2>1. \A x \in todo' : x[2] <= t
    BY <1>1, <1>11 DEF Snapshot, SnapshotFails, WorkSeen
  <2> QED
    BY <1>1, <1>11, <2>1 DEF WorkSeen, Snapshot, SnapshotFails
<1>12. CASE PruneDocs
  BY <1>1, <1>12 DEF WorkSeen, PruneDocs
<1>13. CASE Done \/ Fail
  <2>1. UNCHANGED <<due, task>> /\ todo' \subseteq todo /\ next' = 0
    BY <1>13 DEF Done, Fail
  <2> QED
    BY <1>1, <2>1 DEF WorkSeen
<1>14. CASE Crash
  BY <1>1, <1>14 DEF WorkSeen, Crash
<1> QED
  BY <1>3, <1>4, <1>5, <1>6, <1>7, <1>8, <1>9, <1>10, <1>11, <1>12, <1>13, <1>14, <1>15, Split
     DEF Plain

LEMMA SeenKept ==
  ASSUME RowsOK, RestOK, NEW t \in Nat, Seen(t), Next,
         Fetch => \A x \in todo' : x[2] <= t
  PROVE  Seen(t)'
<1>1. RowsSeen(t)' /\ CallsSeen(t)' /\ WorkSeen(t)'
  BY RowsSeenKept, CallsSeenKept, WorkSeenKept
<1> QED
  BY <1>1 DEF Seen, RowsSeen, CallsSeen, WorkSeen

LEMMA SourceSteps ==
  ASSUME RestOK, Next
  PROVE  UNCHANGED <<source, now>> \/ \E d \in Doc : Change(d) \/ Remove(d)
<1>1. CASE \E p \in Proc : \/ ScheduleTrim(p) \/ ScheduleExists(p) \/ ScheduleConn(p)
                           \/ ScheduleInsert(p) \/ ScheduleFails(p)
  BY <1>1, CallsOfSchedule DEF content
<1>2. CASE \E q \in Req : \/ Ask(q) \/ CancelRows(q) \/ CancelConn(q) \/ DeleteConn(q)
                          \/ DeleteRows(q) \/ DeleteDocs(q) \/ PlanNext(q) \/ Answer(q)
                          \/ RequestDies(q)
  BY <1>2 DEF Ask, CancelRows, CancelConn, DeleteConn, DeleteRows, DeleteDocs, PlanNext,
              Answer, RequestDies, content
<1>3. CASE \/ ListSync \/ ListPrune \/ NextTask \/ Start \/ Generate \/ Fetch \/ Batch \/ Snapshot
           \/ SnapshotFails \/ PruneDocs \/ Done \/ Fail \/ Crash
  BY <1>3 DEF ListSync, ListPrune, NextTask, Start, Generate, Fetch, Batch, Snapshot,
              SnapshotFails, PruneDocs, Done, Fail, Crash, content
<1>4. CASE SetPruneFreq
  BY <1>4 DEF SetPruneFreq
<1> QED
  BY <1>1, <1>2, <1>3, <1>4, Split DEF Plain

LEMMA StoredSteps ==
  ASSUME RestOK, Next
  PROVE  \/ stored' = stored
         \/ Batch \/ PruneDocs \/ \E q \in Req : DeleteDocs(q)
<1>1. CASE \E p \in Proc : \/ ScheduleTrim(p) \/ ScheduleExists(p) \/ ScheduleConn(p)
                           \/ ScheduleInsert(p) \/ ScheduleFails(p)
  BY <1>1, CallsOfSchedule DEF content
<1>2. CASE \E q \in Req : \/ Ask(q) \/ CancelRows(q) \/ CancelConn(q) \/ DeleteConn(q)
                          \/ DeleteRows(q) \/ PlanNext(q) \/ Answer(q) \/ RequestDies(q)
  BY <1>2 DEF Ask, CancelRows, CancelConn, DeleteConn, DeleteRows, PlanNext,
              Answer, RequestDies, content
<1>3. CASE \/ ListSync \/ ListPrune \/ NextTask \/ Start \/ Generate \/ Fetch \/ Snapshot
           \/ SnapshotFails \/ Done \/ Fail \/ Crash
  BY <1>3 DEF ListSync, ListPrune, NextTask, Start, Generate, Fetch, Snapshot, SnapshotFails,
              Done, Fail, Crash, content
<1>4. CASE SetPruneFreq \/ \E d \in Doc : Change(d) \/ Remove(d)
  BY <1>4 DEF Change, Remove, SetPruneFreq
<1> QED
  BY <1>1, <1>2, <1>3, <1>4, Split DEF Plain

(* Nothing is later than the clock of the source.                          *)
(* A page lists the documents as they are.                                 *)
LEMMA Fetched ==
  ASSUME RestOK, Fetch
  PROVE  /\ source' = source
         /\ \A y \in todo' : /\ y[1] \in unlisted /\ y[1] \notin unlisted'
                             /\ y[1] \in Doc /\ y[2] = source[y[1]]
                             /\ until # 0 => source[y[1]] <= until
  BY DEF Fetch, content, RestOK

LEMMA ClockKept ==
  ASSUME RowsOK, RestOK, RowsOK', RestOK', ClockInv, Next
  PROVE  ClockInv'
<1>1. PICK t \in Nat : t = now
  BY DEF RestOK
<1>2. Seen(t)' /\ Seen(t)
  <2>1. Fetch => \A x \in todo' : x[2] <= t
    <3> SUFFICES ASSUME Fetch, NEW x \in todo' PROVE x[2] <= t
      OBVIOUS
    <3>1. x[1] \in Doc /\ x[2] = source[x[1]]
      BY Fetched
    <3> QED
      BY <1>1, <3>1 DEF ClockInv
  <2> QED
    BY <1>1, <2>1, SeenKept DEF ClockInv
<1>3. now' \in Nat /\ t <= now' /\ \A d \in Doc : source'[d] <= now'
  <2>1. CASE UNCHANGED <<source, now>>
    BY <1>1, <2>1 DEF ClockInv
  <2>2. CASE \E d \in Doc : Change(d) \/ Remove(d)
    <3>1. PICK d \in Doc : Change(d) \/ Remove(d)
      BY <2>2
    <3>2. \A e \in Doc : source[e] \in Nat /\ source[e] <= t
      BY <1>1 DEF RestOK, ClockInv
    <3>3. CASE Change(d)
      BY <1>1, <3>2, <3>3 DEF Change, RestOK
    <3>4. CASE Remove(d)
      BY <1>1, <3>2, <3>4 DEF Remove, RestOK
    <3> QED
      BY <3>1, <3>3, <3>4
  <2> QED
    BY <2>1, <2>2, SourceSteps
<1>4. \A d \in Doc, kb \in Kb : stored'[<<kb, d>>] <= t
  <2>1. \A d \in Doc, kb \in Kb : stored[<<kb, d>>] \in Nat /\ stored[<<kb, d>>] <= t
    BY <1>1 DEF RestOK, ClockInv
  <2>2. CASE Batch
    <3>1. PICK x \in todo, kept \in BOOLEAN :
            /\ stored' = IF kept THEN [stored EXCEPT ![<<task.row[1][1], x[1]>>] = x[2]]
                         ELSE stored
      BY <2>2 DEF Batch
    <3>2. x[2] <= t
      BY <1>2, SeenParts DEF WorkSeen
    <3> QED
      BY <2>1, <3>1, <3>2 DEF RestOK
  <2>3. CASE PruneDocs \/ \E q \in Req : DeleteDocs(q)
    <3>1. \A x \in Kb \X Doc : stored'[x] \in {0, stored[x]}
      BY <2>3 DEF PruneDocs, DeleteDocs
    <3>2. ASSUME NEW d \in Doc, NEW kb \in Kb PROVE stored'[<<kb, d>>] <= t
      <4>1. stored'[<<kb, d>>] \in {0, stored[<<kb, d>>]}
        BY <3>1
      <4>2. stored[<<kb, d>>] <= t /\ 0 <= t
        BY <2>1
      <4> QED
        BY <4>1, <4>2
    <3> QED
      BY <3>2
  <2> QED
    BY <2>1, <2>2, <2>3, StoredSteps
<1>5. \A d \in Doc, kb \in Kb : stored'[<<kb, d>>] <= now'
  <2> SUFFICES ASSUME NEW d \in Doc, NEW kb \in Kb PROVE stored'[<<kb, d>>] <= now'
    OBVIOUS
  <2>1. PICK n \in Nat : n = stored'[<<kb, d>>]
    BY DEF RestOK
  <2>2. n <= t
    BY <1>4, <2>1
  <2> QED
    BY <1>3, <2>1, <2>2
<1>6. PICK u \in Nat : u = now'
  BY <1>3
<1>7. t <= u /\ Seen(t)'
  BY <1>2, <1>3, <1>6
<1>8. Seen(u)'
  <2>1. RowsSeen(u)'
    <3>1. \A w \in Row : Exists(w)' => rows'[w].start \in Nat /\ rows'[w].end \in Nat
      BY DEF RowsOK, RowType, Exists
    <3> QED
      BY <1>7, <3>1 DEF Seen, RowsSeen
  <2>2. CallsSeen(u)'
    <3>1. \A p \in Proc : call'[p] # NoCall => call'[p].start \in Nat
      BY DEF RestOK, CallType, NoCall
    <3> QED
      BY <1>7, <3>1 DEF Seen, CallsSeen
  <2>3. WorkSeen(u)'
    <3>1. \A v \in due' \cup {task'} : v # NoTask => v.start \in Nat
      BY DEF RestOK, TaskType
    <3>2. next' \in Nat /\ \A x \in todo' : x[2] \in Nat
      BY DEF RestOK
    <3> QED
      BY <1>7, <3>1, <3>2 DEF Seen, WorkSeen
  <2> QED
    BY <2>1, <2>2, <2>3 DEF Seen, RowsSeen, CallsSeen, WorkSeen
<1> QED
  BY <1>3, <1>5, <1>6, <1>8 DEF ClockInv, Seen

-----------------------------------------------------------------------------
(* What is to come of a window.                                            *)

(* A document that changed after everything the process has come to.       *)
Fresh(d) == Seen(source[d])

LEMMA FreshKept ==
  ASSUME RowsOK, RestOK, Next, ~Fetch, NEW d \in Doc, source'[d] = source[d], Fresh(d)
  PROVE  Fresh(d)'
<1>1. PICK t \in Nat : t = source[d]
  BY DEF RestOK
<1>2. Seen(t)'
  BY <1>1, SeenKept DEF Fresh
<1> QED
  BY <1>1, <1>2 DEF Fresh, Seen

(* What has changed after the end of the window.                           *)
LEMMA FreshBeyond ==
  ASSUME RowsOK, RestOK, TodoInv, NEW d \in Doc, until # 0, until < source[d]
  PROVE  Fresh(d)
<1>1. PICK t \in Nat : t = source[d] /\ until < t /\ until \in Nat
  BY DEF RestOK
<1>2. \A w \in Row : Exists(w) => rows[w].start \in Nat /\ rows[w].end \in Nat
  BY DEF RowsOK, RowType, Exists
<1>3. \A p \in Proc : call[p] # NoCall => call[p].start \in Nat
  BY DEF RestOK, CallType, NoCall
<1>4. \A v \in due \cup {task} : v # NoTask => v.start \in Nat
  BY DEF RestOK, TaskType
<1>5. next \in Nat /\ \A x \in todo : x[2] \in Nat
  BY DEF RestOK
<1>6. Seen(until)
  BY DEF TodoInv
<1>7. RowsSeen(t)
  BY <1>1, <1>2, <1>6 DEF Seen, RowsSeen
<1>8. CallsSeen(t)
  BY <1>1, <1>3, <1>6 DEF Seen, CallsSeen
<1>9. WorkSeen(t)
  BY <1>1, <1>4, <1>5, <1>6 DEF Seen, WorkSeen
<1> QED
  BY <1>1, <1>7, <1>8, <1>9, SeenParts DEF Fresh

LEMMA FreshChanged ==
  ASSUME RestOK, NEW d \in Doc, Change(d), ClockInv'
  PROVE  Fresh(d)' /\ source'[d] = now + 1
<1>1. source'[d] = now' /\ now' = now + 1
  BY DEF Change, RestOK
<1> QED
  BY <1>1 DEF ClockInv, Fresh, Seen

(* No row is DONE that was not, but by Done.                               *)
LEMMA NoneDone ==
  ASSUME RowsOK, RestOK, Next, ~Done, NEW w \in Row, Exists(w)', rows'[w].status = "done"
  PROVE  Exists(w) /\ rows[w].status = "done"
<1>1. ASSUME NEW W, Others(W), w \notin W
      PROVE  Exists(w) /\ rows[w].status = "done"
  BY <1>1 DEF Others, Exists
<1>2. CASE UNCHANGED <<rows, latest>> \/ NextTask \/ Crash
  BY <1>1, <1>2, TablesKept, TablesTidied DEF NextTask, Crash
<1>3. CASE Start \/ Fail
  <2>1. Settled({task.row}, "running") \/ Settled({task.row}, "fail")
    BY <1>3, TablesOfTask DEF RestOK
  <2> QED
    BY <1>1, <2>1 DEF Settled
<1>4. CASE \E q \in Req : CancelRows(q)
  BY <1>4, TablesCanceled
<1>5. CASE \E q \in Req : DeleteRows(q)
  BY <1>5, TablesDeleted DEF Exists
<1>6. CASE \E p \in Proc : ScheduleTrim(p)
  BY <1>6, TablesTrimmed DEF Exists
<1>7. CASE \E p \in Proc : ScheduleInsert(p)
  <2>1. PICK p \in Proc : ScheduleInsert(p)
    BY <1>7
  <2>2. PICK v : NewRow(v, p)
    BY <2>1, TablesInserted
  <2> QED
    BY <1>1, <2>2 DEF NewRow, Waits
<1>8. CASE \E p \in Proc : ScheduleFails(p)
  <2>1. PICK p \in Proc : ScheduleFails(p)
    BY <1>8
  <2>2. CASE latest[call[p].of] = NoRow
    BY <1>2, <2>1, <2>2 DEF ScheduleFails
  <2>3. CASE latest[call[p].of] # NoRow
    <3>1. PICK u : OldRow(u, p)
      BY <2>1, <2>3, TablesRevived
    <3> QED
      BY <1>1, <3>1 DEF OldRow, Waits
  <2> QED
    BY <2>2, <2>3
<1>9. CASE Batch
  <2>1. PICK x \in todo : Stretched(x[2]) \/ UNCHANGED <<rows, latest>>
    BY <1>9, BatchStretches
  <2> QED
    BY <1>2, <2>1 DEF Stretched
<1>10. CASE ListSync \/ ListPrune \/ Generate \/ Fetch \/ Snapshot \/ SnapshotFails \/ PruneDocs
  BY <1>2, <1>10 DEF ListSync, ListPrune, Generate, Fetch, Snapshot, SnapshotFails, PruneDocs,
                     tables
<1>11. CASE \E q \in Req : \/ Ask(q) \/ CancelConn(q) \/ DeleteConn(q) \/ DeleteDocs(q)
                           \/ PlanNext(q) \/ Answer(q) \/ RequestDies(q)
  BY <1>2, <1>11 DEF Ask, CancelConn, DeleteConn, DeleteDocs, PlanNext, Answer, RequestDies,
                    tables
<1>12. CASE \E p \in Proc : ScheduleExists(p) \/ ScheduleConn(p)
  BY <1>2, <1>12 DEF ScheduleExists, ScheduleConn, tables
<1>13. CASE SetPruneFreq \/ \E d \in Doc : Change(d) \/ Remove(d)
  BY <1>2, <1>13 DEF Change, Remove, SetPruneFreq, tables
<1> QED
  BY <1>2, <1>3, <1>4, <1>5, <1>6, <1>7, <1>8, <1>9, <1>10, <1>11, <1>12, <1>13, Split
     DEF Plain

(* The steps by which the process moves on in a task, and what it keeps    *)
(* when it does not.                                                       *)
Work == <<dpc, due, task, todo, next, unlisted, until>>

LEMMA ProcessSteps ==
  ASSUME RestOK, Next
  PROVE  \/ Work' = Work /\ late \subseteq late'
         \/ ListSync \/ ListPrune \/ NextTask \/ Start \/ Generate \/ Fetch \/ Batch \/ Snapshot
         \/ SnapshotFails \/ PruneDocs \/ Done \/ Fail \/ Crash
<1>1. ASSUME UNCHANGED process PROVE Work' = Work /\ late \subseteq late'
  BY <1>1 DEF process, listing, Work
<1>2. CASE \E p \in Proc : \/ ScheduleTrim(p) \/ ScheduleExists(p) \/ ScheduleConn(p)
                           \/ ScheduleInsert(p) \/ ScheduleFails(p)
  BY <1>1, <1>2, CallsOfSchedule
<1>3. CASE \E q \in Req : \/ Ask(q) \/ CancelRows(q) \/ CancelConn(q) \/ DeleteConn(q)
                          \/ DeleteRows(q) \/ DeleteDocs(q) \/ PlanNext(q) \/ Answer(q)
                          \/ RequestDies(q)
  BY <1>1, <1>3 DEF Ask, CancelRows, CancelConn, DeleteConn, DeleteRows, DeleteDocs, PlanNext,
                    Answer, RequestDies
<1>4. CASE SetPruneFreq \/ \E d \in Doc : Remove(d)
  BY <1>1, <1>4 DEF Remove, SetPruneFreq
<1>5. CASE \E d \in Doc : Change(d)
  BY <1>5 DEF Change, Work
<1> QED
  BY <1>2, <1>3, <1>4, <1>5, Split DEF Plain

(* The end of the window, and what the steps of a task begin with.         *)
LEMMA UntilKept ==
  ASSUME RowsOK, RestOK, RowsOK', RestOK', ClockInv, TodoInv, ClockInv', Next, until' # 0
  PROVE  until' <= now' /\ Seen(until)'
<1>1. until' = until \/ (Generate /\ until' = now)
  BY ProcessSteps DEF Work, ListSync, ListPrune, NextTask, Start, Generate, Fetch, Batch,
     Snapshot, SnapshotFails, PruneDocs, Done, Fail, Crash, Forget, listing
<1>2. PICK t \in Nat : t = until'
  BY DEF RestOK
<1>3. t <= now /\ Seen(t)
  BY <1>1, <1>2 DEF TodoInv, ClockInv, Seen
<1>4. Fetch => \A x \in todo' : x[2] <= t
  <2>1. Fetch => until = t /\ until # 0
    BY <1>1, <1>2 DEF Fetch, Generate
  <2> QED
    BY <2>1 DEF Fetch
<1>5. Seen(t)'
  BY <1>2, <1>3, <1>4, SeenKept
<1>6. now' = now \/ now' = now + 1
  BY SourceSteps DEF Change, Remove
<1>7. t <= now'
  <2>1. PICK n \in Nat : n = now
    BY DEF RestOK
  <2> QED
    BY <1>2, <1>3, <1>6, <2>1
<1> QED
  BY <1>2, <1>5, <1>7 DEF Seen

LEMMA Unbegun ==
  ASSUME RestOK, TodoInv, Next
  PROVE  /\ dpc' \notin {"batch", "snapshot", "prune"} => todo' = {}
         /\ dpc' = "generate" => unlisted' = Doc
<1>1. /\ dpc \notin {"batch", "snapshot", "prune"} => todo = {}
      /\ dpc = "generate" => unlisted = Doc
  BY DEF TodoInv
<1>2. CASE Work' = Work
  BY <1>1, <1>2 DEF Work
<1>3. CASE ListSync \/ ListPrune \/ NextTask \/ Start
  BY <1>1, <1>3 DEF ListSync, ListPrune, NextTask, Start
<1>4. CASE Generate \/ Fetch \/ Batch \/ Snapshot \/ SnapshotFails \/ PruneDocs \/ Done \/ Fail
             \/ Crash
  BY <1>1, <1>4 DEF Generate, Fetch, Batch, Snapshot, SnapshotFails, PruneDocs, Done, Fail,
                    Crash
<1> QED
  BY <1>2, <1>3, <1>4, ProcessSteps

(* The documents of a page: no two steps list the same one, and it is      *)
(* stored once.                                                            *)
LEMMA PageKept ==
  ASSUME RestOK, ClockInv, TodoInv, Next, dpc' = "batch", NEW x \in todo'
  PROVE  Current(x)' /\ x[1] \notin unlisted' /\ \A y \in todo' : x[1] = y[1] => x = y
<1>1. CASE Fetch
  <2>1. \A y \in todo' : /\ y[2] = source[y[1]] /\ y = <<y[1], y[2]>>
                         /\ y[1] \notin unlisted'
    BY <1>1 DEF Fetch
  <2>2. source' = source
    BY <1>1 DEF Fetch, content
  <2> QED
    BY <2>1, <2>2 DEF Current
<1>2. CASE Generate
  BY <1>2 DEF Generate, TodoInv
<1>3. CASE ~Fetch /\ ~Generate
  <2>1. /\ dpc = "batch" /\ todo' \subseteq todo /\ until' = until /\ late \subseteq late'
        /\ unlisted' = unlisted
    BY <1>3, ProcessSteps DEF Work, listing, ListSync, ListPrune, NextTask, Start, Batch,
         Snapshot, SnapshotFails, PruneDocs, Done, Fail, Crash
  <2>2. x \in todo /\ x[1] \in Doc /\ x = <<x[1], x[2]>>
    BY <2>1 DEF RestOK
  <2>3. /\ Current(x) /\ x[1] \notin unlisted'
        /\ \A y \in todo : x[1] = y[1] => x = y
    BY <2>1, <2>2 DEF TodoInv
  <2>4. PICK d \in Doc : d = x[1]
    BY <2>2
  <2>5. \A kb \in Kb : stored[<<kb, d>>] \in Nat /\ stored'[<<kb, d>>] \in {0, stored[<<kb, d>>]}
    <3>1. CASE stored' = stored
      BY <3>1 DEF RestOK
    <3>2. CASE \E q \in Req : DeleteDocs(q)
      BY <3>2 DEF DeleteDocs, RestOK
    <3>3. CASE Batch
      <4>1. PICK y \in todo, kept \in BOOLEAN :
              /\ todo' = todo \ {y}
              /\ stored' = IF kept THEN [stored EXCEPT ![<<task.row[1][1], y[1]>>] = y[2]]
                           ELSE stored
        BY <3>3 DEF Batch
      <4>2. y[1] # d
        BY <2>3, <2>4, <4>1
      <4>3. \A kb \in Kb : stored'[<<kb, d>>] = stored[<<kb, d>>]
        BY <4>1, <4>2 DEF RestOK
      <4> QED
        BY <4>3 DEF RestOK
    <3>4. ~PruneDocs
      BY <2>1 DEF PruneDocs
    <3> QED
      BY <3>1, <3>2, <3>3, <3>4, StoredSteps
  <2>6. source[d] \in Nat
    BY DEF RestOK
  <2>7. CASE source'[d] = source[d]
    <3>1. CASE source[d] \in {0, x[2]} \/ (until # 0 /\ until < source[d])
      BY <2>1, <2>3, <2>4, <2>7, <3>1 DEF Current
    <3>2. CASE d \in late /\ source[d] # 0 /\ \A kb \in Kb : stored[<<kb, d>>] < source[d]
      <4>1. \A kb \in Kb : stored'[<<kb, d>>] < source[d]
        BY <2>5, <2>6, <3>2
      <4> QED
        BY <2>1, <2>3, <2>4, <2>7, <3>2, <4>1 DEF Current
    <3>3. \/ source[d] \in {0, x[2]} \/ (until # 0 /\ until < source[d])
          \/ d \in late /\ source[d] # 0 /\ \A kb \in Kb : stored[<<kb, d>>] < source[d]
      BY <2>3, <2>4 DEF Current
    <3> QED
      BY <2>1, <2>3, <3>1, <3>2, <3>3
  <2>8. CASE Remove(d)
    BY <2>1, <2>3, <2>4, <2>8 DEF Remove, RestOK, Current
  <2>9. CASE Change(d)
    <3>1. PICK n \in Nat : n = now
      BY DEF RestOK
    <3>2. source'[d] = n + 1 /\ stored' = stored
      BY <2>9, <3>1 DEF Change, RestOK
    <3>3. CASE until # 0
      <4>1. until < n + 1 /\ until' = until
        BY <2>1, <3>1, <3>3 DEF TodoInv, RestOK
      <4> QED
        BY <2>1, <2>3, <2>4, <3>2, <3>3, <4>1 DEF Current
    <3>4. CASE until = 0
      <4>1. d \in late'
        BY <2>1, <2>3, <2>4, <2>9, <3>4 DEF Change
      <4>2. \A kb \in Kb : stored'[<<kb, d>>] < n + 1
        <5>1. \A kb \in Kb : stored[<<kb, d>>] <= n /\ stored[<<kb, d>>] \in Nat
          BY <3>1 DEF ClockInv, RestOK
        <5> QED
          BY <3>1, <3>2, <5>1
      <4> QED
        BY <2>1, <2>3, <2>4, <3>2, <4>1, <4>2 DEF Current
    <3> QED
      BY <3>3, <3>4
  <2>10. source'[d] = source[d] \/ Change(d) \/ Remove(d)
    BY SourceSteps DEF Change, Remove, RestOK
  <2> QED
    BY <2>7, <2>8, <2>9, <2>10
<1> QED
  BY <1>1, <1>2, <1>3

(* What a prune has not found is not there, or came back after it looked.  *)
LEMMA PruneKept ==
  ASSUME RestOK, ClockInv, TodoInv, Next, dpc' \in {"snapshot", "prune"},
         NEW x \in todo', NEW kb \in Kb
  PROVE  source'[x[1]] = 0 \/ stored'[<<kb, x[1]>>] < source'[x[1]]
<1>1. CASE Start
  <2>1. todo = {} /\ todo' = todo
    BY <1>1 DEF Start, TodoInv
  <2> QED
    BY <2>1
<1>2. CASE Snapshot /\ x \notin todo
  BY <1>2 DEF Snapshot, content
<1>3. CASE ~Start /\ (~Snapshot \/ x \in todo)
  <2>1. dpc \in {"snapshot", "prune"} /\ x \in todo /\ ~Batch /\ ~PruneDocs
    BY <1>3, ProcessSteps DEF Work, ListSync, ListPrune, NextTask, Start, Generate, Fetch, Batch,
       Snapshot, SnapshotFails, PruneDocs, Done, Fail, Crash
  <2>2. PICK d \in Doc : d = x[1]
    BY <2>1 DEF RestOK
  <2>3. PICK n \in Nat : n = stored[<<kb, d>>]
    BY DEF RestOK
  <2>4. source[d] \in Nat /\ (source[d] = 0 \/ n < source[d])
    BY <2>1, <2>2, <2>3 DEF TodoInv, RestOK
  <2>5. stored'[<<kb, d>>] \in {0, n}
    <3>1. CASE stored' = stored
      BY <2>3, <3>1
    <3>2. CASE \E q \in Req : DeleteDocs(q)
      BY <2>3, <3>2 DEF DeleteDocs
    <3> QED
      BY <2>1, <3>1, <3>2, StoredSteps
  <2>6. CASE source'[d] = source[d]
    BY <2>2, <2>4, <2>5, <2>6
  <2>7. CASE Change(d)
    <3>1. source'[d] = now + 1 /\ now \in Nat /\ n <= now
      BY <2>3, <2>7 DEF Change, ClockInv, RestOK
    <3> QED
      BY <2>2, <2>5, <3>1
  <2>8. CASE Remove(d)
    BY <2>2, <2>8 DEF Remove, RestOK
  <2>9. source'[d] = source[d] \/ Change(d) \/ Remove(d)
    BY SourceSteps DEF Change, Remove, RestOK
  <2> QED
    BY <2>6, <2>7, <2>8, <2>9
<1> QED
  BY <1>1, <1>2, <1>3

LEMMA TodoKept ==
  ASSUME RowsOK, RestOK, RowsOK', RestOK', StepInv, ClockInv, TodoInv, ClockInv', Next
  PROVE  TodoInv'
<1>1. ASSUME dpc' \in {"generate", "batch"}, Exists(task.row)'
      PROVE  rows'[task'.row].status # "done"
  <2>1. PICK w : w = task.row
    OBVIOUS
  <2>2. task' = task /\ ~Done /\ (Start \/ dpc \in {"generate", "batch"})
    BY <1>1, ProcessSteps DEF Work, ListSync, ListPrune, NextTask, Start, Generate, Fetch, Batch,
         Snapshot, SnapshotFails, PruneDocs, Done, Fail, Crash
  <2>3. w \in Row
    BY <2>1, <2>2 DEF Start, RestOK, TaskInv, TaskType
  <2>4. rows'[w] # NoRow
    BY <1>1, <2>1, <2>2 DEF Exists
  <2>5. CASE Start
    BY <2>1, <2>4, <2>5, <2>2, TablesOfTask DEF Settled, RestOK, Exists
  <2>6. CASE ~Start
    BY <2>1, <2>2, <2>3, <2>4, <2>6, NoneDone DEF TodoInv, Exists
  <2> QED
    BY <2>1, <2>2, <2>5, <2>6
<1>2. until' # 0 => until' <= now' /\ Seen(until)'
  BY UntilKept
<1>3. dpc' = "batch" =>
        \A x \in todo' : /\ Current(x)' /\ x[1] \notin unlisted'
                         /\ \A y \in todo' : x[1] = y[1] => x = y
  BY PageKept
<1>4. dpc' \in {"snapshot", "prune"} =>
        \A x \in todo', kb \in Kb : source'[x[1]] = 0 \/ stored'[<<kb, x[1]>>] < source'[x[1]]
  BY PruneKept
<1> QED
  BY <1>1, <1>2, <1>3, <1>4, Unbegun DEF TodoInv

-----------------------------------------------------------------------------
(* The windows of the syncs to come.                                       *)
LEMMA HistorySteps ==
  ASSUME RestOK, Next
  PROVE  wiped \subseteq wiped' /\ (Batch \/ skipped' = skipped)
<1>1. CASE \E p \in Proc : \/ ScheduleTrim(p) \/ ScheduleExists(p) \/ ScheduleConn(p)
                           \/ ScheduleInsert(p) \/ ScheduleFails(p)
  BY <1>1 DEF ScheduleTrim, ScheduleExists, ScheduleConn, ScheduleInsert, ScheduleFails
<1>2. CASE \E q \in Req : \/ Ask(q) \/ CancelRows(q) \/ CancelConn(q) \/ DeleteConn(q)
                          \/ DeleteRows(q) \/ DeleteDocs(q) \/ PlanNext(q) \/ Answer(q)
                          \/ RequestDies(q)
  BY <1>2 DEF Ask, CancelRows, CancelConn, DeleteConn, DeleteRows, DeleteDocs, PlanNext,
              Answer, RequestDies, history
<1>3. CASE \/ ListSync \/ ListPrune \/ NextTask \/ Start \/ Generate \/ Fetch \/ Batch \/ Snapshot
           \/ SnapshotFails \/ PruneDocs \/ Done \/ Fail \/ Crash
  BY <1>3 DEF ListSync, ListPrune, NextTask, Start, Generate, Fetch, Batch, Snapshot,
              SnapshotFails, PruneDocs, Done, Fail, Crash, history
<1>4. CASE SetPruneFreq \/ \E d \in Doc : Change(d) \/ Remove(d)
  BY <1>4 DEF Change, Remove, SetPruneFreq, history
<1> QED
  BY <1>1, <1>2, <1>3, <1>4, Split DEF Plain

(* What nobody has come past is in every window.                           *)
SeenWindows == \A kb \in Kb, t \in Nat : Seen(t) => Window(kb, t)

LEMMA SeenWindow == RowsOK /\ RestOK => SeenWindows
<1> SUFFICES ASSUME RowsOK, RestOK, NEW kb \in Kb, NEW t \in Nat, Seen(t)
             PROVE  Window(kb, t)
  BY DEF SeenWindows
<1> DEFINE p == <<kb, "sync">>
<1>1. \A w \in Waiting(p) : rows[w].start <= t
  BY DEF Seen, Waiting, Waits
<1>2. LatestEnd(kb) <= t
  <2>1. CASE latest[p] # NoRow
    <3>1. latest[p] \in Row /\ Exists(latest[p])
      BY <2>1, SyncPair DEF RowsOK, LatestInv
    <3>2. rows[latest[p]].end <= t
      BY <3>1 DEF Seen, Exists
    <3> QED
      BY <3>2 DEF LatestEnd
  <2>2. CASE latest[p] = NoRow
    BY <2>2 DEF LatestEnd
  <2> QED
    BY <2>1, <2>2
<1>3. \A q \in Proc : call[q] # NoCall => call[q].start <= t
  BY DEF Seen
<1>4. \A u \in due : u.start <= t
  <2>1. NoTask \notin due
    BY NoRowAssumption DEF RestOK, TaskType, NoTask
  <2> QED
    BY <2>1 DEF Seen
<1>5. dpc \in {"start", "generate"} => task.start <= t
  <2>1. dpc \in {"start", "generate"} => task # NoTask
    BY NoRowAssumption DEF RestOK, TaskInv, TaskType, NoTask
  <2> QED
    BY <2>1 DEF Seen
<1> QED
  BY <1>1, <1>2, <1>3, <1>4, <1>5 DEF Window

LEMMA FreshWindow ==
  ASSUME RowsOK', RestOK', NEW kb \in Kb, NEW d \in Doc, Fresh(d)'
  PROVE  Window(kb, source[d])'
<1>1. PICK t \in Nat : t = source'[d]
  BY DEF RestOK
<1>2. Seen(t)'
  BY <1>1 DEF Fresh, Seen
<1>3. SeenWindows'
  BY SeenWindow, PTL
<1>4. Window(kb, t)'
  BY <1>2, <1>3 DEF SeenWindows, Seen, Window
<1> QED
  BY <1>1, <1>4 DEF Window

(* A document that changes now is ahead of a load: it is not listed yet,   *)
(* it is beyond the window, or it is late.                                 *)
LEMMA AheadChanged ==
  ASSUME RestOK, RestOK', ClockInv', TodoInv, NEW d \in Doc, Change(d), dpc' = "batch"
  PROVE  Ahead(d)'
<1>1. source'[d] = now' /\ now' = now + 1
  BY DEF Change, RestOK
<1>2. PICK n \in Nat : n = now'
  BY DEF RestOK
<1>3. Seen(n)'
  BY <1>2 DEF ClockInv, Seen
<1>4. task' \in TaskType /\ task' # NoTask
  BY NoRowAssumption DEF RestOK, TaskInv, TaskType, NoTask
<1>5. /\ task'.row \in Row /\ task'.start <= n /\ next' <= n
      /\ Exists(task.row)' => rows'[task'.row].end <= n
  BY <1>3, <1>4 DEF Seen, TaskType, Exists
<1>6. CASE until # 0
  <2>1. until' = until /\ until <= now /\ until \in Nat /\ now \in Nat
    BY <1>6 DEF Change, TodoInv, RestOK
  <2> QED
    BY <1>1, <1>6, <2>1 DEF Ahead
<1>7. CASE d \in unlisted
  <2>1. d \in unlisted'
    BY <1>7 DEF Change
  <2> QED
    BY <1>1, <1>2, <1>5, <2>1 DEF Ahead
<1>8. CASE until = 0 /\ d \notin unlisted
  <2>1. d \in late'
    BY <1>8 DEF Change
  <2> QED
    BY <1>1, <1>2, <1>5, <2>1 DEF Ahead
<1> QED
  BY <1>6, <1>7, <1>8

(* What is behind was so before, but for what is fresh, which a load has   *)
(* not come to, and for what a rebuild removes.                            *)
LEMMA BehindBefore ==
  ASSUME RowsOK, RestOK, RestOK', ClockInv', TodoInv, Next,
         NEW kb \in Kb, NEW d \in Doc, Behind(kb, d)',
         \A q \in Req : DeleteDocs(q) => kb \notin kbs[q]
  PROVE  \/ Fresh(d)' /\ (dpc' = "batch" => Ahead(d)')
         \/ Behind(kb, d) /\ source'[d] = source[d]
<1> DEFINE key == <<kb, d>>
<1>1. stored'[key] < source'[d] /\ key \notin skipped' /\ key \in Kb \X Doc
  BY DEF Behind
<1>2. stored[key] \in Nat /\ source[d] \in Nat
  BY DEF RestOK
<1>3. CASE \E e \in Doc : Change(e) \/ Remove(e)
  <2>1. PICK e \in Doc : Change(e) \/ Remove(e)
    BY <1>3
  <2>2. stored' = stored /\ skipped' = skipped
    BY <2>1 DEF Change, Remove, SetPruneFreq, history
  <2>3. CASE e # d
    BY <1>1, <2>1, <2>2, <2>3 DEF Change, Remove, SetPruneFreq, Behind, RestOK
  <2>4. CASE e = d /\ Change(e)
    BY <2>4, FreshChanged, AheadChanged
  <2>5. CASE e = d /\ Remove(e)
    BY <1>1, <1>2, <2>2, <2>5 DEF Remove, RestOK
  <2> QED
    BY <2>1, <2>3, <2>4, <2>5
<1>4. CASE source' = source /\ stored'[key] = stored[key] /\ skipped' = skipped
  BY <1>1, <1>4 DEF Behind
<1>5. CASE Batch
  <2>1. source' = source /\ until' = until /\ dpc = "batch" /\ ~Fetch
    BY <1>5 DEF Batch, Fetch, listing
  <2>2. PICK x \in todo, kept \in BOOLEAN :
          /\ stored' = (IF kept THEN [stored EXCEPT ![<<task.row[1][1], x[1]>>] = x[2]]
                        ELSE stored)
          /\ kept /\ x[1] \in late => skipped \subseteq skipped'
          /\ IF kept THEN skipped \ {<<task.row[1][1], x[1]>>} \subseteq skipped'
             ELSE skipped \cup {<<task.row[1][1], x[1]>>} \subseteq skipped'
    BY <1>5, BatchStretches
  <2>3. CASE key # <<task.row[1][1], x[1]>>
    BY <1>1, <2>1, <2>2, <2>3 DEF Behind, RestOK
  <2>4. CASE key = <<task.row[1][1], x[1]>>
    <3>1. kept /\ stored'[key] = x[2] /\ d = x[1]
      BY <1>1, <2>2, <2>4 DEF RestOK
    <3>2. x[2] \in Nat /\ source[d] # x[2] /\ source[d] # 0
      BY <1>1, <1>2, <2>1, <3>1 DEF RestOK
    <3>3. Current(x)
      BY <2>1 DEF TodoInv
    <3>4. CASE until # 0 /\ until < source[d]
      <4>1. Fresh(d)'
        BY <2>1, <3>4, FreshBeyond, FreshKept
      <4>2. Ahead(d)'
        BY <2>1, <3>4 DEF Ahead
      <4> QED
        BY <4>1, <4>2
    <3>5. CASE d \in late /\ stored[key] < source[d]
      BY <1>1, <2>1, <2>2, <3>1, <3>5 DEF Behind
    <3> QED
      BY <3>1, <3>2, <3>3, <3>4, <3>5 DEF Current
  <2> QED
    BY <2>3, <2>4
<1>6. CASE PruneDocs
  <2>1. source' = source /\ skipped' = skipped /\ dpc = "prune"
    BY <1>6 DEF PruneDocs, history
  <2>2. stored'[key] = stored[key] \/ <<d, 0>> \in todo
    BY <1>1, <1>6 DEF PruneDocs
  <2>3. CASE <<d, 0>> \in todo
    <3>1. \A x \in todo : source[x[1]] = 0 \/ stored[<<kb, x[1]>>] < source[x[1]]
      BY <2>1 DEF TodoInv
    <3>2. source[d] = 0 \/ stored[key] < source[d]
      BY <2>3, <3>1
    <3>3. stored'[key] \in {0, stored[key]}
      BY <1>1, <1>6 DEF PruneDocs
    <3> QED
      BY <1>1, <1>2, <2>1, <3>2, <3>3 DEF Behind
  <2> QED
    BY <1>4, <2>1, <2>2, <2>3
<1>7. CASE \E q \in Req : DeleteDocs(q)
  <2>1. PICK q \in Req : DeleteDocs(q)
    BY <1>7
  <2>2. stored'[key] = stored[key]
    BY <1>1, <2>1 DEF DeleteDocs
  <2> QED
    BY <1>4, <2>1, <2>2 DEF DeleteDocs
<1> QED
  BY <1>3, <1>4, <1>5, <1>6, <1>7, SourceSteps, StoredSteps, HistorySteps

(* The parts of a window, step by step.                                    *)
LEMMA WaitingInWindow ==
  ASSUME RowsOK, RestOK, Next, ~Batch, NEW kb \in Kb, NEW t \in Nat, Window(kb, t),
         NEW w \in Row, Waits(w)', w[1] = <<kb, "sync">>
  PROVE  rows'[w].start <= t
<1>1. Waits(w) => rows[w].start <= t
  BY DEF Window, Waiting
<1>2. \A p \in Proc : call[p] # NoCall /\ call[p].of = <<kb, "sync">> => call[p].start <= t
  BY DEF Window
<1>3. CASE Steady
  BY <1>1, <1>3 DEF Steady, Waits
<1>4. CASE \E p \in Proc : ScheduleInsert(p)
  <2>1. PICK p \in Proc : ScheduleInsert(p) /\ call[p] # NoCall
    BY <1>4 DEF ScheduleInsert
  <2>2. PICK v : NewRow(v, p)
    BY <2>1, TablesInserted
  <2> QED
    BY <1>1, <1>2, <2>1, <2>2 DEF NewRow, Others, Waits, Exists
<1>5. CASE \E p \in Proc : ScheduleFails(p)
  <2>1. PICK p \in Proc : ScheduleFails(p) /\ call[p] # NoCall
    BY <1>5 DEF ScheduleFails
  <2>2. CASE latest[call[p].of] = NoRow
    BY <1>3, <2>1, <2>2, TablesKept DEF ScheduleFails
  <2>3. CASE latest[call[p].of] # NoRow
    <3>1. PICK u : OldRow(u, p)
      BY <2>1, <2>3, TablesRevived
    <3> QED
      BY <1>1, <1>2, <2>1, <3>1 DEF OldRow, Others, Waits, Exists
  <2> QED
    BY <2>2, <2>3
<1>6. CASE \E p \in Proc : ScheduleConn(p)
  BY <1>3, <1>6, TablesKept DEF ScheduleConn
<1> QED
  BY <1>3, <1>4, <1>5, <1>6, PlainSteady, Split

(* The end of a row is moved by a batch only.                              *)
LEMMA EndOfRow ==
  ASSUME RowsOK, RestOK, Next, ~Batch, NEW w \in Row, Exists(w)'
  PROVE  rows'[w].end = 0 \/ (Exists(w) /\ rows'[w].end = rows[w].end)
<1>1. CASE Steady
  BY <1>1 DEF Steady
<1>2. CASE \E p \in Proc : ScheduleInsert(p)
  <2>1. PICK p \in Proc : ScheduleInsert(p)
    BY <1>2
  <2>2. PICK v : NewRow(v, p)
    BY <2>1, TablesInserted
  <2> QED
    BY <2>2 DEF NewRow, Others, Exists
<1>3. CASE \E p \in Proc : ScheduleFails(p)
  <2>1. PICK p \in Proc : ScheduleFails(p)
    BY <1>3
  <2>2. CASE latest[call[p].of] = NoRow
    BY <1>1, <2>1, <2>2, TablesKept DEF ScheduleFails
  <2>3. CASE latest[call[p].of] # NoRow
    <3>1. PICK u : OldRow(u, p)
      BY <2>1, <2>3, TablesRevived
    <3> QED
      BY <3>1 DEF OldRow, Others, Exists
  <2> QED
    BY <2>2, <2>3
<1>4. CASE \E p \in Proc : ScheduleConn(p)
  BY <1>1, <1>4, TablesKept DEF ScheduleConn
<1> QED
  BY <1>1, <1>2, <1>3, <1>4, PlainSteady, Split

LEMMA EndsOfNext ==
  ASSUME RowsOK, RestOK, TodoInv, Next, ~Done
  PROVE  EndsKept
<1>1. CASE Plain /\ ~Batch
  BY <1>1, PlainSteady
<1>2. CASE Batch
  <2>1. PICK x \in todo : Stretched(x[2]) \/ UNCHANGED <<rows, latest>>
    BY <1>2, BatchStretches
  <2>2. ~(Exists(task.row) /\ rows[task.row].status = "done")
    BY <1>2 DEF TodoInv, Batch
  <2> QED
    BY <2>1, <2>2, TablesKept DEF Stretched
<1>3. CASE \E p \in Proc : ScheduleInsert(p)
  BY <1>3, TablesInserted DEF NewRow
<1>4. CASE \E p \in Proc : ScheduleFails(p)
  <2>1. PICK p \in Proc : ScheduleFails(p)
    BY <1>4
  <2>2. CASE latest[call[p].of] = NoRow
    BY <2>1, <2>2, TablesKept DEF ScheduleFails
  <2>3. CASE latest[call[p].of] # NoRow
    BY <2>1, <2>3, TablesRevived DEF OldRow
  <2> QED
    BY <2>2, <2>3
<1>5. CASE \E p \in Proc : ScheduleConn(p)
  BY <1>5, TablesKept DEF ScheduleConn
<1> QED
  BY <1>1, <1>2, <1>3, <1>4, <1>5, Split

LEMMA CallsInWindow ==
  ASSUME RowsOK, RestOK, Next, ~Done, NEW kb \in Kb, NEW t \in Nat, Window(kb, t),
         NEW o \in Proc, call'[o] # NoCall, call'[o].of = <<kb, "sync">>
  PROVE  call'[o].start <= t
<1>1. call[o] # NoCall /\ call[o].of = <<kb, "sync">> => call[o].start <= t
  BY DEF Window
<1>2. CASE call'[o] = call[o]
  BY <1>1, <1>2
<1>3. CASE \E p \in Proc : \/ ScheduleTrim(p) \/ ScheduleExists(p) \/ ScheduleConn(p)
                           \/ ScheduleInsert(p) \/ ScheduleFails(p)
  BY <1>1, <1>3, CallsOfSchedule DEF Calls
<1>4. CASE \E q \in Req : PlanNext(q)
  <2>1. PICK q \in Req : PlanNext(q)
    BY <1>4
  <2>2. PICK p \in plan[q] :
           /\ \A r \in Proc \ {q} : call'[r] = call[r]
           /\ call'[q].of = p
           /\ call'[q].start = 0 \/ call'[q].start = LatestEnd(p[1])
    BY <2>1, Planned
  <2>3. LatestEnd(kb) <= t
    BY DEF Window
  <2> QED
    BY <1>2, <2>2, <2>3
<1>5. CASE Crash \/ \E q \in Req : RequestDies(q)
  BY <1>2, <1>5 DEF Crash, RequestDies, RestOK
<1>6. CASE \E q \in Req : \/ Ask(q) \/ CancelRows(q) \/ CancelConn(q) \/ DeleteConn(q)
                          \/ DeleteRows(q) \/ DeleteDocs(q) \/ Answer(q)
  BY <1>2, <1>6 DEF Ask, CancelRows, CancelConn, DeleteConn, DeleteRows, DeleteDocs, Answer
<1>7. CASE \/ ListSync \/ ListPrune \/ NextTask \/ Start \/ Generate \/ Fetch \/ Batch \/ Snapshot
           \/ SnapshotFails \/ PruneDocs \/ Fail
  BY <1>2, <1>7 DEF ListSync, ListPrune, NextTask, Start, Generate, Fetch, Batch, Snapshot,
                    SnapshotFails, PruneDocs, Fail
<1>8. CASE SetPruneFreq \/ \E d \in Doc : Change(d) \/ Remove(d)
  BY <1>2, <1>8 DEF Change, Remove, SetPruneFreq
<1> QED
  BY <1>3, <1>4, <1>5, <1>6, <1>7, <1>8, Split DEF Plain

LEMMA TasksInWindow ==
  ASSUME RowsOK, RestOK, Next, NEW kb \in Kb, NEW t \in Nat, Window(kb, t)
  PROVE  /\ \A u \in due' : u.row[1] = <<kb, "sync">> => u.start <= t
         /\ dpc' \in {"start", "generate"} /\ task'.row[1] = <<kb, "sync">> => task'.start <= t
<1>1. /\ \A u \in due : u.row[1] = <<kb, "sync">> => u.start <= t
      /\ dpc \in {"start", "generate"} /\ task.row[1] = <<kb, "sync">> => task.start <= t
      /\ \A w \in Row : Waits(w) /\ w[1] = <<kb, "sync">> => rows[w].start <= t
  BY DEF Window, Waiting
<1>2. CASE Work' = Work
  BY <1>1, <1>2 DEF Work
<1>3. CASE ListSync \/ ListPrune
  <2>1. PICK type : List(type)
    BY <1>3 DEF ListSync, ListPrune
  <2>2. \A u \in due' : u \in due \/ (u.row \in Row /\ Waits(u.row) /\ u.start = rows[u.row].start)
    BY <2>1 DEF List, Eligible, Listable
  <2>3. dpc' \notin {"start", "generate"}
    BY <1>3 DEF ListSync, ListPrune
  <2> QED
    BY <1>1, <2>2, <2>3
<1>4. CASE NextTask
  <2>1. due' \subseteq due /\ (dpc' \in {"start", "generate"} => task' \in due)
    BY <1>4 DEF NextTask
  <2> QED
    BY <1>1, <2>1
<1>5. CASE Start
  BY <1>1, <1>5 DEF Start
<1>6. CASE Generate \/ Fetch \/ Batch \/ Snapshot \/ SnapshotFails \/ PruneDocs \/ Done \/ Fail
             \/ Crash
  <2>1. due' \subseteq due /\ dpc' \notin {"start", "generate"}
    BY <1>6 DEF Generate, Fetch, Batch, Snapshot, SnapshotFails, PruneDocs, Done, Fail, Crash
  <2> QED
    BY <1>1, <2>1
<1> QED
  BY <1>2, <1>3, <1>4, <1>5, <1>6, ProcessSteps

(* A rebuild that nobody has got ahead of leaves the dataset with no       *)
(* window but the one from the beginning.                                  *)
LEMMA WindowOfRebuild ==
  ASSUME RowsOK, RestOK, NEW q \in Req, DeleteDocs(q),
         NEW kb \in Kb, kb \in kbs[q], kb \notin wiped', NEW t \in Nat
  PROVE  Window(kb, t)' /\ ~(dpc' = "batch" /\ task'.row[1][1] = kb)
<1> DEFINE p == <<kb, "sync">>
<1>1. ~InHand(kb) /\ ~MovedOn(kb)
  BY DEF DeleteDocs
<1>2. UNCHANGED <<tables, process, call>>
  BY DEF DeleteDocs
<1>3. \A w \in Row : Exists(w) /\ w[1] = p => rows[w].start = 0 /\ rows[w].end = 0
  <2> SUFFICES ASSUME NEW w \in Row, Exists(w), w[1] = p
               PROVE  rows[w].start = 0 /\ rows[w].end = 0
    OBVIOUS
  <2>1. rows[w].start \in Nat /\ rows[w].end \in Nat
    BY DEF RowsOK, RowType, Exists
  <2>2. ~(rows[w].start > 0) /\ ~(rows[w].end > 0)
    BY <1>1 DEF MovedOn
  <2> QED
    BY <2>1, <2>2
<1>4. \A o \in Proc : call[o] # NoCall => call[o].of # p
  BY <1>1 DEF InHand
<1>5. \A u \in due \cup {task} : u \in TaskType => u.row[1][1] # kb
  BY <1>1, NoRowAssumption DEF InHand, Held, TaskType
<1>6. \A u \in due : u.row[1] # p
  BY <1>5 DEF RestOK
<1>7. dpc \in {"start", "generate", "batch"} => task.row[1][1] # kb
  BY <1>5 DEF RestOK, TaskInv
<1>8. LatestEnd(kb) = 0
  <2>1. latest[p] # NoRow => latest[p] \in Row /\ latest[p][1] = p /\ Exists(latest[p])
    BY SyncPair DEF RowsOK, LatestInv
  <2> QED
    BY <1>3, <2>1 DEF LatestEnd
<1>9. Waiting(p)' = Waiting(p) /\ LatestEnd(kb)' = LatestEnd(kb)
  BY <1>2 DEF tables, Waiting, Waits, Exists, LatestEnd
<1>10. \A w \in Waiting(p) : rows[w].start <= t
  BY <1>3 DEF Waiting, Waits
<1> QED
  BY <1>2, <1>4, <1>6, <1>7, <1>8, <1>9, <1>10 DEF Window, tables, process

(* A batch that is not the last one of a document that is behind: the row  *)
(* is not moved past it, and it is still ahead.                            *)
LEMMA WindowOfBatch ==
  ASSUME RowsOK, RestOK, StepInv, TodoInv, Batch, NEW kb \in Kb, NEW d \in Doc, NEW t \in Nat,
         source[d] = t, Window(kb, t), Behind(kb, d)',
         task.row[1][1] = kb => Ahead(d)
  PROVE  /\ \A w \in Row : Waits(w)' /\ w[1] = <<kb, "sync">> => rows'[w].start <= t
         /\ task.row[1][1] = kb => Ahead(d)'
<1> DEFINE key == <<kb, d>>
<1>1. PICK x \in todo, kept \in BOOLEAN, counted \in BOOLEAN :
        /\ todo' = todo \ {x} /\ next' = Advance(x[2])
        /\ stored' = (IF kept THEN [stored EXCEPT ![<<task.row[1][1], x[1]>>] = x[2]]
                      ELSE stored)
        /\ skipped' = (IF ~kept THEN skipped \cup {<<task.row[1][1], x[1]>>}
                       ELSE IF x[1] \in late THEN skipped
                       ELSE skipped \ {<<task.row[1][1], x[1]>>})
                        \cup Overtaken(x) \cup (IF counted THEN Passed(x) ELSE {})
        /\ IF counted THEN Stretched(x[2]) ELSE UNCHANGED <<rows, latest>>
        /\ x[1] \in Doc /\ x[2] \in Nat /\ x = <<x[1], x[2]>>
  BY BatchStretches
<1>2. /\ UNCHANGED <<source, dpc, task, unlisted, until, late>>
      /\ dpc = "batch" /\ task.row \in Row
  BY DEF Batch, listing, RestOK, TaskInv, TaskType
<1>3. stored'[key] < t /\ key \notin skipped'
  BY <1>2 DEF Behind
<1>4. t # 0
  <2>1. CASE stored' = stored
    BY <1>3, <2>1 DEF RestOK
  <2>2. CASE stored' = [stored EXCEPT ![<<task.row[1][1], x[1]>>] = x[2]]
    BY <1>1, <1>3, <2>2 DEF RestOK
  <2> QED
    BY <1>1, <2>1, <2>2
<1>5. ASSUME task.row[1][1] = kb PROVE x # <<d, t>>
  <2> SUFFICES ASSUME x = <<d, t>> PROVE FALSE
    OBVIOUS
  <2>1. x[1] = d /\ x[2] = t
    OBVIOUS
  <2>2. CASE kept
    BY <1>1, <1>3, <1>5, <2>1, <2>2 DEF RestOK
  <2>3. CASE ~kept
    BY <1>1, <1>3, <1>5, <2>1, <2>3
  <2> QED
    BY <2>2, <2>3
<1>6. ASSUME task.row[1][1] = kb
      PROVE  Ahead(d)' /\ (counted /\ Waits(task.row) => x[2] <= t)
  <2>1. ASSUME d \in unlisted \/ <<d, t>> \in todo \ {x}, counted, Waits(task.row)
        PROVE  x[2] <= t
    <3> SUFFICES ASSUME ~(x[2] <= t) PROVE key \in Passed(x)
      BY <1>1, <1>3, <2>1
    <3>1. t \in 1..(x[2] - 1)
      BY <1>1, <1>4
    <3>2. d \in unlisted \cup {y[1] : y \in todo \ {x}}
      <4> DEFINE z == <<d, t>>
      <4>1. z[1] = d
        OBVIOUS
      <4>2. CASE z \in todo \ {x}
        BY <4>1, <4>2
      <4> QED
        BY <2>1, <4>2
    <3> QED
      BY <1>6, <2>1, <3>1, <3>2 DEF Passed
  <2>2. CASE <<d, t>> \in todo
    <3>1. <<d, t>> \in todo \ {x}
      BY <1>5, <1>6, <2>2
    <3> QED
      BY <1>1, <1>2, <2>1, <3>1 DEF Ahead
  <2>3. CASE d \in unlisted /\ task.start <= t
    BY <1>2, <2>1, <2>3 DEF Ahead
  <2>4. CASE until # 0 /\ until < t
    <3>1. x[2] <= until /\ until \in Nat
      BY <1>2, <2>4 DEF TodoInv, Seen, RestOK
    <3>2. x[2] <= t
      BY <1>1, <2>4, <3>1
    <3> QED
      BY <1>2, <2>4, <3>2 DEF Ahead
  <2>5. CASE d \in late /\ next <= t /\ (Exists(task.row) => rows[task.row].end <= t)
    <3>1. x[2] <= t
      <4> SUFFICES ASSUME ~(x[2] <= t) PROVE key \in Overtaken(x)
        BY <1>1, <1>3
      <4>1. t \in 1..(x[2] - 1)
        BY <1>1, <1>4
      <4> QED
        BY <1>6, <2>5, <4>1 DEF Overtaken
    <3>2. next' <= t
      BY <1>1, <2>5, <3>1 DEF Advance, Later
    <3>3. Exists(task.row)' => rows'[task.row].end <= t
      BY <1>1, <1>2, <2>5, <3>1 DEF Stretched, Exists
    <3> QED
      BY <1>2, <2>5, <3>1, <3>2, <3>3 DEF Ahead, Exists
  <2> QED
    BY <1>6, <2>2, <2>3, <2>4, <2>5 DEF Ahead
<1>7. ASSUME NEW w \in Row, Waits(w)', w[1] = <<kb, "sync">>
      PROVE  rows'[w].start <= t
  <2>1. ASSUME Waits(w) PROVE rows[w].start <= t
    BY <1>7, <2>1 DEF Window, Waiting
  <2>2. CASE ~counted \/ w # task.row
    BY <1>1, <1>7, <2>1, <2>2 DEF Stretched, Others, Waits, Exists
  <2>3. CASE counted /\ w = task.row
    <3>1. Waits(w) /\ rows'[w].start \in {rows[w].start, x[2]}
      BY <1>1, <1>7, <2>3 DEF Stretched, Waits
    <3>2. x[2] <= t
      BY <1>6, <1>7, <2>3, <3>1
    <3> QED
      BY <2>1, <3>1, <3>2
  <2> QED
    BY <2>2, <2>3
<1> QED
  BY <1>6, <1>7

(* A sync that ends: what it leaves behind is beyond its window, or late.  *)
LEMMA WindowOfDone ==
  ASSUME RowsOK, RestOK, StepInv, TodoInv, Done, NEW kb \in Kb, NEW d \in Doc, NEW t \in Nat,
         source[d] = t, Window(kb, t), dpc = "batch" /\ task.row[1][1] = kb => Ahead(d)
  PROVE  /\ LatestEnd(kb)' <= t
         /\ \A o \in Proc : call'[o] # NoCall /\ call'[o].of = <<kb, "sync">>
                              => call'[o].start <= t
<1> DEFINE p == <<kb, "sync">>
<1>1. LatestEnd(kb) <= t
      /\ \A o \in Proc : call[o] # NoCall /\ call[o].of = p => call[o].start <= t
  BY DEF Window
<1>2. \/ LatestEnd(kb)' \in {0, LatestEnd(kb)}
      \/ Exists(task.row) /\ task.row[1] = p /\ LatestEnd(kb)' = rows[task.row].end
  BY TablesOfTask DEF Settled, RestOK
<1>3. /\ \A o \in Proc \ {Syncer} : call'[o] = call[o]
      /\ call'[Syncer].of = task.row[1] /\ call'[Syncer].start = next
  BY ReqProc, CallMade DEF Done
<1>4. ASSUME task.row[1] = p
      PROVE  next <= t /\ (Exists(task.row) => rows[task.row].end <= t)
  <2>1. dpc = "batch" /\ todo = {} /\ unlisted = {}
    BY <1>4 DEF Done, StepInv
  <2>2. Ahead(d)
    BY <1>4, <2>1
  <2>3. CASE until # 0 /\ until < t
    <3>1. Seen(until) /\ until \in Nat /\ next \in Nat /\ task.row \in Row
      BY <2>1, <2>3 DEF TodoInv, RestOK, TaskInv, TaskType
    <3>2. Exists(task.row) => rows[task.row].end \in Nat /\ rows[task.row].end <= until
      BY <3>1 DEF Seen, RowsOK, RowType, Exists
    <3>3. next <= until
      BY <3>1 DEF Seen
    <3> QED
      BY <2>3, <3>1, <3>2, <3>3
  <2> QED
    BY <2>1, <2>2, <2>3 DEF Ahead
<1> QED
  BY <1>1, <1>2, <1>3, <1>4

(* A document that is behind stays ahead of a load that goes on.           *)
LEMMA AheadKept ==
  ASSUME RowsOK, RestOK, StepInv, TodoInv, Next, NEW kb \in Kb, NEW d \in Doc, NEW t \in Nat,
         source[d] = t, source'[d] = t, t # 0, Window(kb, t), Behind(kb, d)',
         dpc = "batch" /\ task.row[1][1] = kb => Ahead(d),
         dpc' = "batch", task'.row[1][1] = kb
  PROVE  Ahead(d)'
<1>1. CASE Work' = Work /\ late \subseteq late' /\ ~Batch
  <2>1. /\ dpc = "batch" /\ task' = task /\ todo' = todo /\ next' = next
        /\ unlisted' = unlisted /\ until' = until /\ late \subseteq late'
    BY <1>1 DEF Work
  <2>2. task.row \in Row /\ Ahead(d)
    BY <2>1 DEF RestOK, TaskInv, TaskType
  <2>3. Exists(task.row)' =>
          rows'[task.row].end = 0 \/ (Exists(task.row) /\ rows'[task.row].end = rows[task.row].end)
    BY <1>1, <2>1, <2>2, EndOfRow DEF Exists
  <2> QED
    BY <2>1, <2>2, <2>3 DEF Ahead
<1>2. CASE Generate
  <2>1. task' = task /\ task.row \in Row /\ dpc = "generate" /\ unlisted' = unlisted
    BY <1>2 DEF Generate, RestOK, TaskInv, TaskType
  <2>2. unlisted = Doc
    BY <2>1 DEF TodoInv
  <2>3. task.row[1] = <<kb, "sync">>
    BY <2>1 DEF StepInv, Row, Pair
  <2>4. task.start <= t
    BY <2>1, <2>3 DEF Window
  <2> QED
    BY <2>1, <2>2, <2>4 DEF Ahead
<1>3. CASE Fetch
  <2>1. PICK S \in SUBSET unlisted, all \in BOOLEAN :
          LET there == {e \in S : source[e] # 0 /\ (until # 0 => source[e] <= until)}
              changed == {e \in there : source[e] >= task.start}
          IN  /\ unlisted' = unlisted \ S
              /\ todo' = {<<e, source[e]>> : e \in IF all THEN there ELSE changed}
    BY <1>3 DEF Fetch
  <2>2. /\ dpc = "batch" /\ todo = {} /\ UNCHANGED <<task, next, until, late, rows>>
    BY <1>3 DEF Fetch, tables
  <2>3. Ahead(d)
    BY <2>2
  <2>4. CASE d \in S /\ task.start <= t
    <3>1. CASE until # 0 /\ until < t
      BY <2>2, <3>1 DEF Ahead
    <3>2. CASE until # 0 => t <= until
      <4>1. d \in {e \in S : source[e] # 0 /\ (until # 0 => source[e] <= until)}
        BY <2>4, <3>2
      <4>2. source[d] >= task.start
        BY <2>2, <2>4 DEF RestOK, TaskInv, TaskType
      <4>3. <<d, t>> \in todo'
        BY <2>1, <4>1, <4>2
      <4> QED
        BY <4>3 DEF Ahead
    <3> QED
      BY <3>1, <3>2 DEF RestOK
  <2>5. CASE d \in unlisted \ S /\ task.start <= t
    BY <2>1, <2>2, <2>5 DEF Ahead
  <2>6. CASE ~(d \in unlisted /\ task.start <= t)
    BY <2>2, <2>3, <2>6 DEF Ahead, Exists
  <2> QED
    BY <2>4, <2>5, <2>6
<1>4. CASE Batch
  BY <1>4, WindowOfBatch DEF Batch
<1>5. CASE \/ ListSync \/ ListPrune \/ NextTask \/ Start \/ Snapshot \/ SnapshotFails
           \/ PruneDocs \/ Done \/ Fail \/ Crash
  BY <1>5 DEF ListSync, ListPrune, NextTask, Start, Snapshot, SnapshotFails, PruneDocs, Done,
              Fail, Crash
<1> QED
  BY <1>1, <1>2, <1>3, <1>4, <1>5, ProcessSteps

LEMMA WindowKept ==
  ASSUME RowsOK, RestOK, RowsOK', RestOK', StepInv, ClockInv', TodoInv, WindowInv, Next
  PROVE  WindowInv'
<1> SUFFICES ASSUME NEW kb \in Kb \ wiped', NEW d \in Doc, Behind(kb, d)'
             PROVE  /\ Window(kb, source[d])'
                    /\ dpc' = "batch" /\ task'.row[1][1] = kb => Ahead(d)'
  BY DEF WindowInv
<1> DEFINE p == <<kb, "sync">>
<1>1. CASE Fresh(d)' /\ (dpc' = "batch" => Ahead(d)')
  BY <1>1, FreshWindow
<1>2. CASE \E q \in Req : DeleteDocs(q) /\ kb \in kbs[q]
  <2>1. PICK t \in Nat : t = source'[d]
    BY DEF RestOK
  <2>2. Window(kb, t)' /\ ~(dpc' = "batch" /\ task'.row[1][1] = kb)
    BY <1>2, WindowOfRebuild
  <2> QED
    BY <2>1, <2>2 DEF Window
<1>3. CASE /\ ~(Fresh(d)' /\ (dpc' = "batch" => Ahead(d)'))
           /\ ~\E q \in Req : DeleteDocs(q) /\ kb \in kbs[q]
  <2>1. Behind(kb, d) /\ source'[d] = source[d]
    BY <1>3, BehindBefore
  <2>2. PICK t \in Nat : t = source[d]
    BY DEF RestOK
  <2>3. kb \notin wiped
    BY HistorySteps
  <2>4. /\ Window(kb, t)
        /\ dpc = "batch" /\ task.row[1][1] = kb => Ahead(d)
    BY <2>1, <2>2, <2>3 DEF WindowInv
  <2>5. t # 0
    BY <2>1, <2>2 DEF Behind, RestOK
  <2>6. \A w \in Waiting(p)' : rows'[w].start <= t
    <3>1. CASE ~Batch
      BY <2>4, <3>1, WaitingInWindow DEF Waiting
    <3>2. CASE Batch
      <4>1. dpc = "batch"
        BY <3>2 DEF Batch
      <4>2. \A w \in Row : Waits(w)' /\ w[1] = p => rows'[w].start <= t
        BY <2>2, <2>4, <3>2, <4>1, WindowOfBatch
      <4> QED
        BY <4>2 DEF Waiting
    <3> QED
      BY <3>1, <3>2
  <2>7. /\ LatestEnd(kb)' <= t
        /\ \A o \in Proc : call'[o] # NoCall /\ call'[o].of = p => call'[o].start <= t
    <3>1. CASE ~Done
      <4>1. LatestEnd(kb)' \in {0, LatestEnd(kb)} /\ LatestEnd(kb) <= t
        BY <2>4, <3>1, EndsOfNext DEF EndsKept, Window
      <4> QED
        BY <2>4, <3>1, <4>1, CallsInWindow
    <3>2. CASE Done
      BY <2>2, <2>4, <3>2, WindowOfDone
    <3> QED
      BY <3>1, <3>2
  <2>8. Window(kb, t)'
    BY <2>4, <2>6, <2>7, TasksInWindow DEF Window
  <2>9. ASSUME dpc' = "batch", task'.row[1][1] = kb
        PROVE  Ahead(d)'
    BY <2>1, <2>2, <2>4, <2>5, <2>9, AheadKept
  <2> QED
    BY <2>1, <2>2, <2>8, <2>9 DEF Window
<1> QED
  BY <1>1, <1>2, <1>3

-----------------------------------------------------------------------------
LEMMA NothingSeen == ASSUME Init PROVE ClockInv /\ ChainInv
<1> DEFINE first == CHOOSE x \in Slot : TRUE
<1>1. first \in Slot
  BY ConnectorAssumption
<1>2. Seen(1)
  <2>1. \A w \in Row : Exists(w) => rows[w].start = 0 /\ rows[w].end = 0
    BY DEF Init, Exists
  <2> QED
    BY <2>1 DEF Init, Seen
<1>3. ClockInv
  BY <1>2 DEF Init, ClockInv, Seen
<1>4. ASSUME NEW kb \in Linked PROVE <<<<kb, "sync">>, first>> \in Waiting(<<kb, "sync">>)
  <2> DEFINE w == <<<<kb, "sync">>, first>>
  <2>1. w \in Row /\ w[1] = <<kb, "sync">> /\ w[1][1] = kb /\ w[2] = first
    BY <1>1, SyncPair, ConnectorAssumption DEF Row
  <2> HIDE DEF w
  <2>2. PICK r \in RowType : r.status = "schedule" /\ rows[w] = r
    <3>1. [status |-> "schedule", start |-> 0, end |-> 0, zero |-> TRUE] \in RowType
      BY DEF RowType
    <3>2. rows[w] = [status |-> "schedule", start |-> 0, end |-> 0, zero |-> TRUE]
      BY <2>1 DEF Init
    <3> QED
      BY <3>1, <3>2
  <2>3. r # NoRow
    BY NoRowAssumption
  <2> QED
    BY <2>1, <2>2, <2>3 DEF Waiting, Waits, Exists, w
<1>5. ChainInv
  BY <1>4 DEF Init, ChainInv
<1> QED
  BY <1>3, <1>5

LEMMA NothingBegun ==
  ASSUME Init
  PROVE  /\ StepInv /\ QuietInv /\ CancelHolds /\ DispatchInv
         /\ TodoInv /\ WindowInv
<1>1. /\ quiet = {} /\ due = {} /\ task = NoTask /\ dpc = "list" /\ Syncer \in Proc
      /\ todo = {} /\ until = 0
      /\ (\A q \in Req : q \in Proc /\ plan[q] = {}) /\ \A p \in Proc : call[p] = NoCall
  BY ReqProc DEF Init
<1>2. StepInv
  BY <1>1 DEF StepInv
<1>3. QuietInv /\ CancelHolds /\ TodoInv
  BY <1>1 DEF QuietInv, CancelHolds, TodoInv
<1>4. DispatchInv
  <2>1. CASE Linked = {}
    BY <2>1 DEF Init, DispatchInv, Waits, Exists, Inserts
  <2>2. CASE Linked # {}
    BY <2>2 DEF Init, DispatchInv
  <2> QED
    BY <2>1, <2>2
<1>5. WindowInv
  <2> SUFFICES ASSUME NEW kb \in Kb, NEW d \in Doc PROVE Window(kb, source[d])
    BY <1>1 DEF WindowInv
  <2>1. source[d] = 1 /\ now = 1
    BY DEF Init
  <2> QED
    BY <2>1, NothingSeen, SeenWindow, Initially, TypeParts DEF IInv, ClockInv, SeenWindows
<1> QED
  BY <1>2, <1>3, <1>4, <1>5

LEMMA SyncStutters ==
  ASSUME SyncInv, UNCHANGED vars
  PROVE  SyncInv'
<1>1. \A kb : InHand(kb)' = InHand(kb)
  BY DEF InHand, Held, vars, process
<1>2. \A w : Waits(w)' = Waits(w) /\ Exists(w)' = Exists(w)
  BY DEF Waits, Exists, vars, tables
<1>3. \A p : Waiting(p)' = Waiting(p) /\ Inserts(p)' = Inserts(p)
  BY <1>2 DEF Waiting, Inserts, vars
<1>4. StepInv' /\ QuietInv' /\ CancelHolds'
  BY <1>1, <1>2 DEF SyncInv, StepInv, QuietInv, CancelHolds, vars, tables, process, request,
       history
<1>5. DispatchInv'
  BY <1>2, <1>3 DEF SyncInv, DispatchInv, vars, tables, process, history
<1>6. ChainInv'
  BY <1>3 DEF SyncInv, ChainInv, Coming, vars, tables, process, request, history
<1>7. \A t : Seen(t)' = Seen(t)
  BY <1>2 DEF Seen, vars, tables, process
<1>8. \A x : Current(x)' = Current(x)
  BY DEF Current, vars, content, process, listing
<1>9. ClockInv' /\ TodoInv'
  BY <1>2, <1>7, <1>8 DEF SyncInv, ClockInv, TodoInv, vars, tables, content, process, listing
<1>10. \A kb, t : Window(kb, t)' = Window(kb, t)
  BY <1>3 DEF Window, LatestEnd, vars, tables, process
<1>11. \A d : Ahead(d)' = Ahead(d)
  BY <1>2 DEF Ahead, vars, tables, content, process, listing
<1>12. WindowInv'
  BY <1>10, <1>11 DEF SyncInv, WindowInv, Behind, vars, content, process, history
<1> QED
  BY <1>4, <1>5, <1>6, <1>9, <1>12 DEF SyncInv

LEMMA SyncPreserved ==
  ASSUME IInv, IInv', SyncInv, [Next]_vars
  PROVE  SyncInv'
<1>1. RowsOK /\ RestOK /\ RowsOK' /\ RestOK'
  BY TypeParts, PTL DEF IInv
<1>2. CASE UNCHANGED vars
  BY <1>2, SyncStutters
<1>3. CASE Next
  <2>1. StepInv /\ QuietInv /\ CancelHolds /\ DispatchInv /\ ChainInv /\ ClockInv /\ TodoInv
        /\ WindowInv
    BY DEF SyncInv
  <2>2. ProcessInv' /\ RequestInv'
    BY <1>1, <1>3, <2>1, ProcessKept, RequestsKept
  <2>3. StepInv'
    BY <2>2 DEF StepInv, ProcessInv, RequestInv
  <2>4. QuietInv' /\ CancelHolds'
    BY <1>1, <1>3, <2>1, QuietKept
  <2>5. DispatchInv' /\ ChainInv'
    BY <1>1, <1>3, <2>1, DispatchKept, ChainKept
  <2>6. ClockInv'
    BY <1>1, <1>3, <2>1, ClockKept
  <2>7. TodoInv' /\ WindowInv'
    BY <1>1, <1>3, <2>1, <2>6, TodoKept, WindowKept
  <2> QED
    BY <2>3, <2>4, <2>5, <2>6, <2>7 DEF SyncInv
<1> QED
  BY <1>2, <1>3

(* What the process, the requests and the calls of schedule have in hand   *)
(* agrees with the tables after every step: it is the invariant that the   *)
(* four theorems below are read from.                                      *)
THEOREM SyncInvariant == Spec => [](IInv /\ SyncInv)
<1>1. Init => IInv /\ SyncInv
  BY Initially, NothingBegun, NothingSeen DEF SyncInv
<1>2. IInv /\ SyncInv /\ [Next]_vars => IInv' /\ SyncInv'
  BY Preserved, SyncPreserved
<1> QED
  BY <1>1, <1>2, PTL DEF Spec

(* A cancel of a dataset that nobody has a task of in hand is not undone   *)
(* by the process: none of its rows waits or runs until a request          *)
(* schedules it again (SyncLogsService.filter_cancel and its callers).     *)
THEOREM CancelStands == Spec => []CancelHolds
<1>1. SyncInv => CancelHolds
  BY DEF SyncInv
<1> QED
  BY <1>1, SyncInvariant, PTL

LEMMA Resting ==
  ASSUME IInv, SyncInv, AtRest
  PROVE  /\ dpc = "list" /\ \A p \in Proc : call[p] = NoCall
         /\ \A q \in Req : plan[q] = {}
<1>1. dpc = "list" /\ \A q \in Req : rpc[q] = "idle"
  BY DEF AtRest
<1>2. call[Syncer] = NoCall
  BY <1>1 DEF SyncInv, StepInv
<1>3. \A q \in Req : call[q] = NoCall /\ plan[q] = {}
  BY <1>1 DEF SyncInv, StepInv
<1> QED
  BY <1>1, <1>2, <1>3 DEF Proc

(* When the process and the requests have come to rest, a waiting row of a *)
(* linked dataset is one that list_due_sync_tasks or list_due_prune_tasks  *)
(* returns when it is old enough: the connector has the status SCHEDULE,   *)
(* but for the ways in which the code loses it.  A prune is not listed     *)
(* while prune_freq is 0.                                                  *)
THEOREM WaitingIsDispatched == Spec => []Dispatchable
<1>1. IInv /\ SyncInv => Dispatchable
  <2> SUFFICES ASSUME IInv, SyncInv, AtRest, conn # "gone", ~blocked,
                      NEW w \in Row, Waits(w), w[1][1] \in linked,
                      w[1][2] = "prune" => prune_freq # 0
               PROVE  \E t \in Eligible(w[1][2]) : t.row = w
    BY DEF Dispatchable
  <2>1. dpc = "list" /\ call[Syncer] = NoCall
    BY Resting, ReqProc
  <2>2. conn = "schedule"
    BY <2>1 DEF SyncInv, DispatchInv
  <2>3. prune_freq \in {0, 1}
    BY DEF IInv, TypeOK
  <2>4. w \in Listable(w[1][2])
    BY <2>2, <2>3 DEF Listable
  <2> DEFINE t == [row |-> w, start |-> rows[w].start, copy |-> 1]
  <2>5. t \in Eligible(w[1][2]) /\ t.row = w
    BY <2>4 DEF Eligible
  <2> QED
    BY <2>5
<1> QED
  BY <1>1, SyncInvariant, PTL

(* When they have come to rest, every linked dataset has its next sync     *)
(* waiting, unless its chain was cut by a cancel, a failure, a crash or by *)
(* trimming the log of a sync that waits, which the code does to rows of   *)
(* whatever status.                                                        *)
THEOREM SyncsGoOn == Spec => []KeepsSyncing
<1>1. IInv /\ SyncInv => KeepsSyncing
  <2> SUFFICES ASSUME IInv, SyncInv, AtRest, conn # "gone", NEW kb \in linked
               PROVE  Waiting(<<kb, "sync">>) # {} \/ kb \in halted
    BY DEF KeepsSyncing
  <2>1. Waiting(<<kb, "sync">>) # {} \/ kb \in halted \/ Coming(kb)
    BY DEF SyncInv, ChainInv
  <2> QED
    BY <2>1, Resting DEF Coming
<1> QED
  BY <1>1, SyncInvariant, PTL

(* When they have come to rest, a change at the source that a linked       *)
(* dataset has not got is in the window of its next sync: poll_range_start *)
(* is not later than the change.  It holds although documents change while *)
(* _generate lists them page by page; what it excepts (skipped) are failed *)
(* batches, rows that an error of schedule revived, and what changed       *)
(* behind a load without end before another document that it listed later. *)
THEOREM NoChangeMissed == Spec => []NothingMissed
<1>1. IInv /\ SyncInv => NothingMissed
  <2> SUFFICES ASSUME IInv, SyncInv, AtRest, NEW kb \in linked \ wiped, NEW d \in Doc,
                      ~(stored[<<kb, d>>] >= source[d]), <<kb, d>> \notin skipped
               PROVE  IF Waiting(<<kb, "sync">>) = {} THEN LatestEnd(kb) <= source[d]
                      ELSE \E w \in Waiting(<<kb, "sync">>) : rows[w].start <= source[d]
    BY DEF NothingMissed
  <2>1. kb \in Kb \ wiped /\ stored[<<kb, d>>] \in Nat /\ source[d] \in Nat
    BY DEF IInv, TypeOK
  <2>2. Behind(kb, d)
    BY <2>1 DEF Behind
  <2>3. Window(kb, source[d])
    BY <2>1, <2>2 DEF SyncInv, WindowInv
  <2> QED
    BY <2>3 DEF Window
<1> QED
  BY <1>1, SyncInvariant, PTL
=============================================================================
