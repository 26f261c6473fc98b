--------------------------- MODULE ConnectorSync ----------------------------
(***************************************************************************)
(* One connector (a data source such as a drive or a wiki), the datasets   *)
(* it is linked to, its sync_logs rows, the process that runs them         *)
(* (rag/svr/sync_data_source.py) and the requests of users that schedule,  *)
(* cancel, rebuild, link and delete (connector_service.py), statement by   *)
(* statement.  A row is a task: a sync copies the documents that changed   *)
(* in a window of time into the dataset, a prune removes those that are    *)
(* gone.  A sync that ends schedules the next one from the time it came    *)
(* to.                                                                     *)
(*                                                                         *)
(* The process lists the due rows once per round and runs them one after   *)
(* the other: nothing in a task suspends its coroutine.                    *)
(*                                                                         *)
(* Times are versions of documents: 0 is "no time" (from the beginning),   *)
(* or "no document".  Rows that no statement can find or change any more   *)
(* are forgotten, which makes their names free.                            *)
(***************************************************************************)
EXTENDS Naturals

CONSTANTS
  Kb,         \* datasets
  Linked,     \* those the connector is linked to at first
  Shared,     \* those that another connector is linked to, with another auto_parse
  Doc,        \* documents of the source
  Slot,       \* a row's name is its dataset, its type and one of these
  NoRow,
  Req,        \* requests of users
  Syncer,     \* the process of sync_data_source.py
  Prune,      \* BOOLEAN: config has sync_deleted_files
  MaxEvents   \* bound on requests, changes at the source, crashes, errors and
              \* trimmed logs together

ASSUME ConnectorAssumption ==
  /\ Linked \subseteq Kb /\ Shared \subseteq Kb
  /\ Syncer \notin Req
  /\ Slot # {} /\ Prune \in BOOLEAN
  /\ MaxEvents \in Nat

Type == IF Prune THEN {"sync", "prune"} ELSE {"sync"}
Pair == Kb \X Type       \* what a row is for
Row == Pair \X Slot
Proc == Req \cup {Syncer}

VARIABLES
  conn,     \* Connector.status; "gone" once it is deleted
  linked,   \* datasets with a connector2kb row of this connector
  rows,     \* the sync_logs table
  latest,   \* the row of a dataset and type with the greatest update_time
  prune_freq, \* Connector.prune_freq: 0, or 1 for any other number of minutes
  source,   \* the time of the last change of a document
  now,      \* the clock of the source
  stored,   \* the version of a document that a dataset has
  dpc,      \* what the process does next
  due,      \* the tasks it has listed and not begun
  task,     \* the task it runs
  unlisted, \* the documents it has not yet come to in the source's listing
  until,    \* the end of the window it asks the source for; 0 if it has none
  todo,     \* the documents of the last page that are to come, with their times;
            \* for a prune, those it has not found
  next,     \* next_update
  late,     \* history: documents that changed after a load without end listed them
  rpc, kind, kbs, plan, \* per request: its next step, what was asked, datasets to
                        \* cancel, tasks to schedule
  call,     \* per process: where it is in SyncLogsService.schedule
  events,
  blocked,  \* history: the status of the connector was overwritten since it was SCHEDULE
  halted,   \* history: datasets whose chain of syncs was cut
  quiet,    \* history: datasets canceled while nobody ran or scheduled a task
  skipped,  \* history: documents of batches that failed, or that a waiting row was
            \* moved past, or that changed behind a load without end
  wiped,    \* history: datasets rebuilt while a task was in hand or had moved a row on
  raced     \* history: pairs that were scheduled twice at the same time

tables == <<conn, linked, rows, latest>>
content == <<prune_freq, source, now, stored>>
listing == <<unlisted, until, late>>
process == <<dpc, due, task, todo, next, listing>>
request == <<rpc, kind, kbs, plan>>
history == <<blocked, halted, quiet, skipped, wiped, raced>>
vars == <<tables, content, process, request, call, events, history>>

-----------------------------------------------------------------------------
NoCall == [pc |-> "none"]
NoTask == [row |-> NoRow]
Finished == {"cancel", "done", "fail"}
RowType == [status : Finished \cup {"schedule", "running"}, start : Nat, end : Nat,
            zero : BOOLEAN]

ASSUME NoRowAssumption == NoRow \notin Row /\ NoRow \notin RowType

Exists(w) == rows[w] # NoRow
Waits(w) == Exists(w) /\ rows[w].status = "schedule"
Waiting(p) == {w \in Row : Waits(w) /\ w[1] = p}
Held == {t.row : t \in due \cup {task}}
Event == events < MaxEvents /\ events' = events + 1

(* The tasks the process has in hand, and those it or a request schedules. *)
InHand(kb) ==
  \/ \E w \in Held : w # NoRow /\ w[1][1] = kb
  \/ \E p \in Proc : call[p] # NoCall /\ call[p].of[1] = kb

Later(s, t) == IF s > t THEN s ELSE t

(* update_by_id on a connector that is deleted changes nothing.            *)
SetConn(s) == conn' = IF conn = "gone" THEN conn ELSE s

(* An update of rows, which sets update_time: one of them is the latest    *)
(* then.  Finished rows that are neither the latest nor in hand are        *)
(* forgotten.                                                              *)
Tidy(rs, lt, held) ==
  [w \in Row |-> IF /\ rs[w] # NoRow /\ rs[w].status \in Finished
                    /\ w \notin held /\ lt[w[1]] # w
                 THEN NoRow ELSE rs[w]]

Touch(W) == [p \in Pair |-> LET V == {w \in W : Exists(w) /\ w[1] = p}
                            IN IF V = {} THEN latest[p] ELSE CHOOSE w \in V : TRUE]

UpdateRows(W, Set(_), held) ==
  /\ latest' = Touch(W)
  /\ rows' = Tidy([w \in Row |-> IF w \in W /\ Exists(w) THEN Set(rows[w]) ELSE rows[w]],
                  latest', held)

Init ==
  /\ conn = (IF Linked = {} THEN "unstart" ELSE "schedule")
  /\ linked = Linked
  /\ LET s == CHOOSE x \in Slot : TRUE IN
     /\ rows = [w \in Row |-> IF w[1][1] \in Linked /\ w[2] = s
                              THEN [status |-> "schedule", start |-> 0, end |-> 0, zero |-> TRUE]
                              ELSE NoRow]
     /\ latest = [p \in Pair |-> IF p[1] \in Linked THEN <<p, s>> ELSE NoRow]
  /\ prune_freq \in {0, 1}
  /\ source = [d \in Doc |-> 1] /\ now = 1 /\ stored = [x \in Kb \X Doc |-> 0]
  /\ dpc = "list" /\ due = {} /\ task = NoTask /\ todo = {} /\ next = 0
  /\ unlisted = {} /\ until = 0 /\ late = {}
  /\ rpc = [q \in Req |-> "idle"] /\ kind = [q \in Req |-> "none"]
  /\ kbs = [q \in Req |-> {}] /\ plan = [q \in Req |-> {}]
  /\ call = [p \in Proc |-> NoCall] /\ events = 0
  /\ blocked = FALSE /\ halted = Kb \ Linked /\ quiet = {}
  /\ skipped = {} /\ wiped = {} /\ raced = {}

-----------------------------------------------------------------------------
(* The data source: a document is changed, created or removed.             *)
Change(d) ==
  /\ Event /\ now' = now + 1
  /\ source' = [source EXCEPT ![d] = now + 1]
  /\ late' = IF dpc = "batch" /\ until = 0 /\ d \notin unlisted THEN late \cup {d} ELSE late
  /\ UNCHANGED <<tables, prune_freq, stored, dpc, due, task, todo, next, unlisted, until,
                 request, call, history>>

Remove(d) ==
  /\ source[d] # 0 /\ Event /\ source' = [source EXCEPT ![d] = 0]
  /\ UNCHANGED <<tables, prune_freq, now, stored, process, request, call, history>>

(* A user sets prune_freq (PATCH).                                         *)
SetPruneFreq ==
  /\ conn # "gone" /\ Event
  /\ prune_freq' = 1 - prune_freq
  /\ UNCHANGED <<tables, source, now, stored, process, request, call, history>>

-----------------------------------------------------------------------------
(* SyncLogsService.schedule, as called by a request and, at the end of a   *)
(* sync or prune, by the process.  With more than 100 rows of a dataset    *)
(* it deletes the 70 with the smallest update_time, of whatever type and   *)
(* status: first those that are to run immediately, whose update_time is   *)
(* 0.  The order of the others is not kept, but the latest row of a type   *)
(* goes after the rest of its type, and the latest of all stays.           *)
Trimmable(kb) ==
  LET R == {w \in Row : Exists(w) /\ w[1][1] = kb} IN
  {W \in SUBSET R :
     /\ W # {}
     /\ \A w \in W, v \in R : rows[v].zero /\ ~rows[w].zero => v \in W
     /\ \A w \in W, v \in R : latest[w[1]] = w /\ v[1] = w[1] => v \in W
     /\ \E w \in R \ W : latest[w[1]] = w}

ScheduleTrim(p) ==
  /\ call[p] # NoCall /\ call[p].pc = "check" /\ Event
  /\ \E W \in Trimmable(call[p].of[1]) :
       /\ rows' = [w \in Row |-> IF w \in W THEN NoRow ELSE rows[w]]
       /\ latest' = [of \in Pair |-> IF latest[of] \in W THEN NoRow ELSE latest[of]]
       /\ halted' = halted \cup {w[1][1] : w \in {v \in W : Waits(v) /\ v[1][2] = "sync"}}
  /\ UNCHANGED <<conn, linked, content, process, request, call, blocked, quiet, skipped, wiped,
                 raced>>

(* Mutation of ScheduleExists: the query does not look at the type.        *)
ScheduleExistsAnyType(p) ==
  /\ call[p] # NoCall /\ call[p].pc = "check"
  /\ \E w \in Row : Waits(w) /\ w[1][1] = call[p].of[1]
  /\ call' = [call EXCEPT ![p] = NoCall]
  /\ UNCHANGED <<tables, content, process, request, events, history>>

(* A task of this type is scheduled already.                               *)
ScheduleExists(p) ==
  /\ call[p] # NoCall /\ call[p].pc = "check"
  /\ Waiting(call[p].of) # {}
  /\ call' = [call EXCEPT ![p] = NoCall]
  /\ blocked' = (blocked \/ p = Syncer)
  /\ UNCHANGED <<tables, content, process, request, events, halted, quiet, skipped,
                 wiped, raced>>

(* Mutations of ScheduleConn: without the query, and leaving the connector *)
(* as it is.                                                               *)
ScheduleConnAnyway(p) ==
  /\ call[p] # NoCall /\ call[p].pc = "check"
  /\ SetConn("schedule")
  /\ call' = [call EXCEPT ![p].pc = "insert"]
  /\ UNCHANGED <<linked, rows, latest, content, process, request, events, history>>

ScheduleConnKept(p) ==
  /\ call[p] # NoCall /\ call[p].pc = "check" /\ Waiting(call[p].of) = {}
  /\ call' = [call EXCEPT ![p].pc = "insert"]
  /\ UNCHANGED <<tables, content, process, request, events, history>>

(* No task is scheduled; the status of the connector is written first.     *)
ScheduleConn(p) ==
  /\ call[p] # NoCall /\ call[p].pc = "check"
  /\ Waiting(call[p].of) = {}
  /\ SetConn("schedule")
  /\ call' = [call EXCEPT ![p].pc = "insert"]
  /\ blocked' = FALSE
  /\ raced' = IF \E q \in Proc \ {p} : /\ call[q] # NoCall /\ call[q].pc = "insert"
                                       /\ call[q].of = call[p].of
              THEN raced \cup {call[p].of} ELSE raced
  /\ UNCHANGED <<linked, rows, latest, content, process, request, events, halted, quiet,
                 skipped, wiped>>

(* The row is inserted; one that is to run immediately gets update_time 0  *)
(* and is the latest only if there is no other.                            *)
ScheduleInsert(p) ==
  /\ call[p] # NoCall /\ call[p].pc = "insert"
  /\ LET of == call[p].of
         w == CHOOSE v \in {of} \X Slot : ~Exists(v) /\ v \notin Held
     IN
     /\ \E v \in {of} \X Slot : ~Exists(v) /\ v \notin Held
     /\ latest' = IF call[p].now /\ latest[of] # NoRow THEN latest
                  ELSE [latest EXCEPT ![of] = w]
     /\ rows' = Tidy([rows EXCEPT ![w] = [status |-> "schedule", start |-> call[p].start,
                                          end |-> 0, zero |-> call[p].now]], latest', Held)
     /\ halted' = IF of[2] = "sync" THEN halted \ {of[1]} ELSE halted
  /\ call' = [call EXCEPT ![p] = NoCall]
  /\ UNCHANGED <<conn, linked, content, process, request, events, blocked, quiet,
                 skipped, wiped, raced>>

(* A statement of it raises: the latest task of the type is scheduled      *)
(* instead, whatever its status.                                           *)
ScheduleFails(p) ==
  /\ call[p] # NoCall /\ Event
  /\ LET w == latest[call[p].of] IN
     IF w = NoRow THEN blocked' = TRUE /\ UNCHANGED <<rows, latest, conn>>
     ELSE /\ UpdateRows({w}, LAMBDA r : [r EXCEPT !.status = "schedule", !.zero = FALSE,
                                                 !.start = call[p].start], Held)
          /\ SetConn("schedule") /\ blocked' = FALSE
  /\ raced' = raced \cup {call[p].of}
  /\ halted' = IF latest[call[p].of] = NoRow THEN halted \cup {call[p].of[1]} ELSE halted
  /\ call' = [call EXCEPT ![p] = NoCall]
  /\ UNCHANGED <<linked, content, process, request, quiet, skipped, wiped>>

Schedule(p) ==
  ScheduleExists(p) \/ ScheduleConn(p) \/ ScheduleInsert(p)

Call(p, of, start, immediately) ==
  call' = [call EXCEPT ![p] = [pc |-> "check", of |-> of, start |-> start,
                               now |-> immediately]]

-----------------------------------------------------------------------------
(* Requests: a change of status or interval of the connector, a rebuild or *)
(* removal, and an update of a dataset that links or unlinks it.           *)
Ask(q) ==
  /\ rpc[q] = "idle" /\ conn # "gone" /\ Event
  /\ \/ /\ kind' = [kind EXCEPT ![q] = "schedule"]
        /\ rpc' = [rpc EXCEPT ![q] = "plan"]
        /\ plan' = [plan EXCEPT ![q] = linked \X Type]
        /\ UNCHANGED <<kbs, linked>>
     \/ /\ \E k \in {"cancel", "reschedule", "delete"} : kind' = [kind EXCEPT ![q] = k]
        /\ rpc' = [rpc EXCEPT ![q] = "cancel"]
        /\ kbs' = [kbs EXCEPT ![q] = linked]
        /\ UNCHANGED <<plan, linked>>
     \/ \E kb \in linked :
        /\ kind' = [kind EXCEPT ![q] = "rebuild"]
        /\ rpc' = [rpc EXCEPT ![q] = "rmrows"]
        /\ plan' = [plan EXCEPT ![q] = {kb} \X Type]
        /\ kbs' = [kbs EXCEPT ![q] = {kb}]
        /\ UNCHANGED linked
     \/ \E kb \in Kb \ linked :
        /\ kind' = [kind EXCEPT ![q] = "link"]
        /\ rpc' = [rpc EXCEPT ![q] = "plan"]
        /\ plan' = [plan EXCEPT ![q] = {kb} \X Type]
        /\ linked' = linked \cup {kb}
        /\ UNCHANGED kbs
     \/ \E kb \in linked :
        /\ kind' = [kind EXCEPT ![q] = "unlink"]
        /\ rpc' = [rpc EXCEPT ![q] = "cancel"]
        /\ kbs' = [kbs EXCEPT ![q] = {kb}]
        /\ linked' = linked \ {kb}
        /\ UNCHANGED plan
  /\ UNCHANGED <<conn, rows, latest, content, process, call, history>>

(* cancel_tasks, and the end of link_connectors: one dataset's tasks are   *)
(* set to CANCEL in one statement, those that run included.  (Mutation of  *)
(* Canceled: only those.)                                                  *)
CanceledRunning(kb) ==
  {w \in Row : Exists(w) /\ w[1][1] = kb /\ rows[w].status = "running"}

Canceled(kb) == {w \in Row : /\ Exists(w) /\ w[1][1] = kb
                             /\ rows[w].status \in {"schedule", "running"}}

CancelRows(q) ==
  /\ rpc[q] = "cancel"
  /\ \E kb \in kbs[q] :
       /\ UpdateRows(Canceled(kb), LAMBDA r : [r EXCEPT !.status = "cancel", !.zero = FALSE],
                     Held)
       /\ kbs' = [kbs EXCEPT ![q] = @ \ {kb}]
       /\ halted' = halted \cup {kb}
       /\ quiet' = IF InHand(kb) THEN quiet \ {kb} ELSE quiet \cup {kb}
  /\ UNCHANGED <<conn, linked, content, process, rpc, kind, plan, call, events,
                 blocked, skipped, wiped, raced>>

(* ... and then the connector; a reschedule goes on to schedule_tasks, a   *)
(* removal to the row of the connector.                                    *)
CancelConn(q) ==
  /\ rpc[q] = "cancel" /\ kbs[q] = {}
  /\ IF kind[q] = "unlink" THEN UNCHANGED <<conn, blocked>>
     ELSE /\ SetConn("cancel")
          /\ blocked' = (blocked \/ (\E w \in Row : Waits(w))
                                 \/ (\E p \in Proc : call[p] # NoCall /\ call[p].pc = "insert"))
  /\ rpc' = [rpc EXCEPT ![q] = CASE kind[q] = "delete" -> "delete"
                                 [] kind[q] = "reschedule" /\ conn # "gone" -> "plan"
                                 [] OTHER -> "idle"]
  /\ kind' = [kind EXCEPT ![q] = IF rpc'[q] = "idle" THEN "none" ELSE @]
  /\ plan' = [plan EXCEPT ![q] = IF kind[q] = "reschedule" /\ conn # "gone"
                                 THEN linked \X Type ELSE {}]
  /\ UNCHANGED <<linked, rows, latest, content, process, kbs, call, events,
                 halted, quiet, skipped, wiped, raced>>

DeleteConn(q) ==
  /\ rpc[q] = "delete" /\ rpc' = [rpc EXCEPT ![q] = "idle"]
  /\ conn' = "gone" /\ kind' = [kind EXCEPT ![q] = "none"]
  /\ UNCHANGED <<linked, rows, latest, content, process, kbs, plan, call, events, history>>

(* rebuild: the dataset's rows are deleted, then its documents of this     *)
(* connector, then everything is scheduled from the beginning.             *)
DeleteRows(q) ==
  /\ rpc[q] = "rmrows" /\ rpc' = [rpc EXCEPT ![q] = "rmdocs"]
  /\ rows' = [w \in Row |-> IF Exists(w) /\ w[1][1] \in kbs[q] THEN NoRow ELSE rows[w]]
  /\ latest' = [p \in Pair |-> IF p[1] \in kbs[q] THEN NoRow ELSE latest[p]]
  /\ halted' = halted \cup kbs[q]
  /\ UNCHANGED <<conn, linked, content, process, kind, kbs, plan, call, events,
                 blocked, quiet, skipped, wiped, raced>>

(* A task that was in hand while the rows were deleted can leave one that  *)
(* is past the beginning, and end before the documents are.                *)
MovedOn(kb) ==
  \E w \in Row : Exists(w) /\ w[1][1] = kb /\ (rows[w].start > 0 \/ rows[w].end > 0)

DeleteDocs(q) ==
  /\ rpc[q] = "rmdocs" /\ rpc' = [rpc EXCEPT ![q] = "plan"]
  /\ stored' = [x \in Kb \X Doc |-> IF x[1] \in kbs[q] THEN 0 ELSE stored[x]]
  /\ wiped' = wiped \cup {kb \in kbs[q] : InHand(kb) \/ MovedOn(kb)}
  /\ kbs' = [kbs EXCEPT ![q] = {}]
  /\ UNCHANGED <<tables, prune_freq, source, now, process, kind, plan, call, events, blocked,
                 halted, quiet, skipped, raced>>

(* The next pair of schedule_tasks, rebuild or link_connectors, the sync   *)
(* of a dataset before its prune.  schedule_tasks starts the sync where    *)
(* the latest one ended, if it is DONE.                                    *)
LatestEnd(kb) ==
  LET w == latest[<<kb, "sync">>]
  IN IF w # NoRow /\ rows[w].status = "done" THEN rows[w].end ELSE 0

HalfPlanned(q) == {p \in plan[q] : p[2] = "prune" /\ <<p[1], "sync">> \notin plan[q]}

PlanNext(q) ==
  /\ rpc[q] = "plan" /\ call[q] = NoCall
  /\ \E p \in plan[q] :
       /\ IF HalfPlanned(q) # {} THEN p \in HalfPlanned(q) ELSE p[2] = "sync"
       /\ Call(q, p, IF kind[q] \in {"schedule", "reschedule"} /\ p[2] = "sync"
                     THEN LatestEnd(p[1]) ELSE 0, TRUE)
       /\ plan' = [plan EXCEPT ![q] = @ \ {p}]
       /\ quiet' = quiet \ {p[1]}
  /\ UNCHANGED <<tables, content, process, rpc, kind, kbs, events, blocked, halted,
                 skipped, wiped, raced>>

Answer(q) ==
  /\ rpc[q] = "plan" /\ call[q] = NoCall /\ plan[q] = {}
  /\ rpc' = [rpc EXCEPT ![q] = "idle"]
  /\ kind' = [kind EXCEPT ![q] = "none"]
  /\ UNCHANGED <<tables, content, process, kbs, plan, call, events, history>>

(* The server of the request dies.                                         *)
RequestDies(q) ==
  /\ rpc[q] # "idle" /\ Event
  /\ rpc' = [rpc EXCEPT ![q] = "idle"]
  /\ plan' = [plan EXCEPT ![q] = {}] /\ kbs' = [kbs EXCEPT ![q] = {}]
  /\ kind' = [kind EXCEPT ![q] = "none"]
  /\ call' = [call EXCEPT ![q] = NoCall]
  /\ halted' = halted \cup {p[1] : p \in plan[q]}
                      \cup (IF call[q] = NoCall THEN {} ELSE {call[q].of[1]})
  /\ UNCHANGED <<tables, content, process, blocked, quiet, skipped, wiped, raced>>

Request(q) ==
  \/ CancelRows(q) \/ CancelConn(q) \/ DeleteConn(q) \/ DeleteRows(q) \/ DeleteDocs(q)
  \/ PlanNext(q) \/ Answer(q) \/ Schedule(q)

-----------------------------------------------------------------------------
(* The process.  A round lists the due syncs and then the due prunes: the  *)
(* row waits and is old enough, the connector has status SCHEDULE and, for *)
(* a prune, a positive prune_freq, and somebody is linked to the dataset.  *)
(* The join with connector2kb gives a row twice if two connectors with     *)
(* different auto_parse are.                                               *)
Listable(type) ==
  {w \in Row : conn = "schedule" /\ Waits(w) /\ w[1][2] = type
                /\ (type = "prune" => prune_freq > 0)}

Eligible(type) ==
  {t \in [row : Listable(type), start : {rows[w].start : w \in Listable(type)}, copy : {1, 2}] :
     /\ t.start = rows[t.row].start
     /\ t.row[1][1] \in (IF t.copy = 1 THEN linked ELSE Shared)}

(* Those that are to run immediately are due, others when refresh_freq or  *)
(* prune_freq minutes have passed.                                         *)
List(type) ==
  \E old \in SUBSET {w \in Row : Waits(w) /\ ~rows[w].zero /\ w[1][2] = type} :
     due' = due \cup {t \in Eligible(type) : t.row \in old \/ rows[t.row].zero}

ListSync ==
  /\ dpc = "list" /\ dpc' = IF Prune THEN "listprune" ELSE "next"
  /\ List("sync")
  /\ UNCHANGED <<tables, content, task, todo, next, listing, request, call, events, history>>

ListPrune ==
  /\ dpc = "listprune" /\ dpc' = "next"
  /\ List("prune")
  /\ UNCHANGED <<tables, content, task, todo, next, listing, request, call, events, history>>

(* The next task of the round, or the end of it.                           *)
NextTask ==
  /\ dpc = "next" /\ call[Syncer] = NoCall
  /\ IF due = {}
     THEN dpc' = "list" /\ task' = NoTask /\ due' = due
     ELSE \E t \in due :
            /\ t.row[1][2] = "sync" \/ \A u \in due : u.row[1][2] = "prune"
            /\ task' = t /\ due' = due \ {t} /\ dpc' = "start"
  /\ rows' = Tidy(rows, latest, {t.row : t \in due})
  /\ UNCHANGED <<conn, linked, latest, content, todo, next, listing, request, call, events,
                 history>>

(* SyncLogsService.start.  Nothing of the source is listed yet.            *)
Start ==
  /\ dpc = "start" /\ dpc' = IF task.row[1][2] = "sync" THEN "generate" ELSE "snapshot"
  /\ UpdateRows({task.row}, LAMBDA r : [r EXCEPT !.status = "running", !.zero = FALSE], Held)
  /\ SetConn("running")
  /\ unlisted' = Doc
  /\ UNCHANGED <<linked, content, due, task, todo, next, until, late, request, call,
                 events, history>>

(* _generate makes a lazy generator.  poll_source mostly has an end, which *)
(* is the time now, and load_from_state has none.                          *)
Generate ==
  /\ dpc = "generate" /\ dpc' = "batch"
  /\ until' \in {0, now}
  /\ next' = task.start
  /\ UNCHANGED <<tables, content, due, task, todo, unlisted, late, request, call, events,
                 history>>

(* The next page of the listing, asked for when the last one is used up:   *)
(* the documents in the window, as they are by then.  A load of everything *)
(* (from the beginning, or where fingerprints tell what is new) also lists *)
(* those that have not changed since the task's start.                     *)
Fetch ==
  /\ dpc = "batch" /\ todo = {}
  /\ \E S \in SUBSET unlisted \ {{}} :
       LET there == {d \in S : source[d] # 0 /\ (until # 0 => source[d] <= until)}
           changed == {d \in there : source[d] >= task.start}
       IN
       /\ unlisted' = unlisted \ S
       /\ \E all \in BOOLEAN :
            todo' = {<<d, source[d]>> : d \in IF all THEN there ELSE changed}
  /\ UNCHANGED <<tables, content, dpc, due, task, next, until, late, request, call, events,
                 history>>

(* Mutation of Advance: the next window begins when the batch arrives,     *)
(* which is later than every change there was.                             *)
AdvanceToNow(t) == Later(t, now + 1)

(* next_update = max(next_update, max_update)                              *)
Advance(t) == Later(t, next)

(* The documents still to come of a row that an error of schedule has      *)
(* revived: the batch moves it past them although it waits.                *)
Passed(x) ==
  LET ahead == unlisted \cup {y[1] : y \in todo \ {x}} IN
  IF Waits(task.row)
  THEN {<<task.row[1][1], d>> : d \in {e \in ahead : source[e] \in 1..(x[2] - 1)}}
  ELSE {}

(* The documents that changed after they were listed, and before another   *)
(* one that is listed now: the next window begins after them.              *)
Overtaken(x) ==
  {<<task.row[1][1], d>> : d \in {e \in late : source[e] \in 1..(x[2] - 1)}}

(* A batch.  It moves next_update first; then its documents are stored and *)
(* the row is updated, and each of the two may not happen: documents are   *)
(* refused with an error, or a statement raises, which is logged.          *)
Batch ==
  /\ dpc = "batch"
  /\ \E x \in todo, kept, counted \in BOOLEAN :
       LET key == <<task.row[1][1], x[1]>> IN
       /\ IF kept /\ counted THEN UNCHANGED events ELSE Event
       /\ todo' = todo \ {x}
       /\ next' = Advance(x[2])
       /\ stored' = IF kept THEN [stored EXCEPT ![key] = x[2]] ELSE stored
       /\ skipped' = (IF ~kept THEN skipped \cup {key}
                      ELSE IF x[1] \in late THEN skipped ELSE skipped \ {key})
                       \cup Overtaken(x) \cup (IF counted THEN Passed(x) ELSE {})
       /\ IF counted
          THEN UpdateRows({task.row}, LAMBDA r : [r EXCEPT !.start = Later(@, x[2]),
                                                           !.end = Later(@, x[2]),
                                                           !.zero = FALSE], Held)
          ELSE UNCHANGED <<rows, latest>>
  /\ UNCHANGED <<conn, linked, prune_freq, source, now, dpc, due, task, listing, request, call,
                 blocked, halted, quiet, wiped, raced>>

(* A prune: the list of what the source has, page by page; if that fails   *)
(* the task is done.  Then what the dataset has and was not in the list is *)
(* deleted.                                                                *)
Snapshot ==
  /\ dpc = "snapshot"
  /\ \E S \in SUBSET unlisted :
       /\ unlisted' = unlisted \ S
       /\ todo' = todo \cup {<<d, 0>> : d \in {e \in S : source[e] = 0}}
       /\ dpc' = IF S = unlisted THEN "prune" ELSE "snapshot"
  /\ UNCHANGED <<tables, content, due, task, next, until, late, request, call, events,
                 history>>

SnapshotFails ==
  /\ dpc = "snapshot" /\ dpc' = "done" /\ Event
  /\ todo' = {} /\ unlisted' = {}
  /\ UNCHANGED <<tables, content, due, task, next, until, late, request, call, history>>

PruneDocs ==
  /\ dpc = "prune" /\ dpc' = "done" /\ todo' = {}
  /\ stored' = [x \in Kb \X Doc |-> IF /\ x[1] = task.row[1][1] /\ <<x[2], 0>> \in todo
                                       /\ task.row[1][1] \in linked /\ conn # "gone"
                                    THEN 0 ELSE stored[x]]
  /\ UNCHANGED <<tables, prune_freq, source, now, due, task, next, listing, request, call, events,
                 history>>

Forget == unlisted' = {} /\ until' = 0 /\ late' = {}

(* SyncLogsService.done.  The next task is scheduled afterwards, a sync    *)
(* from the time that this one came to.                                    *)
Done ==
  /\ dpc = "done" \/ (dpc = "batch" /\ todo = {} /\ unlisted = {})
  /\ dpc' = "next"
  /\ UpdateRows({task.row}, LAMBDA r : [r EXCEPT !.status = "done", !.zero = FALSE], Held)
  /\ SetConn("done")
  /\ Call(Syncer, task.row[1], next, FALSE)
  /\ next' = 0 /\ Forget
  /\ UNCHANGED <<linked, content, due, task, todo, request, events, history>>

(* The task raises: its row is FAIL, the connector is as it was, and no    *)
(* other task is scheduled.                                                *)
Fail ==
  /\ dpc \in {"generate", "batch", "snapshot", "prune"} /\ Event
  /\ dpc' = "next" /\ todo' = {} /\ next' = 0 /\ Forget
  /\ UpdateRows({task.row}, LAMBDA r : [r EXCEPT !.status = "fail", !.zero = FALSE], Held)
  /\ blocked' = TRUE
  /\ halted' = halted \cup {task.row[1][1]}
  /\ UNCHANGED <<conn, linked, content, due, task, request, call, quiet, skipped,
                 wiped, raced>>

(* The process dies, or a statement of start, done or FAIL raises, which   *)
(* ends it; it is started again.                                           *)
Crash ==
  /\ dpc # "list" /\ Event
  /\ dpc' = "list" /\ due' = {} /\ task' = NoTask /\ todo' = {} /\ next' = 0
  /\ Forget
  /\ call' = [call EXCEPT ![Syncer] = NoCall]
  /\ rows' = Tidy(rows, latest, {})
  /\ blocked' = TRUE
  /\ halted' = IF task = NoTask THEN halted ELSE halted \cup {task.row[1][1]}
  /\ UNCHANGED <<conn, linked, latest, content, request, quiet, skipped, wiped, raced>>

Dispatcher ==
  \/ ListSync \/ ListPrune \/ NextTask \/ Start \/ Generate \/ Fetch \/ Batch
  \/ Snapshot \/ PruneDocs \/ Done \/ Schedule(Syncer)

Next ==
  \/ Dispatcher \/ SnapshotFails \/ Fail \/ Crash \/ SetPruneFreq
  \/ \E q \in Req : Ask(q) \/ Request(q) \/ RequestDies(q)
  \/ \E p \in Proc : ScheduleTrim(p) \/ ScheduleFails(p)
  \/ \E d \in Doc : Change(d) \/ Remove(d)

Spec == Init /\ [][Next]_vars

-----------------------------------------------------------------------------
CallType ==
  {NoCall} \cup [pc : {"check", "insert"}, of : Pair, start : Nat, now : BOOLEAN]
TaskType == [row : Row, start : Nat, copy : {1, 2}]

TypeOK ==
  /\ conn \in {"unstart", "schedule", "running", "done", "cancel", "gone"}
  /\ linked \subseteq Kb
  /\ rows \in [Row -> RowType \cup {NoRow}] /\ latest \in [Pair -> Row \cup {NoRow}]
  /\ prune_freq \in {0, 1}
  /\ source \in [Doc -> Nat] /\ now \in Nat /\ stored \in [Kb \X Doc -> Nat]
  /\ dpc \in {"list", "listprune", "next", "start", "generate", "batch",
              "snapshot", "prune", "done"}
  /\ due \subseteq TaskType /\ task \in TaskType \cup {NoTask}
  /\ todo \subseteq Doc \X Nat /\ next \in Nat
  /\ unlisted \subseteq Doc /\ until \in Nat /\ late \subseteq Doc
  /\ rpc \in [Req -> {"idle", "cancel", "delete", "rmrows", "rmdocs", "plan"}]
  /\ kbs \in [Req -> SUBSET Kb] /\ plan \in [Req -> SUBSET Pair]
  /\ call \in [Proc -> CallType] /\ events \in 0..MaxEvents

(* Nobody is about to do anything: what the tables say is all there is.    *)
AtRest ==
  /\ dpc = "list"
  /\ \A q \in Req : rpc[q] = "idle"

(* At most one task of a type waits for a dataset, unless two calls of     *)
(* schedule were between its query and its insert at the same time, or one *)
(* failed and revived another row.                                         *)
OneWaiting == \A p \in Pair \ raced : \A v, w \in Waiting(p) : v = w

(* A linked dataset always has its next sync waiting when everybody rests, *)
(* unless its chain was cut and not started again: by a cancel, a failed   *)
(* task, a crash, or because the log of the waiting sync was trimmed.      *)
KeepsSyncing ==
  AtRest /\ conn # "gone" =>
    \A kb \in linked : Waiting(<<kb, "sync">>) # {} \/ kb \in halted

(* What changed at the source and is not in the dataset is in the window   *)
(* of the next sync, the waiting one or the one schedule_tasks would make: *)
(* the windows leave no gaps over changes, cancels, crashes and new links. *)
(* Not so if its batch failed, if it changed after a load without end had  *)
(* listed it and before another document that the load listed later, if an *)
(* error of schedule revived the row of the task that ran and a later      *)
(* batch moved it on, or if the dataset was rebuilt while a task was in    *)
(* hand, or had run since its rows were gone.                              *)
NothingMissed ==
  AtRest =>
    \A kb \in linked \ wiped, d \in Doc :
      \/ stored[<<kb, d>>] >= source[d]
      \/ <<kb, d>> \in skipped
      \/ IF Waiting(<<kb, "sync">>) = {} THEN LatestEnd(kb) <= source[d]
         ELSE \E w \in Waiting(<<kb, "sync">>) : rows[w].start <= source[d]

(* A cancel of a dataset none of whose tasks is in hand holds until they   *)
(* are scheduled again: no task waits or runs.                             *)
CancelHolds ==
  \A w \in Row : Exists(w) /\ w[1][1] \in quiet => rows[w].status \in Finished

(* A task that waits for a linked dataset when everybody rests is among    *)
(* those the next round lists once they are old enough, unless a task      *)
(* failed, a crash or a cancel came in between, or a task ended that found *)
(* its successor scheduled already, and nothing was scheduled since.  A    *)
(* prune of a connector whose prune_freq is 0 is inserted all the same,    *)
(* and waits for as long as it is 0.                                       *)
Dispatchable ==
  AtRest /\ conn # "gone" /\ ~blocked =>
    \A w \in Row : Waits(w) /\ w[1][1] \in linked =>
      \/ \E t \in Eligible(w[1][2]) : t.row = w
      \/ w[1][2] = "prune" /\ prune_freq = 0

(* The inductive invariant behind OneWaiting: the latest row of a pair is  *)
(* a row of the pair, the process has a task where it works on one, and    *)
(* who is about to insert a row is alone with it.                          *)
LatestInv ==
  \A p \in Pair : latest[p] # NoRow => latest[p][1] = p /\ Exists(latest[p])

TaskInv == dpc \notin {"list", "listprune", "next"} => task \in TaskType

Inserts(p) == call[p] # NoCall /\ call[p].pc = "insert"

InsertInv ==
  \A p \in Proc : Inserts(p) /\ call[p].of \notin raced =>
    /\ Waiting(call[p].of) = {}
    /\ \A q \in Proc \ {p} : Inserts(q) => call[q].of # call[p].of

IInv == TypeOK /\ LatestInv /\ TaskInv /\ OneWaiting /\ InsertInv

(* Who may have a call of schedule, a task or a plan in hand.              *)
StepInv ==
  /\ dpc = "list" => due = {}
  /\ dpc \in {"list", "listprune"} => task = NoTask
  /\ dpc \in {"generate", "batch"} => task.row[1][2] = "sync"
  /\ dpc \in {"snapshot", "prune", "done"} => task.row[1][2] = "prune"
  /\ call[Syncer] # NoCall => /\ dpc = "next" /\ task # NoTask
                              /\ call[Syncer].of = task.row[1]
  /\ \A q \in Req : /\ call[q] # NoCall => rpc[q] = "plan"
                    /\ rpc[q] \in {"idle", "cancel", "delete"} => plan[q] = {}

(* The invariant behind CancelHolds: nor has anybody such a task in hand.  *)
QuietInv == \A kb \in quiet : ~InHand(kb)

(* The invariant behind Dispatchable: a connector that is not SCHEDULE has *)
(* no row that waits, or its process runs a task and will schedule another.*)
DispatchInv ==
  \/ conn \in {"schedule", "gone"} \/ blocked
  \/ dpc \in {"generate", "batch", "snapshot", "prune", "done"}
  \/ call[Syncer] # NoCall /\ call[Syncer].pc = "check"
  \/ (\A w \in Row : ~Waits(w)) /\ (\A p \in Proc : ~Inserts(p))

(* The invariant behind KeepsSyncing: the next sync waits, or a task that  *)
(* runs, a call of schedule or a plan of a request is to bring it.         *)
Coming(kb) ==
  \/ dpc \in {"generate", "batch"} /\ task.row[1] = <<kb, "sync">>
  \/ \E p \in Proc : call[p] # NoCall /\ call[p].of = <<kb, "sync">>
  \/ \E q \in Req : <<kb, "sync">> \in plan[q]

ChainInv ==
  conn # "gone" =>
    \A kb \in linked : Waiting(<<kb, "sync">>) # {} \/ kb \in halted \/ Coming(kb)

(* The invariant behind NothingMissed.  Every time that the tables and the *)
(* processes keep is at most t.                                            *)
Seen(t) ==
  /\ \A w \in Row : Exists(w) => rows[w].start <= t /\ rows[w].end <= t
  /\ \A p \in Proc : call[p] # NoCall => call[p].start <= t
  /\ \A u \in due \cup {task} : u # NoTask => u.start <= t
  /\ next <= t /\ \A x \in todo : x[2] <= t

ClockInv ==
  /\ Seen(now)
  /\ \A d \in Doc : source[d] <= now /\ \A kb \in Kb : stored[<<kb, d>>] <= now

(* A document of a page is as it was when it was listed, unless it has     *)
(* changed since, after the end of the window or as one of those in late,  *)
(* and then no dataset has that version.                                   *)
Current(x) ==
  \/ source[x[1]] \in {0, x[2]}
  \/ until # 0 /\ until < source[x[1]]
  \/ x[1] \in late /\ \A kb \in Kb : stored[<<kb, x[1]>>] < source[x[1]]

(* What is listed: nobody has come further than the end of the window, if  *)
(* it has one.                                                             *)
TodoInv ==
  /\ dpc \notin {"batch", "snapshot", "prune"} => todo = {}
  /\ dpc = "generate" => unlisted = Doc
  /\ until # 0 => until <= now /\ Seen(until)
  /\ dpc = "batch" =>
       \A x \in todo : /\ Current(x) /\ x[1] \notin unlisted
                       /\ \A y \in todo : x[1] = y[1] => x = y
  /\ dpc \in {"snapshot", "prune"} =>
       \A x \in todo, kb \in Kb :
         source[x[1]] = 0 \/ stored[<<kb, x[1]>>] < source[x[1]]
  /\ dpc \in {"generate", "batch"} /\ Exists(task.row) => rows[task.row].status # "done"

Behind(kb, d) == stored[<<kb, d>>] < source[d] /\ <<kb, d>> \notin skipped

Window(kb, t) ==
  /\ \A w \in Waiting(<<kb, "sync">>) : rows[w].start <= t
  /\ LatestEnd(kb) <= t
  /\ \A p \in Proc : call[p] # NoCall /\ call[p].of = <<kb, "sync">> => call[p].start <= t
  /\ \A u \in due : u.row[1] = <<kb, "sync">> => u.start <= t
  /\ dpc \in {"start", "generate"} /\ task.row[1] = <<kb, "sync">> => task.start <= t

(* A document that a load is still to bring, or that is left to the next   *)
(* one: the row and next_update have not come past it.                     *)
Ahead(d) ==
  \/ <<d, source[d]>> \in todo
  \/ d \in unlisted /\ task.start <= source[d]
  \/ until # 0 /\ until < source[d]
  \/ /\ d \in late /\ next <= source[d]
     /\ Exists(task.row) => rows[task.row].end <= source[d]

WindowInv ==
  \A kb \in Kb \ wiped, d \in Doc : Behind(kb, d) =>
    /\ Window(kb, source[d])
    /\ dpc = "batch" /\ task.row[1][1] = kb => Ahead(d)

SyncInv ==
  StepInv /\ QuietInv /\ CancelHolds /\ DispatchInv /\ ChainInv /\ ClockInv /\ TodoInv
    /\ WindowInv
=============================================================================
