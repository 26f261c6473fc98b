-------------------------- MODULE DocumentLifecycle --------------------------
(***************************************************************************)
(* The life of one document in RAGFlow, at the granularity of single       *)
(* database statements, Redis commands and document-store calls: its       *)
(* status (document.run, document.progress), the rows of its parsing       *)
(* tasks, and its chunks in the document store.  The actors are            *)
(*   - parse requests, one per element of Run, of the three kinds the      *)
(*     REST interface has, each ending in queue_tasks,                     *)
(*   - stop requests,                                                      *)
(*   - the executions of the tasks, which may raise, and crash and be      *)
(*     delivered again,                                                    *)
(*   - the progress threads of the API servers, and the executions         *)
(*     themselves, which copy the state of the tasks to the document       *)
(*     (DocumentService._sync_progress).                                   *)
(* Each reads, decides and writes in separate statements, and there is no  *)
(* lock between them.                                                      *)
(*                                                                         *)
(* Chunk ids are hashes of document and text, so the chunks of a page are  *)
(* the same whichever task stores them: stored is a set of pages.  The     *)
(* progress of a task or document is one of four values.                   *)
(***************************************************************************)
EXTENDS Integers, FiniteSets, Functions

CONSTANTS
  Run,         \* parse requests for the document
  Kind,        \* kinds of parse request that are made
  Task,        \* task ids, fresh for each request
  RunOf,       \* the parse request that creates a task
  Page,        \* page ranges of the document
  PageOf,      \* the page range of a task
  Thread,      \* progress threads
  RetryLimit,  \* deliveries after which a task is abandoned (3 in the code)
  MaxFaults,   \* bound on crashes, errors of Redis or the store, and keys
               \* that expire
  MaxStops     \* bound on stop requests

TasksOf(r) == {t \in Task : RunOf[t] = r}

ASSUME LifecycleAssumption ==
  /\ RunOf \in [Task -> Run] /\ PageOf \in [Task -> Page]
  /\ \A r \in Run, p \in Page : \E t \in TasksOf(r) : PageOf[t] = p
  /\ Kind \subseteq {"parse", "guarded", "run"}
  /\ Thread \cap Task = {}
  /\ RetryLimit \in Nat /\ MaxFaults \in Nat /\ MaxStops \in Nat

(* Progress: -1 failed, 0 queued, 1 done in the code; Part is anything     *)
(* between 0 and 1.                                                        *)
Failed == -1
Queued == 0
Part == 1
Full == 2

VARIABLES
  (* the document *)
  run,          \* Document.run
  progress,     \* Document.progress
  (* the task table *)
  rows,         \* tasks that have a row
  tprog,        \* Task.progress
  chunk_ids,    \* tasks whose Task.chunk_ids is not empty
  retry_count,  \* Task.retry_count
  (* Redis, document store *)
  cancel,       \* tasks whose <task>-cancel exists, for an hour at most
  stored,       \* pages whose chunks are in the document store
  (* control state *)
  rpc,          \* what each parse request does next
  reuse,        \* tasks a request takes over from earlier ones
  drop,         \* pages whose chunks it deletes as left over
  unsent,       \* tasks it has still to enqueue
  spc,          \* what the stop request does next
  tpc,          \* what the execution of each task does next
  sync,         \* what each run of _sync_progress has read
  (* bounds *)
  faults, stops,
  (* history *)
  rest,         \* the latest parse request found the document at rest, and
                \* nothing was asked since
  stopped,      \* how far the latest stop got that reaches every execution
  orphans       \* pages of executions that may leave chunks behind after a
                \* stop: they could not clean up, or have no cancel key (any more)

docVars == <<run, progress>>
rowVars == <<rows, tprog, chunk_ids, retry_count>>
requestVars == <<rpc, reuse, drop, unsent>>
bounds == <<faults, stops>>
history == <<rest, stopped, orphans>>
vars == <<docVars, rowVars, cancel, stored, requestVars, spc, tpc, sync, bounds, history>>

Syncer == Thread \cup Task
Verdict == {"none", "queued", "running", "done", "fail"}
Idle == [at |-> "idle", sees |-> "none"]
RequestLabel == {"idle", "rows", "chunks", "chunks_first", "rows_last", "prev", "purge",
                 "drop", "insert", "begin", "send", "served", "failed"}
RunningLabel == {"collected", "abandon", "working", "inserted", "indexed", "fail",
                 "fail_raised", "fail_late", "finally", "raised", "wipe", "wipe_raised",
                 "late", "record", "sync"}

Init ==
  /\ run = "UNSTART" /\ progress = Queued
  /\ rows = {} /\ tprog = [t \in Task |-> Queued] /\ chunk_ids = {}
  /\ retry_count = [t \in Task |-> 0]
  /\ cancel = {} /\ stored = {}
  /\ rpc = [r \in Run |-> "idle"] /\ reuse = [r \in Run |-> {}]
  /\ drop = [r \in Run |-> {}] /\ unsent = [r \in Run |-> {}]
  /\ spc = "idle" /\ tpc = [t \in Task |-> "none"] /\ sync = [x \in Syncer |-> Idle]
  /\ faults = 0 /\ stops = 0
  /\ rest = FALSE /\ stopped = "no" /\ orphans = {}

RStep(r, from, to) == rpc[r] = from /\ rpc' = [rpc EXCEPT ![r] = to]
Go(t, from, to) == tpc[t] = from /\ tpc' = [tpc EXCEPT ![t] = to]
Fault == faults < MaxFaults /\ faults' = faults + 1

(* Task.update and Document.update where run != CANCEL: statements that    *)
(* decide and write at once.                                               *)
SetDoc(status, prog) == run' = status /\ progress' = prog
SetDocUnlessCanceled(status, prog) ==
  IF run = "CANCEL" THEN UNCHANGED docVars ELSE SetDoc(status, prog)

NothingElseRuns ==
  /\ \A t \in Task : tpc[t] \in {"none", "over"}
  /\ \A r \in Run : rpc[r] \in {"idle", "served", "failed"}
  /\ spc = "idle" /\ \A x \in Syncer : sync[x] = Idle

(* The chunks that the rows name are in the store, and no two rows name    *)
(* those of the same page.                                                 *)
EachPageOnce ==
  /\ \A t \in rows \cap chunk_ids : PageOf[t] \in stored
  /\ \A t, u \in rows \cap chunk_ids : PageOf[t] = PageOf[u] => t = u

-----------------------------------------------------------------------------
(* A parse request, up to the call of queue_tasks.                         *)

(* The document is marked as running.  parse_documents (and a run request  *)
(* with delete) goes on to delete the task rows, then the chunks; the      *)
(* chunk interface first checks that the document is not running, in the   *)
(* same statement, and deletes in the other order; a run request without   *)
(* delete keeps both.                                                      *)
Mark(r) ==
  /\ \/ "parse" \in Kind /\ RStep(r, "idle", "rows") /\ rest' = NothingElseRuns
     \/ /\ "guarded" \in Kind /\ run # "RUNNING"
        /\ RStep(r, "idle", "chunks_first") /\ rest' = NothingElseRuns
     \/ /\ "run" \in Kind /\ RStep(r, "idle", "prev")
        /\ rest' = (NothingElseRuns /\ EachPageOnce)
  /\ SetDoc("RUNNING", Queued)
  /\ stopped' = "no"
  /\ UNCHANGED <<rowVars, cancel, stored, reuse, drop, unsent, spc, tpc, sync, bounds, orphans>>

DeleteRows(r) ==
  /\ RStep(r, "rows", "chunks") \/ RStep(r, "rows_last", "prev")
  /\ rows' = {} /\ chunk_ids' = {}
  /\ UNCHANGED <<docVars, tprog, retry_count, cancel, stored, reuse, drop, unsent, spc, tpc,
                 sync, bounds, history>>

DeleteChunks(r) ==
  /\ RStep(r, "chunks", "prev") \/ RStep(r, "chunks_first", "rows_last")
  /\ stored' = {}
  /\ UNCHANGED <<docVars, rowVars, cancel, reuse, drop, unsent, spc, tpc, sync, bounds, history>>

-----------------------------------------------------------------------------
(* queue_tasks.                                                            *)

(* get_tasks and reuse_prev_task_chunks: a new task takes over a finished  *)
(* earlier task of the same page (and the same digest, which may differ)   *)
(* that has chunk ids; the ids nobody took over are left over.             *)
ReadPrev(r) ==
  /\ RStep(r, "prev", IF rows = {} THEN "insert" ELSE "purge")
  /\ \E S \in SUBSET TasksOf(r) :
     \E from \in [S -> {p \in rows \cap chunk_ids : tprog[p] = Full}] :
       /\ \A t \in S : PageOf[from[t]] = PageOf[t]
       /\ reuse' = [reuse EXCEPT ![r] = S]
       /\ drop' = [drop EXCEPT ![r] = {PageOf[p] : p \in (rows \cap chunk_ids) \ Range(from)}]
  /\ UNCHANGED <<docVars, rowVars, cancel, stored, unsent, spc, tpc, sync, bounds, history>>

Purge(r) ==
  /\ RStep(r, "purge", IF drop[r] = {} THEN "insert" ELSE "drop")
  /\ rows' = {} /\ chunk_ids' = {}
  /\ UNCHANGED <<docVars, tprog, retry_count, cancel, stored, reuse, drop, unsent, spc, tpc,
                 sync, bounds, history>>

DropLeftOver(r) ==
  /\ RStep(r, "drop", "insert")
  /\ stored' = stored \ drop[r]
  /\ UNCHANGED <<docVars, rowVars, cancel, reuse, drop, unsent, spc, tpc, sync, bounds, history>>

(* Nothing reads reuse and drop, locals of the request, after this.        *)
InsertRows(r) ==
  /\ RStep(r, "insert", "begin")
  /\ rows' = rows \cup TasksOf(r)
  /\ tprog' = [t \in Task |-> IF t \in reuse[r] THEN Full ELSE tprog[t]]
  /\ chunk_ids' = chunk_ids \cup reuse[r]
  /\ unsent' = [unsent EXCEPT ![r] = TasksOf(r) \ reuse[r]]
  /\ reuse' = [reuse EXCEPT ![r] = {}] /\ drop' = [drop EXCEPT ![r] = {}]
  /\ UNCHANGED <<docVars, retry_count, cancel, stored, spc, tpc, sync, bounds, history>>

(* begin2parse.                                                            *)
Begin(r) ==
  /\ RStep(r, "begin", IF unsent[r] = {} THEN "served" ELSE "send")
  /\ SetDocUnlessCanceled("RUNNING", Part)
  /\ UNCHANGED <<rowVars, cancel, stored, reuse, drop, unsent, spc, tpc, sync, bounds, history>>

Send(r, t) ==
  /\ t \in unsent[r]
  /\ RStep(r, "send", IF unsent[r] = {t} THEN "served" ELSE "send")
  /\ unsent' = [unsent EXCEPT ![r] = @ \ {t}]
  /\ Go(t, "none", "queued")
  /\ UNCHANGED <<docVars, rowVars, cancel, stored, reuse, drop, spc, sync, bounds, history>>

(* The API server dies, or Redis or the store raise.                       *)
RequestFails(r) ==
  /\ rpc[r] \notin {"idle", "served", "failed"}
  /\ rpc' = [rpc EXCEPT ![r] = "failed"]
  /\ Fault
  /\ UNCHANGED <<docVars, rowVars, cancel, stored, reuse, drop, unsent, spc, tpc, sync, stops,
                 history>>

RequestStep(r) ==
  \/ DeleteRows(r) \/ DeleteChunks(r) \/ ReadPrev(r) \/ Purge(r) \/ DropLeftOver(r)
  \/ InsertRows(r) \/ Begin(r) \/ \E t \in Task : Send(r, t)

-----------------------------------------------------------------------------
(* A stop request.                                                         *)

(* Accepted while the document is running or canceled or has a task that   *)
(* is not finished.                                                        *)
StopCheck ==
  /\ spc = "idle" /\ stops < MaxStops
  /\ run \in {"RUNNING", "CANCEL"} \/ \E t \in rows : tprog[t] < Full
  /\ spc' = "flag" /\ stops' = stops + 1
  /\ rest' = FALSE
  /\ UNCHANGED <<docVars, rowVars, cancel, stored, requestVars, tpc, sync, faults, stopped,
                 orphans>>

(* A stop at this moment reaches every execution: none is of a task whose  *)
(* row a parse request has deleted, and none will be of a task whose row   *)
(* is still to be inserted.                                                *)
Reaches ==
  /\ \A r \in Run : rpc[r] \in {"idle", "begin", "send", "served", "failed"}
  /\ \A t \in Task : tpc[t] \in RunningLabel => t \in rows \cup cancel

(* Whether an execution of a task is under way or can still begin: a task  *)
(* without a row is dropped when it is collected.                          *)
MayRun(t) == tpc[t] \in RunningLabel \/ (t \in rows /\ tpc[t] # "over")

(* cancel_all_task_of: a cancel key for every row there is now, but those  *)
(* that Redis fails to set, which RedisDB.set swallows.                    *)
SetCancelKeys ==
  \/ cancel' = cancel \cup rows /\ UNCHANGED faults
  \/ Fault /\ \E S \in SUBSET rows : S # rows /\ cancel' = cancel \cup S

StopFlag ==
  /\ spc = "flag" /\ spc' = "mark"
  /\ SetCancelKeys
  /\ stopped' = IF Reaches THEN "flagged" ELSE "no"
  /\ orphans' = {PageOf[t] : t \in {u \in Task : MayRun(u) /\ u \notin cancel'}}
  /\ UNCHANGED <<docVars, rowVars, stored, requestVars, tpc, sync, stops, rest>>

(* The document is marked; a cancel by a run request ends here, or deletes *)
(* the rows first.                                                         *)
StopMark ==
  /\ spc = "mark" /\ spc' \in {"clean", "rows", "idle"}
  /\ SetDoc("CANCEL", Queued)
  /\ UNCHANGED <<rowVars, cancel, stored, requestVars, tpc, sync, bounds, history>>

StopRows ==
  /\ spc = "rows" /\ spc' = "clean"
  /\ rows' = {} /\ chunk_ids' = {}
  /\ UNCHANGED <<docVars, tprog, retry_count, cancel, stored, requestVars, tpc, sync, bounds,
                 history>>

StopClean ==
  /\ spc = "clean" /\ spc' = "idle"
  /\ stored' = {}
  /\ stopped' = IF stopped = "flagged" THEN "clean" ELSE stopped
  /\ UNCHANGED <<docVars, rowVars, cancel, requestVars, tpc, sync, bounds, rest, orphans>>

StopFails ==
  /\ spc # "idle" /\ spc' = "idle"
  /\ Fault
  /\ UNCHANGED <<docVars, rowVars, cancel, stored, requestVars, tpc, sync, stops, history>>

StopStep == StopFlag \/ StopMark \/ StopRows \/ StopClean

(* A cancel key lives an hour, the default of RedisDB.set; has_canceled    *)
(* then says no, and the task is executed if it has not been yet.  Nobody  *)
(* looks for the key of a task that is not executed any more.              *)
Expire(t) ==
  /\ MayRun(t) /\ Fault
  /\ t \in cancel /\ cancel' = cancel \ {t}
  /\ orphans' = orphans \cup {PageOf[t]}
  /\ UNCHANGED <<docVars, rowVars, stored, requestVars, spc, tpc, sync, stops, rest, stopped>>

-----------------------------------------------------------------------------
(* The execution of a task.                                                *)

(* collect, get_task: no row, or delivered too often, or counted; the      *)
(* progress starts again even if it was 1 or -1.                           *)
Collect(t) ==
  /\ \/ /\ t \notin rows
        /\ Go(t, "queued", "over")
        /\ UNCHANGED <<tprog, retry_count>>
     \/ /\ t \in rows
        /\ retry_count' = [retry_count EXCEPT ![t] = @ + 1]
        /\ \/ /\ retry_count[t] >= RetryLimit
              /\ Go(t, "queued", "abandon")
              /\ tprog' = [tprog EXCEPT ![t] = Failed]
           \/ /\ retry_count[t] < RetryLimit
              /\ Go(t, "queued", "collected")
              /\ tprog' = [tprog EXCEPT ![t] = Part]
  /\ UNCHANGED <<docVars, rows, chunk_ids, cancel, stored, requestVars, spc, sync, bounds,
                 history>>

(* An abandoned task fails the document, canceled or not.                  *)
Abandon(t) ==
  /\ Go(t, "abandon", "over")
  /\ SetDoc("FAIL", Failed)
  /\ UNCHANGED <<rowVars, cancel, stored, requestVars, spc, sync, bounds, history>>

(* collect, has_canceled.                                                  *)
Accept(t) ==
  /\ Go(t, "collected", IF t \in cancel THEN "over" ELSE "working")
  /\ UNCHANGED <<docVars, rowVars, cancel, stored, requestVars, spc, sync, bounds, history>>

(* The chunks are in the store, in as many calls as it takes.              *)
Insert(t) ==
  /\ Go(t, "working", "inserted")
  /\ stored' = stored \cup {PageOf[t]}
  /\ UNCHANGED <<docVars, rowVars, cancel, requestVars, spc, sync, bounds, history>>

(* update_chunk_ids, which a missing row does not disturb.                 *)
UpdateChunkIds(t) ==
  /\ Go(t, "inserted", "indexed")
  /\ chunk_ids' = chunk_ids \cup ({t} \cap rows)
  /\ UNCHANGED <<docVars, rows, tprog, retry_count, cancel, stored, requestVars, spc, sync,
                 bounds, history>>

Busy == {"working", "inserted", "indexed"}

(* set_progress(-1): the row, then the document; without a row neither.    *)
SetFailed(t, from, fail, next) ==
  /\ Go(t, from, IF t \in rows THEN fail ELSE next)
  /\ tprog' = IF t \in rows THEN [tprog EXCEPT ![t] = Failed] ELSE tprog
  /\ UNCHANGED <<docVars, rows, chunk_ids, retry_count, cancel, stored, requestVars, spc, sync,
                 bounds, history>>

(* A checkpoint or set_progress sees the cancel.                           *)
Notice(t) ==
  /\ t \in cancel
  /\ \E from \in Busy : SetFailed(t, from, "fail", "finally")

(* Something raises, with or without having reported it.                   *)
Error(t) ==
  \/ \E from \in Busy : SetFailed(t, from, "fail_raised", "raised")
  \/ /\ \E from \in Busy : Go(t, from, "raised")
     /\ UNCHANGED <<docVars, rowVars, cancel, stored, requestVars, spc, sync, bounds, history>>

(* Mutation of FailDoc: the document is failed whatever its state.         *)
FailDocAlways(t) ==
  /\ Go(t, "fail", "finally") \/ Go(t, "fail_raised", "raised") \/ Go(t, "fail_late", "record")
  /\ SetDoc("FAIL", Failed)
  /\ UNCHANGED <<rowVars, cancel, stored, requestVars, spc, sync, bounds, history>>

(* update_progress, second half.                                           *)
FailDoc(t) ==
  /\ Go(t, "fail", "finally") \/ Go(t, "fail_raised", "raised") \/ Go(t, "fail_late", "record")
  /\ SetDocUnlessCanceled("FAIL", Failed)
  /\ UNCHANGED <<rowVars, cancel, stored, requestVars, spc, sync, bounds, history>>

(* set_progress(1.0).                                                      *)
Report(t) ==
  /\ t \notin cancel
  /\ Go(t, "indexed", "finally")
  /\ tprog' = IF t \in rows THEN [tprog EXCEPT ![t] = Full] ELSE tprog
  /\ UNCHANGED <<docVars, rows, chunk_ids, retry_count, cancel, stored, requestVars, spc, sync,
                 bounds, history>>

(* Mutations of Finally: a cancel of any task of the document counts; a    *)
(* task whose work is done does not clean up.                              *)
FinallyAnyCancel(t) ==
  /\ \/ Go(t, "finally", IF cancel # {} THEN "wipe" ELSE "record")
     \/ Go(t, "raised", IF cancel # {} THEN "wipe_raised" ELSE "late")
  /\ UNCHANGED <<docVars, rowVars, cancel, stored, requestVars, spc, sync, bounds, history>>
FinallyKeeps(t) ==
  /\ Go(t, "finally", "record")
     \/ Go(t, "raised", IF t \in cancel THEN "wipe_raised" ELSE "late")
  /\ UNCHANGED <<docVars, rowVars, cancel, stored, requestVars, spc, sync, bounds, history>>

(* The finally clause of TaskHandler.handle_task.                          *)
Finally(t) ==
  /\ \/ Go(t, "finally", IF t \in cancel THEN "wipe" ELSE "record")
     \/ Go(t, "raised", IF t \in cancel THEN "wipe_raised" ELSE "late")
  /\ UNCHANGED <<docVars, rowVars, cancel, stored, requestVars, spc, sync, bounds, history>>

(* A canceled task deletes the chunks of the document, whoever stored      *)
(* them.                                                                   *)
Wipe(t) ==
  /\ Go(t, "wipe", "record") \/ Go(t, "wipe_raised", "late")
  /\ stored' = {}
  /\ UNCHANGED <<docVars, rowVars, cancel, requestVars, spc, sync, bounds, history>>

(* set_progress(-1) in the executor's handler of the exception.            *)
LateFail(t) == SetFailed(t, "late", "fail_late", "record")

(* The store has an error in Wipe, which is logged, or Redis has one in    *)
(* has_canceled, which reads as not canceled.                              *)
FinallyFails(t) ==
  /\ \/ Go(t, "finally", "record") \/ Go(t, "raised", "late")
     \/ Go(t, "wipe", "record") \/ Go(t, "wipe_raised", "late")
  /\ Fault
  /\ orphans' = orphans \cup {PageOf[t]}
  /\ UNCHANGED <<docVars, rowVars, cancel, stored, requestVars, spc, sync, stops, rest, stopped>>

(* record_pipeline_operation calls _sync_progress; then XACK.              *)
StartSync(t) ==
  /\ Go(t, "record", "sync")
  /\ sync' = [sync EXCEPT ![t].at = "read"]
  /\ UNCHANGED <<docVars, rowVars, cancel, stored, requestVars, spc, bounds, history>>

End(t) ==
  /\ sync[t] = Idle
  /\ Go(t, "sync", "over")
  /\ UNCHANGED <<docVars, rowVars, cancel, stored, requestVars, spc, sync, bounds, history>>

(* The executor dies, and the message is delivered again.                  *)
Crash(t) ==
  /\ tpc[t] \in RunningLabel
  /\ tpc' = [tpc EXCEPT ![t] = "queued"]
  /\ sync' = [sync EXCEPT ![t] = Idle]
  /\ Fault
  /\ orphans' = orphans \cup {PageOf[t]}
  /\ UNCHANGED <<docVars, rowVars, cancel, stored, requestVars, spc, stops, rest, stopped>>

-----------------------------------------------------------------------------
(* DocumentService._sync_progress.                                         *)

(* Mutation of Unfinished: only the tasks are looked at.                   *)
UnfinishedTasks == run # "CANCEL" /\ \E t \in rows : tprog[t] \in {Queued, Part}

(* get_unfinished_docs selects the document.                               *)
Unfinished ==
  /\ run # "CANCEL"
  /\ \/ progress = Part
     \/ \E t \in rows : tprog[t] \in {Queued, Part}
     \/ progress = Failed /\ run = "FAIL" /\ \E t \in rows : tprog[t] # Failed

Pick(x) ==
  /\ sync[x] = Idle /\ Unfinished
  /\ sync' = [sync EXCEPT ![x].at = "read"]
  /\ UNCHANGED <<docVars, rowVars, cancel, stored, requestVars, spc, tpc, bounds, history>>

(* What the rows say: unfinished while a task is.                          *)
Summary ==
  IF \E t \in rows : tprog[t] \in {Queued, Part}
  THEN IF \A t \in rows : tprog[t] \in {Queued, Failed} THEN "queued" ELSE "running"
  ELSE IF \E t \in rows : tprog[t] = Failed THEN "fail" ELSE "done"

SyncRead(x) ==
  /\ sync[x].at = "read"
  /\ sync' = [sync EXCEPT ![x] = IF rows = {} THEN Idle ELSE [at |-> "check", sees |-> Summary]]
  /\ UNCHANGED <<docVars, rowVars, cancel, stored, requestVars, spc, tpc, bounds, history>>

SyncCheck(x) ==
  /\ sync[x].at = "check"
  /\ sync' = [sync EXCEPT ![x] = IF run = "CANCEL" THEN Idle ELSE [@ EXCEPT !.at = "write"]]
  /\ UNCHANGED <<docVars, rowVars, cancel, stored, requestVars, spc, tpc, bounds, history>>

(* A mean progress of 0 is not written.                                    *)
SyncWrite(x) ==
  /\ sync[x].at = "write"
  /\ CASE sync[x].sees = "done" -> SetDocUnlessCanceled("DONE", Full)
       [] sync[x].sees = "fail" -> SetDocUnlessCanceled("FAIL", Failed)
       [] sync[x].sees = "running" -> SetDocUnlessCanceled("RUNNING", Part)
       [] OTHER -> SetDocUnlessCanceled("RUNNING", progress)
  /\ sync' = [sync EXCEPT ![x] = Idle]
  /\ UNCHANGED <<rowVars, cancel, stored, requestVars, spc, tpc, bounds, history>>

Sync(x) == SyncRead(x) \/ SyncCheck(x) \/ SyncWrite(x)

-----------------------------------------------------------------------------
TaskStep(t) ==
  \/ Collect(t) \/ Abandon(t) \/ Accept(t) \/ Insert(t) \/ UpdateChunkIds(t)
  \/ Notice(t) \/ Error(t) \/ FailDoc(t) \/ Report(t) \/ Finally(t) \/ Wipe(t) \/ LateFail(t)
  \/ StartSync(t) \/ Sync(t) \/ End(t)

Next ==
  \/ \E r \in Run : Mark(r) \/ RequestStep(r) \/ RequestFails(r)
  \/ StopCheck \/ StopStep \/ StopFails
  \/ \E t \in Task : TaskStep(t) \/ FinallyFails(t) \/ Crash(t) \/ Expire(t)
  \/ \E x \in Thread : Pick(x) \/ Sync(x)

Spec == Init /\ [][Next]_vars

(* Requests that have started go on, executors and progress threads keep   *)
(* running and are restarted; whether a user asks for anything is open.    *)
FairSpec ==
  /\ Spec
  /\ \A r \in Run : WF_vars(RequestStep(r))
  /\ WF_vars(StopStep)
  /\ \A t \in Task : WF_vars(TaskStep(t))
  /\ \A x \in Thread : WF_vars(Pick(x) \/ Sync(x))

-----------------------------------------------------------------------------
TypeOK ==
  /\ run \in {"UNSTART", "RUNNING", "CANCEL", "DONE", "FAIL"}
  /\ progress \in Failed..Full /\ tprog \in [Task -> Failed..Full]
  /\ rows \subseteq Task /\ chunk_ids \subseteq rows /\ retry_count \in [Task -> Nat]
  /\ cancel \subseteq Task /\ stored \subseteq Page
  /\ rpc \in [Run -> RequestLabel]
  /\ reuse \in [Run -> SUBSET Task] /\ \A r \in Run : reuse[r] \subseteq TasksOf(r)
  /\ drop \in [Run -> SUBSET Page] /\ unsent \in [Run -> SUBSET Task]
  /\ spc \in {"idle", "flag", "mark", "rows", "clean"}
  /\ tpc \in [Task -> RunningLabel \cup {"none", "queued", "over"}]
  /\ sync \in [Syncer -> [at : {"idle", "read", "check", "write"}, sees : Verdict]]
  /\ faults \in 0..MaxFaults /\ stops \in 0..MaxStops
  /\ rest \in BOOLEAN /\ stopped \in {"no", "flagged", "clean"} /\ orphans \subseteq Page

(* A stop sticks: no progress report and no synchronisation that was under *)
(* way takes the document out of CANCEL, only a parse request does, and    *)
(* the failure of a task that was delivered too often.                     *)
StopSticks ==
  [][run = "CANCEL" /\ run' # "CANCEL" =>
       \/ \E r \in Run : rpc[r] = "idle" /\ rpc'[r] # "idle"
       \/ \E t \in Task : tpc[t] = "abandon" /\ tpc'[t] = "over"]_vars

(* Executions that have not passed Wipe yet.                               *)
ToClean ==
  {t \in Task : tpc[t] \in Busy \cup {"fail", "fail_raised", "finally", "raised", "wipe",
                                      "wipe_raised"}}

(* After a stop that reaches every execution, the document has no chunks   *)
(* but those an execution still has to delete, those a crash or an error   *)
(* kept it from deleting, and those of a task whose cancel key Redis       *)
(* failed to set, or that was not executed to its end when its key expired *)
(* after an hour: an execution inserts before it looks for the cancel key, *)
(* and a stop sets the key before it deletes.                              *)
StoppedIsEmpty ==
  stopped = "clean" => stored \subseteq orphans \cup {PageOf[t] : t \in ToClean}

(* A document that was at rest when it was parsed and that nobody asked    *)
(* anything about since is DONE only when the chunks of all its pages are  *)
(* in the store, in spite of redelivered tasks that start again.  At rest  *)
(* has one condition that nobody checks: two parse requests at once leave  *)
(* two rows for each page, which name the same chunks, and the next run    *)
(* request takes the chunks over from one and deletes them as left over    *)
(* from the other.                                                         *)
DoneMeansStored == rest /\ run = "DONE" => stored = Page

(* The status catches up with the tasks: a parse request of a document at  *)
(* rest leaves it DONE or FAIL for good, unless the request itself fails   *)
(* or something else is asked, with one exception: a synchronisation that  *)
(* read the tasks while they were queued writes RUNNING, and no progress,  *)
(* over the outcome, and get_unfinished_docs does not select the document  *)
(* again.                                                                  *)
Settles ==
  rest ~> \/ ~rest \/ \E r \in Run : rpc[r] = "failed"
          \/ [](run \in {"DONE", "FAIL"})
          \/ [](run = "RUNNING" /\ progress \in {Failed, Full})
-----------------------------------------------------------------------------
(* The inductive invariant behind StoppedIsEmpty: after a stop that        *)
(* reaches every execution, and until a parse request is made, a task that *)
(* is or can be executed has a cancel key or is one of the orphans.        *)
ReachInv ==
  stopped # "no" =>
    /\ \A r \in Run : rpc[r] \in {"idle", "begin", "send", "served", "failed"}
    /\ \A t \in Task : MayRun(t) => t \in cancel \/ PageOf[t] \in orphans

IInv == TypeOK /\ ReachInv /\ StoppedIsEmpty

(* The inductive invariant behind DoneMeansStored.  A request that has not *)
(* inserted its rows yet finds its tasks unknown to everybody.             *)
Before == {"rows", "chunks", "chunks_first", "rows_last", "prev", "purge", "drop", "insert"}
Ended == {"idle", "served", "failed"}

FreshInv ==
  \A r \in Run :
    /\ unsent[r] \subseteq TasksOf(r)
    /\ rpc[r] \in Before \cup {"idle"} =>
         \A t \in TasksOf(r) : t \notin rows \cup cancel /\ tpc[t] = "none" /\ tprog[t] = Queued

(* Before the rows are inserted, no execution runs, and a synchronisation  *)
(* runs only while there are no rows or one of them is not finished, so    *)
(* that it never sees all tasks finished.                                  *)
Waiting ==
  /\ run = "RUNNING" /\ progress # Failed
  /\ \A t \in Task : tpc[t] \in {"none", "over"}
  /\ \/ rows = {}
     \/ \E t \in rows : tprog[t] \in {Queued, Part}
     \/ progress = Queued /\ \A x \in Syncer : sync[x] = Idle
  /\ \A x \in Syncer : sync[x].sees \notin {"done", "fail"}
  /\ \A r \in Run :
       /\ rpc[r] \in Before \cup Ended
       /\ rpc[r] = "prev" => EachPageOnce
       /\ rpc[r] \in {"purge", "drop"} => \A t \in reuse[r] : PageOf[t] \in stored \ drop[r]
       /\ rpc[r] = "insert" => \A t \in reuse[r] : PageOf[t] \in stored
       /\ rpc[r] \in {"chunks", "drop", "insert"} => rows = {}

(* Afterwards there is a row for every page, whose chunks are in the store *)
(* when it is finished, and nothing deletes any.                           *)
Parsing ==
  /\ \A p \in Page : \E t \in rows : PageOf[t] = p
  /\ \A t \in rows : tprog[t] = Full => PageOf[t] \in stored
  /\ \A t \in Task :
       /\ tpc[t] \in {"inserted", "indexed"} => PageOf[t] \in stored
       /\ tpc[t] \notin {"none", "over"} => t \notin cancel
       /\ tpc[t] \notin {"wipe", "wipe_raised"}
  /\ \A r \in Run : /\ rpc[r] \in {"begin", "send"} \cup Ended
                    /\ rpc[r] \in {"begin", "send"} => unsent[r] \cap cancel = {}
  /\ \A x \in Syncer : sync[x].sees = "done" => stored = Page
  /\ run = "DONE" => stored = Page

RestInv ==
  rest =>
    /\ spc = "idle"
    /\ \A r, s \in Run : rpc[r] \notin Ended /\ rpc[s] \notin Ended => r = s
    /\ Waiting \/ Parsing

ParseInv == TypeOK /\ FreshInv /\ RestInv
=============================================================================
