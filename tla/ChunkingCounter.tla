--------------------------- MODULE ChunkingCounter ---------------------------
(***************************************************************************)
(* The per-document chunking counter of RAGFlow, at the granularity of     *)
(* single Redis commands.                                                  *)
(*                                                                         *)
(* A parse request splits one document into tasks, stores the number of    *)
(* unfinished tasks under doc:chunking_pending:<doc> and enqueues the      *)
(* tasks.  Every executor that finishes a task credits the counter; the    *)
(* one that brings it to zero runs the document finalizers (structure      *)
(* compilation and RAPTOR).  Cancels, failures and abandoned retries abort *)
(* the counter by deleting the key.  None of this is transactional: each   *)
(* action below is one Redis command or one database statement, and the    *)
(* actors are                                                              *)
(*   - parse requests (queue_tasks), one per element of Run,               *)
(*   - stop requests (cancel_all_task_of),                                 *)
(*   - the executions of the messages in the stream, which may crash and   *)
(*     be redelivered from the consumer group's pending list.              *)
(*                                                                         *)
(* There is one document.  A task id is a fresh uuid, so the tasks of      *)
(* different runs are different: RunOf gives the run a task belongs to.    *)
(* queue_product repeats an XADD whose reply it did not get, so one task   *)
(* may have several messages: TaskOf gives the task a message carries.     *)
(***************************************************************************)
EXTENDS Integers, FiniteSets

CONSTANTS
  Run,          \* parse requests for the document
  Task,         \* task ids
  RunOf,        \* the parse request that creates a task
  Msg,          \* stream messages
  TaskOf,       \* the task a message carries
  RetryLimit,   \* deliveries after which a task is abandoned (3 in the code)
  MaxFaults,    \* bound on crashes, Redis errors and lost replies
  MaxStops,     \* bound on stop requests
  NoKey,        \* "the Redis key does not exist"
  NoRun         \* "the counter was never seeded"

ASSUME ConstantAssumption ==
  /\ IsFiniteSet(Task)
  /\ RunOf \in [Task -> Run] /\ TaskOf \in [Msg -> Task]
  /\ RetryLimit \in Nat /\ MaxFaults \in Nat /\ MaxStops \in Nat
  /\ NoKey \notin Int
  /\ NoRun \notin Run

TasksOf(r) == {t \in Task : RunOf[t] = r}
MsgRun(m) == RunOf[TaskOf[m]]

VARIABLES
  (* Redis and database state *)
  pending,      \* doc:chunking_pending:<doc>, an integer or NoKey
  aborted,      \* whether doc:chunking_aborted:<doc> exists
  done,         \* tasks whose doc:chunking_done:<task> exists
  cancel,       \* tasks whose <task>-cancel exists, for an hour at most
  rows,         \* tasks that have a row in the task table
  retry_count,  \* Task.retry_count
  (* control state *)
  rpc,          \* what each parse request does next
  unsent,       \* tasks a parse request has still to enqueue
  spc,          \* what the stop request does next
  tpc,          \* what the execution of each message does next
  (* bounds *)
  faults, stops,
  (* history *)
  seeder,       \* the run that wrote the counter last
  credited,     \* tasks that have executed their DECRBY
  finalized,    \* how often a DECRBY on run r's counter returned 0
  lost          \* runs whose counter was deleted, overwritten, decremented by
                \* a task of another run, or missed a decrement

redisVars == <<pending, aborted, done, cancel>>
dbVars == <<rows, retry_count>>
requestVars == <<rpc, unsent, spc>>
bounds == <<faults, stops>>
history == <<seeder, credited, finalized, lost>>
vars == <<redisVars, dbVars, requestVars, tpc, bounds, history>>

RequestLabel == {"idle", "insert", "seed", "set", "send", "abort", "mark",
                 "served", "failed"}
StopLabel == {"idle", "mark", "flag"}

(* The labels of a task execution that hold the message in the consumer's  *)
(* pending list; "none" is before the message exists, "queued" is in the   *)
(* stream or waiting for redelivery, "over" is acknowledged.               *)
RunningLabel == {"collected", "chunking", "gate", "credit", "test", "decr",
                 "finalize", "clear", "clear_fail", "check", "report", "finally",
                 "abandon", "abort0", "abort1", "abort2", "abort3",
                 "abandon_mark", "mark0", "mark1", "mark2", "mark3"}
TaskLabel == RunningLabel \cup {"none", "queued", "over"}

Init ==
  /\ pending = NoKey /\ aborted = FALSE /\ done = {} /\ cancel = {}
  /\ rows = {} /\ retry_count = [t \in Task |-> 0]
  /\ rpc = [r \in Run |-> "idle"] /\ unsent = [r \in Run |-> {}]
  /\ spc = "idle" /\ tpc = [m \in Msg |-> "none"]
  /\ faults = 0 /\ stops = 0
  /\ seeder = NoRun /\ credited = {}
  /\ finalized = [r \in Run |-> 0] /\ lost = {}

Step(m, from, to) == tpc[m] = from /\ tpc' = [tpc EXCEPT ![m] = to]
Fault == faults < MaxFaults /\ faults' = faults + 1
RStep(r, from, to) == rpc[r] = from /\ rpc' = [rpc EXCEPT ![r] = to]

-----------------------------------------------------------------------------
(* The Redis commands.                                                     *)

(* seed_doc_chunking_counter, first command: the old abort marker goes.    *)
SeedClearMarker == aborted' = FALSE /\ UNCHANGED <<pending, done, cancel>>

(* seed_doc_chunking_counter, second command: SET pending n.  Whatever     *)
(* counter an earlier run had is overwritten.                              *)
SeedSet(r) ==
  /\ pending' = Cardinality(TasksOf(r))
  /\ seeder' = r
  /\ lost' = lost \cup ({seeder} \ {NoRun})
  /\ UNCHANGED <<aborted, done, cancel, credited, finalized>>

(* abort_doc_chunking_counter and clear_doc_chunking_counter start with    *)
(* DEL pending; the owner is the run on whose behalf the finalizer ran.    *)
DelPending(owners) ==
  /\ pending' = NoKey
  /\ lost' = lost \cup ({seeder} \ (owners \cup {NoRun}))
  /\ UNCHANGED <<aborted, done, cancel, seeder, credited, finalized>>

(* abort_doc_chunking_counter, second command.                             *)
SetAborted == aborted' = TRUE /\ UNCHANGED <<pending, done, cancel>>

-----------------------------------------------------------------------------
(* A parse request: queue_tasks.                                           *)

(* The rows of all earlier tasks of the document are deleted.              *)
QueueDelete(r) ==
  /\ RStep(r, "idle", "insert")
  /\ rows' = {}
  /\ UNCHANGED <<redisVars, retry_count, unsent, spc, tpc, bounds, history>>

(* The new task rows are inserted.                                         *)
QueueInsert(r) ==
  /\ RStep(r, "insert", "seed")
  /\ rows' = rows \cup TasksOf(r)
  /\ UNCHANGED <<redisVars, retry_count, unsent, spc, tpc, bounds, history>>

(* seed_doc_chunking_counter returns False, and queue_tasks fails, when    *)
(* there is nothing to count; queue_tasks does not call it then.           *)
QueueSeed(r) ==
  /\ RStep(r, "seed", IF TasksOf(r) = {} THEN "served" ELSE "set")
  /\ IF TasksOf(r) = {} THEN UNCHANGED redisVars ELSE SeedClearMarker
  /\ UNCHANGED <<dbVars, unsent, spc, tpc, bounds, history>>

QueueSeedSet(r) ==
  /\ RStep(r, "set", "send")
  /\ SeedSet(r)
  /\ unsent' = [unsent EXCEPT ![r] = TasksOf(r)]
  /\ UNCHANGED <<dbVars, spc, tpc, bounds>>

(* queue_product succeeds for one more task.                               *)
QueueProduct(r, m) ==
  /\ TaskOf[m] \in unsent[r]
  /\ RStep(r, "send", IF unsent[r] = {TaskOf[m]} THEN "served" ELSE "send")
  /\ unsent' = [unsent EXCEPT ![r] = @ \ {TaskOf[m]}]
  /\ Step(m, "none", "queued")
  /\ UNCHANGED <<redisVars, dbVars, spc, bounds, history>>

(* An XADD takes effect but its reply is lost: queue_product tries again,  *)
(* with another message (of which the bound Msg has to have one).          *)
QueueProductRetry(r, m) ==
  /\ rpc[r] = "send" /\ TaskOf[m] \in unsent[r]
  /\ \E n \in Msg \ {m} : TaskOf[n] = TaskOf[m] /\ tpc[n] = "none"
  /\ Step(m, "none", "queued")
  /\ Fault
  /\ UNCHANGED <<redisVars, dbVars, requestVars, stops, history>>

(* queue_product gives up on a task: the request aborts the counter and    *)
(* raises, leaving the tasks it already sent in the stream.                *)
QueueProductFail(r) ==
  /\ RStep(r, "send", "abort")
  /\ Fault
  /\ UNCHANGED <<redisVars, dbVars, unsent, spc, tpc, stops, history>>

QueueAbort(r) ==
  /\ RStep(r, "abort", "mark")
  /\ DelPending({})
  /\ UNCHANGED <<dbVars, unsent, spc, tpc, bounds>>

QueueAbortMark(r) ==
  /\ RStep(r, "mark", "failed")
  /\ SetAborted
  /\ UNCHANGED <<dbVars, unsent, spc, tpc, bounds, history>>

(* The API server dies in the middle of the request.                       *)
RequestCrash(r) ==
  /\ rpc[r] \notin {"idle", "served", "failed"}
  /\ Fault
  /\ rpc' = [rpc EXCEPT ![r] = "failed"]
  /\ UNCHANGED <<redisVars, dbVars, unsent, spc, tpc, stops, history>>

-----------------------------------------------------------------------------
(* A stop request: cancel_all_task_of.                                     *)

StopAbort ==
  /\ spc = "idle" /\ stops < MaxStops
  /\ spc' = "mark" /\ stops' = stops + 1
  /\ DelPending({})
  /\ UNCHANGED <<dbVars, rpc, unsent, tpc, faults>>

StopMark ==
  /\ spc = "mark" /\ spc' = "flag"
  /\ SetAborted
  /\ UNCHANGED <<dbVars, rpc, unsent, tpc, bounds, history>>

(* One cancel key per row the document has now, but those that Redis fails *)
(* to set, which RedisDB.set swallows.                                     *)
StopFlag ==
  /\ spc = "flag" /\ spc' = "idle"
  /\ \/ cancel' = cancel \cup rows /\ UNCHANGED faults
     \/ Fault /\ \E S \in SUBSET rows : S # rows /\ cancel' = cancel \cup S
  /\ UNCHANGED <<pending, aborted, done, dbVars, rpc, unsent, tpc, stops, history>>

(* A cancel key lives an hour, the default of RedisDB.set.                 *)
Expire(t) ==
  /\ t \in cancel /\ cancel' = cancel \ {t} /\ Fault
  /\ UNCHANGED <<pending, aborted, done, dbVars, requestVars, tpc, stops, history>>

-----------------------------------------------------------------------------
(* The execution of a message's task.                                           *)

(* Mutation of Collect: a delivery over the limit is left unacknowledged.  *)
CollectLeavesAbandoned(m) ==
  /\ \/ /\ TaskOf[m] \notin rows
        /\ Step(m, "queued", "over")
        /\ UNCHANGED retry_count
     \/ /\ TaskOf[m] \in rows /\ retry_count[TaskOf[m]] < RetryLimit
        /\ retry_count' = [retry_count EXCEPT ![TaskOf[m]] = @ + 1]
        /\ Step(m, "queued", "collected")
  /\ UNCHANGED <<redisVars, rows, requestVars, bounds, history>>

(* collect, get_task: there is no row any more, or the task was delivered  *)
(* too often, or the delivery is counted.                                  *)
Collect(m) ==
  /\ \/ /\ TaskOf[m] \notin rows
        /\ Step(m, "queued", "over")
        /\ UNCHANGED retry_count
     \/ /\ TaskOf[m] \in rows
        /\ retry_count' = [retry_count EXCEPT ![TaskOf[m]] = @ + 1]
        /\ Step(m, "queued",
                IF retry_count[TaskOf[m]] >= RetryLimit THEN "abandon" ELSE "collected")
  /\ UNCHANGED <<redisVars, rows, requestVars, bounds, history>>

(* collect, has_canceled: a canceled task is acknowledged and dropped.     *)
Accept(m) ==
  /\ Step(m, "collected", IF TaskOf[m] \in cancel THEN "over" ELSE "chunking")
  /\ UNCHANGED <<redisVars, dbVars, requestVars, bounds, history>>

(* Parsing, embedding and inserting the chunks, up to the call of          *)
(* run_document_post_chunking_if_last.  A cancel is noticed at one of the  *)
(* checkpoints, or not at all; any of it may raise, before or inside       *)
(* _run_standard_chunking.                                                 *)
Chunking(m) ==
  /\ \/ Step(m, "chunking", "gate")
     \/ Step(m, "chunking", "abort1")
     \/ Step(m, "chunking", "abort2")
     \/ TaskOf[m] \in cancel /\ Step(m, "chunking", "abort0")
  /\ UNCHANGED <<redisVars, dbVars, requestVars, bounds, history>>

(* run_document_post_chunking_if_last: the cancel check.                   *)
Gate(m) ==
  /\ Step(m, "gate", IF TaskOf[m] \in cancel THEN "abort0" ELSE "credit")
  /\ UNCHANGED <<redisVars, dbVars, requestVars, bounds, history>>

(* Mutation of CreditDone: a redelivered task counts again.                *)
CreditDoneEveryTime(m) ==
  /\ Step(m, "credit", "test")
  /\ done' = done \cup {TaskOf[m]}
  /\ UNCHANGED <<pending, aborted, cancel, dbVars, requestVars, bounds, history>>

(* credit_doc_chunking_task: SET done NX.  A retry of a task that was      *)
(* credited before is not the last one.                                    *)
CreditDone(m) ==
  /\ Step(m, "credit", IF TaskOf[m] \in done THEN "report" ELSE "test")
  /\ done' = done \cup {TaskOf[m]}
  /\ UNCHANGED <<pending, aborted, cancel, dbVars, requestVars, bounds, history>>

(* credit_doc_chunking_task: GET pending.                                  *)
CreditTest(m) ==
  /\ Step(m, "test", IF pending = NoKey THEN "report" ELSE "decr")
  /\ UNCHANGED <<redisVars, dbVars, requestVars, bounds, history>>

(* Mutations of CreditDecr: every result up to 0 starts the finalizers;    *)
(* only a result below 0 does.                                             *)
CreditDecrAtMostZero(m) ==
  LET left == (IF pending = NoKey THEN 0 ELSE pending) - 1
  IN  /\ Step(m, "decr", IF left <= 0 THEN "finalize" ELSE "report")
      /\ pending' = left
      /\ credited' = credited \cup {TaskOf[m]}
      /\ finalized' = [r \in Run |-> IF r = seeder /\ left <= 0
                                     THEN finalized[r] + 1 ELSE finalized[r]]
      /\ lost' = lost \cup ({seeder} \ {MsgRun(m), NoRun})
      /\ UNCHANGED <<aborted, done, cancel, dbVars, requestVars, bounds, seeder>>
CreditDecrBelowZero(m) ==
  LET left == (IF pending = NoKey THEN 0 ELSE pending) - 1
  IN  /\ Step(m, "decr", IF left < 0 THEN "finalize" ELSE "report")
      /\ pending' = left
      /\ credited' = credited \cup {TaskOf[m]}
      /\ finalized' = [r \in Run |-> IF r = seeder /\ left < 0
                                     THEN finalized[r] + 1 ELSE finalized[r]]
      /\ lost' = lost \cup ({seeder} \ {MsgRun(m), NoRun})
      /\ UNCHANGED <<aborted, done, cancel, dbVars, requestVars, bounds, seeder>>

(* credit_doc_chunking_task: DECRBY pending 1, which starts from 0 when    *)
(* the key was deleted since the GET.  A result of 0 starts the            *)
(* finalizers.                                                             *)
CreditDecr(m) ==
  LET left == (IF pending = NoKey THEN 0 ELSE pending) - 1
  IN  /\ Step(m, "decr", IF left = 0 THEN "finalize" ELSE "report")
      /\ pending' = left
      /\ credited' = credited \cup {TaskOf[m]}
      /\ finalized' = [r \in Run |-> IF r = seeder /\ left = 0
                                     THEN finalized[r] + 1 ELSE finalized[r]]
      /\ lost' = lost \cup ({seeder} \ {MsgRun(m), NoRun})
      /\ UNCHANGED <<aborted, done, cancel, dbVars, requestVars, bounds, seeder>>

(* A Redis error in credit_doc_chunking_task: a failing SET NX reads as    *)
(* "already credited", any other failure returns None; either way the task *)
(* goes on as not the last one.  The command may have taken effect.        *)
CreditFail(m) ==
  /\ \/ Step(m, "credit", "report") \/ Step(m, "test", "report") \/ Step(m, "decr", "report")
  /\ \/ UNCHANGED <<pending, done, credited>>
     \/ /\ tpc[m] = "credit" /\ done' = done \cup {TaskOf[m]}
        /\ UNCHANGED <<pending, credited>>
     \/ /\ tpc[m] = "decr"
        /\ pending' = (IF pending = NoKey THEN 0 ELSE pending) - 1
        /\ credited' = credited \cup {TaskOf[m]}
        /\ UNCHANGED done
  /\ lost' = lost \cup ({MsgRun(m), seeder} \ {NoRun})
  /\ Fault
  /\ UNCHANGED <<aborted, cancel, dbVars, requestVars, stops, seeder, finalized>>

(* The document finalizers end, or raise.                                  *)
Finalize(m) ==
  /\ \/ Step(m, "finalize", "clear")
     \/ Step(m, "finalize", "clear_fail")
  /\ UNCHANGED <<redisVars, dbVars, requestVars, bounds, history>>

(* Their finally clause: clear_doc_chunking_counter.                       *)
Clear(m) ==
  /\ \/ Step(m, "clear", "check")
     \/ Step(m, "clear_fail", "abort1")
  /\ DelPending({MsgRun(m)})
  /\ UNCHANGED <<dbVars, requestVars, bounds>>

(* The cancel check after the finalizers.                                  *)
Check(m) ==
  /\ Step(m, "check", IF TaskOf[m] \in cancel THEN "abort0" ELSE "report")
  /\ UNCHANGED <<redisVars, dbVars, requestVars, bounds, history>>

(* The cancel check in set_progress(1.0), which raises a                   *)
(* TaskCanceledException.                                                  *)
Report(m) ==
  /\ Step(m, "report", IF TaskOf[m] \in cancel THEN "abort1" ELSE "finally")
  /\ UNCHANGED <<redisVars, dbVars, requestVars, bounds, history>>

(* The finally clause of TaskHandler.handle_task, then the acknowledgement.*)
Finally(m) ==
  /\ Step(m, "finally", IF TaskOf[m] \in cancel THEN "abort3" ELSE "over")
  /\ UNCHANGED <<redisVars, dbVars, requestVars, bounds, history>>

(* abort_doc_chunking_counter on the way out: of an abandoned delivery     *)
(* (get_task), at a cancel check (whose set_progress then raises), in the  *)
(* except clauses of _run_standard_chunking and of handle_task, and in     *)
(* handle_task's finally clause.                                           *)
AbortDel(m) ==
  /\ \/ Step(m, "abandon", "abandon_mark")
     \/ Step(m, "abort0", "mark0")
     \/ Step(m, "abort1", "mark1")
     \/ Step(m, "abort2", "mark2")
     \/ Step(m, "abort3", "mark3")
  /\ DelPending({})
  /\ UNCHANGED <<dbVars, requestVars, bounds>>

AbortMark(m) ==
  /\ \/ Step(m, "abandon_mark", "over")
     \/ Step(m, "mark0", "abort1")
     \/ Step(m, "mark1", "abort2")
     \/ Step(m, "mark2", "finally")
     \/ Step(m, "mark3", "over")
  /\ SetAborted
  /\ UNCHANGED <<dbVars, requestVars, bounds, history>>

(* The executor dies.  The message stays in its pending list and is        *)
(* delivered again when the consumer of that name comes back.              *)
Crash(m) ==
  /\ tpc[m] \in RunningLabel
  /\ Fault
  /\ tpc' = [tpc EXCEPT ![m] = "queued"]
  /\ lost' = IF tpc[m] \in {"test", "decr"} THEN lost \cup {MsgRun(m)} ELSE lost
  /\ UNCHANGED <<redisVars, dbVars, requestVars, stops, seeder, credited, finalized>>

TaskStep(m) ==
  \/ Collect(m) \/ Accept(m) \/ Chunking(m) \/ Gate(m)
  \/ CreditDone(m) \/ CreditTest(m) \/ CreditDecr(m) \/ CreditFail(m)
  \/ Finalize(m) \/ Clear(m) \/ Check(m) \/ Report(m) \/ Finally(m)
  \/ AbortDel(m) \/ AbortMark(m)

RequestStep(r) ==
  \/ QueueDelete(r) \/ QueueInsert(r) \/ QueueSeed(r) \/ QueueSeedSet(r)
  \/ (\E m \in Msg : QueueProduct(r, m) \/ QueueProductRetry(r, m))
  \/ QueueProductFail(r) \/ QueueAbort(r) \/ QueueAbortMark(r)

StopStep == StopAbort \/ StopMark \/ StopFlag

Next ==
  \/ \E m \in Msg : TaskStep(m) \/ Crash(m)
  \/ \E r \in Run : RequestStep(r) \/ RequestCrash(r)
  \/ StopStep \/ \E t \in Task : Expire(t)

Spec == Init /\ [][Next]_vars

(* Executors and the API server keep running; a crashed executor is        *)
(* restarted under its consumer name.  Parse and stop requests are a       *)
(* user's choice, but one that started goes on.                            *)
FairSpec ==
  /\ Spec
  /\ \A m \in Msg : WF_vars(TaskStep(m))
  /\ \A r \in Run : WF_vars(rpc[r] # "idle" /\ RequestStep(r))
  /\ WF_vars(StopMark \/ StopFlag)

-----------------------------------------------------------------------------
(* Types of the Redis keys, rows, labels and history.                      *)
TypeOK ==
  /\ pending \in Int \cup {NoKey} /\ aborted \in BOOLEAN
  /\ done \subseteq Task /\ cancel \subseteq Task /\ rows \subseteq Task
  /\ retry_count \in [Task -> Nat]
  /\ rpc \in [Run -> RequestLabel] /\ unsent \in [Run -> SUBSET Task]
  /\ spc \in StopLabel /\ tpc \in [Msg -> TaskLabel]
  /\ faults \in 0..MaxFaults /\ stops \in 0..MaxStops
  /\ seeder \in Run \cup {NoRun} /\ credited \subseteq Task
  /\ finalized \in [Run -> Nat] /\ lost \subseteq Run

(* Whatever crashes, cancels, overlapping parse requests and stale tasks   *)
(* do, one seeding of the counter starts the document finalizers at most   *)
(* once: no two credits on it see the value 0.                             *)
FinalizedAtMostOnce == \A r \in Run : finalized[r] <= 1

(* As long as nothing but its own tasks touched the counter of the latest  *)
(* run, and none of them died between marking itself done and              *)
(* decrementing, the finalizers have been started if and only if every     *)
(* task of the run was credited: never early, never skipped, in spite of   *)
(* redelivered tasks crediting again.                                      *)
GateIsExact ==
  \A r \in {seeder} \ (lost \cup {NoRun}) :
     finalized[r] = IF TasksOf(r) \subseteq credited THEN 1 ELSE 0

(* Every delivered task is acknowledged in the end: no interleaving of     *)
(* crashes, retries and cancels leaves a message in the pending list.      *)
EveryTaskEnds == \A m \in Msg : tpc[m] = "queued" ~> tpc[m] = "over"

(* The ways a parse request that got its counter may end without the       *)
(* finalizers: the counter was disturbed, the request itself failed, its   *)
(* rows were deleted by a later request, or a task was canceled before it  *)
(* was collected.  In every other case they are started.                   *)
FinalizersRun ==
  \A r \in Run :
     seeder = r ~> \/ finalized[r] = 1 \/ r \in lost \/ rpc[r] = "failed"
                   \/ ~(TasksOf(r) \subseteq rows) \/ TasksOf(r) \cap cancel # {}

-----------------------------------------------------------------------------
(* The inductive invariant behind FinalizedAtMostOnce and GateIsExact.     *)

(* A run has written the counter: it did so last, or it was lost since.    *)
Seeded(r) == r = seeder \/ r \in lost

FinalizerLabel == {"finalize", "clear", "clear_fail"}

(* Nothing is lost before the first seeding; a request that has not        *)
(* reached its SET has not seeded, so each run seeds once; only seeded     *)
(* runs have tasks in the stream or finalizers counted.                    *)
SeedingInv ==
  /\ lost # {} => seeder \in Run
  /\ \A r \in Run :
       /\ rpc[r] \in {"idle", "insert", "seed", "set"} => ~Seeded(r) /\ unsent[r] = {}
       /\ rpc[r] = "set" => TasksOf(r) # {}
       /\ unsent[r] \subseteq TasksOf(r)
       /\ unsent[r] # {} => Seeded(r)
       /\ finalized[r] > 0 => Seeded(r)
  /\ \A m \in Msg : tpc[m] # "none" => Seeded(MsgRun(m))

(* The done key is what makes a decrement happen once per task: a task     *)
(* between its SET NX and its DECRBY has the key and no decrement.         *)
CreditInv ==
  /\ credited \subseteq done
  /\ \A t \in done : Seeded(RunOf[t])
  /\ \A m \in Msg : tpc[m] \in {"test", "decr"} =>
       /\ TaskOf[m] \in done \ credited
       /\ \A n \in Msg \ {m} : tpc[n] \in {"test", "decr"} => TaskOf[n] # TaskOf[m]

(* While the latest run is undisturbed its counter is the number of its    *)
(* tasks that have not decremented it, until that reaches 0.               *)
CountInv ==
  \A r \in {seeder} \ (lost \cup {NoRun}) :
     /\ ~(TasksOf(r) \subseteq credited) => pending = Cardinality(TasksOf(r) \ credited)
     /\ finalized[r] = IF TasksOf(r) \subseteq credited THEN 1 ELSE 0

(* A counter above 0 has not fired; finalizers of an undisturbed run only  *)
(* run once all its tasks are credited.                                    *)
FiringInv ==
  /\ pending # NoKey /\ pending > 0 => seeder \in Run /\ finalized[seeder] = 0
  /\ \A r \in Run : finalized[r] <= 1
  /\ \A m \in Msg : tpc[m] \in FinalizerLabel =>
       MsgRun(m) \in lost \/ TasksOf(MsgRun(m)) \subseteq credited

IInv == TypeOK /\ SeedingInv /\ CreditInv /\ CountInv /\ FiringInv

=============================================================================
