# RAGFlow: TLA+ models, model checks and proofs

RAGFlow turns documents into chunks that a chat or search can retrieve. Python processes share a database
(Peewee models), a Redis server and a document store (Elasticsearch, Infinity, ...). Nothing but single
statements is atomic: every operation that concerns two of them, or two rows, is a sequence of separate calls,
and API servers, task executors, progress threads and users interleave between any two. That is what these
modules are about. Paths below are relative to the repository; `src/` in `PROJECT.json` is its root.

1. [The system](#1-the-system) - components, their state, operations and hazards
2. [The modules](#2-the-modules) - what models what, and how
3. [The runs](#3-the-runs) - what is checked, in which bounds
4. [Fairness](#4-fairness)
5. [The proofs](#5-the-proofs)
6. [Disagreements between code and documentation](#6-disagreements-between-code-and-documentation)
7. [What is not modelled](#7-what-is-not-modelled)
8. [Plan](#8-plan)

To run: `tlc -config TaskStream.cfg MCTaskStream.tla`, `tlapm TaskStreamProofs.tla`.

## 1. The system

### Ingestion (the core)

A user asks the API server to parse a document. `queue_tasks` cuts it into page ranges, writes one `Task` row
each, seeds a counter in Redis and adds one message per task to a Redis stream. Executors
(`rag/svr/task_executor.py`) read the stream through a consumer group, chunk and embed their pages, insert the
chunks in the store, report progress to their row, and acknowledge the message. The one that finishes last
runs document-wide finalizers. A progress thread in each API server copies what the rows say to the document.
A user may stop the parse or ask for another one at any time.

| component | state | operations | what makes it correct |
|---|---|---|---|
| **task stream** `rag/utils/redis_conn.py`, `rag/svr/task_executor.py` | two streams (two priorities), the group's position and pending lists; per process `UNACKED_ITERATOR` and its executions | `queue_product`, `queue_consumer`, `get_unacked_iterator`, `RedisMsg.ack`, `collect`, restart of a process under its name | at-least-once delivery, one execution of a message at a time, nothing forgotten over crashes |
| **chunking counter** `api/db/services/task_service.py`, `rag/svr/task_executor_refactor/` | Redis keys `doc:chunking_pending`, `_aborted`, `_done`; `Task.retry_count` | seed, credit (SETNX, GET, DECRBY), abort, clear | finalizers start once per request and exactly when its last task is done |
| **document life cycle** `document_service.py`, `task_service.py`, `document_api.py`, `chunk_api.py`, `task_handler.py`, `chunk_service.py` | `Document.run/progress`, task rows, `<task>-cancel` keys, chunks in the store | three kinds of parse request, stop, task execution, `_sync_progress` | a stop sticks and leaves no chunks, DONE means that the chunks are there, a parse settles |
| **chunk counters** `document_service.py`, `file_service.py` | `chunk_num` of documents and datasets | increment, clear, reset by a stop, removal of a document | the dataset's counter is the sum over its documents, a document that is DONE counts its chunks, a removed one leaves none |
| **page split and reuse** `task_service.py`, `chunk_service.py` | task rows with digest and `chunk_ids` | cut the chosen ranges, take over finished tasks, delete what is left over | every page in one task, and the chunks of each task made with its own configuration |

These parts meet as follows. The parse request seeds the counter before it sends to the stream; the stream
redelivers what was not acknowledged, so a task may run again after it has credited, stored and reported
(`MessageDelivery` is the contract between them); the stop request aborts the counter, sets the cancel keys,
marks the document and deletes the chunks, in this order; every one of these statements may also change the
counters; an execution looks at its cancel key at checkpoints only, and cleans up in its `finally` clause.

### Services around it

| component | state | operations | what makes it correct |
|---|---|---|---|
| **distributed lock** `rag/utils/redis_conn.py`, `api/ragflow_server.py` | a Redis key with an expiry | `acquire`, `spin_acquire`, `release` (compare-and-delete) | exclusion until the key expires; it is passed on after a crash |
| **id generator** `rag/utils/redis_conn.py`, `memory_message_service.py` | a Redis counter, which lives an hour once a server has seeded it | `generate_auto_increment_id`, `init_message_id_sequence` | ids of messages are unique |
| **sandbox container pool** `agent/sandbox/executor_manager/` | a queue of containers per language, a lock, a semaphore | admit, allocate, execute, release, recreate | one user per container, none leaks, everybody is served |
| **connector synchronisation** `connector_service.py`, `rag/svr/sync_data_source.py` | connectors, `SyncLogs` rows | schedule, list due tasks, start, sync in batches, prune, finish, cancel, rebuild | a waiting task is dispatched, there is always a next one, a cancel holds, no document of a time window is missed |
| **executor registry** `rag/svr/task_executor.py` | Redis set `TASKEXE`, heartbeats | register, report, remove silent ones | a living executor is registered |
| **secret key** `rag/utils/redis_conn.py` | a Redis key | `get_or_create_secret_key` | all servers use one key |
| **agent canvas** `agent/canvas.py` | the path, outputs and errors of the components, the cancel flag, what the session saves | `Canvas.run`, in batches over a growing path; resumption after a form | a component runs after those it refers to, once per round, none is lost, an iteration gathers every element |

Not part of the models because they are sequential data processing, adapters of external services or request
plumbing: document parsing (`deepdoc`, `rag/app`, `rag/flow`), GraphRAG, RAPTOR and mind maps, model
providers, retrieval and chat, REST interface and accounts, data source clients, agent components,
administration, MCP server and channels.

### What is hard

`PROJECT.json` lists the hazards at their lines. In short:

* *Interleaving of statements.* Each of parse, stop, execute and synchronise is read-decide-write over several
  stores; the SETNX / GET / DECRBY of a credit are three round trips.
* *Redelivery.* A crash before the XACK, which is the last thing an execution does, runs the whole task again,
  up to three times; the fourth delivery abandons it.
* *Overlapping requests.* A second parse request deletes the rows of the first, not its executions.
* *Lost replies.* An XADD is repeated, an XREADGROUP leaves an entry in the pending list that nobody looks at
  until the process restarts.
* *Expiry.* The lock of the progress thread may expire inside the critical section. Whatever is written through
  `RedisDB.set` is gone after an hour, the cancel keys and the seeded id counter among it, and that method
  swallows errors.
* *Cleanup on every path.* The pool of RAGFlow's code sandbox has one lock, one semaphore and a pool, and
  docker commands that fail between any two of its awaits.
* *Long sequences of legal calls.* The dataset's counter after parses, stops and faults; rows taken over from
  one configuration to the next; the path of a session that still holds the components of earlier turns.
* *Windows.* A sync starts where the last one came to; a batch that fails, a crash, a trimmed log, a cancel or a
  change between two pages of the listing must not leave a gap.

## 2. The modules

Each component has a module (state, one action per statement or command, the properties and the inductive
invariant), a `...Proofs` module (`DocumentLifecycleProofs` has those of `DocumentCounters`, too, and
`RedisProofs` those of the lock and the id generator), and an `MC...` module with model values, the functions
the configurations need and symmetry sets. Operators keep the names of the code where they stand for a function of it. Operators
commented as mutations are variations of one action with a plausible bug; they are no part of the
specifications, and each is there to see that a property is able to fail.

History variables are listed under `history` in each module. No guard reads them.

### ChunkingCounter

| TLA+ | code |
|---|---|
| `pending`, `aborted`, `done` | the Redis keys, `task_service.py` |
| `cancel`, `rows`, `retry_count` | `<task>-cancel`; the `Task` table |
| `QueueDelete` ... `QueueAbortMark` | `queue_tasks`, one statement or command per action |
| `QueueProductRetry` | `queue_product` repeats an XADD whose reply was lost: `TaskOf` maps messages to tasks, several to one |
| `StopAbort`, `StopMark`, `StopFlag`, `Expire` | `cancel_all_task_of`; a cancel key that Redis fails to set, or that expires |
| `Collect`, `Accept` | `collect`, `get_task` (retry limit), `has_canceled` |
| `Chunking`, `Gate` | up to `run_document_post_chunking_if_last` and its first check |
| `CreditDone`, `CreditTest`, `CreditDecr` | `credit_doc_chunking_task`; `CreditDecr` recreates a deleted key at -1 as DECRBY does |
| `CreditFail` | a Redis error in it, with or without the command having taken effect |
| `Finalize`, `Clear`, `Check`, `Report`, `Finally` | the finalizers (opaque), their `finally`, the later checks, `handle_task`'s `finally` |
| `AbortDel`, `AbortMark` | `abort_doc_chunking_counter`, from each of its five callers: an exit passes through up to three of them |
| `Crash`, `RequestCrash` | a process dies between two actions |

There is one document, since all keys are per document.

### TaskStream, MessageDelivery

`TaskStream` has entry ids per stream, the group's last delivered id, the pending lists, and per process the
position of its next read (`pos`, `cursor`) and its executions (`held`). `ReadPending` and `PendingDone` are
the iterator over the pending list; `ReadNew` and `ReadNothing` the alternation of the streams with the high
one first after every message; `Ack`, `LeaveUnacked`, `ReplyLost` and `IteratorBreaks` the ends and failures;
`Crash` and `Restart` keep the consumer's name. `stranded` records the messages that a fault other than a
crash took from this incarnation of a process.

`MessageDelivery` is the abstract specification: a message is absent, waiting, running or done; one execution
takes it; several executions may return at once (a process dies). `DeliverySpec` is `MessageDelivery!Spec`
under the refinement mapping `Status`. The other ingestion modules build redelivery in directly (`Crash` takes
a message from running to queued) in the form that contract allows.

### DocumentLifecycle

`run`, `progress` and the rows with their progress, `chunk_ids` and `retry_count`; the cancel keys; the pages
whose chunks are stored. Chunk ids are hashes of document and text, so the chunks of a page are the same
whichever task stores them and `stored` is a set of pages. Progress is one of failed, 0, between, 1: what the
code compares it with.

| TLA+ | code |
|---|---|
| `Mark`, `DeleteRows`, `DeleteChunks` | the beginnings of the three kinds of parse request: `parse_documents`, the chunk interface (guarded by one conditional update), a run request without delete |
| `ReadPrev`, `Purge`, `DropLeftOver`, `InsertRows`, `Begin`, `Send` | `queue_tasks` with `reuse_prev_task_chunks` and `begin2parse`. Which tasks have equal digests is open: any subset of the reusable ones is taken over |
| `StopCheck`, `StopFlag`, `StopMark`, `StopRows`, `StopClean` | the stop requests; a cancel by a run request ends after `StopMark`, or deletes rows too |
| `SetCancelKeys`, `Expire` | `RedisDB.set`: a key that Redis fails to set goes unnoticed, and one that was set is gone after an hour. An execution that can still begin or go on then is not canceled, and its page is one of the `orphans` |
| `Collect`, `Abandon`, `Accept`, `Insert`, `UpdateChunkIds`, `Notice`, `Error`, `FailDoc`, `Report`, `Finally`, `Wipe`, `LateFail`, `StartSync`, `End` | an execution, through `TaskHandler.handle_task`, `insert_chunks`, `set_progress`/`update_progress` and the `finally` clause |
| `Pick`, `SyncRead`, `SyncCheck`, `SyncWrite` | `get_unfinished_docs` and `_sync_progress`, by progress threads and by executions |
| `RequestFails`, `StopFails`, `FinallyFails`, `Crash` | a process dies, or Redis or the store raise |

`UpdateChunkIds` of a task without a row changes nothing and raises nothing, so the rollback branch of
`chunk_service.py` that waits for `DoesNotExist` is never taken, and the model does not have it.

### DocumentCounters

Extends `DocumentLifecycle`: each action of the life cycle is conjoined with what its statement does to the
counters, and statements that concern only the counters or the removal are added; until the document is
removed, every behaviour is one of the life cycle.

| TLA+ | code |
|---|---|
| `chunk_num`, `kb` | `document.chunk_num`, `knowledgebase.chunk_num` without the dataset's other documents |
| `ReadRun`, `ReadCount`, `Clear`, `CMark` | the beginning of `parse_documents`: the document is read, read again by `clear_chunk_num_when_rerun`, subtracted from the dataset in one statement and reset in another |
| `SetCount` | `queue_tasks` sets `chunk_num` to the chunks of the tasks it took over |
| `CStopCheck`, `CStopStep` | the stop's update with `chunk_num` 0, which leaves the dataset's as it is |
| `ClearLost`, `CRequestFails` | a request dies between clearing the counter and marking the document, or later: `raced` if it leaves the rows whose chunks it has subtracted |
| `LastCheck`, `CTaskStep`, `DropRemoved` | the last checkpoint of an execution, its `increment_chunk_num`, and one whose document is gone |
| `CFinallyFails`, `CCrash` | an execution whose clean-up fails, or that dies, also of a removed document, whose chunks then stay |
| `RemoveRows` ... `RemoveChunks` | `delete_docs` of `file_service.py` and `remove_document`. When it sets the cancel flags, `escaped` takes the pages of the executions without one (`NotCanceled`). Each of the three calls of `remove_document` may fail, which it logs, and goes on: with keys missing, rows left, or all chunks left (`escaped` takes these, too) |

### PageSplit, TaskReuse

`PageSplit` is the pure part of `queue_tasks`: `PdfTasks` with its clamped bounds, `TableTasks`, and
`Exactly`, the reference definition (every page of a set is in one task). `TaskReuse` puts it into a history
of run requests on a document at rest, with a configuration that may change between any two statements.

| TLA+ | code |
|---|---|
| `Change`, `Read`, `ReadAndDelete` | the parser configuration is updated; a run request reads it, with or without delete |
| `Queue`, `Reuse`, `LeftOver` | `queue_tasks`, `reuse_prev_task_chunks`, and the deletion of the chunks of rows that are replaced |
| `Start`, `Insert`, `Finish`, `Fail`, `Crash` | an execution: its configuration is read again, chunks are stored batch by batch before `update_chunk_ids` |
| `Reset`, `Stop` | `reset_document_for_reparse`; a stop: both delete chunks and keep rows |

### ConnectorSync

One connector, its datasets, the `sync_logs` rows, the process that runs them and user requests.

| TLA+ | code |
|---|---|
| `ScheduleTrim`, `ScheduleExists`, `ScheduleConn`, `ScheduleInsert`, `ScheduleFails` | `SyncLogsService.schedule`: delete the 70 oldest of more than 100 rows, query for a waiting one, update the connector, insert; the `except` branch revives the latest row. Trimming (`Trimmable`) takes any rows of the dataset, of both types and whatever their status, in an order that has the immediate ones first (their `update_time` is 0) and the latest of a type after the rest of it |
| `Ask`, `CancelRows`, `CancelConn`, `DeleteConn`, `DeleteRows`, `DeleteDocs`, `PlanNext`, `Answer` | resume, cancel, reschedule, delete, rebuild, link and unlink requests; `kbs` and `plan` are what their loops have left |
| `SetPruneFreq` | a PATCH of `prune_freq`, of which only matters whether it is 0 |
| `ListSync`, `ListPrune`, `NextTask` | a round of `dispatch_tasks`: the due rows (`Eligible`, with the filter on `prune_freq`) are listed once, and run one after the other, since nothing inside a task suspends its coroutine |
| `Start`, `Generate`, `Fetch`, `Batch`, `Done`, `Fail` | `SyncBase.__call__`, `_run_sync_task_logic`: the listing is a lazy generator, whose pages are asked for while the source goes on changing. A poll mostly has an end (`until`), a load of everything has none |
| `Snapshot`, `SnapshotFails`, `PruneDocs` | `_run_prune_task_logic`: the list of what the source has, page by page, too; a prune that cannot get it is done |
| `RequestDies`, `Crash` | a process dies between two statements |

Rows are named by dataset, type and a slot; a finished row that is neither the latest of its pair nor in hand
can no longer be read by any statement and is forgotten (`Tidy`), so a few slots stand for any number of rows.
Times are versions of documents. `late` records the documents that change after a load without end has listed
them, and `skipped` takes them once a newer document is listed, since the next window begins there.

### CanvasRun

A session on a graph of components, from one message of the user to the next.

| TLA+ | code |
|---|---|
| `Turn`, `Reset` | the canvas is loaded from the session, the components of the saved path are reset, `begin` is appended unless the path starts with a user fill-up |
| `Prepare`, `Waits`, `Run`, `Fail` | `_run_batch`: components whose references are not on the path before them are dropped, the others run concurrently |
| `NextItem`, `Gathers`, `Made` | `IterationItem`, `LoopItem`: `_idx`, the gathering of the previous element |
| `Extend`, `Successors`, `Ended`, `Exits`, `Extended` | the path grows by the successors of the batch, by a switch's choice, an exception handler, the start of an iteration or what comes after one; the cases in the order of the code's `elif`s |
| `PostError`, `PostRaise`, `PostPause`, `PostFinish`, `PostContinue` | the ends of a batch |
| `Cancel`, `Expire` | the cancel flag of the session and its expiry after an hour |

A value is abstracted to what the properties tell apart: nothing, something of an earlier round, or the
element of an iteration that it was made for.

### RedisLock

The key and, per owner, whether it clears what it left, tries, is inside, or is in the `finally` clause of the
progress thread, whose release comes a second time and also if it never got the lock. `Expire` may remove the
key whenever it is there; `overran` records the owners it hits inside. Owners in `Spinner` use `spin_acquire`.

### IdGenerator

`Begin`, `Incr` (INCRBY) and `Reset` (SET), the commands in actions of their own, and `Fail`, for the one
namespace that is used, that of the messages of memories. `SeedCheck`, `SeedRead`, `SeedSet` and `SeedFails` are
`init_message_id_sequence`, which each API server runs when it starts: if there is no key, it is set to the
highest id in the message store, with an hour to live (`ttl`) as by every call of `RedisDB.set`. INCRBY does not
prolong that, so `KeyExpires` comes while the ids are in use. `Save` and `Delete` are the message store as
`embed_and_save` uses it. `settled` records the calls that began when the key was there and nobody was about to
set it; it loses them when the code gives them up: a call increments a missing key, a server seeds the key before
their messages are stored, or their message is deleted.

### SandboxPool

The queue (as a set: its order does not matter to the properties), which containers run, the lock and the
label of each request, one per stretch between two awaits. A container may die and a docker command fail at any
time. `Upload` is the copy of the code into the container, whose awaits have no timeout (`execution.py:233-239`),
`Execute` the rest of `execute_code`. `lost` records the containers dropped in the ways the code drops them: not created at start, not
created again, or not given back because `execute_code` failed before its `try`.

## 3. The runs

| run | configuration | checks |
|---|---|---|
| `counter_safety` | two requests (one task, two tasks), redelivery, a fault | `FinalizedAtMostOnce`, `GateIsExact` |
| `counter_live` | one request, two tasks, one of them in the stream twice, a stop, and a fault, which may be a missing or expired cancel key | `EveryTaskEnds`, `FinalizersRun` |
| `stream` | two processes, a high and two low messages, two crashes, a fault | `OneExecution`, `NothingForgotten`, `DeliverySpec`, `Acknowledged` |
| `lifecycle_reparse` | two requests of any kind, one page, a stop, a fault, which may be a missing or expired cancel key | `StoppedIsEmpty`, `DoneMeansStored`, `StopSticks` |
| `lifecycle_live` | one request, two pages, a progress thread, a fault | `Settles` |
| `counters` | two requests of any kind, one page, and one of a stop and a fault, a removal whose steps may fail | `CountersTypeOK`, `NoDrift`, `DatasetNotBelow`, `CountsChunks`, `RemovedIsEmpty` |
| `split` | three pages, two configurations (all pages; two overlapping ranges), three requests, two changes, two faults or stops | `RowsExact`, `DoneIsRight`, `NothingLeftOver`, `AllDoneMeansStored` |
| `connector` | one dataset, two documents that the source has, syncs and prunes, `prune_freq` positive at first, three slots, a user request, two events | `OneWaiting`, `KeepsSyncing`, `NothingMissed`, `CancelHolds`, `Dispatchable` |
| `canvas` | every graph of four plain components in two turns; five graphs with a switch, a handler, a form, an iteration or a loop in three; a fault | `TypeOK`, `NeverBlind`, `NobodyLost`, `EachOnce`, `AnswerFirst`, `ErrorsAreNew`, `IterationsComplete` |
| `lock` | three acquiring and two spinning owners, two crashes | `ExclusiveUntilExpiry`, `PassedOn`, no deadlock |
| `ids_safety` | four calls, two servers that start any number of times, two errors, expiry and deletions at any time | `UniqueOnceSettled` |
| `pool` | three requests, two containers, uploads that may hang | `OneUserPerContainer`, `NoContainerForgotten`, `BusyOnlyAfterLoss`, `EveryoneIsServed` |

What the properties say, in the words of the comments above them:

* `FinalizedAtMostOnce`: whatever crashes, cancels, overlapping requests and stale tasks do, one seeding of
  the counter starts the finalizers at most once.
* `GateIsExact`: as long as nothing but its own tasks touched the counter of the latest request, and none of
  them failed between marking itself done and decrementing, the finalizers were started if and only if every
  task is credited. The exceptions are in `lost`, which is where the code's atomicity hazard bites.
* `FinalizersRun`: they are started unless the counter was disturbed (`lost`), the request failed, its rows
  were deleted or a task was canceled.
* `EveryTaskEnds`, `Acknowledged`: no message stays in the pending list, except one stranded by a fault for
  the life of its process.
* `NothingForgotten`: an unacknowledged message of a living process is executed, still to be visited by the
  iterator, or stranded, and exactly one of these.
* `StopSticks`: no stale write takes a document out of CANCEL; a parse request does, and the failure of a task
  delivered too often.
* `StoppedIsEmpty`: after a stop that reaches every execution the store has no chunks but those an execution
  has still to delete, those a crash or error kept it from deleting, and those of an execution whose cancel key
  Redis failed to set or that was under way or still to begin when its key expired (`orphans`): a task that is
  queued for more than an hour after the stop is executed. It is only after a parse request that deletes rows of
  living executions, or is still to insert its own, that a stop does not reach everything.
* `DoneMeansStored`: a document parsed at rest is DONE only with all chunks stored, although redelivered tasks
  start their progress again.
* `Settles`: such a parse ends DONE or FAIL for good, with two exceptions named in the formula: the request
  fails (or something else is asked), and a synchronisation that read the rows while they were queued writes
  RUNNING over the outcome, after which `get_unfinished_docs` does not select the document.
* `NoDrift`: the dataset's counter is that of its document while every parse request finds the document at
  rest, whatever crashes and is executed twice. `DatasetNotBelow`: it is never lower, so that a dataset with
  chunks is not refused as empty (`chat_api.py:336`), unless requests overlap or one dies between clearing the
  counter and deleting the rows.
* `CountsChunks`: a DONE document counts all its chunks, and more than these only after a fault.
* `RemovedIsEmpty`: what a removal leaves in the store are the chunks of executions that it cannot reach, whose
  cancel key was not set or expired, or that failed to clean up, and those of a removal whose own delete failed:
  each is named.
* `RowsExact`: the rows of each chosen range hold each of its pages once. `DoneIsRight`: a finished row names
  the chunks of its pages made with the configuration of its digest. `NothingLeftOver`: the store has no chunk
  that no row names, except those of crashed executions. `AllDoneMeansStored`: and it has all that finished
  rows name.
* `OneWaiting`: at most one task of a type waits for a dataset. `KeepsSyncing`: a linked dataset has its next
  sync waiting, unless its chain was cut: by a cancel, a failure, a crash, or because the row of the waiting sync
  was trimmed. `Dispatchable`: a waiting task is among those that are listed once they are old enough, except a
  prune while `prune_freq` is 0. `CancelHolds`: a cancel that meets no task in hand holds.
* `NothingMissed`: a change that the dataset has not got lies in the window of the next sync, over crashes,
  cancels, new links, trimmed logs and changes between any two pages of a listing. The exceptions are in `skipped`
  (a batch that failed; a change behind a load without end; a revived row) and `wiped`.
* `NeverBlind`, `NobodyLost`, `EachOnce`, `AnswerFirst`: a component runs after those it refers to, is not
  forgotten when it is dropped, and runs once per round; what follows a form waits for the answer.
  `NeverBlind` and `EachOnce` are stated for the shapes of graphs for which the scheduler keeps them: no
  switches and handlers, edges to larger numbers, and either all ways to a component as long as one another
  (`Balanced`) with references to components nearer to `begin` (`Upward`), or the first turn and references in
  texts only (`Checked`); for `EachOnce`, components that share a successor have no other (`Tidy`). Section 6
  tells what happens for others. `NobodyLost` is stated for all graphs: when a round is finished, whoever should
  come after a component that ran has run, too, or no way led to it (`Apart`) from one that it refers to.
* `ErrorsAreNew`: a component that ran well counts as failed only if it failed before in the round, or its
  error was saved outside the path.
* `IterationsComplete`: an iteration ends and gathers what its body made of each element, in order. It is stated
  for graphs with one way through (`Chain`: no forms and handlers, only switches branch, bodies are closed and not
  nested), the second part for iterations whose body is a sequence of components that each refer to some before
  it (`InOrder`). Section 6 tells what happens for others.
* `ExclusiveUntilExpiry`: two owners are inside only after the key of one of them expired there.
* `UniqueOnceSettled`: no two messages have one id, if the calls for them began when the key was there and nobody
  was about to set it, until a call finds the key missing or a server seeds it without having seen them. What
  the code has to get right for this is that a server seeds above what is stored, and that late first callers,
  repeated and failed commands and other servers do not take the counter back below an id in use.
* `EveryoneIsServed`: every request is answered, unless its own upload hangs for ever or every container is
  occupied by an upload that does.
* `BusyOnlyAfterLoss`: nobody is told "Container pool is busy" before a container was lost, because the
  semaphore is as large as the pool.

### Bounds

The bounds are constants in the guards (`MaxFaults`, `MaxStops`, `MaxEvents`, `MaxCrashes`) and sizes of sets; there are no
state constraints. An expiry of a cancel key counts as a fault.

* *Counter*: two requests are what an overlap needs, and two tasks in the second make "last" meaningful. One
  fault is enough for each of crash, Redis error, lost reply to happen at every point; two tasks of one
  request and one of another cover a stale credit before, between and after the new ones. `RetryLimit` is 2 or
  1 in the runs instead of 3, so that an abandoned task is reached with one crash after deliveries.
* *Stream*: two crashes let a process come back twice or both crash; two messages of one priority make the
  order within a stream visible, and one of the other that between streams.
* *Life cycle*: `lifecycle_reparse` has one page, so that two requests, a stop, a fault and the
  synchronisations by executions fit (0.7 million states up to symmetry); `lifecycle_live` has two pages,
  which "all pages" needs.
* *Counters*: one page makes every count 0, 1 or more, which is what the properties tell apart; an event
  (`MaxEvents`) is a fault or a stop, and comes at every point of two overlapping requests; once the document
  is gone there may be one of each (1.6 million states). The expiry of a cancel key is in this run one of a
  removal's keys. Three requests in which the third meets what the second left need the theorems.
* *Split*: three pages and tasks of two give a full and a short task; of the two ranges of the second
  configuration one is cut into the same tasks as the first and one ends before the last page and overlaps it;
  three requests let a row be taken over twice.
* *Connector*: three slots are the waiting, the running and the last finished row of a pair; two events are a
  change and a fault, a fault and a user's request, or two faults (2.8 million states); a trimming, and a change of
  `prune_freq`, are events, too. The documents are there at first, so that one event is enough for a change behind
  a load. One request runs against the process; requests that overlap each other
  and longer histories of faults, which the exceptions `blocked` and `skipped` are about, are covered by the
  theorems, which concern all five properties. So are datasets shared with another connector (`Shared`).
* *Canvas*: four components besides `begin` give every way in which two branches of different length can meet,
  in both orders of the edges; two turns are needed for the path of an earlier one to matter, three for a turn
  after a resumed one; two elements make "the element before" differ from "the last one".
* *Ids*: four calls are a first caller, a second one beside it, and two that meet what these leave; two servers
  may seed at once, and again after each expiry.
* *Lock*: with two of each kind of owner every pair of kinds is met; the third shows that no third party
  matters.
* *Pool*: three requests for two containers make the semaphore wait; `lost` may grow to the whole pool.

The theorems of section 5 remove the bounds for the safety properties they name.

`CHECK_DEADLOCK FALSE` is given where the system may stop: all requests or calls are served, all messages
acknowledged and the bounds used up. The lock has no such state, and is checked for deadlock.

## 4. Fairness

* *Counter, life cycle*: weak fairness of every execution's next step (an executor keeps running, and one that
  dies is started again under its consumer name: an assumption about the deployment, whose container image
  starts it through `entrypoint.sh`), of a request or stop once it has started, and of the progress threads,
  which are endless loops. No fairness of what a user asks for, nor of faults.
* *Stream*: weak fairness of collecting, of restarting, and of the end of an execution. The last one means
  that the services an execution calls answer or fail; the three-hour timeout of `handle_task` exists only
  with `ENABLE_TIMEOUT_ASSERTION`.
* *Lock*: weak fairness of each owner's steps and of expiry. It does not promise that a particular spinner
  gets the lock, and `PassedOn` does not claim so.
* *Pool*: strong fairness of taking the lock and the semaphore, since `asyncio.Lock` and `asyncio.Semaphore`
  serve their waiters in turn, and of `TimeOut`, since the loop of an allocation compares the clock with its
  deadline in each iteration; weak fairness of the rest but `Upload` and `NoWorkdir` (`Prompt`), since the other docker commands have a timeout. None of
  `Upload`, which awaits `tar` and `docker exec` without one and may hang for ever.

`DocumentCounters`, `TaskReuse`, `ConnectorSync` and `CanvasRun` state no liveness and need no fairness; that
an iteration ends is a bound in `IterationsComplete`.

## 5. The proofs

All theorems hold for every value of the constants that satisfies the named assumption of its module
(`ConstantAssumption`, `StreamAssumption`, `LifecycleAssumption`, `CountersAssumption`, `LockAssumption`, `IdAssumption`,
`PoolAssumption`, `ConfigAssumption`, `ConnectorAssumption`, `NoRowAssumption`, `GraphAssumption`): types of
the functions, finiteness where something is counted, distinct tokens for distinct owners, at least one task per
request and page, and of a graph that items and exits of loops have a parent and that whatever has a body has an
item in it, as the editor of agents makes them. Each follows the same pattern: `Init => IInv`, a lemma per group of actions that `IInv` is kept, and
`IInv` implies the property. Every `IInv` was found with TLC on the instances of section 3; since it is
proved, the configurations list the properties only.

**ChunkingCounter** (`CounterInvariant`, `FinalizersStartOnce`, `FinalizersStartWhenAllCredited`,
`TypeCorrect`). `FinalizedAtMostOnce` alone is not inductive: a second decrement to 0 must be excluded.
`CountInv` says that the counter of an undisturbed request is the number of its tasks not credited;
`CreditInv` that a task between its SETNX and its DECRBY is the only such message of the task and is not yet
credited, so the number really decreases by one; `FiringInv` that a counter above 0 has not fired - this
covers the disturbed counters, which may be recreated at -1 and never rise to 1 again but by a seeding;
`SeedingInv` that each request seeds once.

**TaskStream** (`StreamInvariant`, `OneExecutionAtATime`, `NoMessageForgotten`, `StreamImplementsDelivery`).
`IdInv` (entry ids identify the messages of a stream and the group's position separates the delivered ones),
`PelInv` (a delivered message is in one pending list or acknowledged), `HeldInv`, `StrandedInv`. An execution
started by the iterator is at the cursor and one started by a new read beyond the group's position, so they
never coincide. The refinement proof maps each action to `Send`, `Take`, `Finish`, `Discard`, `Return` or a
stutter.

**DocumentLifecycle** (`LifecycleTypes`, `StopIsFinal`, `LifecycleInvariant`, `StopCleansUp`,
`ParseInvariant`, `DoneIsStored`). `StopIsFinal` needs no invariant but an inspection of every action that
writes `run`: all but the two named are conditional on CANCEL in one statement. `StopCleansUp` rests on
`ReachInv`: after a stop that reaches every execution, and until a parse request is made, whoever is executed or
can still be has a cancel key, or its page is one of the orphans (a key that was not set, or has expired since);
hence whoever else inserts afterwards is still to find its cancel key, and to delete. `DoneIsStored` rests on `RestInv`, which splits a parse of a document at rest in two phases.
In `Waiting`, until the rows are inserted, nothing is executed, and no synchronisation has seen all rows
finished or one failed: what it read before is stale, but harmless. In `Parsing`, afterwards, there is a row
for every page, no task is canceled, a row that is finished has its chunks stored, and so has whoever is about
to report that. Only `InsertRows` leads from the first to the second; `FreshInv` says that the rows it adds are
not known to anybody yet, and `Waiting` that the rows it takes over have their chunks.

**DocumentCounters** (`CountersInvariant`, `CountersTypes`, `CountersDoNotDrift`, `DatasetIsNotBelow`,
`DoneIsCounted`, `RemovedLeavesNothing`; in `DocumentLifecycleProofs`). Every step but `ClearLost` is one of
the life cycle as long as the document is not removed, or leaves its variables alone, so its invariants are
kept by its lemmas (`LifecycleKept`, `CountersRest`). `ControlInv` says which of its parts a request or an
execution may be in when it has touched the counters; `AloneInv` that without a race one request is served at
a time. Then each property has an invariant of its own. `BelowInv`: `kb >= chunk_num` alone is not inductive,
because `SetCount` sets the document's counter to the chunks of the rows taken over without looking at the
dataset's. It needs that the dataset still counts every finished row, whether or not the document does.
`TidyInv` says that before the rows of a tidy request are inserted nothing is executed and nothing is taken
over. `TallyInv` bounds the counter while a document is parsed at rest: from below by the rows that are
finished or paid, from above, before any fault, by those whose execution has come that far (`Past`); with one
row per page and all rows finished both are the number of pages. `RemovedInv`: an execution
without a cancel key is one of those that `escaped` records, whether the removal did not find it, failed to set
its key, or the key expired; it holds from the cancel on, whichever of the later steps fail. The lemmas `TaskSets`, `TaskCounted` and `TakeoverCounts`
do the counting over finite sets of tasks.

**RedisLock** (`LockInvariant`, `LockExcludes`; in `RedisProofs`). `OwnerInv`: an owner inside has the key or its key expired
there. The compare-and-delete and the distinct tokens keep it through every release.

**IdGenerator** (`GeneratorInvariant`, `IdsUniqueOnceSettled`; in `RedisProofs`). `SettledInv`: a counter that is
there is at least every settled id; what a server that seeds it has read is so too, and all settled messages are
stored then, so that a key which expires meanwhile costs nothing; and while a call is settled no first caller is
about to reset the counter.

**SandboxPool** (`PoolInvariant`, `OneUserAtATime`, `NoneForgotten`, `BusyAfterLoss`). `HolderInv` ties
container and lock to labels; `SemaphoreInv` bounds the admitted requests by the number of containers.
`EmptyMeansLoss` is a counting argument: if nothing was lost and the pool is empty, every container is in the
hands of an admitted request, so with the one that looks there would be more admitted requests than
containers.

**PageSplit, TaskReuse** (`EveryPageOnce`, `EveryRowOnce`, `ReuseInvariant`, `RowsStayExact`,
`FinishedRowsAreRight`, `StoreInvariant`, `NothingIsLeftOver`, `AllDoneIsStored`). That the tasks cover a range
is arithmetic: a page `p` is in the task that begins at `p - (p - s) % size`, and two tasks that begin at
different multiples do not meet. `RowShape` (the rows are those of the last cut) carries this to the rows;
`UsesDigest` says that, while no configuration was mixed up, a row is executed with the configuration of its
digest and names only chunks of its own pages, which a takeover keeps because it requires equal digests.
`StoreInv` is about what is stored. `Named`: a chunk of the store is named by a row that keeps the name, because
the row is not executed any more or is executed with the configuration of the chunk, or is an orphan of a
crash. `FirstPages` and `OneDigest` (the ids of a row are those of its first pages; all rows have the digest of
the last cut) tell what a takeover and the deletion of left-over chunks leave. `StoredOrOwed` is the converse:
what a row names is in the store, or some row has its page still to parse, unless a stop or a reset deleted
chunks under the rows.

**ConnectorSync** (`ConnectorInvariant`, `AtMostOneWaits`, `SyncInvariant`, `CancelStands`,
`WaitingIsDispatched`, `SyncsGoOn`, `NoChangeMissed`). `OneWaiting` is not inductive because the query and the
insert of `schedule` are separate: `InsertInv` adds that who is about to insert a row is alone with it and no
row of its pair waits, unless the pair was raced. `LatestInv` (the latest row of a pair exists and is one of
its rows) makes the error branch of `schedule` revive a row of the right pair; `TaskInv` that the process has a
task where it works on one. The steps that make a row wait or a call ready to insert are `ScheduleConn`,
`ScheduleInsert` and `ScheduleFails`; all others keep the argument by `AloneKept`.

The other four properties speak of states at rest, and their invariants of what is in hand in between.
`StepInv` says who may have a call of `schedule`, a task or a plan. `QuietInv`: nobody has a task in hand of a
dataset that a cancel has quietened. `DispatchInv`: if the connector is not SCHEDULE, no row waits, or the
process is in a task whose end will schedule another. `ChainInv`: a linked dataset has its next sync waiting,
in hand, or in somebody's plan. `NoChangeMissed` is the longest argument: `ClockInv` (nothing is newer than the
source's clock), `TodoInv` and `WindowInv`. A document of a page need not be what it was when it was
listed: `Current` says that it is, or has changed after the end of the window, or is one of those that `late`
records; and nobody has come further than the end of the window, if it has one. `WindowInv`: a change that the
dataset has not got is in the window of every row, call or task from which the next sync takes its start
(`Window`), and while its load runs it is `Ahead`: in the page at hand, still to be listed, beyond the end, or late
with nothing newer listed since. A late change that is overtaken leaves the invariant through `skipped`, at the
very batch that overtakes it. Trimming keeps all this because it takes the latest row of a pair only with all
others of the pair, so that `LatestEnd` falls back to 0, the beginning.

**CanvasRun** (`CanvasInvariant`, `CanvasTypes`, `OnlyNewErrors`, `FormsAreAnswered`). `TypeInv`: the path and
what is saved of it are sequences of components, and a turn has not walked more of the path than there is.
`ErrorInv`: an error is saved on the path, where the next turn resets it, or is poisoned; so during a turn every
error is one of the round or poisoned. `AnswerInv`: until the user has been asked, no batch has a form in it. A
turn that does not resume starts with `begin`; it goes on with a batch that has no form, or pauses; and `Prepare`
only leaves out. The path is built by `FoldLeft`, so all this takes induction over a batch. The induction
theorems of the library cannot be used, as their parameter is an operator; `Induction` states it for a set (the
numbers `k` such that the fold over the first `k` elements is in a set `V`), from the well-foundedness of `<`.
`FoldExists` and `FoldSteps` carry it to the function by which the community modules define a fold, and `FoldIn`
to `FoldLeft`: what the start has and every step keeps, the fold has.

`SightInvariant` and `NobodyIsBlind` are about distances. `Levels` is a recursive function; that it has a
solution, the lengths of the walks from `begin`, is proved by the same induction (`LevelsAreWays`), and then that
successors of a component at distance `k` are at `k + 1`, and everybody at `k + 1` is one (`LevelBelow`,
`LevelAbove`). In a balanced graph the batches of a round are exactly the sets `At(0)`, `At(1)`, ..., also over
pauses, and all that is nearer than the batch has been made (`RoundInv`): so `Prepare` drops nobody, and a
reference, which is nearer, is there. In the first turn of other graphs a batch is a part of some `At(k)`, since
components are dropped and appended again; `Prepare` keeps only those whose references have been walked, and what
has been walked is made (`FirstInv`). That the walked path does not yet have the references of earlier turns is
why this stops with the first turn.

`OnceInvariant` and `NobodyRunsTwice`: a batch has each of its components once, they are at distance `k`, and what
has run in the round is nearer or of the batch. `Tidy` is what carries this over `Extended`, which only compares
with the last component of the path: either the batch has one successor in common, or its components' successors
do not meet.

`LostInvariant` and `NobodyIsLost` hold for every graph, with loops, handlers and forms. `Owed(B)` says of the
components `B` that are to run: whoever should come after another that has run, and is not of `B`, has run or
waits for one from which no way has led to it. A batch passes its successors on to the next (`PendingHas`,
`OwedNext`). `Prepare` may drop one only if it refers to a component that has not been walked, and then no way
has led from there, because everybody who ran has been walked and is not dropped: `LostInv` adds that their
references have been walked, too, unless the turn resumes from a form and drops nobody. A component that runs
again changes where it sends the path, but it is in the batch then (`OwedStill`).

`IterationInvariant` and `IterationsAreComplete`: where there is one way through, a batch is one component, and
either everything before the batch's place in the graph has been walked or the batch is in a body whose iteration
has (`OneWay`). `Counted` charges each time an item comes onto the path to its `_idx`: the turn begins with `_idx`
0, outside of its body nobody brings the item up again, and within it the item comes up only after it went on to
the next element, since a component before it leads to a larger one. `Gathering` says what an iteration has while
its item is at element `n`: the results of the elements before `n`, and of the components of the body up to the
batch an output that was made for `n`, because `Prepare` drops none of them - what they refer to is earlier in the
body and has been walked. So `Gathers`, which reads the last component's output when the item comes up again, adds
the element that is due. Lists of the path are counted by `Times`, whose lemmas are about finite sets. The
theorem uses `IInv`, and of `LostInv` that whoever has run is a component.

### What failing proofs showed

TLC checked each invariant before it was proved, in bounds; these are outcomes that no run had reached.

* `NothingMissed` has two more exceptions than the run's two events can reach (`wiped` and a revived row in
  `skipped`, section 6). With four events and no prune TLC finds both.
* `DatasetNotBelow` is broken by three requests and a fault: one subtracts the chunks and dies before it
  deletes the rows, a run request takes the rows over, and so counts their chunks in the document only. The run
  has two requests; `raced` now covers a request that dies there.
* An execution that dies, or fails to clean up, after the document was removed leaves its chunks as well
  (`CCrash`, `CFinallyFails`), and every execution without a cancel flag may, not those alone that have
  accepted their task (`NotCanceled`).
* The position of a session may be beyond the end of its path (`TypeOK` of `CanvasRun`): a pause saves the pending
  components as the path, which may be shorter than what was walked. Only during a turn is it within.
* `NeverBlind` held in the run for graphs of its shape only. A component that refers to one that is not nearer
  to `begin`, an error handler or default, a reference outside of texts (which `_run_batch` does not look at) and
  an edge back each make a component run without what it refers to: the hypotheses `Upward`, `Checked`,
  `Straight` and `~Branching` now say so.
* `EachOnce` did not say that a component may be listed twice as a successor, which runs it twice if another
  comes in between (`IsInjective` in `Tidy`); and it excluded rounds with failures, which it need not.
* `NobodyLost` excused a dropped component if one it refers to did not run. With a reference to a component that
  is not upstream, which runs later, or a switch that chooses otherwise in another round of a loop, a component is
  dropped and its reference runs, but nothing appends it again: the exception is now that no way led from the
  reference back to it.
* `IterationsComplete` asked the run's one body of all graphs. It is false for nested bodies, for an edge from a
  body to its outside or back to before the iteration, for handlers within a body, after a form (the item gathers
  the same element once more) and for a body with nothing but the item; `Chain` and `InOrder` say so. It also
  excused rounds after a resumed form, which it need not where there are none.
* `Successors` let an exit of a loop leave before the cases that the code tries first, and had an item without
  successors lead nowhere; `Ended` and `Exits` follow the order of `canvas.py:748-761`.
* One row per page (`EachPageOnce`) is not an invariant of parsing, only of its start: section 6.

### What is only model-checked

Every safety property of a run, and the refinement of `MessageDelivery`, is a theorem. Left to TLC are the
liveness properties (`EveryTaskEnds`, `FinalizersRun`, `Acknowledged`, `Settles`, `PassedOn`,
`EveryoneIsServed`): liveness under fairness and ENABLED are out of the prover's reach. Operators declared
RECURSIVE would be, too; the models have none.

## 6. Disagreements between code and documentation

Where the code does something else than a document or comment says, or than one would expect, the properties
name the exception in their formula or in a history variable.

Ingestion:

* "Only the last chunking task for a doc runs post-processing" (`chunk_post_processor.py:1022`) fails when a
  document is parsed again while tasks of the earlier request execute: they decrement the new counter (`lost`
  in `GateIsExact`).
* Chunks are reused only if "the previous task has valid chunk IDs" (`task_service.py:564-567`): a stop and
  `reset_document_for_reparse` delete the chunks and keep the rows with their ids, so a later run request
  without delete takes over tasks whose chunks are gone (`wiped` in `AllDoneMeansStored`).
* The configuration that an executor reads may be newer than the one in the digest (`stale` in `DoneIsRight`).
* A range `[first, last]` chosen by the user excludes the page `last` (`Chosen`). A PDF with no readable page
  makes `bulk_insert_into_db` raise (`db_utils.py:39`) after the rows are deleted, and leaves the document
  RUNNING.
* `delete_docs` (`file_service.py:694`) deletes the task rows before `cancel_all_task_of`
  (`document_service.py:467`) looks for them, so no execution is canceled and chunks of a removed document
  stay (`escaped` in `RemovedIsEmpty`). Deleting a dataset or a file does it the other way round.
* "Cancel all running tasks first" (`document_service.py:467`), and deleting the chunks "is critical, log errors"
  (495): `remove_document` catches what either raises, and completes with executions not canceled or all chunks
  left (`escaped`). Nothing comes back for them.
* A stop sets its cancel keys through `RedisDB.set`, with an hour to live and errors swallowed
  (`task_service.py:601`, `redis_conn.py:210-217`); the `try` around the call never sees one. A task that is queued
  for longer, or whose key was not set, is executed and stores chunks of a stopped document (`orphans` in
  `StoppedIsEmpty`).
* Two parse requests made at once insert their rows side by side, both naming the same chunks by their hashes.
  A run request then takes over one of the two rows of a page, and deletes the chunks of the other as left over
  (`task_service.py:522-530` and `569`), which are the same ones (`EachPageOnce` in `Waiting`, `rest` in
  `DoneMeansStored`).
* A parse request that dies between clearing and marking subtracts the chunks twice in the end, and one that
  dies before it deletes the rows (`document_api.py:1576-1584`) leaves them to a run request, which counts their
  chunks in the document only (`raced`); a stop, a run request of a failed document and the chunk interface leave the dataset's counter too high
  (`tidy` in `NoDrift`).

Services:

* "Use pipeline for atomicity" (`redis_conn.py:318`): INCRBY and the reset of the first caller are separate
  commands; concurrent first calls may get one id (`settled` in `UniqueOnceSettled`).
* The key of the message ids is seeded through `RedisDB.set`, so it expires an hour after the server started
  (`memory_message_service.py:302-305`, `redis_conn.py:210`). The next call takes itself for the first one and the
  ids start at 2 again, although messages with these ids are in the store; the key it makes does not expire. A
  server that starts while messages are being embedded (`get_max_message_id` does not see them) and the key is gone
  seeds below their ids. `IncrBy` and `SeedRead` end the promise of `UniqueOnceSettled` there. A call that fails
  returns -1, which its caller stores as an id (`NoId`).
* `execute_code` copies the code into the container by a `docker exec` without a timeout (`execution.py:233-239`),
  unlike all its other commands: if that hangs, its container and its place in the semaphore are lost without an
  answer, and with as many of them as containers nobody is served (`AllUploading` in `EveryoneIsServed`).
* "All available runners are currently in use" (`agent/sandbox/README.md:357`): the message appears only once
  containers were lost, and also when nobody uses one (`lost` in `BusyOnlyAfterLoss`).
* Connector: a cancel while a task is in hand is overwritten by its end (`quiet` in `CancelHolds`); a failed
  sync and a crash end the chain of syncs (`halted` in `KeepsSyncing`), and leave the connector in a status in
  which waiting tasks are not listed (`blocked` in `Dispatchable`); trimming deletes the
  rows that are to run immediately first, because their `update_time` is 0, and may delete other waiting rows, so
  that the dataset is not synchronised any more (`halted`), and the latest finished row, after which a sync starts
  from the beginning; a prune is inserted whatever `prune_freq` is (`connector_service.py:118-128`), and waits for
  as long as it is 0, which is the default of the table (`db_models.py:1253`), though not that of
  `create_connector` (`Dispatchable`); a document that changes after a load without end has listed it, and before
  another that is listed later, is not brought by the next sync either, because that starts at the newest
  time read (`sync_data_source.py:230-231`; `load_from_state`, and those `poll_source` that ignore their end); a failed batch is not synchronised again, nor are
  documents behind a later batch of a task whose row an error of `schedule` had revived and a batch moved on
  (`skipped` in `NothingMissed`); a rebuild deletes the rows and documents while a task of the dataset is in
  hand or has moved a row on, whose window no longer begins at the start (`wiped`).

Agent canvas:

* The path of earlier turns stays in the session, so in a later turn a component may run before the one it
  refers to (`NeverBlind` for unbalanced graphs holds in the first turn only). With edges A-B, A-C, B-C, C
  runs beside B without its output (`Beside`).
* A component whose turn failed is cut off the path and is never reset: its `_ERROR` is saved and found again
  in every later turn, against the comment at `canvas.py:480-486` (`poisoned` in `ErrorsAreNew`).
* The round after a resumed form starts with the whole old path as one batch (`midway`).
* A component that is dropped waits for one of its predecessors to run again, not for what it refers to: if that is
  not upstream of it, the component is lost without an error (`Apart` in `NobodyLost`).
* Components that meet again after branches with other successors run twice (`Tidy` in `EachOnce`).
* An iteration whose body has branches of different length starts over for ever (the run has none); a form
  inside an iteration keeps it from ending, since `_idx` is not saved (`Chain`).
* An iteration whose body is its item alone ends with the first element: the item is followed by itself, and the
  path does not take up a component that is its last already (`canvas.py:737`). After a form, a later turn may
  gather the elements of an earlier one again (`InOrder`, `Chain`).
* Any exception in a run sets the cancel flag of the session, which lasts an hour.

## 7. What is not modelled

Parts of the modelled components that are left out:

* Counter: the seven-day expiry of the counter's keys.
* Stream: the limit on concurrent executions (`task_limiter`), `requeue_msg` and `get_pending_msg` (no
  caller), the removal of a silent executor's consumer.
* Life cycle: dataflow, GraphRAG, RAPTOR and mind map tasks and their freeze of the progress; pages without
  chunks; the branch for macOS and the dry-run variants of the executor.
* Chunk counters: `token_num` and `process_duration`, which follow `chunk_num`; adding and removing single
  chunks; `reset_document_for_reparse`'s counters; several documents of a dataset; progress threads (in
  `DocumentLifecycle`).
* Page split and reuse: how requests and executions of several requests interleave (in `DocumentLifecycle`);
  the hash behind a digest.
* Connector: other connectors than as `Shared`; what a document contains; changes of `config`, `refresh_freq` and
  `timeout_secs`; `from_beginning` (`Fetch` may list unchanged documents anyway); more than one statement in a
  trimming, whose query and deletion are taken as one step; the timeout of a task, which cannot
  fire since nothing in it suspends (Python 3.13).
* Canvas: two requests of one session at once; streamed messages; forms without required fields; webhooks;
  text to speech; values of variables.
* Lock: nothing of the class; what its users do inside. `LockAssumption` says that no two owners have one token.
  This holds for uuids and consumer names. GraphRAG's token is `batch_merge:{task_id}`
  (`rag/graphrag/general/index.py:471`): if its task is in the stream twice, because an XADD was repeated, two
  owners have one token, and the clearing before `acquire` takes the lock from the first. Neither the run nor the
  theorems say anything about that case.
* Ids: the branch of `ensure_minimum`, which no caller takes; the refresh interval of the message store, during which
  stored messages are not seen yet; the messages of failed calls, all with id -1.
* Pool: the order of the queue, `teardown_containers`, the other language (it shares the lock only), static
  analysis and what runs inside.

Not modelled at all, with the reasons in `PROJECT.json`: the executor registry (a display that no task depends
on; two of its hazards are a removed executor that lives and never comes back, and one that is removed between
its SADD and its first heartbeat), the secret key, and everything that is sequential data processing or an
adapter of an external service: document parsing, GraphRAG and RAPTOR, model providers, retrieval, the REST
interface, data source clients, agent components, administration, MCP server and channels. These are by far
most of the repository's lines (`src/example` repeats much of them); they have no shared state whose
interleavings a model could explore.

## 8. Plan

Done: the core of ingestion (`TaskStream` with `MessageDelivery`, `ChunkingCounter`, `DocumentLifecycle`,
`DocumentCounters`, `PageSplit`, `TaskReuse`), `ConnectorSync`, `CanvasRun`, `RedisLock`, `IdGenerator`,
`SandboxPool`.

Possible next steps:

1. A composition of `DocumentLifecycle` with `ChunkingCounter`, whose requests and executions are the same:
   that the finalizers run before the document is DONE.
2. **ExecutorRegistry**, **SecretKey**: small protocols over Redis.
