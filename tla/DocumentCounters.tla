-------------------------- MODULE DocumentCounters --------------------------
(***************************************************************************)
(* The document of DocumentLifecycle together with the counters of chunks  *)
(* that the database keeps of it (document.chunk_num) and of its dataset   *)
(* (knowledgebase.chunk_num), and with its removal.  Every action of the   *)
(* life cycle is conjoined with what its statement does to the counters;   *)
(* statements that concern only the counters are actions of their own.     *)
(*                                                                         *)
(* A page is one chunk.  The dataset's counter leaves out its other        *)
(* documents, which nobody touches.  Counters are changed by statements    *)
(* that add to what is there, and by statements that set a value.          *)
(* Progress threads, which write run and progress as the tasks' own        *)
(* synchronisations do, are left to DocumentLifecycle.                     *)
(***************************************************************************)
EXTENDS DocumentLifecycle

CONSTANT MaxEvents  \* bound on faults and stops together, until the document is
                    \* removed

ASSUME CountersAssumption ==
  /\ IsFiniteSet(Task) /\ MaxEvents \in Nat
  /\ \A t, u \in Task : RunOf[t] = RunOf[u] /\ PageOf[t] = PageOf[u] => t = u

VARIABLES
  chunk_num,  \* Document.chunk_num
  kb,         \* Knowledgebase.chunk_num, without the other documents
  cpc,        \* what each parse request does next about the counters
  took,       \* the chunk_num that clear_chunk_num_when_rerun has read
  paid,       \* whether an execution has passed its last checkpoint, and
              \* has counted its chunks
  mpc,        \* what the removal does next
  (* history *)
  tidy,       \* every parse request so far was a parse_documents of a document
              \* at rest that was not parsed yet or DONE, and nothing was stopped
  raced,      \* a parse request was made, or the document removed, while a parse
              \* request was served, or one died after it had cleared the
              \* dataset's counter and before the rows were deleted
  escaped     \* pages of executions that the removal does not reach, or whose
              \* cancel key expires, and of those that fail to clean up after
              \* it; pages whose chunks it failed to delete

counters == <<chunk_num, kb>>
ledger == <<cpc, took, paid, mpc>>
past == <<tidy, raced, escaped>>
countVars == <<counters, ledger, past>>
allVars == <<vars, countVars>>

Gone == mpc \in {"flags", "rows", "chunks", "over"}
Serving(r) == cpc[r] \in {"read", "clear", "update"}
              \/ rpc[r] \notin {"idle", "served", "failed"}
Alone(r) == NothingElseRuns /\ ~ \E q \in Run \ {r} : Serving(q)

CountersInit ==
  /\ Init
  /\ chunk_num = 0 /\ kb = 0
  /\ cpc = [r \in Run |-> "idle"] /\ took = [r \in Run |-> 0]
  /\ paid = [t \in Task |-> "no"] /\ mpc = "idle"
  /\ tidy = TRUE /\ raced = FALSE /\ escaped = {}

CGo(r, from, to) == cpc[r] = from /\ cpc' = [cpc EXCEPT ![r] = to]
Bounded == Gone \/ faults' + stops' <= MaxEvents
Overlap(r) == raced' = (raced \/ \E q \in Run \ {r} : Serving(q))

-----------------------------------------------------------------------------
(* A parse request of parse_documents, or a run request with delete, reads *)
(* the document before it marks it.                                        *)
ReadRun(r) ==
  /\ "parse" \in Kind /\ rpc[r] = "idle" /\ ~Gone
  /\ CGo(r, "idle", IF run = "DONE" THEN "read" ELSE "update")
  /\ tidy' = (tidy /\ Alone(r) /\ run \in {"UNSTART", "DONE"})
  /\ Overlap(r)
  /\ UNCHANGED <<vars, counters, took, paid, mpc, escaped>>

(* clear_chunk_num_when_rerun, for a document that is DONE: it reads the   *)
(* document again and subtracts from the dataset what it has read.         *)
ReadCount(r) ==
  /\ CGo(r, "read", "clear")
  /\ took' = [took EXCEPT ![r] = chunk_num]
  /\ UNCHANGED <<vars, counters, paid, mpc, past>>

(* Mutation of Clear: the document's counter is decremented too.           *)
ClearBoth(r) ==
  /\ CGo(r, "clear", "update")
  /\ kb' = kb - took[r] /\ chunk_num' = chunk_num - took[r]
  /\ UNCHANGED <<vars, took, paid, mpc, past>>

Clear(r) ==
  /\ CGo(r, "clear", "update")
  /\ kb' = kb - took[r]
  /\ UNCHANGED <<vars, chunk_num, took, paid, mpc, past>>

(* The update that marks the document: parse_documents sets chunk_num to 0 *)
(* only if the document was DONE, a run request with delete always, the    *)
(* chunk interface always and without clearing, a run request without      *)
(* delete never.                                                           *)
CMark(r) ==
  /\ Mark(r) /\ ~Gone
  /\ CASE rpc'[r] = "rows" ->
            /\ CGo(r, "update", "count")
            /\ \/ chunk_num' = 0
               \/ took[r] = 0 /\ chunk_num' = chunk_num
            /\ UNCHANGED <<tidy, raced>>
       [] rpc'[r] = "chunks_first" ->
            CGo(r, "idle", "count") /\ chunk_num' = 0 /\ tidy' = FALSE /\ Overlap(r)
       [] OTHER ->
            CGo(r, "idle", "count") /\ chunk_num' = chunk_num /\ tidy' = FALSE /\ Overlap(r)
  /\ UNCHANGED <<kb, took, paid, mpc, escaped>>

(* The request dies, or the database raises, before that update ...        *)
ClearLost(r) ==
  /\ cpc[r] \in {"read", "clear", "update"} /\ rpc[r] = "idle"
  /\ cpc' = [cpc EXCEPT ![r] = "lost"]
  /\ Fault
  /\ raced' = (raced \/ (cpc[r] = "update" /\ took[r] # 0))
  /\ took' = [took EXCEPT ![r] = 0]
  /\ UNCHANGED <<docVars, rowVars, cancel, stored, requestVars, spc, tpc, sync, stops, history,
                 counters, paid, mpc, tidy, escaped>>
  /\ Bounded

(* ... or later; the rows that it has not deleted may be taken over then.  *)
CRequestFails(r) ==
  /\ RequestFails(r) /\ Bounded
  /\ raced' = (raced \/ (rpc[r] = "rows" /\ took[r] # 0))
  /\ took' = [took EXCEPT ![r] = 0]
  /\ UNCHANGED <<counters, cpc, paid, mpc, tidy, escaped>>

(* queue_tasks sets chunk_num to the number of chunks it takes over.       *)
SetCount(r) ==
  /\ rpc[r] = "insert" /\ CGo(r, "count", "counted")
  /\ chunk_num' = IF Gone THEN chunk_num ELSE Cardinality(reuse[r])
  /\ UNCHANGED <<vars, kb, took, paid, mpc, past>>

CRequestStep(r) ==
  \/ /\ RequestStep(r)
     /\ rpc[r] = "insert" => cpc[r] = "counted"
     /\ took' = [took EXCEPT ![r] = 0]
     /\ UNCHANGED <<counters, cpc, paid, mpc, past>>
  \/ ReadCount(r) \/ Clear(r) \/ SetCount(r)

-----------------------------------------------------------------------------
(* A stop request sets chunk_num to 0, a cancel by a run request does not. *)
CStopStep ==
  /\ StopStep /\ Bounded
  /\ chunk_num' = IF spc = "mark" /\ spc' = "clean" /\ ~Gone THEN 0 ELSE chunk_num
  /\ UNCHANGED <<kb, ledger, past>>

CStopCheck ==
  /\ StopCheck /\ Bounded /\ ~Gone
  /\ tidy' = FALSE
  /\ UNCHANGED <<counters, ledger, raced, escaped>>

-----------------------------------------------------------------------------
(* Mutations of increment_chunk_num: only one of the two is updated.       *)
increment_document_only(t) ==
  /\ tpc[t] = "indexed" /\ paid[t] = "checked" /\ ~Gone
  /\ chunk_num' = chunk_num + 1
  /\ paid' = [paid EXCEPT ![t] = "yes"]
  /\ UNCHANGED <<vars, kb, cpc, took, mpc, past>>
increment_dataset_only(t) ==
  /\ tpc[t] = "indexed" /\ paid[t] = "checked" /\ ~Gone
  /\ kb' = kb + 1
  /\ paid' = [paid EXCEPT ![t] = "yes"]
  /\ UNCHANGED <<vars, chunk_num, cpc, took, mpc, past>>

(* An execution looks for its cancel key a last time and counts its        *)
(* chunks, on the document and the dataset in one transaction; that raises *)
(* if the document is gone.                                                *)
LastCheck(t) ==
  /\ tpc[t] = "indexed" /\ paid[t] = "no" /\ t \notin cancel
  /\ paid' = [paid EXCEPT ![t] = "checked"]
  /\ UNCHANGED <<vars, counters, cpc, took, mpc, past>>

increment_chunk_num(t) ==
  /\ tpc[t] = "indexed" /\ paid[t] = "checked" /\ ~Gone
  /\ chunk_num' = chunk_num + 1 /\ kb' = kb + 1
  /\ paid' = [paid EXCEPT ![t] = "yes"]
  /\ UNCHANGED <<vars, cpc, took, mpc, past>>

(* A step of the execution; it reports its end only after it has counted.  *)
(* A task whose document is gone is dropped when it is collected.          *)
CTaskStep(t) ==
  \/ /\ TaskStep(t) /\ Bounded
     /\ tpc[t] = "indexed" /\ tpc'[t] = "finally" => t \in cancel \/ paid[t] = "yes"
     /\ tpc[t] = "queued" => t \notin rows \/ ~Gone
     /\ paid' = IF tpc'[t] = "indexed" THEN paid ELSE [paid EXCEPT ![t] = "no"]
     /\ UNCHANGED <<counters, cpc, took, mpc, past>>
  \/ LastCheck(t) \/ increment_chunk_num(t)

(* An execution cannot delete its chunks, or dies and forgets what it has  *)
(* counted.                                                                *)
CFinallyFails(t) ==
  /\ FinallyFails(t) /\ Bounded
  /\ escaped' = IF mpc = "over" THEN escaped \cup {PageOf[t]} ELSE escaped
  /\ UNCHANGED <<counters, ledger, tidy, raced>>

CCrash(t) ==
  /\ Crash(t) /\ Bounded
  /\ paid' = [paid EXCEPT ![t] = "no"]
  /\ escaped' = IF mpc = "over" THEN escaped \cup {PageOf[t]} ELSE escaped
  /\ UNCHANGED <<counters, cpc, took, mpc, tidy, raced>>

(* A cancel key expires, which matters for an execution under way: a task  *)
(* that is queued is dropped.                                              *)
CExpire(t) ==
  /\ Expire(t)
  /\ escaped' = IF mpc \in {"rows", "chunks", "over"} /\ tpc[t] \in RunningLabel
                THEN escaped \cup {PageOf[t]} ELSE escaped
  /\ UNCHANGED <<counters, ledger, tidy, raced>>
  /\ Bounded

DropRemoved(t) ==
  /\ t \in rows /\ Gone
  /\ Go(t, "queued", "over")
  /\ UNCHANGED <<docVars, rowVars, cancel, stored, requestVars, spc, sync, bounds, history,
                 countVars>>

-----------------------------------------------------------------------------
(* Removal of the document.  FileService.delete_docs, which serves the     *)
(* REST interface and connectors, deletes the task rows first; the removal *)
(* of a dataset or file calls remove_document at once.  A removal counts   *)
(* as a stop request.                                                      *)
Remove(from, to) == mpc = from /\ mpc' = to

(* Executions without a cancel key.                                        *)
NotCanceled(keys) == {PageOf[t] : t \in {u \in Task : tpc[u] \in RunningLabel /\ u \notin keys}}

RemoveRows ==
  /\ Remove("idle", "doc") /\ stops < MaxStops /\ stops' = stops + 1
  /\ rows' = {} /\ chunk_ids' = {}
  /\ rest' = FALSE /\ stopped' = "no"
  /\ UNCHANGED <<docVars, tprog, retry_count, cancel, stored, requestVars, spc, tpc, sync,
                 faults, orphans, counters, cpc, took, paid, past>>
  /\ Bounded

(* delete_document_and_update_kb_counts, one transaction.                  *)
RemoveDoc ==
  /\ \/ Remove("doc", "flags") /\ UNCHANGED <<stops, rest, stopped>>
     \/ /\ Remove("idle", "flags") /\ stops < MaxStops /\ stops' = stops + 1
        /\ rest' = FALSE /\ stopped' = "no"
  /\ kb' = kb - chunk_num /\ chunk_num' = 0
  /\ raced' = (raced \/ \E r \in Run : Serving(r))
  /\ UNCHANGED <<docVars, rowVars, cancel, stored, requestVars, spc, tpc, sync, faults, orphans,
                 cpc, took, paid, tidy, escaped>>
  /\ Bounded

(* Mutation of RemoveFlags: the rows are deleted and nothing is canceled.  *)
RemoveFlagsNothing ==
  /\ Remove("flags", "rows")
  /\ escaped' = NotCanceled(cancel \cup rows)
  /\ UNCHANGED <<vars, counters, cpc, took, paid, tidy, raced>>

(* cancel_all_task_of, for the rows there are: an execution whose row is   *)
(* gone is not found, a key may fail to be set, and if it raises,          *)
(* remove_document logs that and goes on, as it does with all that follows.*)
RemoveFlags ==
  /\ Remove("flags", "rows")
  /\ SetCancelKeys
  /\ escaped' = NotCanceled(cancel')
  /\ UNCHANGED <<docVars, rowVars, stored, requestVars, spc, tpc, sync, stops, history,
                 counters, cpc, took, paid, tidy, raced>>
  /\ Bounded

(* The rows are deleted, or the database raises.                           *)
RemoveRowsLeft ==
  /\ Remove("rows", "chunks")
  /\ \/ rows' = {} /\ chunk_ids' = {} /\ UNCHANGED faults
     \/ Fault /\ UNCHANGED <<rows, chunk_ids>>
  /\ UNCHANGED <<docVars, tprog, retry_count, cancel, stored, requestVars, spc, tpc, sync,
                 stops, history, counters, cpc, took, paid, past>>
  /\ Bounded

(* The chunks are deleted, or the store raises.                            *)
RemoveChunks ==
  /\ Remove("chunks", "over")
  /\ \/ stored' = {} /\ orphans' = {} /\ UNCHANGED <<faults, escaped>>
     \/ Fault /\ escaped' = escaped \cup stored /\ UNCHANGED <<stored, orphans>>
  /\ UNCHANGED <<docVars, rowVars, cancel, requestVars, spc, tpc, sync, stops, rest, stopped,
                 counters, cpc, took, paid, tidy, raced>>
  /\ Bounded

RemoveStep == RemoveFlags \/ RemoveRowsLeft \/ RemoveChunks

-----------------------------------------------------------------------------
(* A stop that raises half way, and a removal that dies, take no further   *)
(* step.                                                                   *)
CountersNext ==
  \/ \E r \in Run : ReadRun(r) \/ CMark(r) \/ CRequestStep(r) \/ ClearLost(r) \/ CRequestFails(r)
  \/ CStopCheck \/ CStopStep
  \/ \E t \in Task : CTaskStep(t) \/ DropRemoved(t) \/ CFinallyFails(t) \/ CCrash(t)
                       \/ CExpire(t)
  \/ RemoveRows \/ RemoveDoc \/ RemoveStep

CountersSpec == CountersInit /\ [][CountersNext]_allVars

-----------------------------------------------------------------------------
CountersTypeOK ==
  /\ TypeOK
  /\ chunk_num \in Nat /\ kb \in Int
  /\ cpc \in [Run -> {"idle", "read", "clear", "update", "count", "counted", "lost"}]
  /\ took \in [Run -> Nat] /\ paid \in [Task -> {"no", "checked", "yes"}]
  /\ mpc \in {"idle", "doc", "flags", "rows", "chunks", "over"}
  /\ tidy \in BOOLEAN /\ raced \in BOOLEAN /\ escaped \subseteq Page

(* What a request has subtracted from the dataset and not yet from the     *)
(* document.                                                               *)
Pending ==
  LET S == {r \in Run : cpc[r] = "update"}
  IN IF S = {} THEN 0 ELSE took[CHOOSE r \in S : \A q \in S : took[q] <= took[r]]

(* The dataset's counter is that of its document as long as every parse    *)
(* request finds the document at rest, and not parsed or DONE: crashes,    *)
(* redelivered tasks that are counted twice and a removal do not matter.   *)
NoDrift == tidy /\ ~raced => kb + Pending = chunk_num

(* Whatever is stopped, fails or is parsed again, the dataset counts no    *)
(* chunk less than its document does, so that a dataset with parsed        *)
(* documents is not taken for empty, unless two requests overlap or one    *)
(* dies between clearing the counter and deleting the rows.                *)
DatasetNotBelow == ~raced => kb + Pending >= chunk_num

(* A document parsed at rest is DONE only when all its chunks are counted; *)
(* more are only after a fault, when a task was executed again.            *)
CountsChunks ==
  rest /\ run = "DONE" /\ ~Gone =>
    chunk_num = Cardinality(Page) \/ (faults > 0 /\ chunk_num > Cardinality(Page))

(* A removed document has no chunks in the store but those an execution    *)
(* has still to delete, those an error or a crash kept it from deleting,   *)
(* those the removal itself failed to delete, which it only logs, those of *)
(* an execution whose cancel key was not set or has expired, and those of  *)
(* executions that the removal does not reach: since delete_docs deletes   *)
(* the rows by which cancel_all_task_of finds the executions, these are    *)
(* then all that are under way.                                            *)
RemovedIsEmpty ==
  mpc = "over" => stored \subseteq escaped \cup {PageOf[t] : t \in ToClean}

-----------------------------------------------------------------------------
(* The inductive invariants.  What a request does about the counters and   *)
(* what it does otherwise go together, and so do the two of an execution.  *)
ControlInv ==
  /\ \A r \in Run :
       /\ rpc[r] # "idle" <=> cpc[r] \in {"count", "counted"}
       /\ took[r] # 0 => cpc[r] \in {"clear", "update"} \/ rpc[r] = "rows"
       /\ cpc[r] = "counted" => rpc[r] \notin Before \ {"insert"}
  /\ \A t \in Task :
       /\ paid[t] # "no" => tpc[t] = "indexed"
       /\ tpc[t] \in {"collected", "abandon"} \cup Busy => tprog[t] # Full

(* Without a race one request is served at a time, and none that finds the *)
(* document removed.                                                       *)
AloneInv ==
  ~raced =>
    /\ \A r, s \in Run : Serving(r) /\ Serving(s) => r = s
    /\ \A r \in Run : rpc[r] \in {"chunks", "drop", "insert"} => rows = {}
    /\ Gone => \A r \in Run : ~Serving(r)

(* The rows that are finished, or whose execution has counted its chunk.   *)
Counted == {t \in rows : tprog[t] = Full \/ paid[t] = "yes"}

(* The rows are about to be deleted, and are not counted any more.         *)
Cleared(r) == took[r] # 0 /\ (cpc[r] = "update" \/ rpc[r] = "rows")

(* The invariant behind DatasetNotBelow: the dataset counts every row that *)
(* the next request may take over.                                         *)
BelowInv ==
  ~raced =>
    /\ kb >= 0
    /\ \A r \in Run :
         /\ cpc[r] = "clear" => took[r] <= kb
         /\ rpc[r] \in {"purge", "drop", "insert"} => Cardinality(reuse[r]) <= kb
    /\ Gone \/ (\E r \in Run : Cleared(r)) \/ Cardinality(Counted) <= kb
    /\ kb + Pending >= chunk_num

(* The invariant behind NoDrift: no execution counts anything before the   *)
(* rows of a request are inserted.                                         *)
Early(r) == cpc[r] \in {"read", "clear", "update"} \/ rpc[r] \in Before

TidyInv ==
  tidy /\ ~raced =>
    /\ spc = "idle"
    /\ \A r \in Run :
         /\ Early(r) => \A t \in Task : tpc[t] \in {"none", "over"}
         /\ cpc[r] \in {"clear", "update"} => took[r] = chunk_num
         /\ rpc[r] \in Before => rpc[r] \in {"rows", "chunks", "prev", "insert"} /\ chunk_num = 0
         /\ rpc[r] = "prev" => rows = {}
         /\ rpc[r] = "insert" => reuse[r] = {}
    /\ kb + Pending = chunk_num

UnstartInv ==
  run = "UNSTART" =>
    /\ chunk_num = 0
    /\ (\A t \in Task : tpc[t] = "none") /\ \A r \in Run : rpc[r] = "idle"

(* The invariant behind CountsChunks: while a document is parsed at rest   *)
(* its counter is between the number of tasks that are counted for good    *)
(* and, before any fault, that of those that may have counted.             *)
Past(t) ==
  \/ tprog[t] = Full \/ paid[t] = "yes" \/ tpc[t] = "over"
  \/ tpc[t] \in RunningLabel \ ({"collected", "abandon"} \cup Busy)

Tally ==
  /\ \E r \in Run : rows = TasksOf(r)
  /\ \A r \in Run : rpc[r] \in {"begin", "send"} =>
       rows = TasksOf(r) /\ \A t \in unsent[r] : tpc[t] = "none" /\ tprog[t] = Queued
  /\ \A t \in Task : tpc[t] \notin {"none", "over"} => t \in rows
  /\ Cardinality(Counted) <= chunk_num
  /\ run = "DONE" \/ (\E x \in Syncer : sync[x].sees = "done") => Cardinality(Page) <= chunk_num
  /\ faults = 0 => /\ chunk_num <= Cardinality({t \in rows : Past(t)})
                   /\ \A t \in rows : tpc[t] = "queued" => tprog[t] = Queued

TallyInv ==
  rest /\ ~Gone =>
    /\ \A r \in Run : rpc[r] = "insert" /\ cpc[r] = "counted" => chunk_num = Cardinality(reuse[r])
    /\ Waiting \/ (Parsing /\ Tally)

(* The invariant behind RemovedIsEmpty: an execution that the removal has  *)
(* not canceled is one of those that it does not reach.                    *)
RemovedInv ==
  mpc \in {"rows", "chunks", "over"} =>
    \A t \in Task : tpc[t] \in RunningLabel => t \in cancel \/ PageOf[t] \in escaped

CountersInv ==
  /\ CountersTypeOK /\ FreshInv /\ (~Gone => RestInv)
  /\ ControlInv /\ AloneInv /\ BelowInv /\ TidyInv /\ UnstartInv /\ TallyInv
  /\ RemovedInv /\ RemovedIsEmpty
=============================================================================
