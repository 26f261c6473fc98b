------------------------------ MODULE TaskReuse ------------------------------
(***************************************************************************)
(* The tasks of one PDF over several run requests with different parser    *)
(* configurations: queue_tasks cuts the document, takes over the chunks of *)
(* finished tasks whose digest still fits, deletes those of the others and *)
(* replaces the rows.  Requests find the document at rest: how requests    *)
(* and executions of several requests interleave is DocumentLifecycle.     *)
(*                                                                         *)
(* Each page makes one chunk.  Its id is a hash of the content, so that a  *)
(* page that is parsed twice in the same way has one chunk.                *)
(***************************************************************************)
EXTENDS PageSplit, FiniteSets

CONSTANTS
  Config,      \* values of document.parser_config
  RangesOf,    \* Config -> sequence of [first, last]: its page ranges
  SizeOf,      \* Config -> its task_page_size
  Pages,       \* number of pages of the document
  MaxRuns,     \* bound on run requests
  MaxChanges,  \* bound on changes of the configuration
  MaxFaults    \* bound on crashes, errors of tasks and stops

ASSUME ConfigAssumption ==
  /\ SizeOf \in [Config -> Nat \ {0}] /\ Pages \in Nat
  /\ \A c \in Config : /\ DOMAIN RangesOf[c] \subseteq Nat
                       /\ \A i \in DOMAIN RangesOf[c] :
                            RangesOf[c][i].first \in Int /\ RangesOf[c][i].last \in Int

VARIABLES
  config,   \* document.parser_config
  request,  \* the configuration a run request has read; then it reads another
  rows,     \* the task rows: a function whose domain is a set of [range, from]
  store,    \* the chunks of the document in the store
  (* history *)
  cutBy,    \* the configuration by which the rows were cut
  stale,    \* a task was cut or executed with another configuration than its
            \* digest has, and its row, or one that took it over, is still there
  wiped,    \* the chunks were deleted and the rows were not
  orphans,  \* chunks of executions that crashed
  runs, changes, faults

docVars == <<config, request>>
history == <<cutBy, stale, wiped, orphans>>
bounds == <<runs, changes, faults>>
vars == <<docVars, rows, store, history, bounds>>

Chunk(page, c) == [page |-> page, config |-> c]

(* The keys of the rows that a configuration makes.                        *)
TasksOf(c, i) == PdfTasks(RangesOf[c][i].first, RangesOf[c][i].last, Pages, SizeOf[c])
KeysOf(c) ==
  UNION {{[range |-> i, from |-> t.from_page] : t \in TasksOf(c, i)} : i \in DOMAIN RangesOf[c]}
ToPageOf(c, k) ==
  (CHOOSE t \in TasksOf(c, k.range) : t.from_page = k.from).to_page

Init ==
  /\ config \in Config /\ request = {}
  /\ rows = [k \in {} |-> 0] /\ store = {}
  /\ cutBy = config /\ stale = FALSE /\ wiped = FALSE /\ orphans = {}
  /\ runs = 0 /\ changes = 0 /\ faults = 0

-----------------------------------------------------------------------------
(* update_document changes the configuration at any time.                  *)
Change(c) ==
  /\ c # config /\ changes < MaxChanges
  /\ config' = c /\ changes' = changes + 1
  /\ UNCHANGED <<request, rows, store, history, runs, faults>>

(* A run request reads the document; with delete it deletes the rows and   *)
(* the chunks first.                                                       *)
Read ==
  /\ request = {} /\ runs < MaxRuns
  /\ \A k \in DOMAIN rows : rows[k].state # "running"
  /\ request' = {config} /\ runs' = runs + 1
  /\ UNCHANGED <<config, rows, store, history, changes, faults>>

ReadAndDelete ==
  /\ request = {} /\ runs < MaxRuns
  /\ \A k \in DOMAIN rows : rows[k].state # "running"
  /\ request' = {config} /\ runs' = runs + 1
  /\ rows' = [k \in {} |-> 0] /\ store' = {}
  /\ stale' = FALSE /\ wiped' = FALSE /\ orphans' = {}
  /\ UNCHANGED <<config, cutBy, changes, faults>>

(* A new row, whose digest has the configuration that is read now.         *)
NewRow(c, k) ==
  [to |-> ToPageOf(c, k), digest |-> config, state |-> "queued", chunk_ids |-> {},
   uses |-> config]

(* reuse_prev_task_chunks looks at the first row that fits, in the order   *)
(* of get_tasks (start page, then latest first), and empties its chunk_ids.*)
Same(old, new, p, k) ==
  p.from = k.from /\ old[p].to = new[k].to /\ old[p].digest = new[k].digest

Fits(old, new, p, k) ==
  /\ Same(old, new, p, k) /\ ~ \E o \in DOMAIN old : Same(old, new, o, k) /\ o.range > p.range
  /\ ~ \E l \in DOMAIN new : Same(old, new, p, l) /\ l.range < k.range

(* Mutation of Reuse: a task that failed half way is taken over, too.      *)
ReuseUnfinished(old, new) ==
  {pk \in (DOMAIN old) \X (DOMAIN new) :
     old[pk[1]].chunk_ids # {} /\ Fits(old, new, pk[1], pk[2])}

(* The pairs of a previous and a new task that takes its chunks over.      *)
Reuse(old, new) ==
  {pk \in (DOMAIN old) \X (DOMAIN new) :
     /\ old[pk[1]].state = "done" /\ old[pk[1]].chunk_ids # {}
     /\ Fits(old, new, pk[1], pk[2])}

(* Mutations of LeftOver: nothing is deleted; everything is.               *)
LeftOverNone(old, taken) == {}
LeftOverAll(old, taken) == UNION {old[p].chunk_ids : p \in DOMAIN old}

(* The chunks of previous tasks that nobody took over.                     *)
LeftOver(old, taken) ==
  UNION {old[p].chunk_ids : p \in {q \in DOMAIN old : ~ \E pk \in taken : pk[1] = q}}

(* queue_tasks, from the cut to the insertion of the rows; if there is no  *)
(* task it raises when it inserts them.                                    *)
Queue(c) ==
  /\ request = {c} /\ request' = {}
  /\ LET new == [k \in KeysOf(c) |-> NewRow(c, k)]
         taken == Reuse(rows, new)
         From(k) == {p \in DOMAIN rows : <<p, k>> \in taken}
     IN /\ rows' = [k \in KeysOf(c) |->
                      IF From(k) = {} THEN new[k]
                      ELSE LET p == CHOOSE p \in From(k) : TRUE
                           IN [new[k] EXCEPT !.state = "done", !.chunk_ids = rows[p].chunk_ids,
                                             !.uses = rows[p].uses]]
        /\ store' = store \ LeftOver(rows, taken)
        /\ stale' = (c # config \/ (stale /\ taken # {})) /\ wiped' = (wiped /\ taken # {})
  /\ cutBy' = c
  /\ UNCHANGED <<config, orphans, bounds>>

-----------------------------------------------------------------------------
Set(k, state) == rows' = [rows EXCEPT ![k].state = state]
InState(k, state) == rows[k].state = state

(* An executor collects the task and reads the configuration of the        *)
(* document, which may have changed since the digest was made.             *)
Start(k) ==
  /\ request = {} /\ InState(k, "queued")
  /\ rows' = [rows EXCEPT ![k].state = "running", ![k].uses = config]
  /\ stale' = (stale \/ config # rows[k].digest)
  /\ UNCHANGED <<docVars, store, cutBy, wiped, orphans, bounds>>

(* insert_chunks stores a batch, and then all ids so far in the row.       *)
Done(k) == {p \in k.from .. rows[k].to - 1 : Chunk(p, rows[k].uses) \in rows[k].chunk_ids}

Insert(k, n) ==
  /\ InState(k, "running")
  /\ n \in k.from .. rows[k].to - 1 /\ Chunk(n, rows[k].uses) \notin rows[k].chunk_ids
  /\ \A p \in k.from .. n - 1 : p \in Done(k)
  /\ store' = store \cup {Chunk(n, rows[k].uses)}
  /\ rows' = [rows EXCEPT ![k].chunk_ids = {Chunk(p, rows[k].uses) : p \in k.from .. n}]
  /\ UNCHANGED <<docVars, history, bounds>>

Finish(k) ==
  /\ InState(k, "running") /\ Done(k) = k.from .. rows[k].to - 1
  /\ Set(k, "done")
  /\ UNCHANGED <<docVars, store, history, bounds>>

(* The execution fails, with the chunks it has stored.                     *)
Fail(k) ==
  /\ InState(k, "running") /\ faults < MaxFaults
  /\ Set(k, "failed") /\ faults' = faults + 1
  /\ UNCHANGED <<docVars, store, history, runs, changes>>

(* The executor crashes, perhaps between a batch and the row, and the task *)
(* is delivered again.                                                     *)
Crash(k) ==
  /\ InState(k, "running") /\ faults < MaxFaults
  /\ rows' = [rows EXCEPT ![k].state = "queued"] /\ faults' = faults + 1
  /\ \E n \in SUBSET (k.from .. rows[k].to - 1) :
       /\ Cardinality(n) <= 1
       /\ store' = store \cup {Chunk(p, rows[k].uses) : p \in n}
       /\ orphans' = orphans \cup rows[k].chunk_ids \cup {Chunk(p, rows[k].uses) : p \in n}
  /\ UNCHANGED <<docVars, cutBy, stale, wiped, runs, changes>>

(* reset_document_for_reparse: the chunk method, which is in the digest    *)
(* like the configuration, is changed and the chunks are deleted.  The     *)
(* rows stay.                                                              *)
Reset(c) ==
  /\ request = {} /\ \A k \in DOMAIN rows : rows[k].state # "running"
  /\ c # config /\ changes < MaxChanges
  /\ config' = c /\ changes' = changes + 1
  /\ store' = {} /\ wiped' = TRUE /\ orphans' = {}
  /\ UNCHANGED <<request, rows, cutBy, stale, runs, faults>>

(* A stop ends the executions and deletes all chunks.  The rows stay.      *)
Stop ==
  /\ request = {} /\ faults < MaxFaults /\ faults' = faults + 1
  /\ \E k \in DOMAIN rows : rows[k].state \in {"queued", "running"}
  /\ rows' = [k \in DOMAIN rows |->
                IF rows[k].state \in {"queued", "running"} THEN [rows[k] EXCEPT !.state = "failed"]
                ELSE rows[k]]
  /\ store' = {} /\ wiped' = TRUE /\ orphans' = {}
  /\ UNCHANGED <<docVars, cutBy, stale, runs, changes>>

Next ==
  \/ \E c \in Config : Change(c) \/ Reset(c) \/ Queue(c)
  \/ Read \/ ReadAndDelete \/ Stop
  \/ \E k \in DOMAIN rows : \/ Start(k) \/ Finish(k) \/ Fail(k) \/ Crash(k)
                            \/ \E n \in 0 .. Pages - 1 : Insert(k, n)

Spec == Init /\ [][Next]_vars

-----------------------------------------------------------------------------
AllChunks == {Chunk(p, c) : p \in 0 .. Pages - 1, c \in Config}
Row == [to : 0 .. Pages, digest : Config, state : {"queued", "running", "done", "failed"},
        chunk_ids : SUBSET AllChunks, uses : Config]

TypeOK ==
  /\ config \in Config /\ request \subseteq Config /\ cutBy \in Config
  /\ \A k \in DOMAIN rows : k \in [range : Nat, from : Nat]
  /\ rows \in [DOMAIN rows -> Row]
  /\ store \subseteq AllChunks /\ orphans \subseteq AllChunks
  /\ stale \in BOOLEAN /\ wiped \in BOOLEAN

RowTask(k) == [from_page |-> k.from, to_page |-> rows[k].to]
RowsOf(i) == {RowTask(k) : k \in {l \in DOMAIN rows : l.range = i}}
Chosen(r) == {p \in 0 .. Pages - 1 : r.first <= p + 1 /\ p + 1 < r.last}

(* The rows of each chosen range of a PDF hold every page of the range     *)
(* exactly once, and no other page, whatever was taken over.               *)
RowsExact ==
  DOMAIN rows # {} =>
    \A i \in DOMAIN RangesOf[cutBy] :
      Exactly(RowsOf(i), 0 .. Pages, Chosen(RangesOf[cutBy][i]), SizeOf[cutBy])

(* The chunks that a finished row names are those of its pages, made with  *)
(* the configuration its digest stands for, however often its execution    *)
(* was repeated and its row replaced.  Exception: a configuration that     *)
(* changed while the document was cut or the task queued is read by one    *)
(* and is not in the digest.                                               *)
DoneIsRight ==
  ~stale => \A k \in DOMAIN rows :
    rows[k].state = "done" =>
      rows[k].chunk_ids = {Chunk(p, rows[k].digest) : p \in k.from .. rows[k].to - 1}

(* The store has no chunk that no row names, in particular none of an      *)
(* earlier configuration, but those of executions that crashed.            *)
NothingLeftOver == store \subseteq orphans \cup UNION {rows[k].chunk_ids : k \in DOMAIN rows}

(* When all tasks are done, the store has all their chunks, also if chosen *)
(* ranges overlap.  Exception: a stop or a change of the chunk method      *)
(* deletes the chunks and keeps the rows, and a later request takes them   *)
(* over although reuse_prev_task_chunks says that a task is reused only if *)
(* it has valid chunk ids.                                                 *)
AllDoneMeansStored ==
  (~wiped /\ ~stale /\ \A k \in DOMAIN rows : rows[k].state = "done")
    => \A k \in DOMAIN rows : rows[k].chunk_ids \subseteq store
-----------------------------------------------------------------------------
(* The inductive invariant behind RowsExact and DoneIsRight: rows are      *)
(* those of the last cut, and as long as no configuration was mixed up     *)
(* every row was executed with the configuration of its digest.            *)
RowShape ==
  DOMAIN rows # {} => /\ DOMAIN rows = KeysOf(cutBy)
                      /\ \A k \in DOMAIN rows : rows[k].to = ToPageOf(cutBy, k)

ChunksOf(k) == {Chunk(p, rows[k].digest) : p \in k.from .. rows[k].to - 1}

UsesDigest ==
  ~stale => \A k \in DOMAIN rows :
    rows[k].uses = rows[k].digest /\ rows[k].chunk_ids \subseteq ChunksOf(k)

IInv == TypeOK /\ RowShape /\ UsesDigest /\ DoneIsRight

(* The inductive invariant behind NothingLeftOver: a chunk of the store is *)
(* named by a row that keeps its name, because the row is not executed any *)
(* more or is executed with the configuration of the chunk.  The ids of a  *)
(* row are those of its first pages.                                       *)
Keeps(k, x) ==
  /\ x \in rows[k].chunk_ids
  /\ \/ rows[k].state \in {"done", "failed"}
     \/ rows[k].state = "running" /\ x.config = rows[k].uses

Named == \A x \in store \ orphans : \E k \in DOMAIN rows : Keeps(k, x)

FirstPages ==
  \A k \in DOMAIN rows : \A x \in rows[k].chunk_ids :
    /\ x.page \in k.from .. rows[k].to - 1
    /\ \A p \in k.from .. x.page : Chunk(p, x.config) \in rows[k].chunk_ids

(* The inductive invariant behind AllDoneMeansStored: a chunk that a row   *)
(* names is in the store, or some row has its page still to parse.         *)
OneDigest == ~stale => \A k \in DOMAIN rows : rows[k].digest = cutBy

Owed(l, x) == x.page \in l.from .. rows[l].to - 1 /\ x \notin rows[l].chunk_ids

StoredOrOwed ==
  ~wiped /\ ~stale =>
    \A k \in DOMAIN rows : \A x \in rows[k].chunk_ids :
      x \in store \/ \E l \in DOMAIN rows : Owed(l, x)

StoreInv == IInv /\ Named /\ FirstPages /\ OneDigest /\ StoredOrOwed
=============================================================================
