----------------------- MODULE DocumentLifecycleProofs -----------------------
(***************************************************************************)
(* Proofs, for any number of pages, parse and stop requests, crashes and   *)
(* progress threads, that a stop sticks and leaves no chunks behind but    *)
(* the ones a crash or an error kept an execution from deleting, that DONE *)
(* means stored, that a document's counter agrees with its chunks and the  *)
(* dataset's with the document's, and what a removed document leaves.      *)
(***************************************************************************)
EXTENDS DocumentCounters, FiniteSetTheorems, TLAPS

USE DEF RStep, Go, Fault, SetDoc, SetDocUnlessCanceled, Failed, Queued, Part, Full, Idle,
        docVars, rowVars, requestVars, bounds, history

(* Initially no row, chunk, request or execution exists.                   *)
LEMMA InitIInv == Init => IInv
<1> SUFFICES ASSUME Init PROVE IInv
  OBVIOUS
<1> USE LifecycleAssumption DEF Init
<1>1. /\ tprog \in [Task -> Failed..Full] /\ retry_count \in [Task -> Nat]
      /\ faults \in 0..MaxFaults /\ stops \in 0..MaxStops
      /\ progress \in Failed..Full
  OBVIOUS
<1>2. /\ rpc \in [Run -> RequestLabel] /\ reuse \in [Run -> SUBSET Task]
      /\ drop \in [Run -> SUBSET Page] /\ unsent \in [Run -> SUBSET Task]
  BY DEF RequestLabel
<1>3. tpc \in [Task -> RunningLabel \cup {"none", "queued", "over"}]
  OBVIOUS
<1>4. sync \in [Syncer -> [at : {"idle", "read", "check", "write"}, sees : Verdict]]
  BY DEF Verdict
<1>5. TypeOK
  BY <1>1, <1>2, <1>3, <1>4 DEF TypeOK
<1>6. ReachInv /\ StoppedIsEmpty
  BY DEF ReachInv, StoppedIsEmpty
<1>7. QED
  BY <1>5, <1>6 DEF IInv

(* A step of a parse request keeps the types.                              *)
LEMMA RequestTypeOK ==
  ASSUME TypeOK, NEW r \in Run, Mark(r) \/ RequestStep(r) \/ RequestFails(r)
  PROVE  TypeOK'
<1> USE LifecycleAssumption DEF TypeOK, RequestLabel, RunningLabel
<1>1. CASE Mark(r)
  <2>1. rest' \in BOOLEAN
    BY <1>1, Zenon DEF Mark, NothingElseRuns
  <2>2. /\ rpc' \in [Run -> RequestLabel] /\ run' = "RUNNING" /\ progress' = Queued
        /\ stopped' = "no"
        /\ UNCHANGED <<rowVars, cancel, stored, reuse, drop, unsent, spc, tpc, sync, bounds,
                        orphans>>
    BY <1>1 DEF Mark
  <2>3. QED
    BY <2>1, <2>2
<1>2. CASE DeleteRows(r)
  BY <1>2 DEF DeleteRows
<1>3. CASE DeleteChunks(r)
  BY <1>3 DEF DeleteChunks
<1>4. CASE ReadPrev(r)
  BY <1>4 DEF ReadPrev, TasksOf
<1>5. CASE Purge(r)
  BY <1>5 DEF Purge
<1>6. CASE DropLeftOver(r)
  BY <1>6 DEF DropLeftOver
<1>7. CASE InsertRows(r)
  BY <1>7 DEF InsertRows, TasksOf
<1>8. CASE Begin(r)
  BY <1>8 DEF Begin
<1>9. ASSUME NEW t \in Task, Send(r, t) PROVE TypeOK'
  BY <1>9 DEF Send
<1>10. CASE RequestFails(r)
  BY <1>10 DEF RequestFails
<1>11. QED
  BY <1>1, <1>2, <1>3, <1>4, <1>5, <1>6, <1>7, <1>8, <1>9, <1>10 DEF RequestStep

(* Setting cancel keys keeps those there are and adds some for the rows.   *)
LEMMA KeysAreSet ==
  ASSUME TypeOK, SetCancelKeys
  PROVE  cancel \subseteq cancel' /\ cancel' \subseteq cancel \cup rows /\ faults' \in 0..MaxFaults
<1>1. CASE cancel' = cancel \cup rows /\ UNCHANGED faults
  BY <1>1 DEF TypeOK
<1>2. CASE Fault /\ \E S \in SUBSET rows : S # rows /\ cancel' = cancel \cup S
  <2>1. PICK S \in SUBSET rows : cancel' = cancel \cup S
    BY <1>2
  <2>2. faults' \in 0..MaxFaults
    BY <1>2, LifecycleAssumption DEF Fault, TypeOK
  <2> QED
    BY <2>1, <2>2
<1> QED
  BY <1>1, <1>2 DEF SetCancelKeys

(* A step of a stop request keeps the types.                               *)
LEMMA StopTypeOK ==
  ASSUME TypeOK, StopCheck \/ StopStep \/ StopFails
  PROVE  TypeOK'
<1> USE DEF TypeOK
<1>a. MaxFaults \in Nat /\ MaxStops \in Nat
  BY LifecycleAssumption
<1>1. CASE StopCheck
  <2>1. stops' \in 0..MaxStops /\ spc' = "flag" /\ rest' = FALSE
    BY <1>1, <1>a DEF StopCheck
  <2>2. UNCHANGED <<docVars, rowVars, cancel, stored, requestVars, tpc, sync, faults, stopped,
                    orphans>>
    BY <1>1 DEF StopCheck
  <2>3. QED
    BY <2>1, <2>2
<1>2. CASE StopFlag
  <2>1. cancel' \subseteq Task /\ faults' \in 0..MaxFaults
    BY <1>2, KeysAreSet DEF StopFlag
  <2>2. orphans' \subseteq Page
    BY <1>2, LifecycleAssumption DEF StopFlag
  <2> QED
    BY <1>2, <2>1, <2>2 DEF StopFlag
<1>3. CASE StopMark \/ StopRows \/ StopClean
  BY <1>3 DEF StopMark, StopRows, StopClean
<1>4. CASE StopFails
  BY <1>4, <1>a DEF StopFails
<1>5. QED
  BY <1>1, <1>2, <1>3, <1>4 DEF StopStep

(* A step of _sync_progress, by a thread or an execution, keeps the types. *)
LEMMA SyncTypeOK ==
  ASSUME TypeOK, NEW x \in Syncer, Pick(x) \/ Sync(x)
  PROVE  TypeOK'
<1> DEFINE Reading == [at : {"idle", "read", "check", "write"}, sees : Verdict]
<1>1. sync[x] \in Reading /\ Idle \in Reading /\ Summary \in Verdict
  BY DEF TypeOK, Summary, Verdict
<1>2. sync' \in [Syncer -> Reading]
  <2>1. CASE Pick(x)
    BY <2>1, <1>1 DEF TypeOK, Pick
  <2>2. CASE SyncRead(x)
    BY <2>2, <1>1 DEF TypeOK, SyncRead
  <2>3. CASE SyncCheck(x)
    BY <2>3, <1>1 DEF TypeOK, SyncCheck
  <2>4. CASE SyncWrite(x)
    BY <2>4, <1>1 DEF TypeOK, SyncWrite
  <2>5. QED
    BY <2>1, <2>2, <2>3, <2>4 DEF Sync
<1>3. run' \in {"UNSTART", "RUNNING", "CANCEL", "DONE", "FAIL"} /\ progress' \in Failed..Full
  BY DEF TypeOK, Sync, Pick, SyncRead, SyncCheck, SyncWrite
<1>4. UNCHANGED <<rowVars, cancel, stored, requestVars, spc, tpc, bounds, history>>
  BY DEF Sync, Pick, SyncRead, SyncCheck, SyncWrite
<1>5. QED
  BY <1>2, <1>3, <1>4 DEF TypeOK

(* A step of an execution keeps the types.                                 *)
LEMMA TaskTypeOK ==
  ASSUME TypeOK, NEW t \in Task, TaskStep(t) \/ FinallyFails(t) \/ Crash(t) \/ Expire(t)
  PROVE  TypeOK'
<1> DEFINE Label == RunningLabel \cup {"none", "queued", "over"}
<1>a. MaxFaults \in Nat /\ PageOf[t] \in Page
  BY LifecycleAssumption
<1>b. ASSUME NEW from, NEW to \in Label, Go(t, from, to) PROVE tpc' \in [Task -> Label]
  BY <1>b DEF TypeOK
<1>c. ASSUME tpc' \in [Task -> Label], SetDoc("FAIL", Failed) \/ UNCHANGED docVars,
             UNCHANGED <<rowVars, cancel, stored, requestVars, spc, sync, bounds, history>>
      PROVE  TypeOK'
  BY <1>c DEF TypeOK
<1>d. ASSUME tpc' \in [Task -> Label], tprog' \in [Task -> Failed..Full],
             retry_count' \in [Task -> Nat],
             UNCHANGED <<docVars, rows, chunk_ids, cancel, stored, requestVars, spc, sync, bounds,
                         history>>
      PROVE  TypeOK'
  BY <1>d DEF TypeOK
<1>e. tprog \in [Task -> Failed..Full] /\ retry_count \in [Task -> Nat]
  BY DEF TypeOK
<1>1. CASE Collect(t)
  <2>1. tpc' \in [Task -> Label]
    BY <1>1, <1>b DEF Collect, RunningLabel
  <2>2. tprog' \in [Task -> Failed..Full] /\ retry_count' \in [Task -> Nat]
    BY <1>1, <1>e DEF Collect
  <2>3. QED
    BY <1>1, <1>d, <2>1, <2>2 DEF Collect
<1>2. CASE Abandon(t) \/ Accept(t) \/ FailDoc(t) \/ Finally(t)
  <2>1. tpc' \in [Task -> Label]
    BY <1>2, <1>b DEF Abandon, Accept, FailDoc, Finally, RunningLabel
  <2>2. QED
    BY <1>2, <1>c, <2>1 DEF Abandon, Accept, FailDoc, Finally
<1>3. CASE Insert(t)
  BY <1>3, <1>a DEF Insert, TypeOK, RunningLabel
<1>4. CASE UpdateChunkIds(t)
  BY <1>4 DEF UpdateChunkIds, TypeOK, RunningLabel
<1>5. ASSUME NEW from, NEW fail \in RunningLabel, NEW next \in RunningLabel,
             SetFailed(t, from, fail, next)
      PROVE  TypeOK'
  <2>1. tpc' \in [Task -> Label]
    BY <1>5, <1>b DEF SetFailed
  <2>2. tprog' \in [Task -> Failed..Full]
    BY <1>5, <1>e DEF SetFailed
  <2>3. QED
    BY <1>5, <1>d, <1>e, <2>1, <2>2 DEF SetFailed
<1>6. CASE Notice(t) \/ LateFail(t)
  BY <1>6, <1>5 DEF Notice, LateFail, RunningLabel
<1>7. CASE Error(t)
  <2>1. CASE \E from \in Busy : SetFailed(t, from, "fail_raised", "raised")
    BY <2>1, <1>5 DEF RunningLabel
  <2>2. CASE /\ \E from \in Busy : Go(t, from, "raised")
             /\ UNCHANGED <<docVars, rowVars, cancel, stored, requestVars, spc, sync, bounds,
                            history>>
    <3>1. tpc' \in [Task -> Label]
      BY <2>2, <1>b DEF RunningLabel
    <3>2. QED
      BY <2>2, <3>1, <1>c
  <2>3. QED
    BY <1>7, <2>1, <2>2 DEF Error
<1>8. CASE Report(t)
  BY <1>8 DEF Report, TypeOK, RunningLabel
<1>9. CASE Wipe(t)
  BY <1>9 DEF Wipe, TypeOK, RunningLabel
<1>10. CASE StartSync(t)
  <2>1. tpc' \in [Task -> Label]
    BY <1>10, <1>b DEF StartSync, RunningLabel
  <2>2. sync' \in [Syncer -> [at : {"idle", "read", "check", "write"}, sees : Verdict]]
    BY <1>10 DEF StartSync, TypeOK, Syncer
  <2>3. QED
    BY <1>10, <2>1, <2>2 DEF StartSync, TypeOK
<1>11. CASE End(t)
  <2>1. tpc' \in [Task -> Label]
    BY <1>11, <1>b DEF End
  <2>2. QED
    BY <1>11, <1>c, <2>1 DEF End
<1>12. CASE Sync(t)
  BY <1>12, SyncTypeOK DEF Syncer
<1>13. CASE FinallyFails(t)
  <2>1. tpc' \in [Task -> Label]
    BY <1>13, <1>b DEF FinallyFails, RunningLabel
  <2>2. faults' \in 0..MaxFaults /\ orphans' \subseteq Page
    BY <1>13, <1>a DEF FinallyFails, TypeOK
  <2>3. QED
    BY <1>13, <2>1, <2>2 DEF FinallyFails, TypeOK
<1>14. CASE Crash(t)
  <2>1. tpc' \in [Task -> Label]
    BY <1>14 DEF Crash, TypeOK
  <2>2. faults' \in 0..MaxFaults /\ orphans' \subseteq Page
    BY <1>14, <1>a DEF Crash, TypeOK
  <2>3. sync' \in [Syncer -> [at : {"idle", "read", "check", "write"}, sees : Verdict]]
    BY <1>14 DEF Crash, TypeOK, Verdict
  <2>4. QED
    BY <1>14, <2>1, <2>2, <2>3 DEF Crash, TypeOK
<1>15. CASE Expire(t)
  <2>1. cancel' \subseteq Task /\ faults' \in 0..MaxFaults /\ orphans' \subseteq Page
    BY <1>15, <1>a DEF Expire, TypeOK
  <2> QED
    BY <1>15, <2>1 DEF Expire, TypeOK
<1> QED
  BY <1>1, <1>2, <1>3, <1>4, <1>6, <1>7, <1>8, <1>9, <1>10, <1>11, <1>12, <1>13, <1>14, <1>15
  DEF TaskStep

(* Every reachable state is of the declared types.                         *)
LEMMA StepTypeOK == TypeOK /\ [Next]_vars => TypeOK'
<1> SUFFICES ASSUME TypeOK, [Next]_vars PROVE TypeOK'
  OBVIOUS
<1>1. CASE UNCHANGED vars
  BY <1>1 DEF TypeOK, vars
<1>2. ASSUME NEW x \in Thread, Pick(x) \/ Sync(x) PROVE TypeOK'
  BY <1>2, SyncTypeOK DEF Syncer
<1>3. QED
  BY <1>1, <1>2, RequestTypeOK, StopTypeOK, TaskTypeOK DEF Next

(* No document in a wrong state: the types of every reachable state.       *)
THEOREM LifecycleTypes == Spec => []TypeOK
<1>1. Init => TypeOK
  BY InitIInv DEF IInv
<1>2. QED
  BY <1>1, StepTypeOK, PTL DEF Spec

(* What each step may do to the status of a canceled document.             *)
LEMMA StepSticks ==
  ASSUME TypeOK, [Next]_vars, run = "CANCEL", run' # "CANCEL"
  PROVE  \/ \E r \in Run : rpc[r] = "idle" /\ rpc'[r] # "idle"
         \/ \E t \in Task : tpc[t] = "abandon" /\ tpc'[t] = "over"
<1>1. CASE UNCHANGED vars
  BY <1>1 DEF vars
<1>2. ASSUME NEW r \in Run, Mark(r) PROVE rpc[r] = "idle" /\ rpc'[r] # "idle"
  BY <1>2 DEF Mark, TypeOK
<1>3. ASSUME NEW r \in Run, RequestStep(r) \/ RequestFails(r) PROVE FALSE
  BY <1>3 DEF RequestStep, DeleteRows, DeleteChunks, ReadPrev, Purge, DropLeftOver, InsertRows,
              Begin, Send, RequestFails
<1>4. CASE StopCheck \/ StopStep \/ StopFails
  BY <1>4 DEF StopCheck, StopStep, StopFlag, SetCancelKeys, StopMark, StopRows, StopClean, StopFails
<1>5. ASSUME NEW x \in Syncer, Pick(x) \/ Sync(x) PROVE FALSE
  BY <1>5 DEF Pick, Sync, SyncRead, SyncCheck, SyncWrite
<1>6. ASSUME NEW t \in Task, Abandon(t) PROVE tpc[t] = "abandon" /\ tpc'[t] = "over"
  BY <1>6 DEF Abandon, TypeOK
<1>7. ASSUME NEW t \in Task, TaskStep(t) \/ FinallyFails(t) \/ Crash(t) \/ Expire(t), ~Abandon(t)
      PROVE  FALSE
  <2>1. ~Sync(t)
    BY <1>5 DEF Syncer
  <2>2. QED
    BY <1>7, <2>1 DEF TaskStep, Collect, Accept, Insert, UpdateChunkIds, Notice, Error, SetFailed,
       FailDoc, Report, Finally, Wipe, LateFail, StartSync, End, FinallyFails, Crash, Expire
<1>8. QED
  BY <1>1, <1>2, <1>3, <1>4, <1>5, <1>6, <1>7 DEF Next, Syncer

(* A stop sticks: only a parse request, or a task that was delivered too   *)
(* often, takes a document out of CANCEL.                                  *)
THEOREM StopIsFinal == Spec => StopSticks
<1>1. TypeOK /\ [Next]_vars =>
        [run = "CANCEL" /\ run' # "CANCEL" =>
           \/ \E r \in Run : rpc[r] = "idle" /\ rpc'[r] # "idle"
           \/ \E t \in Task : tpc[t] = "abandon" /\ tpc'[t] = "over"]_vars
  BY StepSticks
<1>2. QED
  BY <1>1, LifecycleTypes, PTL DEF Spec, StopSticks

-----------------------------------------------------------------------------
(* ReachInv holds as long as no task can be executed that could not be.    *)
LEMMA ReachKept ==
  ASSUME ReachInv, stopped # "no", cancel \subseteq cancel', orphans \subseteq orphans',
         \A u \in Task : MayRun(u)' => MayRun(u),
         \A r \in Run : rpc'[r] \in {"idle", "begin", "send", "served", "failed"}
  PROVE  ReachInv'
  BY DEF ReachInv

(* A request keeps ReachInv: one that may insert rows starts with Mark.    *)
LEMMA RequestReach ==
  ASSUME IInv, NEW r \in Run, Mark(r) \/ RequestStep(r) \/ RequestFails(r)
  PROVE  ReachInv'
<1> SUFFICES ASSUME stopped' # "no" PROVE ReachInv'
  BY DEF ReachInv
<1> USE DEF IInv, TypeOK
<1>0. ~Mark(r)
  BY DEF Mark
<1>a. stopped # "no" /\ UNCHANGED <<cancel, orphans>>
  BY <1>0 DEF RequestStep, RequestFails, DeleteRows, DeleteChunks, ReadPrev, Purge, DropLeftOver,
     InsertRows, Begin, Send
<1>b. rpc[r] \in {"idle", "begin", "send", "served", "failed"}
  BY <1>a DEF ReachInv
<1>c. \/ Begin(r) /\ UNCHANGED <<rows, tpc>>
      \/ RequestFails(r) /\ UNCHANGED <<rows, tpc>>
      \/ \E t \in Task : Send(r, t)
  BY <1>0, <1>b DEF RequestStep, DeleteRows, DeleteChunks, ReadPrev, Purge, DropLeftOver,
     InsertRows, Begin, RequestFails, RStep
<1>1. \A q \in Run : rpc'[q] \in {"idle", "begin", "send", "served", "failed"}
  BY <1>a, <1>c DEF ReachInv, Begin, RequestFails, Send
<1>2. ASSUME NEW u \in Task, MayRun(u)' PROVE MayRun(u)
  <2>1. CASE UNCHANGED <<rows, tpc>>
    BY <1>2, <2>1 DEF MayRun
  <2>2. ASSUME NEW t \in Task, Send(r, t) PROVE MayRun(u)
    BY <1>2, <2>2 DEF Send, MayRun, RunningLabel
  <2> QED
    BY <1>c, <2>1, <2>2
<1> QED
  BY <1>a, <1>1, <1>2, ReachKept

(* A stop establishes ReachInv when it sets the cancel keys.               *)
LEMMA StopReach ==
  ASSUME IInv, StopCheck \/ StopStep \/ StopFails
  PROVE  ReachInv'
<1> SUFFICES ASSUME stopped' # "no" PROVE ReachInv'
  BY DEF ReachInv
<1> USE DEF IInv, TypeOK
<1>1. CASE StopFlag
  <2>1. Reaches /\ UNCHANGED <<rpc, rows, tpc>>
    BY <1>1 DEF StopFlag
  <2>2. \A u \in Task : MayRun(u)' => MayRun(u)
    BY <2>1 DEF MayRun
  <2>3. ASSUME NEW u \in Task, MayRun(u) PROVE u \in cancel' \/ PageOf[u] \in orphans'
    BY <1>1, <2>3 DEF StopFlag
  <2> QED
    BY <2>1, <2>2, <2>3 DEF ReachInv, Reaches
<1>2. CASE StopCheck \/ StopMark \/ StopRows \/ StopClean \/ StopFails
  <2>1. stopped # "no" /\ UNCHANGED <<cancel, orphans, rpc, tpc>> /\ rows' \subseteq rows
    BY <1>2 DEF StopCheck, StopMark, StopRows, StopClean, StopFails
  <2>2. \A u \in Task : MayRun(u)' => MayRun(u)
    BY <2>1 DEF MayRun
  <2> QED
    BY <2>1, <2>2, ReachKept DEF ReachInv
<1>3. QED
  BY <1>1, <1>2 DEF StopStep

(* An execution starts only for a task that has a row, which is canceled   *)
(* or counts as an orphan, as a task does whose cancel key expires.        *)
LEMMA TaskReach ==
  ASSUME IInv, NEW t \in Task, TaskStep(t) \/ FinallyFails(t) \/ Crash(t) \/ Expire(t)
  PROVE  ReachInv'
<1> USE DEF IInv, TypeOK
<1>0. ~Expire(t) => UNCHANGED <<rows, cancel, rpc, stopped>> /\ orphans \subseteq orphans'
  BY DEF TaskStep, Collect, Abandon, Accept, Insert, UpdateChunkIds, Notice, Error, SetFailed,
         FailDoc, Report, Finally, Wipe, LateFail, StartSync, Sync, SyncRead, SyncCheck,
         SyncWrite, End, FinallyFails, Crash
<1>b. \A u \in Task : u # t => tpc'[u] = tpc[u]
  BY DEF TaskStep, Collect, Abandon, Accept, Insert, UpdateChunkIds, Notice, Error, SetFailed,
         FailDoc, Report, Finally, Wipe, LateFail, StartSync, Sync, SyncRead, SyncCheck,
         SyncWrite, End, FinallyFails, Crash, Expire
<1>c. /\ tpc'[t] \in RunningLabel => tpc[t] \in RunningLabel \/ (t \in rows /\ tpc[t] # "over")
      /\ tpc[t] = "over" => tpc'[t] = "over"
  BY DEF TaskStep, Collect, Abandon, Accept, Insert, UpdateChunkIds, Notice, Error, SetFailed,
         FailDoc, Report, Finally, Wipe, LateFail, StartSync, Sync, SyncRead, SyncCheck,
         SyncWrite, End, FinallyFails, Crash, Expire, RunningLabel, Busy
<1>1. CASE ~Expire(t)
  <2>1. \A u \in Task : MayRun(u)' => MayRun(u)
    BY <1>1, <1>0, <1>b, <1>c DEF MayRun
  <2> QED
    BY <1>1, <1>0, <2>1, ReachKept DEF ReachInv
<1>2. CASE Expire(t)
  <2>1. /\ UNCHANGED <<rows, rpc, stopped, tpc>> /\ cancel' = cancel \ {t}
        /\ orphans' = orphans \cup {PageOf[t]}
    BY <1>2 DEF Expire
  <2>2. \A u \in Task : MayRun(u)' <=> MayRun(u)
    BY <2>1 DEF MayRun
  <2> QED
    BY <2>1, <2>2 DEF ReachInv
<1>d. QED
  BY <1>1, <1>2

(* What an execution does to the chunks: it stores the ones it will delete *)
(* or, if it is not canceled, ones that are known to be missed.            *)
LEMMA TaskStores ==
  ASSUME TypeOK, NEW t \in Task, TaskStep(t), NEW Missed,
         stored \subseteq Missed \cup {PageOf[u] : u \in ToClean},
         tpc[t] \in RunningLabel => t \in cancel \/ PageOf[t] \in Missed
  PROVE  stored' \subseteq Missed \cup {PageOf[u] : u \in ToClean'}
<1> USE DEF TypeOK
<1>b. ASSUME stored' = stored, ToClean \subseteq ToClean'
      PROVE  stored' \subseteq Missed \cup {PageOf[u] : u \in ToClean'}
  BY <1>b
<1>c. ASSUME NEW from, NEW to, Go(t, from, to), stored' = stored,
             t \in ToClean => t \in ToClean' \/ PageOf[t] \in Missed
      PROVE  stored' \subseteq Missed \cup {PageOf[u] : u \in ToClean'}
  <2>1. \A u \in Task : u # t => tpc'[u] = tpc[u]
    BY <1>c
  <2>2. ToClean \ {t} \subseteq ToClean'
    BY <2>1 DEF ToClean
  <2> QED
    BY <1>c, <2>2
<1>1. CASE Collect(t) \/ Abandon(t) \/ Accept(t) \/ UpdateChunkIds(t)
  BY <1>1, <1>c DEF Collect, Abandon, Accept, UpdateChunkIds, ToClean, Busy
<1>2. CASE Notice(t) \/ Error(t) \/ FailDoc(t) \/ LateFail(t)
  BY <1>2, <1>c DEF Notice, Error, FailDoc, LateFail, SetFailed, ToClean, Busy
<1>3. CASE Report(t) \/ Finally(t)
  BY <1>3, <1>c DEF Report, Finally, ToClean, Busy, RunningLabel
<1>4. CASE StartSync(t) \/ End(t)
  BY <1>4, <1>c DEF StartSync, End, ToClean, Busy
<1>5. CASE Sync(t)
  BY <1>5, <1>b DEF Sync, SyncRead, SyncCheck, SyncWrite, ToClean
<1>6. CASE Insert(t)
  <2>1. stored' = stored \cup {PageOf[t]}
    BY <1>6 DEF Insert
  <2>2. ToClean \subseteq ToClean' /\ t \in ToClean'
    BY <1>6 DEF Insert, ToClean, Busy
  <2> QED
    BY <2>1, <2>2
<1>7. CASE Wipe(t)
  BY <1>7 DEF Wipe
<1> QED
  BY <1>1, <1>2, <1>3, <1>4, <1>5, <1>6, <1>7 DEF TaskStep

(* What an execution may do to the chunks after a stop: store the ones it  *)
(* will delete, or lose track of them and count as an orphan.              *)
LEMMA TaskEmpty ==
  ASSUME IInv, NEW t \in Task, TaskStep(t) \/ FinallyFails(t) \/ Crash(t) \/ Expire(t), stopped = "clean"
  PROVE  stored' \subseteq orphans' \cup {PageOf[u] : u \in ToClean'}
<1> USE DEF IInv, TypeOK
<1>a. /\ stored \subseteq orphans \cup {PageOf[u] : u \in ToClean}
      /\ tpc[t] \in RunningLabel => t \in cancel \/ PageOf[t] \in orphans
  BY DEF StoppedIsEmpty, ReachInv, MayRun
<1>1. CASE TaskStep(t)
  <2>1. stored' \subseteq orphans \cup {PageOf[u] : u \in ToClean'}
    BY <1>1, <1>a, TaskStores
  <2>2. orphans' = orphans
    BY <1>1 DEF TaskStep, Collect, Abandon, Accept, Insert, UpdateChunkIds, Notice, Error,
       SetFailed, FailDoc, Report, Finally, Wipe, LateFail, StartSync, Sync, SyncRead, SyncCheck,
       SyncWrite, End
  <2> QED
    BY <2>1, <2>2
<1>2. CASE FinallyFails(t) \/ Crash(t) \/ Expire(t)
  <2>1. stored' = stored /\ orphans' = orphans \cup {PageOf[t]}
    BY <1>2 DEF FinallyFails, Crash, Expire
  <2>2. ToClean \ {t} \subseteq ToClean'
    BY <1>2 DEF FinallyFails, Crash, Expire, ToClean
  <2> QED
    BY <1>a, <2>1, <2>2
<1> QED
  BY <1>1, <1>2

(* Every step keeps StoppedIsEmpty.                                        *)
LEMMA StepEmpty ==
  ASSUME IInv, [Next]_vars
  PROVE  StoppedIsEmpty'
<1> SUFFICES ASSUME stopped' = "clean"
             PROVE  stored' \subseteq orphans' \cup {PageOf[u] : u \in ToClean'}
  BY DEF StoppedIsEmpty
<1>a. ASSUME UNCHANGED <<tpc, orphans, stopped>>, stored' \subseteq stored
      PROVE  stored' \subseteq orphans' \cup {PageOf[u] : u \in ToClean'}
  BY <1>a DEF IInv, StoppedIsEmpty, ToClean
<1>1. CASE UNCHANGED vars
  BY <1>1, <1>a DEF vars
<1>2. ASSUME NEW r \in Run, Mark(r) PROVE FALSE
  BY <1>2 DEF Mark
<1>3. ASSUME NEW r \in Run, RequestStep(r) \/ RequestFails(r), ~ \E t \in Task : Send(r, t)
      PROVE  stored' \subseteq orphans' \cup {PageOf[u] : u \in ToClean'}
  BY <1>3, <1>a DEF RequestStep, DeleteRows, DeleteChunks, ReadPrev, Purge, DropLeftOver,
                    InsertRows, Begin, RequestFails
<1>4. ASSUME NEW r \in Run, NEW t \in Task, Send(r, t)
      PROVE  stored' \subseteq orphans' \cup {PageOf[u] : u \in ToClean'}
  <2>1. ToClean' = ToClean
    BY <1>4 DEF Send, ToClean, Busy, IInv, TypeOK
  <2>2. QED
    BY <1>4, <2>1 DEF Send, IInv, StoppedIsEmpty
<1>5. CASE StopCheck \/ StopStep \/ StopFails
  <2>1. CASE StopClean
    BY <2>1 DEF StopClean
  <2>2. CASE StopFlag
    BY <2>2 DEF StopFlag, SetCancelKeys
  <2>3. QED
    BY <1>5, <1>a, <2>1, <2>2 DEF StopCheck, StopStep, StopMark, StopRows, StopFails
<1>6. ASSUME NEW t \in Task, TaskStep(t) \/ FinallyFails(t) \/ Crash(t) \/ Expire(t)
      PROVE  stored' \subseteq orphans' \cup {PageOf[u] : u \in ToClean'}
  <2>1. stopped' = stopped
    BY <1>6 DEF TaskStep, Collect, Abandon, Accept, Insert, UpdateChunkIds, Notice, Error,
       SetFailed, FailDoc, Report, Finally, Wipe, LateFail, StartSync, Sync, SyncRead, SyncCheck,
       SyncWrite, End, FinallyFails, Crash, Expire
  <2>2. QED
    BY <1>6, <2>1, TaskEmpty
<1>7. ASSUME NEW x \in Thread, Pick(x) \/ Sync(x)
      PROVE  stored' \subseteq orphans' \cup {PageOf[u] : u \in ToClean'}
  BY <1>7, <1>a DEF Pick, Sync, SyncRead, SyncCheck, SyncWrite
<1>8. QED
  BY <1>1, <1>2, <1>3, <1>4, <1>5, <1>6, <1>7 DEF Next

(* IInv is inductive.                                                      *)
THEOREM LifecycleInvariant == Spec => []IInv
<1>1. IInv /\ [Next]_vars => ReachInv'
  <2> SUFFICES ASSUME IInv, [Next]_vars PROVE ReachInv'
    OBVIOUS
  <2>1. CASE UNCHANGED vars
    BY <2>1 DEF vars, IInv, ReachInv, MayRun
  <2>2. ASSUME NEW x \in Thread, Pick(x) \/ Sync(x) PROVE ReachInv'
    BY <2>2 DEF Pick, Sync, SyncRead, SyncCheck, SyncWrite, IInv, ReachInv, MayRun
  <2>3. QED
    BY <2>1, <2>2, RequestReach, StopReach, TaskReach DEF Next
<1>2. IInv /\ [Next]_vars => IInv'
  BY <1>1, StepTypeOK, StepEmpty DEF IInv
<1>3. QED
  BY <1>2, InitIInv, PTL DEF Spec

(* A stop that reaches every execution leaves no chunks but those still to *)
(* be deleted, those an execution could not delete, and those of a task    *)
(* whose cancel key was never set or expired before it was executed.       *)
THEOREM StopCleansUp == Spec => []StoppedIsEmpty
<1>1. IInv => StoppedIsEmpty
  BY DEF IInv
<1>2. QED
  BY <1>1, LifecycleInvariant, PTL
-----------------------------------------------------------------------------
(* What the step of an execution leaves alone.                             *)
LEMMA TaskFrame ==
  ASSUME TypeOK, NEW t \in Task, TaskStep(t) \/ FinallyFails(t) \/ Crash(t) \/ Expire(t)
  PROVE  /\ UNCHANGED <<rows, requestVars, spc, rest>> /\ cancel' \subseteq cancel
         /\ \A u \in Task : u # t => tpc'[u] = tpc[u] /\ tprog'[u] = tprog[u]
         /\ tpc[t] \in {"none", "over"} => (Sync(t) \/ Expire(t)) /\ UNCHANGED <<tpc, tprog>>
<1> USE DEF TypeOK
<1>1. CASE Sync(t)
  BY <1>1 DEF Sync, SyncRead, SyncCheck, SyncWrite
<1>2. CASE Collect(t) \/ Abandon(t) \/ Accept(t) \/ Insert(t) \/ UpdateChunkIds(t)
  BY <1>2 DEF Collect, Abandon, Accept, Insert, UpdateChunkIds
<1>3. CASE Notice(t) \/ Error(t) \/ FailDoc(t) \/ LateFail(t)
  BY <1>3 DEF Notice, Error, FailDoc, LateFail, SetFailed, Busy
<1>4. CASE Report(t) \/ Finally(t) \/ Wipe(t) \/ StartSync(t) \/ End(t)
  BY <1>4 DEF Report, Finally, Wipe, StartSync, End
<1>5. CASE FinallyFails(t) \/ Crash(t) \/ Expire(t)
  BY <1>5 DEF FinallyFails, Crash, Expire, RunningLabel
<1> QED
  BY <1>1, <1>2, <1>3, <1>4, <1>5 DEF TaskStep

(* No step of an execution but the expiry removes a cancel key.            *)
LEMMA TaskKeys ==
  ASSUME NEW t \in Task, TaskStep(t)
  PROVE  UNCHANGED cancel
BY DEF TaskStep, Collect, Abandon, Accept, Insert, UpdateChunkIds, Notice, Error, SetFailed,
       FailDoc, Report, Finally, Wipe, LateFail, StartSync, Sync, SyncRead, SyncCheck, SyncWrite,
       End

(* What a synchronisation leaves alone, and what it may do.                *)
LEMMA SyncFrame ==
  ASSUME TypeOK, NEW x \in Syncer, Pick(x) \/ Sync(x)
  PROVE  /\ UNCHANGED <<rowVars, cancel, stored, requestVars, spc, tpc, bounds, history>>
         /\ \A y \in Syncer : y # x => sync'[y] = sync[y]
         /\ \/ Pick(x) /\ Unfinished /\ sync[x] = Idle
            \/ sync[x] # Idle
         /\ \/ sync'[x].sees \in {"none", sync[x].sees}
            \/ sync'[x].sees = Summary /\ rows # {}
         /\ \/ UNCHANGED docVars
            \/ sync[x].sees = "done" /\ run' = "DONE" /\ progress' = Full
            \/ sync[x].sees = "fail" /\ run' = "FAIL" /\ progress' = Failed
            \/ sync[x].sees = "running" /\ run' = "RUNNING" /\ progress' = Part
            \/ run' = "RUNNING" /\ progress' = progress
<1> USE DEF TypeOK
<1>1. CASE Pick(x)
  BY <1>1 DEF Pick
<1>2. CASE SyncRead(x)
  BY <1>2 DEF SyncRead
<1>3. CASE SyncCheck(x)
  BY <1>3 DEF SyncCheck
<1>4. CASE SyncWrite(x)
  BY <1>4 DEF SyncWrite
<1> QED
  BY <1>1, <1>2, <1>3, <1>4 DEF Sync

(* Tasks are unknown until their request inserts them.                     *)
LEMMA RequestFresh ==
  ASSUME TypeOK, FreshInv, NEW r \in Run, Mark(r) \/ RequestStep(r) \/ RequestFails(r)
  PROVE  FreshInv'
<1> USE DEF TypeOK, FreshInv, Before, TasksOf
<1>1. CASE Mark(r)
  BY <1>1 DEF Mark
<1>2. CASE DeleteRows(r) \/ DeleteChunks(r)
  BY <1>2 DEF DeleteRows, DeleteChunks
<1>3. CASE ReadPrev(r)
  <2>1. /\ UNCHANGED <<docVars, rowVars, cancel, unsent, tpc>>
        /\ rpc[r] = "prev" /\ \A s \in Run : s # r => rpc'[s] = rpc[s]
    BY <1>3 DEF ReadPrev
  <2> QED
    BY <2>1
<1>4. CASE Purge(r) \/ DropLeftOver(r)
  BY <1>4 DEF Purge, DropLeftOver
<1>5. CASE InsertRows(r)
  BY <1>5 DEF InsertRows
<1>6. CASE Begin(r)
  BY <1>6 DEF Begin
<1>7. ASSUME NEW t \in Task, Send(r, t) PROVE FreshInv'
  BY <1>7 DEF Send
<1>8. CASE RequestFails(r)
  BY <1>8 DEF RequestFails
<1> QED
  BY <1>1, <1>2, <1>3, <1>4, <1>5, <1>6, <1>7, <1>8 DEF RequestStep

LEMMA StepFresh ==
  ASSUME TypeOK, FreshInv, [Next]_vars
  PROVE  FreshInv'
<1>1. CASE UNCHANGED vars
  BY <1>1 DEF vars, FreshInv
<1>2. CASE StopCheck \/ StopStep \/ StopFails
  BY <1>2 DEF StopCheck, StopStep, StopFlag, SetCancelKeys, StopMark, StopRows, StopClean,
     StopFails, FreshInv, Before, TypeOK
<1>3. ASSUME NEW t \in Task, TaskStep(t) \/ FinallyFails(t) \/ Crash(t) \/ Expire(t) PROVE FreshInv'
  <2>1. /\ UNCHANGED <<rows, requestVars>> /\ cancel' \subseteq cancel
        /\ \A u \in Task : u # t => tpc'[u] = tpc[u] /\ tprog'[u] = tprog[u]
        /\ tpc[t] = "none" => UNCHANGED <<tpc, tprog>>
    BY <1>3, TaskFrame
  <2> QED
    BY <2>1 DEF FreshInv, TasksOf
<1>4. ASSUME NEW x \in Thread, Pick(x) \/ Sync(x) PROVE FreshInv'
  <2>1. UNCHANGED <<rowVars, cancel, requestVars, tpc>>
    BY <1>4, SyncFrame DEF Syncer
  <2> QED
    BY <2>1 DEF FreshInv
<1> QED
  BY <1>1, <1>2, <1>3, <1>4, RequestFresh DEF Next

-----------------------------------------------------------------------------
(* A request that finds the document at rest waits.                        *)
LEMMA MarkWaits ==
  ASSUME ParseInv, NEW r \in Run, Mark(r), rest'
  PROVE  RestInv' /\ Waiting'
<1> USE DEF TypeOK, Before, Ended
<1>1. NothingElseRuns
  BY DEF Mark
<1>2. /\ run' = "RUNNING" /\ progress' = Queued
      /\ rpc' = [rpc EXCEPT ![r] = rpc'[r]] /\ rpc'[r] \in {"rows", "chunks_first", "prev"}
      /\ rpc'[r] = "prev" => EachPageOnce
      /\ UNCHANGED <<rowVars, cancel, stored, reuse, drop, unsent, spc, tpc, sync>>
  BY DEF Mark, ParseInv
<1>3. (rpc'[r] = "prev" => EachPageOnce')
  BY <1>2 DEF EachPageOnce
<1>4. spc' = "idle" /\ \A s \in Run : s # r => rpc'[s] \in Ended
  BY <1>1, <1>2 DEF NothingElseRuns, ParseInv
<1>5. Waiting'
  BY <1>1, <1>2, <1>3, <1>4 DEF Waiting, NothingElseRuns, ParseInv
<1> QED
  BY <1>4, <1>5 DEF RestInv

(* The deletions and the takeover of a request at rest.                    *)
LEMMA WaitingRequest ==
  ASSUME ParseInv, rest, Waiting, NEW r \in Run, RequestStep(r)
  PROVE  Waiting' \/ (InsertRows(r) /\ Parsing')
<1> USE DEF ParseInv, TypeOK, Before, Ended
<1>0. \A s \in Run : s # r => rpc[s] \in Ended \/ rpc[r] \in Ended
  BY DEF RestInv
<1>1. CASE DeleteRows(r)
  BY <1>0, <1>1 DEF DeleteRows, Waiting, EachPageOnce
<1>2. CASE DeleteChunks(r)
  <2>1. UNCHANGED <<docVars, rowVars, cancel, reuse, drop, unsent, spc, tpc, sync>>
    BY <1>2 DEF DeleteChunks
  <2> QED
    BY <1>0, <1>2, <2>1 DEF DeleteChunks, Waiting, EachPageOnce
<1>3. CASE ReadPrev(r)
  <2>1. /\ UNCHANGED <<docVars, rowVars, cancel, stored, unsent, spc, tpc, sync>>
        /\ rpc' = [rpc EXCEPT ![r] = IF rows = {} THEN "insert" ELSE "purge"]
        /\ rpc[r] = "prev"
    BY <1>3 DEF ReadPrev
  <2>2. PICK S \in SUBSET TasksOf(r) :
        \E from \in [S -> {p \in rows \cap chunk_ids : tprog[p] = Full}] :
           /\ \A t \in S : PageOf[from[t]] = PageOf[t]
           /\ reuse' = [reuse EXCEPT ![r] = S]
           /\ drop' = [drop EXCEPT ![r] =
                         {PageOf[p] : p \in (rows \cap chunk_ids) \ Range(from)}]
    BY <1>3 DEF ReadPrev
  <2>3. PICK from \in [S -> {p \in rows \cap chunk_ids : tprog[p] = Full}] :
           /\ \A t \in S : PageOf[from[t]] = PageOf[t]
           /\ reuse' = [reuse EXCEPT ![r] = S]
           /\ drop' = [drop EXCEPT ![r] =
                         {PageOf[p] : p \in (rows \cap chunk_ids) \ Range(from)}]
    BY <2>2
  <2>4. EachPageOnce
    BY <2>1 DEF Waiting
  <2>5. reuse'[r] = S /\ drop'[r] = {PageOf[p] : p \in (rows \cap chunk_ids) \ Range(from)}
    BY <2>3
  <2>6. ASSUME NEW t \in S
        PROVE  PageOf[t] \in stored /\ PageOf[t] \notin drop'[r] /\ rows # {}
    <3>1. from[t] \in rows \cap chunk_ids /\ from[t] \in Range(from) /\ PageOf[t] = PageOf[from[t]]
      BY <2>3 DEF Range
    <3>2. PageOf[t] \in stored
      BY <2>4, <3>1 DEF EachPageOnce
    <3>3. ASSUME NEW q \in (rows \cap chunk_ids) \ Range(from), PageOf[t] = PageOf[q]
          PROVE  FALSE
      BY <2>4, <3>1, <3>3 DEF EachPageOnce
    <3> QED
      BY <2>5, <3>1, <3>2, <3>3
  <2>7. \A s \in Run : s # r => reuse'[s] = reuse[s] /\ drop'[s] = drop[s] /\ rpc'[s] = rpc[s]
    BY <2>1, <2>3
  <2>8. \A s \in Run : s # r => rpc'[s] \in Ended
    BY <1>0, <2>1, <2>7
  <2> QED
    BY <2>1, <2>5, <2>6, <2>7, <2>8 DEF Waiting
<1>4. CASE Purge(r)
  BY <1>0, <1>4 DEF Purge, Waiting
<1>5. CASE DropLeftOver(r)
  BY <1>0, <1>5 DEF DropLeftOver, Waiting
<1>6. CASE InsertRows(r)
  <2>1. rows' = TasksOf(r) /\ \A t \in reuse[r] : PageOf[t] \in stored
    BY <1>6 DEF InsertRows, Waiting
  <2>2. /\ UNCHANGED <<docVars, cancel, stored, tpc, sync>>
        /\ rpc' = [rpc EXCEPT ![r] = "begin"]
        /\ unsent' = [unsent EXCEPT ![r] = TasksOf(r) \ reuse[r]]
        /\ \A t \in Task : tprog'[t] = IF t \in reuse[r] THEN Full ELSE tprog[t]
    BY <1>6 DEF InsertRows
  <2>3. \A t \in TasksOf(r) : t \notin cancel /\ tprog[t] = Queued
    BY <1>6 DEF FreshInv, InsertRows
  <2>4. \A p \in Page : \E t \in rows' : PageOf[t] = p
    BY <2>1, LifecycleAssumption DEF TasksOf
  <2>5. \A t \in rows' : tprog'[t] = Full => PageOf[t] \in stored
    BY <2>1, <2>2, <2>3 DEF TasksOf
  <2>6. \A s \in Run : /\ rpc'[s] \in {"begin", "send"} \cup Ended
                       /\ rpc'[s] \in {"begin", "send"} => unsent'[s] \cap cancel = {}
    <3>1. rpc[r] = "insert" /\ rpc'[r] = "begin" /\ unsent'[r] \cap cancel = {}
      BY <1>6, <2>2, <2>3 DEF InsertRows
    <3>2. \A s \in Run : s # r => rpc'[s] \in Ended
      BY <1>0, <2>2, <3>1
    <3> QED
      BY <3>1, <3>2
  <2>7. run = "RUNNING" /\ (\A t \in Task : tpc[t] \in {"none", "over"})
        /\ \A x \in Syncer : sync[x].sees \notin {"done", "fail"}
    BY DEF Waiting
  <2> QED
    BY <1>6, <2>2, <2>4, <2>5, <2>6, <2>7 DEF Parsing
<1>7. ASSUME Begin(r) \/ \E t \in Task : Send(r, t) PROVE FALSE
  BY <1>7 DEF Begin, Send, Waiting
<1> QED
  BY <1>1, <1>2, <1>3, <1>4, <1>5, <1>6, <1>7 DEF RequestStep

(* After the rows, the tasks that are not taken over are enqueued.         *)
LEMMA ParsingRequest ==
  ASSUME ParseInv, rest, Parsing, NEW r \in Run, RequestStep(r)
  PROVE  Parsing'
<1> USE DEF ParseInv, TypeOK, Before, Ended
<1>1. CASE Begin(r)
  BY <1>1 DEF Begin, Parsing
<1>2. ASSUME NEW t \in Task, Send(r, t) PROVE Parsing'
  <2>1. /\ UNCHANGED <<docVars, rowVars, cancel, stored, sync>> /\ tpc' = [tpc EXCEPT ![t] = "queued"]
        /\ unsent' = [unsent EXCEPT ![r] = @ \ {t}] /\ t \in unsent[r] /\ rpc[r] = "send"
        /\ rpc' = [rpc EXCEPT ![r] = rpc'[r]] /\ rpc'[r] \in {"served", "send"}
    BY <1>2 DEF Send
  <2>2. t \notin cancel
    BY <2>1 DEF Parsing
  <2> QED
    BY <2>1, <2>2 DEF Parsing
<1>3. ASSUME ~Begin(r), ~ \E t \in Task : Send(r, t) PROVE FALSE
  BY <1>3 DEF RequestStep, DeleteRows, DeleteChunks, ReadPrev, Purge, DropLeftOver, InsertRows,
              Parsing
<1> QED
  BY <1>1, <1>2, <1>3

LEMMA RequestRests ==
  ASSUME ParseInv, NEW r \in Run, RequestStep(r) \/ RequestFails(r), rest'
  PROVE  RestInv'
<1> USE DEF TypeOK, Before, Ended
<1>1. CASE RequestFails(r)
  <2>1. /\ UNCHANGED <<docVars, rowVars, cancel, stored, reuse, drop, unsent, spc, tpc, sync, rest>>
        /\ rpc' = [rpc EXCEPT ![r] = "failed"]
    BY <1>1 DEF RequestFails
  <2>2. EachPageOnce' <=> EachPageOnce
    BY <2>1 DEF EachPageOnce
  <2>3. Waiting => Waiting'
    BY <2>1, <2>2 DEF Waiting, ParseInv
  <2>4. Parsing => Parsing'
    BY <2>1 DEF Parsing, ParseInv
  <2> QED
    BY <2>1, <2>3, <2>4 DEF RestInv, ParseInv
<1>2. CASE RequestStep(r)
  <2>1. /\ UNCHANGED <<rest, spc>> /\ rpc[r] \notin Ended
        /\ \A s \in Run : s # r => rpc'[s] = rpc[s]
    <3>1. CASE DeleteRows(r) \/ DeleteChunks(r)
      BY <3>1 DEF DeleteRows, DeleteChunks, ParseInv
    <3>2. CASE ReadPrev(r) \/ Purge(r) \/ DropLeftOver(r)
      BY <3>2 DEF ReadPrev, Purge, DropLeftOver, ParseInv
    <3>3. CASE InsertRows(r) \/ Begin(r) \/ \E t \in Task : Send(r, t)
      BY <3>3 DEF InsertRows, Begin, Send, ParseInv
    <3> QED
      BY <1>2, <3>1, <3>2, <3>3 DEF RequestStep
  <2>2. rest /\ spc = "idle" /\ (Waiting \/ Parsing)
        /\ \A s \in Run : s # r => rpc'[s] \in Ended
    BY <2>1 DEF RestInv, ParseInv
  <2>3. Waiting' \/ Parsing'
    BY <1>2, <2>2, WaitingRequest, ParsingRequest
  <2> QED
    BY <2>1, <2>2, <2>3 DEF RestInv
<1> QED
  BY <1>1, <1>2

(* While a document waits no synchronisation sees its tasks finished.      *)
LEMMA SyncWaits ==
  ASSUME ParseInv, NEW x \in Syncer, Pick(x) \/ Sync(x), Waiting
  PROVE  Waiting'
<1> USE DEF TypeOK
<1>1. /\ UNCHANGED <<rowVars, cancel, stored, requestVars, spc, tpc, rest>>
      /\ \A y \in Syncer : y # x => sync'[y] = sync[y]
      /\ (Pick(x) /\ Unfinished /\ sync[x] = Idle) \/ sync[x] # Idle
      /\ \/ sync'[x].sees \in {"none", sync[x].sees}
         \/ sync'[x].sees = Summary /\ rows # {}
  BY SyncFrame DEF ParseInv
<1>2. \/ UNCHANGED docVars
      \/ sync[x].sees = "done" /\ run' = "DONE" /\ progress' = Full
      \/ sync[x].sees = "fail" /\ run' = "FAIL" /\ progress' = Failed
      \/ sync[x].sees = "running" /\ run' = "RUNNING" /\ progress' = Part
      \/ run' = "RUNNING" /\ progress' = progress
  BY SyncFrame DEF ParseInv
<1>3. EachPageOnce' <=> EachPageOnce
  BY <1>1 DEF EachPageOnce
<1>4. rows = {} \/ \E t \in rows : tprog[t] \in {Queued, Part}
  BY <1>1 DEF Waiting, Unfinished
<1>5. rows # {} => Summary \in {"queued", "running"}
  BY <1>4 DEF Summary
<1>6. sync'[x].sees \notin {"done", "fail"}
  BY <1>1, <1>5 DEF Waiting
<1>7. run' = "RUNNING" /\ progress' # Failed
  BY <1>2 DEF Waiting
<1>8. \A y \in Syncer : sync'[y].sees \notin {"done", "fail"}
  BY <1>1, <1>6 DEF Waiting
<1> QED
  BY <1>1, <1>3, <1>4, <1>7, <1>8 DEF Waiting

(* A synchronisation that sees all tasks finished finds all pages stored.  *)
LEMMA SyncRests ==
  ASSUME ParseInv, NEW x \in Syncer, Pick(x) \/ Sync(x), rest'
  PROVE  RestInv'
<1> USE DEF TypeOK
<1>1. /\ UNCHANGED <<rowVars, cancel, stored, requestVars, spc, tpc, rest>>
      /\ \A y \in Syncer : y # x => sync'[y] = sync[y]
      /\ (Pick(x) /\ Unfinished /\ sync[x] = Idle) \/ sync[x] # Idle
      /\ \/ sync'[x].sees \in {"none", sync[x].sees}
         \/ sync'[x].sees = Summary /\ rows # {}
  BY SyncFrame DEF ParseInv
<1>2. \/ UNCHANGED docVars
      \/ sync[x].sees = "done" /\ run' = "DONE" /\ progress' = Full
      \/ sync[x].sees = "fail" /\ run' = "FAIL" /\ progress' = Failed
      \/ sync[x].sees = "running" /\ run' = "RUNNING" /\ progress' = Part
      \/ run' = "RUNNING" /\ progress' = progress
  BY SyncFrame DEF ParseInv
<1>4. Waiting => Waiting'
  BY SyncWaits
<1>5. ASSUME Parsing PROVE Parsing'
  <2>1. ASSUME Summary = "done" PROVE stored = Page
    <3>1. \A t \in rows : tprog[t] = Full
      BY <2>1 DEF Summary, ParseInv
    <3>2. \A p \in Page : p \in stored
      BY <1>5, <3>1 DEF Parsing
    <3> QED
      BY <3>2 DEF ParseInv
  <2>2. sync'[x].sees = "done" => stored = Page
    BY <1>1, <1>5, <2>1 DEF Parsing
  <2>3. run' = "DONE" => stored = Page
    BY <1>2, <1>5 DEF Parsing
  <2>4. \A y \in Syncer : sync'[y].sees = "done" => stored' = Page
    BY <1>1, <1>5, <2>2 DEF Parsing
  <2> QED
    BY <1>1, <1>5, <2>3, <2>4 DEF Parsing
<1> QED
  BY <1>1, <1>4, <1>5 DEF RestInv, ParseInv

(* An execution deletes nothing, since its task is not canceled, and       *)
(* finishes its task only after it has stored its page.                    *)
LEMMA TaskRests ==
  ASSUME ParseInv, NEW t \in Task, TaskStep(t) \/ FinallyFails(t) \/ Crash(t) \/ Expire(t), rest'
  PROVE  RestInv'
<1> USE DEF ParseInv, TypeOK
<1>1. /\ UNCHANGED <<rows, requestVars, spc, rest>> /\ cancel' \subseteq cancel
      /\ \A u \in Task : u # t => tpc'[u] = tpc[u] /\ tprog'[u] = tprog[u]
      /\ tpc[t] \in {"none", "over"} => Sync(t) \/ Expire(t)
  BY TaskFrame
<1>2. CASE Sync(t)
  BY <1>2, SyncRests DEF Syncer
<1>4. CASE Expire(t)
  <2>1. /\ UNCHANGED <<docVars, rowVars, stored, requestVars, spc, tpc, sync, rest>>
        /\ cancel' \subseteq cancel
    BY <1>4 DEF Expire
  <2> QED
    BY <2>1 DEF RestInv, Waiting, Parsing, EachPageOnce
<1>3. ASSUME ~Sync(t), ~Expire(t) PROVE RestInv'
  <2>0. rest /\ Parsing
    BY <1>1, <1>3 DEF RestInv, Waiting
  <2>a. t \notin cancel /\ tpc[t] \notin {"wipe", "wipe_raised"}
        /\ (tpc[t] \in {"inserted", "indexed"} => PageOf[t] \in stored)
    BY <1>1, <1>3, <2>0 DEF Parsing
  <2>1. /\ stored' \in {stored, stored \cup {PageOf[t]}}
        /\ run' = "DONE" => run = "DONE"
        /\ tpc'[t] \in {"inserted", "indexed"} => PageOf[t] \in stored'
        /\ tpc'[t] \notin {"wipe", "wipe_raised"}
    <3>1. CASE Collect(t) \/ Abandon(t) \/ Accept(t) \/ Insert(t) \/ UpdateChunkIds(t)
      BY <2>a, <3>1 DEF Collect, Abandon, Accept, Insert, UpdateChunkIds
    <3>2. CASE Notice(t) \/ Error(t) \/ FailDoc(t) \/ LateFail(t)
      BY <2>a, <3>2 DEF Notice, Error, FailDoc, LateFail, SetFailed, Busy
    <3>3. CASE Report(t) \/ Finally(t) \/ Wipe(t) \/ StartSync(t) \/ End(t)
      BY <2>a, <3>3 DEF Report, Finally, Wipe, StartSync, End
    <3>4. CASE FinallyFails(t) \/ Crash(t)
      BY <2>a, <3>4 DEF FinallyFails, Crash
    <3> QED
      BY <1>3, <3>1, <3>2, <3>3, <3>4 DEF TaskStep
  <2>5. tprog'[t] = Full => tprog[t] = Full \/ tpc[t] = "indexed"
    <3>1. CASE Collect(t)
      BY <3>1 DEF Collect
    <3>2. CASE Notice(t) \/ Error(t) \/ LateFail(t)
      <4>1. tprog' = tprog \/ tprog' = [tprog EXCEPT ![t] = Failed]
        BY <3>2 DEF Notice, Error, LateFail, SetFailed
      <4> QED
        BY <4>1
    <3>3. CASE Report(t)
      BY <3>3 DEF Report
    <3>4. CASE ~(Collect(t) \/ Notice(t) \/ Error(t) \/ LateFail(t) \/ Report(t))
      BY <1>3, <3>4 DEF TaskStep, Abandon, Accept, Insert, UpdateChunkIds, FailDoc, Finally, Wipe,
         StartSync, End, FinallyFails, Crash
    <3> QED
      BY <3>1, <3>2, <3>3, <3>4
  <2>6. \A x \in Syncer : sync'[x].sees \in {"none", sync[x].sees}
    <3>1. CASE StartSync(t)
      BY <3>1 DEF StartSync, Syncer
    <3>2. CASE Crash(t)
      BY <3>2 DEF Crash, Syncer
    <3>3. CASE ~StartSync(t) /\ ~Crash(t)
      BY <1>3, <3>3 DEF TaskStep, Collect, Abandon, Accept, Insert, UpdateChunkIds, Notice, Error,
         FailDoc, LateFail, SetFailed, Report, Finally, Wipe, End, FinallyFails
    <3> QED
      BY <3>1, <3>2, <3>3
  <2>b. PageOf[t] \in Page
    BY LifecycleAssumption
  <2>2. stored \subseteq stored' /\ (stored = Page => stored' = Page)
    BY <2>1, <2>b
  <2>3. \A u \in rows' : tprog'[u] = Full => PageOf[u] \in stored'
    BY <1>1, <2>0, <2>1, <2>2, <2>5, <2>a DEF Parsing
  <2>4. \A u \in Task :
          /\ tpc'[u] \in {"inserted", "indexed"} => PageOf[u] \in stored'
          /\ tpc'[u] \notin {"none", "over"} => u \notin cancel'
          /\ tpc'[u] \notin {"wipe", "wipe_raised"}
    BY <1>1, <2>0, <2>1, <2>2, <2>a DEF Parsing
  <2>7. Parsing'
    BY <1>1, <2>0, <2>1, <2>2, <2>3, <2>4, <2>6 DEF Parsing
  <2> QED
    BY <1>1, <2>0, <2>7 DEF RestInv
<1> QED
  BY <1>2, <1>3, <1>4

LEMMA StepRests ==
  ASSUME ParseInv, [Next]_vars
  PROVE  RestInv'
<1> SUFFICES ASSUME rest' PROVE RestInv'
  BY DEF RestInv
<1>1. CASE UNCHANGED vars
  <2>1. (Waiting => Waiting') /\ (Parsing => Parsing')
    BY <1>1 DEF vars, Waiting, Parsing, EachPageOnce
  <2> QED
    BY <1>1, <2>1 DEF vars, RestInv, ParseInv
<1>2. CASE StopCheck \/ StopStep \/ StopFails
  BY <1>2 DEF StopCheck, StopStep, StopFlag, SetCancelKeys, StopMark, StopRows, StopClean,
     StopFails, RestInv, ParseInv
<1>3. ASSUME NEW x \in Thread, Pick(x) \/ Sync(x) PROVE RestInv'
  BY <1>3, SyncRests DEF Syncer
<1> QED
  BY <1>1, <1>2, <1>3, MarkWaits, RequestRests, TaskRests DEF Next

(* A document that waits goes on to wait until the rows are inserted.      *)
LEMMA StepWaits ==
  ASSUME ParseInv, [Next]_vars, rest', ~rest \/ Waiting
  PROVE  Waiting' \/ (rest /\ \E r \in Run : InsertRows(r))
<1> USE DEF ParseInv, TypeOK
<1>1. CASE UNCHANGED vars
  BY <1>1 DEF vars, Waiting, EachPageOnce
<1>2. ASSUME NEW r \in Run, Mark(r) PROVE Waiting'
  BY <1>2, MarkWaits
<1>3. ASSUME NEW r \in Run, RequestStep(r) PROVE Waiting' \/ (rest /\ InsertRows(r))
  <2>1. rest
    BY <1>3 DEF RequestStep, DeleteRows, DeleteChunks, ReadPrev, Purge, DropLeftOver,
                InsertRows, Begin, Send
  <2> QED
    BY <1>3, <2>1, WaitingRequest
<1>4. ASSUME NEW r \in Run, RequestFails(r) PROVE Waiting'
  <2>1. /\ UNCHANGED <<docVars, rowVars, cancel, stored, reuse, drop, unsent, spc, tpc, sync, rest>>
        /\ rpc' = [rpc EXCEPT ![r] = "failed"]
    BY <1>4 DEF RequestFails
  <2>2. EachPageOnce' <=> EachPageOnce
    BY <2>1 DEF EachPageOnce
  <2> QED
    BY <2>1, <2>2 DEF Waiting, Ended, Before
<1>5. CASE StopCheck \/ StopStep \/ StopFails
  BY <1>5 DEF StopCheck, StopStep, StopFlag, SetCancelKeys, StopMark, StopRows, StopClean,
     StopFails, RestInv
<1>6. ASSUME NEW t \in Task, TaskStep(t) \/ FinallyFails(t) \/ Crash(t) \/ Expire(t) PROVE Waiting'
  <2>1. rest /\ Waiting
    BY <1>6, TaskFrame
  <2>2. CASE Expire(t)
    BY <2>1, <2>2 DEF Expire, Waiting, EachPageOnce, docVars, rowVars, requestVars
  <2>3. CASE Sync(t)
    BY <2>1, <2>3, SyncWaits DEF Syncer
  <2> QED
    BY <1>6, <2>1, <2>2, <2>3, TaskFrame DEF Waiting
<1>7. ASSUME NEW x \in Thread, Pick(x) \/ Sync(x) PROVE Waiting'
  <2>1. rest /\ Waiting
    BY <1>7, SyncFrame DEF Syncer
  <2> QED
    BY <1>7, <2>1, SyncWaits DEF Syncer
<1> QED
  BY <1>1, <1>2, <1>3, <1>4, <1>5, <1>6, <1>7 DEF Next

(* ParseInv is inductive.                                                  *)
THEOREM ParseInvariant == Spec => []ParseInv
<1>1. Init => ParseInv
  <2> SUFFICES ASSUME Init PROVE ParseInv
    OBVIOUS
  <2>1. TypeOK
    BY InitIInv DEF IInv
  <2> QED
    BY <2>1 DEF Init, ParseInv, FreshInv, RestInv, TasksOf
<1>2. ParseInv /\ [Next]_vars => ParseInv'
  BY StepTypeOK, StepFresh, StepRests DEF ParseInv
<1> QED
  BY <1>1, <1>2, PTL DEF Spec

(* A document that was at rest when it was parsed is DONE only when the    *)
(* chunks of all its pages are in the store.                               *)
THEOREM DoneIsStored == Spec => []DoneMeansStored
<1>1. ParseInv => DoneMeansStored
  BY DEF ParseInv, RestInv, Waiting, Parsing, DoneMeansStored
<1> QED
  BY <1>1, ParseInvariant, PTL

-----------------------------------------------------------------------------
(* Sets of tasks are finite, and counting them respects inclusion.         *)
LEMMA TaskSets ==
  ASSUME NEW S \in SUBSET Task
  PROVE  /\ IsFiniteSet(S) /\ Cardinality(S) \in Nat
         /\ \A T \in SUBSET S : Cardinality(T) <= Cardinality(S)
         /\ \A T \in SUBSET Task, t \in Task :
              T \subseteq S \cup {t} => Cardinality(T) <= Cardinality(S) + 1
         /\ \A T \in SUBSET Task, t \in Task :
              S \cup {t} \subseteq T /\ t \notin S => Cardinality(T) >= Cardinality(S) + 1
<1>1. IsFiniteSet(S) /\ Cardinality(S) \in Nat
  BY FS_Subset, FS_CardinalityType, CountersAssumption
<1>2. \A T \in SUBSET S : Cardinality(T) <= Cardinality(S)
  BY <1>1, FS_Subset
<1>3. ASSUME NEW T \in SUBSET Task, NEW t \in Task, T \subseteq S \cup {t}
      PROVE  Cardinality(T) <= Cardinality(S) + 1
  <2>0. /\ IsFiniteSet(S \cup {t})
        /\ Cardinality(S \cup {t}) = IF t \in S THEN Cardinality(S) ELSE Cardinality(S) + 1
    BY <1>1, FS_AddElement, Zenon
  <2>1. IsFiniteSet(S \cup {t}) /\ Cardinality(S \cup {t}) <= Cardinality(S) + 1
    BY <1>1, <2>0
  <2>2. Cardinality(T) <= Cardinality(S \cup {t})
    BY <1>3, <2>1, FS_Subset
  <2>3. Cardinality(T) \in Nat /\ Cardinality(S \cup {t}) \in Nat
    BY <2>1, FS_Subset, FS_CardinalityType, CountersAssumption
  <2> QED
    BY <1>1, <2>1, <2>2, <2>3
<1>4. ASSUME NEW T \in SUBSET Task, NEW t \in Task, S \cup {t} \subseteq T, t \notin S
      PROVE  Cardinality(T) >= Cardinality(S) + 1
  <2>0. Cardinality(S \cup {t}) = IF t \in S THEN Cardinality(S) ELSE Cardinality(S) + 1
    BY <1>1, FS_AddElement, Zenon
  <2>1. Cardinality(S \cup {t}) = Cardinality(S) + 1 /\ IsFiniteSet(T)
    BY <1>1, <1>4, <2>0, FS_Subset, CountersAssumption
  <2>2. Cardinality(S \cup {t}) <= Cardinality(T)
    BY <1>4, <2>1, FS_Subset
  <2>3. Cardinality(T) \in Nat
    BY <2>1, FS_CardinalityType
  <2> QED
    BY <1>1, <2>1, <2>2, <2>3
<1> QED
  BY <1>1, <1>2, <1>3, <1>4

(* A request takes over at most as many tasks as there are finished ones:  *)
(* its own have different pages, so each takes another.                    *)
LEMMA TakeoverCounts ==
  ASSUME NEW r \in Run, NEW S \in SUBSET TasksOf(r), NEW T \in SUBSET Task, NEW from \in [S -> T],
         \A t \in S : PageOf[from[t]] = PageOf[t]
  PROVE  Cardinality(S) <= Cardinality(T)
<1>1. IsFiniteSet(T)
  BY TaskSets
<1>2. \A t, u \in S : from[t] = from[u] => t = u
  BY CountersAssumption DEF TasksOf
<1>3. from \in Injection(S, T)
  BY <1>2 DEF Injection, IsInjective
<1> QED
  BY <1>1, <1>3, FS_Injection

(* A request has one task for each page.                                   *)
LEMMA TasksOfPages ==
  ASSUME NEW r \in Run
  PROVE  Cardinality(Page) = Cardinality(TasksOf(r)) /\ Cardinality(Page) \in Nat
<1> DEFINE f == [t \in TasksOf(r) |-> PageOf[t]]
<1>1. IsFiniteSet(TasksOf(r)) /\ Cardinality(TasksOf(r)) \in Nat
  BY TaskSets DEF TasksOf
<1>2. f \in [TasksOf(r) -> Page]
  BY LifecycleAssumption DEF TasksOf
<1>3. \A p \in Page : \E t \in TasksOf(r) : f[t] = p
  BY LifecycleAssumption DEF TasksOf
<1>4. \A t, u \in TasksOf(r) : f[t] = f[u] => t = u
  BY CountersAssumption DEF TasksOf
<1>5. f \in Surjection(TasksOf(r), Page)
  BY <1>2, <1>3 DEF Surjection, Range
<1>6. f \in Injection(TasksOf(r), Page)
  BY <1>2, <1>4 DEF Injection, IsInjective
<1> HIDE DEF f
<1> QED
  BY <1>1, <1>5, <1>6, FS_Surjection

(* Pending depends on what the requests do, and for one request it is what *)
(* that has read.                                                          *)
PendingOf(c, k) ==
  LET S == {r \in Run : c[r] = "update"}
  IN IF S = {} THEN 0 ELSE k[CHOOSE r \in S : \A q \in S : k[q] <= k[r]]

LEMMA PendingNow == Pending = PendingOf(cpc, took) /\ Pending' = PendingOf(cpc', took')
BY DEF Pending, PendingOf

LEMMA PendingNone ==
  ASSUME NEW c, NEW k, \A r \in Run : c[r] # "update"
  PROVE  PendingOf(c, k) = 0
<1>1. {r \in Run : c[r] = "update"} = {}
  OBVIOUS
<1> QED
  BY <1>1, Zenon DEF PendingOf

LEMMA PendingOne ==
  ASSUME NEW c, NEW k \in [Run -> Nat], NEW r \in Run, c[r] = "update",
         \A q \in Run : q # r => c[q] # "update"
  PROVE  PendingOf(c, k) = k[r]
<1>1. {q \in Run : c[q] = "update"} = {r}
  OBVIOUS
<1>2. k[r] <= k[r]
  OBVIOUS
<1>3. (CHOOSE q \in {r} : \A p \in {r} : k[p] <= k[q]) = r
  BY <1>2
<1>4. {r} # {}
  OBVIOUS
<1> QED
  BY <1>1, <1>3, <1>4, Zenon DEF PendingOf

-----------------------------------------------------------------------------
(* The steps that are not a parse request's, and what they leave alone.    *)
OtherStep ==
  \/ CStopCheck \/ CStopStep
  \/ \E t \in Task : CTaskStep(t) \/ DropRemoved(t) \/ CFinallyFails(t) \/ CCrash(t) \/ CExpire(t)
  \/ RemoveRows \/ RemoveDoc \/ RemoveStep

LEMMA OtherFrame ==
  ASSUME CountersTypeOK, OtherStep
  PROVE  /\ UNCHANGED <<requestVars, cpc, took>>
         /\ raced' = raced \/ RemoveDoc
<1> USE DEF CountersTypeOK
<1>1. CASE CStopCheck \/ CStopStep
  BY <1>1 DEF CStopCheck, CStopStep, StopCheck, StopStep, StopFlag, SetCancelKeys, StopMark,
     StopRows, StopClean, ledger, past
<1>2. ASSUME NEW t \in Task, CTaskStep(t) \/ CFinallyFails(t) \/ CCrash(t) \/ CExpire(t)
      PROVE  UNCHANGED <<requestVars, cpc, took, raced>>
  <2>1. CASE LastCheck(t) \/ increment_chunk_num(t)
    BY <2>1 DEF LastCheck, increment_chunk_num, past, vars
  <2>2. CASE TaskStep(t) \/ FinallyFails(t) \/ Crash(t) \/ Expire(t)
    <3>1. UNCHANGED requestVars
      BY <2>2, TaskFrame
    <3> QED
      BY <1>2, <2>2, <3>1 DEF CTaskStep, CFinallyFails, CCrash, CExpire, LastCheck,
         increment_chunk_num, ledger, past
  <2> QED
    BY <1>2, <2>1, <2>2 DEF CTaskStep, CFinallyFails, CCrash, CExpire
<1>3. ASSUME NEW t \in Task, DropRemoved(t) PROVE UNCHANGED <<requestVars, cpc, took, raced>>
  BY <1>3 DEF DropRemoved, countVars, ledger, past
<1>4. CASE RemoveRows \/ RemoveStep
  BY <1>4 DEF RemoveRows, RemoveStep, RemoveFlags, SetCancelKeys, RemoveRowsLeft, RemoveChunks,
     vars, past
<1>5. CASE RemoveDoc
  BY <1>5 DEF RemoveDoc
<1> QED
  BY <1>1, <1>2, <1>3, <1>4, <1>5 DEF OtherStep

(* Most steps are steps of the life cycle.                                 *)
LEMMA LifecycleStep ==
  ASSUME [CountersNext]_allVars
  PROVE  \/ [Next]_vars
         \/ \E r \in Run : ClearLost(r)
         \/ \E t \in Task : DropRemoved(t)
         \/ RemoveRows \/ RemoveDoc \/ RemoveStep
<1>1. CASE UNCHANGED allVars
  BY <1>1 DEF allVars
<1>2. ASSUME NEW r \in Run,
             ReadRun(r) \/ CMark(r) \/ CRequestStep(r) \/ CRequestFails(r)
      PROVE  [Next]_vars
  BY <1>2 DEF ReadRun, CMark, CRequestStep, CRequestFails, ReadCount, Clear, SetCount, Next
<1>3. ASSUME CStopCheck \/ CStopStep PROVE [Next]_vars
  BY <1>3 DEF CStopCheck, CStopStep, Next
<1>4. ASSUME NEW t \in Task, CTaskStep(t) \/ CFinallyFails(t) \/ CCrash(t) \/ CExpire(t) PROVE [Next]_vars
  BY <1>4 DEF CTaskStep, CFinallyFails, CCrash, CExpire, LastCheck, increment_chunk_num, Next
<1> QED
  BY <1>1, <1>2, <1>3, <1>4 DEF CountersNext

(* Every step keeps the types of the life cycle, and its tasks unknown     *)
(* until their request inserts them.                                       *)
LEMMA LifecycleKept ==
  ASSUME TypeOK, FreshInv, [CountersNext]_allVars
  PROVE  TypeOK' /\ FreshInv'
<1> USE DEF TypeOK, FreshInv
<1>1. CASE [Next]_vars
  BY <1>1, StepTypeOK, StepFresh
<1>2. ASSUME NEW r \in Run, ClearLost(r) PROVE TypeOK' /\ FreshInv'
  <2>1. faults' \in 0..MaxFaults
    BY <1>2, LifecycleAssumption DEF ClearLost
  <2> QED
    BY <1>2, <2>1 DEF ClearLost
<1>3. ASSUME NEW t \in Task, DropRemoved(t) PROVE TypeOK' /\ FreshInv'
  BY <1>3 DEF DropRemoved
<1>4. CASE RemoveRows
  <2>1. stops' \in 0..MaxStops
    BY <1>4, LifecycleAssumption DEF RemoveRows
  <2> QED
    BY <1>4, <2>1 DEF RemoveRows
<1>5. CASE RemoveDoc
  <2>1. \/ UNCHANGED <<stops, rest, stopped>>
        \/ stops < MaxStops /\ stops' = stops + 1 /\ rest' = FALSE /\ stopped' = "no"
    BY <1>5 DEF RemoveDoc
  <2>2. stops' \in 0..MaxStops
    BY <2>1, LifecycleAssumption
  <2>3. rest' \in BOOLEAN /\ stopped' \in {"no", "flagged", "clean"}
    BY <2>1
  <2> QED
    BY <1>5, <2>2, <2>3 DEF RemoveDoc
<1>6. CASE RemoveFlags
  <2>1. cancel' \subseteq cancel \cup rows /\ faults' \in 0..MaxFaults
    BY <1>6, KeysAreSet DEF RemoveFlags
  <2> QED
    BY <1>6, <2>1 DEF RemoveFlags
<1>7. CASE RemoveRowsLeft \/ RemoveChunks
  <2>1. faults' \in 0..MaxFaults
    BY <1>7, LifecycleAssumption DEF RemoveRowsLeft, RemoveChunks, Fault
  <2>2. rows' \subseteq rows /\ chunk_ids' \subseteq rows'
    BY <1>7 DEF RemoveRowsLeft, RemoveChunks
  <2> QED
    BY <1>7, <2>1, <2>2 DEF RemoveRowsLeft, RemoveChunks
<1> QED
  BY <1>1, <1>2, <1>3, <1>4, <1>5, <1>6, <1>7, LifecycleStep DEF RemoveStep

(* A step of a request keeps the types of the counters.                    *)
LEMMA RequestCounters ==
  ASSUME CountersTypeOK, NEW r \in Run,
         ReadRun(r) \/ CMark(r) \/ CRequestStep(r) \/ ClearLost(r) \/ CRequestFails(r)
  PROVE  /\ chunk_num' \in Nat /\ kb' \in Int
         /\ cpc' \in [Run -> {"idle", "read", "clear", "update", "count", "counted", "lost"}]
         /\ took' \in [Run -> Nat] /\ paid' = paid /\ mpc' = mpc
         /\ tidy' \in BOOLEAN /\ raced' \in BOOLEAN /\ escaped' = escaped
<1> USE DEF CountersTypeOK, CGo, counters, past
<1>1. CASE ReadRun(r)
  <2>1. tidy' \in BOOLEAN /\ raced' \in BOOLEAN
    BY <1>1, Zenon DEF ReadRun, Overlap
  <2> QED
    BY <1>1, <2>1 DEF ReadRun
<1>2. CASE CMark(r)
  <2>1. tidy' \in BOOLEAN /\ raced' \in BOOLEAN /\ cpc' = [cpc EXCEPT ![r] = "count"]
        /\ chunk_num' \in {0, chunk_num}
    <3>1. CASE rpc'[r] = "rows"
      BY <1>2, <3>1 DEF CMark
    <3>2. CASE rpc'[r] # "rows"
      <4>1. tidy' = FALSE /\ raced' = (raced \/ \E q \in Run \ {r} : Serving(q))
            /\ cpc' = [cpc EXCEPT ![r] = "count"] /\ chunk_num' \in {0, chunk_num}
        BY <1>2, <3>2 DEF CMark, Overlap
      <4>2. raced' \in BOOLEAN
        BY <4>1, Zenon
      <4> QED
        BY <4>1, <4>2
    <3> QED
      BY <3>1, <3>2
  <2> QED
    BY <1>2, <2>1 DEF CMark
<1>3. CASE ReadCount(r) \/ Clear(r)
  BY <1>3 DEF ReadCount, Clear
<1>4. CASE SetCount(r)
  <2>1. Cardinality(reuse[r]) \in Nat
    BY TaskSets DEF TypeOK
  <2> QED
    BY <1>4, <2>1 DEF SetCount
<1>5. CASE CRequestStep(r) /\ ~(ReadCount(r) \/ Clear(r) \/ SetCount(r))
  BY <1>5 DEF CRequestStep
<1>6. CASE ClearLost(r) \/ CRequestFails(r)
  <2>1. raced' \in BOOLEAN
    BY <1>6, Zenon DEF ClearLost, CRequestFails
  <2> QED
    BY <1>6, <2>1 DEF ClearLost, CRequestFails
<1> QED
  BY <1>1, <1>2, <1>3, <1>4, <1>5, <1>6 DEF CRequestStep

(* So does any other step.                                                 *)
LEMMA OtherCounters ==
  ASSUME CountersTypeOK, OtherStep
  PROVE  /\ chunk_num' \in Nat /\ kb' \in Int
         /\ paid' \in [Task -> {"no", "checked", "yes"}]
         /\ mpc' \in {"idle", "doc", "flags", "rows", "chunks", "over"}
         /\ tidy' \in BOOLEAN /\ raced' \in BOOLEAN /\ escaped' \subseteq Page
<1> USE DEF CountersTypeOK
<1>1. CASE CStopCheck \/ CStopStep
  <2>1. UNCHANGED <<kb, paid, mpc, raced, escaped>>
    BY <1>1 DEF CStopCheck, CStopStep, counters, ledger, past
  <2>2. chunk_num' \in {chunk_num, 0}
    BY <1>1 DEF CStopCheck, CStopStep, counters
  <2>3. tidy' \in BOOLEAN
    BY <1>1, Zenon DEF CStopCheck, CStopStep, past
  <2> QED
    BY <2>1, <2>2, <2>3
<1>2. ASSUME NEW t \in Task, CTaskStep(t) \/ DropRemoved(t) PROVE
         /\ UNCHANGED <<mpc, past>> /\ chunk_num' \in Nat /\ kb' \in Int
         /\ paid' \in [Task -> {"no", "checked", "yes"}]
  BY <1>2 DEF CTaskStep, LastCheck, increment_chunk_num, DropRemoved, countVars, counters, ledger,
              past
<1>3. ASSUME NEW t \in Task, CFinallyFails(t) \/ CCrash(t) \/ CExpire(t) PROVE
         /\ UNCHANGED <<counters, mpc, tidy, raced>> /\ escaped' \subseteq Page
         /\ paid' \in [Task -> {"no", "checked", "yes"}]
  <2>1. PageOf[t] \in Page
    BY LifecycleAssumption
  <2> QED
    BY <1>3, <2>1 DEF CFinallyFails, CCrash, CExpire, counters, ledger
<1>4. CASE RemoveRows \/ RemoveRowsLeft \/ RemoveChunks
  <2>1. escaped' \subseteq escaped \cup stored
    BY <1>4 DEF RemoveRows, RemoveRowsLeft, RemoveChunks, past
  <2>2. UNCHANGED <<counters, paid, tidy, raced>>
    BY <1>4 DEF RemoveRows, RemoveRowsLeft, RemoveChunks, past
  <2>3. mpc' \in {"doc", "chunks", "over"}
    BY <1>4 DEF RemoveRows, RemoveRowsLeft, RemoveChunks, Remove
  <2> QED
    BY <2>1, <2>2, <2>3 DEF counters, TypeOK
<1>5. CASE RemoveDoc
  <2>1. raced' \in BOOLEAN
    BY <1>5, Zenon DEF RemoveDoc
  <2> QED
    BY <1>5, <2>1 DEF RemoveDoc, Remove
<1>6. CASE RemoveFlags
  <2>1. NotCanceled(cancel') \subseteq Page
    BY LifecycleAssumption DEF NotCanceled
  <2> QED
    BY <1>6, <2>1 DEF RemoveFlags, SetCancelKeys, Remove, counters
<1> QED
  BY <1>1, <1>2, <1>3, <1>4, <1>5, <1>6 DEF OtherStep, RemoveStep, counters, past

(* Every step is one of a request, or another.                             *)
LEMMA CountersSteps ==
  ASSUME [CountersNext]_allVars
  PROVE  \/ \E r \in Run : \/ ReadRun(r) \/ CMark(r) \/ CRequestStep(r) \/ ClearLost(r)
                            \/ CRequestFails(r)
         \/ OtherStep
         \/ UNCHANGED allVars
BY DEF CountersNext, OtherStep

LEMMA CountersTypeKept ==
  ASSUME CountersTypeOK, FreshInv, [CountersNext]_allVars
  PROVE  CountersTypeOK'
<1>1. TypeOK'
  BY LifecycleKept DEF CountersTypeOK
<1>2. ASSUME NEW r \in Run,
             ReadRun(r) \/ CMark(r) \/ CRequestStep(r) \/ ClearLost(r) \/ CRequestFails(r)
      PROVE  CountersTypeOK'
  BY <1>1, <1>2, RequestCounters DEF CountersTypeOK
<1>3. CASE OtherStep
  BY <1>1, <1>3, OtherCounters, OtherFrame DEF CountersTypeOK
<1>4. CASE UNCHANGED allVars
  BY <1>4, <1>1 DEF CountersTypeOK, allVars, countVars, counters, ledger, past
<1> QED
  BY <1>2, <1>3, <1>4, CountersSteps

-----------------------------------------------------------------------------
(* Where a step takes a request, and the rows.                             *)
LEMMA RequestMoves ==
  ASSUME TypeOK, NEW r \in Run, RequestStep(r)
  PROVE  /\ rpc[r] \notin Ended /\ rpc'[r] \notin {"idle", "rows", "chunks_first"}
         /\ rpc[r] \notin Before \ {"insert"} => rpc'[r] \notin Before
         /\ \A s \in Run : s # r => rpc'[s] = rpc[s] /\ reuse'[s] = reuse[s]
                                    /\ unsent'[s] = unsent[s]
         /\ rpc'[r] \in {"chunks", "drop", "insert"} =>
              rows' = {} \/ (rpc[r] = "drop" /\ rows' = rows)
         /\ ~InsertRows(r) => rows' \in {rows, {}} /\ UNCHANGED tprog
         /\ UNCHANGED <<spc, retry_count, cancel, faults, stops, rest>>
<1> USE DEF TypeOK, Ended, Before
<1>1. CASE DeleteRows(r) \/ DeleteChunks(r)
  BY <1>1 DEF DeleteRows, DeleteChunks, InsertRows
<1>2. CASE ReadPrev(r)
  <2>1. PICK S \in SUBSET TasksOf(r) : reuse' = [reuse EXCEPT ![r] = S]
    BY <1>2 DEF ReadPrev
  <2> QED
    BY <1>2, <2>1 DEF ReadPrev, InsertRows
<1>3. CASE Purge(r) \/ DropLeftOver(r)
  BY <1>3 DEF Purge, DropLeftOver, InsertRows
<1>4. CASE InsertRows(r) \/ Begin(r)
  BY <1>4 DEF InsertRows, Begin
<1>5. ASSUME NEW t \in Task, Send(r, t)
      PROVE  /\ rpc[r] = "send" /\ rpc'[r] \in {"send", "served"}
             /\ \A s \in Run : s # r => rpc'[s] = rpc[s] /\ unsent'[s] = unsent[s]
             /\ UNCHANGED <<rowVars, reuse, spc, cancel, bounds, history>>
  BY <1>5 DEF Send
<1> QED
  BY <1>1, <1>2, <1>3, <1>4, <1>5 DEF RequestStep

(* A request's counters and its other steps go together.                   *)
LEMMA ControlKept ==
  ASSUME CountersTypeOK, FreshInv, ControlInv, [CountersNext]_allVars
  PROVE  ControlInv'
<1> USE DEF CountersTypeOK, TypeOK, CGo
<1> DEFINE Unfinished1 == {"collected", "abandon"} \cup Busy
<1>0. CASE UNCHANGED allVars
  BY <1>0 DEF allVars, vars, countVars, counters, ledger, past, ControlInv
<1>1. ASSUME NEW r \in Run,
             ReadRun(r) \/ CMark(r) \/ CRequestStep(r) \/ ClearLost(r) \/ CRequestFails(r)
      PROVE  \A s \in Run :
               /\ rpc'[s] # "idle" <=> cpc'[s] \in {"count", "counted"}
               /\ took'[s] # 0 => cpc'[s] \in {"clear", "update"} \/ rpc'[s] = "rows"
               /\ cpc'[s] = "counted" => rpc'[s] \notin Before \ {"insert"}
  <2> USE DEF ControlInv
  <2>1. CASE ReadRun(r)
    BY <2>1 DEF ReadRun, vars
  <2>2. CASE CMark(r)
    <3>1. /\ cpc' = [cpc EXCEPT ![r] = "count"] /\ took' = took
          /\ rpc' = [rpc EXCEPT ![r] = rpc'[r]] /\ rpc'[r] # "idle" /\ rpc[r] = "idle"
          /\ rpc'[r] = "rows" \/ cpc[r] = "idle"
      BY <2>2 DEF CMark, Mark
    <3> QED
      BY <3>1
  <2>3. CASE ReadCount(r) \/ Clear(r) \/ SetCount(r)
    BY <2>3 DEF ReadCount, Clear, SetCount, vars, Before
  <2>4. CASE RequestStep(r) /\ took' = [took EXCEPT ![r] = 0] /\ cpc' = cpc
    <3>1. /\ rpc[r] # "idle" /\ rpc'[r] # "idle" /\ \A s \in Run : s # r => rpc'[s] = rpc[s]
          /\ rpc[r] \notin Before \ {"insert"} => rpc'[r] \notin Before
      BY <2>4, RequestMoves DEF Ended
    <3> QED
      BY <2>4, <3>1
  <2>5. CASE ClearLost(r)
    BY <2>5 DEF ClearLost
  <2>6. CASE CRequestFails(r)
    BY <2>6 DEF CRequestFails, RequestFails, Before
  <2> QED
    BY <1>1, <2>1, <2>2, <2>3, <2>4, <2>5, <2>6 DEF CRequestStep
<1>2. ASSUME OtherStep
      PROVE  \A s \in Run :
               /\ rpc'[s] # "idle" <=> cpc'[s] \in {"count", "counted"}
               /\ took'[s] # 0 => cpc'[s] \in {"clear", "update"} \/ rpc'[s] = "rows"
               /\ cpc'[s] = "counted" => rpc'[s] \notin Before \ {"insert"}
  BY <1>2, OtherFrame DEF ControlInv
<1>3. ASSUME \/ UNCHANGED <<tpc, tprog, paid>>
             \/ \E u \in Task : tpc[u] \in {"none", "queued"} /\ tprog' = tprog
                                /\ tpc' \in {[tpc EXCEPT ![u] = "queued"],
                                             [tpc EXCEPT ![u] = "over"]}
                                /\ paid' = paid
      PROVE  \A t \in Task : /\ paid'[t] # "no" => tpc'[t] = "indexed"
                             /\ tpc'[t] \in Unfinished1 => tprog'[t] # Full
  BY <1>3 DEF ControlInv, Busy
<1>4. ASSUME NEW r \in Run,
             ReadRun(r) \/ CMark(r) \/ CRequestStep(r) \/ ClearLost(r) \/ CRequestFails(r)
      PROVE  \A t \in Task : /\ paid'[t] # "no" => tpc'[t] = "indexed"
                             /\ tpc'[t] \in Unfinished1 => tprog'[t] # Full
  <2>1. CASE ReadRun(r) \/ CMark(r) \/ ReadCount(r) \/ Clear(r) \/ SetCount(r) \/ ClearLost(r)
             \/ CRequestFails(r)
    BY <1>3, <2>1 DEF ReadRun, CMark, Mark, ReadCount, Clear, SetCount, ClearLost, CRequestFails,
       RequestFails, vars, ledger
  <2>2. CASE RequestStep(r) /\ paid' = paid
    <3>1. CASE InsertRows(r)
      <4>1. \A t \in reuse[r] : tpc[t] = "none"
        BY <3>1 DEF FreshInv, InsertRows, Before
      <4> QED
        BY <2>2, <3>1, <4>1 DEF InsertRows, ControlInv, Busy
    <3>2. ASSUME NEW u \in Task, Send(r, u)
          PROVE  tpc[u] = "none" /\ tprog' = tprog /\ tpc' = [tpc EXCEPT ![u] = "queued"]
      BY <3>2 DEF Send
    <3>3. CASE ~InsertRows(r) /\ ~ \E u \in Task : Send(r, u)
      BY <1>3, <2>2, <3>3 DEF RequestStep, DeleteRows, DeleteChunks, ReadPrev, Purge, DropLeftOver,
         Begin
    <3> QED
      BY <1>3, <2>2, <3>1, <3>2, <3>3
  <2> QED
    BY <1>4, <2>1, <2>2 DEF CRequestStep
<1>5. ASSUME NEW u \in Task, CTaskStep(u) \/ CFinallyFails(u) \/ CCrash(u) \/ CExpire(u)
      PROVE  \A t \in Task : /\ paid'[t] # "no" => tpc'[t] = "indexed"
                             /\ tpc'[t] \in Unfinished1 => tprog'[t] # Full
  <2> USE DEF ControlInv
  <2>1. CASE LastCheck(u) \/ increment_chunk_num(u)
    BY <2>1 DEF LastCheck, increment_chunk_num, vars
  <2>2. CASE TaskStep(u) /\ paid' = IF tpc'[u] = "indexed" THEN paid ELSE [paid EXCEPT ![u] = "no"]
    <3>1. \A t \in Task : t # u => tpc'[t] = tpc[t] /\ tprog'[t] = tprog[t]
      BY <2>2, TaskFrame
    <3>2. tpc'[u] \in Unfinished1 => tprog'[u] # Full
      <4>1. CASE Collect(u)
        BY <4>1 DEF Collect, Busy
      <4>2. CASE Accept(u) \/ Insert(u) \/ UpdateChunkIds(u)
        BY <4>2 DEF Accept, Insert, UpdateChunkIds, Busy
      <4>3. CASE Notice(u) \/ Error(u) \/ LateFail(u) \/ FailDoc(u)
        <5>1. tpc'[u] \notin Unfinished1
          BY <4>3 DEF Notice, Error, LateFail, SetFailed, FailDoc, Busy
        <5> QED
          BY <5>1
      <4>4. CASE Abandon(u) \/ Report(u) \/ Finally(u) \/ Wipe(u) \/ StartSync(u) \/ End(u)
        <5>1. tpc'[u] \notin Unfinished1
          BY <4>4 DEF Abandon, Report, Finally, Wipe, StartSync, End, Busy
        <5> QED
          BY <5>1
      <4>5. CASE Sync(u)
        <5>1. UNCHANGED <<tpc, tprog>>
          BY <4>5, SyncFrame DEF Syncer
        <5> QED
          BY <5>1
      <4> QED
        BY <2>2, <4>1, <4>2, <4>3, <4>4, <4>5 DEF TaskStep
    <3> QED
      BY <2>2, <3>1, <3>2
  <2>3. CASE CFinallyFails(u)
    BY <2>3 DEF CFinallyFails, FinallyFails, Busy, ledger
  <2>4. CASE CCrash(u)
    BY <2>4 DEF CCrash, Crash, Busy
  <2>5. CASE CExpire(u)
    BY <2>5 DEF CExpire, Expire, ledger
  <2> QED
    BY <1>5, <2>1, <2>2, <2>3, <2>4, <2>5 DEF CTaskStep
<1>6. ASSUME OtherStep
      PROVE  \A t \in Task : /\ paid'[t] # "no" => tpc'[t] = "indexed"
                             /\ tpc'[t] \in Unfinished1 => tprog'[t] # Full
  <2>1. ASSUME NEW u \in Task, DropRemoved(u)
        PROVE  tpc[u] = "queued" /\ tprog' = tprog /\ tpc' = [tpc EXCEPT ![u] = "over"]
               /\ paid' = paid
    BY <2>1 DEF DropRemoved, countVars, ledger
  <2>2. CASE CStopCheck \/ CStopStep \/ RemoveRows \/ RemoveDoc \/ RemoveStep
    BY <1>3, <2>2 DEF CStopCheck, CStopStep, StopCheck, StopStep, StopFlag, SetCancelKeys,
       StopMark, StopRows, StopClean, RemoveRows, RemoveDoc, RemoveStep, RemoveFlags,
       SetCancelKeys, RemoveRowsLeft, RemoveChunks, ledger, vars
  <2> QED
    BY <1>3, <1>5, <1>6, <2>1, <2>2 DEF OtherStep
<1>7. ASSUME NEW r \in Run,
             ReadRun(r) \/ CMark(r) \/ CRequestStep(r) \/ ClearLost(r) \/ CRequestFails(r)
      PROVE  ControlInv'
  BY <1>1, <1>4, <1>7 DEF ControlInv, Busy
<1>8. CASE OtherStep
  BY <1>2, <1>6, <1>8 DEF ControlInv, Busy
<1> QED
  BY <1>0, <1>7, <1>8, CountersSteps

-----------------------------------------------------------------------------
(* Without a race requests are served one at a time, and none is when the  *)
(* document is removed.                                                    *)
LEMMA AloneKept ==
  ASSUME CountersTypeOK, ControlInv, AloneInv, [CountersNext]_allVars
  PROVE  AloneInv'
<1> USE DEF CountersTypeOK, TypeOK, CGo
<1> SUFFICES ASSUME ~raced'
             PROVE  /\ \A r, s \in Run : Serving(r)' /\ Serving(s)' => r = s
                    /\ \A r \in Run : rpc'[r] \in {"chunks", "drop", "insert"} => rows' = {}
                    /\ Gone' => \A r \in Run : ~Serving(r)'
  BY DEF AloneInv
<1> DEFINE Goal == /\ \A r, s \in Run : Serving(r)' /\ Serving(s)' => r = s
                   /\ \A r \in Run : rpc'[r] \in {"chunks", "drop", "insert"} => rows' = {}
                   /\ Gone' => \A r \in Run : ~Serving(r)'
<1>0. CASE UNCHANGED allVars
  BY <1>0 DEF allVars, vars, countVars, counters, ledger, past, AloneInv, Serving, Gone
<1>a. ASSUME NEW r \in Run, ~raced, Serving(r) \/ ~Serving(r)' \/ \A s \in Run : ~Serving(s),
             \A s \in Run : s # r => rpc'[s] = rpc[s] /\ cpc'[s] = cpc[s],
             rpc'[r] \in {"chunks", "drop", "insert"} => rows' = {},
             rows' \in {rows, {}} \/ Serving(r),
             mpc' = mpc, Serving(r) \/ ~Serving(r)' \/ ~Gone
      PROVE  Goal
  <2>1. \A s \in Run : s # r => (Serving(s)' <=> Serving(s))
    BY <1>a DEF Serving
  <2>2. \A s, q \in Run : Serving(s)' /\ Serving(q)' => s = q
    BY <1>a, <2>1 DEF AloneInv
  <2>3. \A s \in Run : rpc'[s] \in {"chunks", "drop", "insert"} => rows' = {}
    BY <1>a, <2>1 DEF AloneInv, Serving
  <2>4. Gone' => \A s \in Run : ~Serving(s)'
    BY <1>a, <2>1 DEF AloneInv, Gone
  <2> QED
    BY <2>2, <2>3, <2>4
<1>1. ASSUME NEW r \in Run, ReadRun(r) PROVE Goal
  <2>1. ~raced /\ \A s \in Run : s # r => ~Serving(s)
    BY <1>1, Zenon DEF ReadRun, Overlap
  <2>2. /\ UNCHANGED <<rpc, rows, mpc>> /\ rpc[r] = "idle" /\ cpc[r] = "idle" /\ ~Gone
        /\ \A s \in Run : s # r => cpc'[s] = cpc[s]
    BY <1>1 DEF ReadRun, vars
  <2>3. ~Serving(r)
    BY <2>2 DEF Serving
  <2> QED
    BY <1>a, <2>1, <2>2, <2>3
<1>2. ASSUME NEW r \in Run, CMark(r) PROVE Goal
  <2>1. /\ rpc' = [rpc EXCEPT ![r] = rpc'[r]] /\ rpc'[r] \in {"rows", "chunks_first", "prev"}
        /\ UNCHANGED <<rows, mpc>> /\ ~Gone /\ cpc' = [cpc EXCEPT ![r] = "count"]
    BY <1>2 DEF CMark, Mark
  <2>2. (Serving(r) /\ ~raced) \/ (~raced /\ \A s \in Run : s # r => ~Serving(s))
    <3>1. CASE rpc'[r] = "rows"
      BY <1>2, <3>1 DEF CMark, Serving
    <3>2. CASE rpc'[r] # "rows"
      <4>1. Overlap(r)
        BY <1>2, <3>2 DEF CMark
      <4> QED
        BY <4>1, Zenon DEF Overlap
    <3> QED
      BY <3>1, <3>2
  <2>3. Serving(r) \/ \A s \in Run : ~Serving(s)
    BY <2>2
  <2> QED
    BY <1>a, <2>1, <2>2, <2>3
<1>3. ASSUME NEW r \in Run, ReadCount(r) \/ Clear(r) \/ SetCount(r) PROVE Goal
  <2>1. /\ ~raced /\ UNCHANGED <<rpc, rows, mpc>> /\ Serving(r)
        /\ \A s \in Run : s # r => cpc'[s] = cpc[s]
    BY <1>3 DEF ReadCount, Clear, SetCount, past, vars, Serving
  <2>2. rpc'[r] \in {"chunks", "drop", "insert"} => rows' = {}
    BY <2>1 DEF AloneInv
  <2> QED
    BY <1>a, <2>1, <2>2
<1>4. ASSUME NEW r \in Run, RequestStep(r), UNCHANGED <<cpc, mpc, raced>> PROVE Goal
  <2>1. /\ ~raced /\ Serving(r) /\ \A s \in Run : s # r => rpc'[s] = rpc[s]
        /\ rpc'[r] \in {"chunks", "drop", "insert"} =>
             rows' = {} \/ (rpc[r] = "drop" /\ rows' = rows)
    BY <1>4, RequestMoves DEF Serving, Ended
  <2>2. rpc'[r] \in {"chunks", "drop", "insert"} => rows' = {}
    BY <2>1 DEF AloneInv
  <2> QED
    BY <1>4, <1>a, <2>1, <2>2
<1>5. ASSUME NEW r \in Run, ClearLost(r) \/ CRequestFails(r) PROVE Goal
  <2>1. ~raced
    BY <1>5, Zenon DEF ClearLost, CRequestFails
  <2>2. /\ UNCHANGED <<rows, mpc>>
        /\ \A s \in Run : s # r => rpc'[s] = rpc[s] /\ cpc'[s] = cpc[s]
        /\ rpc'[r] \notin {"chunks", "drop", "insert"} /\ Serving(r)
    BY <1>5 DEF ClearLost, CRequestFails, RequestFails, Serving
  <2> QED
    BY <1>a, <2>1, <2>2
<1>6. ASSUME OtherStep, ~RemoveDoc PROVE Goal
  <2>1. UNCHANGED <<rpc, cpc>> /\ ~raced
    BY <1>6, OtherFrame
  <2>2. \A s \in Run : Serving(s)' <=> Serving(s)
    BY <2>1 DEF Serving
  <2>3. rows' \in {rows, {}} /\ (Gone' <=> Gone)
    <3>1. CASE CStopCheck \/ CStopStep
      BY <3>1 DEF CStopCheck, CStopStep, StopCheck, StopStep, StopFlag, SetCancelKeys, StopMark,
         StopRows, StopClean, ledger, Gone
    <3>2. ASSUME NEW t \in Task, CTaskStep(t) \/ CFinallyFails(t) \/ CCrash(t) \/ CExpire(t)
          PROVE  UNCHANGED <<rows, mpc>>
      <4>1. CASE LastCheck(t) \/ increment_chunk_num(t)
        BY <4>1 DEF LastCheck, increment_chunk_num, vars
      <4>2. CASE TaskStep(t) \/ FinallyFails(t) \/ Crash(t) \/ Expire(t)
        <5>1. UNCHANGED rows
          BY <4>2, TaskFrame
        <5> QED
          BY <3>2, <5>1 DEF CTaskStep, CFinallyFails, CCrash, CExpire, LastCheck,
             increment_chunk_num, ledger
      <4> QED
        BY <3>2, <4>1, <4>2 DEF CTaskStep, CFinallyFails, CCrash, CExpire
    <3>3. ASSUME NEW t \in Task, DropRemoved(t) PROVE UNCHANGED <<rows, mpc>>
      BY <3>3 DEF DropRemoved, countVars, ledger
    <3>4. CASE RemoveRows \/ RemoveStep
      BY <3>4 DEF RemoveRows, RemoveStep, RemoveFlags, SetCancelKeys, RemoveRowsLeft,
         RemoveChunks, vars, Remove, Gone
    <3> QED
      BY <1>6, <3>1, <3>2, <3>3, <3>4 DEF OtherStep, Gone
  <2> QED
    BY <2>1, <2>2, <2>3 DEF AloneInv
<1>7. CASE RemoveDoc
  <2>1. ~raced /\ \A s \in Run : ~Serving(s)
    BY <1>7, Zenon DEF RemoveDoc
  <2>2. UNCHANGED <<rpc, cpc, rows>>
    BY <1>7 DEF RemoveDoc
  <2>3. \A s \in Run : ~Serving(s)'
    BY <2>1, <2>2 DEF Serving
  <2> QED
    BY <2>1, <2>2, <2>3 DEF AloneInv
<1> QED
  BY <1>0, <1>1, <1>2, <1>3, <1>4, <1>5, <1>6, <1>7, CountersSteps
  DEF CRequestStep, past

-----------------------------------------------------------------------------
(* An execution starts only while the document is there and has its row.   *)
LEMMA NoneStarts ==
  ASSUME TypeOK, NEW t \in Task, CTaskStep(t), mpc \in {"flags", "rows", "chunks", "over"}
  PROVE  /\ \A u \in Task : tpc'[u] \in RunningLabel => tpc[u] \in RunningLabel
         /\ UNCHANGED <<cancel, mpc, escaped>>
<1> USE DEF TypeOK
<1>1. CASE LastCheck(t) \/ increment_chunk_num(t)
  BY <1>1 DEF LastCheck, increment_chunk_num, vars, past
<1>2. CASE TaskStep(t) /\ UNCHANGED <<mpc, past>> /\ (tpc[t] = "queued" => t \notin rows)
  <2>1. UNCHANGED cancel /\ \A u \in Task : u # t => tpc'[u] = tpc[u]
    BY <1>2, TaskFrame, TaskKeys
  <2>2. tpc[t] \in {"none", "over"} => UNCHANGED tpc
    BY <1>2, TaskFrame
  <2>3. ASSUME tpc[t] = "queued" PROVE tpc'[t] \notin RunningLabel
    BY <1>2, <2>3 DEF TaskStep, Collect, Abandon, Accept, Insert, UpdateChunkIds, Notice, Error,
       SetFailed, FailDoc, Report, Finally, Wipe, LateFail, StartSync, Sync, SyncRead, SyncCheck,
       SyncWrite, End, RunningLabel, Busy
  <2> QED
    BY <1>2, <2>1, <2>2, <2>3 DEF past
<1> QED
  BY <1>1, <1>2 DEF CTaskStep, Gone

(* The removal cancels the executions it finds, and no others start.       *)
LEMMA RemovedKept ==
  ASSUME CountersTypeOK, RemovedInv, [CountersNext]_allVars
  PROVE  RemovedInv'
<1> USE DEF CountersTypeOK, TypeOK
<1> SUFFICES ASSUME mpc' \in {"rows", "chunks", "over"}, NEW t \in Task, tpc'[t] \in RunningLabel
             PROVE  t \in cancel' \/ PageOf[t] \in escaped'
  BY DEF RemovedInv
<1>a. ASSUME mpc \in {"rows", "chunks", "over"}, tpc[t] \in RunningLabel,
             cancel \subseteq cancel', escaped \subseteq escaped'
      PROVE  t \in cancel' \/ PageOf[t] \in escaped'
  BY <1>a DEF RemovedInv
<1>0. CASE UNCHANGED allVars
  BY <1>0, <1>a DEF allVars, vars, countVars, ledger, past
<1>1. ASSUME NEW r \in Run,
             ReadRun(r) \/ CMark(r) \/ CRequestStep(r) \/ ClearLost(r) \/ CRequestFails(r)
      PROVE  t \in cancel' \/ PageOf[t] \in escaped'
  <2>1. mpc' = mpc /\ escaped' = escaped
    BY <1>1, RequestCounters
  <2>2. cancel' = cancel /\ tpc[t] \in RunningLabel
    <3>1. CASE ReadRun(r) \/ CMark(r) \/ ReadCount(r) \/ Clear(r) \/ SetCount(r) \/ ClearLost(r)
               \/ CRequestFails(r)
      BY <3>1 DEF ReadRun, CMark, Mark, ReadCount, Clear, SetCount, ClearLost, CRequestFails,
         RequestFails, vars
    <3>2. CASE RequestStep(r)
      <4>1. cancel' = cancel
        BY <3>2, RequestMoves
      <4>2. tpc' = tpc \/ \E u \in Task : tpc' = [tpc EXCEPT ![u] = "queued"]
        BY <3>2 DEF RequestStep, DeleteRows, DeleteChunks, ReadPrev, Purge, DropLeftOver,
           InsertRows, Begin, Send
      <4> QED
        BY <4>1, <4>2 DEF RunningLabel
    <3> QED
      BY <1>1, <3>1, <3>2 DEF CRequestStep
  <2> QED
    BY <1>a, <2>1, <2>2
<1>2. CASE CStopCheck \/ CStopStep
  BY <1>2, <1>a DEF CStopCheck, CStopStep, StopCheck, StopStep, StopFlag, SetCancelKeys, StopMark,
     StopRows, StopClean, ledger, past
<1>3. ASSUME NEW u \in Task, CTaskStep(u) PROVE t \in cancel' \/ PageOf[t] \in escaped'
  <2>1. mpc' = mpc
    BY <1>3 DEF CTaskStep, LastCheck, increment_chunk_num
  <2>2. tpc[t] \in RunningLabel /\ UNCHANGED <<cancel, escaped>>
    BY <1>3, <2>1, NoneStarts
  <2> QED
    BY <1>a, <2>1, <2>2
<1>4. ASSUME NEW u \in Task, CFinallyFails(u) \/ CCrash(u)
      PROVE  t \in cancel' \/ PageOf[t] \in escaped'
  <2>1. mpc' = mpc /\ cancel' = cancel /\ escaped \subseteq escaped' /\ tpc[t] \in RunningLabel
    BY <1>4 DEF CFinallyFails, FinallyFails, CCrash, Crash, ledger, RunningLabel
  <2> QED
    BY <1>a, <2>1
<1>8. ASSUME NEW u \in Task, CExpire(u)
      PROVE  t \in cancel' \/ PageOf[t] \in escaped'
  <2>1. UNCHANGED <<mpc, tpc>> /\ cancel' = cancel \ {u} /\ escaped \subseteq escaped'
    BY <1>8 DEF CExpire, Expire, ledger
  <2>2. CASE t = u
    BY <1>8, <2>1, <2>2 DEF CExpire
  <2>3. CASE t # u
    BY <2>1, <2>3 DEF RemovedInv
  <2> QED
    BY <2>2, <2>3
<1>5. ASSUME NEW u \in Task, DropRemoved(u) PROVE t \in cancel' \/ PageOf[t] \in escaped'
  BY <1>5, <1>a DEF DropRemoved, countVars, ledger, past, RunningLabel
<1>6. CASE RemoveFlags
  <2>1. escaped' = NotCanceled(cancel') /\ tpc' = tpc
    BY <1>6 DEF RemoveFlags, SetCancelKeys
  <2> QED
    BY <2>1 DEF NotCanceled
<1>7. CASE RemoveRows \/ RemoveDoc \/ RemoveRowsLeft \/ RemoveChunks
  BY <1>7, <1>a DEF RemoveRows, RemoveDoc, RemoveRowsLeft, RemoveChunks, Remove, past
<1> QED
  BY <1>0, <1>1, <1>2, <1>3, <1>4, <1>5, <1>6, <1>7, <1>8, CountersSteps DEF OtherStep, RemoveStep

(* When the removal is over, an execution stores only what it will delete  *)
(* or what counts as escaped.                                              *)
LEMMA RemovedEmpty ==
  ASSUME CountersTypeOK, RemovedInv, RemovedIsEmpty, [CountersNext]_allVars
  PROVE  RemovedIsEmpty'
<1> USE DEF CountersTypeOK, TypeOK
<1> SUFFICES ASSUME mpc' = "over"
             PROVE  stored' \subseteq escaped' \cup {PageOf[u] : u \in ToClean'}
  BY DEF RemovedIsEmpty
<1>a. ASSUME mpc = "over", stored' \subseteq stored, escaped \subseteq escaped',
             ToClean \subseteq ToClean'
      PROVE  stored' \subseteq escaped' \cup {PageOf[u] : u \in ToClean'}
  BY <1>a DEF RemovedIsEmpty
<1>0. CASE UNCHANGED allVars
  BY <1>0, <1>a DEF allVars, vars, countVars, ledger, past, ToClean
<1>1. ASSUME NEW r \in Run,
             ReadRun(r) \/ CMark(r) \/ CRequestStep(r) \/ ClearLost(r) \/ CRequestFails(r)
      PROVE  stored' \subseteq escaped' \cup {PageOf[u] : u \in ToClean'}
  <2>1. mpc' = mpc /\ escaped' = escaped
    BY <1>1, RequestCounters
  <2>2. stored' \subseteq stored /\ ToClean \subseteq ToClean'
    <3>1. CASE ReadRun(r) \/ CMark(r) \/ ReadCount(r) \/ Clear(r) \/ SetCount(r) \/ ClearLost(r)
               \/ CRequestFails(r)
      BY <3>1 DEF ReadRun, CMark, Mark, ReadCount, Clear, SetCount, ClearLost, CRequestFails,
         RequestFails, vars, ToClean
    <3>2. CASE RequestStep(r)
      <4>1. tpc' = tpc \/ \E u \in Task : tpc[u] = "none" /\ tpc' = [tpc EXCEPT ![u] = "queued"]
        BY <3>2 DEF RequestStep, DeleteRows, DeleteChunks, ReadPrev, Purge, DropLeftOver,
           InsertRows, Begin, Send
      <4>2. stored' \subseteq stored
        BY <3>2 DEF RequestStep, DeleteRows, DeleteChunks, ReadPrev, Purge, DropLeftOver,
           InsertRows, Begin, Send
      <4> QED
        BY <4>1, <4>2 DEF ToClean, Busy
    <3> QED
      BY <1>1, <3>1, <3>2 DEF CRequestStep
  <2> QED
    BY <1>a, <2>1, <2>2
<1>2. CASE CStopCheck \/ CStopStep
  BY <1>2, <1>a DEF CStopCheck, CStopStep, StopCheck, StopStep, StopFlag, SetCancelKeys, StopMark,
     StopRows, StopClean, ledger, past, ToClean
<1>3. ASSUME NEW t \in Task, CTaskStep(t)
      PROVE  stored' \subseteq escaped' \cup {PageOf[u] : u \in ToClean'}
  <2>1. UNCHANGED <<mpc, escaped>>
    BY <1>3 DEF CTaskStep, LastCheck, increment_chunk_num, past
  <2>2. CASE LastCheck(t) \/ increment_chunk_num(t)
    BY <2>1, <2>2, <1>a DEF LastCheck, increment_chunk_num, vars, ToClean
  <2>3. CASE TaskStep(t)
    <3>1. stored \subseteq escaped \cup {PageOf[u] : u \in ToClean}
      BY <2>1 DEF RemovedIsEmpty
    <3>2. tpc[t] \in RunningLabel => t \in cancel \/ PageOf[t] \in escaped
      BY <2>1 DEF RemovedInv
    <3>3. stored' \subseteq escaped \cup {PageOf[u] : u \in ToClean'}
      BY <2>3, <3>1, <3>2, TaskStores
    <3> QED
      BY <2>1, <3>3
  <2> QED
    BY <1>3, <2>2, <2>3 DEF CTaskStep
<1>8. ASSUME NEW t \in Task, CExpire(t)
      PROVE  stored' \subseteq escaped' \cup {PageOf[u] : u \in ToClean'}
  BY <1>8, <1>a DEF CExpire, Expire, ledger, ToClean
<1>4. ASSUME NEW t \in Task, CFinallyFails(t) \/ CCrash(t)
      PROVE  stored' \subseteq escaped' \cup {PageOf[u] : u \in ToClean'}
  <2>1. /\ mpc' = mpc /\ stored' = stored
        /\ mpc = "over" => escaped' = escaped \cup {PageOf[t]}
    BY <1>4 DEF CFinallyFails, FinallyFails, CCrash, Crash, ledger
  <2>2. ToClean \ {t} \subseteq ToClean'
    BY <1>4 DEF CFinallyFails, FinallyFails, CCrash, Crash, ToClean
  <2> QED
    BY <2>1, <2>2 DEF RemovedIsEmpty
<1>5. ASSUME NEW t \in Task, DropRemoved(t)
      PROVE  stored' \subseteq escaped' \cup {PageOf[u] : u \in ToClean'}
  BY <1>5, <1>a DEF DropRemoved, countVars, ledger, past, ToClean, Busy
<1>6. CASE RemoveChunks
  BY <1>6 DEF RemoveChunks
<1>7. CASE RemoveRows \/ RemoveDoc \/ RemoveRowsLeft \/ RemoveFlags
  BY <1>7 DEF RemoveRows, RemoveDoc, RemoveRowsLeft, RemoveFlags, SetCancelKeys, Remove
<1> QED
  BY <1>0, <1>1, <1>2, <1>3, <1>4, <1>5, <1>6, <1>7, <1>8, CountersSteps DEF OtherStep, RemoveStep

(* A document that nobody has parsed has nothing to count.                 *)
LEMMA UnstartKept ==
  ASSUME CountersTypeOK, UnstartInv, [CountersNext]_allVars
  PROVE  UnstartInv'
<1> USE DEF CountersTypeOK, TypeOK
<1> SUFFICES ASSUME run' = "UNSTART"
             PROVE  /\ chunk_num' = 0
                    /\ (\A t \in Task : tpc'[t] = "none") /\ \A r \in Run : rpc'[r] = "idle"
  BY DEF UnstartInv
<1> DEFINE Goal == /\ chunk_num' = 0
                   /\ (\A t \in Task : tpc'[t] = "none") /\ \A r \in Run : rpc'[r] = "idle"
<1>a. ASSUME run = "UNSTART", UNCHANGED <<rpc, tpc>>, chunk_num' \in {chunk_num, 0} PROVE Goal
  BY <1>a DEF UnstartInv
<1>0. CASE UNCHANGED allVars
  BY <1>0, <1>a DEF allVars, vars, countVars, counters
<1>1. ASSUME NEW r \in Run, ReadRun(r) \/ ReadCount(r) \/ Clear(r) \/ ClearLost(r) PROVE Goal
  BY <1>1, <1>a DEF ReadRun, ReadCount, Clear, ClearLost, vars, counters
<1>2. ASSUME NEW r \in Run, CMark(r) PROVE FALSE
  BY <1>2 DEF CMark, Mark
<1>3. ASSUME NEW r \in Run, RequestStep(r) \/ SetCount(r) \/ CRequestFails(r) PROVE FALSE
  <2>1. rpc[r] # "idle"
    BY <1>3, RequestMoves DEF Ended, SetCount, CRequestFails, RequestFails
  <2>2. run = "UNSTART"
    BY <1>3 DEF RequestStep, DeleteRows, DeleteChunks, ReadPrev, Purge, DropLeftOver,
           InsertRows, Begin, Send, SetCount, CRequestFails, RequestFails, vars
  <2> QED
    BY <2>1, <2>2 DEF UnstartInv
<1>4. CASE CStopCheck \/ CStopStep
  BY <1>4, <1>a DEF CStopCheck, CStopStep, StopCheck, StopStep, StopFlag, SetCancelKeys, StopMark,
     StopRows, StopClean, counters
<1>5. ASSUME NEW t \in Task, CTaskStep(t) \/ CFinallyFails(t) \/ CCrash(t) \/ CExpire(t) PROVE Goal
  <2>1. CASE LastCheck(t) \/ increment_chunk_num(t)
    BY <1>a, <2>1 DEF LastCheck, increment_chunk_num, vars, counters, UnstartInv
  <2>2. CASE (TaskStep(t) \/ FinallyFails(t) \/ Crash(t) \/ Expire(t)) /\ UNCHANGED counters
    <3>1. run = "UNSTART"
      <4>1. CASE Sync(t)
        BY <4>1, SyncFrame DEF Syncer
      <4> QED
        BY <2>2, <4>1 DEF TaskStep, Collect, Abandon, Accept, Insert, UpdateChunkIds, Notice,
           Error, SetFailed, FailDoc, Report, Finally, Wipe, LateFail, StartSync, End,
           FinallyFails, Crash, Expire
    <3>2. tpc[t] = "none"
      BY <3>1 DEF UnstartInv
    <3>3. UNCHANGED <<rpc, tpc>>
      BY <2>2, <3>2, TaskFrame
    <3> QED
      BY <1>a, <2>2, <3>1, <3>3 DEF counters
  <2> QED
    BY <1>5, <2>1, <2>2 DEF CTaskStep, CFinallyFails, CCrash, CExpire
<1>6. ASSUME NEW t \in Task, DropRemoved(t) PROVE FALSE
  BY <1>6 DEF DropRemoved, UnstartInv
<1>7. CASE RemoveRows \/ RemoveDoc \/ RemoveStep
  BY <1>7, <1>a DEF RemoveRows, RemoveDoc, RemoveStep, RemoveFlags, SetCancelKeys, RemoveRowsLeft,
     RemoveChunks, counters, vars
<1> QED
  BY <1>0, <1>1, <1>2, <1>3, <1>4, <1>5, <1>6, <1>7, CountersSteps
  DEF OtherStep, CRequestStep

-----------------------------------------------------------------------------
(* What one request has read is pending while no other is served.          *)
LEMMA AlonePending ==
  ASSUME CountersTypeOK, AloneInv, ~raced, NEW r \in Run,
         Serving(r) \/ \A s \in Run : ~Serving(s)
  PROVE  /\ \A s \in Run : s # r => ~Serving(s) /\ cpc[s] \notin {"read", "clear", "update"}
         /\ Pending = IF cpc[r] = "update" THEN took[r] ELSE 0
<1>1. \A s \in Run : s # r => ~Serving(s) /\ cpc[s] \notin {"read", "clear", "update"}
  BY DEF AloneInv, Serving
<1>2. took \in [Run -> Nat]
  BY DEF CountersTypeOK
<1>3. CASE cpc[r] = "update"
  BY <1>1, <1>2, <1>3, PendingOne, PendingNow
<1>4. CASE cpc[r] # "update"
  BY <1>1, <1>4, PendingNone, PendingNow
<1> QED
  BY <1>1, <1>3, <1>4

(* While a request has still to insert rows nothing else counts chunks, so *)
(* that what it has subtracted is what there was.                          *)
LEMMA TidyRequest ==
  ASSUME CountersTypeOK, ControlInv, AloneInv, UnstartInv, TidyInv, tidy', ~raced', NEW r \in Run,
         ReadRun(r) \/ CMark(r) \/ CRequestStep(r) \/ ClearLost(r) \/ CRequestFails(r)
  PROVE  TidyInv'
<1> USE DEF CountersTypeOK, TypeOK, CGo
<1>0. tidy /\ ~raced
  BY Zenon DEF ReadRun, CMark, CRequestStep, ClearLost, CRequestFails, ReadCount, Clear, SetCount,
               Overlap, past
<1>1. (Serving(r) \/ \A s \in Run : ~Serving(s)) /\ spc' = spc
  <2>1. CASE ReadRun(r)
    BY <2>1, Zenon DEF ReadRun, Overlap, vars
  <2>2. CASE CMark(r)
    <3>1. rpc'[r] = "rows"
      BY <2>2 DEF CMark
    <3> QED
      BY <2>2, <3>1 DEF CMark, Mark, Serving
  <2>3. CASE RequestStep(r)
    BY <2>3, RequestMoves DEF Serving, Ended
  <2>4. CASE ClearLost(r) \/ CRequestFails(r) \/ ReadCount(r) \/ Clear(r) \/ SetCount(r)
    BY <2>4 DEF ClearLost, CRequestFails, RequestFails, ReadCount, Clear, SetCount, Serving, vars
  <2> QED
    BY <2>1, <2>2, <2>3, <2>4 DEF CRequestStep
<1>2. /\ \A s \in Run : s # r => ~Serving(s) /\ cpc[s] \notin {"read", "clear", "update"}
      /\ Pending = IF cpc[r] = "update" THEN took[r] ELSE 0
  BY <1>0, <1>1, AlonePending
<1>3. /\ spc = "idle" /\ kb + Pending = chunk_num
      /\ Early(r) => \A t \in Task : tpc[t] \in {"none", "over"}
      /\ cpc[r] \in {"clear", "update"} => took[r] = chunk_num
      /\ rpc[r] \in Before => rpc[r] \in {"rows", "chunks", "prev", "insert"} /\ chunk_num = 0
      /\ rpc[r] = "prev" => rows = {}
      /\ rpc[r] = "insert" => reuse[r] = {}
  BY <1>0 DEF TidyInv
<1>4. \A s \in Run : s # r => cpc'[s] = cpc[s] /\ rpc'[s] = rpc[s] /\ took'[s] = took[s]
  <2>1. CASE RequestStep(r) /\ cpc' = cpc /\ took' = [took EXCEPT ![r] = 0]
    BY <2>1, RequestMoves
  <2>2. CASE ReadRun(r) \/ CMark(r) \/ ReadCount(r) \/ Clear(r) \/ SetCount(r) \/ ClearLost(r)
             \/ CRequestFails(r)
    BY <2>2 DEF ReadRun, CMark, Mark, ReadCount, Clear, SetCount, ClearLost, CRequestFails,
       RequestFails, vars
  <2> QED
    BY <2>1, <2>2 DEF CRequestStep
<1>5. /\ took' \in [Run -> Nat] /\ kb' \in Int /\ chunk_num' \in Nat
  BY RequestCounters
<1>6. Pending' = IF cpc'[r] = "update" THEN took'[r] ELSE 0
  <2>1. CASE cpc'[r] = "update"
    BY <1>2, <1>4, <1>5, <2>1, PendingOne, PendingNow
  <2>2. CASE cpc'[r] # "update"
    BY <1>2, <1>4, <2>2, PendingNone, PendingNow
  <2> QED
    BY <2>1, <2>2
<1>7. ASSUME /\ cpc'[r] \in {"read", "clear", "update"} \/ rpc'[r] \in Before =>
                  \A t \in Task : tpc'[t] \in {"none", "over"}
             /\ cpc'[r] \in {"clear", "update"} => took'[r] = chunk_num'
             /\ rpc'[r] \in Before =>
                  rpc'[r] \in {"rows", "chunks", "prev", "insert"} /\ chunk_num' = 0
             /\ rpc'[r] = "prev" => rows' = {}
             /\ rpc'[r] = "insert" => reuse'[r] = {}
             /\ kb' + (IF cpc'[r] = "update" THEN took'[r] ELSE 0) = chunk_num'
      PROVE  TidyInv'
  <2>1. \A s \in Run : s # r => cpc'[s] \notin {"read", "clear", "update"} /\ rpc'[s] \notin Before
    BY <1>2, <1>4 DEF Serving, Before
  <2>2. spc' = "idle" /\ kb' + Pending' = chunk_num'
    BY <1>1, <1>3, <1>6, <1>7
  <2> QED
    BY <1>7, <2>1, <2>2 DEF TidyInv, Early, Before
<1>8. CASE ReadRun(r)
  <2>1. /\ NothingElseRuns /\ run \in {"UNSTART", "DONE"}
        /\ UNCHANGED <<tpc, took, chunk_num, kb, rpc, rows, reuse>>
        /\ cpc'[r] = IF run = "DONE" THEN "read" ELSE "update"
        /\ cpc[r] = "idle" /\ rpc[r] = "idle"
    BY <1>8 DEF ReadRun, Alone, vars, counters
  <2>2. took[r] = 0
    BY <2>1 DEF ControlInv
  <2>3. run = "UNSTART" => chunk_num = 0
    BY DEF UnstartInv
  <2> QED
    BY <1>3, <1>7, <2>1, <2>2, <2>3, <1>2 DEF NothingElseRuns, Before
<1>9. CASE CMark(r)
  <2>1. rpc'[r] = "rows"
    BY <1>9 DEF CMark
  <2>2. /\ UNCHANGED <<tpc, took, kb, rows, reuse>> /\ cpc[r] = "update" /\ cpc'[r] = "count"
        /\ \/ chunk_num' = 0
           \/ took[r] = 0 /\ chunk_num' = chunk_num
    BY <1>9, <2>1 DEF CMark, Mark
  <2>3. Early(r) /\ took[r] = chunk_num /\ kb = 0
    BY <1>2, <1>3, <2>2 DEF Early
  <2> QED
    BY <1>3, <1>7, <2>1, <2>2, <2>3
<1>10. CASE ReadCount(r) \/ Clear(r)
  <2>1. rpc[r] = "idle" /\ UNCHANGED <<rpc, tpc, rows, reuse, chunk_num>> /\ Early(r)
    BY <1>10 DEF ReadCount, Clear, ControlInv, vars, counters, Early
  <2>2. CASE ReadCount(r)
    <3>1. took'[r] = chunk_num /\ cpc'[r] = "clear" /\ kb' = kb /\ cpc[r] = "read"
      BY <2>2 DEF ReadCount, counters
    <3> QED
      BY <1>2, <1>3, <1>7, <2>1, <3>1 DEF Before
  <2>3. CASE Clear(r)
    <3>1. took'[r] = took[r] /\ cpc'[r] = "update" /\ kb' = kb - took[r] /\ cpc[r] = "clear"
      BY <2>3 DEF Clear
    <3> QED
      BY <1>2, <1>3, <1>7, <2>1, <3>1 DEF Before
  <2> QED
    BY <1>10, <2>2, <2>3
<1>11. CASE SetCount(r)
  <2>1. /\ rpc[r] = "insert" /\ cpc[r] = "count" /\ cpc'[r] = "counted"
        /\ UNCHANGED <<rpc, tpc, rows, reuse, took, kb>>
        /\ chunk_num' \in {chunk_num, Cardinality(reuse[r])}
    BY <1>11 DEF SetCount, vars
  <2>2. reuse[r] = {} /\ chunk_num = 0 /\ Early(r)
    BY <1>3, <2>1 DEF Early, Before
  <2>3. chunk_num' = 0
    BY <2>1, <2>2, FS_EmptySet
  <2> QED
    BY <1>2, <1>3, <1>7, <2>1, <2>2, <2>3
<1>12. CASE ClearLost(r)
  <2>1. /\ UNCHANGED <<rpc, tpc, rows, reuse, chunk_num, kb>> /\ cpc'[r] = "lost" /\ took'[r] = 0
        /\ rpc[r] = "idle"
    BY <1>12 DEF ClearLost, counters
  <2>2. ~(cpc[r] = "update" /\ took[r] # 0)
    BY <1>12, Zenon DEF ClearLost
  <2> QED
    BY <1>2, <1>3, <1>7, <2>1, <2>2 DEF Before
<1>13. CASE CRequestFails(r)
  <2>1. /\ UNCHANGED <<cpc, tpc, rows, reuse, chunk_num, kb>> /\ rpc'[r] = "failed"
        /\ cpc[r] \notin {"read", "clear", "update"}
    BY <1>13 DEF CRequestFails, RequestFails, counters, ControlInv
  <2> QED
    BY <1>2, <1>3, <1>7, <2>1 DEF Before
<1>14. CASE RequestStep(r) /\ UNCHANGED <<counters, cpc>>
  <2>1. UNCHANGED <<chunk_num, kb, cpc>> /\ cpc[r] \notin {"read", "clear", "update"}
    BY <1>14, RequestMoves DEF counters, ControlInv, Ended
  <2>2. ASSUME UNCHANGED tpc, rpc[r] \in {"rows", "chunks", "prev"},
               rpc'[r] \in {"chunks", "prev", "insert"}, rpc'[r] = "prev" => rows' = {},
               rpc'[r] = "insert" => reuse'[r] = {}
        PROVE  TidyInv'
    <3>1. Early(r) /\ chunk_num = 0
      BY <1>3, <2>2 DEF Early, Before
    <3> QED
      BY <1>2, <1>3, <1>7, <2>1, <2>2, <3>1
  <2>3. CASE DeleteRows(r)
    <3>1. rpc[r] = "rows"
      BY <1>3, <2>3 DEF DeleteRows, Before
    <3> QED
      BY <2>2, <2>3, <3>1 DEF DeleteRows
  <2>4. CASE DeleteChunks(r)
    <3>1. rpc[r] = "chunks"
      BY <1>3, <2>4 DEF DeleteChunks, Before
    <3>2. rows = {}
      BY <1>0, <3>1 DEF AloneInv
    <3> QED
      BY <2>2, <2>4, <3>1, <3>2 DEF DeleteChunks
  <2>5. CASE ReadPrev(r)
    <3>1. rpc[r] = "prev" /\ rows = {} /\ rpc'[r] = "insert" /\ UNCHANGED tpc
      BY <1>3, <2>5 DEF ReadPrev
    <3>2. PICK S \in SUBSET TasksOf(r) :
            \E from \in [S -> {p \in rows \cap chunk_ids : tprog[p] = Full}] :
              reuse' = [reuse EXCEPT ![r] = S]
      BY <2>5 DEF ReadPrev
    <3>3. S = {}
      BY <3>1, <3>2
    <3> QED
      BY <2>2, <3>1, <3>2, <3>3
  <2>6. CASE Purge(r) \/ DropLeftOver(r)
    BY <1>3, <2>6 DEF Purge, DropLeftOver, Before
  <2>7. CASE InsertRows(r) \/ Begin(r) \/ \E t \in Task : Send(r, t)
    <3>1. rpc'[r] \notin Before
      BY <2>7 DEF InsertRows, Begin, Send, Before
    <3> QED
      BY <1>2, <1>3, <1>7, <2>1, <3>1 DEF Before
  <2> QED
    BY <1>14, <2>3, <2>4, <2>5, <2>6, <2>7 DEF RequestStep
<1> QED
  BY <1>8, <1>9, <1>10, <1>11, <1>12, <1>13, <1>14 DEF CRequestStep

(* Executions count on both counters, and a removal takes what there is.   *)
LEMMA TidyOther ==
  ASSUME CountersTypeOK, AloneInv, TidyInv, tidy', ~raced', OtherStep
  PROVE  TidyInv'
<1> USE DEF CountersTypeOK, TypeOK
<1>0. UNCHANGED <<rpc, reuse, cpc, took>> /\ ~raced /\ tidy
  <2>1. ~raced
    <3>1. CASE RemoveDoc
      BY <3>1, Zenon DEF RemoveDoc
    <3> QED
      BY <3>1, OtherFrame
  <2>2. tidy
    BY DEF OtherStep, CStopCheck, CStopStep, CTaskStep, LastCheck, increment_chunk_num, DropRemoved,
       CFinallyFails, CCrash, CExpire, RemoveRows, RemoveDoc, RemoveStep, RemoveFlags,
       SetCancelKeys, RemoveRowsLeft, RemoveChunks, past, countVars
  <2> QED
    BY <2>1, <2>2, OtherFrame
<1>1. Pending' = Pending
  BY <1>0, PendingNow
<1>2. Pending \in Nat
  <2>1. ASSUME NEW r \in Run, Serving(r) PROVE Pending \in Nat
    BY <1>0, <2>1, AlonePending
  <2>2. ASSUME \A r \in Run : ~Serving(r) PROVE Pending = 0
    BY <2>2, PendingNow, PendingNone DEF Serving
  <2> QED
    BY <2>1, <2>2
<1>a. ASSUME spc' = spc, rows' \in {rows, {}}, UNCHANGED <<kb, chunk_num>>,
             (\E r \in Run : Early(r)) => \A t \in Task : tpc'[t] \in {"none", "over"}
      PROVE  TidyInv'
  BY <1>0, <1>1, <1>a DEF TidyInv, Early
<1>3. CASE CStopCheck \/ CStopStep
  BY <1>0, <1>3 DEF CStopCheck, CStopStep, StopStep, StopFlag, SetCancelKeys, StopMark, StopRows,
     StopClean, TidyInv
<1>4. ASSUME NEW t \in Task, increment_chunk_num(t) PROVE TidyInv'
  <2>1. \A r \in Run : ~Early(r)
    BY <1>0, <1>4 DEF TidyInv, increment_chunk_num
  <2>2. spc = "idle" /\ kb + Pending = chunk_num
    BY <1>0 DEF TidyInv
  <2>3. kb' + Pending' = chunk_num' /\ UNCHANGED <<spc, rpc, cpc>>
    BY <1>1, <1>2, <1>4, <2>2 DEF increment_chunk_num, vars
  <2> QED
    BY <2>1, <2>2, <2>3 DEF TidyInv, Early, Before
<1>5. ASSUME NEW t \in Task, LastCheck(t) PROVE TidyInv'
  BY <1>5, <1>a, <1>0 DEF LastCheck, vars, counters, TidyInv
<1>6. ASSUME NEW t \in Task, TaskStep(t) \/ FinallyFails(t) \/ Crash(t) \/ Expire(t), UNCHANGED counters
      PROVE  TidyInv'
  <2>1. UNCHANGED <<rows, spc>>
    BY <1>6, TaskFrame
  <2>2. tpc[t] \in {"none", "over"} => UNCHANGED tpc
    BY <1>6, TaskFrame
  <2> QED
    BY <1>0, <1>6, <1>a, <2>1, <2>2 DEF TidyInv, counters
<1>7. ASSUME NEW t \in Task, DropRemoved(t) PROVE TidyInv'
  BY <1>7, <1>a, <1>0 DEF DropRemoved, countVars, counters, TidyInv
<1>8. CASE RemoveRows \/ RemoveStep
  BY <1>8, <1>a, <1>0 DEF RemoveRows, RemoveStep, RemoveFlags, SetCancelKeys, RemoveRowsLeft,
     RemoveChunks, counters, vars, TidyInv
<1>9. CASE RemoveDoc
  <2>1. \A r \in Run : ~Serving(r)
    BY <1>9, Zenon DEF RemoveDoc
  <2>2. \A r \in Run : ~Early(r)
    BY <2>1 DEF Early, Serving, Before
  <2>3. Pending = 0
    BY <2>1, PendingNow, PendingNone DEF Serving
  <2>4. spc = "idle" /\ kb = chunk_num
    BY <1>0, <2>3 DEF TidyInv
  <2>5. kb' + Pending' = chunk_num' /\ UNCHANGED <<spc, rpc, cpc>>
    BY <1>1, <1>9, <2>3, <2>4 DEF RemoveDoc
  <2> QED
    BY <2>2, <2>4, <2>5 DEF TidyInv, Early, Before
<1>10. ASSUME NEW t \in Task, CTaskStep(t) \/ CFinallyFails(t) \/ CCrash(t) \/ CExpire(t) PROVE TidyInv'
  BY <1>10, <1>4, <1>5, <1>6 DEF CTaskStep, CFinallyFails, CCrash, CExpire
<1> QED
  BY <1>3, <1>7, <1>8, <1>9, <1>10 DEF OtherStep

-----------------------------------------------------------------------------
(* A task is finished only by the report of its execution.                 *)
LEMMA TaskFinishes ==
  ASSUME TypeOK, NEW t \in Task, TaskStep(t) \/ FinallyFails(t) \/ Crash(t) \/ Expire(t), tprog'[t] = Full
  PROVE  tprog[t] = Full \/ Report(t)
<1> USE DEF TypeOK
<1>1. CASE Collect(t)
  BY <1>1 DEF Collect
<1>2. CASE Notice(t) \/ Error(t) \/ LateFail(t)
  <2>1. tprog' = tprog \/ tprog' = [tprog EXCEPT ![t] = Failed]
    BY <1>2 DEF Notice, Error, LateFail, SetFailed
  <2> QED
    BY <2>1
<1>3. CASE Sync(t)
  BY <1>3, SyncFrame DEF Syncer
<1> QED
  BY <1>1, <1>2, <1>3 DEF TaskStep, Abandon, Accept, Insert, UpdateChunkIds, FailDoc, Finally, Wipe,
     StartSync, End, FinallyFails, Crash, Expire

(* Only increment_chunk_num adds a row to those that are counted.          *)
LEMMA TaskCounted ==
  ASSUME CountersTypeOK, ControlInv, NEW t \in Task, CTaskStep(t) \/ CFinallyFails(t) \/ CCrash(t) \/ CExpire(t)
  PROVE  /\ increment_chunk_num(t) => Counted' \subseteq Counted \cup {t}
         /\ ~increment_chunk_num(t) => Counted' \subseteq Counted
<1> USE DEF CountersTypeOK, TypeOK
<1>1. CASE LastCheck(t) \/ increment_chunk_num(t)
  <2>1. UNCHANGED <<rows, tprog>> /\ \A u \in Task : u # t => paid'[u] = paid[u]
    BY <1>1 DEF LastCheck, increment_chunk_num, vars
  <2>2. LastCheck(t) => paid'[t] # "yes"
    BY DEF LastCheck
  <2> QED
    BY <1>1, <2>1, <2>2 DEF Counted
<1>2. CASE (TaskStep(t) \/ FinallyFails(t) \/ Crash(t) \/ Expire(t)) /\ ~increment_chunk_num(t) /\ ~LastCheck(t)
  <2>1. rows' = rows /\ \A u \in Task : u # t => tprog'[u] = tprog[u]
    BY <1>2, TaskFrame
  <2>2. \A u \in Task : paid'[u] = "yes" => paid[u] = "yes"
    BY <1>2 DEF CTaskStep, CFinallyFails, CCrash, CExpire, ledger
  <2>3. ASSUME tprog'[t] = Full PROVE tprog[t] = Full \/ paid[t] = "yes"
    <3>1. CASE Report(t)
      <4>1. t \notin cancel /\ tpc[t] = "indexed" /\ tpc'[t] = "finally"
        BY <3>1 DEF Report
      <4>2. CTaskStep(t)
        BY <1>2, <4>1 DEF CTaskStep, CFinallyFails, CCrash, CExpire, FinallyFails, Crash, Expire
      <4> QED
        BY <1>2, <4>1, <4>2 DEF CTaskStep
    <3> QED
      BY <1>2, <2>3, <3>1, TaskFinishes
  <2>4. \A u \in rows' : tprog'[u] = Full \/ paid'[u] = "yes" => u \in Counted
    BY <2>1, <2>2, <2>3 DEF Counted
  <2> QED
    BY <1>2, <2>4 DEF Counted
<1> QED
  BY <1>1, <1>2 DEF CTaskStep, CFinallyFails, CCrash, CExpire

(* The rows of a request are new, so that those that are counted when they *)
(* are inserted are the ones taken over.                                   *)
LEMMA InsertedCounted ==
  ASSUME CountersTypeOK, FreshInv, ControlInv, NEW r \in Run, InsertRows(r), rows = {}, paid' = paid
  PROVE  Counted' = reuse[r] /\ rows' = TasksOf(r)
<1> USE DEF CountersTypeOK, TypeOK
<1>1. rows' = TasksOf(r) /\ \A t \in Task : tprog'[t] = IF t \in reuse[r] THEN Full ELSE tprog[t]
  BY DEF InsertRows
<1>2. \A t \in TasksOf(r) : tprog[t] = Queued /\ paid[t] # "yes"
  BY DEF FreshInv, InsertRows, Before, ControlInv, TasksOf
<1> QED
  BY <1>1, <1>2 DEF Counted, TasksOf

LEMMA BelowRequest ==
  ASSUME CountersTypeOK, FreshInv, ControlInv, AloneInv, BelowInv, ~raced', NEW r \in Run,
         ReadRun(r) \/ CMark(r) \/ CRequestStep(r) \/ ClearLost(r) \/ CRequestFails(r)
  PROVE  BelowInv'
<1> USE DEF CountersTypeOK, TypeOK, CGo
<1>0. /\ ~raced
      /\ Serving(r) \/ \A s \in Run : ~Serving(s)
  <2>1. CASE ReadRun(r)
    <3>1. ~raced /\ \A s \in Run : s # r => ~Serving(s)
      BY <2>1, Zenon DEF ReadRun, Overlap
    <3> QED
      BY <3>1
  <2>2. CASE CMark(r) /\ rpc'[r] = "rows"
    BY <2>2 DEF CMark, Serving
  <2>3. CASE CMark(r) /\ rpc'[r] # "rows"
    <3>1. Overlap(r)
      BY <2>3 DEF CMark
    <3>2. ~raced /\ \A s \in Run : s # r => ~Serving(s)
      BY <3>1, Zenon DEF Overlap
    <3> QED
      BY <3>2
  <2>4. CASE RequestStep(r) /\ raced' = raced
    BY <2>4, RequestMoves DEF Serving, Ended
  <2>5. CASE ReadCount(r) \/ Clear(r) \/ SetCount(r)
    BY <2>5 DEF ReadCount, Clear, SetCount, Serving, vars, past
  <2>6. CASE ClearLost(r) \/ CRequestFails(r)
    <3>1. ~raced
      BY <2>6, Zenon DEF ClearLost, CRequestFails
    <3> QED
      BY <2>6, <3>1 DEF ClearLost, CRequestFails, RequestFails, Serving
  <2> QED
    BY <2>1, <2>2, <2>3, <2>4, <2>5, <2>6 DEF CRequestStep, past
<1>2. /\ \A s \in Run : s # r => ~Serving(s) /\ cpc[s] \notin {"read", "clear", "update"}
      /\ Pending = IF cpc[r] = "update" THEN took[r] ELSE 0
  BY <1>0, AlonePending
<1>3. /\ kb >= 0 /\ kb + Pending >= chunk_num
      /\ cpc[r] = "clear" => took[r] <= kb
      /\ rpc[r] \in {"purge", "drop", "insert"} => Cardinality(reuse[r]) <= kb
      /\ Gone \/ Cleared(r) \/ Cardinality(Counted) <= kb
  <2>1. \A s \in Run : Cleared(s) => s = r
    BY <1>2 DEF Cleared, Serving
  <2> QED
    BY <1>0, <2>1 DEF BelowInv
<1>4. \A s \in Run : s # r => cpc'[s] = cpc[s] /\ rpc'[s] = rpc[s] /\ took'[s] = took[s]
                              /\ reuse'[s] = reuse[s]
  <2>1. CASE RequestStep(r) /\ cpc' = cpc /\ took' = [took EXCEPT ![r] = 0]
    BY <2>1, RequestMoves
  <2>2. CASE ReadRun(r) \/ CMark(r) \/ ReadCount(r) \/ Clear(r) \/ SetCount(r) \/ ClearLost(r)
             \/ CRequestFails(r)
    BY <2>2 DEF ReadRun, CMark, Mark, ReadCount, Clear, SetCount, ClearLost, CRequestFails,
       RequestFails, vars
  <2> QED
    BY <2>1, <2>2 DEF CRequestStep
<1>5. /\ took' \in [Run -> Nat] /\ kb' \in Int /\ chunk_num' \in Nat /\ paid' = paid
      /\ mpc' = mpc
  BY RequestCounters
<1>6. Pending' = IF cpc'[r] = "update" THEN took'[r] ELSE 0
  <2>1. CASE cpc'[r] = "update"
    BY <1>2, <1>4, <1>5, <2>1, PendingOne, PendingNow
  <2>2. CASE cpc'[r] # "update"
    BY <1>2, <1>4, <2>2, PendingNone, PendingNow
  <2> QED
    BY <2>1, <2>2
<1>7. ASSUME /\ kb' >= 0
             /\ cpc'[r] = "clear" => took'[r] <= kb'
             /\ rpc'[r] \in {"purge", "drop", "insert"} => Cardinality(reuse'[r]) <= kb'
             /\ \/ Gone
                \/ took'[r] # 0 /\ (cpc'[r] = "update" \/ rpc'[r] = "rows")
                \/ Cardinality(Counted') <= kb'
             /\ kb' + (IF cpc'[r] = "update" THEN took'[r] ELSE 0) >= chunk_num'
      PROVE  BelowInv'
  <2>1. \A s \in Run : s # r => cpc'[s] # "clear" /\ rpc'[s] \notin {"purge", "drop", "insert"}
    BY <1>2, <1>4 DEF Serving
  <2>2. kb' + Pending' >= chunk_num'
    BY <1>6, <1>7
  <2>3. Gone' <=> Gone
    BY <1>5 DEF Gone
  <2>4. Gone' \/ Cleared(r)' \/ Cardinality(Counted') <= kb'
    BY <1>7, <2>3 DEF Cleared
  <2>5. \A s \in Run : /\ cpc'[s] = "clear" => took'[s] <= kb'
                       /\ rpc'[s] \in {"purge", "drop", "insert"} => Cardinality(reuse'[s]) <= kb'
    BY <1>7, <2>1
  <2> QED
    BY <1>7, <2>2, <2>4, <2>5 DEF BelowInv
<1>8. Serving(r) => ~Gone
  BY <1>0 DEF AloneInv
<1>9. UNCHANGED <<rows, tprog>> => Counted' = Counted
  BY <1>5 DEF Counted
<1>10. rows' = {} => Cardinality(Counted') = 0
  <2>1. rows' = {} => Counted' = {}
    BY DEF Counted
  <2> QED
    BY <2>1, FS_EmptySet
<1>11. CASE ReadRun(r)
  <2>1. /\ UNCHANGED <<rpc, rows, tprog, reuse, kb, chunk_num, took>>
        /\ rpc[r] = "idle" /\ cpc[r] = "idle" /\ cpc'[r] \in {"read", "update"}
    BY <1>11 DEF ReadRun, vars, counters
  <2>2. took[r] = 0
    BY <2>1 DEF ControlInv
  <2> QED
    BY <1>2, <1>3, <1>7, <1>9, <2>1, <2>2 DEF Cleared
<1>12. CASE CMark(r)
  <2>1. /\ UNCHANGED <<rows, tprog, reuse, kb, took>> /\ cpc'[r] = "count" /\ rpc[r] = "idle"
        /\ rpc'[r] \in {"rows", "chunks_first", "prev"}
    BY <1>12 DEF CMark, Mark
  <2>2. \/ rpc'[r] = "rows" /\ cpc[r] = "update" /\ (chunk_num' = 0 \/ (took[r] = 0 /\ chunk_num' = chunk_num))
        \/ rpc'[r] # "rows" /\ cpc[r] = "idle" /\ chunk_num' \in {0, chunk_num}
    BY <1>12 DEF CMark
  <2>3. took[r] # 0 => rpc'[r] = "rows"
    BY <2>1, <2>2 DEF ControlInv
  <2> QED
    BY <1>2, <1>3, <1>7, <1>9, <2>1, <2>2, <2>3 DEF Cleared
<1>13. CASE ReadCount(r)
  <2>1. /\ UNCHANGED <<rpc, rows, tprog, reuse, kb, chunk_num>> /\ took'[r] = chunk_num
        /\ cpc[r] = "read" /\ cpc'[r] = "clear" /\ rpc[r] = "idle"
    BY <1>13 DEF ReadCount, vars, counters, ControlInv
  <2> QED
    BY <1>2, <1>3, <1>7, <1>9, <2>1 DEF Cleared
<1>14. CASE Clear(r)
  <2>1. /\ UNCHANGED <<rpc, rows, tprog, reuse, took, chunk_num>> /\ kb' = kb - took[r]
        /\ cpc[r] = "clear" /\ cpc'[r] = "update" /\ rpc[r] = "idle"
    BY <1>14 DEF Clear, vars, ControlInv
  <2>2. took[r] \in Nat /\ Cardinality(Counted) \in Nat
    BY TaskSets DEF Counted
  <2> QED
    BY <1>2, <1>3, <1>7, <1>9, <2>1, <2>2 DEF Cleared
<1>15. CASE SetCount(r)
  <2>1. /\ UNCHANGED <<rpc, rows, tprog, reuse, kb, took>> /\ rpc[r] = "insert"
        /\ cpc[r] = "count" /\ cpc'[r] = "counted"
        /\ chunk_num' \in {chunk_num, Cardinality(reuse[r])}
    BY <1>15 DEF SetCount, vars
  <2> QED
    BY <1>2, <1>3, <1>7, <1>9, <2>1 DEF Cleared
<1>16. CASE ClearLost(r) \/ CRequestFails(r)
  <2>1. /\ UNCHANGED <<rows, tprog, reuse, kb, chunk_num>> /\ took'[r] = 0
        /\ cpc'[r] # "update" /\ cpc'[r] # "clear"
        /\ rpc'[r] \in {"idle", "failed"}
    BY <1>16 DEF ClearLost, CRequestFails, RequestFails, counters, ControlInv
  <2>2. ~Cleared(r)
    <3>1. CASE ClearLost(r)
      <4>1. ~(cpc[r] = "update" /\ took[r] # 0) /\ rpc[r] = "idle"
        BY <3>1, Zenon DEF ClearLost
      <4> QED
        BY <4>1 DEF Cleared
    <3>2. CASE CRequestFails(r)
      <4>1. ~(rpc[r] = "rows" /\ took[r] # 0)
        BY <3>2, Zenon DEF CRequestFails
      <4>2. cpc[r] # "update"
        BY <3>2 DEF CRequestFails, RequestFails, ControlInv
      <4> QED
        BY <4>1, <4>2 DEF Cleared
    <3> QED
      BY <1>16, <3>1, <3>2
  <2>3. Pending = 0
    BY <1>2, <1>16, <2>2 DEF Cleared, CRequestFails, RequestFails, ControlInv
  <2> QED
    BY <1>3, <1>7, <1>9, <2>1, <2>2, <2>3
<1>17. CASE RequestStep(r) /\ UNCHANGED <<counters, cpc, paid, mpc>> /\ took' = [took EXCEPT ![r] = 0]
  <2>1. /\ UNCHANGED <<chunk_num, kb, cpc>> /\ cpc[r] \notin {"read", "clear", "update"}
        /\ Pending = 0 /\ ~Gone
    BY <1>2, <1>8, <1>17, RequestMoves DEF counters, ControlInv, Ended, Serving
  <2>2. ASSUME rpc'[r] \in {"purge", "drop", "insert"} => Cardinality(reuse'[r]) <= kb,
               Cardinality(Counted') <= kb
        PROVE  BelowInv'
    BY <1>3, <1>7, <2>1, <2>2
  <2>3. rpc[r] # "rows" => Cardinality(Counted) <= kb
    BY <1>3, <2>1 DEF Cleared
  <2>4. CASE DeleteRows(r)
    BY <1>3, <1>10, <2>2, <2>4 DEF DeleteRows
  <2>5. CASE DeleteChunks(r)
    <3>1. rpc[r] # "rows" /\ rpc'[r] \in {"prev", "rows_last"} /\ UNCHANGED <<rows, tprog>>
      BY <2>5 DEF DeleteChunks
    <3> QED
      BY <1>9, <2>2, <2>3, <3>1
  <2>6. CASE ReadPrev(r)
    <3>1. rpc[r] = "prev" /\ UNCHANGED <<rows, tprog>>
      BY <2>6 DEF ReadPrev
    <3>2. PICK S \in SUBSET TasksOf(r) :
          \E from \in [S -> {p \in rows \cap chunk_ids : tprog[p] = Full}] :
            /\ \A t \in S : PageOf[from[t]] = PageOf[t]
            /\ reuse' = [reuse EXCEPT ![r] = S]
      BY <2>6 DEF ReadPrev
    <3>3. PICK from \in [S -> {p \in rows \cap chunk_ids : tprog[p] = Full}] :
            /\ \A t \in S : PageOf[from[t]] = PageOf[t]
            /\ reuse' = [reuse EXCEPT ![r] = S]
      BY <3>2
    <3>4. {p \in rows \cap chunk_ids : tprog[p] = Full} \subseteq Counted /\ Counted \subseteq Task
      BY DEF Counted
    <3>5. from \in [S -> Counted]
      BY <3>4
    <3>6. Cardinality(S) <= Cardinality(Counted)
      BY <3>3, <3>4, <3>5, TakeoverCounts
    <3>7. Cardinality(S) \in Nat /\ Cardinality(Counted) \in Nat
      BY <3>4, TaskSets DEF TasksOf
    <3>8. reuse'[r] = S
      BY <3>3
    <3> QED
      BY <1>9, <2>2, <2>3, <3>1, <3>6, <3>7, <3>8
  <2>7. CASE Purge(r)
    BY <1>3, <1>10, <2>2, <2>7 DEF Purge
  <2>8. CASE DropLeftOver(r)
    BY <1>3, <1>9, <2>2, <2>3, <2>8 DEF DropLeftOver
  <2>9. CASE InsertRows(r)
    <3>1. rpc[r] = "insert" /\ rpc'[r] = "begin"
      BY <2>9 DEF InsertRows
    <3>2. rows = {}
      BY <1>0, <3>1 DEF AloneInv
    <3>3. Counted' = reuse[r]
      BY <1>5, <2>9, <3>2, InsertedCounted
    <3> QED
      BY <1>3, <2>2, <3>1, <3>3
  <2>10. CASE Begin(r) \/ \E t \in Task : Send(r, t)
    <3>1. rpc[r] # "rows" /\ rpc'[r] \in {"send", "served"} /\ UNCHANGED <<rows, tprog>>
      BY <2>10 DEF Begin, Send
    <3> QED
      BY <1>9, <2>2, <2>3, <3>1
  <2> QED
    BY <1>17, <2>4, <2>5, <2>6, <2>7, <2>8, <2>9, <2>10 DEF RequestStep
<1> QED
  BY <1>11, <1>12, <1>13, <1>14, <1>15, <1>16, <1>17 DEF CRequestStep

LEMMA BelowOther ==
  ASSUME CountersTypeOK, ControlInv, AloneInv, BelowInv, ~raced', OtherStep
  PROVE  BelowInv'
<1> USE DEF CountersTypeOK, TypeOK
<1>0. UNCHANGED <<rpc, reuse, cpc, took>> /\ ~raced
  <2>1. ~raced
    <3>1. CASE RemoveDoc
      BY <3>1, Zenon DEF RemoveDoc
    <3> QED
      BY <3>1, OtherFrame
  <2> QED
    BY <2>1, OtherFrame
<1>1. Pending' = Pending /\ \A r \in Run : Cleared(r)' <=> Cleared(r)
  BY <1>0, PendingNow DEF Cleared
<1>2. Pending \in Nat
  <2>1. ASSUME NEW r \in Run, Serving(r) PROVE Pending \in Nat
    BY <1>0, <2>1, AlonePending
  <2>2. ASSUME \A r \in Run : ~Serving(r) PROVE Pending = 0
    BY <2>2, PendingNow, PendingNone DEF Serving
  <2> QED
    BY <2>1, <2>2
<1>3. Counted \in SUBSET Task /\ Cardinality(Counted) \in Nat
  BY TaskSets DEF Counted
<1>4. \A r \in Run : Cardinality(reuse[r]) \in Nat
  BY TaskSets
<1>a. ASSUME kb' = kb, chunk_num' \in {chunk_num, 0}, Counted' \subseteq Counted, Gone => Gone'
      PROVE  BelowInv'
  <2>1. Cardinality(Counted') <= Cardinality(Counted) /\ Cardinality(Counted') \in Nat
    BY <1>3, <1>a, TaskSets
  <2>2. kb + Pending >= chunk_num' /\ kb >= 0
    BY <1>0, <1>2, <1>a DEF BelowInv
  <2> QED
    BY <1>0, <1>1, <1>3, <1>a, <2>1, <2>2 DEF BelowInv
<1>5. CASE CStopCheck \/ CStopStep
  <2>1. rows' \in {rows, {}} /\ UNCHANGED <<tprog, paid, kb, mpc>> /\ chunk_num' \in {chunk_num, 0}
    BY <1>5 DEF CStopCheck, CStopStep, StopCheck, StopStep, StopFlag, SetCancelKeys, StopMark,
       StopRows, StopClean, counters, ledger
  <2> QED
    BY <1>a, <2>1 DEF Counted, Gone
<1>6. ASSUME NEW t \in Task, increment_chunk_num(t) PROVE BelowInv'
  <2>1. kb' = kb + 1 /\ chunk_num' = chunk_num + 1 /\ mpc' = mpc
    BY <1>6 DEF increment_chunk_num
  <2>2. Counted' \subseteq Counted \cup {t}
    BY <1>6, TaskCounted DEF CTaskStep
  <2>3. Cardinality(Counted') <= Cardinality(Counted) + 1 /\ Cardinality(Counted') \in Nat
    BY <1>3, <2>2, TaskSets
  <2>4. Gone' \/ (\E r \in Run : Cleared(r)') \/ Cardinality(Counted') <= kb'
    BY <1>0, <1>1, <1>3, <2>1, <2>3 DEF BelowInv, Gone
  <2>5. kb' >= 0 /\ kb' + Pending' >= chunk_num'
    BY <1>0, <1>1, <1>2, <2>1 DEF BelowInv
  <2>6. \A r \in Run : /\ cpc'[r] = "clear" => took'[r] <= kb'
                       /\ rpc'[r] \in {"purge", "drop", "insert"} => Cardinality(reuse'[r]) <= kb'
    BY <1>0, <1>4, <2>1 DEF BelowInv
  <2> QED
    BY <2>4, <2>5, <2>6 DEF BelowInv
<1>7. ASSUME NEW t \in Task, CTaskStep(t) \/ CFinallyFails(t) \/ CCrash(t) \/ CExpire(t), ~increment_chunk_num(t)
      PROVE  BelowInv'
  <2>1. Counted' \subseteq Counted
    BY <1>7, TaskCounted
  <2>2. UNCHANGED <<counters, mpc>>
    BY <1>7 DEF CTaskStep, LastCheck, CFinallyFails, CCrash, CExpire, ledger
  <2> QED
    BY <1>a, <2>1, <2>2 DEF counters, Gone
<1>8. ASSUME NEW t \in Task, DropRemoved(t) PROVE BelowInv'
  BY <1>8, <1>a DEF DropRemoved, countVars, counters, ledger, Counted, Gone
<1>9. CASE RemoveRows \/ RemoveStep
  <2>1. rows' \in {rows, {}} /\ UNCHANGED <<tprog, paid, kb, chunk_num>> /\ (Gone => Gone')
    BY <1>9 DEF RemoveRows, RemoveStep, RemoveFlags, SetCancelKeys, RemoveRowsLeft, RemoveChunks,
       counters, vars, Remove, Gone
  <2> QED
    BY <1>a, <2>1 DEF Counted
<1>10. CASE RemoveDoc
  <2>1. \A r \in Run : ~Serving(r)
    BY <1>10, Zenon DEF RemoveDoc
  <2>2. Pending = 0
    BY <2>1, PendingNow, PendingNone DEF Serving
  <2>3. kb' = kb - chunk_num /\ chunk_num' = 0 /\ Gone'
    BY <1>10 DEF RemoveDoc, Remove, Gone
  <2>4. kb' >= 0 /\ kb' + Pending' >= chunk_num'
    BY <1>0, <1>1, <2>2, <2>3 DEF BelowInv
  <2>5. \A r \in Run : cpc'[r] # "clear" /\ rpc'[r] \notin {"purge", "drop", "insert"}
    BY <1>0, <2>1 DEF Serving
  <2> QED
    BY <2>3, <2>4, <2>5 DEF BelowInv
<1> QED
  BY <1>5, <1>6, <1>7, <1>8, <1>9, <1>10 DEF OtherStep

-----------------------------------------------------------------------------
(* A removed document stays removed; RestInv is about the others.          *)
LEMMA GoneStays ==
  ASSUME [CountersNext]_allVars, Gone
  PROVE  Gone'
<1> USE DEF Gone
<1>1. CASE UNCHANGED allVars
  BY <1>1 DEF allVars, countVars, ledger
<1>2. ASSUME NEW r \in Run,
             ReadRun(r) \/ CMark(r) \/ CRequestStep(r) \/ ClearLost(r) \/ CRequestFails(r)
      PROVE  mpc' = mpc
  BY <1>2 DEF ReadRun, CMark, CRequestStep, ClearLost, CRequestFails, ReadCount, Clear, SetCount
<1>3. ASSUME NEW t \in Task, CTaskStep(t) \/ DropRemoved(t) \/ CFinallyFails(t) \/ CCrash(t) \/ CExpire(t)
      PROVE  mpc' = mpc
  BY <1>3 DEF CTaskStep, LastCheck, increment_chunk_num, DropRemoved, CFinallyFails, CCrash,
     CExpire, ledger, countVars
<1>4. CASE CStopCheck \/ CStopStep
  BY <1>4 DEF CStopCheck, CStopStep, ledger
<1>5. CASE RemoveRows \/ RemoveDoc \/ RemoveStep
  BY <1>5 DEF RemoveRows, RemoveDoc, RemoveStep, RemoveFlags, SetCancelKeys, RemoveRowsLeft,
     RemoveChunks, Remove
<1> QED
  BY <1>1, <1>2, <1>3, <1>4, <1>5, CountersSteps DEF OtherStep

LEMMA CountersRest ==
  ASSUME CountersTypeOK, FreshInv, ~Gone => RestInv, [CountersNext]_allVars, ~Gone'
  PROVE  /\ ParseInv /\ RestInv'
         /\ rest' => [Next]_vars \/ \E r \in Run : ClearLost(r)
         /\ \A r \in Run : ClearLost(r) /\ rest' =>
              rest /\ (Waiting => Waiting') /\ (Parsing => Parsing')
<1> USE DEF CountersTypeOK
<1>1. ~Gone /\ ParseInv
  BY GoneStays DEF ParseInv
<1>2. ASSUME NEW r \in Run, ClearLost(r)
      PROVE  rest' = rest /\ (Waiting => Waiting') /\ (Parsing => Parsing') /\ RestInv'
  <2>1. UNCHANGED <<docVars, rowVars, cancel, stored, requestVars, spc, tpc, sync, rest>>
    BY <1>2 DEF ClearLost
  <2>2. EachPageOnce' <=> EachPageOnce
    BY <2>1 DEF EachPageOnce
  <2>3. (Waiting => Waiting') /\ (Parsing => Parsing')
    BY <2>1, <2>2 DEF Waiting, Parsing
  <2> QED
    BY <1>1, <2>1, <2>3 DEF RestInv, ParseInv
<1>3. CASE [Next]_vars
  BY <1>1, <1>2, <1>3, StepRests
<1>4. CASE RemoveRows
  BY <1>1, <1>2, <1>4 DEF RemoveRows, RestInv
<1>5. ASSUME RemoveDoc \/ RemoveStep \/ \E t \in Task : DropRemoved(t) PROVE FALSE
  BY <1>1, <1>5 DEF RemoveDoc, RemoveStep, RemoveFlags, SetCancelKeys, RemoveRowsLeft,
     RemoveChunks, Remove, DropRemoved, Gone
<1> QED
  BY <1>1, <1>2, <1>3, <1>4, <1>5, LifecycleStep DEF RemoveRows

-----------------------------------------------------------------------------
(* The rows that are inserted for a document at rest are counted as far as *)
(* they are taken over.                                                    *)
LEMMA TallyInserted ==
  ASSUME CountersTypeOK, FreshInv, ControlInv, RestInv, rest, Waiting, NEW r \in Run, InsertRows(r),
         paid' = paid, chunk_num' = chunk_num, chunk_num = Cardinality(reuse[r])
  PROVE  Tally'
<1> USE DEF CountersTypeOK, TypeOK
<1>1. /\ rpc[r] = "insert" /\ rpc' = [rpc EXCEPT ![r] = "begin"]
      /\ UNCHANGED <<docVars, tpc, sync>>
      /\ unsent' = [unsent EXCEPT ![r] = TasksOf(r) \ reuse[r]]
      /\ \A t \in Task : tprog'[t] = IF t \in reuse[r] THEN Full ELSE tprog[t]
  BY DEF InsertRows
<1>2. rows = {} /\ run = "RUNNING" /\ \A x \in Syncer : sync[x].sees # "done"
  BY <1>1 DEF Waiting
<1>3. Counted' = reuse[r] /\ rows' = TasksOf(r)
  BY <1>2, InsertedCounted
<1>4. \A s \in Run : rpc'[s] \in {"begin", "send"} => s = r
  BY <1>1 DEF RestInv, Ended
<1>5. \A t \in unsent'[r] : tpc'[t] = "none" /\ tprog'[t] = Queued
  BY <1>1 DEF FreshInv, Before, TasksOf
<1>6. \A t \in Task : tpc'[t] \in {"none", "over"}
  BY <1>1 DEF Waiting
<1>7. Cardinality(Counted') = chunk_num' /\ chunk_num' <= chunk_num'
  BY <1>3
<1> DEFINE P == {t \in rows : Past(t)}
<1>8. reuse[r] \subseteq P' /\ P' \subseteq Task
  BY <1>1, <1>3 DEF Past, TasksOf
<1> HIDE DEF P
<1>9. chunk_num' <= Cardinality(P')
  BY <1>8, TaskSets
<1> QED
  BY <1>1, <1>2, <1>3, <1>4, <1>5, <1>6, <1>7, <1>9 DEF Tally, P

(* A request at rest has counted what it takes over when it inserts, and   *)
(* only enqueues afterwards.                                               *)
LEMMA TallyRequest ==
  ASSUME CountersTypeOK, FreshInv, ControlInv, RestInv, rest, Parsing, Tally, NEW r \in Run,
         ReadRun(r) \/ CRequestStep(r) \/ ClearLost(r) \/ CRequestFails(r)
  PROVE  Tally'
<1> USE DEF CountersTypeOK, TypeOK
<1>1. paid' = paid /\ chunk_num \in Nat
  BY RequestCounters
<1> DEFINE P == {t \in rows : Past(t)}
<1>2. CASE ReadRun(r) \/ ReadCount(r) \/ Clear(r)
  <2>1. UNCHANGED <<vars, chunk_num>>
    BY <1>2 DEF ReadRun, ReadCount, Clear, counters
  <2>2. Counted' = Counted /\ P' = P
    BY <1>1, <2>1 DEF vars, Counted, Past
  <2> QED
    BY <2>1, <2>2 DEF Tally, vars
<1>3. CASE SetCount(r)
  BY <1>3 DEF SetCount, Parsing, Ended
<1>4. CASE ClearLost(r) \/ CRequestFails(r)
  <2>0. faults' # 0
    <3>1. faults' = faults + 1 /\ faults \in Nat
      <4>1. Fault
        BY <1>4 DEF ClearLost, CRequestFails, RequestFails
      <4>2. faults \in Nat
        BY LifecycleAssumption
      <4> QED
        BY <4>1, <4>2 DEF Fault
    <3> QED
      BY <3>1
  <2>1. /\ UNCHANGED <<run, rows, tprog, tpc, unsent, sync, chunk_num>> /\ faults' # 0
        /\ \A s \in Run : rpc'[s] \in {"begin", "send"} => rpc[s] \in {"begin", "send"}
    <3>1. CASE ClearLost(r)
      BY <2>0, <3>1 DEF ClearLost, counters
    <3>2. CASE CRequestFails(r)
      BY <2>0, <3>2 DEF CRequestFails, RequestFails, counters
    <3> QED
      BY <1>4, <3>1, <3>2
  <2>2. Counted' = Counted
    BY <1>1, <2>1 DEF Counted
  <2> QED
    BY <2>1, <2>2 DEF Tally
<1>5. CASE RequestStep(r) /\ UNCHANGED counters
  <2>1. Begin(r) \/ \E t \in Task : Send(r, t)
    BY <1>5 DEF RequestStep, DeleteRows, DeleteChunks, ReadPrev, Purge, DropLeftOver, InsertRows,
                Parsing, Ended
  <2>2. CASE Begin(r)
    <3>1. /\ UNCHANGED <<rows, tprog, tpc, unsent, sync, chunk_num, faults>>
          /\ run' = "DONE" => run = "DONE"
          /\ \A s \in Run : rpc'[s] \in {"begin", "send"} => rpc[s] \in {"begin", "send"}
      BY <1>5, <2>2 DEF Begin, counters
    <3>2. Counted' = Counted /\ P' = P
      BY <1>1, <3>1 DEF Counted, Past
    <3> QED
      BY <3>1, <3>2 DEF Tally
  <2>3. ASSUME NEW u \in Task, Send(r, u) PROVE Tally'
    <3>1. /\ UNCHANGED <<run, rows, tprog, sync, chunk_num, faults>>
          /\ tpc[u] = "none" /\ tpc' = [tpc EXCEPT ![u] = "queued"]
          /\ u \in unsent[r] /\ unsent' = [unsent EXCEPT ![r] = @ \ {u}]
          /\ rpc[r] = "send" /\ rpc' = [rpc EXCEPT ![r] = rpc'[r]]
      BY <1>5, <2>3 DEF Send, counters
    <3>2. tprog[u] = Queued /\ u \in rows /\ paid[u] # "yes"
      <4>1. rows = TasksOf(r) /\ tprog[u] = Queued
        BY <3>1 DEF Tally
      <4> QED
        BY <3>1, <4>1 DEF ControlInv, FreshInv
    <3>3. \A s \in Run : s # r => rpc'[s] \in Ended
      BY <3>1 DEF RestInv, Ended
    <3>4. Counted' = Counted
      BY <1>1, <3>1 DEF Counted
    <3>5. P' = P
      BY <1>1, <3>1, <3>2 DEF Past, RunningLabel
    <3>6. \A s \in Run : rpc'[s] \in {"begin", "send"} =>
            rows' = TasksOf(s) /\ \A t \in unsent'[s] : tpc'[t] = "none" /\ tprog'[t] = Queued
      BY <3>1, <3>3 DEF Tally, Ended
    <3>7. \A t \in Task : tpc'[t] \notin {"none", "over"} => t \in rows'
      BY <3>1, <3>2 DEF Tally
    <3>8. faults' = 0 => /\ chunk_num' <= Cardinality(P')
                         /\ \A t \in rows' : tpc'[t] = "queued" => tprog'[t] = Queued
      BY <3>1, <3>2, <3>5 DEF Tally
    <3> QED
      BY <3>1, <3>4, <3>6, <3>7, <3>8 DEF Tally
  <2> QED
    BY <2>1, <2>2, <2>3
<1> QED
  BY <1>2, <1>3, <1>4, <1>5 DEF CRequestStep

-----------------------------------------------------------------------------
(* An execution that does not synchronise does not make the document DONE. *)
LEMMA TaskSees ==
  ASSUME TypeOK, NEW t \in Task, TaskStep(t) \/ FinallyFails(t) \/ Crash(t) \/ Expire(t), ~Sync(t)
  PROVE  /\ run' = "DONE" => run = "DONE"
         /\ \A x \in Syncer : sync'[x].sees \in {"none", sync[x].sees}
<1> USE DEF TypeOK
<1>1. CASE Collect(t) \/ Abandon(t) \/ Accept(t) \/ Insert(t) \/ UpdateChunkIds(t)
  BY <1>1 DEF Collect, Abandon, Accept, Insert, UpdateChunkIds
<1>2. CASE Notice(t) \/ Error(t) \/ FailDoc(t) \/ LateFail(t)
  BY <1>2 DEF Notice, Error, FailDoc, LateFail, SetFailed, Busy
<1>3. CASE Report(t) \/ Finally(t) \/ Wipe(t) \/ End(t) \/ FinallyFails(t)
  BY <1>3 DEF Report, Finally, Wipe, End, FinallyFails
<1>4. CASE StartSync(t)
  BY <1>4 DEF StartSync, Syncer
<1>5. CASE Crash(t) \/ Expire(t)
  BY <1>5 DEF Crash, Expire, Syncer
<1> QED
  BY <1>1, <1>2, <1>3, <1>4, <1>5 DEF TaskStep

(* An execution that may have counted does not become one that has not.    *)
LEMMA PastStays ==
  ASSUME CountersTypeOK, ControlInv, NEW t \in Task, TaskStep(t),
         tpc[t] = "queued" => tprog[t] = Queued,
         paid' = IF tpc'[t] = "indexed" THEN paid ELSE [paid EXCEPT ![t] = "no"]
  PROVE  /\ Past(t) => Past(t)'
         /\ tpc'[t] = "queued" => UNCHANGED <<tpc, tprog>>
<1> USE DEF CountersTypeOK, TypeOK, Past
<1> DEFINE Later == RunningLabel \ ({"collected", "abandon"} \cup Busy)
<1>0. tpc[t] \in {"queued", "collected", "working", "inserted"} => ~Past(t)
  BY DEF ControlInv, Busy, RunningLabel
<1>1. CASE Collect(t)
  BY <1>0, <1>1 DEF Collect
<1>2. CASE Accept(t) \/ Insert(t) \/ UpdateChunkIds(t)
  BY <1>0, <1>2 DEF Accept, Insert, UpdateChunkIds
<1>3. CASE Notice(t) \/ Error(t) \/ LateFail(t) \/ FailDoc(t)
  <2>1. tpc'[t] \in {"fail", "finally", "fail_raised", "raised", "fail_late", "record"}
    BY <1>3 DEF Notice, Error, LateFail, SetFailed, FailDoc
  <2> QED
    BY <2>1 DEF RunningLabel, Busy
<1>4. CASE Abandon(t) \/ Report(t) \/ Finally(t) \/ Wipe(t) \/ StartSync(t) \/ End(t)
  <2>1. tpc'[t] \in {"over", "finally", "wipe", "record", "wipe_raised", "late", "sync"}
    BY <1>4 DEF Abandon, Report, Finally, Wipe, StartSync, End
  <2> QED
    BY <2>1 DEF RunningLabel, Busy
<1>5. CASE Sync(t)
  <2>1. UNCHANGED <<tpc, tprog>>
    BY <1>5, SyncFrame DEF Syncer
  <2>2. paid'[t] = paid[t]
    BY <2>1 DEF ControlInv
  <2> QED
    BY <2>1, <2>2
<1> QED
  BY <1>1, <1>2, <1>3, <1>4, <1>5 DEF TaskStep

(* When all rows are finished all of them are counted.                     *)
LEMMA TallyDone ==
  ASSUME CountersTypeOK, Tally, Summary = "done"
  PROVE  Cardinality(Page) <= chunk_num
<1>1. PICK r \in Run : rows = TasksOf(r)
  BY DEF Tally
<1>2. \A t \in rows : tprog[t] = Full
  BY DEF Summary, CountersTypeOK, TypeOK
<1>3. Counted = rows
  BY <1>2 DEF Counted
<1> QED
  BY <1>1, <1>3, TasksOfPages DEF Tally

LEMMA TallyTask ==
  ASSUME CountersTypeOK, ControlInv, Tally, NEW t \in Task,
         CTaskStep(t) \/ CFinallyFails(t) \/ CCrash(t) \/ CExpire(t)
  PROVE  Tally'
<1> USE DEF CountersTypeOK, TypeOK
<1> DEFINE P == {u \in rows : Past(u)}
<1>1. Counted \in SUBSET Task /\ P \in SUBSET Task /\ P' \in SUBSET Task
  <2>1. rows' = rows
    <3>1. CASE TaskStep(t) \/ FinallyFails(t) \/ Crash(t) \/ Expire(t)
      BY <3>1, TaskFrame
    <3> QED
      BY <3>1 DEF CTaskStep, CFinallyFails, CCrash, CExpire, LastCheck, increment_chunk_num, vars
  <2> QED
    BY <2>1 DEF Counted
<1>2. /\ Cardinality(Counted) \in Nat /\ Cardinality(P) \in Nat /\ Cardinality(P') \in Nat
      /\ chunk_num \in Nat /\ Cardinality(Page) \in Nat
  <2>1. \E r \in Run : TRUE
    BY DEF Tally
  <2> HIDE DEF P
  <2> QED
    BY <1>1, <2>1, TaskSets, TasksOfPages
<1>3. CASE LastCheck(t)
  <2>1. UNCHANGED <<vars, chunk_num>> /\ paid[t] = "no" /\ paid' = [paid EXCEPT ![t] = "checked"]
    BY <1>3 DEF LastCheck, counters
  <2>2. Counted' = Counted
    BY <2>1 DEF Counted, vars
  <2>3. P' = P
    BY <2>1 DEF Past, vars
  <2> QED
    BY <2>1, <2>2, <2>3 DEF Tally, vars
<1>4. CASE increment_chunk_num(t)
  <2>1. /\ UNCHANGED vars /\ chunk_num' = chunk_num + 1 /\ paid' = [paid EXCEPT ![t] = "yes"]
        /\ tpc[t] = "indexed" /\ paid[t] = "checked"
    BY <1>4 DEF increment_chunk_num
  <2>2. Counted' \subseteq Counted \cup {t}
    BY <1>4, TaskCounted DEF CTaskStep
  <2>3. Counted' \in SUBSET Task
    BY <2>1 DEF Counted, vars
  <2>4. Cardinality(Counted') <= Cardinality(Counted) + 1 /\ Cardinality(Counted') \in Nat
    BY <1>1, <2>2, <2>3, TaskSets
  <2>5. t \in rows /\ t \notin P /\ P \cup {t} \subseteq P'
    <3>1. t \in rows
      BY <2>1 DEF Tally
    <3>2. ~Past(t)
      BY <2>1 DEF Past, ControlInv, Busy
    <3>3. \A u \in Task : Past(u) => Past(u)'
      BY <2>1 DEF Past, vars
    <3>4. Past(t)'
      BY <2>1 DEF Past
    <3>5. rows' = rows
      BY <2>1 DEF vars
    <3> QED
      BY <3>1, <3>2, <3>3, <3>4, <3>5
  <2>6. Cardinality(P') >= Cardinality(P) + 1
    <3> HIDE DEF P
    <3> QED
      BY <1>1, <2>5, TaskSets
  <2>7. Cardinality(Counted') <= chunk_num'
    BY <1>2, <2>1, <2>4 DEF Tally
  <2>8. faults' = 0 => chunk_num' <= Cardinality(P')
    <3>1. faults' = faults
      BY <2>1 DEF vars
    <3>2. faults = 0 => chunk_num <= Cardinality(P)
      BY DEF Tally
    <3> HIDE DEF P
    <3> QED
      BY <1>2, <2>1, <2>6, <3>1, <3>2
  <2>9. run' = "DONE" \/ (\E x \in Syncer : sync'[x].sees = "done") =>
          Cardinality(Page) <= chunk_num'
    BY <1>2, <2>1 DEF Tally, vars
  <2> QED
    BY <2>1, <2>7, <2>8, <2>9 DEF Tally, vars
<1>5. CASE ~LastCheck(t) /\ ~increment_chunk_num(t)
  <2>1. TaskStep(t) \/ FinallyFails(t) \/ Crash(t) \/ Expire(t)
    BY <1>5 DEF CTaskStep, CFinallyFails, CCrash, CExpire
  <2>2. /\ UNCHANGED <<rows, requestVars>>
        /\ \A u \in Task : u # t => tpc'[u] = tpc[u] /\ tprog'[u] = tprog[u]
        /\ tpc[t] \in {"none", "over"} => (Sync(t) \/ Expire(t)) /\ UNCHANGED <<tpc, tprog>>
    BY <2>1, TaskFrame
  <2>3. chunk_num' = chunk_num
    BY <1>5 DEF CTaskStep, CFinallyFails, CCrash, CExpire, counters
  <2>4. Cardinality(Counted') <= chunk_num'
    <3>1. Counted' \subseteq Counted
      BY <1>5, TaskCounted
    <3>2. Cardinality(Counted') <= Cardinality(Counted) /\ Cardinality(Counted') \in Nat
      BY <1>1, <3>1, TaskSets
    <3> QED
      BY <1>2, <2>3, <3>2 DEF Tally
  <2>5. run' = "DONE" \/ (\E x \in Syncer : sync'[x].sees = "done") =>
          Cardinality(Page) <= chunk_num'
    <3>1. CASE Sync(t)
      <4>1. /\ run' = "DONE" => run = "DONE" \/ sync[t].sees = "done"
            /\ \A y \in Syncer : y # t => sync'[y] = sync[y]
            /\ sync'[t].sees \in {"none", sync[t].sees} \/ sync'[t].sees = Summary
        BY <3>1, SyncFrame DEF Syncer
      <4> QED
        BY <2>3, <4>1, TallyDone DEF Tally, Syncer
    <3>2. CASE ~Sync(t)
      BY <2>1, <2>3, <3>2, TaskSees DEF Tally
    <3> QED
      BY <3>1, <3>2
  <2>6. \A u \in Task : tpc'[u] \notin {"none", "over"} => u \in rows'
    BY <2>2 DEF Tally
  <2>7. \A r \in Run : rpc'[r] \in {"begin", "send"} =>
          rows' = TasksOf(r) /\ \A u \in unsent'[r] : tpc'[u] = "none" /\ tprog'[u] = Queued
    <3>1. \A u \in Task : tpc[u] = "none" => tpc'[u] = tpc[u] /\ tprog'[u] = tprog[u]
      BY <2>2
    <3> QED
      BY <2>2, <3>1 DEF Tally
  <2>8. CASE CTaskStep(t)
    <3>0. /\ paid' = IF tpc'[t] = "indexed" THEN paid ELSE [paid EXCEPT ![t] = "no"]
          /\ TaskStep(t)
      BY <1>5, <2>8 DEF CTaskStep
    <3>1. /\ paid' = IF tpc'[t] = "indexed" THEN paid ELSE [paid EXCEPT ![t] = "no"]
          /\ faults' = faults
      BY <3>0 DEF TaskStep, Collect, Abandon, Accept, Insert, UpdateChunkIds, Notice, Error,
         SetFailed, FailDoc, Report, Finally, Wipe, LateFail, StartSync, Sync, SyncRead, SyncCheck,
         SyncWrite, End
    <3>2. ASSUME faults = 0 PROVE /\ chunk_num' <= Cardinality(P')
                                  /\ \A u \in rows' : tpc'[u] = "queued" => tprog'[u] = Queued
      <4>1. (Past(t) => Past(t)') /\ (tpc'[t] = "queued" => UNCHANGED <<tpc, tprog>>)
        <5>1. tpc[t] = "queued" => tprog[t] = Queued
          BY <3>2 DEF Tally
        <5> QED
          BY <3>0, <5>1, PastStays
      <4>2. \A u \in Task : u # t => (Past(u)' <=> Past(u))
        BY <2>2, <3>1 DEF Past
      <4>3. P \subseteq P'
        BY <2>2, <4>1, <4>2
      <4>4. Cardinality(P) <= Cardinality(P')
        <5> HIDE DEF P
        <5> QED
          BY <1>1, <4>3, TaskSets
      <4>5. chunk_num <= Cardinality(P)
        BY <3>2 DEF Tally
      <4>6. chunk_num' <= Cardinality(P')
        <5> HIDE DEF P
        <5> QED
          BY <1>2, <2>3, <4>4, <4>5
      <4>7. \A u \in rows' : tpc'[u] = "queued" => tprog'[u] = Queued
        BY <2>2, <3>2, <4>1 DEF Tally
      <4> QED
        BY <4>6, <4>7
    <3> QED
      BY <2>2, <2>4, <2>5, <2>6, <2>7, <3>1, <3>2 DEF Tally
  <2>9. CASE CFinallyFails(t) \/ CCrash(t) \/ CExpire(t)
    <3>1. faults' # 0
      BY <2>9 DEF CFinallyFails, CCrash, CExpire, FinallyFails, Crash, Expire
    <3> QED
      BY <2>2, <2>4, <2>5, <2>6, <2>7, <3>1 DEF Tally
  <2> QED
    BY <2>1, <2>8, <2>9
<1> QED
  BY <1>3, <1>4, <1>5

(* TallyInv holds as long as the document waits, and is established with   *)
(* its rows.                                                               *)
LEMMA TallyKept ==
  ASSUME CountersTypeOK, FreshInv, ~Gone => RestInv, ControlInv, TallyInv, [CountersNext]_allVars
  PROVE  TallyInv'
<1> USE DEF CountersTypeOK, TypeOK
<1> SUFFICES ASSUME rest', ~Gone'
             PROVE  /\ \A r \in Run : rpc'[r] = "insert" /\ cpc'[r] = "counted" =>
                                       chunk_num' = Cardinality(reuse'[r])
                    /\ Waiting' \/ (Parsing' /\ Tally')
  BY DEF TallyInv
<1> DEFINE Goal1 == \A r \in Run : rpc'[r] = "insert" /\ cpc'[r] = "counted" =>
                                    chunk_num' = Cardinality(reuse'[r])
           Goal2 == Waiting' \/ (Parsing' /\ Tally')
<1>1. /\ ParseInv /\ RestInv' /\ ~Gone
      /\ [Next]_vars \/ \E r \in Run : ClearLost(r)
      /\ \A r \in Run : ClearLost(r) => rest /\ (Waiting => Waiting') /\ (Parsing => Parsing')
  BY CountersRest, GoneStays
<1>2. RestInv
  BY <1>1 DEF ParseInv
<1>3. Waiting' \/ Parsing'
  BY <1>1 DEF RestInv
<1>4. rest => /\ \A r \in Run : rpc[r] = "insert" /\ cpc[r] = "counted" =>
                                  chunk_num = Cardinality(reuse[r])
              /\ Waiting \/ (Parsing /\ Tally)
              /\ spc = "idle"
              /\ \A r, s \in Run : rpc[r] \notin Ended /\ rpc[s] \notin Ended => r = s
  BY <1>1, <1>2 DEF TallyInv, RestInv
<1>5. ASSUME ~ \E r \in Run : InsertRows(r), ~rest \/ Waiting PROVE Waiting'
  BY <1>1, <1>5, StepWaits
<1>6. CASE UNCHANGED allVars
  <2>1. rest /\ Goal1
    BY <1>4, <1>6 DEF allVars, vars, countVars, counters, ledger
  <2>2. (Waiting => Waiting') /\ (Parsing => Parsing') /\ (Tally => Tally')
    BY <1>6 DEF allVars, vars, countVars, counters, ledger, Waiting, EachPageOnce, Parsing, Tally,
                Counted, Past
  <2> QED
    BY <1>4, <2>1, <2>2
<1>7. ASSUME NEW r \in Run, CMark(r) PROVE Goal1 /\ Goal2
  <2>1. Mark(r)
    BY <1>7 DEF CMark
  <2>2. NothingElseRuns /\ rpc' = [rpc EXCEPT ![r] = rpc'[r]] /\ rpc'[r] # "insert"
    BY <2>1 DEF Mark
  <2>3. \A s \in Run : rpc'[s] # "insert"
    BY <2>2 DEF NothingElseRuns
  <2> QED
    BY <1>1, <2>1, <2>3, MarkWaits
<1>8. ASSUME NEW r \in Run,
             ReadRun(r) \/ CRequestStep(r) \/ ClearLost(r) \/ CRequestFails(r)
      PROVE  Goal1 /\ Goal2
  <2>1. rest
    <3>1. CASE RequestStep(r)
      BY <3>1, RequestMoves
    <3> QED
      BY <1>8, <3>1 DEF ReadRun, CRequestStep, ReadCount, Clear, SetCount, ClearLost, CRequestFails,
         RequestFails, vars
  <2>2. Goal1
    <3>1. CASE SetCount(r)
      <4>1. /\ rpc[r] = "insert" /\ UNCHANGED <<rpc, reuse>>
            /\ chunk_num' = Cardinality(reuse[r])
        BY <1>1, <3>1 DEF SetCount, vars
      <4>2. \A s \in Run : rpc[s] = "insert" => s = r
        BY <1>4, <2>1, <4>1 DEF Ended
      <4> QED
        BY <4>1, <4>2
    <3>2. CASE RequestStep(r) /\ UNCHANGED <<counters, cpc>>
      <4>1. \A s \in Run : s # r => rpc'[s] = rpc[s] /\ reuse'[s] = reuse[s]
        BY <3>2, RequestMoves
      <4>2. rpc'[r] = "insert" => cpc[r] # "counted"
        <5>1. rpc[r] \notin Before \ {"insert"} => rpc'[r] \notin Before
          BY <3>2, RequestMoves
        <5> QED
          BY <5>1 DEF ControlInv, Before
      <4> QED
        BY <1>4, <2>1, <3>2, <4>1, <4>2 DEF counters
    <3>3. CASE ReadRun(r) \/ ReadCount(r) \/ Clear(r) \/ ClearLost(r) \/ CRequestFails(r)
      <4>1. /\ chunk_num' = chunk_num /\ reuse' = reuse
            /\ \A s \in Run : /\ cpc'[s] = "counted" => cpc[s] = "counted"
                              /\ rpc'[s] = "insert" => rpc[s] = "insert"
        <5>1. CASE ReadRun(r) \/ ReadCount(r) \/ Clear(r)
          BY <5>1 DEF ReadRun, ReadCount, Clear, CGo, vars, counters
        <5>2. CASE ClearLost(r) \/ CRequestFails(r)
          BY <5>2 DEF ClearLost, CRequestFails, RequestFails, counters, requestVars
        <5> QED
          BY <3>3, <5>1, <5>2
      <4>2. ASSUME NEW s \in Run, rpc'[s] = "insert", cpc'[s] = "counted"
            PROVE  chunk_num' = Cardinality(reuse'[s])
        <5>1. rpc[s] = "insert" /\ cpc[s] = "counted"
          BY <4>1, <4>2
        <5>2. chunk_num = Cardinality(reuse[s])
          BY <1>4, <2>1, <5>1, Zenon
        <5> QED
          BY <4>1, <5>2
      <4> QED
        BY <4>2
    <3> QED
      BY <1>8, <3>1, <3>2, <3>3 DEF CRequestStep
  <2>3. CASE ~Waiting
    <3>1. Tally'
      BY <1>2, <1>4, <1>8, <2>1, <2>3, TallyRequest
    <3> QED
      BY <1>3, <2>2, <3>1
  <2>4. CASE Waiting
    <3>1. CASE /\ RequestStep(r) /\ (rpc[r] = "insert" => cpc[r] = "counted")
               /\ UNCHANGED <<counters, paid>>
      <4>1. Waiting' \/ (InsertRows(r) /\ Parsing')
        BY <1>1, <2>1, <2>4, <3>1, WaitingRequest
      <4>2. ASSUME InsertRows(r) PROVE Tally'
        <5>1. rpc[r] = "insert" /\ cpc[r] = "counted" /\ UNCHANGED <<chunk_num, paid>>
          BY <3>1, <4>2 DEF InsertRows, RStep, counters
        <5>2. chunk_num = Cardinality(reuse[r])
          BY <1>4, <2>1, <5>1
        <5> QED
          BY <1>2, <2>1, <2>4, <4>2, <5>1, <5>2, TallyInserted
      <4> QED
        BY <2>2, <4>1, <4>2
    <3>2. CASE \/ ReadRun(r) \/ ReadCount(r) \/ Clear(r) \/ SetCount(r)
               \/ ClearLost(r) \/ CRequestFails(r)
      <4>1. ~ \E s \in Run : InsertRows(s)
        <5>1. CASE ReadRun(r) \/ ReadCount(r) \/ Clear(r) \/ SetCount(r) \/ ClearLost(r)
          <6>1. rpc' = rpc
            BY <5>1 DEF ReadRun, ReadCount, Clear, SetCount, ClearLost, vars
          <6> QED
            BY <6>1 DEF InsertRows, RStep
        <5>2. CASE CRequestFails(r)
          <6>1. \A s \in Run : rpc'[s] = rpc[s] \/ rpc'[s] = "failed"
            BY <5>2 DEF CRequestFails, RequestFails
          <6> QED
            BY <6>1 DEF InsertRows, RStep
        <5> QED
          BY <3>2, <5>1, <5>2
      <4> QED
        BY <1>5, <2>2, <2>4, <4>1
    <3> QED
      BY <1>8, <3>1, <3>2 DEF CRequestStep
  <2> QED
    BY <2>3, <2>4
<1>9. ASSUME OtherStep PROVE Goal1 /\ Goal2
  <2>1. UNCHANGED <<requestVars, cpc>>
    BY <1>9, OtherFrame
  <2>2. rest /\ ~(CStopCheck \/ CStopStep)
    <3>1. CASE CStopCheck \/ CStopStep
      <4>1. CStopStep /\ rest /\ spc # "idle"
        BY <3>1 DEF CStopCheck, CStopStep, StopCheck, StopStep, StopFlag, SetCancelKeys, StopMark,
           StopRows, StopClean
      <4> QED
        BY <1>4, <4>1
    <3>2. ASSUME NEW t \in Task, CTaskStep(t) \/ CFinallyFails(t) \/ CCrash(t) \/ CExpire(t) PROVE rest
      <4>1. CASE TaskStep(t) \/ FinallyFails(t) \/ Crash(t) \/ Expire(t)
        BY <4>1, TaskFrame
      <4> QED
        BY <3>2, <4>1 DEF CTaskStep, CFinallyFails, CCrash, CExpire, LastCheck,
           increment_chunk_num, vars
    <3>3. CASE RemoveRows \/ RemoveDoc \/ RemoveStep \/ \E t \in Task : DropRemoved(t)
      BY <1>1, <3>3 DEF RemoveRows, RemoveDoc, RemoveStep, RemoveFlags, SetCancelKeys,
         RemoveRowsLeft, RemoveChunks, Remove, DropRemoved, Gone
    <3> QED
      BY <1>9, <3>1, <3>2, <3>3 DEF OtherStep
  <2>3. PICK t \in Task : CTaskStep(t) \/ CFinallyFails(t) \/ CCrash(t) \/ CExpire(t)
    <3>1. ~(RemoveRows \/ RemoveDoc \/ RemoveStep \/ \E t \in Task : DropRemoved(t))
      BY <1>1 DEF RemoveRows, RemoveDoc, RemoveStep, RemoveFlags, SetCancelKeys, RemoveRowsLeft,
         RemoveChunks, Remove, DropRemoved, Gone
    <3> QED
      BY <1>9, <2>2, <3>1 DEF OtherStep
  <2>4. ~ \E r \in Run : InsertRows(r)
    BY <2>1 DEF InsertRows
  <2>5. CASE Waiting
    <3>1. Waiting'
      BY <1>5, <2>4, <2>5
    <3>2. chunk_num' = chunk_num
      BY <2>3, <2>5 DEF CTaskStep, LastCheck, increment_chunk_num, CFinallyFails, CCrash, CExpire,
         counters, Waiting
    <3> QED
      BY <1>4, <2>1, <2>2, <3>1, <3>2
  <2>6. CASE ~Waiting
    <3>1. Parsing /\ Tally
      BY <1>4, <2>2, <2>6
    <3>2. Tally'
      BY <2>3, <3>1, TallyTask
    <3>3. Goal1
      BY <2>1, <3>1 DEF Parsing, Ended
    <3> QED
      BY <1>3, <3>2, <3>3
  <2> QED
    BY <2>5, <2>6
<1> QED
  BY <1>6, <1>7, <1>8, <1>9, CountersSteps

-----------------------------------------------------------------------------
LEMMA InitCountersInv == CountersInit => CountersInv
<1> SUFFICES ASSUME CountersInit PROVE CountersInv
  OBVIOUS
<1> USE DEF CountersInit
<1>1. TypeOK
  BY InitIInv DEF IInv
<1>2. FreshInv /\ RestInv
  BY <1>1 DEF Init, FreshInv, RestInv, TasksOf
<1>3. CountersTypeOK
  <2>1. chunk_num \in Nat /\ kb \in Int /\ escaped \subseteq Page /\ tidy \in BOOLEAN
    OBVIOUS
  <2>2. raced \in BOOLEAN
    OBVIOUS
  <2>3. /\ cpc \in [Run -> {"idle", "read", "clear", "update", "count", "counted", "lost"}]
        /\ took \in [Run -> Nat] /\ paid \in [Task -> {"no", "checked", "yes"}]
        /\ mpc \in {"idle", "doc", "flags", "rows", "chunks", "over"}
    OBVIOUS
  <2> QED
    BY <1>1, <2>1, <2>2, <2>3 DEF CountersTypeOK
<1>4. Pending = 0
  BY PendingNow, PendingNone
<1>5. Cardinality(Counted) = 0
  <2>1. Counted = {}
    BY DEF Counted, Init
  <2> QED
    BY <2>1, FS_EmptySet
<1>6. ControlInv /\ AloneInv
  BY DEF Init, ControlInv, AloneInv, Serving, Gone, Busy
<1>7. BelowInv /\ TidyInv
  BY <1>4, <1>5 DEF Init, BelowInv, TidyInv, Early, Before
<1>8. UnstartInv /\ TallyInv /\ RemovedInv /\ RemovedIsEmpty
  BY DEF Init, UnstartInv, TallyInv, RemovedInv, RemovedIsEmpty
<1> QED
  BY <1>2, <1>3, <1>6, <1>7, <1>8 DEF CountersInv

(* CountersInv is inductive.                                               *)
THEOREM CountersInvariant == CountersSpec => []CountersInv
<1>1. CountersInv /\ [CountersNext]_allVars => CountersInv'
  <2> SUFFICES ASSUME CountersInv, [CountersNext]_allVars PROVE CountersInv'
    OBVIOUS
  <2> USE DEF CountersInv
  <2>1. CountersTypeOK' /\ FreshInv'
    BY CountersTypeKept, LifecycleKept DEF CountersTypeOK
  <2>2. ~Gone' => RestInv'
    BY CountersRest
  <2>3. ControlInv' /\ AloneInv' /\ UnstartInv' /\ RemovedInv' /\ RemovedIsEmpty'
    BY ControlKept, AloneKept, UnstartKept, RemovedKept, RemovedEmpty
  <2>4. BelowInv'
    <3>1. CASE UNCHANGED allVars
      BY <3>1 DEF allVars, vars, countVars, counters, ledger, past, BelowInv, Counted, Cleared,
         Gone, Pending
    <3>2. CASE raced'
      BY <3>2 DEF BelowInv
    <3> QED
      BY <3>1, <3>2, BelowRequest, BelowOther, CountersSteps
  <2>5. TidyInv'
    <3>1. CASE UNCHANGED allVars
      BY <3>1 DEF allVars, vars, countVars, counters, ledger, past, TidyInv, Early, Pending
    <3>2. CASE raced' \/ ~tidy'
      BY <3>2 DEF TidyInv
    <3> QED
      BY <3>1, <3>2, TidyRequest, TidyOther, CountersSteps
  <2>6. TallyInv'
    BY TallyKept
  <2> QED
    BY <2>1, <2>2, <2>3, <2>4, <2>5, <2>6
<1> QED
  BY <1>1, InitCountersInv, PTL DEF CountersSpec

(* The types of every reachable state: in particular a document's counter  *)
(* never goes below zero.                                                  *)
THEOREM CountersTypes == CountersSpec => []CountersTypeOK
<1>1. CountersInv => CountersTypeOK
  BY DEF CountersInv
<1> QED
  BY <1>1, CountersInvariant, PTL

(* The dataset's counter is that of its document as long as every parse    *)
(* request finds the document at rest.                                     *)
THEOREM CountersDoNotDrift == CountersSpec => []NoDrift
<1>1. CountersInv => NoDrift
  BY DEF CountersInv, TidyInv, NoDrift
<1> QED
  BY <1>1, CountersInvariant, PTL

(* Unless two requests overlap, or one dies between clearing the counter   *)
(* and deleting the rows, the dataset counts no chunk less than its        *)
(* document.                                                               *)
THEOREM DatasetIsNotBelow == CountersSpec => []DatasetNotBelow
<1>1. CountersInv => DatasetNotBelow
  BY DEF CountersInv, BelowInv, DatasetNotBelow
<1> QED
  BY <1>1, CountersInvariant, PTL

(* A document that was at rest when it was parsed is DONE only when the    *)
(* chunk of every page is counted, exactly once if nothing failed.         *)
THEOREM DoneIsCounted == CountersSpec => []CountsChunks
<1>1. CountersInv => CountsChunks
  <2> SUFFICES ASSUME CountersInv, rest, run = "DONE", ~Gone
               PROVE  chunk_num = Cardinality(Page) \/ (faults > 0 /\ chunk_num > Cardinality(Page))
    BY DEF CountsChunks
  <2>1. Tally
    BY DEF CountersInv, TallyInv, Waiting
  <2>2. PICK r \in Run : rows = TasksOf(r)
    BY <2>1 DEF Tally
  <2>3. Cardinality(Page) = Cardinality(rows) /\ Cardinality(Page) \in Nat
    BY <2>2, TasksOfPages
  <2>4. /\ chunk_num \in Nat /\ faults \in Nat /\ rows \in SUBSET Task
        /\ Cardinality(Page) <= chunk_num
    BY <2>1, LifecycleAssumption DEF Tally, CountersInv, CountersTypeOK, TypeOK
  <2> DEFINE P == {t \in rows : Past(t)}
  <2>5. P \subseteq rows /\ P \in SUBSET Task
    BY <2>4
  <2>6. faults = 0 => chunk_num <= Cardinality(P)
    BY <2>1 DEF Tally
  <2> HIDE DEF P
  <2>7. Cardinality(P) <= Cardinality(rows) /\ Cardinality(P) \in Nat
    BY <2>4, <2>5, TaskSets
  <2> QED
    BY <2>3, <2>4, <2>6, <2>7
<1> QED
  BY <1>1, CountersInvariant, PTL

(* A removed document leaves no chunks but those of executions that still  *)
(* delete them, could not, or are not reached, and those that a removal    *)
(* whose own deletion failed leaves behind.                                *)
THEOREM RemovedLeavesNothing == CountersSpec => []RemovedIsEmpty
<1>1. CountersInv => RemovedIsEmpty
  BY DEF CountersInv
<1> QED
  BY <1>1, CountersInvariant, PTL
=============================================================================
