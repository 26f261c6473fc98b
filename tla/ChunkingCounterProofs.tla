----------------------- MODULE ChunkingCounterProofs -----------------------
(***************************************************************************)
(* Proofs that the chunking counter starts the document finalizers at most *)
(* once per seeding, and exactly when every task of an undisturbed run was *)
(* credited, for any number of requests, tasks, crashes, stops and         *)
(* retries.                                                                *)
(***************************************************************************)
EXTENDS ChunkingCounter, FiniteSetTheorems, TLAPS

(* The constants and small operators every step needs.                     *)
USE DEF TasksOf, MsgRun, Step, Fault, RStep, redisVars, dbVars, requestVars, bounds, history

(* Initially no key, row, message or credit exists, so all types hold.     *)
LEMMA InitTypeOK == Init => TypeOK
<1> SUFFICES ASSUME Init PROVE TypeOK
  OBVIOUS
<1>1. /\ retry_count \in [Task -> Nat] /\ finalized \in [Run -> Nat]
      /\ faults \in 0..MaxFaults /\ stops \in 0..MaxStops
  BY ConstantAssumption DEF Init
<1>2. rpc \in [Run -> RequestLabel] /\ unsent \in [Run -> SUBSET Task]
  BY DEF Init, RequestLabel
<1>3. spc \in StopLabel /\ tpc \in [Msg -> TaskLabel]
  BY DEF Init, StopLabel, TaskLabel
<1>4. QED
  BY <1>1, <1>2, <1>3 DEF Init, TypeOK

(* The tasks of a run, and those left to credit, are finite.               *)
LEMMA TasksFinite ==
  ASSUME NEW r \in Run, NEW S
  PROVE  /\ IsFiniteSet(TasksOf(r)) /\ IsFiniteSet(TasksOf(r) \ S)
         /\ Cardinality(TasksOf(r)) \in Nat /\ Cardinality(TasksOf(r) \ S) \in Nat
<1>1. IsFiniteSet(TasksOf(r)) /\ IsFiniteSet(TasksOf(r) \ S)
  BY FS_Subset, ConstantAssumption
<1>2. QED
  BY <1>1, FS_CardinalityType

(* A step of an execution keeps the types.                                 *)
LEMMA TaskStepTypeOK ==
  ASSUME TypeOK, NEW m \in Msg, TaskStep(m) \/ Crash(m)
  PROVE  TypeOK'
<1> USE ConstantAssumption DEF TypeOK, TaskLabel, RunningLabel
<1>1. CASE Collect(m)
  BY <1>1 DEF Collect
<1>2. CASE Chunking(m)
  BY <1>2 DEF Chunking
<1>3. CASE Gate(m)
  BY <1>3 DEF Gate
<1>4. CASE CreditDone(m)
  BY <1>4 DEF CreditDone
<1>5. CASE CreditTest(m)
  BY <1>5 DEF CreditTest
<1>6. CASE CreditDecr(m)
  <2> DEFINE left == (IF pending = NoKey THEN 0 ELSE pending) - 1
  <2>1. left \in Int
    OBVIOUS
  <2>2. finalized' \in [Run -> Nat]
    BY <1>6 DEF CreditDecr
  <2>3. tpc' \in [Msg -> TaskLabel]
    BY <1>6 DEF CreditDecr
  <2>4. QED
    BY <1>6, <2>1, <2>2, <2>3 DEF CreditDecr
<1>7. CASE Finalize(m)
  BY <1>7 DEF Finalize
<1>8. CASE Clear(m)
  BY <1>8 DEF Clear, DelPending
<1>9. CASE Report(m)
  BY <1>9 DEF Report
<1>10. CASE Finally(m)
  BY <1>10 DEF Finally
<1>11. CASE AbortDel(m)
  BY <1>11 DEF AbortDel, DelPending
<1>12. CASE AbortMark(m)
  BY <1>12 DEF AbortMark, SetAborted
<1>13. CASE Crash(m)
  BY <1>13 DEF Crash
<1>14. CASE CreditFail(m)
  BY <1>14 DEF CreditFail
<1>15. CASE Accept(m) \/ Check(m)
  BY <1>15 DEF Accept, Check
<1>16. QED
  BY <1>1, <1>2, <1>3, <1>4, <1>5, <1>6, <1>7, <1>8, <1>9, <1>10, <1>11,
     <1>12, <1>13, <1>14, <1>15 DEF TaskStep
(* A step of a parse or stop request keeps the types.                      *)
LEMMA RequestStepTypeOK ==
  ASSUME TypeOK,
         \/ \E r \in Run : RequestStep(r) \/ RequestCrash(r)
         \/ StopStep \/ \E t \in Task : Expire(t)
  PROVE  TypeOK'
<1> USE ConstantAssumption DEF TypeOK, RequestLabel, StopLabel, DelPending, SetAborted
<1>1. ASSUME NEW r \in Run, QueueDelete(r) PROVE TypeOK'
  BY <1>1 DEF QueueDelete
<1>2. ASSUME NEW r \in Run, QueueInsert(r) PROVE TypeOK'
  BY <1>2 DEF QueueInsert
<1>3. ASSUME NEW r \in Run, QueueSeed(r) PROVE TypeOK'
  BY <1>3 DEF QueueSeed, SeedClearMarker
<1>4. ASSUME NEW r \in Run, QueueSeedSet(r) PROVE TypeOK'
  <2>1. Cardinality(TasksOf(r)) \in Nat
    BY TasksFinite
  <2>2. QED
    BY <1>4, <2>1 DEF QueueSeedSet, SeedSet
<1>5. ASSUME NEW r \in Run, NEW m \in Msg, QueueProduct(r, m) PROVE TypeOK'
  BY <1>5 DEF QueueProduct, TaskLabel
<1>14. ASSUME NEW r \in Run, NEW m \in Msg, QueueProductRetry(r, m) PROVE TypeOK'
  BY <1>14 DEF QueueProductRetry, TaskLabel
<1>6. ASSUME NEW r \in Run, QueueProductFail(r) PROVE TypeOK'
  BY <1>6 DEF QueueProductFail
<1>7. ASSUME NEW r \in Run, QueueAbort(r) PROVE TypeOK'
  BY <1>7 DEF QueueAbort
<1>8. ASSUME NEW r \in Run, QueueAbortMark(r) PROVE TypeOK'
  BY <1>8 DEF QueueAbortMark
<1>9. ASSUME NEW r \in Run, RequestCrash(r) PROVE TypeOK'
  BY <1>9 DEF RequestCrash
<1>10. CASE StopAbort
  BY <1>10 DEF StopAbort
<1>11. CASE StopMark
  BY <1>11 DEF StopMark
<1>12. CASE StopFlag
  BY <1>12 DEF StopFlag
<1>15. ASSUME NEW t \in Task, Expire(t) PROVE TypeOK'
  BY <1>15 DEF Expire
<1>13. QED
  BY <1>1, <1>2, <1>3, <1>4, <1>5, <1>6, <1>7, <1>8, <1>9, <1>10, <1>11,
     <1>12, <1>14, <1>15 DEF RequestStep, StopStep

(* The types hold in every reachable state.                                *)
THEOREM TypeCorrect == Spec => []TypeOK
<1>1. TypeOK /\ [Next]_vars => TypeOK'
  <2>1. CASE UNCHANGED vars
    BY <2>1 DEF TypeOK, vars
  <2>2. QED
    BY <2>1, TaskStepTypeOK, RequestStepTypeOK DEF Next
<1>2. QED
  BY <1>1, InitTypeOK, PTL DEF Spec

-----------------------------------------------------------------------------
(* No run is seeded, credited or finalized at the start.                   *)
LEMMA InitIInv == Init => IInv
<1> SUFFICES ASSUME Init PROVE IInv
  OBVIOUS
<1> USE ConstantAssumption DEF Init
<1>1. SeedingInv
  BY DEF SeedingInv, Seeded
<1>2. CreditInv
  BY DEF CreditInv
<1>3. CountInv
  BY DEF CountInv
<1>4. FiringInv
  BY DEF FiringInv, FinalizerLabel
<1>5. QED
  BY <1>1, <1>2, <1>3, <1>4, InitTypeOK DEF IInv

(* Steps that change no done key and no credit, take no task into the      *)
(* middle of a credit and unseed no run keep CreditInv.                    *)
LEMMA CreditInvKept ==
  ASSUME TypeOK, CreditInv, UNCHANGED <<done, credited>>,
         \A n \in Msg : tpc'[n] \in {"test", "decr"} => tpc[n] \in {"test", "decr"},
         \A r \in Run : Seeded(r) => Seeded(r)'
  PROVE  CreditInv'
<1>1. credited' \subseteq done' /\ \A t \in done' : Seeded(RunOf[t])'
  BY ConstantAssumption DEF CreditInv, TypeOK
<1>2. QED
  BY <1>1 DEF CreditInv

(* The steps of a task that touch neither a key nor the history: only its  *)
(* own label moves, and not into the finalizers nor between SET NX and     *)
(* DECRBY.                                                                 *)
LEMMA QuietStepIInv ==
  ASSUME IInv, TypeOK', NEW m \in Msg,
         tpc[m] # "none",
         NEW l \in TaskLabel,
         tpc' = [tpc EXCEPT ![m] = l],
         l \in FinalizerLabel => tpc[m] \in FinalizerLabel,
         l \in {"test", "decr"} => tpc[m] \in {"test", "decr"},
         l # "none",
         UNCHANGED <<pending, done, rpc, unsent, seeder, credited, finalized, lost>>
  PROVE  IInv'
<1> USE ConstantAssumption DEF IInv, TypeOK
<1>1. SeedingInv'
  BY DEF SeedingInv, Seeded
<1>2. CreditInv'
  <2>1. \A n \in Msg : tpc'[n] \in {"test", "decr"} => tpc[n] \in {"test", "decr"}
    OBVIOUS
  <2>2. \A u \in Run : Seeded(u) => Seeded(u)'
    BY DEF Seeded
  <2>3. QED
    BY <2>1, <2>2, CreditInvKept
<1>3. CountInv'
  BY DEF CountInv
<1>4. FiringInv'
  BY DEF FiringInv, FinalizerLabel
<1>5. QED
  BY <1>1, <1>2, <1>3, <1>4
(* SET NX done: the task gets its key before it is credited.               *)
LEMMA CreditDoneIInv ==
  ASSUME IInv, TypeOK', NEW m \in Msg, CreditDone(m)
  PROVE  IInv'
<1> USE ConstantAssumption DEF IInv, TypeOK, CreditDone
<1>1. SeedingInv'
  BY DEF SeedingInv, Seeded
<1>2. CreditInv'
  <2>1. TaskOf[m] \in done' /\ Seeded(MsgRun(m)) /\ credited' \subseteq done'
    BY DEF CreditInv, SeedingInv
  <2>2. \A t \in done' : Seeded(RunOf[t])'
    BY <2>1 DEF CreditInv, Seeded
  <2>3. CASE TaskOf[m] \in done
    BY <2>1, <2>2, <2>3 DEF CreditInv
  <2>4. CASE TaskOf[m] \notin done
    <3>1. \A n \in Msg : tpc[n] \in {"test", "decr"} => TaskOf[n] # TaskOf[m]
      BY <2>4 DEF CreditInv
    <3>2. TaskOf[m] \notin credited
      BY <2>4 DEF CreditInv
    <3>3. QED
      BY <2>1, <2>2, <3>1, <3>2 DEF CreditInv
  <2>5. QED
    BY <2>3, <2>4
<1>3. CountInv'
  BY DEF CountInv
<1>4. FiringInv'
  BY DEF FiringInv, FinalizerLabel
<1>5. QED
  BY <1>1, <1>2, <1>3, <1>4

(* DECRBY.  On the counter of an undisturbed run the task is one of those  *)
(* the counter still counts, so the result is 0 exactly when it was the    *)
(* last one; on any other counter the seeding run is lost by this step.    *)
LEMMA CreditDecrIInv ==
  ASSUME IInv, TypeOK', NEW m \in Msg, CreditDecr(m)
  PROVE  IInv'
<1> DEFINE left == (IF pending = NoKey THEN 0 ELSE pending) - 1
           rest(r) == TasksOf(r) \ credited
<1> USE ConstantAssumption
<1>a. /\ tpc[m] = "decr" /\ TaskOf[m] \in done /\ TaskOf[m] \notin credited
      /\ MsgRun(m) \in Run /\ Seeded(MsgRun(m)) /\ left \in Int
  <2>1. tpc[m] = "decr" /\ MsgRun(m) \in Run
    BY DEF CreditDecr
  <2>2. TaskOf[m] \in done /\ TaskOf[m] \notin credited
    BY <2>1 DEF IInv, CreditInv
  <2>3. Seeded(MsgRun(m))
    BY <2>1 DEF IInv, SeedingInv
  <2>4. left \in Int
    BY DEF IInv, TypeOK
  <2>5. QED
    BY <2>1, <2>2, <2>3, <2>4
<1>s. seeder \in Run
  BY <1>a DEF IInv, SeedingInv, Seeded
<1>b. /\ pending' = left /\ credited' = credited \cup {TaskOf[m]}
      /\ tpc' = [tpc EXCEPT ![m] = IF left = 0 THEN "finalize" ELSE "report"]
      /\ finalized' = [r \in Run |-> IF r = seeder /\ left = 0
                                     THEN finalized[r] + 1 ELSE finalized[r]]
      /\ lost' = lost \cup ({seeder} \ {MsgRun(m), NoRun})
      /\ UNCHANGED <<done, rpc, unsent, seeder>>
  BY DEF CreditDecr
<1> HIDE DEF left
<1>c. left = 0 => pending # NoKey /\ pending = 1 /\ finalized[seeder] = 0
  BY <1>a, <1>s DEF left, IInv, TypeOK, FiringInv
<1>d. ASSUME seeder \notin lost'
      PROVE  /\ seeder = MsgRun(m) /\ seeder \notin lost
             /\ pending = Cardinality(rest(seeder))
             /\ finalized[seeder] = 0
             /\ left = Cardinality(rest(seeder)')
             /\ left = 0 <=> TasksOf(seeder) \subseteq credited'
  <2>1. seeder = MsgRun(m) /\ seeder \notin lost
    BY <1>d, <1>a, <1>s, <1>b
  <2>2. ~(TasksOf(seeder) \subseteq credited)
    BY <2>1, <1>a
  <2>3. pending = Cardinality(rest(seeder)) /\ finalized[seeder] = 0
    BY <2>1, <2>2, <1>s DEF IInv, CountInv
  <2>4. IsFiniteSet(rest(seeder)) /\ Cardinality(rest(seeder)) \in Nat
    BY TasksFinite, <1>s
  <2>5. rest(seeder)' = rest(seeder) \ {TaskOf[m]} /\ TaskOf[m] \in rest(seeder)
    BY <1>a, <1>b, <2>1
  <2>6. /\ Cardinality(rest(seeder) \ {TaskOf[m]}) = Cardinality(rest(seeder)) - 1
        /\ IsFiniteSet(rest(seeder) \ {TaskOf[m]})
    BY <2>4, <2>5, FS_RemoveElement
  <2>7. left = Cardinality(rest(seeder)')
    <3>1. pending # NoKey /\ left = Cardinality(rest(seeder)) - 1
      BY <2>3, <2>4 DEF left
    <3>2. QED
      BY <3>1, <2>5, <2>6
  <2>8. left = 0 <=> rest(seeder)' = {}
    BY <2>5, <2>6, <2>7, FS_EmptySet
  <2>9. rest(seeder)' = {} <=> TasksOf(seeder) \subseteq credited'
    BY <1>b
  <2>10. QED
    BY <2>1, <2>3, <2>7, <2>8, <2>9
<1>1. SeedingInv'
  BY <1>a, <1>s, <1>b DEF IInv, TypeOK, SeedingInv, Seeded
<1>2. CreditInv'
  <2>1. \A u \in Task : Seeded(RunOf[u]) => Seeded(RunOf[u])'
    BY <1>b DEF Seeded
  <2>2. credited' \subseteq done' /\ \A u \in done' : Seeded(RunOf[u])'
    BY <1>a, <1>b, <2>1 DEF IInv, TypeOK, CreditInv
  <2>3. \A n \in Msg : tpc'[n] \in {"test", "decr"} =>
          n # m /\ tpc[n] \in {"test", "decr"}
    BY <1>b DEF IInv, TypeOK
  <2>4. \A n \in Msg : tpc'[n] \in {"test", "decr"} => TaskOf[n] # TaskOf[m]
    BY <1>a, <2>3 DEF IInv, CreditInv
  <2>5. QED
    BY <1>b, <2>2, <2>3, <2>4 DEF IInv, CreditInv
<1>3. CountInv'
  BY <1>a, <1>s, <1>b, <1>d DEF IInv, TypeOK, CountInv
<1>4. FiringInv'
  <2>1. (pending # NoKey /\ pending > 0 => seeder \in Run /\ finalized[seeder] = 0)'
    BY <1>a, <1>s, <1>b, <1>c DEF IInv, TypeOK, FiringInv, left
  <2>2. (\A r \in Run : finalized[r] <= 1)'
    BY <1>a, <1>s, <1>b, <1>c DEF IInv, TypeOK, FiringInv
  <2>3. ASSUME NEW u \in Msg, tpc'[u] \in FinalizerLabel
        PROVE  MsgRun(u) \in lost' \/ TasksOf(MsgRun(u)) \subseteq credited'
    <3>1. CASE u # m
      BY <3>1, <2>3, <1>b DEF IInv, TypeOK, FiringInv
    <3>2. CASE u = m
      <4>1. left = 0
        BY <3>2, <2>3, <1>b DEF FinalizerLabel, IInv, TypeOK
      <4>2. CASE seeder \in lost'
        BY <4>2, <3>2, <1>a, <1>b DEF Seeded
      <4>3. CASE seeder \notin lost'
        BY <4>1, <4>3, <3>2, <1>d
      <4>4. QED
        BY <4>2, <4>3
    <3>3. QED
      BY <3>1, <3>2
  <2>4. QED
    BY <2>1, <2>2, <2>3 DEF FiringInv
<1>5. QED
  BY <1>1, <1>2, <1>3, <1>4 DEF IInv

(* A Redis error in the credit loses the run of the task and the one the   *)
(* counter belongs to, whether or not the command took effect.             *)
LEMMA CreditFailIInv ==
  ASSUME IInv, TypeOK', NEW m \in Msg, CreditFail(m)
  PROVE  IInv'
<1> USE ConstantAssumption DEF IInv, TypeOK
<1>a. /\ tpc[m] \in {"credit", "test", "decr"}
      /\ tpc' = [tpc EXCEPT ![m] = "report"]
      /\ lost' = lost \cup ({MsgRun(m), seeder} \ {NoRun})
      /\ UNCHANGED <<rpc, unsent, seeder, finalized>>
  BY DEF CreditFail
<1>b. MsgRun(m) \in Run /\ Seeded(MsgRun(m))
  BY <1>a DEF SeedingInv
<1>c. seeder \in Run
  BY <1>b DEF SeedingInv, Seeded
<1>d. \/ UNCHANGED <<pending, done, credited>>
      \/ tpc[m] = "credit" /\ done' = done \cup {TaskOf[m]} /\ UNCHANGED <<pending, credited>>
      \/ /\ tpc[m] = "decr" /\ credited' = credited \cup {TaskOf[m]} /\ UNCHANGED done
         /\ pending' = (IF pending = NoKey THEN 0 ELSE pending) - 1
  BY DEF CreditFail
<1>1. SeedingInv'
  BY <1>a, <1>b, <1>c DEF SeedingInv, Seeded
<1>2. CreditInv'
  BY <1>a, <1>b, <1>d DEF CreditInv, Seeded
<1>3. CountInv'
  BY <1>a, <1>c DEF CountInv
<1>4. FiringInv'
  BY <1>a, <1>c, <1>d DEF FiringInv, FinalizerLabel
<1>5. QED
  BY <1>1, <1>2, <1>3, <1>4

(* DEL pending by an abort, or by the finalizers of a run whose tasks are  *)
(* all credited: the seeding run is lost or has nothing left to count.     *)
LEMMA DelPendingIInv ==
  ASSUME IInv, TypeOK', NEW owners,
         DelPending(owners),
         \A r \in owners : r \in lost \/ TasksOf(r) \subseteq credited,
         UNCHANGED <<rpc, unsent>> \/
           (\E r \in Run : /\ rpc[r] = "abort" /\ UNCHANGED unsent
                           /\ rpc' = [rpc EXCEPT ![r] = "mark"]),
         UNCHANGED tpc \/
           (\E m \in Msg, l \in TaskLabel \ {"none", "test", "decr"} :
               /\ l \notin FinalizerLabel /\ tpc[m] # "none"
               /\ tpc' = [tpc EXCEPT ![m] = l])
  PROVE  IInv'
<1> USE ConstantAssumption DEF IInv, TypeOK, DelPending
<1>1. SeedingInv'
  BY DEF SeedingInv, Seeded
<1>2. CreditInv'
  <2>1. \A n \in Msg : tpc'[n] \in {"test", "decr"} => tpc[n] \in {"test", "decr"}
    OBVIOUS
  <2>2. \A u \in Run : Seeded(u) => Seeded(u)'
    BY DEF Seeded
  <2>3. QED
    BY <2>1, <2>2, CreditInvKept
<1>3. CountInv'
  BY DEF CountInv
<1>4. FiringInv'
  BY DEF FiringInv, FinalizerLabel
<1>5. QED
  BY <1>1, <1>2, <1>3, <1>4

(* SET pending n: the run has no credits yet, and the run it overwrites is *)
(* lost.                                                                   *)
LEMMA SeedSetIInv ==
  ASSUME IInv, TypeOK', NEW r \in Run, QueueSeedSet(r)
  PROVE  IInv'
<1> USE ConstantAssumption DEF QueueSeedSet, SeedSet
<1>a. /\ rpc[r] = "set" /\ ~Seeded(r) /\ TasksOf(r) # {} /\ finalized[r] = 0
      /\ finalized[r] \in Nat
  BY DEF IInv, TypeOK, SeedingInv
<1>b. TasksOf(r) \cap credited = {}
  BY <1>a DEF IInv, TypeOK, SeedingInv, CreditInv
<1>c. TasksOf(r) \ credited' = TasksOf(r) /\ ~(TasksOf(r) \subseteq credited')
  BY <1>a, <1>b
<1>1. SeedingInv'
  BY <1>a DEF IInv, TypeOK, SeedingInv, Seeded
<1>2. CreditInv'
  <2>1. \A u \in Run : Seeded(u) => Seeded(u)'
    BY DEF IInv, TypeOK, Seeded
  <2>2. QED
    BY <2>1, CreditInvKept DEF IInv
<1>3. CountInv'
  BY <1>a, <1>c DEF CountInv
<1>4. FiringInv'
  BY <1>a DEF IInv, TypeOK, FiringInv
<1>5. QED
  BY <1>1, <1>2, <1>3, <1>4 DEF IInv
(* A crash loses the run when it falls between SET NX and DECRBY.          *)
LEMMA CrashIInv ==
  ASSUME IInv, TypeOK', NEW m \in Msg, Crash(m)
  PROVE  IInv'
<1> USE ConstantAssumption DEF IInv, TypeOK, Crash
<1>a. MsgRun(m) \in Run /\ Seeded(MsgRun(m)) /\ tpc[m] # "none"
  <2>1. tpc[m] # "none"
    BY DEF RunningLabel
  <2>2. Seeded(MsgRun(m))
    BY <2>1 DEF SeedingInv
  <2>3. QED
    BY <2>1, <2>2
<1>1. SeedingInv'
  BY <1>a DEF SeedingInv, Seeded
<1>2. CreditInv'
  <2>1. \A n \in Msg : tpc'[n] \in {"test", "decr"} => tpc[n] \in {"test", "decr"}
    BY DEF TaskLabel, RunningLabel
  <2>2. \A u \in Run : Seeded(u) => Seeded(u)'
    BY DEF Seeded
  <2>3. QED
    BY <2>1, <2>2, CreditInvKept
<1>3. CountInv'
  BY <1>a DEF CountInv
<1>4. FiringInv'
  BY <1>a DEF FiringInv, FinalizerLabel
<1>5. QED
  BY <1>1, <1>2, <1>3, <1>4

(* The steps of a parse request that touch no key the invariant is about.  *)
LEMMA RequestMoveIInv ==
  ASSUME IInv, TypeOK', NEW r \in Run, NEW l \in RequestLabel,
         rpc' = [rpc EXCEPT ![r] = l],
         l \in {"idle", "insert", "seed", "set"} => rpc[r] \in {"idle", "insert", "seed"},
         l = "set" => TasksOf(r) # {},
         UNCHANGED <<pending, done, unsent, tpc, seeder, credited, finalized, lost>>
  PROVE  IInv'
<1> USE DEF IInv, TypeOK
<1>1. SeedingInv'
  BY DEF SeedingInv, Seeded
<1>2. CreditInv'
  BY CreditInvKept DEF Seeded
<1>3. CountInv' /\ FiringInv'
  BY DEF CountInv, FiringInv, FinalizerLabel
<1>4. QED
  BY <1>1, <1>2, <1>3

(* Enqueueing a task of a seeded run.                                      *)
LEMMA QueueProductIInv ==
  ASSUME IInv, TypeOK', NEW r \in Run, NEW m \in Msg,
         QueueProduct(r, m) \/ QueueProductRetry(r, m)
  PROVE  IInv'
<1> USE ConstantAssumption DEF IInv, TypeOK, QueueProduct, QueueProductRetry
<1>1. SeedingInv'
  BY DEF SeedingInv, Seeded
<1>2. CreditInv'
  <2>1. \A n \in Msg : tpc'[n] \in {"test", "decr"} => tpc[n] \in {"test", "decr"}
    OBVIOUS
  <2>2. \A u \in Run : Seeded(u) => Seeded(u)'
    BY DEF Seeded
  <2>3. QED
    BY <2>1, <2>2, CreditInvKept
<1>3. CountInv'
  BY DEF CountInv
<1>4. FiringInv'
  BY DEF FiringInv, FinalizerLabel
<1>5. QED
  BY <1>1, <1>2, <1>3, <1>4

(* Every step of an execution keeps the inductive invariant.               *)
LEMMA TaskStepIInv ==
  ASSUME IInv, NEW m \in Msg, TaskStep(m) \/ Crash(m)
  PROVE  IInv'
<1>a. TypeOK' /\ TypeOK
  BY TaskStepTypeOK DEF IInv
<1>b. MsgRun(m) \in Run
  BY ConstantAssumption
<1> USE ConstantAssumption, <1>a DEF TaskLabel, RunningLabel, FinalizerLabel
<1>1. CASE Collect(m)
  BY <1>1, QuietStepIInv DEF Collect
<1>2. CASE Chunking(m)
  BY <1>2, QuietStepIInv DEF Chunking
<1>3. CASE Gate(m)
  BY <1>3, QuietStepIInv DEF Gate
<1>4. CASE CreditDone(m)
  BY <1>4, CreditDoneIInv
<1>5. CASE CreditTest(m)
  BY <1>5, QuietStepIInv DEF CreditTest
<1>6. CASE CreditDecr(m)
  BY <1>6, CreditDecrIInv
<1>7. CASE Finalize(m)
  BY <1>7, QuietStepIInv DEF Finalize
<1>8. CASE Clear(m)
  <2>1. MsgRun(m) \in lost \/ TasksOf(MsgRun(m)) \subseteq credited
    BY <1>8 DEF Clear, IInv, FiringInv
  <2>2. QED
    BY <1>8, <2>1, DelPendingIInv DEF Clear
<1>9. CASE Report(m)
  BY <1>9, QuietStepIInv DEF Report
<1>10. CASE Finally(m)
  BY <1>10, QuietStepIInv DEF Finally
<1>11. CASE AbortDel(m)
  BY <1>11, DelPendingIInv DEF AbortDel
<1>12. CASE AbortMark(m)
  BY <1>12, QuietStepIInv DEF AbortMark, SetAborted
<1>13. CASE Crash(m)
  BY <1>13, CrashIInv
<1>14. CASE CreditFail(m)
  BY <1>14, CreditFailIInv
<1>15. CASE Accept(m)
  BY <1>15, QuietStepIInv DEF Accept
<1>16. CASE Check(m)
  BY <1>16, QuietStepIInv DEF Check
<1>17. QED
  BY <1>1, <1>2, <1>3, <1>4, <1>5, <1>6, <1>7, <1>8, <1>9, <1>10, <1>11,
     <1>12, <1>13, <1>14, <1>15, <1>16 DEF TaskStep

(* Every step of a parse request keeps the inductive invariant.            *)
LEMMA RequestStepIInv ==
  ASSUME IInv, NEW r \in Run, RequestStep(r) \/ RequestCrash(r)
  PROVE  IInv'
<1>a. TypeOK' /\ TypeOK
  BY RequestStepTypeOK DEF IInv
<1> USE ConstantAssumption, <1>a
<1>1. CASE QueueDelete(r)
  BY <1>1, RequestMoveIInv DEF QueueDelete, RequestLabel
<1>2. CASE QueueInsert(r)
  BY <1>2, RequestMoveIInv DEF QueueInsert, RequestLabel
<1>3. CASE QueueSeed(r)
  BY <1>3, RequestMoveIInv DEF QueueSeed, SeedClearMarker, RequestLabel
<1>4. CASE QueueSeedSet(r)
  BY <1>4, SeedSetIInv
<1>5. ASSUME NEW m \in Msg, QueueProduct(r, m) \/ QueueProductRetry(r, m)
      PROVE  IInv'
  BY <1>5, QueueProductIInv
<1>6. CASE QueueProductFail(r)
  BY <1>6, RequestMoveIInv DEF QueueProductFail, RequestLabel
<1>7. CASE QueueAbort(r)
  BY <1>7, DelPendingIInv DEF QueueAbort
<1>8. CASE QueueAbortMark(r)
  BY <1>8, RequestMoveIInv DEF QueueAbortMark, SetAborted, RequestLabel
<1>9. CASE RequestCrash(r)
  BY <1>9, RequestMoveIInv DEF RequestCrash, RequestLabel
<1>10. QED
  BY <1>1, <1>2, <1>3, <1>4, <1>5, <1>6, <1>7, <1>8, <1>9 DEF RequestStep

(* A stop request deletes the counter and touches no credit, as does a     *)
(* cancel key that expires.                                                *)
LEMMA StopStepIInv ==
  ASSUME IInv, StopStep \/ \E t \in Task : Expire(t)
  PROVE  IInv'
<1>a. TypeOK' /\ TypeOK
  BY RequestStepTypeOK DEF IInv
<1>1. CASE StopAbort
  BY <1>1, <1>a, DelPendingIInv DEF StopAbort
<1>2. CASE StopMark \/ StopFlag \/ \E t \in Task : Expire(t)
  <2>1. UNCHANGED <<pending, done, rpc, unsent, tpc, seeder, credited, finalized, lost>>
    BY <1>2 DEF StopMark, StopFlag, SetAborted, Expire
  <2>2. SeedingInv' /\ CreditInv' /\ CountInv' /\ FiringInv'
    BY <2>1 DEF IInv, SeedingInv, CreditInv, CountInv, FiringInv, Seeded
  <2>3. QED
    BY <1>a, <2>2 DEF IInv
<1>3. QED
  BY <1>1, <1>2 DEF StopStep

(* The invariant that ties the counter's value to the credits is inductive.*)
THEOREM CounterInvariant == Spec => []IInv
<1>1. IInv /\ [Next]_vars => IInv'
  <2>1. CASE UNCHANGED vars
    BY <2>1 DEF IInv, TypeOK, SeedingInv, CreditInv, CountInv, FiringInv, Seeded, vars
  <2>2. QED
    BY <2>1, TaskStepIInv, RequestStepIInv, StopStepIInv DEF Next
<1>2. QED
  BY <1>1, InitIInv, PTL DEF Spec

(* One seeding starts the document finalizers at most once, whatever       *)
(* crashes, cancels, overlapping requests and stale tasks do.              *)
THEOREM FinalizersStartOnce == Spec => []FinalizedAtMostOnce
<1>1. IInv => FinalizedAtMostOnce
  BY DEF IInv, FiringInv, FinalizedAtMostOnce
<1>2. QED
  BY <1>1, CounterInvariant, PTL

(* The finalizers of an undisturbed run have started exactly when all its  *)
(* tasks were credited.                                                    *)
THEOREM FinalizersStartWhenAllCredited == Spec => []GateIsExact
<1>1. IInv => GateIsExact
  BY DEF IInv, CountInv, GateIsExact
<1>2. QED
  BY <1>1, CounterInvariant, PTL
=============================================================================
