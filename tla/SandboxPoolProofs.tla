------------------------- MODULE SandboxPoolProofs --------------------------
(* Proofs about SandboxPool, for any number of containers and requests.    *)
EXTENDS SandboxPool, FiniteSetTheorems, TLAPS

(* Every step keeps the types.                                             *)
LEMMA TypeStep == TypeOK /\ HolderInv /\ [Next]_vars => TypeOK'
<1> SUFFICES ASSUME TypeOK, HolderInv, [Next]_vars PROVE TypeOK'
  OBVIOUS
<1> USE PoolAssumption DEF TypeOK, Admitted, Allocating, Releasing
<1>1. ASSUME NEW r \in Request, Enter(r) \/ FindEmpty(r) \/ Wake(r) \/ TimeOut(r) \/ Leave(r)
      PROVE TypeOK'
  BY <1>1 DEF Enter, FindEmpty, Wake, TimeOut, Leave, Go
<1>2. ASSUME NEW r \in Request, Get(r) \/ Lock(r) \/ Inspect(r) \/ Execute(r) \/ Upload(r) \/ FoundDead(r)
      PROVE TypeOK'
  BY <1>2 DEF Get, Lock, Inspect, Execute, Upload, FoundDead, Go, Holds
<1>3. ASSUME NEW r \in Request, Recreate(r)
      PROVE TypeOK'
  <2>1. name[r] \in Container
    BY <1>3 DEF Recreate, Go, HolderInv
  <2> QED
    BY <1>3, <2>1 DEF Recreate, Go, Holds
<1>4. ASSUME NEW r \in Request, NoWorkdir(r) \/ GiveBack(r) \/ RecreateFails(r)
      PROVE TypeOK'
  <2>1. name[r] \in Container
    BY <1>4 DEF NoWorkdir, GiveBack, RecreateFails, Go, HolderInv
  <2> QED
    BY <1>4, <2>1 DEF NoWorkdir, GiveBack, RecreateFails, Go, Holds
<1>5. ASSUME NEW c \in Container, Die(c)
      PROVE TypeOK'
  BY <1>5 DEF Die
<1>6. CASE UNCHANGED vars
  BY <1>6 DEF vars
<1> QED
  BY <1>1, <1>2, <1>3, <1>4, <1>5, <1>6 DEF Next, Step, Prompt

(* Every step keeps the labels in agreement with the containers and the    *)
(* lock.                                                                   *)
LEMMA HolderStep == TypeOK /\ HolderInv /\ [Next]_vars => HolderInv'
<1> SUFFICES ASSUME TypeOK, HolderInv, [Next]_vars PROVE HolderInv'
  OBVIOUS
<1> USE PoolAssumption DEF TypeOK, HolderInv, Admitted, Allocating, Releasing
<1>1. ASSUME NEW r \in Request, Enter(r) \/ FindEmpty(r) \/ Wake(r) \/ TimeOut(r) \/ Leave(r)
      PROVE HolderInv'
  BY <1>1 DEF Enter, FindEmpty, Wake, TimeOut, Leave, Go
<1>2. ASSUME NEW r \in Request, Get(r) \/ Lock(r)
      PROVE HolderInv'
  BY <1>2 DEF Get, Lock, Go, Holds
<1>3. ASSUME NEW r \in Request, Inspect(r) \/ Execute(r) \/ Upload(r) \/ FoundDead(r)
      PROVE HolderInv'
  BY <1>3 DEF Inspect, Execute, Upload, FoundDead, Go
<1>4. ASSUME NEW r \in Request, Recreate(r)
      PROVE HolderInv'
  BY <1>4 DEF Recreate, Go, Holds
<1>5. ASSUME NEW r \in Request, NoWorkdir(r) \/ GiveBack(r) \/ RecreateFails(r)
      PROVE HolderInv'
  BY <1>5 DEF NoWorkdir, GiveBack, RecreateFails, Go, Holds
<1>6. ASSUME NEW c \in Container, Die(c)
      PROVE HolderInv'
  BY <1>6 DEF Die
<1>7. CASE UNCHANGED vars
  BY <1>7 DEF vars
<1> QED
  BY <1>1, <1>2, <1>3, <1>4, <1>5, <1>6, <1>7 DEF Next, Step, Prompt

(* A step adds a request to those past the semaphore only if there is room *)
(* for it.                                                                 *)
LEMMA SemaphoreStep == TypeOK /\ SemaphoreInv /\ [Next]_vars => SemaphoreInv'
<1> SUFFICES ASSUME TypeOK, SemaphoreInv, [Next]_vars PROVE SemaphoreInv'
  OBVIOUS
<1> USE DEF TypeOK, SemaphoreInv
<1>0. Cardinality(Container) \in Nat /\ Cardinality(Active) \in Nat
  BY PoolAssumption, FS_CardinalityType
<1>1. ASSUME NEW r \in Request, Enter(r)
      PROVE SemaphoreInv'
  <2>1. Active' = Active \cup {r}
    BY <1>1 DEF Enter, Go, Active, Admitted, Allocating, Releasing
  <2>2. IsFiniteSet(Active') /\ Cardinality(Active') <= Cardinality(Active) + 1
    BY <1>0, <2>1, FS_AddElement
  <2>3. IsFiniteSet(Active') /\ Cardinality(Active') \in Nat
    BY <2>2, FS_CardinalityType
  <2> QED
    BY <1>0, <1>1, <2>2, <2>3 DEF Enter
<1>2. ASSUME NEW r \in Request, Step(r)
      PROVE Active' \subseteq Active
  <2>1. CASE Get(r) \/ FindEmpty(r) \/ Wake(r) \/ TimeOut(r) \/ Lock(r) \/ Inspect(r)
    BY <2>1 DEF Get, FindEmpty, Wake, TimeOut, Lock, Inspect, Go,
                Active, Admitted, Allocating, Releasing
  <2>2. CASE Recreate(r) \/ Execute(r) \/ Upload(r) \/ NoWorkdir(r) \/ GiveBack(r) \/ FoundDead(r)
    BY <2>2 DEF Recreate, Execute, Upload, NoWorkdir, GiveBack, FoundDead, Go,
                Active, Admitted, Allocating, Releasing
  <2>3. CASE RecreateFails(r) \/ Leave(r)
    BY <2>3 DEF RecreateFails, Leave, Go, Active, Admitted, Allocating, Releasing
  <2> QED
    BY <1>2, <2>1, <2>2, <2>3 DEF Step, Prompt
<1>3. ASSUME (\E c \in Container : Die(c)) \/ UNCHANGED vars
      PROVE Active' \subseteq Active
  BY <1>3 DEF Die, vars, Active
<1>4. ASSUME Active' \subseteq Active PROVE SemaphoreInv'
  <2>1. IsFiniteSet(Active') /\ Cardinality(Active') <= Cardinality(Active)
    BY <1>4, FS_Subset
  <2>2. Cardinality(Active') \in Nat
    BY <2>1, FS_CardinalityType
  <2> QED
    BY <1>0, <2>1, <2>2 DEF vars, Die
<1> QED
  BY <1>1, <1>2, <1>3, <1>4 DEF Next

(* A request past the semaphore that has no container finds one in the     *)
(* pool, unless one is lost: otherwise every container would be held by a  *)
(* different one of the other requests past the semaphore.                 *)
LEMMA EmptyMeansLoss ==
  ASSUME TypeOK, HolderInv, SemaphoreInv, OneUserPerContainer, NoContainerForgotten,
         NEW r \in Request, r \in Active, name[r] = None, pool = {}
  PROVE  lost # {}
<1> SUFFICES ASSUME lost = {} PROVE FALSE
  OBVIOUS
<1> DEFINE H == {q \in Active : name[q] \in Container}
           f == [q \in H |-> name[q]]
<1>1. H \in SUBSET (Active \ {r})
  BY PoolAssumption
<1>2. IsFiniteSet(Active \ {r}) /\ Cardinality(Active \ {r}) = Cardinality(Active) - 1
  BY FS_RemoveElement DEF SemaphoreInv
<1>3. IsFiniteSet(H) /\ Cardinality(H) <= Cardinality(Active \ {r})
  BY <1>1, <1>2, FS_Subset
<1>4. \A c \in Container : \E q \in H : f[q] = c
  BY PoolAssumption DEF NoContainerForgotten, HolderInv, TypeOK, Active, Admitted, Allocating
<1>5. f \in Surjection(H, Container)
  BY <1>4 DEF Surjection
<1>6. Cardinality(Container) <= Cardinality(H)
  BY <1>3, <1>5, FS_Surjection
<1>7. /\ Cardinality(Container) \in Nat /\ Cardinality(H) \in Nat
      /\ Cardinality(Active) \in Nat /\ Cardinality(Active \ {r}) \in Nat
  BY <1>2, <1>3, PoolAssumption, FS_CardinalityType DEF SemaphoreInv
<1> QED
  BY <1>2, <1>3, <1>6, <1>7 DEF SemaphoreInv

(* Every step keeps EmptyInv: what was lost stays lost.                    *)
LEMMA EmptyStep == IInv /\ [Next]_vars => EmptyInv'
<1> SUFFICES ASSUME IInv, [Next]_vars, NEW q \in Request, pc'[q] \in {"sleep", "busy"}
             PROVE lost' # {}
  BY DEF EmptyInv
<1> USE DEF IInv, TypeOK, EmptyInv
<1>1. ASSUME NEW r \in Request, FindEmpty(r)
      PROVE lost' # {}
  <2>1. r \in Active /\ name[r] = None /\ pool = {} /\ lost' = lost
    BY <1>1 DEF FindEmpty, Go, HolderInv, Active, Admitted, Allocating, Releasing
  <2> QED
    BY <2>1, EmptyMeansLoss
<1>2. ASSUME NEW r \in Request,
             Enter(r) \/ Get(r) \/ Wake(r) \/ TimeOut(r) \/ Lock(r) \/ Inspect(r) \/ Execute(r) \/ Upload(r)
      PROVE lost' # {}
  BY <1>2 DEF Enter, Get, Wake, TimeOut, Lock, Inspect, Execute, Upload, Go
<1>3. ASSUME NEW r \in Request, Recreate(r) \/ NoWorkdir(r) \/ RecreateFails(r)
      PROVE lost' # {}
  BY <1>3 DEF Recreate, NoWorkdir, RecreateFails, Go
<1>4. ASSUME NEW r \in Request, GiveBack(r) \/ FoundDead(r) \/ Leave(r)
      PROVE lost' # {}
  BY <1>4 DEF GiveBack, FoundDead, Leave, Go
<1>5. CASE (\E c \in Container : Die(c)) \/ UNCHANGED vars
  BY <1>5 DEF Die, vars
<1> QED
  BY <1>1, <1>2, <1>3, <1>4, <1>5 DEF Next, Step, Prompt

(* Every step keeps OneUserPerContainer: a container is held by one        *)
(* request or is in the pool.                                              *)
LEMMA UserStep == TypeOK /\ HolderInv /\ OneUserPerContainer /\ [Next]_vars => OneUserPerContainer'
<1> SUFFICES ASSUME TypeOK, HolderInv, OneUserPerContainer, [Next]_vars
             PROVE OneUserPerContainer'
  OBVIOUS
<1> USE PoolAssumption DEF TypeOK, OneUserPerContainer
<1>1. CASE UNCHANGED <<pool, name>>
  BY <1>1
<1>2. ASSUME NEW r \in Request, Get(r)
      PROVE OneUserPerContainer'
  BY <1>2 DEF Get, Holds
<1>3. ASSUME NEW r \in Request, pool' = pool, Holds(r, None)
      PROVE OneUserPerContainer'
  BY <1>3 DEF Holds
<1>4. ASSUME NEW r \in Request, GiveBack(r)
      PROVE OneUserPerContainer'
  <2>1. name[r] # None
    BY <1>4 DEF GiveBack, Go, HolderInv, Releasing
  <2> QED
    BY <1>4, <2>1 DEF GiveBack, Holds
<1>5. ASSUME NEW r \in Request, Recreate(r) \/ NoWorkdir(r) \/ RecreateFails(r)
      PROVE UNCHANGED <<pool, name>> \/ (pool' = pool /\ Holds(r, None))
  BY <1>5 DEF Recreate, NoWorkdir, RecreateFails
<1>6. ASSUME NEW r \in Request,
             \/ Enter(r) \/ FindEmpty(r) \/ Wake(r) \/ TimeOut(r) \/ Lock(r) \/ Inspect(r)
             \/ Execute(r) \/ Upload(r) \/ FoundDead(r) \/ Leave(r)
      PROVE UNCHANGED <<pool, name>>
  BY <1>6 DEF Enter, FindEmpty, Wake, TimeOut, Lock, Inspect, Execute, Upload, FoundDead, Leave
<1>7. ASSUME (\E c \in Container : Die(c)) \/ UNCHANGED vars
      PROVE UNCHANGED <<pool, name>>
  BY <1>7 DEF Die, vars
<1> QED
  BY <1>1, <1>2, <1>3, <1>4, <1>5, <1>6, <1>7 DEF Next, Step, Prompt

(* Every step keeps NoContainerForgotten: a request that lets go of its    *)
(* container puts it back or loses it.                                     *)
LEMMA ForgottenStep ==
  TypeOK /\ HolderInv /\ NoContainerForgotten /\ [Next]_vars => NoContainerForgotten'
<1> SUFFICES ASSUME TypeOK, HolderInv, NoContainerForgotten, [Next]_vars,
                    NEW c \in Container
             PROVE (c \in pool \/ c \in lost \/ \E r \in Request : name[r] = c)'
  BY DEF NoContainerForgotten
<1> USE PoolAssumption DEF TypeOK
<1>0. c \in pool \/ c \in lost \/ \E r \in Request : name[r] = c
  BY DEF NoContainerForgotten
<1>1. ASSUME UNCHANGED <<pool, name, lost>>
      PROVE (c \in pool \/ c \in lost \/ \E r \in Request : name[r] = c)'
  BY <1>0, <1>1
<1>2. ASSUME NEW r \in Request, Get(r)
      PROVE (c \in pool \/ c \in lost \/ \E q \in Request : name[q] = c)'
  <2>1. name[r] = None /\ lost' = lost
    BY <1>2 DEF Get, Go, HolderInv, Releasing
  <2>2. PICK e \in pool : name' = [name EXCEPT ![r] = e] /\ pool' = pool \ {e}
    BY <1>2 DEF Get, Holds
  <2> QED
    BY <1>0, <2>1, <2>2
<1>3. ASSUME NEW r \in Request, Holds(r, None),
             pool \subseteq pool', lost \subseteq lost', name[r] \in pool' \cup lost'
      PROVE (c \in pool \/ c \in lost \/ \E q \in Request : name[q] = c)'
  BY <1>0, <1>3 DEF Holds
<1>4. ASSUME NEW r \in Request,
             Recreate(r) \/ NoWorkdir(r) \/ RecreateFails(r) \/ GiveBack(r)
      PROVE \/ UNCHANGED <<pool, name, lost>>
            \/ /\ Holds(r, None) /\ pool \subseteq pool' /\ lost \subseteq lost'
               /\ name[r] \in pool' \cup lost'
  BY <1>4 DEF Recreate, NoWorkdir, RecreateFails, GiveBack
<1>5. ASSUME NEW r \in Request,
             \/ Enter(r) \/ FindEmpty(r) \/ Wake(r) \/ TimeOut(r) \/ Lock(r) \/ Inspect(r)
             \/ Execute(r) \/ Upload(r) \/ FoundDead(r) \/ Leave(r)
      PROVE UNCHANGED <<pool, name, lost>>
  BY <1>5 DEF Enter, FindEmpty, Wake, TimeOut, Lock, Inspect, Execute, Upload, FoundDead, Leave
<1>6. ASSUME (\E d \in Container : Die(d)) \/ UNCHANGED vars
      PROVE UNCHANGED <<pool, name, lost>>
  BY <1>6 DEF Die, vars
<1> QED
  BY <1>1, <1>2, <1>3, <1>4, <1>5, <1>6 DEF Next, Step, Prompt

(* The invariant holds in every reachable state.                           *)
THEOREM PoolInvariant == Spec => []IInv
<1>1. Init => IInv
  <2> SUFFICES ASSUME Init PROVE IInv
    OBVIOUS
  <2>1. Active = {} /\ SemaphoreInv
    <3>1. Active = {}
      BY DEF Init, Active, Admitted, Allocating, Releasing
    <3> QED
      BY <3>1, FS_EmptySet, PoolAssumption, FS_CardinalityType DEF SemaphoreInv
  <2> QED
    BY <2>1, PoolAssumption
       DEF Init, IInv, TypeOK, HolderInv, EmptyInv, OneUserPerContainer, NoContainerForgotten,
           Admitted, Allocating, Releasing
<1>2. IInv /\ [Next]_vars => IInv'
  BY TypeStep, HolderStep, SemaphoreStep, EmptyStep, UserStep, ForgottenStep DEF IInv
<1> QED
  BY <1>1, <1>2, PTL DEF Spec

(* No two requests ever run code in one container.                         *)
THEOREM OneUserAtATime == Spec => []OneUserPerContainer
<1>1. IInv => OneUserPerContainer
  BY DEF IInv
<1> QED
  BY <1>1, PoolInvariant, PTL

(* The pool shrinks only where the code drops a container.                 *)
THEOREM NoneForgotten == Spec => []NoContainerForgotten
<1>1. IInv => NoContainerForgotten
  BY DEF IInv
<1> QED
  BY <1>1, PoolInvariant, PTL

(* No request is told that the pool is busy before a container is lost.    *)
THEOREM BusyAfterLoss == Spec => []BusyOnlyAfterLoss
<1>1. IInv => BusyOnlyAfterLoss
  BY DEF IInv, EmptyInv, BusyOnlyAfterLoss
<1> QED
  BY <1>1, PoolInvariant, PTL
=============================================================================
