---------------------------- MODULE RedisProofs -----------------------------
(***************************************************************************)
(* Proofs about the two protocols that rag/utils/redis_conn.py builds from *)
(* single commands: RedisLock, for any number of owners and crashes, and   *)
(* IdGenerator, for any number of calls and servers and any increment.     *)
(***************************************************************************)
EXTENDS RedisLock, IdGenerator, TLAPS

-----------------------------------------------------------------------------
(* The lock.                                                               *)

(* The script deletes the key of its own owner only.                       *)
LEMMA DeletesOwn ==
  ASSUME NEW o \in Owner, NEW p \in Owner, o # p, DeleteIfEqual(o), lock = TokenOf[p]
  PROVE  lock' = TokenOf[p]
  BY LockAssumption DEF DeleteIfEqual

(* Every step keeps the types.                                             *)
LEMMA TypeStep == TypeOK /\ [Next]_vars => TypeOK'
<1> SUFFICES ASSUME TypeOK, [Next]_vars PROVE TypeOK'
  OBVIOUS
<1> USE LockAssumption DEF TypeOK, Label
<1>1. CASE Expire
  BY <1>1 DEF Expire
<1>2. ASSUME NEW o \in Owner, Start(o) \/ Clear(o) \/ Take(o) \/ GiveUp(o)
      PROVE TypeOK'
  BY <1>2 DEF Start, Clear, Take, GiveUp, Go, DeleteIfEqual
<1>3. ASSUME NEW o \in Owner, Release(o) \/ ReleaseAgain(o) \/ Crash(o)
      PROVE TypeOK'
  BY <1>3 DEF Release, ReleaseAgain, Crash, Go, DeleteIfEqual
<1>4. CASE UNCHANGED vars
  BY <1>4 DEF vars
<1> QED
  BY <1>1, <1>2, <1>3, <1>4 DEF Next, Step

(* Every step keeps the lock of an owner in its critical section, unless   *)
(* the key expires.                                                        *)
LEMMA OwnerStep == TypeOK /\ OwnerInv /\ [Next]_vars => OwnerInv'
<1> SUFFICES ASSUME TypeOK, OwnerInv, [Next]_vars,
                    NEW p \in Owner, pc'[p] = "in"
             PROVE (lock = TokenOf[p] \/ p \in overran)'
  BY DEF OwnerInv
<1> USE LockAssumption DEF TypeOK
<1>1. CASE Expire
  <2>1. pc[p] = "in"
    BY <1>1 DEF Expire
  <2>2. lock = TokenOf[p] \/ p \in overran
    BY <2>1 DEF OwnerInv
  <2> QED
    BY <1>1, <2>1, <2>2 DEF Expire
<1>2. ASSUME NEW o \in Owner, Start(o) \/ Clear(o) \/ GiveUp(o) \/ ReleaseAgain(o)
      PROVE (lock = TokenOf[p] \/ p \in overran)'
  <2>1. o # p /\ pc[p] = "in"
    BY <1>2 DEF Start, Clear, GiveUp, ReleaseAgain, Go
  <2>2. overran' = overran /\ (DeleteIfEqual(o) \/ lock' = lock)
    BY <1>2 DEF Start, Clear, GiveUp, ReleaseAgain
  <2> QED
    BY <2>1, <2>2, DeletesOwn DEF OwnerInv
<1>3. ASSUME NEW o \in Owner, Take(o)
      PROVE (lock = TokenOf[p] \/ p \in overran)'
  <2>1. CASE o = p
    BY <1>3, <2>1 DEF Take
  <2>2. CASE o # p
    BY <1>3, <2>2 DEF Take, Go, OwnerInv
  <2> QED
    BY <2>1, <2>2
<1>4. ASSUME NEW o \in Owner, Release(o)
      PROVE (lock = TokenOf[p] \/ p \in overran)'
  <2>1. o # p /\ pc[p] = "in"
    BY <1>4 DEF Release, Go
  <2>2. overran' = overran \ {o} /\ DeleteIfEqual(o)
    BY <1>4 DEF Release
  <2> QED
    BY <2>1, <2>2, DeletesOwn DEF OwnerInv
<1>5. ASSUME NEW o \in Owner, Crash(o)
      PROVE (lock = TokenOf[p] \/ p \in overran)'
  BY <1>5 DEF Crash, OwnerInv
<1>6. CASE UNCHANGED vars
  BY <1>6 DEF vars, OwnerInv
<1> QED
  BY <1>1, <1>2, <1>3, <1>4, <1>5, <1>6 DEF Next, Step

(* The invariant holds in every reachable state.                           *)
THEOREM LockInvariant == Spec => []IInv
<1>1. Init => IInv
  BY LockAssumption DEF Init, IInv, TypeOK, OwnerInv, Label
<1>2. IInv /\ [Next]_vars => IInv'
  BY TypeStep, OwnerStep DEF IInv
<1> QED
  BY <1>1, <1>2, PTL DEF Spec

(* RedisDistributedLock excludes: two owners are inside only after the key *)
(* of one of them has expired.                                             *)
THEOREM LockExcludes == Spec => []ExclusiveUntilExpiry
<1>1. IInv => ExclusiveUntilExpiry
  BY LockAssumption DEF IInv, TypeOK, OwnerInv, ExclusiveUntilExpiry
<1> QED
  BY <1>1, LockInvariant, PTL

-----------------------------------------------------------------------------
(* The id generator.                                                       *)

(* Every step keeps the types.                                             *)
LEMMA IdTypeStep == IdTypeOK /\ SettledInv /\ [IdNext]_idVars => IdTypeOK'
<1> SUFFICES ASSUME IdTypeOK, SettledInv, [IdNext]_idVars PROVE IdTypeOK'
  OBVIOUS
<1> USE IdAssumption DEF IdTypeOK, CallGo, SeedGo, Return, NoId, Hour, IdFault
<1>1. ASSUME NEW c \in Call, Begin(c) PROVE IdTypeOK'
  BY <1>1 DEF Begin
<1>2. ASSUME NEW c \in Call, Incr(c) PROVE IdTypeOK'
  BY <1>2 DEF Incr, IncrBy
<1>3. ASSUME NEW c \in Call, Reset(c) PROVE IdTypeOK'
  BY <1>3 DEF Reset
<1>4. ASSUME NEW c \in Call, Fail(c) PROVE IdTypeOK'
  BY <1>4 DEF Fail, IncrBy
<1>5. ASSUME NEW c \in Call, Save(c) \/ Delete(c) PROVE IdTypeOK'
  BY <1>5 DEF Save, Delete
<1>6. ASSUME NEW s \in Starter, SeedCheck(s) \/ SeedFails(s) PROVE IdTypeOK'
  BY <1>6 DEF SeedCheck, SeedFails
<1>7. ASSUME NEW s \in Starter, SeedRead(s) PROVE IdTypeOK'
  <2>1. PICK n \in Highest : Found(s, n)
    BY <1>7 DEF SeedRead
  <2>2. n \in Nat \ {0}
    BY <2>1 DEF SettledInv, Highest
  <2> QED
    BY <1>7, <2>1, <2>2 DEF SeedRead, Found
<1>8. ASSUME NEW s \in Starter, SeedSet(s) PROVE IdTypeOK'
  BY <1>8 DEF SeedSet
<1>9. CASE KeyExpires
  BY <1>9 DEF KeyExpires
<1>10. CASE UNCHANGED idVars
  BY <1>10 DEF idVars
<1> QED
  BY <1>1, <1>2, <1>3, <1>4, <1>5, <1>6, <1>7, <1>8, <1>9, <1>10 DEF IdNext

(* INCRBY returns a number above every settled id.                         *)
LEMMA IncrementIsNew ==
  ASSUME IdTypeOK, SettledInv, IncrBy
  PROVE  /\ counter' \in Nat \ {0} /\ settled' \subseteq settled
         /\ counter' = Increment => settled' = {}
         /\ \A c \in settled' : id[c] < counter'
  BY IdAssumption DEF IdTypeOK, SettledInv, IncrBy, NoId

(* Every step keeps the ids of settled calls apart.                        *)
LEMMA SettledStep ==
  IdTypeOK /\ SettledInv /\ UniqueOnceSettled /\ [IdNext]_idVars => SettledInv' /\ UniqueOnceSettled'
<1> SUFFICES ASSUME IdTypeOK, SettledInv, UniqueOnceSettled, [IdNext]_idVars
             PROVE SettledInv' /\ UniqueOnceSettled'
  OBVIOUS
<1> USE IdAssumption DEF IdTypeOK, UniqueOnceSettled, Distinct, CallGo, SeedGo, Return, NoId, Hour, IdFault
<1>1. ASSUME NEW c \in Call, Begin(c) PROVE SettledInv' /\ UniqueOnceSettled'
  <2>1. id[c] = NoId
    BY <1>1 DEF Begin, SettledInv
  <2>2. CASE Quiet
    BY <1>1, <2>1, <2>2 DEF Begin, SettledInv, Quiet
  <2>3. CASE ~Quiet
    BY <1>1, <2>3 DEF Begin, SettledInv
  <2> QED
    BY <2>2, <2>3
<1>2. ASSUME NEW c \in Call, Incr(c) PROVE SettledInv' /\ UniqueOnceSettled'
  <2>1. /\ counter' \in Nat \ {0} /\ settled' \subseteq settled
        /\ counter' = Increment => settled' = {}
        /\ \A d \in settled' : id[d] < counter'
    BY <1>2, IncrementIsNew DEF Incr
  <2>2. CASE counter' = Increment
    BY <1>2, <2>1, <2>2 DEF Incr, SettledInv
  <2>3. CASE counter' # Increment
    <3>1. at' = [at EXCEPT ![c] = "done"] /\ id' = [id EXCEPT ![c] = counter']
          /\ at[c] = "incr" /\ UNCHANGED <<saved, seeding, seed>>
      BY <1>2, <2>3 DEF Incr
    <3>2. c \notin saved
      BY <3>1 DEF SettledInv
    <3>3. SettledInv'
      BY <2>1, <3>1, <3>2 DEF SettledInv
    <3>4. UniqueOnceSettled'
      BY <2>1, <3>1 DEF SettledInv
    <3> QED
      BY <3>3, <3>4
  <2> QED
    BY <2>2, <2>3
<1>3. ASSUME NEW c \in Call, Reset(c) PROVE SettledInv' /\ UniqueOnceSettled'
  BY <1>3 DEF Reset, SettledInv
<1>4. ASSUME NEW c \in Call, Fail(c) PROVE SettledInv' /\ UniqueOnceSettled'
  <2>1. CASE at[c] = "incr" /\ IncrBy
    <3>1. /\ counter' \in Nat \ {0} /\ settled' \subseteq settled
          /\ \A d \in settled' : id[d] < counter'
      BY <2>1, IncrementIsNew
    <3> QED
      BY <1>4, <2>1, <3>1 DEF Fail, SettledInv
  <2>2. CASE UNCHANGED <<counter, settled>>
    BY <1>4, <2>2 DEF Fail, SettledInv
  <2>3. CASE at[c] = "reset"
    BY <1>4, <2>3 DEF Fail, SettledInv
  <2> QED
    BY <1>4, <2>1, <2>2, <2>3 DEF Fail
<1>5. ASSUME NEW c \in Call, Save(c) \/ Delete(c) PROVE SettledInv' /\ UniqueOnceSettled'
  BY <1>5 DEF Save, Delete, SettledInv
<1>6. ASSUME NEW s \in Starter, SeedCheck(s) \/ SeedFails(s) PROVE SettledInv' /\ UniqueOnceSettled'
  BY <1>6 DEF SeedCheck, SeedFails, SettledInv
<1>7. ASSUME NEW s \in Starter, SeedRead(s) PROVE SettledInv' /\ UniqueOnceSettled'
  <2>1. PICK n \in Highest : Found(s, n)
    BY <1>7 DEF SeedRead
  <2>2. \A c \in saved : id[c] <= n
    BY <2>1 DEF Highest
  <2>3. settled' = settled \cap saved
    BY <1>7 DEF SeedRead
  <2> QED
    BY <1>7, <2>1, <2>2, <2>3 DEF SeedRead, SettledInv, Found
<1>8. ASSUME NEW s \in Starter, SeedSet(s) PROVE SettledInv' /\ UniqueOnceSettled'
  BY <1>8 DEF SeedSet, SettledInv
<1>9. CASE KeyExpires
  BY <1>9 DEF KeyExpires, SettledInv
<1>10. CASE UNCHANGED idVars
  BY <1>10 DEF idVars, SettledInv
<1> QED
  BY <1>1, <1>2, <1>3, <1>4, <1>5, <1>6, <1>7, <1>8, <1>9, <1>10 DEF IdNext

(* The invariant holds in every reachable state.                           *)
THEOREM GeneratorInvariant == IdSpec => []IdInv
<1>1. IdInit => IdInv
  BY IdAssumption DEF IdInit, IdInv, IdTypeOK, SettledInv, UniqueOnceSettled, Distinct, NoId, Hour
<1>2. IdInv /\ [IdNext]_idVars => IdInv'
  BY IdTypeStep, SettledStep DEF IdInv
<1> QED
  BY <1>1, <1>2, PTL DEF IdSpec

(* The ids of the messages are distinct, over expired keys, errors and     *)
(* restarts of servers, for all calls but those whose promise ended as     *)
(* UniqueOnceSettled says.                                                 *)
THEOREM IdsUniqueOnceSettled == IdSpec => []UniqueOnceSettled
  BY GeneratorInvariant, PTL DEF IdInv
=============================================================================
