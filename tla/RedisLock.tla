----------------------------- MODULE RedisLock ------------------------------
(***************************************************************************)
(* RedisDistributedLock: a lock that is a Redis key with an expiry, used   *)
(* by the progress threads of the API servers, the executors (to clean the *)
(* list of executors), GraphRAG, the canvas replicas and, spinning, the    *)
(* dataset navigation.  The key holds the token of its owner; SET NX takes *)
(* the lock, and a script that deletes the key if it holds a given token   *)
(* gives it back, before an acquire too, where it removes what the owner   *)
(* left behind in a crash.                                                 *)
(*                                                                         *)
(* Callers of acquire release once, in a finally clause, but the progress  *)
(* thread releases twice, after its work and in the finally clause, where  *)
(* it does so even if it never had the lock.  Tokens are uuids, consumer   *)
(* names or task ids, so that no two owners share one; the exception is    *)
(* GraphRAG's batch_merge:<task id> when a task is in the stream twice,    *)
(* which LockAssumption leaves out.                                        *)
(***************************************************************************)
EXTENDS Naturals

CONSTANTS
  Owner,      \* lock objects, one per user of the lock
  Spinner,    \* those that use spin_acquire, the others use acquire
  Token,      \* values of lock_value
  TokenOf,    \* the lock_value of an owner
  Free,       \* "the key does not exist"
  MaxCrashes  \* bound on crashes

ASSUME LockAssumption ==
  /\ Spinner \subseteq Owner
  /\ TokenOf \in [Owner -> Token]
  /\ \A o, p \in Owner : TokenOf[o] = TokenOf[p] => o = p
  /\ Free \notin Token
  /\ MaxCrashes \in Nat

VARIABLES
  lock,     \* the value of the key
  pc,       \* what each owner does next
  crashes,
  overran   \* history: owners in the critical section whose key has expired

vars == <<lock, pc, crashes, overran>>

Label == {"idle", "clear", "try", "in", "finally"}

Init ==
  /\ lock = Free
  /\ pc = [o \in Owner |-> "idle"]
  /\ crashes = 0 /\ overran = {}

Go(o, from, to) == pc[o] = from /\ pc' = [pc EXCEPT ![o] = to]

-----------------------------------------------------------------------------
(* Mutation of DeleteIfEqual: a plain DEL.                                 *)
DeleteAlways(o) == lock' = Free

(* LUA_DELETE_IF_EQUAL_SCRIPT.                                             *)
DeleteIfEqual(o) == lock' = IF lock = TokenOf[o] THEN Free ELSE lock

(* acquire and spin_acquire start by deleting what a crash left.           *)
Start(o) == Go(o, "idle", "clear") /\ UNCHANGED <<lock, crashes, overran>>

Clear(o) ==
  /\ Go(o, "clear", "try")
  /\ DeleteIfEqual(o)
  /\ UNCHANGED <<crashes, overran>>

(* One SET NX PX of Lock.acquire, which is repeated until it succeeds...   *)
Take(o) ==
  /\ Go(o, "try", "in")
  /\ lock = Free /\ lock' = TokenOf[o]
  /\ UNCHANGED <<crashes, overran>>

(* ... or blocking_timeout is over; spin_acquire then tries again.         *)
GiveUp(o) ==
  /\ o \notin Spinner
  /\ Go(o, "try", "idle") \/ Go(o, "try", "finally")
  /\ UNCHANGED <<lock, crashes, overran>>

(* release; the progress thread has another one in its finally clause.     *)
Release(o) ==
  /\ Go(o, "in", "idle") \/ (o \notin Spinner /\ Go(o, "in", "finally"))
  /\ DeleteIfEqual(o)
  /\ overran' = overran \ {o}
  /\ UNCHANGED crashes

ReleaseAgain(o) ==
  /\ Go(o, "finally", "idle")
  /\ DeleteIfEqual(o)
  /\ UNCHANGED <<crashes, overran>>

(* The process dies; another one starts with the same token.               *)
Crash(o) ==
  /\ pc[o] # "idle" /\ pc' = [pc EXCEPT ![o] = "idle"]
  /\ crashes < MaxCrashes /\ crashes' = crashes + 1
  /\ overran' = overran \ {o}
  /\ UNCHANGED lock

(* Mutation of Expire: a key does not expire once its owner has crashed.   *)
ExpireOfLiving ==
  /\ \E o \in Owner : lock = TokenOf[o] /\ pc[o] # "idle"
  /\ lock' = Free
  /\ overran' = overran \cup {o \in Owner : lock = TokenOf[o] /\ pc[o] = "in"}
  /\ UNCHANGED <<pc, crashes>>

(* The timeout of the lock is over, whatever its owner is doing.           *)
Expire ==
  /\ lock # Free /\ lock' = Free
  /\ overran' = overran \cup {o \in Owner : lock = TokenOf[o] /\ pc[o] = "in"}
  /\ UNCHANGED <<pc, crashes>>

Step(o) == Clear(o) \/ Take(o) \/ GiveUp(o) \/ Release(o) \/ ReleaseAgain(o)

Next == Expire \/ \E o \in Owner : Start(o) \/ Step(o) \/ Crash(o)

Spec == Init /\ [][Next]_vars

(* Whoever started goes on, unless it crashes, and Redis expires a key     *)
(* that stays.                                                             *)
FairSpec ==
  /\ Spec
  /\ \A o \in Owner : WF_vars(Step(o))
  /\ WF_vars(Expire)

-----------------------------------------------------------------------------
TypeOK ==
  /\ lock \in Token \cup {Free}
  /\ pc \in [Owner -> Label]
  /\ crashes \in 0..MaxCrashes
  /\ overran \subseteq Owner

(* Two owners are in their critical sections at the same time only if the  *)
(* key of one of them expired there: neither a late release nor the second *)
(* one of the progress thread nor the clearing of a new acquire takes the  *)
(* lock away from somebody else.                                           *)
ExclusiveUntilExpiry ==
  \A o, p \in Owner : pc[o] = "in" /\ pc[p] = "in" /\ o # p => {o, p} \cap overran # {}

(* The key of a crashed owner does not keep the lock for good: if somebody *)
(* waits for ever, others do get the lock again and again.                 *)
PassedOn == \A o \in Owner : <>[](pc[o] = "try") => []<>(\E p \in Owner : pc[p] = "in")

(* The inductive invariant behind ExclusiveUntilExpiry.                    *)
OwnerInv == \A o \in Owner : pc[o] = "in" => lock = TokenOf[o] \/ o \in overran

IInv == TypeOK /\ OwnerInv
=============================================================================
