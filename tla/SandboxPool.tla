---------------------------- MODULE SandboxPool -----------------------------
(***************************************************************************)
(* The pool of containers of one language in the sandbox's executor        *)
(* manager: a queue of container names, an asyncio lock around the docker  *)
(* commands, and a semaphore of the pool's size that a request holds from  *)
(* before it takes a container until after it gave it back.  Coroutines    *)
(* interleave where they await.                                            *)
(*                                                                         *)
(* A container may die at any time, and a docker command may fail or time  *)
(* out: container_is_running then says no, recreate_container False, and   *)
(* whether the container runs is open.  The order of the queue is left     *)
(* out, and so are the other language, which shares the lock only, and     *)
(* teardown_containers.                                                    *)
(***************************************************************************)
EXTENDS Naturals, FiniteSets

CONSTANTS
  Container,   \* names of the containers of the pool
  Request,     \* calls of run_code_handler
  None         \* "no container", "nobody"

ASSUME PoolAssumption == IsFiniteSet(Container) /\ None \notin Container \cup Request

VARIABLES
  pool,     \* _CONTAINER_QUEUES[language]
  running,  \* containers that run
  mutex,    \* who holds _CONTAINER_LOCK
  pc,       \* what each request does next
  name,     \* the container a request has taken from the pool
  lost      \* history: containers that could not be created (again), or whose
            \* request failed before its try

vars == <<pool, running, mutex, pc, name, lost>>

(* Requests past the semaphore.                                            *)
Allocating == {"get", "sleep", "lock", "inspect", "recreate"}
Releasing == {"unlock", "inspect_after", "recreate_after"}
Admitted == Allocating \cup {"use", "run", "busy", "leave"} \cup Releasing

Active == {r \in Request : pc[r] \in Admitted}

(* init_containers: those that were created are in the queue.              *)
Init ==
  /\ pool \in SUBSET Container /\ lost = Container \ pool
  /\ running = pool
  /\ mutex = None
  /\ pc = [r \in Request |-> "waiting"] /\ name = [r \in Request |-> None]

Go(r, from, to) == pc[r] = from /\ pc' = [pc EXCEPT ![r] = to]

Holds(r, c) == name' = [name EXCEPT ![r] = c]

-----------------------------------------------------------------------------
(* run_code_handler: the semaphore; unsafe code is refused at once.        *)
Enter(r) ==
  /\ Cardinality(Active) < Cardinality(Container)
  /\ Go(r, "waiting", "get") \/ Go(r, "waiting", "leave")
  /\ UNCHANGED <<pool, running, mutex, name, lost>>

(* Mutation of Get: the container is not taken out of the queue.           *)
GetPeeks(r) ==
  /\ Go(r, "get", "lock")
  /\ \E c \in pool : Holds(r, c)
  /\ UNCHANGED <<pool, running, mutex, lost>>

(* allocate_container_blocking: get_nowait, ...                            *)
Get(r) ==
  /\ Go(r, "get", "lock")
  /\ \E c \in pool : Holds(r, c) /\ pool' = pool \ {c}
  /\ UNCHANGED <<running, mutex, lost>>

(* ... or the queue is empty and the coroutine sleeps, ...                 *)
FindEmpty(r) ==
  /\ pool = {}
  /\ Go(r, "get", "sleep")
  /\ UNCHANGED <<pool, running, mutex, name, lost>>

(* ... to try again ...                                                    *)
Wake(r) ==
  /\ Go(r, "sleep", "get")
  /\ UNCHANGED <<pool, running, mutex, name, lost>>

(* Mutation of TimeOut: the loop has no deadline.                          *)
TimeOutNever(r) == Wake(r)

(* ... until its time is over.                                             *)
TimeOut(r) ==
  /\ Go(r, "sleep", "busy")
  /\ UNCHANGED <<pool, running, mutex, name, lost>>

(* async with _CONTAINER_LOCK, in allocate and in release.                 *)
Lock(r) ==
  /\ mutex = None /\ mutex' = r
  /\ Go(r, "lock", "inspect") \/ Go(r, "unlock", "inspect_after")
  /\ UNCHANGED <<pool, running, name, lost>>

(* A running container is handed out.                                      *)
Inspect(r) ==
  /\ \/ /\ name[r] \in running /\ Go(r, "inspect", "use") /\ mutex' = None
     \/ Go(r, "inspect", "recreate") /\ UNCHANGED mutex
  /\ UNCHANGED <<pool, running, name, lost>>

(* Another one is created again; if that fails its name is dropped and the *)
(* loop goes on, or its time is over.                                      *)
Recreate(r) ==
  /\ \/ /\ Go(r, "recreate", "use")
        /\ running' = running \cup {name[r]}
        /\ UNCHANGED <<name, lost>>
     \/ /\ Go(r, "recreate", "get") \/ Go(r, "recreate", "busy")
        /\ running' \in {running \ {name[r]}, running \cup {name[r]}}
        /\ lost' = lost \cup {name[r]} /\ Holds(r, None)
  /\ mutex' = None
  /\ UNCHANGED pool

(* execute_code: the files are put into the container, or the attempt      *)
(* fails; the communicate() of the two tar processes has no timeout.       *)
Upload(r) ==
  /\ Go(r, "use", "run") \/ Go(r, "use", "unlock")
  /\ UNCHANGED <<pool, running, mutex, name, lost>>

(* The code is run, with a timeout; whatever happens, the finally clause   *)
(* releases.                                                               *)
Execute(r) ==
  /\ Go(r, "run", "unlock")
  /\ UNCHANGED <<pool, running, mutex, name, lost>>

(* Its working directory could not be created, which is done before try.   *)
NoWorkdir(r) ==
  /\ Go(r, "use", "leave")
  /\ lost' = lost \cup {name[r]} /\ Holds(r, None)
  /\ UNCHANGED <<pool, running, mutex>>

(* Mutation of GiveBack: a container that had to be created again is not   *)
(* put back.                                                               *)
GiveBackRunning(r) ==
  /\ \/ /\ Go(r, "inspect_after", "leave") /\ name[r] \in running
        /\ pool' = pool \cup {name[r]} /\ UNCHANGED running
     \/ /\ Go(r, "recreate_after", "leave")
        /\ running' = running \cup {name[r]} /\ UNCHANGED pool
  /\ mutex' = None /\ Holds(r, None)
  /\ UNCHANGED lost

(* release_container: a container that runs, or could be created again, is *)
(* put back.                                                               *)
GiveBack(r) ==
  /\ \/ /\ Go(r, "inspect_after", "leave") /\ name[r] \in running
        /\ UNCHANGED running
     \/ /\ Go(r, "recreate_after", "leave")
        /\ running' = running \cup {name[r]}
  /\ pool' = pool \cup {name[r]}
  /\ mutex' = None /\ Holds(r, None)
  /\ UNCHANGED lost

FoundDead(r) ==
  /\ Go(r, "inspect_after", "recreate_after")
  /\ UNCHANGED <<pool, running, mutex, name, lost>>

RecreateFails(r) ==
  /\ Go(r, "recreate_after", "leave")
  /\ running' \in {running \ {name[r]}, running \cup {name[r]}}
  /\ lost' = lost \cup {name[r]}
  /\ mutex' = None /\ Holds(r, None)
  /\ UNCHANGED pool

(* The semaphore is released.                                              *)
Leave(r) ==
  /\ Go(r, "busy", "over") \/ Go(r, "leave", "over")
  /\ UNCHANGED <<pool, running, mutex, name, lost>>

(* A container dies: out of memory, or killed from outside.                *)
Die(c) ==
  /\ c \in running /\ running' = running \ {c}
  /\ UNCHANGED <<pool, mutex, pc, name, lost>>

(* What returns in bounded time: all but the upload.                       *)
Prompt(r) ==
  \/ Get(r) \/ FindEmpty(r) \/ Wake(r) \/ TimeOut(r)
  \/ Lock(r) \/ Inspect(r) \/ Recreate(r) \/ Execute(r)
  \/ GiveBack(r) \/ FoundDead(r) \/ RecreateFails(r) \/ Leave(r)

Step(r) == Prompt(r) \/ Upload(r) \/ NoWorkdir(r)

Next ==
  \/ \E r \in Request : Enter(r) \/ Step(r)
  \/ \E c \in Container : Die(c)

Spec == Init /\ [][Next]_vars

(* Every docker command but those of the upload has a timeout, so every    *)
(* other await returns; an upload may hang for ever.  The waiters of the   *)
(* lock and of the semaphore are served in turn; the loop of an allocation *)
(* is left when its time is over.                                          *)
FairSpec ==
  /\ Spec
  /\ \A r \in Request : /\ WF_vars(Prompt(r)) /\ SF_vars(Lock(r)) /\ SF_vars(Enter(r))
                        /\ SF_vars(TimeOut(r))

-----------------------------------------------------------------------------
TypeOK ==
  /\ pool \subseteq Container /\ running \subseteq Container /\ lost \subseteq Container
  /\ mutex \in Request \cup {None}
  /\ pc \in [Request -> Admitted \cup {"waiting", "over"}]
  /\ name \in [Request -> Container \cup {None}]

(* No two requests run code in one container, and none in a container that *)
(* is in the pool.                                                         *)
OneUserPerContainer ==
  \A r \in Request : name[r] # None =>
    /\ name[r] \notin pool
    /\ \A s \in Request \ {r} : name[s] # name[r]

(* Every container is in the pool, in the hands of a request, or lost in   *)
(* one of the two ways the code has to lose it: nothing else shrinks the   *)
(* pool.                                                                   *)
NoContainerForgotten ==
  \A c \in Container : c \in pool \/ c \in lost \/ \E r \in Request : name[r] = c

(* The semaphore is as large as the pool, so a request waits for it, and   *)
(* "Container pool is busy" is only said once a container is lost.         *)
BusyOnlyAfterLoss == \A r \in Request : pc[r] = "busy" => lost # {}

(* Every permit of the semaphore is held by a request that uploads.        *)
AllUploading == Cardinality({r \in Request : pc[r] = "use"}) = Cardinality(Container)

(* A request whose upload hangs takes its own container and permit out of  *)
(* service and nothing else: every other request is answered, unless hung  *)
(* uploads hold all permits.                                               *)
EveryoneIsServed ==
  \A r \in Request : <>(pc[r] = "over") \/ <>[](pc[r] = "use") \/ <>[]AllUploading

-----------------------------------------------------------------------------
(* The parts of the inductive invariant: a request has a container, and    *)
(* the lock, exactly where its label says; ...                             *)
HolderInv ==
  \A r \in Request :
    /\ (name[r] # None) <=> pc[r] \in {"lock", "inspect", "recreate", "use", "run"} \cup Releasing
    /\ (mutex = r) <=> pc[r] \in {"inspect", "recreate", "inspect_after", "recreate_after"}

(* ... the semaphore counts the requests; ...                              *)
SemaphoreInv == IsFiniteSet(Active) /\ Cardinality(Active) <= Cardinality(Container)

(* ... and a request that found the pool empty found it after a loss.      *)
EmptyInv == \A r \in Request : pc[r] \in {"sleep", "busy"} => lost # {}

IInv ==
  TypeOK /\ HolderInv /\ SemaphoreInv /\ EmptyInv /\ OneUserPerContainer /\ NoContainerForgotten
=============================================================================
