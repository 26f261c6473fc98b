----------------------------- MODULE TaskStream -----------------------------
(***************************************************************************)
(* The task queue: two Redis streams (high and low priority) read by the   *)
(* task executors through one consumer group, as RedisDB.queue_product,    *)
(* queue_consumer, get_unacked_iterator and RedisMsg.ack use them and      *)
(* collect() of the executor drives them.                                  *)
(*                                                                         *)
(* A consumer is an executor process; it keeps its consumer name over      *)
(* restarts.  A message read by a consumer stays in that consumer's        *)
(* pending list until it is acknowledged.  A process reads its pending     *)
(* list once, through UNACKED_ITERATOR, before it reads new messages; it   *)
(* executes several messages at a time (task_limiter bounds how many, the  *)
(* model does not).                                                        *)
(***************************************************************************)
EXTENDS Integers, FiniteSets

CONSTANTS
  Consumer,    \* executor processes, by consumer name
  Msg,         \* messages that may be added
  HighMsg,     \* those added to the high-priority stream
  MaxCrashes,  \* bound on process crashes
  MaxFaults    \* bound on Redis errors and exceptions outside the handler

ASSUME StreamAssumption ==
  HighMsg \subseteq Msg /\ MaxCrashes \in Nat /\ MaxFaults \in Nat

Queue == {"high", "low"}
QueueOf(m) == IF m \in HighMsg THEN "high" ELSE "low"

VARIABLES
  (* Redis *)
  id,         \* the entry id of a message in its stream, 0 before XADD
  top,        \* the last entry id of each stream
  last,       \* the last entry the group has delivered of each stream
  pel,        \* the pending list of each consumer
  acked,      \* messages that were XACKed
  (* executors *)
  up,         \* whether the process runs
  pos,        \* what its next collect() reads
  cursor,     \* current_min of UNACKED_ITERATOR
  held,       \* number of executions the process runs of each message
  (* bounds and history *)
  crashes, faults,
  stranded    \* unacknowledged messages no execution of this incarnation of
              \* their process will get, because of a fault

redisVars == <<id, top, last, pel, acked>>
processVars == <<up, pos, cursor, held>>
vars == <<redisVars, processVars, crashes, faults, stranded>>

(* get_unacked_iterator over both streams, then XREADGROUP ">" of both.    *)
PendingPos == {"pel_high", "pel_low"}
NewPos == {"new_high", "new_low"}
ReadQueue(p) == IF p \in {"pel_high", "new_high"} THEN "high" ELSE "low"
(* Mutation of After: a collect that found nothing starts where it ended.  *)
AfterStaysLow(p) ==
  CASE p = "pel_high" -> "pel_low" [] p = "pel_low" -> "new_high"
    [] p \in NewPos -> "new_low"
After(p) ==
  CASE p = "pel_high" -> "pel_low" [] p = "pel_low" -> "new_high"
    [] p = "new_high" -> "new_low" [] p = "new_low" -> "new_high"

Init ==
  /\ id = [m \in Msg |-> 0]
  /\ top = [q \in Queue |-> 0] /\ last = [q \in Queue |-> 0]
  /\ pel = [c \in Consumer |-> {}] /\ acked = {}
  /\ up = [c \in Consumer |-> TRUE]
  /\ pos = [c \in Consumer |-> "pel_high"] /\ cursor = [c \in Consumer |-> 0]
  /\ held = [c \in Consumer |-> [m \in Msg |-> 0]]
  /\ crashes = 0 /\ faults = 0 /\ stranded = {}

Fault == faults < MaxFaults /\ faults' = faults + 1
NoFault == UNCHANGED <<crashes, faults>>

Hold(c, m) == held' = [held EXCEPT ![c][m] = @ + 1]
Release(c, m) == held[c][m] > 0 /\ held' = [held EXCEPT ![c][m] = @ - 1]

(* The entries of its pending list that XREADGROUP of queue q finds after  *)
(* the cursor, and those the iterator has still to visit in any queue.     *)
Unread(c) == {m \in pel[c] : QueueOf(m) = ReadQueue(pos[c]) /\ id[m] > cursor[c]}
ToVisit(c) ==
  IF pos[c] \notin PendingPos THEN {}
  ELSE Unread(c) \cup {m \in pel[c] : pos[c] = "pel_high" /\ QueueOf(m) = "low"}

-----------------------------------------------------------------------------
(* queue_product: XADD.                                                    *)
Add(m) ==
  /\ id[m] = 0
  /\ LET q == QueueOf(m)
     IN  top' = [top EXCEPT ![q] = @ + 1] /\ id' = [id EXCEPT ![m] = top[q] + 1]
  /\ UNCHANGED <<last, pel, acked, processVars, stranded>> /\ NoFault

(* collect: the iterator yields the next entry of the pending list.        *)
ReadPending(c) ==
  /\ up[c] /\ pos[c] \in PendingPos
  /\ \E m \in Unread(c) :
       /\ \A n \in Unread(c) : id[m] <= id[n]
       /\ Hold(c, m)
       /\ cursor' = [cursor EXCEPT ![c] = id[m]]
  /\ UNCHANGED <<redisVars, up, pos, stranded>> /\ NoFault

(* Mutation of PendingDone: the iterator is created anew whenever it is    *)
(* exhausted.                                                              *)
PendingDoneRestarts(c) ==
  /\ up[c] /\ pos[c] \in PendingPos /\ Unread(c) = {}
  /\ pos' = [pos EXCEPT ![c] = IF @ = "pel_high" THEN "pel_low" ELSE "pel_high"]
  /\ cursor' = [cursor EXCEPT ![c] = 0]
  /\ UNCHANGED <<redisVars, up, held, stranded>> /\ NoFault

(* The pending list of a stream is exhausted.                              *)
PendingDone(c) ==
  /\ up[c] /\ pos[c] \in PendingPos /\ Unread(c) = {}
  /\ pos' = [pos EXCEPT ![c] = After(@)]
  /\ cursor' = [cursor EXCEPT ![c] = 0]
  /\ UNCHANGED <<redisVars, up, held, stranded>> /\ NoFault

(* A Redis error ends the iterator's loop over one stream (queue_consumer  *)
(* gives up and returns None) or the whole iterator (XINFO GROUPS raises). *)
IteratorBreaks(c) ==
  /\ up[c] /\ pos[c] \in PendingPos
  /\ Fault
  /\ \/ /\ pos' = [pos EXCEPT ![c] = After(@)]
        /\ stranded' = stranded \cup Unread(c)
     \/ /\ pos' = [pos EXCEPT ![c] = "new_high"]
        /\ stranded' = stranded \cup ToVisit(c)
  /\ cursor' = [cursor EXCEPT ![c] = 0]
  /\ UNCHANGED <<redisVars, up, held, crashes>>

(* Mutation of Deliver: the group does not remember what it delivered.     *)
DeliverAgain(c, m) ==
  /\ QueueOf(m) = ReadQueue(pos[c]) /\ id[m] > 0
  /\ last' = [last EXCEPT ![QueueOf(m)] = id[m]]
  /\ pel' = [pel EXCEPT ![c] = @ \cup {m}]
  /\ UNCHANGED <<id, top, acked, up, cursor, crashes>>

(* XREADGROUP ">": the first entry the group has not delivered yet goes to *)
(* the consumer's pending list.                                            *)
Deliver(c, m) ==
  /\ QueueOf(m) = ReadQueue(pos[c]) /\ id[m] = last[QueueOf(m)] + 1
  /\ last' = [last EXCEPT ![QueueOf(m)] = @ + 1]
  /\ pel' = [pel EXCEPT ![c] = @ \cup {m}]
  /\ UNCHANGED <<id, top, acked, up, cursor, crashes>>

(* collect: queue_consumer returns a new message; the next collect starts  *)
(* with the high-priority stream again.                                    *)
ReadNew(c) ==
  /\ up[c] /\ pos[c] \in NewPos
  /\ \E m \in Msg : Deliver(c, m) /\ Hold(c, m)
  /\ pos' = [pos EXCEPT ![c] = "new_high"]
  /\ UNCHANGED <<faults, stranded>>

(* No new message in the stream.                                           *)
ReadNothing(c) ==
  /\ up[c] /\ pos[c] \in NewPos
  /\ last[ReadQueue(pos[c])] = top[ReadQueue(pos[c])]
  /\ pos' = [pos EXCEPT ![c] = After(@)]
  /\ UNCHANGED <<redisVars, up, cursor, held, stranded>> /\ NoFault

(* The XREADGROUP takes effect but its reply is lost: queue_consumer reads *)
(* once more, or gives up and collect turns to the next stream.            *)
ReplyLost(c) ==
  /\ up[c] /\ pos[c] \in NewPos
  /\ \E m \in Msg : Deliver(c, m) /\ stranded' = stranded \cup {m}
  /\ pos' = [pos EXCEPT ![c] = pos[c]] \/ pos' = [pos EXCEPT ![c] = After(@)]
  /\ Fault
  /\ UNCHANGED held

(* The execution is over, or collect drops the message: XACK.              *)
Ack(c, m) ==
  /\ Release(c, m)
  /\ acked' = acked \cup {m}
  /\ pel' = [d \in Consumer |-> pel[d] \ {m}]
  /\ UNCHANGED <<id, top, last, up, pos, cursor, stranded>> /\ NoFault

(* The execution is over without an XACK: collect raised (a database error *)
(* in get_task), the finally clause of handle_task did, or XACK failed,    *)
(* which ack() only logs.                                                  *)
LeaveUnacked(c, m) ==
  /\ Release(c, m)
  /\ stranded' = stranded \cup {m}
  /\ Fault
  /\ UNCHANGED <<redisVars, up, pos, cursor, crashes>>

(* The process dies with all its executions.                               *)
Crash(c) ==
  /\ up[c] /\ crashes < MaxCrashes
  /\ up' = [up EXCEPT ![c] = FALSE]
  /\ held' = [held EXCEPT ![c] = [m \in Msg |-> 0]]
  /\ crashes' = crashes + 1
  /\ stranded' = stranded \ pel[c]
  /\ UNCHANGED <<redisVars, pos, cursor, faults>>

(* Mutation of Restart: a new process goes straight to the new messages.   *)
RestartSkipsPending(c) ==
  /\ ~up[c]
  /\ up' = [up EXCEPT ![c] = TRUE]
  /\ pos' = [pos EXCEPT ![c] = "new_high"]
  /\ cursor' = [cursor EXCEPT ![c] = 0]
  /\ UNCHANGED <<redisVars, held, stranded>> /\ NoFault

(* The process is started again under its name, with no iterator yet.      *)
Restart(c) ==
  /\ ~up[c]
  /\ up' = [up EXCEPT ![c] = TRUE]
  /\ pos' = [pos EXCEPT ![c] = "pel_high"]
  /\ cursor' = [cursor EXCEPT ![c] = 0]
  /\ UNCHANGED <<redisVars, held, stranded>> /\ NoFault

Collect(c) == ReadPending(c) \/ PendingDone(c) \/ ReadNew(c) \/ ReadNothing(c)
End(c, m) == Ack(c, m) \/ LeaveUnacked(c, m)

Next ==
  \/ \E m \in Msg : Add(m)
  \/ \E c \in Consumer :
       \/ Collect(c) \/ IteratorBreaks(c) \/ ReplyLost(c)
       \/ \E m \in Msg : End(c, m)
       \/ Crash(c) \/ Restart(c)

Spec == Init /\ [][Next]_vars

(* A process that runs keeps collecting and its executions end, that is,   *)
(* the services they call answer or fail (the three-hour timeout of handle *)
(* only exists with ENABLE_TIMEOUT_ASSERTION); a dead process is started   *)
(* again.                                                                  *)
FairSpec ==
  /\ Spec
  /\ \A c \in Consumer :
       /\ WF_vars(Collect(c)) /\ WF_vars(Restart(c))
       /\ \A m \in Msg : WF_vars(End(c, m))

-----------------------------------------------------------------------------
TypeOK ==
  /\ id \in [Msg -> Nat] /\ top \in [Queue -> Nat] /\ last \in [Queue -> Nat]
  /\ pel \in [Consumer -> SUBSET Msg] /\ acked \subseteq Msg
  /\ up \in [Consumer -> BOOLEAN] /\ pos \in [Consumer -> PendingPos \cup NewPos]
  /\ cursor \in [Consumer -> Nat] /\ held \in [Consumer -> [Msg -> Nat]]
  /\ crashes \in 0..MaxCrashes /\ faults \in 0..MaxFaults
  /\ stranded \subseteq Msg

(* No message is executed twice at the same time, in one process or in     *)
(* two, although a restarted process reads its pending list while others   *)
(* read new messages: collect executes whatever the two reads return.      *)
OneExecution ==
  \A c, d \in Consumer, m \in Msg :
     held[c][m] > 0 => held[c][m] = 1 /\ m \notin acked /\ (d # c => held[d][m] = 0)

(* No message is forgotten: one that was delivered and not acknowledged    *)
(* is in the pending list of a process that is down, is executed, is still *)
(* to be visited by the iterator, or was stranded by a fault, and only one *)
(* of these.                                                               *)
NothingForgotten ==
  \A c \in Consumer : \A m \in pel[c] :
     up[c] => \/ held[c][m] = 1 /\ m \notin ToVisit(c) \cup stranded
              \/ held[c][m] = 0 /\ m \in ToVisit(c) /\ m \notin stranded
              \/ held[c][m] = 0 /\ m \notin ToVisit(c) /\ m \in stranded

(* Every message that is added is acknowledged in the end, unless a fault  *)
(* other than a crash strands it for the life time of its process.         *)
Acknowledged == \A m \in Msg : id[m] > 0 ~> m \in acked \cup stranded

(* The queue implements its promise to the rest of the system.             *)
Status == [m \in Msg |->
  IF \E c \in Consumer : held[c][m] > 0 THEN "running"
  ELSE IF m \in acked THEN "done"
  ELSE IF id[m] > 0 THEN "waiting" ELSE "absent"]

Delivery == INSTANCE MessageDelivery WITH status <- Status

DeliverySpec == Delivery!Spec

-----------------------------------------------------------------------------
(* The inductive invariant behind OneExecution and NothingForgotten.       *)

(* Entry ids identify the messages of a stream, and the group's position   *)
(* separates the delivered ones from the others.                           *)
IdInv ==
  /\ \A q \in Queue : last[q] <= top[q]
  /\ \A m \in Msg : id[m] <= top[QueueOf(m)]
  /\ \A m, n \in Msg : id[m] > 0 /\ id[m] = id[n] /\ QueueOf(m) = QueueOf(n) => m = n

Delivered(m) == id[m] > 0 /\ id[m] <= last[QueueOf(m)]

(* A delivered message is in one pending list or acknowledged.             *)
PelInv ==
  /\ \A m \in acked : Delivered(m)
  /\ \A c \in Consumer : \A m \in pel[c] :
       Delivered(m) /\ m \notin acked /\ \A d \in Consumer \ {c} : m \notin pel[d]

(* An execution holds a message of its own process's pending list.         *)
HeldInv == \A c \in Consumer, m \in Msg :
  held[c][m] > 0 => up[c] /\ held[c][m] = 1 /\ m \in pel[c]

StrandedInv == \A m \in stranded : \E c \in Consumer : up[c] /\ m \in pel[c]

IInv == TypeOK /\ IdInv /\ PelInv /\ HeldInv /\ StrandedInv /\ NothingForgotten
=============================================================================
