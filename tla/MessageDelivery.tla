--------------------------- MODULE MessageDelivery ---------------------------
(***************************************************************************)
(* What the task queue promises the rest of RAGFlow, without streams,      *)
(* consumer groups or cursors: a message is executed at least once, by at  *)
(* most one execution at a time, and never again once it is acknowledged.  *)
(* TaskStream implements it; ChunkingCounter relies on it.                 *)
(***************************************************************************)
CONSTANT Msg

VARIABLE status   \* of each message

Init == status = [m \in Msg |-> "absent"]

Move(m, from, to) == status[m] = from /\ status' = [status EXCEPT ![m] = to]

Send(m) == Move(m, "absent", "waiting")

(* One execution takes the message.                                        *)
Take(m) == Move(m, "waiting", "running")

(* The execution ends, whatever its outcome, and acknowledges the message. *)
Finish(m) == Move(m, "running", "done")

(* The message is acknowledged without being executed: its task is gone.   *)
Discard(m) == Move(m, "waiting", "done")

(* Executions end without an acknowledgement: their process died, or       *)
(* something raised.                                                       *)
Return(S) ==
  /\ \A m \in S : status[m] = "running"
  /\ status' = [m \in Msg |-> IF m \in S THEN "waiting" ELSE status[m]]

Next ==
  \/ \E m \in Msg : Send(m) \/ Take(m) \/ Finish(m) \/ Discard(m)
  \/ \E S \in SUBSET Msg : Return(S)

Spec == Init /\ [][Next]_status
=============================================================================
