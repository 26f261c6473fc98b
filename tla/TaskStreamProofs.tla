-------------------------- MODULE TaskStreamProofs --------------------------
(***************************************************************************)
(* Proofs that the task queue executes no message twice at a time, forgets *)
(* none without a fault, and implements MessageDelivery, for any number of *)
(* executors, messages, crashes and faults.                                *)
(***************************************************************************)
EXTENDS TaskStream, TLAPS

USE StreamAssumption
USE DEF redisVars, processVars, PendingPos, NewPos, Queue, QueueOf

(* Queues and the labels that follow one another have their types.         *)
LEMMA LabelTypes ==
  /\ \A m \in Msg : QueueOf(m) \in Queue
  /\ \A p \in PendingPos \cup NewPos :
       ReadQueue(p) \in Queue /\ After(p) \in PendingPos \cup NewPos
BY DEF ReadQueue, After

(* Every step keeps the types.                                             *)
LEMMA StepTypeOK == TypeOK /\ [Next]_vars => TypeOK'
<1> SUFFICES ASSUME TypeOK, [Next]_vars PROVE TypeOK'
  OBVIOUS
<1> USE LabelTypes DEF TypeOK, Fault, NoFault
<1>1. ASSUME NEW m \in Msg, Add(m) PROVE TypeOK'
  BY <1>1 DEF Add
<1>2. ASSUME NEW c \in Consumer, ReadPending(c) PROVE TypeOK'
  BY <1>2 DEF ReadPending, Unread, Hold
<1>3. ASSUME NEW c \in Consumer, PendingDone(c) PROVE TypeOK'
  BY <1>3 DEF PendingDone
<1>4. ASSUME NEW c \in Consumer, IteratorBreaks(c) PROVE TypeOK'
  BY <1>4 DEF IteratorBreaks, Unread, ToVisit
<1>5. ASSUME NEW c \in Consumer, ReadNew(c) PROVE TypeOK'
  BY <1>5 DEF ReadNew, Deliver, Hold
<1>6. ASSUME NEW c \in Consumer, ReadNothing(c) PROVE TypeOK'
  BY <1>6 DEF ReadNothing
<1>7. ASSUME NEW c \in Consumer, ReplyLost(c) PROVE TypeOK'
  <2>1. pos[c] \in NewPos /\ pos' \in [Consumer -> PendingPos \cup NewPos]
    BY <1>7 DEF ReplyLost
  <2>2. PICK m \in Msg : Deliver(c, m) /\ stranded' = stranded \cup {m}
    BY <1>7 DEF ReplyLost
  <2>3. faults' \in 0..MaxFaults /\ UNCHANGED held
    BY <1>7 DEF ReplyLost
  <2>4. last' \in [Queue -> Nat] /\ pel' \in [Consumer -> SUBSET Msg]
    BY <2>2 DEF Deliver
  <2>5. QED
    BY <2>1, <2>2, <2>3, <2>4 DEF Deliver
<1>8. ASSUME NEW c \in Consumer, NEW m \in Msg, Ack(c, m) PROVE TypeOK'
  BY <1>8 DEF Ack, Release
<1>9. ASSUME NEW c \in Consumer, NEW m \in Msg, LeaveUnacked(c, m) PROVE TypeOK'
  BY <1>9 DEF LeaveUnacked, Release
<1>10. ASSUME NEW c \in Consumer, Crash(c) PROVE TypeOK'
  BY <1>10 DEF Crash
<1>11. ASSUME NEW c \in Consumer, Restart(c) PROVE TypeOK'
  BY <1>11 DEF Restart
<1>12. CASE UNCHANGED vars
  BY <1>12 DEF vars
<1>13. QED
  BY <1>1, <1>2, <1>3, <1>4, <1>5, <1>6, <1>7, <1>8, <1>9, <1>10, <1>11, <1>12
  DEF Next, Collect, End

-----------------------------------------------------------------------------
(* Initially no message is in a stream.                                    *)
LEMMA InitIInv == Init => IInv
BY DEF Init, IInv, TypeOK, IdInv, PelInv, HeldInv, StrandedInv, NothingForgotten, Delivered

(* XADD: the new entry comes after everything the group has delivered.     *)
LEMMA AddIInv ==
  ASSUME IInv, TypeOK', NEW m \in Msg, Add(m)
  PROVE  IInv'
<1> USE DEF Add, TypeOK
<1>a. /\ id[m] = 0 /\ id' = [id EXCEPT ![m] = top[QueueOf(m)] + 1]
      /\ top' = [top EXCEPT ![QueueOf(m)] = @ + 1]
      /\ QueueOf(m) \in Queue
      /\ UNCHANGED <<last, pel, acked, up, pos, cursor, held, stranded>>
  OBVIOUS
<1>b. \A n \in Msg : Delivered(n) => n # m /\ id'[n] = id[n] /\ Delivered(n)'
  BY <1>a DEF IInv, Delivered
<1>1. IdInv'
  BY <1>a, LabelTypes DEF IInv, IdInv
<1>2. PelInv'
  BY <1>a, <1>b DEF IInv, PelInv
<1>3. HeldInv' /\ StrandedInv'
  BY <1>a DEF IInv, HeldInv, StrandedInv
<1>4. ASSUME NEW c \in Consumer, NEW n \in Msg, n \in pel[c]
      PROVE  n \in ToVisit(c)' <=> n \in ToVisit(c)
  BY <1>a, <1>b, <1>4 DEF IInv, PelInv, ToVisit, Unread
<1>5. NothingForgotten'
  BY <1>a, <1>4 DEF IInv, NothingForgotten
<1>6. QED
  BY <1>1, <1>2, <1>3, <1>5 DEF IInv

(* Reading the pending list: the entry read is the only one that leaves    *)
(* what the iterator has to visit, since it has the lowest id.             *)
LEMMA ReadPendingIInv ==
  ASSUME IInv, TypeOK', NEW c \in Consumer, ReadPending(c)
  PROVE  IInv'
<1>1. PICK m \in Unread(c) : /\ \A n \in Unread(c) : id[m] <= id[n]
                             /\ held' = [held EXCEPT ![c][m] = @ + 1]
                             /\ cursor' = [cursor EXCEPT ![c] = id[m]]
  BY DEF ReadPending, Hold
<1>2. /\ up[c] /\ pos[c] \in PendingPos
      /\ UNCHANGED <<id, top, last, pel, acked, up, pos, stranded>>
  BY DEF ReadPending
<1>3. m \in Msg /\ m \in pel[c] /\ m \in ToVisit(c) /\ id[m] \in Nat
  BY <1>1, <1>2 DEF IInv, TypeOK, Unread, ToVisit
<1>4. held[c][m] = 0 /\ m \notin stranded
  BY <1>2, <1>3 DEF IInv, NothingForgotten
<1>5. IdInv' /\ PelInv' /\ StrandedInv'
  BY <1>2 DEF IInv, IdInv, PelInv, StrandedInv, Delivered
<1>6. HeldInv'
  BY <1>1, <1>2, <1>3, <1>4 DEF IInv, TypeOK, HeldInv
<1>7. ToVisit(c)' = ToVisit(c) \ {m}
  <2>1. Unread(c)' = Unread(c) \ {m}
    <3>1. ASSUME NEW n \in Unread(c), n # m PROVE id[n] > id[m]
      <4>1. n \in Msg /\ id[n] \in Nat /\ id[m] <= id[n] /\ QueueOf(n) = QueueOf(m)
        BY <1>1, <3>1 DEF IInv, TypeOK, Unread
      <4>2. id[m] > 0
        BY <1>3 DEF IInv, PelInv, Delivered
      <4>3. id[n] # id[m]
        BY <1>3, <3>1, <4>1, <4>2 DEF IInv, IdInv
      <4>4. QED
        BY <1>3, <4>1, <4>3
    <3>2. Unread(c)' = {n \in pel[c] : QueueOf(n) = ReadQueue(pos[c]) /\ id[n] > id[m]}
      BY <1>1, <1>2 DEF IInv, TypeOK, Unread
    <3>3. \A n \in pel[c] : id[n] > id[m] => id[n] > cursor[c]
      BY <1>1, <1>3 DEF IInv, TypeOK, Unread
    <3>4. QED
      BY <1>1, <1>3, <3>1, <3>2, <3>3 DEF Unread
  <2>2. ~(pos[c] = "pel_high" /\ QueueOf(m) = "low")
    BY <1>1 DEF Unread, ReadQueue
  <2>3. QED
    BY <1>2, <2>1, <2>2 DEF ToVisit
<1>8. \A d \in Consumer : d # c => ToVisit(d)' = ToVisit(d) /\ held'[d] = held[d]
  BY <1>1, <1>2 DEF IInv, TypeOK, ToVisit, Unread
<1>9. held'[c] = [held[c] EXCEPT ![m] = @ + 1]
  BY <1>1 DEF IInv, TypeOK
<1>10. NothingForgotten'
  <2>1. ASSUME NEW d \in Consumer, NEW n \in pel[d], up[d]
        PROVE  \/ held'[d][n] = 1 /\ n \notin ToVisit(d)' \cup stranded
               \/ held'[d][n] = 0 /\ n \in ToVisit(d)' /\ n \notin stranded
               \/ held'[d][n] = 0 /\ n \notin ToVisit(d)' /\ n \in stranded
    <3>1. n \in Msg
      BY DEF IInv, TypeOK
    <3>2. CASE d = c /\ n = m
      BY <1>3, <1>4, <1>7, <1>9, <3>2 DEF IInv, TypeOK
    <3>3. CASE ~(d = c /\ n = m)
      <4>1. held'[d][n] = held[d][n] /\ (n \in ToVisit(d)' <=> n \in ToVisit(d))
        BY <1>7, <1>8, <1>9, <3>1, <3>3 DEF IInv, TypeOK
      <4>2. QED
        BY <2>1, <4>1 DEF IInv, NothingForgotten
    <3>4. QED
      BY <3>2, <3>3
  <2>2. QED
    BY <1>2, <2>1 DEF NothingForgotten
<1>11. QED
  BY <1>5, <1>6, <1>10 DEF IInv

(* Moving on when nothing is left to read changes nothing to visit.        *)
LEMMA MoveOnIInv ==
  ASSUME IInv, TypeOK', NEW c \in Consumer, PendingDone(c) \/ ReadNothing(c)
  PROVE  IInv'
<1>1. /\ UNCHANGED <<id, top, last, pel, acked, up, held, stranded>>
      /\ pos' = [pos EXCEPT ![c] = After(@)]
  BY DEF PendingDone, ReadNothing
<1>2. \A d \in Consumer : d # c => ToVisit(d)' = ToVisit(d)
  <2>1. cursor' = [cursor EXCEPT ![c] = 0] \/ cursor' = cursor
    BY DEF PendingDone, ReadNothing
  <2>2. \A d \in Consumer : d # c => cursor'[d] = cursor[d] /\ pos'[d] = pos[d]
    BY <1>1, <2>1 DEF IInv, TypeOK
  <2>3. QED
    BY <1>1, <2>2 DEF ToVisit, Unread
<1>3. ToVisit(c)' = ToVisit(c)
  <2>1. CASE pos[c] \in NewPos
    BY <1>1, <2>1 DEF IInv, TypeOK, ToVisit, After
  <2>2. CASE pos[c] = "pel_high"
    <3>1. Unread(c) = {} /\ cursor'[c] = 0 /\ pos'[c] = "pel_low"
      BY <1>1, <2>2 DEF IInv, TypeOK, PendingDone, ReadNothing, After
    <3>2. \A m \in pel[c] : id[m] > 0
      BY DEF IInv, PelInv, Delivered
    <3>3. Unread(c)' = {m \in pel[c] : QueueOf(m) = "low"}
      BY <1>1, <3>1, <3>2 DEF Unread, ReadQueue
    <3>4. QED
      BY <1>1, <2>2, <3>1, <3>3 DEF ToVisit
  <2>3. CASE pos[c] = "pel_low"
    <3>1. Unread(c) = {} /\ pos'[c] = "new_high"
      BY <1>1, <2>3 DEF IInv, TypeOK, PendingDone, ReadNothing, After
    <3>2. QED
      BY <2>3, <3>1 DEF ToVisit
  <2>4. QED
    BY <2>1, <2>2, <2>3 DEF IInv, TypeOK
<1>4. IdInv' /\ PelInv' /\ HeldInv' /\ StrandedInv'
  BY <1>1 DEF IInv, IdInv, PelInv, HeldInv, StrandedInv, Delivered
<1>5. NothingForgotten'
  BY <1>1, <1>2, <1>3 DEF IInv, NothingForgotten
<1>6. QED
  BY <1>4, <1>5 DEF IInv

(* A broken iterator: what it had still to visit is stranded, or is still  *)
(* to be visited.                                                          *)
LEMMA IteratorBreaksIInv ==
  ASSUME IInv, TypeOK', NEW c \in Consumer, IteratorBreaks(c)
  PROVE  IInv'
<1>1. /\ UNCHANGED <<id, top, last, pel, acked, up, held>>
      /\ up[c] /\ pos[c] \in PendingPos /\ cursor' = [cursor EXCEPT ![c] = 0]
  BY DEF IteratorBreaks
<1>2. /\ pos' = [pos EXCEPT ![c] = pos'[c]] /\ stranded \subseteq stranded'
      /\ stranded' \ stranded \subseteq ToVisit(c)
  BY <1>1 DEF IteratorBreaks, ToVisit, IInv, TypeOK
<1>3. ToVisit(c)' = ToVisit(c) \ stranded' /\ stranded' = stranded \cup (ToVisit(c) \ ToVisit(c)')
  <2>1. \A m \in pel[c] : id[m] > 0
    BY DEF IInv, PelInv, Delivered
  <2>2. ToVisit(c) \cap stranded = {}
    BY <1>1 DEF IInv, NothingForgotten, ToVisit, Unread
  <2>3. CASE pos'[c] = "new_high" /\ stranded' = stranded \cup ToVisit(c)
    BY <2>2, <2>3 DEF ToVisit
  <2>4. CASE pos'[c] = After(pos[c]) /\ stranded' = stranded \cup Unread(c)
    <3>1. CASE pos[c] = "pel_low"
      <4>1. pos'[c] = "new_high" /\ ToVisit(c) = Unread(c)
        BY <2>4, <3>1 DEF After, ToVisit
      <4>2. QED
        BY <2>2, <2>4, <4>1 DEF ToVisit
    <3>2. CASE pos[c] = "pel_high"
      <4>1. pos'[c] = "pel_low" /\ cursor'[c] = 0
        BY <1>1, <2>4, <3>2 DEF After, IInv, TypeOK
      <4>2. ToVisit(c)' = {m \in pel[c] : QueueOf(m) = "low"}
        BY <1>1, <2>1, <4>1 DEF ToVisit, Unread, ReadQueue
      <4>3. ToVisit(c) = Unread(c) \cup {m \in pel[c] : QueueOf(m) = "low"}
        BY <3>2 DEF ToVisit
      <4>4. Unread(c) \cap {m \in pel[c] : QueueOf(m) = "low"} = {}
        BY <3>2 DEF Unread, ReadQueue
      <4>5. QED
        BY <2>2, <2>4, <4>2, <4>3, <4>4
    <3>3. QED
      BY <1>1, <3>1, <3>2
  <2>5. QED
    BY <1>1, <2>3, <2>4 DEF IteratorBreaks, IInv, TypeOK
<1>4. \A d \in Consumer : d # c => ToVisit(d)' = ToVisit(d)
  <2>1. \A d \in Consumer : d # c => cursor'[d] = cursor[d] /\ pos'[d] = pos[d]
    BY <1>1, <1>2 DEF IInv, TypeOK
  <2>2. QED
    BY <1>1, <2>1 DEF ToVisit, Unread
<1>5. ToVisit(c) \subseteq pel[c]
  BY DEF ToVisit, Unread
<1>6. IdInv' /\ PelInv' /\ HeldInv'
  BY <1>1 DEF IInv, IdInv, PelInv, HeldInv, Delivered
<1>7. StrandedInv'
  BY <1>1, <1>2, <1>5 DEF IInv, StrandedInv
<1>8. NothingForgotten'
  <2>1. ASSUME NEW d \in Consumer, d # c, NEW m \in pel[d]
        PROVE  m \in stranded' <=> m \in stranded
    BY <1>2, <1>5, <2>1 DEF IInv, PelInv
  <2>2. QED
    BY <1>1, <1>3, <1>4, <2>1 DEF IInv, NothingForgotten
<1>9. QED
  BY <1>6, <1>7, <1>8 DEF IInv

(* XREADGROUP ">": the entry is in no pending list yet, and the process is *)
(* past its iterator; it is executed, or its reply is lost.                *)
LEMMA DeliverIInv ==
  ASSUME IInv, TypeOK', NEW c \in Consumer, ReadNew(c) \/ ReplyLost(c)
  PROVE  IInv'
<1>1. PICK m \in Msg :
        /\ Deliver(c, m)
        /\ \/ held' = [held EXCEPT ![c][m] = @ + 1] /\ stranded' = stranded
           \/ held' = held /\ stranded' = stranded \cup {m}
  BY DEF ReadNew, ReplyLost, Hold
<1>2. /\ up[c] /\ pos[c] \in NewPos /\ pos'[c] \in NewPos
      /\ UNCHANGED <<id, top, acked, up, cursor>>
      /\ \A d \in Consumer : d # c => pos'[d] = pos[d]
  BY <1>1 DEF ReadNew, ReplyLost, Deliver, IInv, TypeOK, After
<1>3. /\ id[m] = last[QueueOf(m)] + 1 /\ QueueOf(m) \in Queue
      /\ last' = [last EXCEPT ![QueueOf(m)] = @ + 1]
      /\ pel' = [pel EXCEPT ![c] = @ \cup {m}]
  BY <1>1 DEF Deliver
<1>4. ~Delivered(m) /\ Delivered(m)' /\ \A n \in Msg : Delivered(n) => Delivered(n)'
  BY <1>2, <1>3 DEF IInv, TypeOK, Delivered
<1>5. /\ m \notin acked /\ m \notin stranded
      /\ \A d \in Consumer : m \notin pel[d] /\ held[d][m] = 0
  BY <1>4 DEF IInv, TypeOK, PelInv, HeldInv, StrandedInv
<1>6. /\ \A d \in Consumer : d # c => pel'[d] = pel[d] /\ held'[d] = held[d]
      /\ pel'[c] = pel[c] \cup {m}
      /\ \A n \in Msg : n # m => held'[c][n] = held[c][n]
      /\ \/ held'[c][m] = 1 /\ stranded' = stranded
         \/ held'[c][m] = 0 /\ stranded' = stranded \cup {m}
  <2>1. pel'[c] = pel[c] \cup {m} /\ \A d \in Consumer : d # c => pel'[d] = pel[d]
    BY <1>3 DEF IInv, TypeOK
  <2>2. held[c][m] = 0 /\ held[c] \in [Msg -> Nat] /\ held \in [Consumer -> [Msg -> Nat]]
    BY <1>5 DEF IInv, TypeOK
  <2>3. CASE held' = [held EXCEPT ![c][m] = @ + 1] /\ stranded' = stranded
    BY <2>1, <2>2, <2>3
  <2>4. CASE held' = held /\ stranded' = stranded \cup {m}
    BY <2>1, <2>2, <2>4
  <2>5. QED
    BY <1>1, <2>3, <2>4
<1>7. IdInv'
  BY <1>2, <1>3 DEF IInv, TypeOK, IdInv
<1>8. PelInv'
  <2>1. \A n \in acked' : Delivered(n)'
    BY <1>2, <1>4 DEF IInv, TypeOK, PelInv
  <2>2. ASSUME NEW d \in Consumer, NEW n \in pel'[d]
        PROVE  Delivered(n)' /\ n \notin acked' /\ \A e \in Consumer \ {d} : n \notin pel'[e]
    <3>1. CASE n = m
      BY <1>2, <1>4, <1>5, <1>6, <2>2, <3>1
    <3>2. CASE n # m
      BY <1>2, <1>4, <1>6, <2>2, <3>2 DEF IInv, TypeOK, PelInv
    <3>3. QED
      BY <3>1, <3>2
  <2>3. QED
    BY <2>1, <2>2 DEF PelInv
<1>9. HeldInv'
  <2>1. ASSUME NEW d \in Consumer, NEW n \in Msg, held'[d][n] > 0
        PROVE  up'[d] /\ held'[d][n] = 1 /\ n \in pel'[d]
    <3>1. CASE d = c /\ n = m
      BY <1>2, <1>6, <2>1, <3>1
    <3>2. CASE ~(d = c /\ n = m)
      <4>1. held'[d][n] = held[d][n] /\ pel[d] \subseteq pel'[d]
        BY <1>6, <3>2
      <4>2. QED
        BY <1>2, <2>1, <4>1 DEF IInv, HeldInv
    <3>3. QED
      BY <3>1, <3>2
  <2>2. QED
    BY <2>1 DEF HeldInv
<1>10. StrandedInv'
  BY <1>2, <1>6 DEF IInv, StrandedInv
<1>11. NothingForgotten'
  <2>1. ToVisit(c)' = {}
    BY <1>2 DEF ToVisit
  <2>2. ToVisit(c) = {}
    BY <1>2 DEF ToVisit
  <2>3. \A d \in Consumer : d # c => ToVisit(d)' = ToVisit(d)
    BY <1>2, <1>6 DEF ToVisit, Unread
  <2>4. ASSUME NEW d \in Consumer, NEW n \in pel'[d], up[d], n # m \/ d # c
        PROVE  n \in pel[d] /\ n # m /\ held'[d][n] = held[d][n] /\ (n \in stranded' <=> n \in stranded)
    BY <1>5, <1>6, <2>4 DEF IInv, TypeOK
  <2>5. QED
    BY <1>2, <1>5, <1>6, <2>1, <2>2, <2>3, <2>4 DEF IInv, NothingForgotten
<1>12. QED
  BY <1>7, <1>8, <1>9, <1>10, <1>11 DEF IInv

(* The end of an execution, with or without an acknowledgement.            *)
LEMMA EndIInv ==
  ASSUME IInv, TypeOK', NEW c \in Consumer, NEW m \in Msg, End(c, m)
  PROVE  IInv'
<1>1. held[c][m] > 0 /\ held' = [held EXCEPT ![c][m] = @ - 1]
  BY DEF End, Ack, LeaveUnacked, Release
<1>2. UNCHANGED <<id, top, last, up, pos, cursor>>
  BY DEF End, Ack, LeaveUnacked
<1>3. \/ /\ acked' = acked \cup {m} /\ stranded' = stranded
         /\ pel' = [d \in Consumer |-> pel[d] \ {m}]
      \/ acked' = acked /\ pel' = pel /\ stranded' = stranded \cup {m}
  BY DEF End, Ack, LeaveUnacked
<1>4. up[c] /\ held[c][m] = 1 /\ m \in pel[c]
  BY <1>1 DEF IInv, HeldInv
<1>5. /\ held'[c][m] = 0
      /\ \A d \in Consumer, n \in Msg : ~(d = c /\ n = m) => held'[d][n] = held[d][n]
  BY <1>1, <1>4 DEF IInv, TypeOK
<1>6. m \notin ToVisit(c) /\ m \notin stranded /\ Delivered(m)
  BY <1>4 DEF IInv, NothingForgotten, PelInv
<1>7. \A d \in Consumer : d # c => m \notin pel[d]
  BY <1>4 DEF IInv, PelInv
<1>8. /\ \A d \in Consumer : d # c => pel'[d] = pel[d]
      /\ pel'[c] = (IF acked' = acked THEN pel[c] ELSE pel[c] \ {m})
      /\ m \notin acked
  <2>1. m \notin acked
    BY <1>4 DEF IInv, PelInv
  <2>2. \A d \in Consumer : d # c => pel[d] \ {m} = pel[d]
    BY <1>7
  <2>3. QED
    BY <1>3, <2>1, <2>2
<1>9. \A n \in Msg : Delivered(n)' <=> Delivered(n)
  BY <1>2 DEF Delivered
<1>10. IdInv'
  BY <1>2 DEF IInv, IdInv
<1>11. PelInv'
  BY <1>3, <1>6, <1>8, <1>9 DEF IInv, TypeOK, PelInv
<1>12. HeldInv'
  BY <1>2, <1>5, <1>8 DEF IInv, HeldInv
<1>13. StrandedInv'
  <2>1. \A n \in stranded : n # m
    BY <1>6
  <2>2. QED
    BY <1>2, <1>3, <1>4, <1>8, <2>1 DEF IInv, StrandedInv
<1>14. NothingForgotten'
  <2>1. \A d \in Consumer : ToVisit(d)' = ToVisit(d) \cap pel'[d]
    BY <1>2, <1>3 DEF IInv, TypeOK, ToVisit, Unread
  <2>2. ASSUME NEW d \in Consumer, NEW n \in pel'[d], up'[d], ~(d = c /\ n = m)
        PROVE  /\ n \in Msg /\ n \in pel[d] /\ held'[d][n] = held[d][n]
               /\ (n \in stranded' <=> n \in stranded)
               /\ (n \in ToVisit(d)' <=> n \in ToVisit(d))
    BY <1>3, <1>5, <1>7, <1>8, <2>1, <2>2 DEF IInv, TypeOK
  <2>3. ASSUME m \in pel'[c]
        PROVE  held'[c][m] = 0 /\ m \notin ToVisit(c)' /\ m \in stranded'
    BY <1>3, <1>5, <1>6, <2>1, <2>3 DEF IInv, TypeOK
  <2>4. QED
    BY <1>2, <2>2, <2>3 DEF IInv, NothingForgotten
<1>15. QED
  BY <1>10, <1>11, <1>12, <1>13, <1>14 DEF IInv

(* A crash ends the executions of the process; its pending list waits for  *)
(* the next incarnation.                                                   *)
LEMMA CrashIInv ==
  ASSUME IInv, TypeOK', NEW c \in Consumer, Crash(c)
  PROVE  IInv'
<1>1. /\ up' = [up EXCEPT ![c] = FALSE]
      /\ held' = [held EXCEPT ![c] = [m \in Msg |-> 0]]
      /\ stranded' = stranded \ pel[c]
      /\ UNCHANGED <<id, top, last, pel, acked, pos, cursor>>
  BY DEF Crash
<1>2. /\ ~up'[c] /\ \A m \in Msg : held'[c][m] = 0
      /\ \A d \in Consumer : d # c => up'[d] = up[d] /\ held'[d] = held[d]
  BY <1>1 DEF IInv, TypeOK
<1>3. IdInv' /\ PelInv'
  BY <1>1 DEF IInv, IdInv, PelInv, Delivered
<1>4. HeldInv'
  BY <1>1, <1>2 DEF IInv, HeldInv
<1>5. StrandedInv'
  BY <1>1, <1>2 DEF IInv, StrandedInv
<1>6. \A d \in Consumer : ToVisit(d)' = ToVisit(d)
  BY <1>1 DEF ToVisit, Unread
<1>7. \A d \in Consumer : d # c => \A m \in pel[d] : m \notin pel[c]
  BY DEF IInv, PelInv
<1>8. NothingForgotten'
  BY <1>1, <1>2, <1>6, <1>7 DEF IInv, NothingForgotten
<1>9. QED
  BY <1>3, <1>4, <1>5, <1>8 DEF IInv

(* A restart has the whole pending list to visit.                          *)
LEMMA RestartIInv ==
  ASSUME IInv, TypeOK', NEW c \in Consumer, Restart(c)
  PROVE  IInv'
<1>1. /\ ~up[c] /\ up' = [up EXCEPT ![c] = TRUE]
      /\ pos' = [pos EXCEPT ![c] = "pel_high"] /\ cursor' = [cursor EXCEPT ![c] = 0]
      /\ UNCHANGED <<id, top, last, pel, acked, held, stranded>>
  BY DEF Restart
<1>2. /\ up'[c] /\ pos'[c] = "pel_high" /\ cursor'[c] = 0
      /\ \A d \in Consumer : d # c => /\ up'[d] = up[d] /\ pos'[d] = pos[d]
                                      /\ cursor'[d] = cursor[d]
  BY <1>1 DEF IInv, TypeOK
<1>3. IdInv' /\ PelInv' /\ HeldInv'
  BY <1>1, <1>2 DEF IInv, IdInv, PelInv, HeldInv, Delivered
<1>4. StrandedInv'
  BY <1>1, <1>2 DEF IInv, StrandedInv
<1>5. ToVisit(c)' = pel[c]
  <2>1. \A m \in pel[c] : id[m] > 0 /\ (QueueOf(m) = "high" \/ QueueOf(m) = "low")
    BY DEF IInv, PelInv, Delivered
  <2>2. QED
    BY <1>1, <1>2, <2>1 DEF ToVisit, Unread, ReadQueue
<1>6. \A d \in Consumer : d # c => ToVisit(d)' = ToVisit(d)
  BY <1>1, <1>2 DEF ToVisit, Unread
<1>7. \A m \in pel[c] : held[c][m] = 0 /\ m \notin stranded
  <2>1. \A m \in pel[c] : m \notin stranded
    BY <1>1 DEF IInv, PelInv, StrandedInv
  <2>2. \A m \in pel[c] : held[c][m] = 0
    BY <1>1 DEF IInv, TypeOK, HeldInv
  <2>3. QED
    BY <2>1, <2>2
<1>8. NothingForgotten'
  BY <1>1, <1>2, <1>5, <1>6, <1>7 DEF IInv, NothingForgotten
<1>9. QED
  BY <1>3, <1>4, <1>8 DEF IInv

(* The invariant is inductive.                                             *)
THEOREM StreamInvariant == Spec => []IInv
<1>1. Init => TypeOK
  BY DEF Init, TypeOK
<1>2. IInv /\ [Next]_vars => IInv'
  <2> SUFFICES ASSUME IInv, [Next]_vars PROVE IInv'
    OBVIOUS
  <2>1. TypeOK'
    BY StepTypeOK DEF IInv
  <2>2. CASE UNCHANGED vars
    BY <2>2 DEF vars, IInv, TypeOK, IdInv, PelInv, HeldInv, StrandedInv,
                NothingForgotten, Delivered, ToVisit, Unread
  <2>3. QED
    BY <2>1, <2>2, AddIInv, ReadPendingIInv, MoveOnIInv, IteratorBreaksIInv, DeliverIInv,
       EndIInv, CrashIInv, RestartIInv DEF Next, Collect
<1>3. QED
  BY <1>2, InitIInv, PTL DEF Spec

(* No message is executed twice at the same time, and none after its       *)
(* acknowledgement.                                                        *)
THEOREM OneExecutionAtATime == Spec => []OneExecution
<1>1. IInv => OneExecution
  BY DEF IInv, TypeOK, PelInv, HeldInv, OneExecution
<1>2. QED
  BY <1>1, StreamInvariant, PTL

(* Every delivered message is in the hands of an execution, of the         *)
(* iterator, of the next incarnation of its process, or of a named fault.  *)
THEOREM NoMessageForgotten == Spec => []NothingForgotten
<1>1. IInv => NothingForgotten
  BY DEF IInv
<1>2. QED
  BY <1>1, StreamInvariant, PTL

-----------------------------------------------------------------------------
(* How the steps change the status of a message.                           *)
LEMMA StatusOf ==
  ASSUME IInv, NEW m \in Msg
  PROVE  /\ Status[m] \in {"absent", "waiting", "running", "done"}
         /\ Status[m] = "running" <=> \E c \in Consumer : held[c][m] > 0
         /\ Status[m] = "done" <=> m \in acked
         /\ Status[m] = "absent" <=> id[m] = 0
BY DEF IInv, TypeOK, HeldInv, PelInv, Delivered, Status

(* Every step of the streams is one of the delivery promised, or none.     *)
LEMMA StepImplements ==
  ASSUME IInv, IInv', [Next]_vars
  PROVE  [Delivery!Next]_Status
<1> USE DEF Delivery!Move, Delivery!Send, Delivery!Take, Delivery!Finish, Delivery!Return
<1>t. Status = [m \in Msg |-> Status[m]] /\ Status' = [m \in Msg |-> Status'[m]]
  BY DEF Status
<1>1. ASSUME NEW m \in Msg, Add(m) PROVE Delivery!Send(m)
  <2>1. /\ UNCHANGED <<acked, held>> /\ id[m] = 0 /\ id'[m] > 0
        /\ \A n \in Msg : n # m => id'[n] = id[n]
    BY <1>1, LabelTypes DEF Add, IInv, TypeOK
  <2>2. Status[m] = "absent" /\ Status'[m] = "waiting"
    BY <2>1, StatusOf DEF Status
  <2>3. \A n \in Msg : n # m => Status'[n] = Status[n]
    BY <2>1 DEF Status
  <2>4. QED
    BY <1>t, <2>2, <2>3
<1>2. ASSUME NEW c \in Consumer, NEW m \in Msg, Hold(c, m), held[c][m] = 0,
             Status[m] = "waiting", UNCHANGED <<id, acked>>
      PROVE  Delivery!Take(m)
  <2>1. /\ held'[c][m] = 1
        /\ \A d \in Consumer, n \in Msg : n # m => held'[d][n] = held[d][n]
    BY <1>2 DEF Hold, IInv, TypeOK
  <2>2. Status'[m] = "running"
    BY <2>1 DEF Status
  <2>3. \A n \in Msg : n # m => Status'[n] = Status[n]
    BY <1>2, <2>1 DEF Status
  <2>4. QED
    BY <1>t, <1>2, <2>2, <2>3
<1>3. ASSUME NEW c \in Consumer, ReadPending(c) PROVE \E m \in Msg : Delivery!Take(m)
  <2>1. PICK m \in Unread(c) : Hold(c, m) /\ UNCHANGED <<id, acked>>
    BY <1>3 DEF ReadPending
  <2>2. m \in Msg /\ m \in pel[c] /\ m \in ToVisit(c) /\ up[c]
    BY <1>3, <2>1 DEF ReadPending, Unread, ToVisit, IInv, TypeOK
  <2>3. held[c][m] = 0
    BY <2>2 DEF IInv, NothingForgotten
  <2>4. \A d \in Consumer : ~(held[d][m] > 0)
    BY <2>2, <2>3 DEF IInv, TypeOK, HeldInv, PelInv
  <2>5. Status[m] = "waiting"
    BY <2>2, <2>4 DEF Status, IInv, PelInv, Delivered
  <2>6. QED
    BY <1>2, <2>1, <2>2, <2>3, <2>5
<1>4. ASSUME NEW c \in Consumer, ReadNew(c) PROVE \E m \in Msg : Delivery!Take(m)
  <2>1. PICK m \in Msg : Hold(c, m) /\ Deliver(c, m)
    BY <1>4 DEF ReadNew
  <2>2. ~Delivered(m) /\ id[m] > 0 /\ UNCHANGED <<id, acked>>
    BY <2>1, LabelTypes DEF Deliver, Delivered, IInv, TypeOK
  <2>3. \A d \in Consumer : held[d][m] = 0
    BY <2>2 DEF IInv, TypeOK, HeldInv, PelInv
  <2>4. Status[m] = "waiting"
    BY <2>2, <2>3 DEF Status, IInv, PelInv
  <2>5. QED
    BY <1>2, <2>1, <2>2, <2>3, <2>4
<1>5. ASSUME NEW c \in Consumer, NEW m \in Msg, End(c, m)
      PROVE  Delivery!Finish(m) \/ Delivery!Return({m})
  <2>1. held[c][m] = 1 /\ \A d \in Consumer : d # c => held[d][m] = 0
    BY <1>5 DEF End, Ack, LeaveUnacked, Release, IInv, TypeOK, HeldInv, PelInv
  <2>2. held' = [held EXCEPT ![c][m] = @ - 1] /\ UNCHANGED id
        /\ acked' \in {acked, acked \cup {m}}
    BY <1>5 DEF End, Ack, LeaveUnacked, Release
  <2>3. /\ \A d \in Consumer : held'[d][m] = 0
        /\ \A d \in Consumer, n \in Msg : n # m => held'[d][n] = held[d][n]
    BY <2>1, <2>2 DEF IInv, TypeOK
  <2>4. Status[m] = "running" /\ id[m] > 0
    BY <2>1 DEF Status, IInv, HeldInv, PelInv, Delivered
  <2>5. Status'[m] \in {"waiting", "done"}
    BY <2>2, <2>3, <2>4 DEF Status
  <2>6. \A n \in Msg : n # m => Status'[n] = Status[n]
    BY <2>2, <2>3 DEF Status
  <2>7. QED
    BY <1>t, <2>4, <2>5, <2>6
<1>6. ASSUME NEW c \in Consumer, Crash(c)
      PROVE  Delivery!Return({m \in Msg : held[c][m] > 0})
  <2>1. /\ \A m \in Msg : held'[c][m] = 0
        /\ \A d \in Consumer : d # c => held'[d] = held[d]
        /\ UNCHANGED <<id, acked>>
    BY <1>6 DEF Crash, IInv, TypeOK
  <2>2. ASSUME NEW m \in Msg, held[c][m] > 0
        PROVE  Status[m] = "running" /\ Status'[m] = "waiting"
    <3>1. m \notin acked /\ id[m] > 0 /\ \A d \in Consumer : d # c => ~(held[d][m] > 0)
      BY <2>2 DEF IInv, TypeOK, HeldInv, PelInv, Delivered
    <3>2. QED
      BY <2>1, <2>2, <3>1 DEF Status
  <2>3. ASSUME NEW m \in Msg, ~(held[c][m] > 0)
        PROVE  Status'[m] = Status[m]
    BY <2>1, <2>3 DEF Status
  <2>4. QED
    BY <1>t, <2>2, <2>3
<1>7. ASSUME UNCHANGED <<id, acked, held>> PROVE Status' = Status
  BY <1>7 DEF Status
<1>8. ASSUME NEW c \in Consumer,
             PendingDone(c) \/ ReadNothing(c) \/ IteratorBreaks(c) \/ ReplyLost(c) \/ Restart(c)
      PROVE  Status' = Status
  BY <1>7, <1>8 DEF PendingDone, ReadNothing, IteratorBreaks, ReplyLost, Deliver, Restart
<1>9. CASE UNCHANGED vars
  BY <1>7, <1>9 DEF vars
<1>10. CASE Next
  <2>1. CASE \E m \in Msg : Add(m)
    BY <1>1, <2>1 DEF Delivery!Next
  <2>2. ASSUME NEW c \in Consumer,
               \/ Collect(c) \/ IteratorBreaks(c) \/ ReplyLost(c)
               \/ \E m \in Msg : End(c, m)
               \/ Crash(c) \/ Restart(c)
        PROVE  [Delivery!Next]_Status
    <3>1. CASE Crash(c)
      <4>1. {m \in Msg : held[c][m] > 0} \in SUBSET Msg
        OBVIOUS
      <4>2. QED
        BY <1>6, <3>1, <4>1 DEF Delivery!Next
    <3>2. CASE \E m \in Msg : End(c, m)
      <4>1. \A m \in Msg : {m} \in SUBSET Msg
        OBVIOUS
      <4>2. QED
        BY <1>5, <3>2, <4>1 DEF Delivery!Next
    <3>3. CASE ReadPending(c) \/ ReadNew(c)
      BY <1>3, <1>4, <3>3 DEF Delivery!Next
    <3>4. QED
      BY <1>8, <2>2, <3>1, <3>2, <3>3 DEF Collect
  <2>3. QED
    BY <1>10, <2>1, <2>2 DEF Next
<1>11. QED
  BY <1>9, <1>10

(* The streams, the consumer group and the executors' reading of them      *)
(* implement the delivery that the rest of the system relies on.           *)
THEOREM StreamImplementsDelivery == Spec => DeliverySpec
<1>1. Init => Delivery!Init
  BY DEF Init, Delivery!Init, Status
<1>2. IInv /\ IInv' /\ [Next]_vars => [Delivery!Next]_Status
  BY StepImplements
<1>3. QED
  BY <1>1, <1>2, StreamInvariant, PTL DEF Spec, DeliverySpec, Delivery!Spec
=============================================================================
