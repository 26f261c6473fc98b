---------------------------- MODULE IdGenerator -----------------------------
(***************************************************************************)
(* RedisDB.generate_auto_increment_id, the source of the message ids of    *)
(* the memory service, as its callers use it: with the default increment   *)
(* and no minimum (the branch of ensure_minimum has no caller).  The first *)
(* caller resets the counter in a second command, so that ids start at 2.  *)
(*                                                                         *)
(* The only namespace in use is seeded by each server that starts and      *)
(* finds no counter: with the highest id in the message store, and through *)
(* RedisDB.set, so the key lives an hour, and INCRBY does not prolong it.  *)
(* When it is gone, the next caller is a first one again.                  *)
(***************************************************************************)
EXTENDS Integers

CONSTANTS
  Call,      \* calls of the function, by API servers and executors
  Starter,   \* API servers that may start, any number of times
  Increment, \* the increment (1 in the code)
  MaxFaults  \* bound on Redis errors

ASSUME IdAssumption == Increment \in Nat \ {0} /\ MaxFaults \in Nat

VARIABLES
  counter,   \* the value of id_generator:<namespace>, 0 if there is no key
  ttl,       \* its time to live, or 0
  at,        \* what each call does next
  id,        \* what it returned
  saved,     \* calls whose message is in the message store
  seeding,   \* what init_message_id_sequence does next in each server
  seed,      \* the max_id it has read
  faults,
  settled    \* history: calls under the promise of UniqueOnceSettled

idVars == <<counter, ttl, at, id, saved, seeding, seed, faults, settled>>

Hour == 3600 \* exp of RedisDB.set
NoId == -1   \* what a call returns after a Redis error, or has before

IdInit ==
  /\ counter = 0 /\ ttl = 0
  /\ at = [c \in Call |-> "start"] /\ id = [c \in Call |-> NoId]
  /\ saved = {} /\ settled = {}
  /\ seeding = [s \in Starter |-> "idle"] /\ seed = [s \in Starter |-> 1]
  /\ faults = 0

CallGo(c, from, to) == at[c] = from /\ at' = [at EXCEPT ![c] = to]
SeedGo(s, from, to) == seeding[s] = from /\ seeding' = [seeding EXCEPT ![s] = to]
Return(c, n) == id' = [id EXCEPT ![c] = n]
Found(s, n) == seed' = [seed EXCEPT ![s] = n]

IdFault == faults < MaxFaults /\ faults' = faults + 1

(* The key is there, and neither a first caller nor a server that starts   *)
(* is going to set it.                                                     *)
Quiet ==
  /\ counter # 0
  /\ \A d \in Call : at[d] # "reset"
  /\ \A s \in Starter : seeding[s] = "idle"

(* The call begins.                                                        *)
Begin(c) ==
  /\ CallGo(c, "start", "incr")
  /\ settled' = IF Quiet THEN settled \cup {c} ELSE settled
  /\ UNCHANGED <<counter, ttl, id, saved, seeding, seed, faults>>

(* INCRBY creates a key without time to live, and leaves that of an        *)
(* existing one alone.  With a new key the ids start over, and the promise *)
(* to earlier calls is over.                                               *)
IncrBy ==
  /\ counter' = counter + Increment
  /\ ttl' = ttl
  /\ settled' = IF counter = 0 THEN {} ELSE settled

(* A call that gets the increment itself takes itself for the first one.   *)
Incr(c) ==
  /\ IncrBy
  /\ IF counter' = Increment
     THEN CallGo(c, "incr", "reset") /\ UNCHANGED id
     ELSE CallGo(c, "incr", "done") /\ Return(c, counter')
  /\ UNCHANGED <<saved, seeding, seed, faults>>

(* SET key 1 + increment, without time to live.                            *)
Reset(c) ==
  /\ CallGo(c, "reset", "done")
  /\ counter' = 1 + Increment /\ ttl' = 0
  /\ Return(c, 1 + Increment)
  /\ UNCHANGED <<saved, seeding, seed, faults, settled>>

(* A Redis error, with or without the command having taken effect.         *)
Fail(c) ==
  /\ IdFault
  /\ \/ CallGo(c, "incr", "done") /\ (IncrBy \/ UNCHANGED <<counter, ttl, settled>>)
     \/ /\ CallGo(c, "reset", "done") /\ UNCHANGED settled
        /\ (counter' = 1 + Increment /\ ttl' = 0) \/ UNCHANGED <<counter, ttl>>
  /\ UNCHANGED <<id, saved, seeding, seed>>

-----------------------------------------------------------------------------
(* embed_and_save stores the message that got its id, long after.          *)
Save(c) ==
  /\ id[c] # NoId /\ saved' = saved \cup {c}
  /\ UNCHANGED <<counter, ttl, at, id, seeding, seed, faults, settled>>

(* A message is deleted: by first in, first out, or with its memory.       *)
Delete(c) ==
  /\ c \in saved /\ saved' = saved \ {c}
  /\ settled' = settled \ {c}
  /\ UNCHANGED <<counter, ttl, at, id, seeding, seed, faults>>

(* The hour is over.                                                       *)
KeyExpires ==
  /\ ttl = Hour /\ counter # 0
  /\ counter' = 0 /\ ttl' = 0
  /\ UNCHANGED <<at, id, saved, seeding, seed, faults, settled>>

-----------------------------------------------------------------------------
(* init_message_id_sequence: there is no counter, or EXISTS failed, which  *)
(* the code cannot tell apart.                                             *)
SeedCheck(s) ==
  /\ (counter = 0 /\ UNCHANGED faults) \/ IdFault
  /\ SeedGo(s, "idle", "read")
  /\ UNCHANGED <<counter, ttl, at, id, saved, seed, settled>>

(* Mutation of SeedRead: the sequence starts over as for no memory.        *)
SeedReadOne(s) ==
  /\ SeedGo(s, "read", "set")
  /\ Found(s, 1)
  /\ settled' = settled \cap saved
  /\ UNCHANGED <<counter, ttl, at, id, saved, faults>>

(* get_max_message_id, or 1.                                               *)
Highest == {n \in {1} \cup {id[c] : c \in saved} : \A c \in saved : id[c] <= n}

(* max_id is read.  An id that is not stored yet is not respected, so the  *)
(* promise to its call is over.                                            *)
SeedRead(s) ==
  /\ SeedGo(s, "read", "set")
  /\ \E n \in Highest : Found(s, n)
  /\ settled' = settled \cap saved
  /\ UNCHANGED <<counter, ttl, at, id, saved, faults>>

(* SET, with the default time to live.                                     *)
SeedSet(s) ==
  /\ SeedGo(s, "set", "idle")
  /\ counter' = seed[s] /\ ttl' = Hour
  /\ UNCHANGED <<at, id, saved, seed, faults, settled>>

(* The store cannot be read, SET fails, which RedisDB.set swallows, or the *)
(* server dies.                                                            *)
SeedFails(s) ==
  /\ SeedGo(s, "read", "idle") \/ SeedGo(s, "set", "idle")
  /\ UNCHANGED <<counter, ttl, at, id, saved, seed, faults, settled>>

IdNext ==
  \/ \E c \in Call : Begin(c) \/ Incr(c) \/ Reset(c) \/ Fail(c) \/ Save(c) \/ Delete(c)
  \/ \E s \in Starter : SeedCheck(s) \/ SeedRead(s) \/ SeedSet(s) \/ SeedFails(s)
  \/ KeyExpires

IdSpec == IdInit /\ [][IdNext]_idVars
-----------------------------------------------------------------------------
IdTypeOK ==
  /\ counter \in Nat /\ ttl \in {0, Hour}
  /\ at \in [Call -> {"start", "incr", "reset", "done"}] /\ id \in [Call -> (Nat \ {0}) \cup {NoId}]
  /\ saved \subseteq Call /\ settled \subseteq Call
  /\ seeding \in [Starter -> {"idle", "read", "set"}] /\ seed \in [Starter -> Nat \ {0}]
  /\ faults \in 0..MaxFaults

Distinct(S) == \A c, d \in S : id[c] = id[d] /\ id[c] # NoId => c = d

(* The ids of the messages are distinct, over first calls, expired keys,   *)
(* errors and restarts of servers, for every call that began when the key  *)
(* was there and nobody was about to set it, until its message is deleted, *)
(* with two exceptions the code does not avoid: a key that is missing when *)
(* a call increments makes the ids start over, and a server that seeds the *)
(* key respects only the ids that are stored when it reads the highest.    *)
UniqueOnceSettled == Distinct(settled)

(* The inductive invariant behind UniqueOnceSettled: a counter that is     *)
(* there is at least every settled id; a server that is about to set it    *)
(* has read a number that is so too, and every settled id is stored; and   *)
(* no first caller is about to reset it.                                   *)
SettledInv ==
  /\ counter # 0 => \A c \in settled : id[c] <= counter
  /\ \A s \in Starter : seeding[s] = "set" => \A c \in settled : c \in saved /\ id[c] <= seed[s]
  /\ settled # {} => \A c \in Call : at[c] # "reset"
  /\ \A c \in Call : id[c] # NoId => at[c] = "done"
  /\ \A c \in saved : id[c] # NoId

IdInv == IdTypeOK /\ SettledInv /\ UniqueOnceSettled
=============================================================================
