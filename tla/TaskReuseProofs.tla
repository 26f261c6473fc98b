--------------------------- MODULE TaskReuseProofs ---------------------------
(***************************************************************************)
(* The rows of a document hold every chosen page exactly once, a finished  *)
(* row names the chunks of its pages, the store holds nothing that no row  *)
(* or request accounts for, and a document all of whose rows are finished  *)
(* has all its chunks in the store, for any configurations, numbers of     *)
(* pages, requests and faults.                                             *)
(***************************************************************************)
EXTENDS TaskReuse, TLAPS

LEMMA Multiple ==
  ASSUME NEW k \in Int, NEW d \in Nat \ {0}
  PROVE  (k * d) % d = 0
  OBVIOUS

LEMMA Apart ==
  ASSUME NEW k \in Int, NEW j \in Int, NEW d \in Nat \ {0}, k * d < j * d
  PROVE  k * d + d <= j * d
  OBVIOUS

LEMMA Division ==
  ASSUME NEW n \in Int, NEW d \in Nat \ {0}
  PROVE  \E k \in Int, r \in 0 .. d - 1 : n = k * d + r /\ r = n % d
<1>1. n \div d \in Int /\ n % d \in 0 .. d - 1
  OBVIOUS
<1>2. n = d * (n \div d) + (n % d)
  OBVIOUS
<1>3. d * (n \div d) = (n \div d) * d
  BY <1>1
<1> QED
  BY <1>1, <1>2, <1>3

(* There is a multiple of d at n or less than d below it.                  *)
LEMMA MultipleBelow ==
  ASSUME NEW n \in Nat, NEW d \in Nat \ {0}
  PROVE  \E m \in 0 .. n : m % d = 0 /\ n < m + d
<1>0. n \in Int
  OBVIOUS
<1>1. PICK k \in Int, r \in 0 .. d - 1 : n = k * d + r /\ r = n % d
  BY <1>0, Division
<1>2. (k * d) % d = 0
  BY Multiple
<1>3. k * d \in 0 .. n /\ n < k * d + d
  BY <1>1
<1> QED
  BY <1>2, <1>3

(* Two multiples of d are at least d apart.                                *)
LEMMA MultiplesApart ==
  ASSUME NEW n \in Int, NEW m \in Int, NEW d \in Nat \ {0}, n % d = 0, m % d = 0, n < m
  PROVE  n + d <= m
<1>1. PICK k \in Int, r \in 0 .. d - 1 : n = k * d + r /\ r = n % d
  BY Division
<1>2. PICK j \in Int, r2 \in 0 .. d - 1 : m = j * d + r2 /\ r2 = m % d
  BY Division
<1>3. n = k * d /\ m = j * d
  BY <1>1, <1>2
<1>4. k * d + d <= j * d
  BY <1>3, Apart
<1> QED
  BY <1>3, <1>4

(* What the cut of [s, e) holds.                                           *)
LEMMA CutHolds ==
  ASSUME NEW s \in Nat, NEW e \in Int, NEW size \in Nat \ {0}, NEW q \in Int, s <= q, q < e
  PROVE  \E t \in Cut(s, e, size) : Holds(t, q)
<1>0. q - s \in Nat
  OBVIOUS
<1>1. PICK m \in 0 .. q - s : m % size = 0 /\ q - s < m + size
  BY <1>0, MultipleBelow
<1> DEFINE p == s + m
           t == [from_page |-> p, to_page |-> IF p + size < e THEN p + size ELSE e]
<1>2. p \in Steps(s, e, size)
  <2>1. p \in s .. e - 1 /\ p - s = m
    BY <1>1
  <2> QED
    BY <1>1, <2>1 DEF Steps
<1>3. t \in Cut(s, e, size)
  BY <1>2 DEF Cut
<1>4. Holds(t, q)
  BY <1>1 DEF Holds
<1> QED
  BY <1>3, <1>4

LEMMA CutWithin ==
  ASSUME NEW s \in Nat, NEW e \in Int, NEW size \in Nat \ {0}, NEW t \in Cut(s, e, size)
  PROVE  /\ t.from_page \in s .. e - 1 /\ t.to_page \in Int
         /\ t.from_page < t.to_page /\ t.to_page <= t.from_page + size /\ t.to_page <= e
  BY DEF Cut, Steps

LEMMA CutApart ==
  ASSUME NEW s \in Nat, NEW e \in Int, NEW size \in Nat \ {0}, NEW q \in Int,
         NEW t \in Cut(s, e, size), NEW u \in Cut(s, e, size), Holds(t, q), Holds(u, q)
  PROVE  t = u
<1>1. PICK p \in Steps(s, e, size) :
        t = [from_page |-> p, to_page |-> IF p + size < e THEN p + size ELSE e]
  BY DEF Cut
<1>2. PICK o \in Steps(s, e, size) :
        u = [from_page |-> o, to_page |-> IF o + size < e THEN o + size ELSE e]
  BY DEF Cut
<1>3. /\ p \in Int /\ (p - s) % size = 0 /\ p <= q /\ q < p + size
      /\ o \in Int /\ (o - s) % size = 0 /\ o <= q /\ q < o + size
  BY <1>1, <1>2 DEF Steps, Holds
<1>4. ~ (p < o)
  <2> SUFFICES ASSUME p - s < o - s PROVE FALSE
    BY <1>3
  <2>1. p - s \in Int /\ o - s \in Int
    BY <1>3
  <2>2. p - s + size <= o - s
    BY <1>3, <2>1, MultiplesApart
  <2> QED
    BY <2>2, <1>3
<1>5. ~ (o < p)
  <2> SUFFICES ASSUME o - s < p - s PROVE FALSE
    BY <1>3
  <2>1. o - s \in Int /\ p - s \in Int
    BY <1>3
  <2>2. o - s + size <= p - s
    BY <1>3, <2>1, MultiplesApart
  <2> QED
    BY <2>2, <1>3
<1> QED
  BY <1>1, <1>2, <1>3, <1>4, <1>5

(* The cut of [s, e) holds each of its numbers exactly once.               *)
LEMMA CutExact ==
  ASSUME NEW s \in Nat, NEW e \in Int, NEW size \in Nat \ {0}, NEW Q \in SUBSET Int
  PROVE  Exactly(Cut(s, e, size), Q, s .. e - 1, size)
<1>1. ASSUME NEW q \in Q \cap (s .. e - 1)
      PROVE  \E t \in Cut(s, e, size) : Holds(t, q)
  <2>1. q \in Int /\ s <= q /\ q < e
    OBVIOUS
  <2> QED
    BY <2>1, CutHolds
<1>2. ASSUME NEW q \in Q \ (s .. e - 1), NEW t \in Cut(s, e, size), Holds(t, q)
      PROVE  FALSE
  <2>1. q \in Int
    OBVIOUS
  <2>2. t.from_page \in s .. e - 1 /\ t.to_page \in Int /\ t.to_page <= e
    BY CutWithin
  <2> QED
    BY <1>2, <2>1, <2>2 DEF Holds
<1>3. \A q \in Q : \A t, u \in Cut(s, e, size) : Holds(t, q) /\ Holds(u, q) => t = u
  BY CutApart
<1>4. \A t \in Cut(s, e, size) : t.from_page < t.to_page /\ t.to_page <= t.from_page + size
  BY CutWithin
<1> QED
  BY <1>1, <1>2, <1>3, <1>4 DEF Exactly

(* Every row of a table is in exactly one task.                            *)
THEOREM EveryRowOnce ==
  ASSUME NEW n \in Nat
  PROVE  Exactly(TableTasks(n), Nat, 0 .. n - 1, RowsPerTask)
<1>1. RowsPerTask \in Nat \ {0} /\ 0 \in Nat /\ n \in Int /\ Nat \in SUBSET Int
  BY DEF RowsPerTask
<1> QED
  BY <1>1, CutExact DEF TableTasks

-----------------------------------------------------------------------------
(* In the cut of a range the first page determines the task.               *)
LEMMA CutByFrom ==
  ASSUME NEW s \in Nat, NEW e \in Int, NEW size \in Nat \ {0},
         NEW t \in Cut(s, e, size), NEW u \in Cut(s, e, size), t.from_page = u.from_page
  PROVE  t = u
  BY DEF Cut

(* The bounds of a chosen range, and what it holds.                        *)
LEMMA RangeTypes ==
  ASSUME NEW c \in Config, NEW i \in DOMAIN RangesOf[c]
  PROVE  /\ i \in Nat /\ SizeOf[c] \in Nat \ {0}
         /\ FromPage(RangesOf[c][i].first) \in Nat
         /\ ToPage(RangesOf[c][i].last, Pages) \in Int
         /\ ToPage(RangesOf[c][i].last, Pages) <= Pages
  BY ConfigAssumption DEF FromPage, ToPage

LEMMA ChosenRange ==
  ASSUME NEW c \in Config, NEW i \in DOMAIN RangesOf[c]
  PROVE  Chosen(RangesOf[c][i])
           = FromPage(RangesOf[c][i].first) .. ToPage(RangesOf[c][i].last, Pages) - 1
  BY ConfigAssumption DEF Chosen, FromPage, ToPage

(* queue_tasks puts every chosen page into exactly one task of its range.  *)
THEOREM EveryPageOnce ==
  ASSUME NEW c \in Config, NEW i \in DOMAIN RangesOf[c], NEW Q \in SUBSET Int
  PROVE  Exactly(TasksOf(c, i), Q, Chosen(RangesOf[c][i]), SizeOf[c])
<1> DEFINE s == FromPage(RangesOf[c][i].first)
           e == ToPage(RangesOf[c][i].last, Pages)
<1>1. s \in Nat /\ e \in Int /\ SizeOf[c] \in Nat \ {0}
  BY RangeTypes
<1>2. TasksOf(c, i) = Cut(s, e, SizeOf[c]) /\ Chosen(RangesOf[c][i]) = s .. e - 1
  BY ChosenRange DEF TasksOf, PdfTasks
<1> HIDE DEF s, e
<1> QED
  BY <1>1, <1>2, CutExact

(* The key of a row and its end are those of a task of its range.          *)
LEMMA KeyTask ==
  ASSUME NEW c \in Config, NEW k \in KeysOf(c)
  PROVE  /\ k.range \in DOMAIN RangesOf[c] /\ k \in [range : Nat, from : Nat]
         /\ k.from \in 0 .. Pages - 1 /\ ToPageOf(c, k) \in 0 .. Pages
         /\ [from_page |-> k.from, to_page |-> ToPageOf(c, k)] \in TasksOf(c, k.range)
<1>1. PICK i \in DOMAIN RangesOf[c] : \E t \in TasksOf(c, i) : k = [range |-> i, from |-> t.from_page]
  BY DEF KeysOf
<1>2. PICK t \in TasksOf(c, i) : k = [range |-> i, from |-> t.from_page]
  BY <1>1
<1> DEFINE s == FromPage(RangesOf[c][i].first)
           e == ToPage(RangesOf[c][i].last, Pages)
<1>3. s \in Nat /\ e \in Int /\ e <= Pages /\ SizeOf[c] \in Nat \ {0} /\ i \in Nat
  BY RangeTypes
<1>4. TasksOf(c, i) = Cut(s, e, SizeOf[c])
  BY DEF TasksOf, PdfTasks
<1> HIDE DEF s, e
<1>5. t.from_page \in s .. e - 1 /\ t.to_page \in Int /\ t.from_page < t.to_page /\ t.to_page <= e
  BY <1>3, <1>4, CutWithin
<1>6. t = [from_page |-> t.from_page, to_page |-> t.to_page]
  BY <1>4 DEF Cut
<1>7. k.range = i /\ k.from = t.from_page
  BY <1>2
<1>8. \A u \in TasksOf(c, i) : u.from_page = k.from => u = t
  BY <1>3, <1>4, <1>7, CutByFrom
<1>9. ToPageOf(c, k) = t.to_page
  BY <1>7, <1>8 DEF ToPageOf
<1> QED
  BY <1>2, <1>3, <1>5, <1>6, <1>7, <1>9, ConfigAssumption

-----------------------------------------------------------------------------
(* A change of one row that leaves its place and what it parses alone.     *)
LEMMA RowEdit ==
  ASSUME TypeOK, NEW k \in DOMAIN rows, NEW r \in Row, rows' = [rows EXCEPT ![k] = r]
  PROVE  /\ DOMAIN rows' = DOMAIN rows /\ rows' \in [DOMAIN rows' -> Row] /\ rows'[k] = r
         /\ \A l \in DOMAIN rows : l # k => rows'[l] = rows[l]
  BY DEF TypeOK

LEMMA InitIInv == Init => IInv
<1> SUFFICES ASSUME Init PROVE IInv
  OBVIOUS
<1>1. DOMAIN rows = {} /\ rows \in [DOMAIN rows -> Row]
  BY DEF Init
<1>2. TypeOK
  BY <1>1 DEF Init, TypeOK
<1>3. RowShape /\ UsesDigest /\ DoneIsRight
  BY <1>1 DEF RowShape, UsesDigest, DoneIsRight
<1> QED
  BY <1>2, <1>3 DEF IInv

(* What Queue makes of the rows.                                           *)
LEMMA QueueRows ==
  ASSUME IInv, NEW c \in Config, Queue(c)
  PROVE  /\ DOMAIN rows' = KeysOf(c) /\ cutBy' = c
         /\ \A k \in KeysOf(c) :
              /\ rows'[k] \in Row /\ rows'[k].to = ToPageOf(c, k)
              /\ rows'[k].digest = config
              /\ \/ rows'[k].state = "queued" /\ rows'[k].chunk_ids = {} /\ rows'[k].uses = config
                 \/ /\ rows'[k].state = "done" /\ (stale => stale')
                    /\ \E p \in DOMAIN rows :
                         /\ rows[p].state = "done" /\ p.from = k.from
                         /\ rows[p].to = rows'[k].to /\ rows[p].digest = config
                         /\ rows'[k].chunk_ids = rows[p].chunk_ids
                         /\ rows'[k].uses = rows[p].uses
<1> DEFINE new == [k \in KeysOf(c) |-> NewRow(c, k)]
           taken == Reuse(rows, new)
           From(k) == {p \in DOMAIN rows : <<p, k>> \in taken}
<1>1. rows' = [k \in KeysOf(c) |->
                 IF From(k) = {} THEN new[k]
                 ELSE [new[k] EXCEPT !.state = "done",
                                     !.chunk_ids = rows[CHOOSE p \in From(k) : TRUE].chunk_ids,
                                     !.uses = rows[CHOOSE p \in From(k) : TRUE].uses]]
  BY DEF Queue
<1>2. stale' = (c # config \/ (stale /\ taken # {})) /\ cutBy' = c
  BY DEF Queue
<1>3. ASSUME NEW k \in KeysOf(c)
      PROVE  /\ new[k] \in Row /\ new[k].to = ToPageOf(c, k) /\ new[k].digest = config
             /\ new[k].state = "queued" /\ new[k].chunk_ids = {} /\ new[k].uses = config
  BY KeyTask DEF NewRow, Row, IInv, TypeOK
<1>4. ASSUME NEW k \in KeysOf(c), NEW p \in From(k)
      PROVE  /\ p \in DOMAIN rows /\ rows[p].state = "done" /\ p.from = k.from
             /\ rows[p].to = new[k].to /\ rows[p].digest = new[k].digest /\ rows[p] \in Row
             /\ taken # {}
  <2>1. p \in DOMAIN rows /\ <<p, k>> \in taken
    BY <1>4
  <2>2. rows[p].state = "done" /\ Fits(rows, new, p, k)
    BY <2>1 DEF Reuse
  <2> HIDE DEF taken, new
  <2> QED
    BY <2>1, <2>2 DEF Fits, Same, IInv, TypeOK
<1> HIDE DEF new, taken
<1>5. ASSUME NEW k \in KeysOf(c), From(k) = {}
      PROVE  rows'[k] = new[k]
  BY <1>1, <1>5
<1>6. ASSUME NEW k \in KeysOf(c), From(k) # {}
      PROVE  \E p \in From(k) :
               rows'[k] = [new[k] EXCEPT !.state = "done", !.chunk_ids = rows[p].chunk_ids,
                                         !.uses = rows[p].uses]
  BY <1>1, <1>6
<1>7. ASSUME NEW k \in KeysOf(c), NEW p \in From(k),
             rows'[k] = [new[k] EXCEPT !.state = "done", !.chunk_ids = rows[p].chunk_ids,
                                       !.uses = rows[p].uses]
      PROVE  /\ rows'[k] \in Row /\ rows'[k].to = ToPageOf(c, k)
             /\ rows'[k].digest = config /\ rows'[k].state = "done"
             /\ rows'[k].chunk_ids = rows[p].chunk_ids /\ rows'[k].uses = rows[p].uses
  <2>1. /\ new[k] \in Row /\ new[k].to = ToPageOf(c, k) /\ new[k].digest = config
        /\ rows[p].chunk_ids \in SUBSET AllChunks /\ rows[p].uses \in Config
    BY <1>3, <1>4 DEF Row
  <2>2. rows'[k] = [to |-> new[k].to, digest |-> new[k].digest, state |-> "done",
                    chunk_ids |-> rows[p].chunk_ids, uses |-> rows[p].uses]
    BY <2>1, <1>7 DEF Row
  <2> QED
    BY <2>1, <2>2 DEF Row
<1>8. DOMAIN rows' = KeysOf(c)
  BY <1>1
<1>9. ASSUME NEW k \in KeysOf(c)
      PROVE  /\ rows'[k] \in Row /\ rows'[k].to = ToPageOf(c, k)
             /\ rows'[k].digest = config
             /\ \/ rows'[k].state = "queued" /\ rows'[k].chunk_ids = {} /\ rows'[k].uses = config
                \/ /\ rows'[k].state = "done" /\ (stale => stale')
                   /\ \E p \in DOMAIN rows :
                        /\ rows[p].state = "done" /\ p.from = k.from
                        /\ rows[p].to = rows'[k].to /\ rows[p].digest = config
                        /\ rows'[k].chunk_ids = rows[p].chunk_ids
                        /\ rows'[k].uses = rows[p].uses
  <2>1. CASE From(k) = {}
    BY <2>1, <1>3, <1>5
  <2>2. CASE From(k) # {}
    <3>1. PICK p \in From(k) :
            rows'[k] = [new[k] EXCEPT !.state = "done", !.chunk_ids = rows[p].chunk_ids,
                                      !.uses = rows[p].uses]
      BY <2>2, <1>6
    <3>2. stale => stale'
      BY <1>2, <1>4
    <3>3. /\ rows'[k] \in Row /\ rows'[k].to = ToPageOf(c, k)
          /\ rows'[k].digest = config /\ rows'[k].state = "done"
          /\ rows'[k].chunk_ids = rows[p].chunk_ids /\ rows'[k].uses = rows[p].uses
      BY <3>1, <1>7
    <3>4. /\ p \in DOMAIN rows /\ rows[p].state = "done" /\ p.from = k.from
          /\ rows[p].to = rows'[k].to /\ rows[p].digest = config
      BY <3>3, <1>3, <1>4
    <3> QED
      BY <3>2, <3>3, <3>4
  <2> QED
    BY <2>1, <2>2
<1> QED
  BY <1>2, <1>8, <1>9

(* A change of one row keeps the invariant if it leaves what the row parses *)
(* alone and its chunks are right, or a configuration is mixed up.         *)
LEMMA RowEditIInv ==
  ASSUME IInv, NEW k \in DOMAIN rows, NEW r \in Row, rows' = [rows EXCEPT ![k] = r],
         r.to = rows[k].to, r.digest = rows[k].digest,
         UNCHANGED <<config, request, cutBy, wiped>>,
         store' \subseteq AllChunks, orphans' \subseteq AllChunks,
         stale' \in BOOLEAN, stale => stale',
         ~stale' => /\ r.uses = r.digest /\ r.chunk_ids \subseteq ChunksOf(k)
                    /\ r.state = "done" => r.chunk_ids = ChunksOf(k)
  PROVE  IInv'
<1>1. TypeOK /\ RowShape /\ UsesDigest /\ DoneIsRight
  BY DEF IInv
<1>2. /\ DOMAIN rows' = DOMAIN rows /\ rows' \in [DOMAIN rows' -> Row] /\ rows'[k] = r
      /\ \A l \in DOMAIN rows : l # k => rows'[l] = rows[l]
  BY <1>1, RowEdit
<1>3. TypeOK'
  BY <1>1, <1>2 DEF TypeOK
<1>4. RowShape'
  BY <1>1, <1>2 DEF RowShape
<1>5. UsesDigest'
  BY <1>1, <1>2 DEF UsesDigest, ChunksOf
<1>6. DoneIsRight'
  BY <1>1, <1>2 DEF DoneIsRight, ChunksOf
<1> QED
  BY <1>3, <1>4, <1>5, <1>6 DEF IInv

(* A step that keeps the rows, or has none, keeps the invariant.           *)
LEMMA SameRows ==
  ASSUME IInv, rows' = rows \/ (DOMAIN rows' = {} /\ rows' = [k \in {} |-> 0]),
         rows' = rows => stale' = stale, stale' \in BOOLEAN, UNCHANGED cutBy,
         config' \in Config, request' \subseteq Config, wiped' \in BOOLEAN,
         store' \subseteq AllChunks, orphans' \subseteq AllChunks
  PROVE  IInv'
<1>1. TypeOK /\ RowShape /\ UsesDigest /\ DoneIsRight
  BY DEF IInv
<1>2. CASE rows' = rows
  <2>1. TypeOK'
    BY <1>1, <1>2 DEF TypeOK
  <2>2. RowShape' /\ UsesDigest' /\ DoneIsRight'
    BY <1>1, <1>2 DEF RowShape, UsesDigest, DoneIsRight, ChunksOf
  <2> QED
    BY <2>1, <2>2 DEF IInv
<1>3. CASE DOMAIN rows' = {} /\ rows' = [k \in {} |-> 0]
  <2>1. rows' \in [DOMAIN rows' -> Row]
    BY <1>3
  <2>2. TypeOK'
    BY <1>1, <1>3, <2>1 DEF TypeOK
  <2>3. RowShape' /\ UsesDigest' /\ DoneIsRight'
    BY <1>3 DEF RowShape, UsesDigest, DoneIsRight
  <2> QED
    BY <2>2, <2>3 DEF IInv
<1> QED
  BY <1>2, <1>3

(* What the invariant says of a row: its place and its record.             *)
LEMMA RowPlace ==
  ASSUME IInv, NEW k \in DOMAIN rows
  PROVE  /\ rows[k] \in Row /\ k.from \in 0 .. Pages - 1 /\ rows[k].to \in 0 .. Pages
         /\ \A p \in k.from .. rows[k].to - 1, c \in Config : Chunk(p, c) \in AllChunks
<1>1. rows[k] \in Row /\ cutBy \in Config /\ k \in KeysOf(cutBy)
  BY DEF IInv, TypeOK, RowShape
<1>2. k.from \in 0 .. Pages - 1 /\ rows[k].to \in 0 .. Pages
  BY <1>1, KeyTask DEF Row
<1> QED
  BY <1>1, <1>2, ConfigAssumption DEF AllChunks

LEMMA QueueIInv ==
  ASSUME IInv, NEW c \in Config, Queue(c)
  PROVE  IInv'
<1>1. TypeOK /\ DoneIsRight /\ UsesDigest
  BY DEF IInv
<1>2. /\ DOMAIN rows' = KeysOf(c) /\ cutBy' = c
      /\ \A k \in KeysOf(c) : rows'[k] \in Row /\ rows'[k].to = ToPageOf(c, k)
  BY QueueRows
<1>3. TypeOK'
  <2>1. \A k \in DOMAIN rows' : k \in [range : Nat, from : Nat]
    BY <1>2, KeyTask
  <2>2. rows' = [k \in DOMAIN rows' |-> rows'[k]]
    BY DEF Queue
  <2>3. rows' \in [DOMAIN rows' -> Row]
    BY <1>2, <2>2
  <2>4. /\ config' = config /\ request' = {} /\ orphans' = orphans /\ store' \subseteq store
        /\ stale' \in BOOLEAN /\ wiped' \in BOOLEAN
    BY DEF Queue
  <2> QED
    BY <1>1, <1>2, <2>1, <2>3, <2>4 DEF TypeOK
<1>4. RowShape'
  BY <1>2 DEF RowShape
<1>5. ASSUME ~stale', NEW k \in DOMAIN rows'
      PROVE  /\ rows'[k].uses = rows'[k].digest
             /\ rows'[k].chunk_ids \subseteq ChunksOf(k)'
             /\ rows'[k].state = "done" => rows'[k].chunk_ids = ChunksOf(k)'
  <2>1. k \in KeysOf(c)
    BY <1>2
  <2>2. rows'[k].digest = config
    BY <2>1, QueueRows
  <2>3. CASE rows'[k].state = "queued" /\ rows'[k].chunk_ids = {} /\ rows'[k].uses = config
    BY <2>2, <2>3
  <2>4. CASE /\ rows'[k].state = "done" /\ (stale => stale')
             /\ \E p \in DOMAIN rows :
                  /\ rows[p].state = "done" /\ p.from = k.from
                  /\ rows[p].to = rows'[k].to /\ rows[p].digest = config
                  /\ rows'[k].chunk_ids = rows[p].chunk_ids
                  /\ rows'[k].uses = rows[p].uses
    <3>1. PICK p \in DOMAIN rows :
            /\ rows[p].state = "done" /\ p.from = k.from
            /\ rows[p].to = rows'[k].to /\ rows[p].digest = config
            /\ rows'[k].chunk_ids = rows[p].chunk_ids
            /\ rows'[k].uses = rows[p].uses
      BY <2>4
    <3>2. ~stale
      BY <1>5, <2>4
    <3>3. rows[p].uses = rows[p].digest /\ rows[p].chunk_ids = ChunksOf(p)
      BY <1>1, <3>1, <3>2 DEF UsesDigest, DoneIsRight, ChunksOf
    <3>4. ChunksOf(p) = ChunksOf(k)'
      BY <2>2, <3>1 DEF ChunksOf
    <3> QED
      BY <2>2, <3>1, <3>3, <3>4
  <2> QED
    BY <2>1, <2>3, <2>4, QueueRows
<1>6. UsesDigest'
  BY <1>5 DEF UsesDigest
<1>7. DoneIsRight'
  BY <1>5 DEF DoneIsRight, ChunksOf
<1> QED
  BY <1>3, <1>4, <1>6, <1>7 DEF IInv

LEMMA StepIInv == IInv /\ [Next]_vars => IInv'
<1> SUFFICES ASSUME IInv, [Next]_vars PROVE IInv'
  OBVIOUS
<1>0. TypeOK /\ UsesDigest /\ DoneIsRight
  BY DEF IInv
<1> USE DEF docVars, history, bounds
<1>1. CASE UNCHANGED vars
  BY <1>0, <1>1, SameRows DEF vars, TypeOK
<1>2. ASSUME NEW c \in Config, Change(c) PROVE IInv'
  BY <1>0, <1>2, SameRows DEF Change, TypeOK
<1>3. ASSUME NEW c \in Config, Reset(c) PROVE IInv'
  BY <1>0, <1>3, SameRows DEF Reset, TypeOK
<1>4. ASSUME NEW c \in Config, Queue(c) PROVE IInv'
  BY <1>4, QueueIInv
<1>5. CASE Read
  BY <1>0, <1>5, SameRows DEF Read, TypeOK
<1>6. CASE ReadAndDelete
  <2>1. rows' = [k \in {} |-> 0] /\ DOMAIN rows' = {}
    BY <1>6 DEF ReadAndDelete
  <2>2. /\ cutBy' = cutBy /\ config' \in Config /\ request' \subseteq Config
        /\ stale' \in BOOLEAN /\ wiped' \in BOOLEAN
        /\ store' \subseteq AllChunks /\ orphans' \subseteq AllChunks
    BY <1>0, <1>6 DEF ReadAndDelete, TypeOK
  <2>3. rows' \in [DOMAIN rows' -> Row]
    BY <2>1
  <2>4. RowShape' /\ UsesDigest' /\ DoneIsRight'
    BY <2>1 DEF RowShape, UsesDigest, DoneIsRight
  <2>5. DOMAIN rows' = {}
    BY <2>1
  <2>6. TypeOK'
    BY <1>0, <2>2, <2>3, <2>5 DEF TypeOK
  <2> QED
    BY <2>4, <2>6 DEF IInv
<1>7. CASE Stop
  <2>1. /\ DOMAIN rows' = DOMAIN rows /\ stale' = stale
        /\ \A k \in DOMAIN rows : \/ rows'[k] = rows[k]
                                  \/ rows'[k] = [rows[k] EXCEPT !.state = "failed"]
    BY <1>7 DEF Stop
  <2>2. \A k \in DOMAIN rows :
          /\ rows'[k] \in Row /\ rows'[k].to = rows[k].to /\ rows'[k].digest = rows[k].digest
          /\ rows'[k].uses = rows[k].uses /\ rows'[k].chunk_ids = rows[k].chunk_ids
          /\ rows'[k].state = "done" => rows[k].state = "done"
    BY <2>1, RowPlace DEF Row
  <2>3. rows' \in [DOMAIN rows' -> Row]
    BY <1>7, <2>1, <2>2 DEF Stop
  <2>4. TypeOK'
    BY <1>0, <1>7, <2>1, <2>3 DEF Stop, TypeOK
  <2>5. RowShape'
    BY <1>7, <2>1, <2>2 DEF IInv, RowShape, Stop
  <2>6. UsesDigest'
    BY <1>0, <2>1, <2>2 DEF UsesDigest, ChunksOf
  <2>7. DoneIsRight'
    BY <1>0, <2>1, <2>2 DEF DoneIsRight
  <2> QED
    BY <2>4, <2>5, <2>6, <2>7 DEF IInv
<1>8. ASSUME NEW k \in DOMAIN rows, Start(k) PROVE IInv'
  <2> DEFINE r == [rows[k] EXCEPT !.state = "running", !.uses = config]
  <2>1. rows' = [rows EXCEPT ![k] = r]
    BY <1>8 DEF Start
  <2>2. /\ r \in Row /\ r.to = rows[k].to /\ r.digest = rows[k].digest /\ r.uses = config
        /\ r.chunk_ids = rows[k].chunk_ids /\ r.state = "running"
    BY <1>0, RowPlace DEF Row, TypeOK
  <2>3. stale' = (stale \/ config # rows[k].digest)
    BY <1>8 DEF Start
  <2>4. ~stale' => r.uses = r.digest /\ r.chunk_ids \subseteq ChunksOf(k)
    BY <1>0, <2>2, <2>3 DEF UsesDigest
  <2>5. store' = store /\ UNCHANGED <<config, request, cutBy, wiped, orphans>>
    BY <1>8 DEF Start
  <2> HIDE DEF r
  <2> QED
    BY <1>0, <2>1, <2>2, <2>3, <2>4, <2>5, RowEditIInv DEF TypeOK
<1>9. ASSUME NEW k \in DOMAIN rows, NEW n \in 0 .. Pages - 1, Insert(k, n) PROVE IInv'
  <2> DEFINE ids == {Chunk(p, rows[k].uses) : p \in k.from .. n}
             r == [rows[k] EXCEPT !.chunk_ids = ids]
  <2>1. rows' = [rows EXCEPT ![k] = r]
    BY <1>9 DEF Insert
  <2>2. /\ rows[k] \in Row /\ k.from \in 0 .. Pages - 1 /\ rows[k].to \in 0 .. Pages
        /\ \A p \in k.from .. rows[k].to - 1, c \in Config : Chunk(p, c) \in AllChunks
    BY RowPlace
  <2>3. n \in k.from .. rows[k].to - 1 /\ rows[k].state = "running"
    BY <1>9 DEF Insert, InState
  <2>4. k.from .. n \subseteq k.from .. rows[k].to - 1
    BY <2>2, <2>3
  <2>5. ids \subseteq AllChunks /\ rows[k].uses \in Config
    BY <2>2, <2>4 DEF Row
  <2>6. /\ r \in Row /\ r.to = rows[k].to /\ r.digest = rows[k].digest
        /\ r.uses = rows[k].uses /\ r.chunk_ids = ids /\ r.state = "running"
    BY <2>2, <2>3, <2>5 DEF Row
  <2>7. ~stale => r.uses = r.digest /\ r.chunk_ids \subseteq ChunksOf(k)
    BY <1>0, <2>4, <2>6 DEF UsesDigest, ChunksOf
  <2>8. store' \subseteq AllChunks
    BY <1>0, <1>9, <2>2, <2>3, <2>5 DEF Insert, TypeOK
  <2>9. UNCHANGED <<config, request, cutBy, stale, wiped, orphans>>
    BY <1>9 DEF Insert
  <2> HIDE DEF r, ids
  <2> QED
    BY <1>0, <2>1, <2>6, <2>7, <2>8, <2>9, RowEditIInv DEF TypeOK
<1>10. ASSUME NEW k \in DOMAIN rows, Finish(k) PROVE IInv'
  <2> DEFINE r == [rows[k] EXCEPT !.state = "done"]
  <2>1. rows' = [rows EXCEPT ![k] = r]
    BY <1>10 DEF Finish, Set
  <2>2. /\ r \in Row /\ r.to = rows[k].to /\ r.digest = rows[k].digest
        /\ r.uses = rows[k].uses /\ r.chunk_ids = rows[k].chunk_ids
    BY RowPlace DEF Row
  <2>3. \A p \in k.from .. rows[k].to - 1 : Chunk(p, rows[k].uses) \in rows[k].chunk_ids
    BY <1>10 DEF Finish, Done
  <2>4. ~stale => r.uses = r.digest /\ r.chunk_ids = ChunksOf(k)
    BY <1>0, <2>2, <2>3 DEF UsesDigest, ChunksOf
  <2>5. UNCHANGED <<config, request, store, cutBy, stale, wiped, orphans>>
    BY <1>10 DEF Finish
  <2> HIDE DEF r
  <2> QED
    BY <1>0, <2>1, <2>2, <2>4, <2>5, RowEditIInv DEF TypeOK
<1>11. ASSUME NEW k \in DOMAIN rows, Fail(k) PROVE IInv'
  <2> DEFINE r == [rows[k] EXCEPT !.state = "failed"]
  <2>1. rows' = [rows EXCEPT ![k] = r]
    BY <1>11 DEF Fail, Set
  <2>2. /\ r \in Row /\ r.to = rows[k].to /\ r.digest = rows[k].digest
        /\ r.uses = rows[k].uses /\ r.chunk_ids = rows[k].chunk_ids /\ r.state = "failed"
    BY RowPlace DEF Row
  <2>3. ~stale => r.uses = r.digest /\ r.chunk_ids \subseteq ChunksOf(k)
    BY <1>0, <2>2 DEF UsesDigest
  <2>4. UNCHANGED <<config, request, store, cutBy, stale, wiped, orphans>>
    BY <1>11 DEF Fail
  <2> HIDE DEF r
  <2> QED
    BY <1>0, <2>1, <2>2, <2>3, <2>4, RowEditIInv DEF TypeOK
<1>12. ASSUME NEW k \in DOMAIN rows, Crash(k) PROVE IInv'
  <2> DEFINE r == [rows[k] EXCEPT !.state = "queued"]
  <2>1. rows' = [rows EXCEPT ![k] = r]
    BY <1>12 DEF Crash
  <2>2. /\ r \in Row /\ r.to = rows[k].to /\ r.digest = rows[k].digest
        /\ r.uses = rows[k].uses /\ r.chunk_ids = rows[k].chunk_ids /\ r.state = "queued"
    BY RowPlace DEF Row
  <2>3. ~stale => r.uses = r.digest /\ r.chunk_ids \subseteq ChunksOf(k)
    BY <1>0, <2>2 DEF UsesDigest
  <2>4. UNCHANGED <<config, request, cutBy, stale, wiped>>
    BY <1>12 DEF Crash
  <2>5. PICK n \in SUBSET (k.from .. rows[k].to - 1) :
          /\ store' = store \cup {Chunk(p, rows[k].uses) : p \in n}
          /\ orphans' = orphans \cup rows[k].chunk_ids \cup {Chunk(p, rows[k].uses) : p \in n}
    BY <1>12 DEF Crash
  <2>6. rows[k].uses \in Config /\ rows[k].chunk_ids \subseteq AllChunks
    BY RowPlace DEF Row
  <2>7. {Chunk(p, rows[k].uses) : p \in n} \subseteq AllChunks
    BY <2>6, RowPlace
  <2>8. store' \subseteq AllChunks /\ orphans' \subseteq AllChunks
    BY <1>0, <2>5, <2>6, <2>7 DEF TypeOK
  <2> HIDE DEF r
  <2> QED
    BY <1>0, <2>1, <2>2, <2>3, <2>4, <2>8, RowEditIInv DEF TypeOK
<1> QED
  BY <1>1, <1>2, <1>3, <1>4, <1>5, <1>6, <1>7, <1>8, <1>9, <1>10, <1>11, <1>12 DEF Next

(* Rows are those of the last cut, and without a mixed-up configuration    *)
(* each was executed with the configuration of its digest.                 *)
THEOREM ReuseInvariant == Spec => []IInv
BY InitIInv, StepIInv, PTL DEF Spec

(* A finished row names the chunks of its pages, made with the             *)
(* configuration of its digest, whether it was executed or taken over.     *)
THEOREM FinishedRowsAreRight == Spec => []DoneIsRight
<1>1. IInv => DoneIsRight
  BY DEF IInv
<1> QED
  BY <1>1, ReuseInvariant, PTL

LEMMA ShapeIsExact == IInv => RowsExact
<1> SUFFICES ASSUME IInv, DOMAIN rows # {}, NEW i \in DOMAIN RangesOf[cutBy]
             PROVE  Exactly(RowsOf(i), 0 .. Pages, Chosen(RangesOf[cutBy][i]), SizeOf[cutBy])
  BY DEF RowsExact
<1>1. cutBy \in Config /\ DOMAIN rows = KeysOf(cutBy)
      /\ \A k \in DOMAIN rows : rows[k].to = ToPageOf(cutBy, k)
  BY DEF IInv, TypeOK, RowShape
<1>2. ASSUME NEW k \in DOMAIN rows, k.range = i PROVE RowTask(k) \in TasksOf(cutBy, i)
  BY <1>1, <1>2, KeyTask DEF RowTask
<1>3. ASSUME NEW t \in TasksOf(cutBy, i) PROVE t \in RowsOf(i)
  <2> DEFINE k == [range |-> i, from |-> t.from_page]
             s == FromPage(RangesOf[cutBy][i].first)
             e == ToPage(RangesOf[cutBy][i].last, Pages)
  <2>1. k \in KeysOf(cutBy) /\ k.range = i /\ k.from = t.from_page
    BY DEF KeysOf
  <2>2. RowTask(k) \in TasksOf(cutBy, i) /\ RowTask(k).from_page = t.from_page
    BY <1>1, <1>2, <2>1 DEF RowTask
  <2>3. TasksOf(cutBy, i) = Cut(s, e, SizeOf[cutBy])
    BY DEF TasksOf, PdfTasks
  <2>4. s \in Nat /\ e \in Int /\ SizeOf[cutBy] \in Nat \ {0}
    BY <1>1, RangeTypes
  <2> HIDE DEF s, e, k
  <2> DEFINE u == RowTask(k)
  <2>5. t \in Cut(s, e, SizeOf[cutBy]) /\ u \in Cut(s, e, SizeOf[cutBy]) /\ t.from_page = u.from_page
    BY <2>2, <2>3
  <2> HIDE DEF u
  <2>6. t = u
    BY <2>4, <2>5, CutByFrom
  <2> QED
    BY <1>1, <2>1, <2>6 DEF RowsOf, u
<1>4. RowsOf(i) = TasksOf(cutBy, i)
  BY <1>2, <1>3 DEF RowsOf
<1>5. 0 .. Pages \in SUBSET Int
  OBVIOUS
<1> QED
  BY <1>1, <1>4, <1>5, EveryPageOnce

(* The rows hold every chosen page of a PDF exactly once.                  *)
THEOREM RowsStayExact == Spec => []RowsExact
BY ShapeIsExact, ReuseInvariant, PTL

-----------------------------------------------------------------------------
(* The previous and the new row of each takeover by a request with c.      *)
NewRows(c) == [k \in KeysOf(c) |-> NewRow(c, k)]
Taken(c) == Reuse(rows, NewRows(c))

Alike(c, p, k) ==
  p.from = k.from /\ rows[p].to = ToPageOf(c, k) /\ rows[p].digest = config

LEMMA TakenPairs ==
  ASSUME IInv, NEW c \in Config, NEW p, NEW k, <<p, k>> \in Taken(c)
  PROVE  /\ p \in DOMAIN rows /\ k \in KeysOf(c) /\ rows[p].state = "done"
         /\ rows[p].chunk_ids # {} /\ Alike(c, p, k)
         /\ \A o \in DOMAIN rows : Alike(c, o, k) => o.range <= p.range
         /\ \A l \in KeysOf(c) : Alike(c, p, l) => k.range <= l.range
<1>1. DOMAIN NewRows(c) = KeysOf(c)
      /\ \A l \in KeysOf(c) : NewRows(c)[l].to = ToPageOf(c, l) /\ NewRows(c)[l].digest = config
  BY DEF NewRows, NewRow
<1>2. p \in DOMAIN rows /\ k \in KeysOf(c) /\ rows[p].state = "done"
      /\ rows[p].chunk_ids # {} /\ Fits(rows, NewRows(c), p, k)
  BY <1>1 DEF Taken, Reuse
<1>3. \A o \in DOMAIN rows, l \in KeysOf(c) : Same(rows, NewRows(c), o, l) <=> Alike(c, o, l)
  BY <1>1 DEF Same, Alike
<1>4. (\A o \in DOMAIN rows : o.range \in Nat) /\ \A l \in KeysOf(c) : l.range \in Nat
  BY KeyTask DEF IInv, TypeOK
<1> QED
  BY <1>1, <1>2, <1>3, <1>4 DEF Fits

(* Each new row takes over at most one previous row.                       *)
LEMMA TakenOnce ==
  ASSUME IInv, NEW c \in Config, NEW p, NEW q, NEW k,
         <<p, k>> \in Taken(c), <<q, k>> \in Taken(c)
  PROVE  p = q
<1>1. p \in DOMAIN rows /\ q \in DOMAIN rows /\ p.from = q.from
      /\ p.range <= q.range /\ q.range <= p.range
  BY TakenPairs DEF Alike
<1>2. p \in [range : Nat, from : Nat] /\ q \in [range : Nat, from : Nat]
  BY <1>1 DEF IInv, TypeOK
<1> QED
  BY <1>1, <1>2

(* What a request leaves of the rows and the store.                        *)
LEMMA QueueStore ==
  ASSUME IInv, NEW c \in Config, Queue(c)
  PROVE  /\ store' = store \ LeftOver(rows, Taken(c)) /\ orphans' = orphans
         /\ stale' = (c # config \/ (stale /\ Taken(c) # {}))
         /\ wiped' = (wiped /\ Taken(c) # {})
         /\ \A k \in KeysOf(c) : (\A p : <<p, k>> \notin Taken(c)) => rows'[k].chunk_ids = {}
         /\ \A p, k : <<p, k>> \in Taken(c) =>
              k \in KeysOf(c) /\ rows'[k].chunk_ids = rows[p].chunk_ids /\ rows'[k].state = "done"
<1> DEFINE From(k) == {p \in DOMAIN rows : <<p, k>> \in Taken(c)}
<1>1. /\ rows' = [k \in KeysOf(c) |->
                    IF From(k) = {} THEN NewRows(c)[k]
                    ELSE [NewRows(c)[k] EXCEPT
                            !.state = "done",
                            !.chunk_ids = rows[CHOOSE p \in From(k) : TRUE].chunk_ids,
                            !.uses = rows[CHOOSE p \in From(k) : TRUE].uses]]
      /\ store' = store \ LeftOver(rows, Taken(c)) /\ orphans' = orphans
      /\ stale' = (c # config \/ (stale /\ Taken(c) # {}))
      /\ wiped' = (wiped /\ Taken(c) # {})
  BY DEF Queue, Taken, NewRows
<1>2. \A k \in KeysOf(c) : NewRows(c)[k] \in Row /\ NewRows(c)[k].chunk_ids = {}
  BY KeyTask DEF NewRows, NewRow, Row, IInv, TypeOK
<1>3. ASSUME NEW k \in KeysOf(c), \A p : <<p, k>> \notin Taken(c)
      PROVE  rows'[k].chunk_ids = {}
  BY <1>1, <1>2, <1>3
<1>4. ASSUME NEW p, NEW k, <<p, k>> \in Taken(c)
      PROVE  k \in KeysOf(c) /\ rows'[k].chunk_ids = rows[p].chunk_ids /\ rows'[k].state = "done"
  <2>1. p \in From(k) /\ k \in KeysOf(c)
    BY <1>4, TakenPairs
  <2>2. \A q \in From(k) : q = p
    BY <1>4, TakenOnce
  <2>3. (CHOOSE q \in From(k) : TRUE) = p
    BY <2>1, <2>2
  <2> DEFINE n == NewRows(c)[k]
  <2>4. rows'[k] = [n EXCEPT !.state = "done", !.chunk_ids = rows[p].chunk_ids,
                             !.uses = rows[p].uses]
    BY <1>1, <2>1, <2>3
  <2>5. n \in Row
    BY <1>2, <2>1
  <2> HIDE DEF n
  <2> QED
    BY <2>1, <2>4, <2>5 DEF Row
<1> QED
  BY <1>1, <1>3, <1>4

(* A row that nobody takes over is made again, or another one of its pages *)
(* is: of two rows alike only the first new one takes over.                *)
LEMMA Requeued ==
  ASSUME IInv, OneDigest, ~stale, NEW c \in Config, c = config, Taken(c) # {},
         NEW p \in DOMAIN rows, \A k : <<p, k>> \notin Taken(c)
  PROVE  \E m \in KeysOf(c) :
           m.from = p.from /\ ToPageOf(c, m) = rows[p].to /\ \A q : <<q, m>> \notin Taken(c)
<1>1. PICK o, l : <<o, l>> \in Taken(c)
  BY DEF Taken, Reuse
<1>2. cutBy = c
  BY <1>1, TakenPairs DEF Alike, OneDigest
<1>3. DOMAIN rows = KeysOf(c) /\ (\A k \in DOMAIN rows : rows[k].to = ToPageOf(c, k))
      /\ \A k \in DOMAIN rows : rows[k].digest = config
  BY <1>2 DEF IInv, RowShape, OneDigest
<1>4. CASE \A q : <<q, p>> \notin Taken(c)
  BY <1>3, <1>4
<1>5. ASSUME NEW q, <<q, p>> \in Taken(c)
      PROVE  \E m \in KeysOf(c) :
               m.from = p.from /\ ToPageOf(c, m) = rows[p].to /\ \A r : <<r, m>> \notin Taken(c)
  <2>1. /\ q \in DOMAIN rows /\ q # p /\ Alike(c, q, p)
        /\ \A s \in DOMAIN rows : Alike(c, s, p) => s.range <= q.range
    BY <1>5, TakenPairs
  <2>2. Alike(c, p, p) /\ p.range <= q.range
    BY <1>3, <2>1 DEF Alike
  <2>3. p \in [range : Nat, from : Nat] /\ q \in [range : Nat, from : Nat]
    BY <2>1 DEF IInv, TypeOK
  <2>4. q.from = p.from /\ ToPageOf(c, q) = rows[p].to /\ p.range < q.range
    BY <1>3, <2>1, <2>2, <2>3 DEF Alike
  <2>5. ASSUME NEW r, <<r, q>> \in Taken(c) PROVE FALSE
    <3>1. /\ r \in DOMAIN rows /\ Alike(c, r, q)
          /\ \A s \in KeysOf(c) : Alike(c, r, s) => q.range <= s.range
      BY <2>5, TakenPairs
    <3>2. Alike(c, r, p)
      BY <1>3, <2>4, <3>1 DEF Alike
    <3>3. q.range <= p.range
      BY <1>3, <3>1, <3>2
    <3> QED
      BY <2>3, <2>4, <3>3
  <2> QED
    BY <1>3, <2>1, <2>4, <2>5
<1> QED
  BY <1>4, <1>5

-----------------------------------------------------------------------------
(* A change of one row that keeps its chunk ids.                           *)
LEMMA SameChunks ==
  ASSUME StoreInv, NEW k \in DOMAIN rows, NEW r \in Row, rows' = [rows EXCEPT ![k] = r],
         r.to = rows[k].to, r.digest = rows[k].digest, r.chunk_ids = rows[k].chunk_ids,
         UNCHANGED <<cutBy, wiped>>, stale => stale', store \subseteq store',
         \A x \in store' \ orphans' :
           /\ x \in store \ orphans
           /\ Keeps(k, x) => \/ r.state \in {"done", "failed"}
                             \/ r.state = "running" /\ x.config = r.uses
  PROVE  Named' /\ FirstPages' /\ OneDigest' /\ StoredOrOwed'
<1>1. TypeOK
  BY DEF StoreInv, IInv
<1>2. /\ DOMAIN rows' = DOMAIN rows /\ rows'[k] = r
      /\ \A l \in DOMAIN rows : l # k => rows'[l] = rows[l]
  BY <1>1, RowEdit
<1>3. \A l \in DOMAIN rows : /\ rows'[l].to = rows[l].to /\ rows'[l].digest = rows[l].digest
                             /\ rows'[l].chunk_ids = rows[l].chunk_ids
  BY <1>2
<1>4. Named'
  <2> SUFFICES ASSUME NEW x \in store' \ orphans' PROVE \E l \in DOMAIN rows' : Keeps(l, x)'
    BY DEF Named
  <2>1. PICK l \in DOMAIN rows : Keeps(l, x)
    BY DEF StoreInv, Named
  <2>2. Keeps(l, x)'
    BY <1>2, <1>3, <2>1 DEF Keeps
  <2> QED
    BY <1>2, <2>2
<1>5. FirstPages'
  BY <1>2, <1>3 DEF StoreInv, FirstPages
<1>6. OneDigest'
  BY <1>2, <1>3 DEF StoreInv, OneDigest
<1>7. StoredOrOwed'
  <2> SUFFICES ASSUME ~wiped, ~stale, NEW l \in DOMAIN rows, NEW x \in rows[l].chunk_ids
               PROVE  x \in store' \/ \E m \in DOMAIN rows : Owed(m, x)'
    BY <1>2, <1>3 DEF StoredOrOwed
  <2>1. x \in store \/ \E m \in DOMAIN rows : Owed(m, x)
    BY DEF StoreInv, StoredOrOwed
  <2>2. \A m \in DOMAIN rows : Owed(m, x) => Owed(m, x)'
    BY <1>3 DEF Owed
  <2> QED
    BY <2>1, <2>2
<1> QED
  BY <1>4, <1>5, <1>6, <1>7

(* A batch of chunks: the row names the ones it named and the new one.     *)
LEMMA InsertStore ==
  ASSUME StoreInv, NEW k \in DOMAIN rows, NEW n \in 0 .. Pages - 1, Insert(k, n)
  PROVE  Named' /\ FirstPages' /\ OneDigest' /\ StoredOrOwed'
<1> DEFINE new == Chunk(n, rows[k].uses)
           ids == {Chunk(p, rows[k].uses) : p \in k.from .. n}
           r == [rows[k] EXCEPT !.chunk_ids = ids]
<1>1. IInv /\ TypeOK
  BY DEF StoreInv, IInv
<1>2. /\ rows[k] \in Row /\ k.from \in 0 .. Pages - 1 /\ rows[k].to \in 0 .. Pages
      /\ \A p \in k.from .. rows[k].to - 1, c \in Config : Chunk(p, c) \in AllChunks
  BY <1>1, RowPlace
<1>3. /\ rows' = [rows EXCEPT ![k] = r] /\ rows[k].state = "running"
      /\ n \in k.from .. rows[k].to - 1 /\ new \notin rows[k].chunk_ids
      /\ \A p \in k.from .. n - 1 : Chunk(p, rows[k].uses) \in rows[k].chunk_ids
      /\ store' = store \cup {new} /\ UNCHANGED <<cutBy, stale, wiped, orphans>>
  <2>1. rows' = [rows EXCEPT ![k] = r]
    BY DEF Insert
  <2>2. \A p \in k.from .. n - 1 : Chunk(p, rows[k].uses) \in rows[k].chunk_ids
    BY DEF Insert, Done
  <2>3. /\ rows[k].state = "running" /\ n \in k.from .. rows[k].to - 1
        /\ new \notin rows[k].chunk_ids
    BY DEF Insert, InState
  <2>4. store' = store \cup {new} /\ UNCHANGED <<cutBy, stale, wiped, orphans>>
    BY DEF Insert, history
  <2> QED
    BY <2>1, <2>2, <2>3, <2>4
<1>4. k.from .. n \subseteq k.from .. rows[k].to - 1 /\ rows[k].uses \in Config
  BY <1>2, <1>3 DEF Row
<1>5. ids \subseteq AllChunks
  BY <1>2, <1>4
<1>6. /\ r \in Row /\ r.to = rows[k].to /\ r.digest = rows[k].digest
      /\ r.uses = rows[k].uses /\ r.state = "running" /\ r.chunk_ids = ids
  BY <1>2, <1>3, <1>5 DEF Row
<1> HIDE DEF r
<1>7. /\ DOMAIN rows' = DOMAIN rows /\ rows'[k] = r
      /\ \A l \in DOMAIN rows : l # k => rows'[l] = rows[l]
  BY <1>1, <1>3, <1>6, RowEdit
<1>8. \A x \in rows[k].chunk_ids : x.config = rows[k].uses => x \in ids
  <2> SUFFICES ASSUME NEW x \in rows[k].chunk_ids, x.config = rows[k].uses PROVE x \in ids
    OBVIOUS
  <2>1. /\ x.page \in k.from .. rows[k].to - 1
        /\ \A p \in k.from .. x.page : Chunk(p, x.config) \in rows[k].chunk_ids
    BY DEF StoreInv, FirstPages
  <2>2. ~ (n <= x.page)
    BY <1>3, <2>1
  <2>3. x.page \in k.from .. n
    BY <1>2, <1>3, <2>1, <2>2
  <2>4. x = Chunk(x.page, x.config)
    BY <1>2 DEF Row, AllChunks, Chunk
  <2> QED
    BY <2>3, <2>4
<1>9. \A x \in ids : x = new \/ x \in rows[k].chunk_ids
  <2> SUFFICES ASSUME NEW p \in k.from .. n
               PROVE  p = n \/ Chunk(p, rows[k].uses) \in rows[k].chunk_ids
    OBVIOUS
  <2>1. p = n \/ p \in k.from .. n - 1
    BY <1>2, <1>3
  <2> QED
    BY <1>3, <2>1
<1>10. new \in ids /\ new.config = rows[k].uses /\ new.page = n
  BY <1>2, <1>3 DEF Chunk
<1>11. Named'
  <2> SUFFICES ASSUME NEW x \in store' \ orphans' PROVE \E l \in DOMAIN rows' : Keeps(l, x)'
    BY DEF Named
  <2>1. CASE x = new
    <3>1. Keeps(k, x)'
      BY <1>6, <1>7, <1>10, <2>1 DEF Keeps
    <3> QED
      BY <1>7, <3>1
  <2>2. CASE x # new
    <3>1. PICK l \in DOMAIN rows : Keeps(l, x)
      BY <1>3, <2>2 DEF StoreInv, Named
    <3>2. CASE l # k
      BY <1>7, <3>1, <3>2 DEF Keeps
    <3>3. CASE l = k
      <4>1. x \in rows[k].chunk_ids /\ x.config = rows[k].uses
        BY <1>3, <3>1, <3>3 DEF Keeps
      <4>2. Keeps(k, x)'
        BY <1>6, <1>7, <1>8, <4>1 DEF Keeps
      <4> QED
        BY <1>7, <4>2
    <3> QED
      BY <3>2, <3>3
  <2> QED
    BY <2>1, <2>2
<1>12. FirstPages'
  <2> SUFFICES ASSUME NEW l \in DOMAIN rows, NEW x \in rows'[l].chunk_ids
               PROVE  /\ x.page \in l.from .. rows'[l].to - 1
                      /\ \A p \in l.from .. x.page : Chunk(p, x.config) \in rows'[l].chunk_ids
    BY <1>7 DEF FirstPages
  <2>1. CASE l # k
    BY <1>7, <2>1 DEF StoreInv, FirstPages
  <2>2. CASE l = k
    <3>1. PICK p \in k.from .. n : x = Chunk(p, rows[k].uses)
      BY <1>6, <1>7, <2>2
    <3>2. x.page = p /\ x.config = rows[k].uses
      BY <3>1 DEF Chunk
    <3>3. \A q \in k.from .. p : q \in k.from .. n
      BY <1>2, <1>3, <3>1
    <3> QED
      BY <1>4, <1>6, <1>7, <2>2, <3>2, <3>3
  <2> QED
    BY <2>1, <2>2
<1>13. OneDigest'
  BY <1>3, <1>6, <1>7 DEF StoreInv, OneDigest
<1>14. StoredOrOwed'
  <2> SUFFICES ASSUME ~wiped, ~stale, NEW l \in DOMAIN rows, NEW x \in rows'[l].chunk_ids
               PROVE  x \in store' \/ \E m \in DOMAIN rows : Owed(m, x)'
    BY <1>3, <1>7 DEF StoredOrOwed
  <2>1. CASE x = new
    BY <1>3, <2>1
  <2>2. CASE x # new
    <3>1. x \in rows[l].chunk_ids
      BY <1>6, <1>7, <1>9, <2>2
    <3>2. x \in store \/ \E m \in DOMAIN rows : Owed(m, x)
      BY <3>1 DEF StoreInv, StoredOrOwed
    <3>3. ASSUME NEW m \in DOMAIN rows, Owed(m, x) PROVE Owed(m, x)'
      <4>1. m = k => x \notin ids
        BY <1>9, <2>2, <3>3 DEF Owed
      <4> QED
        BY <1>6, <1>7, <3>3, <4>1 DEF Owed
    <3> QED
      BY <1>3, <3>2, <3>3
  <2> QED
    BY <2>1, <2>2
<1> QED
  BY <1>11, <1>12, <1>13, <1>14

(* queue_tasks.                                                            *)
LEMMA QueueKeeps ==
  ASSUME StoreInv, NEW c \in Config, Queue(c)
  PROVE  Named' /\ FirstPages' /\ OneDigest' /\ StoredOrOwed'
<1>1. IInv /\ TypeOK /\ DoneIsRight
  BY DEF StoreInv, IInv
<1>2. /\ DOMAIN rows' = KeysOf(c) /\ cutBy' = c
      /\ \A k \in KeysOf(c) : rows'[k].digest = config /\ rows'[k].to = ToPageOf(c, k)
  BY <1>1, QueueRows
<1>3. /\ store' = store \ LeftOver(rows, Taken(c)) /\ orphans' = orphans
      /\ stale' = (c # config \/ (stale /\ Taken(c) # {}))
      /\ wiped' = (wiped /\ Taken(c) # {})
  BY <1>1, QueueStore
<1>4. \A k \in KeysOf(c) : (\A p : <<p, k>> \notin Taken(c)) => rows'[k].chunk_ids = {}
  BY <1>1, QueueStore
<1>5. \A p, k : <<p, k>> \in Taken(c) =>
        /\ k \in KeysOf(c) /\ rows'[k].chunk_ids = rows[p].chunk_ids /\ rows'[k].state = "done"
        /\ p \in DOMAIN rows /\ Alike(c, p, k)
  BY <1>1, QueueStore, TakenPairs
<1>6. \A p \in DOMAIN rows : (\A k : <<p, k>> \notin Taken(c)) =>
        rows[p].chunk_ids \subseteq LeftOver(rows, Taken(c))
  <2> SUFFICES ASSUME NEW p \in DOMAIN rows, \A k : <<p, k>> \notin Taken(c),
                      NEW x \in rows[p].chunk_ids
               PROVE  x \in LeftOver(rows, Taken(c))
    OBVIOUS
  <2>1. \A pk \in Taken(c) : pk = <<pk[1], pk[2]>>
    BY DEF Taken, Reuse
  <2>2. ~ \E pk \in Taken(c) : pk[1] = p
    BY <2>1
  <2> QED
    BY <2>2 DEF LeftOver
<1>7. ASSUME NEW x \in store', NEW p \in DOMAIN rows, x \in rows[p].chunk_ids
      PROVE  \E k : <<p, k>> \in Taken(c)
  BY <1>3, <1>6, <1>7
<1>8. Named'
  <2> SUFFICES ASSUME NEW x \in store' \ orphans' PROVE \E l \in DOMAIN rows' : Keeps(l, x)'
    BY DEF Named
  <2>1. PICK p \in DOMAIN rows : x \in rows[p].chunk_ids
    BY <1>3 DEF StoreInv, Named, Keeps
  <2>2. PICK k : <<p, k>> \in Taken(c)
    BY <1>7, <2>1
  <2>3. k \in DOMAIN rows' /\ Keeps(k, x)'
    BY <1>2, <1>5, <2>1, <2>2 DEF Keeps
  <2> QED
    BY <2>3
<1>9. FirstPages'
  <2> SUFFICES ASSUME NEW k \in KeysOf(c), NEW x \in rows'[k].chunk_ids
               PROVE  /\ x.page \in k.from .. rows'[k].to - 1
                      /\ \A p \in k.from .. x.page : Chunk(p, x.config) \in rows'[k].chunk_ids
    BY <1>2 DEF FirstPages
  <2>1. PICK p : <<p, k>> \in Taken(c)
    BY <1>4
  <2>2. /\ p \in DOMAIN rows /\ p.from = k.from /\ rows[p].to = rows'[k].to
        /\ rows'[k].chunk_ids = rows[p].chunk_ids
    BY <1>2, <1>5, <2>1 DEF Alike
  <2> QED
    BY <2>2 DEF StoreInv, FirstPages
<1>10. OneDigest'
  BY <1>2, <1>3 DEF OneDigest
<1>11. StoredOrOwed'
  <2> SUFFICES ASSUME ~wiped', ~stale', NEW k \in KeysOf(c), NEW x \in rows'[k].chunk_ids
               PROVE  x \in store' \/ \E m \in KeysOf(c) : Owed(m, x)'
    BY <1>2 DEF StoredOrOwed
  <2>1. PICK p : <<p, k>> \in Taken(c)
    BY <1>4
  <2>2. p \in DOMAIN rows /\ x \in rows[p].chunk_ids /\ ~wiped /\ ~stale /\ c = config
        /\ Taken(c) # {}
    BY <1>3, <1>5, <2>1
  <2>3. ASSUME NEW l \in DOMAIN rows, \A m : <<l, m>> \notin Taken(c),
               x.page \in l.from .. rows[l].to - 1
        PROVE  \E m \in KeysOf(c) : Owed(m, x)'
    <3>1. PICK m \in KeysOf(c) :
            m.from = l.from /\ ToPageOf(c, m) = rows[l].to /\ \A q : <<q, m>> \notin Taken(c)
      BY <1>1, <2>2, <2>3, Requeued DEF StoreInv
    <3>2. rows'[m].chunk_ids = {} /\ rows'[m].to = rows[l].to
      BY <1>2, <1>4, <3>1
    <3>3. Owed(m, x)'
      BY <2>3, <3>1, <3>2 DEF Owed
    <3> QED
      BY <3>3
  <2>4. CASE x \in store
    <3>1. CASE x \in LeftOver(rows, Taken(c))
      <4>1. PICK l \in DOMAIN rows : x \in rows[l].chunk_ids /\ \A m : <<l, m>> \notin Taken(c)
        BY <3>1, <1>5 DEF LeftOver
      <4>2. x.page \in l.from .. rows[l].to - 1
        BY <4>1 DEF StoreInv, FirstPages
      <4> QED
        BY <2>3, <4>1, <4>2
    <3> QED
      BY <1>3, <2>4, <3>1
  <2>5. CASE x \notin store
    <3>1. PICK l \in DOMAIN rows : Owed(l, x)
      BY <2>2, <2>5 DEF StoreInv, StoredOrOwed
    <3>2. rows[p].state = "done" /\ rows[p].digest = cutBy /\ rows[l].digest = cutBy
      BY <1>1, <2>1, <2>2, TakenPairs DEF StoreInv, OneDigest
    <3>3. \E q \in p.from .. rows[p].to - 1 : x = Chunk(q, cutBy)
      BY <1>1, <2>2, <3>2 DEF DoneIsRight
    <3>4. x = Chunk(x.page, cutBy)
      BY <3>3 DEF Chunk
    <3>5. rows[l].state # "done"
      BY <1>1, <2>2, <3>1, <3>2, <3>4 DEF DoneIsRight, Owed
    <3>6. \A m : <<l, m>> \notin Taken(c)
      BY <1>1, <3>5, TakenPairs
    <3> QED
      BY <2>3, <3>1, <3>6 DEF Owed
  <2> QED
    BY <2>4, <2>5
<1> QED
  BY <1>8, <1>9, <1>10, <1>11

LEMMA StepStore == StoreInv /\ [Next]_vars => StoreInv'
<1> SUFFICES ASSUME StoreInv, [Next]_vars
             PROVE  Named' /\ FirstPages' /\ OneDigest' /\ StoredOrOwed'
  BY StepIInv DEF StoreInv
<1>0. IInv /\ TypeOK
  BY DEF StoreInv, IInv
<1> USE DEF docVars, history, bounds
<1>1. ASSUME UNCHANGED <<rows, cutBy, stale>>,
             (wiped' = wiped /\ UNCHANGED <<store, orphans>>) \/ (wiped' /\ store' = {})
      PROVE  Named' /\ FirstPages' /\ OneDigest' /\ StoredOrOwed'
  BY <1>1 DEF StoreInv, Named, Keeps, FirstPages, OneDigest, StoredOrOwed, Owed
<1>2. CASE UNCHANGED vars \/ Read
  BY <1>1, <1>2 DEF vars, Read
<1>3. ASSUME NEW c \in Config, Change(c) \/ Reset(c)
      PROVE  Named' /\ FirstPages' /\ OneDigest' /\ StoredOrOwed'
  BY <1>1, <1>3 DEF Change, Reset
<1>4. CASE ReadAndDelete
  <2>1. DOMAIN rows' = {} /\ store' = {}
    BY <1>4 DEF ReadAndDelete
  <2> QED
    BY <2>1 DEF Named, FirstPages, OneDigest, StoredOrOwed
<1>5. CASE Stop
  <2>1. /\ DOMAIN rows' = DOMAIN rows /\ store' = {} /\ wiped' /\ UNCHANGED <<stale, cutBy>>
        /\ \A k \in DOMAIN rows : \/ rows'[k] = rows[k]
                                  \/ rows'[k] = [rows[k] EXCEPT !.state = "failed"]
    BY <1>5 DEF Stop
  <2>2. \A k \in DOMAIN rows : /\ rows'[k].to = rows[k].to /\ rows'[k].digest = rows[k].digest
                               /\ rows'[k].chunk_ids = rows[k].chunk_ids
    BY <1>0, <2>1, RowPlace DEF Row
  <2>3. FirstPages' /\ OneDigest'
    BY <2>1, <2>2 DEF StoreInv, FirstPages, OneDigest
  <2> QED
    BY <2>1, <2>3 DEF Named, StoredOrOwed
<1>6. ASSUME NEW k \in DOMAIN rows, Start(k) \/ Finish(k) \/ Fail(k) \/ Crash(k)
      PROVE  Named' /\ FirstPages' /\ OneDigest' /\ StoredOrOwed'
  <2>0. rows[k] \in Row /\ config \in Config
    BY <1>0, RowPlace DEF TypeOK
  <2>1. CASE Start(k)
    <3> DEFINE r == [rows[k] EXCEPT !.state = "running", !.uses = config]
    <3>1. /\ r \in Row /\ r.to = rows[k].to /\ r.digest = rows[k].digest
          /\ r.chunk_ids = rows[k].chunk_ids
      BY <2>0 DEF Row
    <3>2. /\ rows' = [rows EXCEPT ![k] = r] /\ rows[k].state = "queued"
          /\ UNCHANGED <<cutBy, wiped, store, orphans>> /\ (stale => stale')
      BY <2>1 DEF Start, InState
    <3>3. \A x : ~Keeps(k, x)
      BY <3>2 DEF Keeps
    <3> HIDE DEF r
    <3> QED
      BY <3>1, <3>2, <3>3, SameChunks
  <2>2. CASE Finish(k) \/ Fail(k)
    <3> DEFINE r == [rows[k] EXCEPT !.state = IF Finish(k) THEN "done" ELSE "failed"]
    <3>1. /\ r \in Row /\ r.to = rows[k].to /\ r.digest = rows[k].digest
          /\ r.chunk_ids = rows[k].chunk_ids /\ r.state \in {"done", "failed"}
      BY <2>0 DEF Row
    <3>2. /\ rows' = [rows EXCEPT ![k] = r]
          /\ UNCHANGED <<cutBy, wiped, stale, store, orphans>>
      BY <2>2 DEF Finish, Fail, Set
    <3> HIDE DEF r
    <3> QED
      BY <3>1, <3>2, SameChunks
  <2>3. CASE Crash(k)
    <3> DEFINE r == [rows[k] EXCEPT !.state = "queued"]
    <3>1. /\ r \in Row /\ r.to = rows[k].to /\ r.digest = rows[k].digest
          /\ r.chunk_ids = rows[k].chunk_ids
      BY <2>0 DEF Row
    <3>2. rows' = [rows EXCEPT ![k] = r] /\ UNCHANGED <<cutBy, wiped, stale>>
      BY <2>3 DEF Crash
    <3>3. PICK n \in SUBSET (k.from .. rows[k].to - 1) :
            /\ store' = store \cup {Chunk(p, rows[k].uses) : p \in n}
            /\ orphans' = orphans \cup rows[k].chunk_ids
                            \cup {Chunk(p, rows[k].uses) : p \in n}
      BY <2>3 DEF Crash
    <3>4. \A x \in store' \ orphans' : x \in store \ orphans /\ ~Keeps(k, x)
      BY <3>3 DEF Keeps
    <3> HIDE DEF r
    <3> QED
      BY <3>1, <3>2, <3>3, <3>4, SameChunks
  <2> QED
    BY <1>6, <2>1, <2>2, <2>3
<1> QED
  BY <1>2, <1>3, <1>4, <1>5, <1>6, InsertStore, QueueKeeps DEF Next

(* The chunks of the store are named by rows that keep the name, and those *)
(* that rows name are in the store or will be parsed.                      *)
THEOREM StoreInvariant == Spec => []StoreInv
<1>1. Init => StoreInv
  <2> SUFFICES ASSUME Init PROVE StoreInv
    OBVIOUS
  <2>1. DOMAIN rows = {} /\ store = {}
    BY DEF Init
  <2> QED
    BY <2>1, InitIInv DEF StoreInv, Named, FirstPages, OneDigest, StoredOrOwed
<1> QED
  BY <1>1, StepStore, PTL DEF Spec

(* The store has no chunk that no row names, but those of crashes.         *)
THEOREM NothingIsLeftOver == Spec => []NothingLeftOver
<1>1. StoreInv => NothingLeftOver
  BY DEF StoreInv, Named, Keeps, NothingLeftOver
<1> QED
  BY <1>1, StoreInvariant, PTL

(* When all tasks are done, the store has all their chunks.                *)
THEOREM AllDoneIsStored == Spec => []AllDoneMeansStored
<1>1. ASSUME StoreInv, ~wiped, ~stale, \A k \in DOMAIN rows : rows[k].state = "done",
             NEW k \in DOMAIN rows, NEW x \in rows[k].chunk_ids, x \notin store
      PROVE  FALSE
  <2>1. DoneIsRight /\ OneDigest
    BY <1>1 DEF StoreInv, IInv
  <2>2. PICK l \in DOMAIN rows : Owed(l, x)
    BY <1>1 DEF StoreInv, StoredOrOwed
  <2>3. \E q \in k.from .. rows[k].to - 1 : x = Chunk(q, cutBy)
    BY <1>1, <2>1 DEF DoneIsRight, OneDigest
  <2>4. x = Chunk(x.page, cutBy)
    BY <2>3 DEF Chunk
  <2> QED
    BY <1>1, <2>1, <2>2, <2>4 DEF DoneIsRight, OneDigest, Owed
<1>2. StoreInv => AllDoneMeansStored
  BY <1>1 DEF AllDoneMeansStored
<1> QED
  BY <1>2, StoreInvariant, PTL
=============================================================================
