-------------------------- MODULE CanvasRunProofs --------------------------
(***************************************************************************)
(* For every graph, any number of components, turns and faults: the types  *)
(* of a session, that a component that runs without an error is only taken *)
(* for a failed one if it failed in the round or was poisoned, that what   *)
(* comes after a fill-up waits for the answer, that nobody runs without    *)
(* what it refers to, that nobody runs twice in a round, that nobody is    *)
(* lost, and that iterations are complete.                                 *)
(*                                                                         *)
(* The path is built by folds over a batch.  What a fold has is proved by  *)
(* induction: not over an operator, but for the set of the numbers k such  *)
(* that the fold over the first k elements is in a set V.  Least and       *)
(* Induction say that such a set is Nat, from the well-foundedness of <;   *)
(* FoldExists and FoldSteps carry this to the function iter by which       *)
(* MapThenFoldSet is defined, FoldIn and FoldAt to FoldLeft: what the      *)
(* start has and every step keeps, the fold has.                           *)
(*                                                                         *)
(* NeverBlind is about the distances of components from begin: the same    *)
(* induction says that the recursive definition of Levels has a solution,  *)
(* the lengths of the walks from begin.  In a graph in which all walks to  *)
(* a component have the same length, the batches of a round are the sets   *)
(* of the components at distance 0, 1, 2, ...  EachOnce adds that a batch  *)
(* has nobody twice, which Tidy carries from one batch to the next.        *)
(* NobodyLost needs no distances: what comes after a batch is owed until   *)
(* it runs, or waits for one that is apart from it.  IterationsComplete is *)
(* about graphs in which a batch is one component, so that Leads says      *)
(* where the path goes; how often an item has run is bounded by its _idx.  *)
(***************************************************************************)
EXTENDS CanvasRun, FiniteSetTheorems, WellFoundedInduction, SequenceTheorems, TLAPS
-----------------------------------------------------------------------------
(* Every set of natural numbers has a least one.                           *)
LEMMA Least ==
  ASSUME NEW T \in SUBSET Nat, T # {}
  PROVE  \E m \in T : \A n \in T : m <= n
<1> DEFINE R == {p \in Nat \X Nat : p[1] < p[2]}
<1>1. IsWellFoundedOn(OpToRel(<, Nat), Nat)
  BY NatLessThanWellFounded
<1>2. OpToRel(<, Nat) = R
  BY DEF OpToRel
<1>3. PICK x \in T : \A y \in T : <<y, x>> \notin R
  <2> HIDE DEF R
  <2>1. IsWellFoundedOn(R, Nat)
    BY <1>1, <1>2
  <2>2. \E x \in T : \A y \in T : ~ (<<y, x>> \in R)
    BY <2>1, WFMin
  <2> QED
    BY <2>2
<1>4. ASSUME NEW y \in T PROVE x <= y
  <2>1. x \in Nat /\ y \in Nat
    OBVIOUS
  <2>2. y < x => <<y, x>> \in R
    BY <2>1
  <2> QED
    BY <1>3, <2>1, <2>2
<1> QED
  BY <1>4

(* Induction over the natural numbers, for a set.                          *)
LEMMA Induction ==
  ASSUME NEW S, 0 \in S, \A k \in Nat : k \in S => k + 1 \in S
  PROVE  Nat \subseteq S
<1> SUFFICES ASSUME Nat \ S # {} PROVE FALSE
  OBVIOUS
<1>1. PICK m \in Nat \ S : \A n \in Nat \ S : m <= n
  BY Least
<1>2. m # 0 /\ m - 1 \in Nat
  OBVIOUS
<1>3. m - 1 \in S
  BY <1>1, <1>2
<1> QED
  BY <1>2, <1>3

(* The numbers up to k + 1 are those up to k and the greatest, k + 1.      *)
LEMMA FromOne ==
  ASSUME NEW k \in Nat
  PROVE  1 .. k + 1 # {} /\ 1 .. k = (1 .. k + 1) \ {k + 1} /\ Max(1 .. k + 1) = k + 1
<1>1. k + 1 \in 1 .. k + 1 /\ \A y \in 1 .. k + 1 : k + 1 >= y
  OBVIOUS
<1>2. \A x \in 1 .. k + 1 : (\A y \in 1 .. k + 1 : x >= y) => x = k + 1
  BY <1>1
<1>3. \A i : i \in 1 .. k <=> i \in 1 .. k + 1 /\ i # k + 1
  OBVIOUS
<1>4. Max(1 .. k + 1) = k + 1
  BY <1>1, <1>2 DEF Max
<1>5. 1 .. k = (1 .. k + 1) \ {k + 1}
  BY <1>3, Zenon
<1>6. 1 .. k + 1 # {}
  BY <1>1, Zenon
<1> QED
  BY <1>4, <1>5, <1>6, Zenon

(* What the folds of the community modules define: the function iter of    *)
(* MapThenFoldSet exists, for a step that maps into a set V.               *)
IsFold(f, n, base, step) ==
  \A s \in SUBSET (1 .. n) :
    f[s] = IF s = {} THEN base ELSE step[<<Max(s), f[s \ {Max(s)}]>>]

(* There is a function that is the fold of every set of the numbers up to  *)
(* n: one for those up to k + 1 is made from one for those up to k.        *)
LEMMA FoldExists ==
  ASSUME NEW V, NEW n \in Nat, NEW base \in V, NEW step \in [(1 .. n) \X V -> V]
  PROVE  \E f \in [SUBSET (1 .. n) -> V] : IsFold(f, n, base, step)
<1> DEFINE Fold(k, f) == \A s \in SUBSET (1 .. k) :
             f[s] = IF s = {} THEN base ELSE step[<<Max(s), f[s \ {Max(s)}]>>]
           K == {k \in Nat : k <= n => \E f \in [SUBSET (1 .. k) -> V] : Fold(k, f)}
<1>1. 0 \in K
  <2> DEFINE f == [s \in SUBSET (1 .. 0) |-> base]
  <2>1. f \in [SUBSET (1 .. 0) -> V]
    OBVIOUS
  <2>2. \A s \in SUBSET (1 .. 0) : f[s] = base /\ s = {}
    <3>1. \A s \in SUBSET (1 .. 0) : s = {}
      <4>1. 1 .. 0 = {}
        OBVIOUS
      <4> QED
        BY <4>1, Zenon
    <3> QED
      BY <3>1
  <2>3. Fold(0, f)
    BY <2>2
  <2> HIDE DEF f, Fold
  <2> QED
    BY <2>1, <2>3
<1>2. ASSUME NEW k \in Nat, k \in K PROVE k + 1 \in K
  <2> SUFFICES ASSUME k + 1 <= n PROVE \E f \in [SUBSET (1 .. k + 1) -> V] : Fold(k + 1, f)
    <3>1. k + 1 \in Nat
      OBVIOUS
    <3> HIDE DEF Fold
    <3> QED
      BY <3>1, Zenon
  <2>0. \E g \in [SUBSET (1 .. k) -> V] : Fold(k, g)
    <3>1. k <= n
      OBVIOUS
    <3> HIDE DEF Fold
    <3> QED
      BY <1>2, <3>1
  <2>1. PICK g \in [SUBSET (1 .. k) -> V] : Fold(k, g)
    BY <2>0
  <2> DEFINE f == [s \in SUBSET (1 .. k + 1) |->
                     IF k + 1 \in s THEN step[<<k + 1, g[s \ {k + 1}]>>] ELSE g[s]]
  <2>a. \A i : i \in 1 .. k <=> i \in 1 .. k + 1 /\ i # k + 1
    OBVIOUS
  <2>2. \A s \in SUBSET (1 .. k + 1) : s \ {k + 1} \in SUBSET (1 .. k)
    BY <2>a, Zenon
  <2>3. \A s \in SUBSET (1 .. k + 1) : k + 1 \notin s => s \in SUBSET (1 .. k)
    BY <2>a, Zenon
  <2>4. f \in [SUBSET (1 .. k + 1) -> V]
    <3>1. k + 1 \in 1 .. n
      OBVIOUS
    <3>2. ASSUME NEW s \in SUBSET (1 .. k + 1) PROVE f[s] \in V
      BY <2>2, <2>3, <3>1
    <3> QED
      BY <3>2
  <2>5. ASSUME NEW s \in SUBSET (1 .. k + 1)
        PROVE  f[s] = IF s = {} THEN base ELSE step[<<Max(s), f[s \ {Max(s)}]>>]
    <3>1. CASE k + 1 \in s
      <4>1. Max(s) = k + 1
        <5>1. \A y \in s : k + 1 >= y
          OBVIOUS
        <5>2. \A x \in s : (\A y \in s : x >= y) => x = k + 1
          BY <3>1
        <5> QED
          BY <3>1, <5>1, <5>2 DEF Max
      <4>2. s \ {k + 1} \in SUBSET (1 .. k) /\ s \ {k + 1} \in SUBSET (1 .. k + 1)
        BY <2>2
      <4>3. f[s] = step[<<k + 1, g[s \ {k + 1}]>>] /\ f[s \ {k + 1}] = g[s \ {k + 1}]
        BY <3>1, <4>2
      <4> QED
        BY <3>1, <4>1, <4>3
    <3>2. CASE k + 1 \notin s
      <4>1. s \in SUBSET (1 .. k) /\ f[s] = g[s]
        BY <2>3, <3>2
      <4>2. g[s] = IF s = {} THEN base ELSE step[<<Max(s), g[s \ {Max(s)}]>>]
        BY <2>1, <4>1
      <4>3. \A x : f[s \ {x}] = g[s \ {x}]
        <5> TAKE x
        <5>1. s \ {x} \in SUBSET (1 .. k + 1) /\ k + 1 \notin s \ {x}
          BY <3>2
        <5> QED
          BY <5>1
      <4> QED
        BY <4>1, <4>2, <4>3
    <3> QED
      BY <3>1, <3>2
  <2> QED
    BY <2>4, <2>5
<1>3. Nat \subseteq K
  <2> HIDE DEF K
  <2> QED
    BY <1>1, <1>2, Induction
<1>4. \E f \in [SUBSET (1 .. n) -> V] : Fold(n, f)
  <2>1. n \in K /\ n <= n
    <3> HIDE DEF K
    <3> QED
      BY <1>3
  <2> HIDE DEF Fold
  <2> QED
    BY <2>1, Zenon
<1> QED
  BY <1>4 DEF IsFold

(* A set of such numbers has a greatest one.                               *)
LEMMA MaxIsIn ==
  ASSUME NEW n \in Nat, NEW s \in SUBSET (1 .. n), s # {}
  PROVE  Max(s) \in s
<1> DEFINE T == {k \in Nat : \E x \in s : k = n - x}
<1>1. T \in SUBSET Nat /\ T # {}
  <2>1. PICK x \in s : TRUE
    OBVIOUS
  <2>2. n - x \in T
    BY <2>1
  <2> QED
    BY <2>2
<1>2. PICK m \in T : \A k \in T : m <= k
  BY <1>1, Least
<1>3. PICK x \in s : m = n - x
  BY <1>2
<1>4. ASSUME NEW y \in s PROVE x >= y
  <2>1. n - y \in T
    OBVIOUS
  <2> QED
    BY <1>2, <1>3, <2>1
<1> QED
  BY <1>4 DEF Max

(* It is enough to look at what iter has for 1 .. k, from k = 0 on: F[k]   *)
(* is the fold of the first k elements.                                    *)
IsRun(F, n, base, step, all) ==
  /\ F[0] = base /\ F[n] = all
  /\ \A k \in 0 .. n - 1 : F[k + 1] = step[<<k + 1, F[k]>>]

(* iter is such a run on the sets 1 .. k, whatever it is on others.        *)
LEMMA FoldSteps ==
  ASSUME NEW V, NEW n \in Nat, NEW base \in V, NEW step \in [(1 .. n) \X V -> V],
         NEW iter, iter[{}] = base,
         \A k \in 0 .. n - 1 :
           iter[1 .. k] \in V => iter[1 .. k + 1] = step[<<k + 1, iter[1 .. k]>>]
  PROVE  \E F \in [0 .. n -> V] : IsRun(F, n, base, step, iter[1 .. n])
<1> DEFINE F == [k \in 0 .. n |-> iter[1 .. k]]
           K == {k \in Nat : k <= n => iter[1 .. k] \in V}
<1>1. 0 \in K /\ iter[1 .. 0] = base
  OBVIOUS
<1>2. ASSUME NEW k \in Nat, k \in K PROVE k + 1 \in K
  <2> SUFFICES ASSUME k + 1 <= n PROVE iter[1 .. k + 1] \in V
    OBVIOUS
  <2>1. iter[1 .. k] \in V /\ k \in 0 .. n - 1 /\ k + 1 \in 1 .. n
    BY <1>2
  <2> QED
    BY <2>1
<1>3. \A k \in 0 .. n : iter[1 .. k] \in V
  <2>1. Nat \subseteq K
    <3> HIDE DEF K
    <3> QED
      BY <1>1, <1>2, Induction
  <2> QED
    BY <2>1
<1>4. F \in [0 .. n -> V] /\ F[0] = base /\ F[n] = iter[1 .. n]
  BY <1>1, <1>3
<1>5. \A k \in 0 .. n - 1 : F[k + 1] = step[<<k + 1, F[k]>>]
  BY <1>3
<1> QED
  BY <1>4, <1>5 DEF IsRun

(* The steps of the folds of the model: of Prepare, Extend, FillupsFirst   *)
(* and Extended.                                                           *)
StepOf(x, r, c) ==
  CASE x = "keep" -> IF Waits(r, c) THEN r ELSE Append(r, c)
    [] x = "extend" -> IF Last(r) = c THEN r ELSE Append(r, c)
    [] x = "fillups" -> IF KindOf(c) = "fillup" THEN Append(r, c) ELSE r
    [] x = "others" -> IF KindOf(c) # "fillup" THEN Append(r, c) ELSE r
    [] OTHER -> IF err[c] /\ graph.goto[c] # <<>> THEN r \o graph.goto[c]
                ELSE Extend(r, Successors(c))

Fold(x, p, q) == FoldLeft(LAMBDA r, c : StepOf(x, r, c), p, q)

Runs(F, x, p, q) ==
  /\ F[0] = p /\ F[Len(q)] = Fold(x, p, q)
  /\ \A k \in 0 .. Len(q) - 1 : F[k + 1] = StepOf(x, F[k], q[k + 1])

(* Every fold of the model has such a run through V, if its steps stay in  *)
(* V.                                                                      *)
LEMMA FoldRuns ==
  ASSUME NEW x, NEW V, NEW p \in V, NEW q \in Seq(Node),
         \A r \in V : \A i \in 1 .. Len(q) : StepOf(x, r, q[i]) \in V
  PROVE  \E F \in [0 .. Len(q) -> V] : Runs(F, x, p, q)
<1> DEFINE n == Len(q)
           S == SUBSET (1 .. n)
           step == [z \in (1 .. n) \X V |-> StepOf(x, z[2], q[z[1]])]
           Eq(g) == g = [s \in S |-> IF s = {} THEN p
                                     ELSE StepOf(x, g[s \ {Max(s)}], q[Max(s)])]
           iter == CHOOSE g : Eq(g)
<1>1. n \in Nat /\ DOMAIN q = 1 .. n
  OBVIOUS
<1>2. step \in [(1 .. n) \X V -> V]
  OBVIOUS
<1>3. PICK f \in [S -> V] : IsFold(f, n, p, step)
  <2> HIDE DEF n, step
  <2> QED
    BY <1>1, <1>2, FoldExists
<1>4. Eq(f)
  <2>1. ASSUME NEW s \in S
        PROVE  f[s] = IF s = {} THEN p ELSE StepOf(x, f[s \ {Max(s)}], q[Max(s)])
    <3>1. CASE s # {}
      <4>1. Max(s) \in 1 .. n /\ f[s \ {Max(s)}] \in V
        <5>1. Max(s) \in s
          BY <1>1, <3>1, MaxIsIn
        <5> QED
          BY <1>3, <5>1
      <4>2. step[<<Max(s), f[s \ {Max(s)}]>>] = StepOf(x, f[s \ {Max(s)}], q[Max(s)])
        BY <4>1
      <4> QED
        BY <1>3, <3>1, <4>2 DEF IsFold
    <3> QED
      BY <1>3, <3>1 DEF IsFold
  <2> QED
    BY <2>1
<1>5. Eq(iter)
  BY <1>4
<1>6. Fold(x, p, q) = iter[1 .. n]
  BY <1>1 DEF Fold, FoldLeft, MapThenFoldSet
<1> HIDE DEF iter
<1>7. iter[{}] = p
  BY <1>5
<1>8. ASSUME NEW k \in 0 .. n - 1, iter[1 .. k] \in V
      PROVE  iter[1 .. k + 1] = step[<<k + 1, iter[1 .. k]>>]
  <2>1. k \in Nat /\ 1 .. k + 1 \in S /\ k + 1 \in 1 .. n
    BY <1>1
  <2>2. iter[1 .. k + 1] = IF 1 .. k + 1 = {} THEN p
          ELSE StepOf(x, iter[(1 .. k + 1) \ {Max(1 .. k + 1)}], q[Max(1 .. k + 1)])
    BY <1>5, <2>1
  <2>3. iter[1 .. k + 1] = StepOf(x, iter[1 .. k], q[k + 1])
    BY <2>1, <2>2, FromOne
  <2>4. step[<<k + 1, iter[1 .. k]>>] = StepOf(x, iter[1 .. k], q[k + 1])
    <3> HIDE DEF n
    <3> QED
      BY <1>8, <2>1
  <2> QED
    BY <2>3, <2>4
<1>9. PICK F \in [0 .. n -> V] : IsRun(F, n, p, step, iter[1 .. n])
  <2>1. \A k \in 0 .. n - 1 :
          iter[1 .. k] \in V => iter[1 .. k + 1] = step[<<k + 1, iter[1 .. k]>>]
    BY <1>8
  <2> HIDE DEF n, step, S, Eq
  <2> QED
    BY <1>1, <1>2, <1>7, <2>1, FoldSteps
<1>10. ASSUME NEW k \in 0 .. n - 1 PROVE F[k + 1] = StepOf(x, F[k], q[k + 1])
  <2>1. k \in 0 .. n /\ k + 1 \in 1 .. n
    BY <1>1
  <2>2. step[<<k + 1, F[k]>>] = StepOf(x, F[k], q[k + 1])
    <3> HIDE DEF n
    <3> QED
      BY <2>1
  <2> QED
    BY <1>9, <2>2 DEF IsRun
<1> QED
  BY <1>6, <1>9, <1>10 DEF IsRun, Runs

(* What the start has and every step keeps, the fold has: V may be any     *)
(* set of sequences, and W a set of them for each number of steps.         *)
LEMMA FoldIn ==
  ASSUME NEW x, NEW V, NEW p \in V, NEW q \in Seq(Node),
         \A r \in V : \A i \in 1 .. Len(q) : StepOf(x, r, q[i]) \in V
  PROVE  Fold(x, p, q) \in V
<1>1. Len(q) \in Nat
  OBVIOUS
<1>2. PICK F \in [0 .. Len(q) -> V] : Runs(F, x, p, q)
  BY FoldRuns
<1> QED
  BY <1>1, <1>2 DEF Runs

(* And by the number of elements that have been folded.                    *)
LEMMA FoldAt ==
  ASSUME NEW x, NEW V, NEW p \in V, NEW q \in Seq(Node),
         \A r \in V : \A i \in 1 .. Len(q) : StepOf(x, r, q[i]) \in V,
         NEW W, p \in W[0],
         \A k \in 0 .. Len(q) - 1 : \A r \in V :
           r \in W[k] => StepOf(x, r, q[k + 1]) \in W[k + 1]
  PROVE  Fold(x, p, q) \in V /\ Fold(x, p, q) \in W[Len(q)]
<1>1. Len(q) \in Nat
  OBVIOUS
<1>0. PICK F \in [0 .. Len(q) -> V] : Runs(F, x, p, q)
  BY FoldRuns
<1>2. /\ F[0] = p /\ F[Len(q)] = Fold(x, p, q)
      /\ \A k \in 0 .. Len(q) - 1 : F[k + 1] = StepOf(x, F[k], q[k + 1])
  BY <1>0 DEF Runs
<1> DEFINE K == {k \in Nat : k <= Len(q) => F[k] \in W[k]}
<1>3. 0 \in K
  BY <1>2
<1>4. ASSUME NEW k \in Nat, k \in K PROVE k + 1 \in K
  <2> SUFFICES ASSUME k + 1 <= Len(q) PROVE F[k + 1] \in W[k + 1]
    OBVIOUS
  <2>1. k \in 0 .. Len(q) - 1 /\ k \in 0 .. Len(q) /\ F[k] \in W[k]
    BY <1>1, <1>4
  <2>2. F[k] \in V /\ F[k + 1] = StepOf(x, F[k], q[k + 1])
    BY <1>2, <2>1
  <2> QED
    BY <2>1, <2>2
<1>5. Nat \subseteq K
  <2> HIDE DEF K
  <2> QED
    BY <1>3, <1>4, Induction
<1>6. Len(q) \in 0 .. Len(q) /\ Len(q) <= Len(q)
  BY <1>1
<1> QED
  BY <1>1, <1>2, <1>5, <1>6

(* The folds of Prepare, Extend, FillupsFirst and Extended, as they stand  *)
(* in CanvasRun.                                                           *)
LEMMA FoldsAreSteps ==
  ASSUME NEW p, NEW q
  PROVE  /\ FoldLeft(LAMBDA r, c : IF Waits(r, c) THEN r ELSE Append(r, c),
                     p, q)
              = Fold("keep", p, q)
         /\ FoldLeft(LAMBDA r, c : IF Last(r) = c THEN r ELSE Append(r, c),
                     p, q)
              = Fold("extend", p, q)
         /\ FoldLeft(LAMBDA r, c : IF KindOf(c) = "fillup" THEN Append(r, c) ELSE r,
                     p, q)
              = Fold("fillups", p, q)
         /\ FoldLeft(LAMBDA r, c : IF KindOf(c) # "fillup" THEN Append(r, c) ELSE r,
                     p, q)
              = Fold("others", p, q)
         /\ FoldLeft(LAMBDA r, c : IF err[c] /\ graph.goto[c] # <<>> THEN r \o graph.goto[c]
                               ELSE Extend(r, Successors(c)),
                     p, q)
              = Fold("post", p, q)
<1>1. FoldLeft(LAMBDA r, c : IF Waits(r, c) THEN r ELSE Append(r, c), p, q)
       = Fold("keep", p, q)
  BY DEF Fold, FoldLeft, MapThenFoldSet, StepOf
<1>2. FoldLeft(LAMBDA r, c : IF Last(r) = c THEN r ELSE Append(r, c), p, q)
       = Fold("extend", p, q)
  BY DEF Fold, FoldLeft, MapThenFoldSet, StepOf
<1>3. FoldLeft(LAMBDA r, c : IF KindOf(c) = "fillup" THEN Append(r, c) ELSE r, p, q)
       = Fold("fillups", p, q)
  BY DEF Fold, FoldLeft, MapThenFoldSet, StepOf
<1>4. FoldLeft(LAMBDA r, c : IF KindOf(c) # "fillup" THEN Append(r, c) ELSE r, p, q)
       = Fold("others", p, q)
  BY DEF Fold, FoldLeft, MapThenFoldSet, StepOf
<1>5. FoldLeft(LAMBDA r, c : IF err[c] /\ graph.goto[c] # <<>> THEN r \o graph.goto[c]
                          ELSE Extend(r, Successors(c)), p, q)
       = Fold("post", p, q)
  BY DEF Fold, FoldLeft, MapThenFoldSet, StepOf
<1> QED
  BY <1>1, <1>2, <1>3, <1>4, <1>5, Zenon

-----------------------------------------------------------------------------
(* Sequences.                                                              *)
LEMMA Appending ==
  ASSUME NEW r \in Seq(Node), NEW c \in Node
  PROVE  /\ Append(r, c) \in Seq(Node) /\ Len(Append(r, c)) = Len(r) + 1
         /\ \A i \in 1 .. Len(r) : Append(r, c)[i] = r[i]
         /\ Append(r, c)[Len(r) + 1] = c
  BY AppendProperties

(* The two parts of a path at i: SubSeq and From.                          *)
LEMMA Parts ==
  ASSUME NEW s \in Seq(Node), NEW i \in Nat
  PROVE  /\ i <= Len(s) => SubSeq(s, 1, i) \in Seq(Node) /\ Len(SubSeq(s, 1, i)) = i
         /\ From(s, i + 1) \in Seq(Node)
         /\ \A j \in 1 .. Len(From(s, i + 1)) :
              i + j \in i + 1 .. Len(s) /\ From(s, i + 1)[j] = s[i + j]
         /\ \A k \in i + 1 .. Len(s) :
              k - i \in 1 .. Len(From(s, i + 1)) /\ From(s, i + 1)[k - i] = s[k]
<1>1. Len(s) \in Nat /\ \A j \in 1 .. Len(s) : s[j] \in Node
  OBVIOUS
<1>2. ASSUME i <= Len(s) PROVE SubSeq(s, 1, i) \in Seq(Node) /\ Len(SubSeq(s, 1, i)) = i
  <2>1. \A j \in 1 .. i : s[j] \in Node
    BY <1>1, <1>2
  <2>2. 1 \in Int /\ i \in Int /\ (1 <= i \/ i = 0)
    OBVIOUS
  <2> QED
    BY <2>1, <2>2, SubSeqProperties
<1> DEFINE f == SubSeq(s, i + 1, Len(s))
<1>3. /\ f \in Seq(Node) /\ Len(f) = (IF i + 1 <= Len(s) THEN Len(s) - (i + 1) + 1 ELSE 0)
      /\ \A j \in 1 .. Len(s) - (i + 1) + 1 : f[j] = s[(i + 1) + j - 1]
  <2>1. i + 1 \in Int /\ Len(s) \in Int /\ \A j \in i + 1 .. Len(s) : s[j] \in Node
    BY <1>1
  <2> HIDE DEF f
  <2> QED
    BY <2>1, SubSeqProperties DEF f
<1>4. f = From(s, i + 1)
  BY DEF From
<1> HIDE DEF f
<1>5. \A j \in 1 .. Len(f) : i + j \in i + 1 .. Len(s) /\ f[j] = s[i + j]
  <2> TAKE j \in 1 .. Len(f)
  <2>1. /\ j \in 1 .. Len(s) - (i + 1) + 1 /\ (i + 1) + j - 1 = i + j
        /\ i + j \in i + 1 .. Len(s)
    BY <1>1, <1>3
  <2>2. f[j] = s[(i + 1) + j - 1]
    BY <1>3, <2>1
  <2> QED
    BY <2>1, <2>2
<1>6. \A k \in i + 1 .. Len(s) : k - i \in 1 .. Len(f) /\ f[k - i] = s[k]
  <2> TAKE k \in i + 1 .. Len(s)
  <2>1. k - i \in 1 .. Len(s) - (i + 1) + 1 /\ (i + 1) + (k - i) - 1 = k
    BY <1>1
  <2> QED
    BY <1>1, <1>3, <2>1
<1> QED
  BY <1>2, <1>3, <1>4, <1>5, <1>6

-----------------------------------------------------------------------------
(* The folds.  Prepare keeps the start of the path, and adds nothing but   *)
(* elements of the batch.                                                  *)
LEMMA PreparedPath ==
  ASSUME NEW p \in Seq(Node), NEW q \in Seq(Node), NEW P, P = Fold("keep", p, q)
  PROVE  /\ P \in Seq(Node) /\ Len(p) <= Len(P)
         /\ \A i \in Len(p) + 1 .. Len(P) : \E j \in 1 .. Len(q) : P[i] = q[j]
<1> DEFINE V == {r \in Seq(Node) :
                   /\ Len(p) <= Len(r)
                   /\ \A i \in Len(p) + 1 .. Len(r) : \E j \in 1 .. Len(q) : r[i] = q[j]}
<1>1. p \in V
  <2>1. Len(p) \in Nat
    OBVIOUS
  <2>2. ~ \E i : i \in Len(p) + 1 .. Len(p)
    BY <2>1
  <2> QED
    BY <2>1, <2>2
<1>2. ASSUME NEW r \in V, NEW j \in 1 .. Len(q) PROVE StepOf("keep", r, q[j]) \in V
  <2>0. \A i \in 1 .. Len(q) : q[i] \in Node
    OBVIOUS
  <2>1. q[j] \in Node /\ r \in Seq(Node) /\ Len(p) <= Len(r)
    BY <2>0
  <2>2. Append(r, q[j]) \in V
    <3> DEFINE a == Append(r, q[j])
    <3>1. /\ a \in Seq(Node) /\ Len(a) = Len(r) + 1 /\ a[Len(r) + 1] = q[j]
          /\ \A i \in 1 .. Len(r) : a[i] = r[i]
      BY <2>1, Appending
    <3> HIDE DEF a
    <3>2. Len(p) \in Nat /\ Len(r) \in Nat
      BY <2>1
    <3>3. ASSUME NEW i \in Len(p) + 1 .. Len(a) PROVE \E k \in 1 .. Len(q) : a[i] = q[k]
      <4>1. CASE i = Len(r) + 1
        BY <3>1, <4>1
      <4>2. CASE i # Len(r) + 1
        <5>1. i \in Len(p) + 1 .. Len(r) /\ i \in 1 .. Len(r)
          BY <2>1, <3>1, <3>2, <4>2
        <5> QED
          BY <3>1, <5>1
      <4> QED
        BY <4>1, <4>2
    <3>4. a \in V
      BY <2>1, <3>1, <3>2, <3>3
    <3> QED
      BY <3>4 DEF a
  <2> QED
    BY <2>2 DEF StepOf
<1>3. Fold("keep", p, q) \in V
  <2> HIDE DEF V
  <2> QED
    BY <1>1, <1>2, FoldIn
<1> QED
  BY <1>3

(* Extend appends: the path does not get shorter.                          *)
LEMMA ExtendGrows ==
  ASSUME NEW p \in Seq(Node), NEW s \in Seq(Node)
  PROVE  Extend(p, s) \in Seq(Node) /\ Len(p) <= Len(Extend(p, s))
<1> DEFINE V == {r \in Seq(Node) : Len(p) <= Len(r)}
<1>1. p \in V
  OBVIOUS
<1>2. ASSUME NEW r \in V, NEW j \in 1 .. Len(s) PROVE StepOf("extend", r, s[j]) \in V
  <2>1. s[j] \in Node /\ r \in Seq(Node)
    OBVIOUS
  <2>2. Append(r, s[j]) \in V
    BY <2>1, Appending
  <2> QED
    BY <2>2 DEF StepOf
<1>3. Fold("extend", p, s) \in V
  <2> HIDE DEF V
  <2> QED
    BY <1>1, <1>2, FoldIn
<1>4. Extend(p, s) \in V
  BY <1>3, FoldsAreSteps DEF Extend
<1> QED
  BY <1>4

(* A pause saves a path of components.                                     *)
LEMMA FillupsFirstIn ==
  ASSUME NEW s \in Seq(Node)
  PROVE  FillupsFirst(s) \in Seq(Node)
<1>1. ASSUME NEW x \in {"fillups", "others"}
      PROVE  Fold(x, <<>>, s) \in Seq(Node)
  <2> DEFINE V == Seq(Node)
  <2>1. <<>> \in V
    OBVIOUS
  <2>2. ASSUME NEW r \in V, NEW j \in 1 .. Len(s) PROVE StepOf(x, r, s[j]) \in V
    <3>1. s[j] \in Node /\ Append(r, s[j]) \in V
      BY Appending
    <3> QED
      BY <3>1 DEF StepOf
  <2> HIDE DEF V
  <2>3. Fold(x, <<>>, s) \in V
    BY <2>1, <2>2, FoldIn
  <2> QED
    BY <2>3 DEF V
<1>2. /\ Fold("fillups", <<>>, s) \in Seq(Node)
      /\ Fold("others", <<>>, s) \in Seq(Node)
  BY <1>1
<1>3. /\ FoldLeft(LAMBDA r, c : IF KindOf(c) = "fillup" THEN Append(r, c) ELSE r, <<>>, s)
           \in Seq(Node)
      /\ FoldLeft(LAMBDA r, c : IF KindOf(c) # "fillup" THEN Append(r, c) ELSE r, <<>>, s)
           \in Seq(Node)
  BY <1>2, FoldsAreSteps
<1> QED
  BY <1>3, ConcatProperties DEF FillupsFirst
-----------------------------------------------------------------------------

(* What GraphAssumption says of the graph of the session.                  *)
LEMMA GraphFacts ==
  ASSUME graph \in Graphs
  PROVE  /\ Begin \in Node /\ NoParent \notin Node
         /\ graph.kind \in [Node -> Kind] /\ graph.kind[Begin] = "begin"
         /\ graph.down \in [Node -> Seq(Node)] /\ graph.goto \in [Node -> Seq(Node)]
         /\ graph.refs \in [Node -> SUBSET Node]
         /\ graph.parent \in [Node -> Node \cup {NoParent}] /\ graph.items \in Nat \ {0}
         /\ \A c \in Node :
              /\ KindOf(c) \in {"item", "loopitem", "exitloop"} => graph.parent[c] # NoParent
              /\ KindOf(c) \in {"iteration", "loop"} \/ (\E d \in Node : graph.parent[d] = c) =>
                   \E d \in Node : graph.parent[d] = c /\ KindOf(d) \in {"item", "loopitem"}
<1>1. graph \in [kind : [Node -> Kind], down : [Node -> Seq(Node)],
                 refs : [Node -> SUBSET Node], text : SUBSET Node,
                 goto : [Node -> Seq(Node)], default : SUBSET Node,
                 parent : [Node -> Node \cup {NoParent}],
                 collect : [Node -> Node], items : Nat \ {0}]
  BY GraphAssumption
<1>2. /\ graph.kind[Begin] = "begin"
      /\ \A c \in Node :
           /\ KindOf(c) \in {"item", "loopitem", "exitloop"} => graph.parent[c] # NoParent
           /\ KindOf(c) \in {"iteration", "loop"} \/ (\E d \in Node : graph.parent[d] = c) =>
                \E d \in Node : graph.parent[d] = c /\ KindOf(d) \in {"item", "loopitem"}
  BY GraphAssumption DEF KindOf
<1>3. Begin \in Node /\ NoParent \notin Node
  BY GraphAssumption
<1> QED
  BY <1>1, <1>2, <1>3

(* Whatever has a body has an item to start it with.                       *)
LEMMA StartIn ==
  ASSUME graph \in Graphs, NEW p \in Node,
         KindOf(p) \in {"iteration", "loop"} \/ \E d \in Node : graph.parent[d] = p
  PROVE  Start(p) \in Node
<1>1. \E d \in Node : graph.parent[d] = p /\ KindOf(d) \in {"item", "loopitem"}
  BY GraphFacts
<1> QED
  BY <1>1 DEF Start

(* Where the path goes from a component are components.                    *)
LEMMA SuccessorsIn ==
  ASSUME TypeInv, NEW c \in Node
  PROVE  Successors(c) \in Seq(Node)
<1> DEFINE p == graph.parent[c]
<1>1. graph \in Graphs /\ next[c] \in Seq(Node)
  BY DEF TypeInv
<1>2. graph.down[c] \in Seq(Node) /\ p \in Node \cup {NoParent}
  BY <1>1, GraphFacts
<1>3. CASE Ended(c) \/ Exits(c)
  <2>1. Successors(c) = graph.down[p]
    BY <1>3 DEF Successors, Ended, Exits
  <2>2. p \in Node
    BY <1>1, <1>2, <1>3, GraphFacts DEF Ended, Exits
  <2> QED
    BY <1>1, <2>1, <2>2, GraphFacts
<1>4. CASE KindOf(c) = "switch"
  BY <1>1, <1>4 DEF Successors, Ended, Exits
<1>5. CASE KindOf(c) \in {"iteration", "loop"}
  <2>1. Successors(c) = <<Start(c)>>
    BY <1>5 DEF Successors, Ended, Exits
  <2> QED
    BY <1>1, <1>5, <2>1, StartIn
<1>6. CASE /\ ~Ended(c) /\ ~Exits(c) /\ KindOf(c) \notin {"switch", "iteration", "loop"}
           /\ graph.down[c] = <<>> /\ p # NoParent
  <2>1. Successors(c) = <<Start(p)>>
    BY <1>6 DEF Successors
  <2>2. Start(p) \in Node
    BY <1>1, <1>2, <1>6, StartIn
  <2> QED
    BY <2>1, <2>2
<1>7. CASE /\ ~Ended(c) /\ ~Exits(c) /\ KindOf(c) \notin {"switch", "iteration", "loop"}
           /\ ~(graph.down[c] = <<>> /\ p # NoParent)
  <2>1. Successors(c) = graph.down[c]
    BY <1>7 DEF Successors
  <2> QED
    BY <1>2, <2>1
<1> QED
  BY <1>3, <1>4, <1>5, <1>6, <1>7

(* Post-processing only appends to the path.                               *)
LEMMA ExtendedGrows ==
  ASSUME TypeInv
  PROVE  Extended \in Seq(Node) /\ Len(path) <= Len(Extended)
<1> DEFINE V == {r \in Seq(Node) : Len(path) <= Len(r)}
           q == From(path, idx + 1)
<1>1. path \in Seq(Node) /\ idx \in Nat /\ graph \in Graphs
  BY DEF TypeInv, TypeOK
<1>2. q \in Seq(Node)
  BY <1>1, Parts
<1>3. path \in V
  BY <1>1
<1>4. ASSUME NEW r \in V, NEW c \in Node PROVE StepOf("post", r, c) \in V
  <2>1. graph.goto[c] \in Seq(Node) /\ r \in Seq(Node)
    BY <1>1, GraphFacts
  <2>2. r \o graph.goto[c] \in V
    BY <1>1, <2>1, ConcatProperties
  <2>3. Extend(r, Successors(c)) \in V
    <3>1. Extend(r, Successors(c)) \in Seq(Node) /\ Len(r) <= Len(Extend(r, Successors(c)))
      BY <2>1, SuccessorsIn, ExtendGrows
    <3>2. Len(path) <= Len(r) /\ Len(path) \in Nat /\ Len(r) \in Nat
      BY <1>1, <2>1
    <3>3. Len(Extend(r, Successors(c))) \in Nat
      BY <3>1
    <3> QED
      BY <3>1, <3>2, <3>3
  <2> HIDE DEF V
  <2> QED
    BY <2>2, <2>3 DEF StepOf
<1>5. \A r \in V : \A i \in 1 .. Len(q) : StepOf("post", r, q[i]) \in V
  <2>1. \A i \in 1 .. Len(q) : q[i] \in Node
    BY <1>2
  <2> HIDE DEF V
  <2> QED
    BY <1>4, <2>1
<1>6. Fold("post", path, q) \in V
  <2> HIDE DEF V, q
  <2> QED
    BY <1>2, <1>3, <1>5, FoldIn
<1>7. Extended \in V
  BY <1>6, FoldsAreSteps DEF Extended
<1> QED
  BY <1>7

(* What comes after the batch is what post-processing appended.            *)
LEMMA PendingIn ==
  ASSUME TypeInv
  PROVE  /\ Pending \in Seq(Node)
         /\ \A k \in Len(path) + 1 .. Len(Extended) :
              k - Len(path) \in 1 .. Len(Pending) /\ Pending[k - Len(path)] = Extended[k]
<1>1. path \in Seq(Node) /\ Len(path) \in Nat
  BY DEF TypeInv, TypeOK
<1>2. Extended \in Seq(Node)
  BY ExtendedGrows
<1> QED
  BY <1>1, <1>2, Parts DEF Pending

(* Every set of such numbers has a least one.                              *)
LEMMA MinIsIn ==
  ASSUME NEW N \in Nat, NEW T \in SUBSET (-1 .. N), T # {}
  PROVE  Min(T) \in T
<1> DEFINE U == {t + 1 : t \in T}
<1>0. \A t \in T : t \in Int /\ t + 1 \in Nat
  <2> TAKE t \in T
  <2>1. t \in -1 .. N
    OBVIOUS
  <2> QED
    BY <2>1
<1>1. U \in SUBSET Nat /\ U # {}
  BY <1>0
<1>2. PICK u \in U : \A v \in U : u <= v
  <2> HIDE DEF U
  <2> QED
    BY <1>1, Least
<1>3. PICK t \in T : u = t + 1
  BY <1>2
<1>4. \A v \in T : t <= v
  <2> TAKE v \in T
  <2>1. v + 1 \in U /\ v \in Int /\ t \in Int
    BY <1>0
  <2>2. u <= v + 1
    <3> HIDE DEF U
    <3> QED
      BY <1>2, <2>1
  <2> QED
    BY <1>3, <2>1, <2>2
<1> QED
  BY <1>3, <1>4 DEF Min

(* A component makes something between what was made in an earlier round   *)
(* and the last element: the least of what it refers to.                   *)
LEMMA MadeIn ==
  ASSUME TypeInv, NEW c \in Node
  PROVE  Made(c) \in -1 .. graph.items
<1> DEFINE T == {out[r] : r \in graph.refs[c]}
<1>1. /\ graph.items \in Nat \ {0} /\ graph.refs[c] \in SUBSET Node
      /\ out \in [Node -> -1 .. graph.items]
  BY GraphFacts DEF TypeInv, TypeOK
<1>2. ASSUME graph.refs[c] # {} PROVE Min(T) \in T
  <2>1. T \in SUBSET (-1 .. graph.items) /\ T # {} /\ graph.items \in Nat
    BY <1>1, <1>2
  <2> HIDE DEF T
  <2> QED
    BY <2>1, MinIsIn
<1>3. T \subseteq -1 .. graph.items
  BY <1>1
<1>4. Made(c) \in {0, 1} \/ (graph.refs[c] # {} /\ Made(c) = Min(T))
  BY DEF Made
<1>5. 0 \in -1 .. graph.items /\ 1 \in -1 .. graph.items
  BY <1>1
<1> HIDE DEF T
<1> QED
  BY <1>2, <1>3, <1>4, <1>5

-----------------------------------------------------------------------------
(* The invariant holds in a new session.                                   *)
THEOREM CanvasInit == Init => IInv
<1> SUFFICES ASSUME Init PROVE IInv
  OBVIOUS
<1>1. graph \in Graphs /\ graph.items \in Nat \ {0}
  BY GraphFacts DEF Init
<1>2. TypeInv
  <2>1. /\ out = Zero /\ err = Nobody /\ count = Zero /\ saved.path = <<>> /\ path = <<>>
        /\ saved.out = out /\ saved.err = err /\ next = [c \in Node |-> <<>>]
    BY DEF Init
  <2>2. Zero \in [Node -> -1 .. graph.items] /\ Nobody \in [Node -> BOOLEAN]
    BY <1>1 DEF Zero, Nobody
  <2>3. next \in [Node -> Seq(Node)] /\ <<>> \in Seq(Node)
    BY <2>1
  <2> QED
    BY <1>1, <2>1, <2>2, <2>3 DEF Init, TypeInv, TypeOK
<1>3. ErrorInv
  BY DEF Init, ErrorInv, ErrorsAreNew, Nobody
<1>4. AnswerInv
  BY DEF Init, AnswerInv, AnswerFirst
<1> QED
  BY <1>2, <1>3, <1>4 DEF IInv

(* A message loads the session. Errors outside of its path were saved as   *)
(* poisoned, and the path of a round that starts without a form begins     *)
(* with begin.                                                             *)
LEMMA TurnKeeps == IInv /\ Turn => IInv'
<1> SUFFICES ASSUME IInv, Turn PROVE IInv'
  OBVIOUS
<1> DEFINE p == saved.path
           resume == IsResume(p)
           paused == last = "paused"
<1>1. /\ graph' = graph /\ phase = "idle" /\ phase' = "batch" /\ todo' = {}
      /\ path' = (IF resume THEN p ELSE Append(p, Begin))
      /\ idx' = (IF resume THEN 0 ELSE Len(p))
      /\ out' = [c \in Node |-> IF c \in Range(p) THEN 0
                                ELSE IF saved.out[c] # 0 /\ ~paused THEN -1 ELSE saved.out[c]]
      /\ err' = [c \in Node |-> saved.err[c] /\ c \notin Range(p)]
      /\ count' = Zero /\ next' = [c \in Node |-> <<>>]
      /\ answers' = paused /\ canceled' = canceled /\ saved' = saved /\ last' = last
      /\ poisoned' = poisoned
      /\ midway' = ((resume /\ ~paused) \/ (paused /\ midway))
      /\ IF paused THEN UNCHANGED <<ran, twice, blind, misled, failed>>
         ELSE ran' = {} /\ twice' = {} /\ blind' = {} /\ misled' = {} /\ failed' = {}
  BY DEF Turn, Reset
<1>2. TypeInv /\ ErrorInv /\ AnswerInv
  BY DEF IInv
<1>3. graph.items \in Nat \ {0} /\ Begin \in Node /\ KindOf(Begin) = "begin"
  BY <1>2, GraphFacts DEF TypeInv, KindOf
<1>4. p \in Seq(Node) /\ Len(p) \in Nat
  BY <1>2 DEF TypeInv, TypeOK
<1>5. /\ path' \in Seq(Node) /\ idx' \in Nat /\ idx' <= Len(path')
      /\ ~resume => \A i \in idx' + 1 .. Len(path') : path'[i] = Begin
  <2>1. CASE resume
    BY <1>1, <1>4, <2>1
  <2>2. CASE ~resume
    <3>1. /\ Append(p, Begin) \in Seq(Node) /\ Len(Append(p, Begin)) = Len(p) + 1
          /\ Append(p, Begin)[Len(p) + 1] = Begin
      BY <1>3, <1>4, Appending
    <3>2. \A i \in Len(p) + 1 .. Len(p) + 1 : i = Len(p) + 1
      BY <1>4
    <3> QED
      BY <1>1, <1>4, <2>2, <3>1, <3>2
  <2> QED
    BY <2>1, <2>2
<1>6. TypeInv'
  <2>1. out' \in [Node -> -1 .. graph.items] /\ err' \in [Node -> BOOLEAN]
    <3>1. saved.out \in [Node -> -1 .. graph.items] /\ saved.err \in [Node -> BOOLEAN]
      BY <1>2 DEF TypeInv
    <3>2. 0 \in -1 .. graph.items /\ -1 \in -1 .. graph.items
      BY <1>3
    <3>3. out' \in [Node -> -1 .. graph.items]
      <4> HIDE DEF p, paused
      <4> QED
        BY <1>1, <3>1, <3>2
    <3>4. err' \in [Node -> BOOLEAN]
      BY <1>1
    <3> QED
      BY <3>3, <3>4
  <2>2. count' \in [Node -> -1 .. graph.items] /\ next' \in [Node -> Seq(Node)]
    BY <1>1, <1>3 DEF Zero
  <2>3. twice' \subseteq ran' /\ blind' \subseteq ran' /\ misled' \subseteq ran'
    BY <1>1, <1>2 DEF TypeInv, TypeOK
  <2>4. answers' \in BOOLEAN
    BY <1>1
  <2> HIDE DEF p, resume, paused
  <2> QED
    BY <1>1, <1>2, <1>5, <2>1, <2>2, <2>3, <2>4 DEF TypeInv, TypeOK
<1>7. ErrorInv'
  BY <1>1, <1>2 DEF ErrorInv, ErrorsAreNew
<1>8. AnswerInv'
  <2>1. ~midway' => \A c \in blind' : KindOf(c)' # "fillup"
    BY <1>1, <1>2 DEF AnswerInv, AnswerFirst, KindOf
  <2>2. ASSUME ~midway', ~answers', NEW i \in (idx + 1 .. Len(path))'
        PROVE  KindOf(path[i])' # "fillup"
    <3>1. ~resume
      BY <1>1, <2>2
    <3>2. path'[i] = Begin
      BY <1>5, <3>1
    <3> QED
      BY <1>1, <1>3, <3>2 DEF KindOf
  <2> QED
    BY <2>1, <2>2 DEF AnswerInv, AnswerFirst
<1> QED
  BY <1>6, <1>7, <1>8 DEF IInv

(* An exception leaves everything as it was, and saves nothing.            *)
LEMMA RaiseKeeps == IInv /\ Raise => IInv'
<1> SUFFICES ASSUME IInv, Raise PROVE IInv'
  OBVIOUS
<1>1. /\ phase' = "idle" /\ todo' = {} /\ canceled' = TRUE /\ last' = "raised"
      /\ graph' = graph /\ path' = path /\ idx' = idx /\ out' = out /\ err' = err
      /\ count' = count /\ next' = next /\ saved' = saved /\ answers' = answers
      /\ UNCHANGED roundVars
  BY DEF Raise, data
<1>2. TypeInv /\ ErrorInv /\ AnswerInv
  BY DEF IInv
<1>3. TypeInv'
  BY <1>1, <1>2 DEF TypeInv, TypeOK, roundVars
<1>4. ErrorInv'
  BY <1>1, <1>2 DEF ErrorInv, ErrorsAreNew, roundVars
<1>5. AnswerInv'
  BY <1>1, <1>2 DEF AnswerInv, AnswerFirst, KindOf, roundVars
<1> QED
  BY <1>3, <1>4, <1>5 DEF IInv

(* The batch that starts has nothing but what the batch that was to start  *)
(* had.                                                                    *)
LEMMA PrepareKeeps == IInv /\ Prepare => IInv'
<1> SUFFICES ASSUME IInv, Prepare PROVE IInv'
  OBVIOUS
<1> DEFINE p == SubSeq(path, 1, idx)
           q == From(path, idx + 1)
<1>0. path' = Fold("keep", p, q)
  <2>1. path' = FoldLeft(LAMBDA r, c : IF Waits(r, c) THEN r ELSE Append(r, c), p, q)
    BY DEF Prepare
  <2> QED
    BY <2>1, FoldsAreSteps, Zenon
<1>1. /\ phase = "batch" /\ phase' = "run" /\ todo' = idx + 1 .. Len(path')
      /\ graph' = graph /\ idx' = idx /\ out' = out /\ err' = err /\ count' = count
      /\ next' = next /\ saved' = saved /\ answers' = answers /\ canceled' = canceled
      /\ last' = last /\ UNCHANGED roundVars
  BY DEF Prepare, data
<1>2. TypeInv /\ ErrorInv /\ AnswerInv
  BY DEF IInv
<1>3. path \in Seq(Node) /\ idx \in Nat /\ idx <= Len(path)
  BY <1>1, <1>2 DEF TypeInv, TypeOK
<1>4. p \in Seq(Node) /\ Len(p) = idx /\ q \in Seq(Node)
  BY <1>3, Parts
<1>5. /\ path' \in Seq(Node) /\ idx <= Len(path')
      /\ \A i \in idx + 1 .. Len(path') : \E j \in 1 .. Len(q) : path'[i] = q[j]
  <2> HIDE DEF p, q
  <2>1. \A P : P = Fold("keep", p, q) =>
          /\ P \in Seq(Node) /\ Len(p) <= Len(P)
          /\ \A i \in Len(p) + 1 .. Len(P) : \E j \in 1 .. Len(q) : P[i] = q[j]
    BY <1>4, PreparedPath
  <2> QED
    BY <1>0, <1>4, <2>1
<1>6. TypeInv'
  BY <1>1, <1>2, <1>5 DEF TypeInv, TypeOK, roundVars
<1>7. ErrorInv'
  BY <1>1, <1>2 DEF ErrorInv, ErrorsAreNew, roundVars
<1>8. AnswerInv'
  <2>1. ASSUME ~midway, ~answers, NEW i \in idx + 1 .. Len(path')
        PROVE  KindOf(path'[i]) # "fillup"
    <3>1. PICK j \in 1 .. Len(q) : path'[i] = q[j]
      BY <1>5
    <3>2. idx + j \in idx + 1 .. Len(path) /\ q[j] = path[idx + j]
      BY <1>3, Parts
    <3> QED
      BY <1>1, <1>2, <2>1, <3>1, <3>2 DEF AnswerInv
  <2>2. AnswerFirst'
    BY <1>1, <1>2 DEF AnswerInv, AnswerFirst, KindOf, roundVars
  <2>3. midway' = midway
    BY <1>1 DEF roundVars
  <2> QED
    BY <1>1, <2>1, <2>2, <2>3 DEF AnswerInv, KindOf
<1> QED
  BY <1>6, <1>7, <1>8 DEF IInv

(* A component of the batch, and what it keeps of the rest.                *)
LEMMA InBatch ==
  ASSUME IInv, phase = "run", NEW i \in todo
  PROVE  path[i] \in Node /\ i \in idx + 1 .. Len(path)
<1>1. path \in Seq(Node) /\ idx \in Nat /\ i \in idx + 1 .. Len(path)
  BY DEF IInv, TypeInv, TypeOK
<1>2. i \in 1 .. Len(path)
  BY <1>1
<1> QED
  BY <1>1, <1>2

(* Until the user has been asked, no fill-up runs: nobody is asked too     *)
(* late.                                                                   *)
LEMMA NoteKeeps ==
  ASSUME IInv, phase = "run", NEW i \in todo, Note(path[i]), UNCHANGED <<graph, midway>>
  PROVE  AnswerFirst' /\ twice' \subseteq ran' /\ blind' \subseteq ran' /\ ran \subseteq ran'
         /\ path[i] \in ran'
<1> DEFINE c == path[i]
<1>1. i \in idx + 1 .. Len(path)
  BY InBatch
<1>2. ran' = ran \cup {c} /\ twice' = twice \cup (ran \cap {c})
      /\ blind' = blind \cup {d \in {c} : Missing(c)}
  BY DEF Note
<1>3. twice \subseteq ran /\ blind \subseteq ran /\ AnswerInv
  BY DEF IInv, TypeInv, TypeOK
<1>4. ASSUME ~midway, Missing(c) PROVE KindOf(c) # "fillup"
  <2>1. CASE answers
    BY <1>4, <2>1 DEF Missing
  <2>2. CASE ~answers
    BY <1>1, <1>3, <1>4, <2>2 DEF AnswerInv
  <2> QED
    BY <2>1, <2>2
<1>5. ASSUME ~midway, NEW d \in blind' PROVE KindOf(d) # "fillup"
  <2>1. CASE d \in blind
    BY <1>3, <1>5, <2>1 DEF AnswerInv, AnswerFirst
  <2>2. CASE d \notin blind
    <3>1. d = c /\ Missing(c)
      BY <1>2, <1>5, <2>2
    <3> QED
      BY <1>4, <1>5, <3>1
  <2> QED
    BY <2>1, <2>2
<1> HIDE DEF c
<1>6. AnswerFirst'
  BY <1>5 DEF AnswerFirst, KindOf
<1> QED
  BY <1>2, <1>3, <1>6 DEF c

(* A component that runs has its output in range, and its error, if it has *)
(* one, is accounted for.                                                  *)
LEMMA RunKeeps ==
  ASSUME IInv, NEW i \in todo, Run(i)
  PROVE  IInv'
<1> DEFINE c == path[i]
           p == graph.parent[c]
<1>1. /\ phase = "run" /\ todo' = todo \ {i} /\ Note(c)
      /\ misled' = misled \cup {d \in {c} : err[c]}
      /\ graph' = graph /\ phase' = phase /\ path' = path /\ idx' = idx /\ err' = err
      /\ canceled' = canceled /\ saved' = saved /\ answers' = answers /\ last' = last
      /\ failed' = failed /\ poisoned' = poisoned /\ midway' = midway
  BY DEF Run
<1>2. /\ TypeInv /\ ErrorInv /\ AnswerInv
      /\ c \in Node
  BY <1>1, InBatch DEF IInv
<1>3. /\ AnswerFirst' /\ twice' \subseteq ran' /\ blind' \subseteq ran' /\ ran \subseteq ran'
      /\ c \in ran'
  BY <1>1, NoteKeeps
<1>4. graph.items \in Nat \ {0} /\ graph.down \in [Node -> Seq(Node)]
  BY <1>2, GraphFacts DEF TypeInv
<1>5. /\ out \in [Node -> -1 .. graph.items] /\ count \in [Node -> -1 .. graph.items]
      /\ next \in [Node -> Seq(Node)] /\ err \in [Node -> BOOLEAN]
  BY <1>2 DEF TypeInv, TypeOK
<1> HIDE DEF c
<1>6. count' \in [Node -> -1 .. graph.items] /\ out' \in [Node -> -1 .. graph.items]
  <2>1. CASE KindOf(c) \in {"item", "loopitem"}
    <3>1. /\ \/ count' = [count EXCEPT ![c] = NextItem(@)]
             \/ KindOf(c) = "loopitem" /\ count' = [count EXCEPT ![c] = -1]
          /\ out' = [out EXCEPT ![c] = IF KindOf(c) = "loopitem" THEN 1
                                       ELSE IF NextItem(count[c]) = -1 THEN @
                                       ELSE Element(count[c])]
      BY <2>1 DEF Run, c
    <3>2. count[c] \in -1 .. graph.items /\ out[c] \in -1 .. graph.items
      BY <1>2, <1>5
    <3>3. NextItem(count[c]) \in -1 .. graph.items
      BY <1>4, <3>2 DEF NextItem
    <3>4. NextItem(count[c]) # -1 => Element(count[c]) \in -1 .. graph.items
      BY <1>4, <3>2 DEF NextItem, Element
    <3>5. -1 \in -1 .. graph.items /\ 1 \in -1 .. graph.items
      BY <1>4
    <3>6. count' \in [Node -> -1 .. graph.items]
      BY <1>5, <3>1, <3>3, <3>5
    <3>7. out' \in [Node -> -1 .. graph.items]
      BY <1>5, <3>1, <3>2, <3>4, <3>5
    <3> QED
      BY <3>6, <3>7
  <2>2. CASE KindOf(c) \notin {"item", "loopitem"}
    <3>1. out' = [out EXCEPT ![c] = Made(c)] /\ count' = count
      BY <2>2 DEF Run, c
    <3>2. Made(c) \in -1 .. graph.items
      BY <1>2, MadeIn
    <3> QED
      BY <1>5, <3>1, <3>2
  <2> QED
    BY <2>1, <2>2
<1>7. next' \in [Node -> Seq(Node)]
  <2>1. CASE KindOf(c) = "switch"
    <3>1. PICK j \in DOMAIN graph.down[c] : next' = [next EXCEPT ![c] = <<graph.down[c][j]>>]
      BY <2>1 DEF Run, c
    <3>2. graph.down[c] \in Seq(Node)
      BY <1>2, <1>4
    <3>3. graph.down[c][j] \in Node
      BY <3>1, <3>2
    <3>4. <<graph.down[c][j]>> \in Seq(Node)
      BY <3>3
    <3> QED
      BY <1>5, <3>1, <3>4
  <2>2. CASE KindOf(c) # "switch"
    <3>1. next' = next
      BY <2>2 DEF Run, c
    <3> QED
      BY <1>5, <3>1
  <2> QED
    BY <2>1, <2>2
<1>8. TypeInv'
  <2>1. misled' \subseteq ran'
    <3>1. misled \subseteq ran
      BY <1>2 DEF TypeInv, TypeOK
    <3> QED
      BY <1>1, <1>3, <3>1
  <2> QED
    BY <1>1, <1>2, <1>3, <1>6, <1>7, <2>1 DEF TypeInv, TypeOK
<1>9. ErrorInv'
  <2>1. err[c] => c \in failed \cup poisoned
    BY <1>1, <1>2 DEF ErrorInv
  <2> QED
    BY <1>1, <1>2, <2>1 DEF ErrorInv, ErrorsAreNew
<1>10. AnswerInv'
  BY <1>1, <1>2, <1>3 DEF AnswerInv, KindOf
<1> QED
  BY <1>8, <1>9, <1>10 DEF IInv

(* A component that fails failed in this round.                            *)
LEMMA FailKeeps ==
  ASSUME IInv, NEW i \in todo, Fail(i)
  PROVE  IInv'
<1> DEFINE c == path[i]
<1>1. /\ phase = "run" /\ todo' = todo \ {i} /\ Note(c)
      /\ err' = [err EXCEPT ![c] = TRUE] /\ failed' = failed \cup {c}
      /\ graph' = graph /\ phase' = phase /\ path' = path /\ idx' = idx /\ out' = out
      /\ count' = count /\ next' = next /\ canceled' = canceled /\ saved' = saved
      /\ answers' = answers /\ last' = last /\ misled' = misled /\ poisoned' = poisoned
      /\ midway' = midway
  BY DEF Fail
<1>2. TypeInv /\ ErrorInv /\ AnswerInv /\ c \in Node
  BY <1>1, InBatch DEF IInv
<1>3. /\ AnswerFirst' /\ twice' \subseteq ran' /\ blind' \subseteq ran' /\ ran \subseteq ran'
  BY <1>1, NoteKeeps
<1> HIDE DEF c
<1>4. TypeInv'
  <2>1. err' \in [Node -> BOOLEAN] /\ misled' \subseteq ran'
    BY <1>1, <1>2, <1>3 DEF TypeInv, TypeOK
  <2> QED
    BY <1>1, <1>2, <1>3, <2>1 DEF TypeInv, TypeOK
<1>5. ErrorInv'
  <2>1. err \in [Node -> BOOLEAN]
    BY <1>2 DEF TypeInv, TypeOK
  <2>2. \A d \in Node : err'[d] => d = c \/ err[d]
    BY <1>1, <2>1
  <2> QED
    BY <1>1, <1>2, <2>2 DEF ErrorInv, ErrorsAreNew
<1>6. AnswerInv'
  BY <1>1, <1>2, <1>3 DEF AnswerInv, KindOf
<1> QED
  BY <1>4, <1>5, <1>6 DEF IInv

(* The end of a turn: what is saved as the path may be any sequence.       *)
LEMMA SaveKeeps ==
  ASSUME IInv, NEW q \in Seq(Node), Posted, Save(q), UNCHANGED idx,
         last' \in {"finished", "paused", "failed"}
  PROVE  IInv'
<1>1. /\ todo = {} /\ todo' = {} /\ phase' = "idle" /\ path' = q /\ idx' = idx
      /\ phase = "run" /\ graph' = graph /\ out' = out /\ err' = err /\ count' = count
      /\ next' = next /\ canceled' = canceled /\ answers' = answers /\ ran' = ran /\ twice' = twice
      /\ blind' = blind /\ failed' = failed /\ misled' = misled /\ midway' = midway
      /\ saved'.path = q /\ saved'.out = out /\ saved'.err = err
      /\ poisoned' = poisoned \cup {c \in Node : err[c] /\ c \notin Range(q)}
  BY DEF Posted, Save, data
<1>2. TypeInv /\ ErrorInv /\ AnswerInv
  BY DEF IInv
<1>3. TypeInv'
  BY <1>1, <1>2 DEF TypeInv, TypeOK
<1>4. ErrorInv'
  BY <1>1, <1>2 DEF ErrorInv, ErrorsAreNew
<1>5. AnswerInv'
  BY <1>1, <1>2 DEF AnswerInv, AnswerFirst, KindOf
<1> QED
  BY <1>3, <1>4, <1>5 DEF IInv

(* A turn goes on only if nothing that comes next is a form.               *)
LEMMA ContinueKeeps == IInv /\ PostContinue => IInv'
<1> SUFFICES ASSUME IInv, PostContinue PROVE IInv'
  OBVIOUS
<1>1. /\ todo' = {} /\ phase = "run" /\ phase' = "batch" /\ path' = Extended /\ idx' = Len(path)
      /\ ~Asks /\ graph' = graph /\ out' = out /\ err' = err /\ count' = count /\ next' = next
      /\ canceled' = canceled /\ answers' = answers /\ ran' = ran /\ twice' = twice
      /\ blind' = blind /\ failed' = failed /\ misled' = misled /\ midway' = midway
      /\ saved' = saved /\ last' = last /\ poisoned' = poisoned
  BY DEF PostContinue, Posted, data
<1>2. TypeInv /\ ErrorInv /\ AnswerInv
  BY DEF IInv
<1>3. Extended \in Seq(Node) /\ Len(path) <= Len(Extended) /\ Len(path) \in Nat
  BY <1>2, ExtendedGrows DEF TypeInv, TypeOK
<1>4. TypeInv'
  BY <1>1, <1>2, <1>3 DEF TypeInv, TypeOK
<1>5. ErrorInv'
  BY <1>1, <1>2 DEF ErrorInv, ErrorsAreNew
<1>6. AnswerInv'
  <2>1. ASSUME NEW k \in Len(path) + 1 .. Len(Extended) PROVE KindOf(Extended[k]) # "fillup"
    <3>1. /\ Pending \in Seq(Node)
          /\ k - Len(path) \in 1 .. Len(Pending) /\ Pending[k - Len(path)] = Extended[k]
      BY <1>2, PendingIn
    <3>2. Extended[k] \in Range(Pending)
      BY <3>1 DEF Range
    <3> QED
      BY <1>1, <3>2 DEF Asks
  <2> QED
    BY <1>1, <1>2, <2>1 DEF AnswerInv, AnswerFirst, KindOf
<1> QED
  BY <1>4, <1>5, <1>6 DEF IInv

(* The cancel flag, and steps that change nothing.                         *)
LEMMA CancelKeeps == IInv /\ (Cancel \/ Expire \/ UNCHANGED vars) => IInv'
<1> SUFFICES ASSUME IInv, Cancel \/ Expire \/ UNCHANGED vars PROVE IInv'
  OBVIOUS
<1>1. /\ canceled' \in BOOLEAN
      /\ UNCHANGED <<graph, flow, data, saved, answers, last, roundVars>>
  BY DEF IInv, TypeInv, TypeOK, Cancel, Expire, vars
<1>2. TypeInv /\ ErrorInv /\ AnswerInv
  BY DEF IInv
<1>3. TypeInv'
  BY <1>1, <1>2 DEF TypeInv, TypeOK, flow, data, roundVars
<1>4. ErrorInv'
  BY <1>1, <1>2 DEF ErrorInv, ErrorsAreNew, flow, data, roundVars
<1>5. AnswerInv'
  BY <1>1, <1>2 DEF AnswerInv, AnswerFirst, KindOf, flow, roundVars
<1> QED
  BY <1>3, <1>4, <1>5 DEF IInv

(* Every step of a session keeps the invariant.                            *)
THEOREM CanvasNext == IInv /\ [Next]_vars => IInv'
<1> SUFFICES ASSUME IInv, [Next]_vars PROVE IInv'
  OBVIOUS
<1>1. path \in Seq(Node) /\ idx \in Nat /\ (phase # "idle" => idx <= Len(path))
  BY DEF IInv, TypeInv, TypeOK
<1>2. CASE Turn
  BY <1>2, TurnKeeps
<1>3. CASE Canceled \/ PostRaise
  BY <1>3, RaiseKeeps DEF Canceled, PostRaise
<1>4. CASE Prepare
  BY <1>4, PrepareKeeps
<1>5. CASE \E i \in todo : Run(i) \/ Fail(i)
  BY <1>5, RunKeeps, FailKeeps
<1>6. CASE PostError
  <2>1. Posted /\ Save(SubSeq(path, 1, idx)) /\ last' = "failed" /\ UNCHANGED idx
    BY <1>6 DEF PostError
  <2>2. phase = "run"
    BY <2>1 DEF Posted
  <2>3. SubSeq(path, 1, idx) \in Seq(Node)
    BY <1>1, <2>2, Parts
  <2> QED
    BY <2>1, <2>3, SaveKeeps
<1>7. CASE PostPause
  <2>1. Posted /\ Save(FillupsFirst(Pending)) /\ last' = "paused" /\ UNCHANGED idx
    BY <1>7 DEF PostPause
  <2>2. FillupsFirst(Pending) \in Seq(Node)
    BY PendingIn, FillupsFirstIn DEF IInv
  <2> QED
    BY <2>1, <2>2, SaveKeeps
<1>8. CASE PostFinish
  <2>1. Posted /\ Save(path) /\ last' = "finished" /\ UNCHANGED idx
    BY <1>8 DEF PostFinish
  <2> QED
    BY <1>1, <2>1, SaveKeeps
<1>9. CASE PostContinue
  BY <1>9, ContinueKeeps
<1>10. CASE Cancel \/ Expire \/ UNCHANGED vars
  BY <1>10, CancelKeeps
<1> QED
  BY <1>2, <1>3, <1>4, <1>5, <1>6, <1>7, <1>8, <1>9, <1>10 DEF Next, Step

(* The invariant holds in every state of a session of Canvas.run.          *)
THEOREM CanvasInvariant == Spec => []IInv
  BY CanvasInit, CanvasNext, PTL DEF Spec

(* The path is one of components, what Canvas.run has walked of it is not  *)
(* more than it has, and outputs and counters of items are in range.       *)
THEOREM CanvasTypes == Spec => []TypeOK
<1>1. IInv => TypeOK
  BY DEF IInv, TypeInv
<1> QED
  BY <1>1, CanvasInvariant, PTL

(* A component that ran without an error and is still treated as failed    *)
(* failed in this round, or was saved with its error outside of the path.  *)
THEOREM OnlyNewErrors == Spec => []ErrorsAreNew
<1>1. IInv => ErrorsAreNew
  BY DEF IInv, ErrorInv
<1> QED
  BY <1>1, CanvasInvariant, PTL

(* No form of a user fill-up runs before the user has been asked for it in *)
(* this round, unless the round started with one.                          *)
THEOREM FormsAreAnswered == Spec => []AnswerFirst
<1>1. IInv => AnswerFirst
  BY DEF IInv, AnswerInv
<1> QED
  BY <1>1, CanvasInvariant, PTL
-----------------------------------------------------------------------------
(* NeverBlind.  Distances from begin: what LevelsOf defines.               *)
(* The equation that defines Levels has a solution: the lengths of the     *)
(* walks from begin.                                                       *)
IsWalk(s, l, c) ==
  /\ s[0] = Begin /\ s[l] = c
  /\ \A i \in 0 .. l - 1 : s[i] < s[i + 1] /\ s[i + 1] \in Edges(s[i])

Walks == [c \in Node |-> {l \in Nat : \E s \in [0 .. l -> Node] : IsWalk(s, l, c)}]

Ways(L, c) == UNION {{l + 1 : l \in L[p]} : p \in {q \in Node : q < c /\ c \in Edges(q)}}

(* The set of the lengths of the walks solves the equation: the last step  *)
(* of a walk is an edge from where a shorter one ends.                     *)
LEMMA WalksFromBegin ==
  ASSUME NEW c \in Node, Begin \in Node, Node \subseteq Nat
  PROVE  Walks[c] = IF c = Begin THEN {0} ELSE Ways(Walks, c)
<1>1. CASE c = Begin
  <2>1. 0 \in Walks[c]
    <3> DEFINE s == [i \in 0 .. 0 |-> Begin]
    <3>1. s \in [0 .. 0 -> Node] /\ IsWalk(s, 0, c)
      BY <1>1 DEF IsWalk
    <3> HIDE DEF s
    <3> QED
      BY <3>1 DEF Walks
  <2>2. ASSUME NEW l \in Walks[c] PROVE l = 0
    <3>1. l \in Nat /\ \E s \in [0 .. l -> Node] : IsWalk(s, l, c)
      BY <2>2 DEF Walks
    <3>2. PICK s \in [0 .. l -> Node] : IsWalk(s, l, c)
      BY <3>1
    <3>3. CASE l # 0
      <4>1. l - 1 \in 0 .. l - 1 /\ l - 1 \in 0 .. l /\ (l - 1) + 1 = l
        BY <3>1, <3>3
      <4>2. s[l - 1] < s[l] /\ s[l] = Begin
        BY <1>1, <3>2, <4>1 DEF IsWalk
      <4>3. s[l - 1] \in Nat
        BY <4>1
      <4> QED
        BY <4>2, <4>3 DEF Begin
    <3> QED
      BY <3>3
  <2> QED
    BY <1>1, <2>1, <2>2
<1>2. CASE c # Begin
  <2>1. ASSUME NEW l \in Walks[c] PROVE l \in Ways(Walks, c)
    <3>1. l \in Nat /\ \E s \in [0 .. l -> Node] : IsWalk(s, l, c)
      BY <2>1 DEF Walks
    <3>2. PICK s \in [0 .. l -> Node] : IsWalk(s, l, c)
      BY <3>1
    <3>3. l # 0
      BY <1>2, <3>2 DEF IsWalk
    <3>4. l - 1 \in Nat /\ l - 1 \in 0 .. l - 1 /\ l - 1 \in 0 .. l /\ (l - 1) + 1 = l
      BY <3>1, <3>3
    <3> DEFINE p == s[l - 1]
               t == [i \in 0 .. l - 1 |-> s[i]]
    <3>5. p \in Node /\ p < c /\ c \in Edges(p)
      BY <3>2, <3>4 DEF IsWalk
    <3>6. t \in [0 .. l - 1 -> Node] /\ IsWalk(t, l - 1, p)
      BY <3>1, <3>2, <3>4 DEF IsWalk
    <3>7. l - 1 \in Walks[p]
      <4> HIDE DEF t, p
      <4> QED
        BY <3>4, <3>5, <3>6 DEF Walks
    <3> HIDE DEF p
    <3> QED
      BY <3>4, <3>5, <3>7 DEF Ways
  <2>2. ASSUME NEW k \in Ways(Walks, c) PROVE k \in Walks[c]
    <3>1. PICK p \in Node : p < c /\ c \in Edges(p) /\ \E l \in Walks[p] : k = l + 1
      BY <2>2 DEF Ways
    <3>2. PICK l \in Walks[p] : k = l + 1
      BY <3>1
    <3>3. l \in Nat /\ \E s \in [0 .. l -> Node] : IsWalk(s, l, p)
      BY <3>2 DEF Walks
    <3>4. PICK s \in [0 .. l -> Node] : IsWalk(s, l, p)
      BY <3>3
    <3> DEFINE t == [i \in 0 .. k |-> IF i = k THEN c ELSE s[i]]
    <3>5. k \in Nat /\ k - 1 = l /\ 0 \in 0 .. l /\ k # 0
      BY <3>2, <3>3
    <3>6. t \in [0 .. k -> Node]
      BY <3>2, <3>3, <3>5
    <3>7. IsWalk(t, k, c)
      <4>1. t[0] = Begin /\ t[k] = c
        BY <3>4, <3>5 DEF IsWalk
      <4>2. ASSUME NEW i \in 0 .. k - 1 PROVE t[i] < t[i + 1] /\ t[i + 1] \in Edges(t[i])
        <5>1. CASE i = l
          <6>1. t[i] = p /\ t[i + 1] = c
            BY <3>2, <3>3, <3>4, <3>5, <5>1 DEF IsWalk
          <6> QED
            BY <3>1, <6>1
        <5>2. CASE i # l
          <6>1. i \in 0 .. l - 1 /\ t[i] = s[i] /\ t[i + 1] = s[i + 1]
            BY <3>2, <3>3, <3>5, <5>2
          <6> QED
            BY <3>4, <6>1 DEF IsWalk
        <5> QED
          BY <5>1, <5>2
      <4> QED
        BY <4>1, <4>2 DEF IsWalk
    <3> HIDE DEF t
    <3> QED
      BY <3>5, <3>6, <3>7 DEF Walks
  <2>3. Walks[c] = Ways(Walks, c)
    BY <2>1, <2>2
  <2> QED
    BY <1>2, <2>3
<1> QED
  BY <1>1, <1>2

(* So Levels, which is chosen among the solutions, is one.                 *)
LEMMA LevelsAreWays ==
  ASSUME Begin \in Node, Node \subseteq Nat
  PROVE  \A c \in Node : Levels[c] = IF c = Begin THEN {0} ELSE Ways(Levels, c)
<1> DEFINE Eq(L) ==
      L = [c \in Node |->
             IF c = Begin THEN {0}
             ELSE UNION {{l + 1 : l \in L[p]} : p \in {q \in Node : q < c /\ c \in EdgesOf(graph, q)}}]
<1>1. Eq(Walks)
  <2>1. ASSUME NEW c \in Node
        PROVE  Walks[c] = IF c = Begin THEN {0}
                          ELSE UNION {{l + 1 : l \in Walks[p]} :
                                        p \in {q \in Node : q < c /\ c \in EdgesOf(graph, q)}}
    BY WalksFromBegin DEF Ways, Edges
  <2>2. Walks = [c \in Node |-> Walks[c]]
    BY DEF Walks
  <2> QED
    BY <2>1, <2>2
<1>2. Levels = CHOOSE L : Eq(L)
  BY DEF Levels, LevelsOf
<1>3. Eq(Levels)
  <2>1. \E L : Eq(L)
    BY <1>1
  <2> HIDE DEF Eq
  <2> QED
    BY <1>2, <2>1, Zenon
<1> QED
  BY <1>3 DEF Ways, Edges

(* What is used of Levels: distances are natural numbers, begin is at      *)
(* distance 0, and the others are one further than where they are reached  *)
(* from.                                                                   *)
LEMMA LevelFacts ==
  ASSUME graph \in Graphs
  PROVE  /\ \A c \in Node : Levels[c] \subseteq Nat
         /\ Levels[Begin] = {0}
         /\ \A c \in Node \ {Begin} : \A k :
              k \in Levels[c] <=> \E p \in Node : /\ p < c /\ c \in Edges(p)
                                                  /\ \E l \in Levels[p] : k = l + 1
<1>1. Begin \in Node /\ Node \subseteq Nat
  BY GraphAssumption
<1>2. \A c \in Node : Levels[c] = IF c = Begin THEN {0} ELSE Ways(Levels, c)
  BY <1>1, LevelsAreWays
<1>3. ASSUME NEW c \in Node \ {Begin}, NEW k
      PROVE  k \in Levels[c] <=> \E p \in Node : /\ p < c /\ c \in Edges(p)
                                                 /\ \E l \in Levels[p] : k = l + 1
  <2>1. Levels[c] = Ways(Levels, c)
    BY <1>2
  <2> DEFINE P == {q \in Node : q < c /\ c \in Edges(q)}
  <2>2. k \in Levels[c] <=> \E p \in P : k \in {l + 1 : l \in Levels[p]}
    BY <2>1 DEF Ways
  <2>3. \A p : p \in P <=> p \in Node /\ p < c /\ c \in Edges(p)
    OBVIOUS
  <2>4. \A p : k \in {l + 1 : l \in Levels[p]} <=> \E l \in Levels[p] : k = l + 1
    OBVIOUS
  <2> HIDE DEF P
  <2> QED
    BY <2>2, <2>3, <2>4
<1> DEFINE K == {n \in Nat : \A c \in Node : c <= n => Levels[c] \subseteq Nat}
<1>4. 0 \in K
  <2> SUFFICES ASSUME NEW c \in Node, c <= 0 PROVE Levels[c] \subseteq Nat
    OBVIOUS
  <2>1. c = Begin
    BY <1>1 DEF Begin
  <2>2. Levels[c] = {0}
    BY <1>2, <2>1
  <2> QED
    BY <2>2
<1>5. ASSUME NEW n \in Nat, n \in K PROVE n + 1 \in K
  <2> SUFFICES ASSUME NEW c \in Node, c <= n + 1, NEW k \in Levels[c] PROVE k \in Nat
    OBVIOUS
  <2>1. CASE c = Begin
    BY <1>2, <2>1
  <2>2. CASE c # Begin
    <3>1. PICK p \in Node : p < c /\ \E l \in Levels[p] : k = l + 1
      BY <1>3, <2>2
    <3>2. p <= n
      BY <1>1, <3>1
    <3> QED
      BY <1>5, <3>1, <3>2
  <2> QED
    BY <2>1, <2>2
<1>6. Nat \subseteq K
  <2> HIDE DEF K
  <2> QED
    BY <1>4, <1>5, Induction
<1>7. ASSUME NEW c \in Node PROVE Levels[c] \subseteq Nat
  <2>1. c \in K /\ c <= c
    BY <1>1, <1>6
  <2> QED
    BY <2>1
<1> QED
  BY <1>1, <1>2, <1>3, <1>7
(* The shape of the graph does not change.                                 *)
LEMMA SameShape ==
  ASSUME graph' = graph
  PROVE  /\ Straight' = Straight /\ Checked' = Checked /\ Beside' = Beside
         /\ Branching' = Branching /\ Balanced' = Balanced /\ Upward' = Upward
         /\ Levels' = Levels /\ \A c : KindOf(c)' = KindOf(c)
         /\ \A k \in Nat : At(k)' = At(k) /\ Nearer(k)' = Nearer(k)
<1>1. Levels' = Levels /\ \A c : KindOf(c)' = KindOf(c)
  BY DEF Levels, KindOf
<1>2. \A c : Edges(c)' = Edges(c) /\ Handled(c)' = Handled(c)
  BY DEF Edges, Handled
<1>3. \A c : KindOf(c)' = KindOf(c)
  BY DEF KindOf
<1>4. Straight' <=> Straight
  BY <1>2, <1>3 DEF Straight
<1>5. Balanced' <=> Balanced
  BY <1>1, <1>4 DEF Balanced
<1>6. Beside' <=> Beside
  BY <1>1 DEF Beside
<1>7. Branching' <=> Branching
  BY <1>2, <1>3 DEF Branching
<1>8. Upward' <=> Upward
  BY <1>1 DEF Upward
<1>9. Checked' <=> Checked
  BY <1>3 DEF Checked
<1>10. \A k \in Nat : At(k)' = At(k) /\ Nearer(k)' = Nearer(k)
  BY <1>1 DEF At, Nearer
<1> QED
  BY <1>1, <1>4, <1>5, <1>6, <1>7, <1>8, <1>9, <1>10

(* In a straight graph without branching the path goes downstream.         *)
LEMMA Downstream ==
  ASSUME TypeInv, Straight, ~Branching, NEW c \in Node
  PROVE  /\ Successors(c) = graph.down[c] /\ graph.down[c] \in Seq(Node)
         /\ graph.goto[c] = <<>> /\ ~Handled(c) /\ Edges(c) = Range(graph.down[c])
         /\ KindOf(c) \in {"begin", "plain", "fillup"}
<1>1. graph \in Graphs
  BY DEF TypeInv
<1>2. KindOf(c) \in {"begin", "plain", "fillup"} /\ ~Handled(c)
  BY DEF Straight, Branching
<1>3. graph.goto[c] = <<>>
  BY <1>2 DEF Handled
<1>4. Edges(c) = Range(graph.down[c])
  <2>1. Range(<<>>) = {}
    BY DEF Range
  <2> QED
    BY <1>3, <2>1 DEF Edges, EdgesOf
<1>5. graph.parent[c] = NoParent
  <2>1. CASE graph.parent[c] \in Node
    <3>1. \E d \in Node : graph.parent[d] = graph.parent[c]
      OBVIOUS
    <3>2. \E d \in Node : KindOf(d) \in {"item", "loopitem"}
      BY <1>1, <2>1, <3>1, GraphFacts
    <3> QED
      BY <3>2 DEF Straight
  <2> QED
    BY <1>1, <2>1, GraphFacts
<1>6. Successors(c) = graph.down[c]
  BY <1>2, <1>5 DEF Successors, Ended, Exits
<1> QED
  BY <1>1, <1>2, <1>3, <1>4, <1>6, GraphFacts

(* Downstream of a component at distance k are those at distance k + 1.    *)
LEMMA LevelBelow ==
  ASSUME TypeInv, Straight, ~Branching, NEW c \in Node, NEW k \in Levels[c],
         NEW d \in Range(graph.down[c])
  PROVE  d \in Node /\ k + 1 \in Levels[d]
<1>1. graph \in Graphs /\ Node \subseteq Nat /\ Begin \in Node
  BY GraphAssumption DEF TypeInv
<1>2. d \in Edges(c) /\ d \in Node
  <2>1. Edges(c) = Range(graph.down[c]) /\ graph.down[c] \in Seq(Node)
    BY Downstream
  <2>2. d \in Node
    BY <2>1 DEF Range
  <2> QED
    BY <2>1, <2>2
<1>3. c < d
  BY <1>2 DEF Straight
<1>4. d # Begin
  BY <1>1, <1>3 DEF Begin
<1> QED
  BY <1>1, <1>2, <1>3, <1>4, LevelFacts

(* Each component at distance k + 1 is downstream of one at distance k.    *)
LEMMA LevelAbove ==
  ASSUME TypeInv, Straight, ~Branching, NEW k \in Nat, NEW d \in At(k + 1)
  PROVE  \E c \in At(k) : d \in Range(graph.down[c])
<1>1. graph \in Graphs
  BY DEF TypeInv
<1>2. d \in Node /\ k + 1 \in Levels[d]
  BY DEF At
<1>3. d # Begin
  BY <1>1, <1>2, LevelFacts
<1>4. PICK c \in Node : d \in Edges(c) /\ \E l \in Levels[c] : k + 1 = l + 1
  BY <1>1, <1>2, <1>3, LevelFacts
<1>5. Levels[c] \subseteq Nat
  BY <1>1, LevelFacts
<1>6. k \in Levels[c]
  BY <1>4, <1>5
<1>7. d \in Range(graph.down[c])
  BY <1>4, Downstream
<1> QED
  BY <1>6, <1>7 DEF At

-----------------------------------------------------------------------------
(* Extend appends nothing but successors, and each of them unless it is    *)
(* the last component of the path.                                         *)
LEMMA ExtendAdds ==
  ASSUME NEW p \in Seq(Node), NEW s \in Seq(Node), p # <<>>, NEW E, E = Extend(p, s)
  PROVE  /\ E \in Seq(Node) /\ Len(p) <= Len(E)
         /\ \A i \in 1 .. Len(p) : E[i] = p[i]
         /\ \A i \in Len(p) + 1 .. Len(E) : \E j \in 1 .. Len(s) : E[i] = s[j]
         /\ \A j \in 1 .. Len(s) : \E i \in Len(p) .. Len(E) : E[i] = s[j]
<1> DEFINE V == {r \in Seq(Node) :
                   /\ Len(p) <= Len(r)
                   /\ \A i \in 1 .. Len(p) : r[i] = p[i]
                   /\ \A i \in Len(p) + 1 .. Len(r) : \E j \in 1 .. Len(s) : r[i] = s[j]}
           W == [k \in 0 .. Len(s) |->
                   {r \in V : \A j \in 1 .. k : \E i \in Len(p) .. Len(r) : r[i] = s[j]}]
<1>1. /\ Len(p) \in Nat /\ Len(p) > 0 /\ Len(s) \in Nat
      /\ \A i \in 1 .. Len(s) : s[i] \in Node
  OBVIOUS
<1>2. p \in V
  <2>1. ~ \E i : i \in Len(p) + 1 .. Len(p)
    BY <1>1
  <2> QED
    BY <1>1, <2>1
<1>3. p \in W[0]
  <2>1. 0 \in 0 .. Len(s) /\ ~ \E j : j \in 1 .. 0
    BY <1>1
  <2> HIDE DEF V
  <2> QED
    BY <1>2, <2>1
<1>4. ASSUME NEW r \in V, NEW j \in 1 .. Len(s)
      PROVE  /\ StepOf("extend", r, s[j]) \in V
             /\ LET e == StepOf("extend", r, s[j])
                IN /\ Len(r) <= Len(e) /\ \A i \in 1 .. Len(r) : e[i] = r[i]
                   /\ e[Len(e)] = s[j]
  <2>1. r \in Seq(Node) /\ Len(r) \in Nat /\ Len(p) <= Len(r) /\ s[j] \in Node
    BY <1>1
  <2>2. CASE Last(r) = s[j]
    <3>1. StepOf("extend", r, s[j]) = r
      BY <2>2 DEF StepOf
    <3>2. r[Len(r)] = s[j]
      BY <2>2 DEF Last
    <3> HIDE DEF V
    <3> QED
      BY <2>1, <3>1, <3>2
  <2>3. CASE Last(r) # s[j]
    <3> DEFINE a == Append(r, s[j])
    <3>1. StepOf("extend", r, s[j]) = a
      BY <2>3 DEF StepOf
    <3>2. /\ a \in Seq(Node) /\ Len(a) = Len(r) + 1 /\ a[Len(r) + 1] = s[j]
          /\ \A i \in 1 .. Len(r) : a[i] = r[i]
      BY <2>1, Appending
    <3> HIDE DEF a
    <3>0. /\ \A i \in 1 .. Len(p) : r[i] = p[i]
          /\ \A i \in Len(p) + 1 .. Len(r) : \E k \in 1 .. Len(s) : r[i] = s[k]
      OBVIOUS
    <3>3. ASSUME NEW i \in Len(p) + 1 .. Len(a) PROVE \E k \in 1 .. Len(s) : a[i] = s[k]
      <4>1. CASE i = Len(r) + 1
        BY <3>2, <4>1
      <4>2. CASE i # Len(r) + 1
        <5>1. i \in Len(p) + 1 .. Len(r) /\ i \in 1 .. Len(r)
          <6> DEFINE lp == Len(p)
                     lr == Len(r)
          <6>1. lp \in Nat /\ lr \in Nat /\ i \in lp + 1 .. lr + 1 /\ i # lr + 1
            BY <1>1, <2>1, <3>2, <4>2
          <6> HIDE DEF lp, lr
          <6>2. i \in lp + 1 .. lr /\ i \in 1 .. lr
            BY <6>1
          <6> QED
            BY <6>2 DEF lp, lr
        <5> QED
          BY <3>2, <3>0, <5>1
      <4> QED
        BY <4>1, <4>2
    <3>4. \A i \in 1 .. Len(p) : i \in 1 .. Len(r)
      BY <1>1, <2>1
    <3>5. a \in V
      <4>1. \A i \in 1 .. Len(p) : a[i] = p[i]
        BY <3>2, <3>4, <3>0
      <4>2. Len(p) <= Len(a)
        BY <1>1, <2>1, <3>2
      <4> QED
        BY <3>2, <3>3, <4>1, <4>2
    <3> HIDE DEF V
    <3>6. Len(r) <= Len(a) /\ a[Len(a)] = s[j]
      BY <2>1, <3>2
    <3> QED
      BY <3>1, <3>2, <3>5, <3>6
  <2> QED
    BY <2>2, <2>3
<1>5. ASSUME NEW k \in 0 .. Len(s) - 1, NEW r \in V, r \in W[k]
      PROVE  StepOf("extend", r, s[k + 1]) \in W[k + 1]
  <2> DEFINE e == StepOf("extend", r, s[k + 1])
  <2>1. k + 1 \in 1 .. Len(s) /\ k \in 0 .. Len(s) /\ k + 1 \in 0 .. Len(s)
    BY <1>1
  <2>2. /\ e \in V /\ Len(r) <= Len(e) /\ \A i \in 1 .. Len(r) : e[i] = r[i]
        /\ e[Len(e)] = s[k + 1]
    BY <1>4, <2>1
  <2>3. Len(r) \in Nat /\ Len(e) \in Nat /\ Len(p) <= Len(r)
    BY <2>2
  <2>4. \A j \in 1 .. k : \E i \in Len(p) .. Len(r) : r[i] = s[j]
    BY <1>5, <2>1
  <2> HIDE DEF e, V
  <2>5. ASSUME NEW j \in 1 .. k + 1 PROVE \E i \in Len(p) .. Len(e) : e[i] = s[j]
    <3>1. CASE j = k + 1
      <4>1. Len(e) \in Len(p) .. Len(e)
        BY <1>1, <2>2, <2>3
      <4> QED
        BY <2>2, <3>1, <4>1
    <3>2. CASE j # k + 1
      <4>1. j \in 1 .. k
        BY <2>1, <3>2
      <4>2. PICK i \in Len(p) .. Len(r) : r[i] = s[j]
        BY <2>4, <4>1
      <4>3. i \in 1 .. Len(r) /\ i \in Len(p) .. Len(e)
        BY <1>1, <2>2, <2>3
      <4> QED
        BY <2>2, <4>2, <4>3
    <3> QED
      BY <3>1, <3>2
  <2>6. e \in W[k + 1]
    BY <2>1, <2>2, <2>5
  <2> QED
    BY <2>6 DEF e
<1>6. Fold("extend", p, s) \in V /\ Fold("extend", p, s) \in W[Len(s)]
  <2>1. \A r \in V : \A i \in 1 .. Len(s) : StepOf("extend", r, s[i]) \in V
    BY <1>4
  <2>2. \A k \in 0 .. Len(s) - 1 : \A r \in V :
          r \in W[k] => StepOf("extend", r, s[k + 1]) \in W[k + 1]
    BY <1>5
  <2> HIDE DEF V, W
  <2> QED
    BY <1>2, <1>3, <2>1, <2>2, FoldAt
<1>7. Extend(p, s) = Fold("extend", p, s)
  BY FoldsAreSteps DEF Extend
<1>8. Len(s) \in 0 .. Len(s)
  BY <1>1
<1> QED
  BY <1>6, <1>7, <1>8

(* Post-processing appends what comes after the batch, and all of it but   *)
(* for what is the last component of the path.                             *)
LEMMA FollowsAdds ==
  ASSUME TypeInv, path # <<>>
  PROVE  /\ \A i \in 1 .. Len(path) : Extended[i] = path[i]
         /\ \A i \in Len(path) + 1 .. Len(Extended) : \E j \in idx + 1 .. Len(path) :
              Extended[i] \in Range(Follows(path[j]))
         /\ \A j \in idx + 1 .. Len(path) : \A d \in Range(Follows(path[j])) :
              \E i \in Len(path) .. Len(Extended) : Extended[i] = d
<1> DEFINE q == From(path, idx + 1)
           n == Len(path)
           D(j) == Range(Follows(q[j]))
           V == {r \in Seq(Node) :
                   /\ n <= Len(r)
                   /\ \A i \in 1 .. n : r[i] = path[i]
                   /\ \A i \in n + 1 .. Len(r) : \E j \in 1 .. Len(q) : r[i] \in D(j)}
           W == [k \in 0 .. Len(q) |->
                   {r \in V : \A j \in 1 .. k : \A d \in D(j) : \E i \in n .. Len(r) : r[i] = d}]
<1>1. /\ path \in Seq(Node) /\ idx \in Nat /\ graph \in Graphs /\ n \in Nat /\ n > 0
      /\ q \in Seq(Node) /\ Len(q) \in Nat
  <2>1. path \in Seq(Node) /\ idx \in Nat /\ graph \in Graphs
    BY DEF TypeInv, TypeOK
  <2>2. q \in Seq(Node)
    BY <2>1, Parts
  <2>3. n \in Nat /\ n > 0
    BY <2>1
  <2> QED
    BY <2>1, <2>2, <2>3
<1>2. ASSUME NEW r \in Seq(Node), NEW j \in 1 .. Len(q), n <= Len(r)
      PROVE  LET e == StepOf("post", r, q[j])
             IN /\ e \in Seq(Node) /\ Len(r) <= Len(e)
                /\ \A i \in 1 .. Len(r) : e[i] = r[i]
                /\ \A i \in Len(r) + 1 .. Len(e) : e[i] \in D(j)
                /\ \A d \in D(j) : \E i \in Len(r) .. Len(e) : e[i] = d
  <2>1. q[j] \in Node
    <3> HIDE DEF q
    <3> QED
      BY <1>1
  <2> DEFINE s == Follows(q[j])
             e == StepOf("post", r, q[j])
  <2>2. s \in Seq(Node) /\ graph.goto[q[j]] \in Seq(Node)
    <3> HIDE DEF q
    <3>1. graph.goto[q[j]] \in Seq(Node)
      BY <1>1, <2>1, GraphFacts
    <3> QED
      BY <2>1, <3>1, SuccessorsIn DEF Follows
  <2>3. /\ Len(r) \in Nat /\ Len(s) \in Nat /\ r # <<>>
        /\ e = r \o s \/ e = Extend(r, s)
    <3> HIDE DEF q
    <3>1. e = r \o s \/ e = Extend(r, s)
      BY DEF StepOf, Follows
    <3>2. Len(r) \in Nat /\ Len(s) \in Nat /\ r # <<>>
      <4> HIDE DEF s, e, n
      <4> QED
        BY <1>1, <1>2, <2>2
    <3> QED
      BY <3>1, <3>2
  <2>4. \A d : d \in D(j) <=> \E h \in 1 .. Len(s) : d = s[h]
    BY <2>2 DEF Range
  <2> HIDE DEF q, s, e, D, n
  <2>5. /\ e \in Seq(Node) /\ Len(r) <= Len(e)
        /\ \A i \in 1 .. Len(r) : e[i] = r[i]
        /\ \A i \in Len(r) + 1 .. Len(e) : \E h \in 1 .. Len(s) : e[i] = s[h]
        /\ \A h \in 1 .. Len(s) : \E i \in Len(r) .. Len(e) : e[i] = s[h]
    <3>1. CASE e = Extend(r, s)
      <4>1. \A E : E = Extend(r, s) =>
              /\ E \in Seq(Node) /\ Len(r) <= Len(E)
              /\ \A i \in 1 .. Len(r) : E[i] = r[i]
              /\ \A i \in Len(r) + 1 .. Len(E) : \E h \in 1 .. Len(s) : E[i] = s[h]
              /\ \A h \in 1 .. Len(s) : \E i \in Len(r) .. Len(E) : E[i] = s[h]
        BY <2>2, <2>3, ExtendAdds
      <4> QED
        BY <3>1, <4>1
    <3>2. CASE e = r \o s
      <4>1. /\ e \in Seq(Node) /\ Len(e) = Len(r) + Len(s)
            /\ \A i \in 1 .. Len(r) : e[i] = r[i]
            /\ \A h \in 1 .. Len(s) : e[Len(r) + h] = s[h]
        BY <2>2, <3>2
      <4>2. ASSUME NEW i \in Len(r) + 1 .. Len(e) PROVE \E h \in 1 .. Len(s) : e[i] = s[h]
        <5>1. i - Len(r) \in 1 .. Len(s) /\ Len(r) + (i - Len(r)) = i
          BY <2>3, <4>1
        <5> QED
          BY <4>1, <5>1
      <4>3. ASSUME NEW h \in 1 .. Len(s) PROVE \E i \in Len(r) .. Len(e) : e[i] = s[h]
        <5>1. Len(r) + h \in Len(r) .. Len(e)
          BY <2>3, <4>1
        <5> QED
          BY <4>1, <5>1
      <4>4. Len(r) <= Len(e)
        BY <2>3, <4>1
      <4> QED
        BY <4>1, <4>2, <4>3, <4>4
    <3> QED
      BY <2>3, <3>1, <3>2
  <2>8. \A i \in Len(r) + 1 .. Len(e) : e[i] \in D(j)
    BY <2>4, <2>5
  <2>9. \A d \in D(j) : \E i \in Len(r) .. Len(e) : e[i] = d
    BY <2>4, <2>5
  <2> QED
    BY <2>5, <2>8, <2>9 DEF e
<1>3. path \in V
  <2>1. ~ \E i : i \in n + 1 .. n
    BY <1>1
  <2> HIDE DEF D, q
  <2> QED
    BY <1>1, <2>1
<1>4. path \in W[0]
  <2>1. 0 \in 0 .. Len(q) /\ ~ \E j : j \in 1 .. 0
    BY <1>1
  <2> HIDE DEF V, D, q
  <2> QED
    BY <1>3, <2>1
<1>5. ASSUME NEW r \in V, NEW j \in 1 .. Len(q) PROVE StepOf("post", r, q[j]) \in V
  <2> DEFINE e == StepOf("post", r, q[j])
  <2>1. r \in Seq(Node) /\ n <= Len(r) /\ Len(r) \in Nat
    OBVIOUS
  <2>2. /\ e \in Seq(Node) /\ Len(r) <= Len(e)
        /\ \A i \in 1 .. Len(r) : e[i] = r[i]
        /\ \A i \in Len(r) + 1 .. Len(e) : e[i] \in D(j)
    <3> HIDE DEF D, V, q
    <3> QED
      BY <1>2, <2>1
  <2>3. /\ \A i \in 1 .. n : r[i] = path[i]
        /\ \A i \in n + 1 .. Len(r) : \E h \in 1 .. Len(q) : r[i] \in D(h)
    OBVIOUS
  <2>4. Len(e) \in Nat
    <3> HIDE DEF e
    <3> QED
      BY <2>2
  <2>5. n <= Len(e) /\ \A i \in 1 .. n : i \in 1 .. Len(r)
    <3> HIDE DEF e, n
    <3> QED
      BY <1>1, <2>1, <2>2, <2>4
  <2> HIDE DEF e, n, q, D
  <2>6. ASSUME NEW i \in n + 1 .. Len(e) PROVE \E h \in 1 .. Len(q) : e[i] \in D(h)
    <3>1. CASE i <= Len(r)
      <4>1. i \in n + 1 .. Len(r) /\ i \in 1 .. Len(r)
        BY <1>1, <2>1, <2>4, <3>1
      <4> QED
        BY <2>2, <2>3, <4>1
    <3>2. CASE ~(i <= Len(r))
      <4>1. i \in Len(r) + 1 .. Len(e)
        BY <1>1, <2>1, <2>4, <3>2
      <4> QED
        BY <2>2, <4>1
    <3> QED
      BY <3>1, <3>2
  <2>7. \A i \in 1 .. n : e[i] = path[i]
    BY <2>2, <2>3, <2>5
  <2>8. e \in V
    BY <2>2, <2>5, <2>6, <2>7
  <2> QED
    BY <2>8 DEF e
<1>6. ASSUME NEW k \in 0 .. Len(q) - 1, NEW r \in V, r \in W[k]
      PROVE  StepOf("post", r, q[k + 1]) \in W[k + 1]
  <2> DEFINE e == StepOf("post", r, q[k + 1])
  <2>1. k + 1 \in 1 .. Len(q) /\ k \in 0 .. Len(q) /\ k + 1 \in 0 .. Len(q) /\ k \in Nat
    <3> HIDE DEF q
    <3> QED
      BY <1>1
  <2>2. r \in Seq(Node) /\ n <= Len(r) /\ Len(r) \in Nat
    OBVIOUS
  <2>3. /\ e \in Seq(Node) /\ Len(r) <= Len(e)
        /\ \A i \in 1 .. Len(r) : e[i] = r[i]
        /\ \A d \in D(k + 1) : \E i \in Len(r) .. Len(e) : e[i] = d
    <3> HIDE DEF D, V, q
    <3> QED
      BY <1>2, <2>1, <2>2
  <2>4. e \in V
    <3> HIDE DEF D, V, q
    <3> QED
      BY <1>5, <2>1
  <2>5. \A j \in 1 .. k : \A d \in D(j) : \E i \in n .. Len(r) : r[i] = d
    <3> HIDE DEF D, V, q
    <3> QED
      BY <1>6, <2>1
  <2>6. Len(e) \in Nat
    <3> HIDE DEF e
    <3> QED
      BY <2>3
  <2> HIDE DEF D, V, q, e, n
  <2>7. ASSUME NEW j \in 1 .. k + 1, NEW d \in D(j) PROVE \E i \in n .. Len(e) : e[i] = d
    <3>1. CASE j = k + 1
      <4>1. PICK i \in Len(r) .. Len(e) : e[i] = d
        BY <2>3, <2>7, <3>1
      <4>2. i \in n .. Len(e)
        BY <1>1, <2>2, <2>6
      <4> QED
        BY <4>1, <4>2
    <3>2. CASE j # k + 1
      <4>1. j \in 1 .. k
        BY <2>1, <3>2
      <4>2. PICK i \in n .. Len(r) : r[i] = d
        BY <2>5, <2>7, <4>1
      <4>3. i \in 1 .. Len(r) /\ i \in n .. Len(e)
        BY <1>1, <2>2, <2>3, <2>6
      <4> QED
        BY <2>3, <4>2, <4>3
    <3> QED
      BY <3>1, <3>2
  <2>8. e \in W[k + 1]
    BY <2>1, <2>4, <2>7
  <2> QED
    BY <2>8 DEF e
<1>7. Fold("post", path, q) \in V /\ Fold("post", path, q) \in W[Len(q)]
  <2> HIDE DEF V, W, q, D, n
  <2>1. \A r \in V : \A j \in 1 .. Len(q) : StepOf("post", r, q[j]) \in V
    BY <1>5
  <2>2. \A k \in 0 .. Len(q) - 1 : \A r \in V :
          r \in W[k] => StepOf("post", r, q[k + 1]) \in W[k + 1]
    BY <1>6
  <2>3. q \in Seq(Node)
    BY <1>1
  <2> QED
    BY <1>3, <1>4, <2>1, <2>2, <2>3, FoldAt
<1>8. Extended = Fold("post", path, q)
  BY FoldsAreSteps DEF Extended
<1>9. /\ \A i \in 1 .. n : Extended[i] = path[i]
      /\ \A i \in n + 1 .. Len(Extended) : \E j \in 1 .. Len(q) : Extended[i] \in D(j)
      /\ \A j \in 1 .. Len(q) : \A d \in D(j) : \E i \in n .. Len(Extended) : Extended[i] = d
  <2>1. Len(q) \in 0 .. Len(q)
    BY <1>1
  <2>2. Extended \in V /\ Extended \in W[Len(q)]
    <3> HIDE DEF V, W, q
    <3> QED
      BY <1>7, <1>8
  <2> HIDE DEF D, q, n
  <2>3. /\ \A i \in 1 .. n : Extended[i] = path[i]
        /\ \A i \in n + 1 .. Len(Extended) : \E j \in 1 .. Len(q) : Extended[i] \in D(j)
    BY <2>2
  <2> HIDE DEF V
  <2>4. \A j \in 1 .. Len(q) : \A d \in D(j) : \E i \in n .. Len(Extended) : Extended[i] = d
    BY <2>1, <2>2
  <2> QED
    BY <2>3, <2>4
<1>10. /\ \A j \in 1 .. Len(q) : idx + j \in idx + 1 .. n /\ q[j] = path[idx + j]
       /\ \A i \in idx + 1 .. n : i - idx \in 1 .. Len(q) /\ q[i - idx] = path[i]
  BY <1>1, Parts
<1> HIDE DEF q
<1>11. ASSUME NEW i \in n + 1 .. Len(Extended)
       PROVE  \E j \in idx + 1 .. n : Extended[i] \in Range(Follows(path[j]))
  <2>1. PICK j \in 1 .. Len(q) : Extended[i] \in D(j)
    BY <1>9
  <2>2. idx + j \in idx + 1 .. n /\ q[j] = path[idx + j]
    BY <1>10
  <2>3. Extended[i] \in Range(Follows(path[idx + j]))
    BY <2>1, <2>2
  <2> QED
    BY <2>2, <2>3
<1>12. ASSUME NEW j \in idx + 1 .. n, NEW d \in Range(Follows(path[j]))
       PROVE  \E i \in n .. Len(Extended) : Extended[i] = d
  <2>1. j - idx \in 1 .. Len(q) /\ q[j - idx] = path[j]
    BY <1>10
  <2>2. d \in D(j - idx)
    BY <1>12, <2>1
  <2> QED
    BY <1>9, <2>1, <2>2
<1> QED
  BY <1>9, <1>11, <1>12

(* In a straight graph without branching this goes downstream.             *)
LEMMA PendingAdds ==
  ASSUME TypeInv, Straight, ~Branching, path # <<>>
  PROVE  /\ \A i \in 1 .. Len(path) : Extended[i] = path[i]
         /\ \A i \in Len(path) + 1 .. Len(Extended) : \E j \in idx + 1 .. Len(path) :
              Extended[i] \in Range(graph.down[path[j]])
         /\ \A j \in idx + 1 .. Len(path) : \A d \in Range(graph.down[path[j]]) :
              \E i \in Len(path) .. Len(Extended) : Extended[i] = d
<1>1. ASSUME NEW j \in idx + 1 .. Len(path) PROVE Follows(path[j]) = graph.down[path[j]]
  <2>1. path \in Seq(Node) /\ idx \in Nat
    BY DEF TypeInv, TypeOK
  <2>2. j \in 1 .. Len(path)
    BY <2>1
  <2>3. path[j] \in Node
    BY <2>1, <2>2
  <2> QED
    BY <2>3, Downstream DEF Follows
<1> QED
  BY <1>1, FollowsAdds

(* The two parts of FillupsFirst: the fill-ups, and the others.            *)
Selects(x, c) == (x = "fillups") <=> (KindOf(c) = "fillup")

(* A part has what its condition selects, and nothing else.                *)
LEMMA PartHas ==
  ASSUME NEW x \in {"fillups", "others"}, NEW s \in Seq(Node), NEW F, F = Fold(x, <<>>, s)
  PROVE  /\ F \in Seq(Node)
         /\ \A i \in 1 .. Len(F) : \E j \in 1 .. Len(s) : F[i] = s[j] /\ Selects(x, s[j])
         /\ \A j \in 1 .. Len(s) : Selects(x, s[j]) => \E i \in 1 .. Len(F) : F[i] = s[j]
<1> DEFINE V == Seq(Node)
           W == [k \in 0 .. Len(s) |->
                   {r \in V :
                      /\ \A i \in 1 .. Len(r) : \E j \in 1 .. k : r[i] = s[j] /\ Selects(x, s[j])
                      /\ \A j \in 1 .. k : Selects(x, s[j]) => \E i \in 1 .. Len(r) : r[i] = s[j]}]
<1>1. Len(s) \in Nat /\ \A j \in 1 .. Len(s) : s[j] \in Node
  OBVIOUS
<1>2. <<>> \in V /\ <<>> \in W[0]
  <2>1. 0 \in 0 .. Len(s) /\ Len(<<>>) = 0 /\ ~ \E j : j \in 1 .. 0
    BY <1>1
  <2>2. <<>> \in V
    OBVIOUS
  <2> HIDE DEF V
  <2> QED
    BY <2>1, <2>2
<1>3. ASSUME NEW r \in V, NEW c \in Node
      PROVE  StepOf(x, r, c) = IF Selects(x, c) THEN Append(r, c) ELSE r
  BY DEF StepOf, Selects
<1>4. \A r \in V : \A j \in 1 .. Len(s) : StepOf(x, r, s[j]) \in V
  <2> TAKE r \in V
  <2> TAKE j \in 1 .. Len(s)
  <2>1. s[j] \in Node /\ Append(r, s[j]) \in V
    BY <1>1, Appending
  <2> HIDE DEF V
  <2> QED
    BY <1>3, <2>1
<1>5. ASSUME NEW k \in 0 .. Len(s) - 1, NEW r \in V, r \in W[k]
      PROVE  StepOf(x, r, s[k + 1]) \in W[k + 1]
  <2> DEFINE e == StepOf(x, r, s[k + 1])
             c == s[k + 1]
  <2>1. /\ k \in Nat /\ k \in 0 .. Len(s) /\ k + 1 \in 0 .. Len(s) /\ k + 1 \in 1 .. Len(s)
        /\ \A j \in 1 .. k : j \in 1 .. k + 1
        /\ \A j \in 1 .. k + 1 : j = k + 1 \/ j \in 1 .. k
    BY <1>1
  <2>2. /\ \A i \in 1 .. Len(r) : \E j \in 1 .. k : r[i] = s[j] /\ Selects(x, s[j])
        /\ \A j \in 1 .. k : Selects(x, s[j]) => \E i \in 1 .. Len(r) : r[i] = s[j]
    <3> HIDE DEF V
    <3> QED
      BY <1>5, <2>1
  <2>3. c \in Node /\ e \in V /\ k + 1 \in 1 .. k + 1 /\ Len(r) \in Nat
    BY <1>1, <1>4, <2>1
  <2>4. e = IF Selects(x, c) THEN Append(r, c) ELSE r
    BY <1>3, <2>3
  <2>5. CASE Selects(x, c)
    <3>1. /\ e = Append(r, c) /\ Len(e) = Len(r) + 1 /\ e[Len(r) + 1] = c
          /\ \A i \in 1 .. Len(r) : e[i] = r[i]
      BY <2>3, <2>4, <2>5, Appending
    <3>2. /\ \A i \in 1 .. Len(e) : i = Len(r) + 1 \/ i \in 1 .. Len(r)
          /\ \A i \in 1 .. Len(r) : i \in 1 .. Len(e)
          /\ Len(r) + 1 \in 1 .. Len(e)
      BY <2>3, <3>1
    <3> HIDE DEF V, e
    <3>3. ASSUME NEW i \in 1 .. Len(e)
          PROVE  \E j \in 1 .. k + 1 : e[i] = s[j] /\ Selects(x, s[j])
      <4>1. CASE i = Len(r) + 1
        BY <2>3, <2>5, <3>1, <4>1
      <4>2. CASE i \in 1 .. Len(r)
        BY <2>1, <2>2, <3>1, <4>2
      <4> QED
        BY <3>2, <4>1, <4>2
    <3>4. ASSUME NEW j \in 1 .. k + 1, Selects(x, s[j]) PROVE \E i \in 1 .. Len(e) : e[i] = s[j]
      <4>1. CASE j = k + 1
        BY <3>1, <3>2, <4>1
      <4>2. CASE j \in 1 .. k
        <5>1. PICK i \in 1 .. Len(r) : r[i] = s[j]
          BY <2>2, <3>4, <4>2
        <5> QED
          BY <3>1, <3>2, <5>1
      <4> QED
        BY <2>1, <4>1, <4>2
    <3>5. e \in W[k + 1]
      BY <2>1, <2>3, <3>3, <3>4
    <3> QED
      BY <3>5 DEF e
  <2>6. CASE ~Selects(x, c)
    <3>1. e = r
      BY <2>4, <2>6
    <3> HIDE DEF V, e
    <3>2. e \in W[k + 1]
      BY <2>1, <2>2, <2>3, <2>6, <3>1
    <3> QED
      BY <3>2 DEF e
  <2> QED
    BY <2>5, <2>6
<1>6. F \in V /\ F \in W[Len(s)]
  <2>1. \A k \in 0 .. Len(s) - 1 : \A r \in V :
          r \in W[k] => StepOf(x, r, s[k + 1]) \in W[k + 1]
    BY <1>5
  <2> HIDE DEF V, W
  <2> QED
    BY <1>2, <1>4, <2>1, FoldAt
<1>7. Len(s) \in 0 .. Len(s)
  BY <1>1
<1> QED
  BY <1>6, <1>7

(* FillupsFirst only reorders, and what it begins with is a fill-up.       *)
LEMMA FillupsFirstHas ==
  ASSUME NEW s \in Seq(Node), NEW R, R = FillupsFirst(s),
         \E j \in 1 .. Len(s) : KindOf(s[j]) = "fillup"
  PROVE  /\ \A i \in 1 .. Len(R) : \E j \in 1 .. Len(s) : R[i] = s[j]
         /\ \A j \in 1 .. Len(s) : \E i \in 1 .. Len(R) : R[i] = s[j]
         /\ IsResume(R)
<1> DEFINE a == Fold("fillups", <<>>, s)
           b == Fold("others", <<>>, s)
<1>1. R = a \o b
  BY FoldsAreSteps DEF FillupsFirst
<1>2. /\ a \in Seq(Node)
      /\ \A i \in 1 .. Len(a) : \E j \in 1 .. Len(s) : a[i] = s[j] /\ KindOf(s[j]) = "fillup"
      /\ \A j \in 1 .. Len(s) : KindOf(s[j]) = "fillup" => \E i \in 1 .. Len(a) : a[i] = s[j]
  <2> HIDE DEF a
  <2>1. \A F : F = Fold("fillups", <<>>, s) =>
          /\ F \in Seq(Node)
          /\ \A i \in 1 .. Len(F) : \E j \in 1 .. Len(s) : F[i] = s[j] /\ Selects("fillups", s[j])
          /\ \A j \in 1 .. Len(s) : Selects("fillups", s[j]) => \E i \in 1 .. Len(F) : F[i] = s[j]
    BY PartHas
  <2> QED
    BY <2>1 DEF a, Selects
<1>3. /\ b \in Seq(Node)
      /\ \A i \in 1 .. Len(b) : \E j \in 1 .. Len(s) : b[i] = s[j]
      /\ \A j \in 1 .. Len(s) : KindOf(s[j]) # "fillup" => \E i \in 1 .. Len(b) : b[i] = s[j]
  <2> HIDE DEF b
  <2>1. \A F : F = Fold("others", <<>>, s) =>
          /\ F \in Seq(Node)
          /\ \A i \in 1 .. Len(F) : \E j \in 1 .. Len(s) : F[i] = s[j] /\ Selects("others", s[j])
          /\ \A j \in 1 .. Len(s) : Selects("others", s[j]) => \E i \in 1 .. Len(F) : F[i] = s[j]
    BY PartHas
  <2> QED
    BY <2>1 DEF b, Selects
<1> HIDE DEF a, b
<1>4. /\ Len(a) \in Nat /\ Len(b) \in Nat /\ Len(R) = Len(a) + Len(b) /\ R \in Seq(Node)
      /\ \A i \in 1 .. Len(a) : R[i] = a[i]
      /\ \A i \in Len(a) + 1 .. Len(a) + Len(b) : R[i] = b[i - Len(a)]
  <2>1. a \in Seq(Node) /\ b \in Seq(Node)
    BY <1>2, <1>3
  <2> QED
    BY <1>1, <2>1, ConcatProperties
<1>5. ASSUME NEW i \in 1 .. Len(R) PROVE \E j \in 1 .. Len(s) : R[i] = s[j]
  <2>1. CASE i <= Len(a)
    <3>1. i \in 1 .. Len(a)
      BY <1>4, <2>1
    <3>2. PICK j \in 1 .. Len(s) : a[i] = s[j]
      BY <1>2, <3>1
    <3>3. R[i] = a[i]
      BY <1>4, <3>1
    <3> QED
      BY <3>2, <3>3
  <2>2. CASE ~(i <= Len(a))
    <3>1. i \in Len(a) + 1 .. Len(a) + Len(b) /\ i - Len(a) \in 1 .. Len(b)
      BY <1>4, <2>2
    <3> QED
      BY <1>3, <1>4, <3>1
  <2> QED
    BY <2>1, <2>2
<1>6. ASSUME NEW j \in 1 .. Len(s) PROVE \E i \in 1 .. Len(R) : R[i] = s[j]
  <2>1. CASE KindOf(s[j]) = "fillup"
    <3>1. PICK i \in 1 .. Len(a) : a[i] = s[j]
      BY <1>2, <2>1
    <3>2. i \in 1 .. Len(R)
      BY <1>4
    <3> QED
      BY <1>4, <3>1, <3>2
  <2>2. CASE KindOf(s[j]) # "fillup"
    <3>1. PICK i \in 1 .. Len(b) : b[i] = s[j]
      BY <1>3, <2>2
    <3>2. Len(a) + i \in 1 .. Len(R) /\ Len(a) + i \in Len(a) + 1 .. Len(a) + Len(b)
          /\ (Len(a) + i) - Len(a) = i
      BY <1>4
    <3>3. R[Len(a) + i] = b[i]
      BY <1>4, <3>2
    <3> QED
      BY <3>1, <3>2, <3>3
  <2> QED
    BY <2>1, <2>2
<1>7. IsResume(R)
  <2>1. PICK i \in 1 .. Len(a) : TRUE
    BY <1>2
  <2>2. 1 \in 1 .. Len(a) /\ Len(R) > 0
    BY <1>4
  <2>3. KindOf(R[1]) = "fillup"
    BY <1>2, <1>4, <2>2
  <2>4. R # <<>> /\ Head(R) = R[1]
    BY <1>4, <2>2
  <2> QED
    BY <2>3, <2>4 DEF IsResume
<1> QED
  BY <1>5, <1>6, <1>7

(* A component makes something if all it refers to is there, and a form    *)
(* has its answer.                                                         *)
LEMMA MadeOut ==
  ASSUME TypeInv, NEW c \in Node, KindOf(c) = "fillup" => answers,
         \A r \in graph.refs[c] : out[r] > 0
  PROVE  Made(c) > 0 /\ ~Missing(c)
<1>1. /\ graph.items \in Nat \ {0} /\ graph.refs[c] \in SUBSET Node
      /\ out \in [Node -> -1 .. graph.items]
  BY GraphFacts DEF TypeInv, TypeOK
<1>2. ~Missing(c)
  <2>1. \A r \in graph.refs[c] \ failed : ~(out[r] <= 0)
    BY <1>1
  <2> QED
    BY <2>1 DEF Missing
<1> DEFINE T == {out[r] : r \in graph.refs[c]}
<1>a. ~(KindOf(c) = "fillup" /\ ~answers)
  OBVIOUS
<1>3. CASE graph.refs[c] = {}
  <2>1. Made(c) = 1
    BY <1>a, <1>3 DEF Made
  <2> QED
    BY <1>2, <2>1
<1>4. CASE graph.refs[c] # {}
  <2>1. Made(c) = Min(T)
    BY <1>a, <1>4 DEF Made
  <2>2. T \in SUBSET (-1 .. graph.items) /\ T # {} /\ \A t \in T : t > 0
    BY <1>1, <1>4
  <2> HIDE DEF T
  <2>3. graph.items \in Nat
    BY <1>1
  <2>4. Min(T) \in T
    BY <2>2, <2>3, MinIsIn
  <2> QED
    BY <1>2, <2>1, <2>2, <2>4
<1> QED
  BY <1>2, <1>3, <1>4

(* A component that finishes, and what it refers to is there, has not run  *)
(* without it, and has made something or failed.                           *)
LEMMA FinishKeeps ==
  ASSUME IInv, NEW i \in todo, Run(i) \/ Fail(i), Straight, ~Branching, ~midway, SeesAll, Done,
         \A r \in graph.refs[path[i]] : out[r] > 0
  PROVE  SeesAll' /\ Done' /\ \A c \in Node : out[c] > 0 => out'[c] > 0
<1> DEFINE c == path[i]
<1>1. /\ phase = "run" /\ todo' = todo \ {i} /\ Note(c)
      /\ graph' = graph /\ phase' = phase /\ path' = path /\ idx' = idx
  BY DEF Run, Fail
<1>2. /\ TypeInv /\ AnswerInv /\ c \in Node /\ i \in idx + 1 .. Len(path)
  BY <1>1, InBatch DEF IInv
<1>3. /\ out \in [Node -> -1 .. graph.items] /\ err \in [Node -> BOOLEAN]
      /\ path \in Seq(Node) /\ idx \in Nat
  BY <1>2 DEF TypeInv, TypeOK
<1>4. KindOf(c) = "fillup" => answers
  BY <1>1, <1>2 DEF AnswerInv
<1>5. Made(c) > 0 /\ ~Missing(c)
  BY <1>2, <1>4, MadeOut
<1>6. KindOf(c) \in {"begin", "plain", "fillup"}
  BY <1>2, Downstream
<1> HIDE DEF c
<1>7. SeesAll'
  <2>1. blind' = blind
    BY <1>1, <1>5 DEF Note
  <2> QED
    BY <1>1, <2>1 DEF SeesAll, KindOf
<1>8. CASE Run(i)
  <2>1. out' = [out EXCEPT ![c] = Made(c)] /\ err' = err
    BY <1>6, <1>8 DEF Run, c
  <2>2. \A d \in Node : out[d] > 0 => out'[d] > 0
    BY <1>3, <1>5, <2>1
  <2>3. out'[c] > 0
    BY <1>2, <1>3, <1>5, <2>1
  <2>4. ASSUME NEW j \in idx + 1 .. Len(path) PROVE j \in todo' \/ out'[path[j]] > 0 \/ err'[path[j]]
    <3>1. path[j] \in Node
      <4>1. j \in 1 .. Len(path)
        BY <1>3
      <4> QED
        BY <1>3, <4>1
    <3>2. CASE j = i
      BY <2>3, <3>2 DEF c
    <3>3. CASE j # i
      BY <1>1, <2>1, <2>2, <3>1, <3>3 DEF Done
    <3> QED
      BY <3>2, <3>3
  <2>5. Done'
    BY <1>1, <2>4 DEF Done
  <2> QED
    BY <1>7, <2>2, <2>5
<1>9. CASE Fail(i)
  <2>1. out' = out /\ err' = [err EXCEPT ![c] = TRUE]
    BY <1>9 DEF Fail, c
  <2>2. err'[c] /\ \A d \in Node : err[d] => err'[d]
    BY <1>2, <1>3, <2>1
  <2>4. ASSUME NEW j \in idx + 1 .. Len(path) PROVE j \in todo' \/ out'[path[j]] > 0 \/ err'[path[j]]
    <3>1. path[j] \in Node
      <4>1. j \in 1 .. Len(path)
        BY <1>3
      <4> QED
        BY <1>3, <4>1
    <3>2. CASE j = i
      BY <2>2, <3>2 DEF c
    <3>3. CASE j # i
      BY <1>1, <2>1, <2>2, <3>1, <3>3 DEF Done
    <3> QED
      BY <3>2, <3>3
  <2>5. Done'
    BY <1>1, <2>4 DEF Done
  <2> QED
    BY <1>7, <2>1, <2>5
<1> QED
  BY <1>8, <1>9

(* A batch without a failure has been made, and has more after it only if  *)
(* it is not empty.                                                        *)
LEMMA BatchIsMade ==
  ASSUME TypeInv, Straight, ~Branching, Done, todo = {}, Broken = {},
         NEW i \in idx + 1 .. Len(path)
  PROVE  path[i] \in Node /\ out[path[i]] > 0
<1>1. path \in Seq(Node) /\ idx \in Nat
  BY DEF TypeInv, TypeOK
<1>2. i \in 1 .. Len(path)
  BY <1>1
<1>3. path[i] \in Node
  BY <1>1, <1>2
<1>4. path[i] \in Batch
  <2> DEFINE q == From(path, idx + 1)
  <2>1. i - idx \in 1 .. Len(q) /\ q[i - idx] = path[i] /\ q \in Seq(Node)
    BY <1>1, Parts
  <2> HIDE DEF q
  <2>2. path[i] \in Range(q)
    BY <2>1 DEF Range
  <2> QED
    BY <2>2 DEF Batch, q
<1>5. ~Handled(path[i])
  BY <1>3, Downstream
<1>6. ~err[path[i]]
  BY <1>4, <1>5 DEF Broken
<1> QED
  BY <1>3, <1>6 DEF Done

(* What is known of a batch that starts.                                   *)
LEMMA BatchParts ==
  ASSUME TypeInv, phase # "idle", NEW p, p = SubSeq(path, 1, idx),
         NEW q, q = From(path, idx + 1)
  PROVE  /\ path \in Seq(Node) /\ idx \in Nat /\ Len(path) \in Nat /\ idx <= Len(path)
         /\ p \in Seq(Node) /\ Len(p) = idx /\ \A i \in 1 .. idx : p[i] = path[i]
         /\ q \in Seq(Node) /\ Len(q) \in Nat /\ idx + Len(q) = Len(path)
         /\ \A j \in 1 .. Len(q) : /\ q[j] = path[idx + j] /\ q[j] \in Node
                                   /\ idx + j \in idx + 1 .. Len(path)
<1>1. path \in Seq(Node) /\ idx \in Nat /\ idx <= Len(path) /\ Len(path) \in Nat
  BY DEF TypeInv, TypeOK
<1>2. p \in Seq(Node) /\ Len(p) = idx /\ q \in Seq(Node) /\ Len(q) \in Nat
  <2>1. /\ SubSeq(path, 1, idx) \in Seq(Node) /\ Len(SubSeq(path, 1, idx)) = idx
        /\ From(path, idx + 1) \in Seq(Node)
    BY <1>1, Parts
  <2> QED
    BY <2>1
<1>3. \A i \in 1 .. idx : p[i] = path[i]
  <2> DEFINE s == SubSeq(path, 1, idx)
  <2>1. \A i \in 1 .. idx : path[i] \in Node
    BY <1>1
  <2>2. 1 \in Int /\ idx \in Int /\ \A i \in 1 .. idx - 1 + 1 : s[i] = path[1 + i - 1]
    BY <1>1, <2>1, SubSeqProperties
  <2> HIDE DEF s
  <2>3. ASSUME NEW i \in 1 .. idx PROVE s[i] = path[i]
    <3>1. i \in 1 .. idx - 1 + 1 /\ 1 + i - 1 = i
      BY <1>1
    <3> QED
      BY <2>2, <3>1
  <2> QED
    BY <2>3 DEF s
<1>4. /\ \A j \in 1 .. Len(q) : idx + j \in idx + 1 .. Len(path) /\ q[j] = path[idx + j]
      /\ \A i \in idx + 1 .. Len(path) : i - idx \in 1 .. Len(q)
  BY <1>1, Parts
<1>5. idx + Len(q) = Len(path)
  <2>1. CASE Len(q) = 0
    <3>1. ~(Len(path) \in idx + 1 .. Len(path))
      BY <1>1, <1>4, <2>1
    <3> QED
      BY <1>1, <2>1, <3>1
  <2>2. CASE Len(q) > 0
    <3>1. Len(q) \in 1 .. Len(q)
      BY <1>2, <2>2
    <3>2. idx + Len(q) \in idx + 1 .. Len(path)
      BY <1>4, <3>1
    <3>3. Len(path) \in idx + 1 .. Len(path)
      BY <1>1, <1>2, <3>2
    <3>4. Len(path) - idx \in 1 .. Len(q)
      BY <1>4, <3>3
    <3> QED
      BY <1>1, <1>2, <3>2, <3>4
  <2> QED
    BY <1>2, <2>1, <2>2
<1>6. \A j \in 1 .. Len(q) : q[j] \in Node
  BY <1>2
<1> QED
  BY <1>1, <1>2, <1>3, <1>4, <1>5, <1>6

(* Nothing is dropped if a form is first, or the path has all that the     *)
(* batch refers to.                                                        *)
LEMMA KeepsAll ==
  ASSUME TypeInv, phase # "idle",
         IsResume(path) \/ \A i \in idx + 1 .. Len(path) : graph.refs[path[i]] \subseteq Walked
  PROVE  Fold("keep", SubSeq(path, 1, idx), From(path, idx + 1)) = path
<1> DEFINE p == SubSeq(path, 1, idx)
           q == From(path, idx + 1)
           V == Seq(Node)
           W == [k \in 0 .. Len(q) |->
                   {r \in V : Len(r) = idx + k /\ \A i \in 1 .. Len(r) : r[i] = path[i]}]
<1>1. /\ path \in Seq(Node) /\ idx \in Nat /\ Len(path) \in Nat /\ idx <= Len(path)
      /\ p \in Seq(Node) /\ Len(p) = idx /\ \A i \in 1 .. idx : p[i] = path[i]
      /\ q \in Seq(Node) /\ Len(q) \in Nat /\ idx + Len(q) = Len(path)
      /\ \A j \in 1 .. Len(q) : /\ q[j] = path[idx + j] /\ q[j] \in Node
                                /\ idx + j \in idx + 1 .. Len(path)
  <2> HIDE DEF p, q
  <2>1. \A s, t : s = SubSeq(path, 1, idx) /\ t = From(path, idx + 1) =>
          /\ path \in Seq(Node) /\ idx \in Nat /\ Len(path) \in Nat /\ idx <= Len(path)
          /\ s \in Seq(Node) /\ Len(s) = idx /\ \A i \in 1 .. idx : s[i] = path[i]
          /\ t \in Seq(Node) /\ Len(t) \in Nat /\ idx + Len(t) = Len(path)
          /\ \A j \in 1 .. Len(t) : /\ t[j] = path[idx + j] /\ t[j] \in Node
                                    /\ idx + j \in idx + 1 .. Len(path)
    BY BatchParts
  <2> QED
    BY <2>1 DEF p, q
<1> HIDE DEF p, q
<1>2. p \in V /\ p \in W[0]
  <2>1. 0 \in 0 .. Len(q) /\ idx + 0 = idx
    BY <1>1
  <2> QED
    BY <1>1, <2>1
<1>3. ASSUME NEW r \in V, NEW j \in 1 .. Len(q)
      PROVE  StepOf("keep", r, q[j]) \in V
  <2>1. q[j] \in Node /\ Append(r, q[j]) \in V
    BY <1>1, Appending
  <2> HIDE DEF V
  <2> QED
    BY <2>1 DEF StepOf
<1>4. ASSUME NEW k \in 0 .. Len(q) - 1, NEW r \in V, r \in W[k]
      PROVE  StepOf("keep", r, q[k + 1]) \in W[k + 1]
  <2> DEFINE c == q[k + 1]
             a == Append(r, c)
  <2>1. /\ k \in Nat /\ k \in 0 .. Len(q) /\ k + 1 \in 0 .. Len(q) /\ k + 1 \in 1 .. Len(q)
        /\ idx + k + 1 = idx + (k + 1)
    BY <1>1
  <2>2. /\ r \in Seq(Node) /\ Len(r) = idx + k /\ \A i \in 1 .. Len(r) : r[i] = path[i]
        /\ Len(r) \in Nat
    BY <1>1, <1>4, <2>1
  <2>3. c = path[Len(r) + 1] /\ c \in Node /\ Len(r) + 1 \in idx + 1 .. Len(path)
    BY <1>1, <2>1, <2>2
  <2>4. ~Waits(r, c)
    <3>1. CASE IsResume(path)
      <4>1. path # <<>> /\ Head(path) = path[1] /\ KindOf(path[1]) = "fillup"
        BY <1>1, <3>1 DEF IsResume
      <4>2. CASE Len(r) = 0
        <5>1. KindOf(c) = "fillup"
          BY <2>3, <4>1, <4>2
        <5> QED
          BY <5>1 DEF Waits
      <4>3. CASE Len(r) > 0
        <5>1. r # <<>> /\ Head(r) = r[1] /\ 1 \in 1 .. Len(r)
          BY <2>2, <4>3
        <5>2. IsResume(r)
          BY <2>2, <4>1, <5>1 DEF IsResume
        <5> QED
          BY <5>2 DEF Waits
      <4> QED
        BY <2>2, <4>2, <4>3
    <3>2. CASE \A i \in idx + 1 .. Len(path) : graph.refs[path[i]] \subseteq Walked
      <4>1. graph.refs[c] \subseteq Walked
        BY <2>3, <3>2
      <4>2. ASSUME NEW x \in Walked PROVE x \in Range(r)
        <5>1. PICK i \in 1 .. idx : x = path[i]
          BY DEF Walked
        <5>2. i \in 1 .. Len(r) /\ r[i] = x
          BY <1>1, <2>1, <2>2, <5>1
        <5> QED
          BY <2>2, <5>2 DEF Range
      <4> QED
        BY <4>1, <4>2 DEF Waits
    <3> QED
      BY <3>1, <3>2
  <2>5. StepOf("keep", r, c) = a
    BY <2>4 DEF StepOf
  <2>6. /\ a \in Seq(Node) /\ Len(a) = Len(r) + 1 /\ a[Len(r) + 1] = c
        /\ \A i \in 1 .. Len(r) : a[i] = r[i]
    BY <2>2, <2>3, Appending
  <2> HIDE DEF a, c
  <2>7. ASSUME NEW i \in 1 .. Len(a) PROVE a[i] = path[i]
    <3>1. CASE i = Len(r) + 1
      BY <2>3, <2>6, <3>1
    <3>2. CASE i # Len(r) + 1
      <4>1. i \in 1 .. Len(r)
        BY <2>2, <2>6, <3>2
      <4> QED
        BY <2>2, <2>6, <4>1
    <3> QED
      BY <3>1, <3>2
  <2>8. Len(a) = idx + (k + 1)
    BY <1>1, <2>1, <2>2, <2>6
  <2>9. a \in W[k + 1]
    BY <2>1, <2>6, <2>7, <2>8
  <2> QED
    BY <2>5, <2>9 DEF c
<1>5. Fold("keep", p, q) \in V /\ Fold("keep", p, q) \in W[Len(q)]
  <2>1. /\ \A r \in V : \A j \in 1 .. Len(q) : StepOf("keep", r, q[j]) \in V
        /\ \A k \in 0 .. Len(q) - 1 : \A r \in V :
             r \in W[k] => StepOf("keep", r, q[k + 1]) \in W[k + 1]
    BY <1>3, <1>4
  <2> HIDE DEF V, W
  <2> QED
    BY <1>1, <1>2, <2>1, FoldAt
<1> DEFINE P == Fold("keep", p, q)
<1>6. P \in Seq(Node) /\ Len(P) = Len(path) /\ \A i \in 1 .. Len(P) : P[i] = path[i]
  <2>1. Len(q) \in 0 .. Len(q)
    BY <1>1
  <2> HIDE DEF P
  <2>2. P \in V /\ P \in W[Len(q)]
    BY <1>5 DEF P
  <2> QED
    BY <1>1, <2>1, <2>2
<1>7. P = path
  <2> HIDE DEF P
  <2> QED
    BY <1>1, <1>6, SeqEqual
<1> QED
  BY <1>7 DEF p, q

(* In a first turn, a component that is kept has what it refers to.        *)
LEMMA KeepsFound ==
  ASSUME TypeInv, AnswerInv, phase # "idle", Checked, ~Beside, ~midway, ~answers,
         path # <<>>, path[1] = Begin, NEW k \in Nat, BatchIn(k),
         NEW P, P = Fold("keep", SubSeq(path, 1, idx), From(path, idx + 1))
  PROVE  /\ P # <<>> /\ P[1] = Begin /\ \A i \in 1 .. idx : P[i] = path[i]
         /\ \A i \in idx + 1 .. Len(P) : P[i] \in At(k) /\ graph.refs[P[i]] \subseteq Walked
<1> DEFINE p == SubSeq(path, 1, idx)
           q == From(path, idx + 1)
           V == {r \in Seq(Node) :
                   /\ idx <= Len(r) /\ \A i \in 1 .. idx : r[i] = path[i]
                   /\ r # <<>> => KindOf(r[1]) # "fillup"
                   /\ \A i \in idx + 1 .. Len(r) :
                        r[i] \in At(k) /\ graph.refs[r[i]] \subseteq Walked}
           W == [n \in 0 .. Len(q) |->
                   {r \in V : /\ idx + n > 0 => r # <<>>
                              /\ r # <<>> => r[1] = Begin}]
<1>1. /\ path \in Seq(Node) /\ idx \in Nat /\ Len(path) \in Nat /\ idx <= Len(path)
      /\ p \in Seq(Node) /\ Len(p) = idx /\ \A i \in 1 .. idx : p[i] = path[i]
      /\ q \in Seq(Node) /\ Len(q) \in Nat /\ idx + Len(q) = Len(path)
      /\ \A j \in 1 .. Len(q) : /\ q[j] = path[idx + j] /\ q[j] \in Node
                                /\ idx + j \in idx + 1 .. Len(path)
  <2> HIDE DEF p, q
  <2>1. \A s, t : s = SubSeq(path, 1, idx) /\ t = From(path, idx + 1) =>
          /\ path \in Seq(Node) /\ idx \in Nat /\ Len(path) \in Nat /\ idx <= Len(path)
          /\ s \in Seq(Node) /\ Len(s) = idx /\ \A i \in 1 .. idx : s[i] = path[i]
          /\ t \in Seq(Node) /\ Len(t) \in Nat /\ idx + Len(t) = Len(path)
          /\ \A j \in 1 .. Len(t) : /\ t[j] = path[idx + j] /\ t[j] \in Node
                                    /\ idx + j \in idx + 1 .. Len(path)
    BY BatchParts
  <2> QED
    BY <2>1 DEF p, q
<1> HIDE DEF p, q
<1>2. graph \in Graphs /\ Begin \in Node /\ KindOf(Begin) = "begin" /\ Len(path) > 0
  <2>1. graph \in Graphs
    BY DEF TypeInv
  <2> QED
    BY <1>1, <2>1, GraphFacts DEF KindOf
<1>3. \A j \in 1 .. Len(q) : q[j] \in At(k) /\ KindOf(q[j]) # "fillup"
  BY <1>1 DEF BatchIn, AnswerInv
<1>4. p \in V /\ p \in W[0]
  <2>1. 0 \in 0 .. Len(q) /\ ~ \E i : i \in idx + 1 .. Len(p)
    BY <1>1
  <2>2. p # <<>> => idx > 0 /\ p[1] = Begin
    <3>1. ASSUME p # <<>> PROVE idx > 0 /\ p[1] = Begin
      <4>1. idx > 0
        BY <1>1, <3>1
      <4>2. 1 \in 1 .. idx
        BY <1>1, <4>1
      <4> QED
        BY <1>1, <4>1, <4>2
    <3> QED
      BY <3>1
  <2>3. idx + 0 > 0 => p # <<>>
    BY <1>1
  <2>4. p \in V
    BY <1>1, <1>2, <2>1, <2>2
  <2> HIDE DEF V
  <2> QED
    BY <2>1, <2>2, <2>3, <2>4
<1>5. ASSUME NEW r \in V, NEW j \in 1 .. Len(q)
      PROVE  /\ StepOf("keep", r, q[j]) \in V
             /\ \/ StepOf("keep", r, q[j]) = r /\ Waits(r, q[j])
                \/ StepOf("keep", r, q[j]) = Append(r, q[j])
  <2> DEFINE c == q[j]
             a == Append(r, c)
  <2>1. /\ r \in Seq(Node) /\ Len(r) \in Nat /\ idx <= Len(r)
        /\ \A i \in 1 .. idx : r[i] = path[i]
        /\ r # <<>> => KindOf(r[1]) # "fillup"
        /\ \A i \in idx + 1 .. Len(r) : r[i] \in At(k) /\ graph.refs[r[i]] \subseteq Walked
    OBVIOUS
  <2>2. c \in Node /\ c \in At(k) /\ KindOf(c) # "fillup"
    BY <1>1, <1>3
  <2>3. CASE Waits(r, c)
    <3>1. StepOf("keep", r, c) = r
      BY <2>3 DEF StepOf
    <3> HIDE DEF V
    <3> QED
      BY <2>3, <3>1
  <2>4. CASE ~Waits(r, c)
    <3>1. StepOf("keep", r, c) = a
      BY <2>4 DEF StepOf
    <3>2. /\ a \in Seq(Node) /\ Len(a) = Len(r) + 1 /\ a[Len(r) + 1] = c
          /\ \A i \in 1 .. Len(r) : a[i] = r[i]
      BY <2>1, <2>2, Appending
    <3>3. ASSUME NEW x \in graph.refs[c] PROVE x \in Walked
      <4>0. x \in Node
        BY <1>2, <2>2, GraphFacts
      <4>1. c \in graph.text /\ KindOf(c) # "begin"
        BY <2>2, <3>3 DEF Checked
      <4>2. ~IsResume(r)
        <5>1. r # <<>> => Head(r) = r[1]
          BY <2>1
        <5> QED
          BY <2>1, <5>1 DEF IsResume
      <4>3. x \in Range(r)
        BY <2>2, <2>4, <3>3, <4>1, <4>2 DEF Waits
      <4>4. PICK i \in 1 .. Len(r) : x = r[i]
        BY <2>1, <4>3 DEF Range
      <4>5. CASE i <= idx
        <5>1. i \in 1 .. idx /\ x = path[i]
          BY <1>1, <2>1, <4>4, <4>5
        <5> QED
          BY <5>1 DEF Walked
      <4>6. CASE ~(i <= idx)
        <5>1. i \in idx + 1 .. Len(r)
          BY <1>1, <2>1, <4>6
        <5>2. x \in At(k)
          BY <2>1, <4>4, <5>1
        <5>3. k \in Levels[c] \cap Levels[x]
          BY <2>2, <5>2 DEF At
        <5> QED
          BY <2>2, <3>3, <5>3 DEF Beside
      <4> QED
        BY <4>5, <4>6
    <3> HIDE DEF a, c
    <3>4. ASSUME NEW i \in idx + 1 .. Len(a)
          PROVE  a[i] \in At(k) /\ graph.refs[a[i]] \subseteq Walked
      <4>1. CASE i = Len(r) + 1
        BY <2>2, <3>2, <3>3, <4>1
      <4>2. CASE i # Len(r) + 1
        <5>1. i \in idx + 1 .. Len(r) /\ i \in 1 .. Len(r)
          BY <1>1, <2>1, <3>2, <4>2
        <5> QED
          BY <2>1, <3>2, <5>1
      <4> QED
        BY <4>1, <4>2
    <3>5. KindOf(a[1]) # "fillup"
      <4>1. CASE r = <<>>
        <5>1. a[1] = c
          BY <3>2, <4>1
        <5> QED
          BY <2>2, <5>1
      <4>2. CASE r # <<>>
        <5>1. 1 \in 1 .. Len(r)
          BY <2>1, <4>2
        <5> QED
          BY <2>1, <3>2, <4>2, <5>1
      <4> QED
        BY <4>1, <4>2
    <3>6. idx <= Len(a) /\ \A i \in 1 .. idx : a[i] = path[i]
      <4>1. \A i \in 1 .. idx : i \in 1 .. Len(r)
        BY <1>1, <2>1
      <4> QED
        BY <1>1, <2>1, <3>2, <4>1
    <3>7. a \in V
      BY <3>2, <3>4, <3>5, <3>6
    <3> HIDE DEF V
    <3> QED
      BY <3>1, <3>7 DEF a, c
  <2> QED
    BY <2>3, <2>4
<1>6. ASSUME NEW n \in 0 .. Len(q) - 1, NEW r \in V, r \in W[n]
      PROVE  StepOf("keep", r, q[n + 1]) \in W[n + 1]
  <2> DEFINE e == StepOf("keep", r, q[n + 1])
  <2>1. /\ n \in Nat /\ n \in 0 .. Len(q) /\ n + 1 \in 0 .. Len(q) /\ n + 1 \in 1 .. Len(q)
    BY <1>1
  <2>2. (idx + n > 0 => r # <<>>) /\ (r # <<>> => r[1] = Begin)
    <3> HIDE DEF V
    <3> QED
      BY <1>6, <2>1
  <2>3. r \in Seq(Node) /\ q[n + 1] \in Node
    BY <1>1, <2>1
  <2>4. e \in V /\ ((e = r /\ Waits(r, q[n + 1])) \/ e = Append(r, q[n + 1]))
    <3> HIDE DEF V
    <3> QED
      BY <1>5, <2>1
  <2>5. e # <<>> /\ e[1] = Begin
    <3>1. CASE r # <<>>
      <4>1. Len(r) \in Nat /\ 1 \in 1 .. Len(r)
        BY <2>3, <3>1
      <4>2. Append(r, q[n + 1])[1] = r[1] /\ Append(r, q[n + 1]) # <<>>
        BY <2>3, <4>1, AppendProperties
      <4> QED
        BY <2>2, <2>4, <3>1, <4>2
    <3>2. CASE r = <<>>
      <4>1. idx = 0 /\ n = 0
        BY <1>1, <2>1, <2>2, <3>2
      <4>2. q[n + 1] = Begin
        BY <1>1, <2>1, <4>1
      <4>3. ~Waits(r, q[n + 1])
        BY <1>2, <4>2 DEF Waits
      <4>4. e = Append(<<>>, Begin)
        BY <2>4, <3>2, <4>2, <4>3
      <4> HIDE DEF e
      <4>5. Append(<<>>, Begin) # <<>> /\ Append(<<>>, Begin)[1] = Begin
        BY <1>2
      <4> QED
        BY <4>4, <4>5
    <3> QED
      BY <3>1, <3>2
  <2> HIDE DEF V, e
  <2>6. e \in W[n + 1]
    BY <2>1, <2>4, <2>5
  <2> QED
    BY <2>6 DEF e
<1>7. Fold("keep", p, q) \in V /\ Fold("keep", p, q) \in W[Len(q)]
  <2>1. /\ \A r \in V : \A j \in 1 .. Len(q) : StepOf("keep", r, q[j]) \in V
        /\ \A n \in 0 .. Len(q) - 1 : \A r \in V :
             r \in W[n] => StepOf("keep", r, q[n + 1]) \in W[n + 1]
    BY <1>5, <1>6
  <2> HIDE DEF V, W
  <2> QED
    BY <1>1, <1>4, <2>1, FoldAt
<1>8. P = Fold("keep", p, q)
  BY DEF p, q
<1>9. Len(q) \in 0 .. Len(q) /\ idx + Len(q) > 0
  BY <1>1, <1>2
<1>10. P \in V /\ P \in W[Len(q)]
  BY <1>7, <1>8
<1>11. P # <<>> /\ P[1] = Begin
  <2> HIDE DEF V
  <2> QED
    BY <1>9, <1>10
<1> QED
  BY <1>10, <1>11

(* What does not depend on the flow.                                       *)
LEMMA SameCases ==
  ASSUME UNCHANGED <<graph, turns, midway>>
  PROVE  /\ (FirstTurn' <=> FirstTurn) /\ (Even' <=> Even)
         /\ \A k \in Nat : At(k)' = At(k) /\ Nearer(k)' = Nearer(k)
         /\ blind' = blind => (SeesAll' <=> SeesAll)
<1>1. /\ Straight' = Straight /\ Checked' = Checked /\ Beside' = Beside
      /\ Branching' = Branching /\ Balanced' = Balanced /\ Upward' = Upward
      /\ \A c : KindOf(c)' = KindOf(c)
      /\ \A k \in Nat : At(k)' = At(k) /\ Nearer(k)' = Nearer(k)
  BY SameShape
<1>2. FirstTurn' <=> FirstTurn
  BY <1>1, Zenon DEF FirstTurn
<1>3. Even' <=> Even
  BY <1>1, Zenon DEF Even
<1>4. blind' = blind => (SeesAll' <=> SeesAll)
  BY <1>1 DEF SeesAll
<1> QED
  BY <1>1, <1>2, <1>3, <1>4

(* The first component is the only one at distance 0.                      *)
LEMMA BeginIsFirst ==
  ASSUME graph \in Graphs
  PROVE  At(0) = {Begin} /\ Nearer(0) = {}
<1>1. /\ \A c \in Node : Levels[c] \subseteq Nat
      /\ Levels[Begin] = {0} /\ Begin \in Node
      /\ \A c \in Node \ {Begin} : \A k :
           k \in Levels[c] <=> \E p \in Node : /\ p < c /\ c \in Edges(p)
                                               /\ \E l \in Levels[p] : k = l + 1
  BY LevelFacts, GraphAssumption
<1>2. ASSUME NEW c \in Node, 0 \in Levels[c] PROVE c = Begin
  <2>1. SUFFICES ASSUME c # Begin PROVE FALSE
    OBVIOUS
  <2>2. PICK p \in Node : \E l \in Levels[p] : 0 = l + 1
    BY <1>1, <1>2, <2>1
  <2>3. PICK l \in Levels[p] : 0 = l + 1
    BY <2>2
  <2>4. l \in Nat
    BY <1>1
  <2> QED
    BY <2>3, <2>4
<1>3. \A c \in Node : \A l \in Levels[c] : ~(l < 0)
  BY <1>1
<1> QED
  BY <1>1, <1>2, <1>3 DEF At, Nearer

(* The invariants of NeverBlind hold in a new session.                     *)
LEMMA SightInit == Init => SightInv
<1> SUFFICES ASSUME Init PROVE SightInv
  OBVIOUS
<1>1. phase = "idle" /\ last = "finished" /\ saved.path = <<>> /\ turns = 0 /\ blind = {}
  BY DEF Init
<1>2. SeesAll
  BY <1>1 DEF SeesAll
<1>3. FirstInv
  BY <1>1 DEF FirstInv, FirstTurn
<1>4. RoundInv
  BY <1>1, <1>2 DEF RoundInv
<1> QED
  BY <1>3, <1>4 DEF SightInv

(* A turn starts with begin, or with what was saved when it paused.        *)
LEMMA SightTurn == IInv /\ SightInv /\ Turn => SightInv'
<1> SUFFICES ASSUME IInv, SightInv, Turn PROVE SightInv'
  OBVIOUS
<1> DEFINE p == saved.path
           resume == IsResume(p)
           paused == last = "paused"
<1>1. /\ graph' = graph /\ phase = "idle" /\ phase' = "batch"
      /\ path' = (IF resume THEN p ELSE Append(p, Begin))
      /\ idx' = (IF resume THEN 0 ELSE Len(p))
      /\ out' = [c \in Node |-> IF c \in Range(p) THEN 0
                                ELSE IF saved.out[c] # 0 /\ ~paused THEN -1 ELSE saved.out[c]]
      /\ answers' = paused /\ turns' = turns + 1
      /\ midway' = ((resume /\ ~paused) \/ (paused /\ midway))
      /\ IF paused THEN blind' = blind ELSE blind' = {}
  BY DEF Turn
<1>2. /\ graph \in Graphs /\ p \in Seq(Node) /\ Len(p) \in Nat /\ Begin \in Node
      /\ saved.out \in [Node -> -1 .. graph.items]
  BY GraphAssumption DEF IInv, TypeInv, TypeOK
<1>3. FirstInv /\ RoundInv
  BY DEF SightInv
<1>4. /\ \A k \in Nat : At(k)' = At(k) /\ Nearer(k)' = Nearer(k)
      /\ Balanced' = Balanced /\ Upward' = Upward /\ Branching' = Branching
      /\ \A c : KindOf(c)' = KindOf(c)
  BY <1>1, SameShape
<1>5. At(0) = {Begin} /\ Nearer(0) = {}
  BY <1>2, BeginIsFirst
<1> HIDE DEF p, resume, paused
<1>6. ~resume => /\ path' # <<>> /\ path'[idx' + 1] = Begin /\ Len(path') = idx' + 1 /\ idx' \in Nat
                 /\ path' = Append(p, Begin)
  BY <1>1, <1>2, AppendProperties
<1>7. ~resume => {path'[j] : j \in idx' + 1 .. Len(path')} = {Begin}
  <2> SUFFICES ASSUME ~resume PROVE {path'[j] : j \in idx' + 1 .. Len(path')} = {Begin}
    OBVIOUS
  <2>1. \A j : j \in idx' + 1 .. Len(path') <=> j = idx' + 1
    BY <1>6
  <2> QED
    BY <1>6, <2>1
<1>8. FirstInv'
  <2>1. turns \in Nat /\ turns' \in Nat /\ turns' # 0
    BY <1>1, <1>3 DEF FirstInv
  <2>2. ASSUME turns' = 1
        PROVE  /\ SeesAll' /\ ~answers' /\ path' # <<>> /\ path'[1] = Begin
               /\ (\E k \in Nat : BatchIn(k))' /\ idx' = 0
    <3>1. turns = 0
      BY <1>1, <2>1, <2>2
    <3>2. ~paused /\ p = <<>>
      BY <1>3, <3>1 DEF FirstInv, p, paused
    <3>3. ~resume
      BY <3>2 DEF resume, IsResume
    <3>4. idx' = 0 /\ blind' = {} /\ ~answers'
      BY <1>1, <3>2, <3>3
    <3>5. path' # <<>> /\ path'[1] = Begin
      BY <1>6, <3>3, <3>4
    <3>6. SeesAll'
      BY <3>4 DEF SeesAll
    <3>7. BatchIn(0)'
      <4>1. At(0)' = {Begin}
        BY <1>4, <1>5
      <4>2. \A j \in idx' + 1 .. Len(path') : path'[j] = Begin
        BY <1>7, <3>3
      <4> QED
        BY <4>1, <4>2 DEF BatchIn
    <3> QED
      BY <3>4, <3>5, <3>6, <3>7
  <2>3. idx' = 0 => \A i \in (1 .. idx)' : FALSE
    OBVIOUS
  <2> QED
    BY <1>1, <2>1, <2>2, <2>3 DEF FirstInv, FirstTurn
<1>9. RoundInv'
  <2> SUFFICES ASSUME Even' PROVE SeesAll' /\ (\E k \in Nat : RoundAt(k))'
    BY <1>1 DEF RoundInv
  <2>1. ~midway' /\ Balanced /\ Upward /\ ~Branching
    BY <1>4, Zenon DEF Even
  <2>2. CASE paused
    <3>1. ~midway
      BY <1>1, <2>1, <2>2, Zenon
    <3>2. Even
      BY <2>1, <3>1, Zenon DEF Even
    <3>3. SeesAll /\ \E k \in Nat : PauseAt(k)
      BY <1>1, <1>3, <2>2, <3>2 DEF RoundInv, paused
    <3>4. PICK k \in Nat : PauseAt(k)
      BY <3>3
    <3>5. /\ {p[j] : j \in 1 .. Len(p)} = At(k) /\ resume
          /\ \A c \in Nearer(k) : saved.out[c] > 0
      BY <3>4 DEF PauseAt, IsBatch, p, resume
    <3>6. path' = p /\ idx' = 0 /\ blind' = blind
      BY <1>1, <2>2, <3>5
    <3>7. SeesAll'
      BY <1>4, <3>3, <3>6 DEF SeesAll
    <3>8. \A c \in Node : c \in Range(p) => c \in At(k)
      BY <1>2, <3>5 DEF Range
    <3>9. \A c \in Nearer(k) : c \in Node /\ c \notin At(k)
      <4> SUFFICES ASSUME NEW c \in Nearer(k) PROVE c \in Node /\ c \notin At(k)
        OBVIOUS
      <4>1. c \in Node /\ \E l \in Levels[c] : l < k
        BY DEF Nearer
      <4>2. PICK l \in Levels[c] : l < k
        BY <4>1
      <4>3. \A m \in Levels[c] : m = l
        BY <2>1, <4>1 DEF Balanced
      <4>4. ~(k < k)
        OBVIOUS
      <4> QED
        BY <4>1, <4>2, <4>3, <4>4 DEF At
    <3>10. \A c \in Nearer(k) : out'[c] > 0
      BY <1>1, <2>2, <3>5, <3>8, <3>9
    <3>11. path' # <<>> /\ IsResume(path)'
      <4>1. p # <<>> /\ KindOf(Head(p)) = "fillup"
        BY <3>5 DEF resume, IsResume
      <4>2. path' # <<>> /\ graph'.kind[Head(path')] = "fillup"
        BY <1>1, <3>6, <4>1 DEF KindOf
      <4> QED
        BY <4>2 DEF IsResume, KindOf
    <3>12. IsBatch(path, idx, k)'
      BY <1>4, <3>5, <3>6 DEF IsBatch
    <3>13. RoundAt(k)'
      BY <1>4, <3>10, <3>11, <3>12 DEF RoundAt
    <3> QED
      BY <3>7, <3>13
  <2>3. CASE ~paused
    <3>1. ~resume /\ blind' = {}
      BY <1>1, <2>1, <2>3
    <3>2. SeesAll'
      BY <3>1 DEF SeesAll
    <3>3. IsBatch(path, idx, 0)'
      BY <1>4, <1>5, <1>7, <3>1 DEF IsBatch
    <3>4. Nearer(0)' = {}
      BY <1>4, <1>5
    <3>5. RoundAt(0)'
      BY <1>6, <3>1, <3>3, <3>4 DEF RoundAt
    <3> QED
      BY <3>2, <3>5
  <2> QED
    BY <2>2, <2>3
<1> QED
  BY <1>8, <1>9 DEF SightInv

(* A turn that ends otherwise than by a pause.                             *)
LEMMA SightEnd ==
  ASSUME SightInv, UNCHANGED <<graph, turns, midway, blind>>,
         phase # "idle", phase' = "idle", last' # "paused"
  PROVE  SightInv'
<1>1. FirstInv /\ RoundInv
  BY DEF SightInv
<1>2. (FirstTurn' <=> FirstTurn) /\ (Even' <=> Even) /\ (SeesAll' <=> SeesAll)
  BY SameCases
<1>3. turns \in Nat /\ turns # 0
  BY <1>1 DEF FirstInv
<1>4. FirstInv'
  BY <1>1, <1>2, <1>3 DEF FirstInv
<1>5. RoundInv'
  BY <1>1, <1>2 DEF RoundInv
<1> QED
  BY <1>4, <1>5 DEF SightInv

(* The cancel flag, and steps that change nothing.                         *)
LEMMA SightCancel == SightInv /\ (Cancel \/ Expire \/ UNCHANGED vars) => SightInv'
<1> SUFFICES ASSUME SightInv, Cancel \/ Expire \/ UNCHANGED vars PROVE SightInv'
  OBVIOUS
<1>1. /\ phase' = phase /\ path' = path /\ idx' = idx /\ todo' = todo /\ out' = out /\ err' = err
      /\ graph' = graph /\ turns' = turns /\ midway' = midway /\ blind' = blind
      /\ last' = last /\ saved' = saved /\ answers' = answers
  BY DEF Cancel, Expire, vars, flow, data, roundVars, bounds
<1>2. FirstInv /\ RoundInv
  BY DEF SightInv
<1>3. /\ (FirstTurn' <=> FirstTurn) /\ (Even' <=> Even) /\ (SeesAll' <=> SeesAll)
      /\ \A k \in Nat : At(k)' = At(k) /\ Nearer(k)' = Nearer(k)
  BY <1>1, SameCases
<1>4. (Done' <=> Done) /\ (Found' <=> Found) /\ Walked' = Walked
  BY <1>1 DEF Done, Found, Walked
<1>5. (\E k \in Nat : BatchIn(k))' <=> \E k \in Nat : BatchIn(k)
  BY <1>1, <1>3 DEF BatchIn
<1>6. FirstInv'
  BY <1>1, <1>2, <1>3, <1>4, <1>5 DEF FirstInv
<1>7. \A k \in Nat : (RoundAt(k)' <=> RoundAt(k)) /\ (PauseAt(k)' <=> PauseAt(k))
  <2> TAKE k \in Nat
  <2>1. IsBatch(path, idx, k)' <=> IsBatch(path, idx, k)
    BY <1>1, <1>3 DEF IsBatch
  <2>2. IsBatch(saved.path, 0, k)' <=> IsBatch(saved.path, 0, k)
    BY <1>1, <1>3 DEF IsBatch
  <2>3. (IsResume(path)' <=> IsResume(path)) /\ (IsResume(saved.path)' <=> IsResume(saved.path))
    BY <1>1 DEF IsResume, KindOf
  <2>4. RoundAt(k)' <=> RoundAt(k)
    BY <1>1, <1>3, <1>4, <2>1, <2>3 DEF RoundAt
  <2>5. PauseAt(k)' <=> PauseAt(k)
    BY <1>1, <1>3, <2>2, <2>3 DEF PauseAt
  <2> QED
    BY <2>4, <2>5
<1>8. RoundInv'
  BY <1>1, <1>2, <1>3, <1>4, <1>7 DEF RoundInv
<1> QED
  BY <1>6, <1>8 DEF SightInv

(* The batch that starts.                                                  *)
LEMMA SightPrepare == IInv /\ SightInv /\ Prepare => SightInv'
<1> SUFFICES ASSUME IInv, SightInv, Prepare PROVE SightInv'
  OBVIOUS
<1> DEFINE P == Fold("keep", SubSeq(path, 1, idx), From(path, idx + 1))
<1>0. path' = P
  <2>1. path' = FoldLeft(LAMBDA r, c : IF Waits(r, c) THEN r ELSE Append(r, c),
                         SubSeq(path, 1, idx), From(path, idx + 1))
    BY DEF Prepare
  <2> QED
    BY <2>1, FoldsAreSteps, Zenon
<1> HIDE DEF P
<1>1. /\ phase = "batch" /\ phase' = "run" /\ todo' = idx + 1 .. Len(path')
      /\ graph' = graph /\ idx' = idx /\ out' = out /\ err' = err /\ saved' = saved
      /\ answers' = answers /\ last' = last /\ turns' = turns /\ midway' = midway /\ blind' = blind
  BY DEF Prepare, data, roundVars, bounds
<1>2. TypeInv /\ AnswerInv /\ FirstInv /\ RoundInv
  BY DEF IInv, SightInv
<1>3. /\ (FirstTurn' <=> FirstTurn) /\ (Even' <=> Even) /\ (SeesAll' <=> SeesAll)
      /\ \A k \in Nat : At(k)' = At(k) /\ Nearer(k)' = Nearer(k)
  BY <1>1, SameCases
<1>4. Done'
  BY <1>1 DEF Done
<1>5. turns \in Nat /\ turns # 0
  BY <1>1, <1>2 DEF FirstInv
<1>6. FirstInv'
  <2>1. ASSUME FirstTurn
        PROVE  /\ ~answers' /\ path' # <<>> /\ path'[1] = Begin /\ (\E k \in Nat : BatchIn(k))'
               /\ (\A i \in 1 .. idx : out[path[i]] > 0)' /\ Found'
    <3>1. /\ ~answers /\ path # <<>> /\ path[1] = Begin /\ \E k \in Nat : BatchIn(k)
          /\ \A i \in 1 .. idx : out[path[i]] > 0
      BY <1>1, <1>2, <2>1 DEF FirstInv
    <3>2. Checked /\ ~Beside /\ ~midway
      BY <2>1 DEF FirstTurn
    <3>3. PICK k \in Nat : BatchIn(k)
      BY <3>1
    <3>4. /\ path' # <<>> /\ path'[1] = Begin /\ \A i \in 1 .. idx : path'[i] = path[i]
          /\ \A i \in idx + 1 .. Len(path') :
               path'[i] \in At(k) /\ graph.refs[path'[i]] \subseteq Walked
      <4>1. phase # "idle" /\ path' = Fold("keep", SubSeq(path, 1, idx), From(path, idx + 1))
        BY <1>0, <1>1 DEF P
      <4>2. \A Q : Q = Fold("keep", SubSeq(path, 1, idx), From(path, idx + 1)) =>
              /\ Q # <<>> /\ Q[1] = Begin /\ \A i \in 1 .. idx : Q[i] = path[i]
              /\ \A i \in idx + 1 .. Len(Q) : Q[i] \in At(k) /\ graph.refs[Q[i]] \subseteq Walked
        BY <1>2, <3>1, <3>2, <3>3, <4>1, KeepsFound
      <4> QED
        BY <4>1, <4>2
    <3>5. Walked' = Walked
      BY <1>1, <3>4 DEF Walked
    <3>6. BatchIn(k)' /\ Found'
      BY <1>1, <1>3, <3>4, <3>5 DEF BatchIn, Found
    <3>7. (\A i \in 1 .. idx : out[path[i]] > 0)'
      BY <1>1, <3>1, <3>4
    <3> QED
      BY <1>1, <3>1, <3>4, <3>6, <3>7
  <2> QED
    BY <1>1, <1>2, <1>3, <1>4, <1>5, <2>1 DEF FirstInv
<1>7. RoundInv'
  <2> SUFFICES ASSUME Even PROVE (\E k \in Nat : RoundAt(k))'
    BY <1>1, <1>2, <1>3, <1>4 DEF RoundInv
  <2>1. PICK k \in Nat : RoundAt(k)
    BY <1>1, <1>2 DEF RoundInv
  <2>2. /\ path # <<>> /\ IsBatch(path, idx, k)
        /\ \A c \in Nearer(k) : out[c] > 0
        /\ IsResume(path) \/ Nearer(k) \subseteq Walked
    BY <2>1 DEF RoundAt
  <2>3. \A i \in idx + 1 .. Len(path) : graph.refs[path[i]] \subseteq Nearer(k)
    <3> SUFFICES ASSUME NEW i \in idx + 1 .. Len(path), NEW r \in graph.refs[path[i]]
                 PROVE  r \in Nearer(k)
      OBVIOUS
    <3>1. path[i] \in Node /\ k \in Levels[path[i]]
      BY <2>2 DEF IsBatch, At
    <3>2. \E l \in Levels[r] : l < k
      BY <3>1 DEF Even, Upward
    <3>3. r \in Node
      BY <1>2, <3>1, GraphFacts DEF TypeInv
    <3> QED
      BY <3>2, <3>3 DEF Nearer
  <2>4. path' = path
    <3>1. IsResume(path) \/ \A i \in idx + 1 .. Len(path) : graph.refs[path[i]] \subseteq Walked
      BY <2>2, <2>3
    <3>2. P = path
      BY <1>1, <1>2, <3>1, KeepsAll DEF P
    <3> QED
      BY <1>0, <3>2
  <2>5. IsBatch(path, idx, k)' /\ Walked' = Walked /\ (IsResume(path)' <=> IsResume(path))
    BY <1>1, <1>3, <2>2, <2>4 DEF IsBatch, Walked, IsResume, KindOf
  <2>6. RoundAt(k)'
    BY <1>1, <1>3, <2>2, <2>4, <2>5 DEF RoundAt
  <2> QED
    BY <2>6
<1> QED
  BY <1>6, <1>7 DEF SightInv

(* A component of the batch finishes.                                      *)
LEMMA SightFinish == ASSUME IInv, SightInv, NEW i \in todo, Run(i) \/ Fail(i) PROVE SightInv'
<1> DEFINE c == path[i]
<1>1. /\ phase = "run" /\ todo' = todo \ {i} /\ graph' = graph /\ phase' = phase
      /\ path' = path /\ idx' = idx /\ saved' = saved
      /\ answers' = answers /\ last' = last /\ turns' = turns /\ midway' = midway
  BY DEF Run, Fail, bounds
<1>2. /\ TypeInv /\ AnswerInv /\ FirstInv /\ RoundInv
      /\ c \in Node /\ i \in idx + 1 .. Len(path)
  BY <1>1, InBatch DEF IInv, SightInv
<1>3. /\ (FirstTurn' <=> FirstTurn) /\ (Even' <=> Even)
      /\ \A k \in Nat : At(k)' = At(k) /\ Nearer(k)' = Nearer(k)
  BY <1>1, SameCases
<1>4. turns \in Nat /\ turns # 0
  BY <1>1, <1>2 DEF FirstInv
<1>5. path \in Seq(Node) /\ idx \in Nat /\ idx <= Len(path)
  BY <1>1, <1>2 DEF TypeInv, TypeOK
<1>6. FirstInv'
  <2>1. ASSUME FirstTurn
        PROVE  /\ SeesAll' /\ (\E k \in Nat : BatchIn(k))' /\ Done' /\ Found'
               /\ (\A j \in 1 .. idx : out[path[j]] > 0)'
    <3>1. /\ SeesAll /\ \E k \in Nat : BatchIn(k)
          /\ \A j \in 1 .. idx : out[path[j]] > 0
          /\ Done /\ Found
      BY <1>1, <1>2, <2>1 DEF FirstInv
    <3>2. Straight /\ ~Branching /\ ~midway
      BY <2>1 DEF FirstTurn
    <3>3. \A r \in graph.refs[c] : out[r] > 0
      BY <1>2, <3>1 DEF Found, Walked
    <3>4. SeesAll' /\ Done' /\ \A d \in Node : out[d] > 0 => out'[d] > 0
      BY <3>1, <3>2, <3>3, FinishKeeps
    <3>5. ASSUME NEW j \in 1 .. idx PROVE out'[path[j]] > 0
      <4>1. j \in 1 .. Len(path)
        BY <1>5
      <4>2. path[j] \in Node
        BY <1>5, <4>1
      <4> QED
        BY <3>1, <3>4, <4>2
    <3>6. (\A j \in 1 .. idx : out[path[j]] > 0)'
      BY <1>1, <3>5
    <3>7. PICK k \in Nat : BatchIn(k)
      BY <3>1
    <3>8. BatchIn(k)'
      BY <1>1, <1>3, <3>7 DEF BatchIn
    <3>9. Found'
      BY <1>1, <3>1 DEF Found, Walked
    <3> QED
      BY <3>4, <3>6, <3>8, <3>9
  <2> QED
    BY <1>1, <1>2, <1>3, <1>4, <2>1 DEF FirstInv
<1>7. RoundInv'
  <2> SUFFICES ASSUME Even PROVE SeesAll' /\ Done' /\ (\E k \in Nat : RoundAt(k))'
    BY <1>1, <1>3 DEF RoundInv
  <2>1. SeesAll /\ Done /\ \E k \in Nat : RoundAt(k)
    BY <1>1, <1>2 DEF RoundInv
  <2>2. PICK k \in Nat : RoundAt(k)
    BY <2>1
  <2>3. /\ path # <<>> /\ IsBatch(path, idx, k)
        /\ \A d \in Nearer(k) : out[d] > 0
        /\ IsResume(path) \/ Nearer(k) \subseteq Walked
    BY <2>2 DEF RoundAt
  <2>4. Straight /\ ~Branching /\ ~midway /\ Upward
    BY DEF Even, Balanced
  <2>5. \A r \in graph.refs[c] : out[r] > 0
    <3> SUFFICES ASSUME NEW r \in graph.refs[c] PROVE r \in Nearer(k)
      BY <2>3
    <3>1. k \in Levels[c]
      BY <1>2, <2>3 DEF IsBatch, At
    <3>2. \E l \in Levels[r] : l < k
      BY <1>2, <2>4, <3>1 DEF Upward
    <3>3. r \in Node
      BY <1>2, GraphFacts DEF TypeInv
    <3> QED
      BY <3>2, <3>3 DEF Nearer
  <2>6. SeesAll' /\ Done' /\ \A d \in Node : out[d] > 0 => out'[d] > 0
    BY <2>1, <2>4, <2>5, FinishKeeps
  <2>7. \A d \in Nearer(k) : out'[d] > 0
    BY <2>3, <2>6 DEF Nearer
  <2>8. IsBatch(path, idx, k)' /\ Walked' = Walked /\ (IsResume(path)' <=> IsResume(path))
    BY <1>1, <1>3, <2>3 DEF IsBatch, Walked, IsResume, KindOf
  <2>9. RoundAt(k)'
    BY <1>1, <1>3, <2>3, <2>7, <2>8 DEF RoundAt
  <2> QED
    BY <2>6, <2>9
<1> QED
  BY <1>6, <1>7 DEF SightInv

(* What comes after a batch at distance k are the components at k + 1, and *)
(* what is nearer than they are has been made.                             *)
LEMMA NextBatch ==
  ASSUME TypeInv, phase = "run", todo = {}, Broken = {}, Even, Done, NEW k \in Nat, RoundAt(k)
  PROVE  /\ {Extended[i] : i \in Len(path) + 1 .. Len(Extended)} = At(k + 1)
         /\ \A c \in Nearer(k + 1) : out[c] > 0
         /\ IsResume(path) \/ Nearer(k + 1) \subseteq {path[j] : j \in 1 .. Len(path)}
<1>1. /\ path # <<>> /\ {path[j] : j \in idx + 1 .. Len(path)} = At(k)
      /\ \A c \in Nearer(k) : out[c] > 0
      /\ IsResume(path) \/ Nearer(k) \subseteq Walked
  BY DEF RoundAt, IsBatch
<1>2. Balanced /\ Straight /\ ~Branching /\ graph \in Graphs
  BY DEF Even, Balanced, TypeInv
<1>3. /\ path \in Seq(Node) /\ idx \in Nat /\ idx <= Len(path) /\ Len(path) \in Nat
      /\ Extended \in Seq(Node) /\ Len(path) <= Len(Extended) /\ Len(Extended) \in Nat
  <2>1. path \in Seq(Node) /\ idx \in Nat /\ idx <= Len(path) /\ Len(path) \in Nat
    BY DEF TypeInv, TypeOK
  <2>2. Extended \in Seq(Node) /\ Len(path) <= Len(Extended)
    BY ExtendedGrows
  <2> QED
    BY <2>1, <2>2
<1>4. /\ \A i \in 1 .. Len(path) : Extended[i] = path[i]
      /\ \A i \in Len(path) + 1 .. Len(Extended) : \E j \in idx + 1 .. Len(path) :
           Extended[i] \in Range(graph.down[path[j]])
      /\ \A j \in idx + 1 .. Len(path) : \A d \in Range(graph.down[path[j]]) :
           \E i \in Len(path) .. Len(Extended) : Extended[i] = d
  BY <1>1, <1>2, PendingAdds
<1>5. ASSUME NEW i \in Len(path) + 1 .. Len(Extended) PROVE Extended[i] \in At(k + 1)
  <2>1. PICK j \in idx + 1 .. Len(path) : Extended[i] \in Range(graph.down[path[j]])
    BY <1>4
  <2>2. path[j] \in Node /\ k \in Levels[path[j]]
    BY <1>1 DEF At
  <2>3. Extended[i] \in Node /\ k + 1 \in Levels[Extended[i]]
    BY <1>2, <2>1, <2>2, LevelBelow
  <2> QED
    BY <2>3 DEF At
<1>6. ASSUME NEW d \in At(k + 1) PROVE \E i \in Len(path) + 1 .. Len(Extended) : Extended[i] = d
  <2>1. PICK c \in At(k) : d \in Range(graph.down[c])
    BY <1>2, LevelAbove
  <2>2. PICK j \in idx + 1 .. Len(path) : c = path[j]
    BY <1>1
  <2>3. PICK i \in Len(path) .. Len(Extended) : Extended[i] = d
    BY <1>4, <2>1, <2>2
  <2>4. i # Len(path)
    <3> SUFFICES ASSUME i = Len(path) PROVE FALSE
      OBVIOUS
    <3>1. Len(path) \in 1 .. Len(path) /\ Len(path) \in idx + 1 .. Len(path)
      BY <1>1, <1>3, <2>2
    <3>2. d = path[Len(path)]
      BY <1>4, <2>3, <3>1
    <3>3. d \in At(k)
      BY <1>1, <3>1, <3>2
    <3>4. d \in Node /\ k \in Levels[d] /\ k + 1 \in Levels[d]
      BY <3>3 DEF At
    <3>5. k = k + 1
      BY <1>2, <3>4 DEF Balanced
    <3> QED
      BY <3>5
  <2>5. i \in Len(path) + 1 .. Len(Extended)
    BY <1>3, <2>4
  <2> QED
    BY <2>3, <2>5
<1>7. \A c \in Nearer(k + 1) : c \in Nearer(k) \cup At(k)
  <2> SUFFICES ASSUME NEW c \in Nearer(k + 1) PROVE c \in Nearer(k) \cup At(k)
    OBVIOUS
  <2>1. c \in Node /\ \E l \in Levels[c] : l < k + 1
    BY DEF Nearer
  <2>2. PICK l \in Levels[c] : l < k + 1
    BY <2>1
  <2>3. l \in Nat
    BY <1>2, <2>1, LevelFacts
  <2>4. l < k \/ l = k
    BY <2>2, <2>3
  <2> QED
    BY <2>1, <2>4 DEF Nearer, At
<1>8. \A c \in At(k) : out[c] > 0
  <2>1. \A i \in idx + 1 .. Len(path) : out[path[i]] > 0
    BY <1>2, BatchIsMade
  <2> QED
    BY <1>1, <2>1
<1>9. \A c \in At(k) : c \in {path[j] : j \in 1 .. Len(path)}
  <2>1. \A j \in idx + 1 .. Len(path) : j \in 1 .. Len(path)
    BY <1>3
  <2> QED
    BY <1>1, <2>1
<1>10. \A c \in Walked : c \in {path[j] : j \in 1 .. Len(path)}
  <2>1. \A j \in 1 .. idx : j \in 1 .. Len(path)
    BY <1>3
  <2> QED
    BY <2>1 DEF Walked
<1>11. {Extended[i] : i \in Len(path) + 1 .. Len(Extended)} = At(k + 1)
  BY <1>5, <1>6
<1>12. \A c \in Nearer(k + 1) : out[c] > 0
  BY <1>1, <1>7, <1>8
<1>13. IsResume(path) \/ Nearer(k + 1) \subseteq {path[j] : j \in 1 .. Len(path)}
  BY <1>1, <1>7, <1>9, <1>10
<1> QED
  BY <1>11, <1>12, <1>13

(* A turn goes on with the batch at the next distance.                     *)
LEMMA SightContinue == IInv /\ SightInv /\ PostContinue => SightInv'
<1> SUFFICES ASSUME IInv, SightInv, PostContinue PROVE SightInv'
  OBVIOUS
<1>1. /\ todo = {} /\ phase = "run" /\ phase' = "batch" /\ path' = Extended /\ idx' = Len(path)
      /\ Broken = {} /\ graph' = graph /\ out' = out /\ answers' = answers
      /\ blind' = blind /\ midway' = midway /\ saved' = saved /\ last' = last /\ turns' = turns
  BY DEF PostContinue, Posted, data, bounds
<1>2. TypeInv /\ FirstInv /\ RoundInv
  BY DEF IInv, SightInv
<1>3. /\ (FirstTurn' <=> FirstTurn) /\ (Even' <=> Even) /\ (SeesAll' <=> SeesAll)
      /\ \A k \in Nat : At(k)' = At(k) /\ Nearer(k)' = Nearer(k)
  BY <1>1, SameCases
<1>4. turns \in Nat /\ turns # 0
  BY <1>1, <1>2 DEF FirstInv
<1>5. /\ path \in Seq(Node) /\ idx \in Nat /\ idx <= Len(path) /\ Len(path) \in Nat
      /\ Extended \in Seq(Node) /\ Len(path) <= Len(Extended) /\ Len(Extended) \in Nat
  <2>1. path \in Seq(Node) /\ idx \in Nat /\ idx <= Len(path) /\ Len(path) \in Nat
    BY <1>1, <1>2 DEF TypeInv, TypeOK
  <2>2. Extended \in Seq(Node) /\ Len(path) <= Len(Extended)
    BY <1>2, ExtendedGrows
  <2> QED
    BY <2>1, <2>2
<1>6. path # <<>> /\ Straight /\ ~Branching =>
        /\ \A i \in 1 .. Len(path) : Extended[i] = path[i]
        /\ Extended # <<>> /\ Extended[1] = path[1] /\ 1 \in 1 .. Len(path)
        /\ Head(Extended) = Head(path)
  <2> SUFFICES ASSUME path # <<>>, Straight, ~Branching
               PROVE  /\ \A i \in 1 .. Len(path) : Extended[i] = path[i]
                      /\ Extended # <<>> /\ Extended[1] = path[1] /\ 1 \in 1 .. Len(path)
                      /\ Head(Extended) = Head(path)
    OBVIOUS
  <2>1. \A i \in 1 .. Len(path) : Extended[i] = path[i]
    BY <1>2, PendingAdds
  <2>2. 1 \in 1 .. Len(path) /\ Len(Extended) > 0
    BY <1>5
  <2>3. Extended # <<>> /\ Extended[1] = path[1]
    BY <1>5, <2>1, <2>2
  <2>4. Head(Extended) = Extended[1] /\ Head(path) = path[1]
    BY <1>5, <2>3
  <2> QED
    BY <2>1, <2>2, <2>3, <2>4
<1>7. FirstInv'
  <2>1. ASSUME FirstTurn
        PROVE  /\ ~answers' /\ path' # <<>> /\ path'[1] = Begin /\ (\E k \in Nat : BatchIn(k))'
               /\ (\A i \in 1 .. idx : out[path[i]] > 0)'
    <3>1. /\ ~answers /\ path # <<>> /\ path[1] = Begin /\ \E k \in Nat : BatchIn(k)
          /\ \A i \in 1 .. idx : out[path[i]] > 0
          /\ Done
      BY <1>1, <1>2, <2>1 DEF FirstInv
    <3>2. Straight /\ ~Branching
      BY <2>1 DEF FirstTurn
    <3>3. PICK k \in Nat : BatchIn(k)
      BY <3>1
    <3>4. BatchIn(k + 1)'
      <4> SUFFICES ASSUME NEW i \in Len(path) + 1 .. Len(Extended) PROVE Extended[i] \in At(k + 1)
        BY <1>1, <1>3 DEF BatchIn
      <4>1. PICK j \in idx + 1 .. Len(path) : Extended[i] \in Range(graph.down[path[j]])
        BY <1>2, <3>1, <3>2, PendingAdds
      <4>2. path[j] \in Node /\ k \in Levels[path[j]]
        BY <3>3 DEF At, BatchIn
      <4>3. Extended[i] \in Node /\ k + 1 \in Levels[Extended[i]]
        BY <1>2, <3>2, <4>1, <4>2, LevelBelow
      <4> QED
        BY <4>3 DEF At
    <3>5. ASSUME NEW i \in 1 .. Len(path) PROVE out[Extended[i]] > 0
      <4>1. Extended[i] = path[i]
        BY <1>6, <3>1, <3>2
      <4>2. CASE i \in 1 .. idx
        BY <3>1, <4>1, <4>2
      <4>3. CASE i \notin 1 .. idx
        <5>1. i \in idx + 1 .. Len(path)
          BY <1>5, <4>3
        <5>2. out[path[i]] > 0
          BY <1>1, <1>2, <3>1, <3>2, <5>1, BatchIsMade
        <5> QED
          BY <4>1, <5>2
      <4> QED
        BY <4>2, <4>3
    <3>6. (\A i \in 1 .. idx : out[path[i]] > 0)'
      BY <1>1, <3>5
    <3>7. path' # <<>> /\ path'[1] = Begin
      BY <1>1, <1>6, <3>1, <3>2
    <3>8. (\E n \in Nat : BatchIn(n))'
      <4>1. k + 1 \in Nat
        OBVIOUS
      <4> QED
        BY <3>4, <4>1
    <3> QED
      BY <1>1, <3>1, <3>6, <3>7, <3>8
  <2> QED
    BY <1>1, <1>2, <1>3, <1>4, <2>1 DEF FirstInv
<1>8. RoundInv'
  <2> SUFFICES ASSUME Even PROVE (\E k \in Nat : RoundAt(k))'
    BY <1>1, <1>2, <1>3 DEF RoundInv
  <2>1. Done /\ \E k \in Nat : RoundAt(k)
    BY <1>1, <1>2 DEF RoundInv
  <2>2. PICK k \in Nat : RoundAt(k)
    BY <2>1
  <2>3. /\ {Extended[i] : i \in Len(path) + 1 .. Len(Extended)} = At(k + 1)
        /\ \A c \in Nearer(k + 1) : out[c] > 0
        /\ IsResume(path) \/ Nearer(k + 1) \subseteq {path[j] : j \in 1 .. Len(path)}
    BY <1>1, <1>2, <2>1, <2>2, NextBatch
  <2>4. path # <<>> /\ Straight /\ ~Branching /\ k + 1 \in Nat
    BY <2>2 DEF RoundAt, Even, Balanced
  <2>5. IsBatch(path, idx, k + 1)'
    BY <1>1, <1>3, <2>3, <2>4 DEF IsBatch
  <2>6. path' # <<>> /\ (IsResume(path)' <=> IsResume(path))
    BY <1>1, <1>6, <2>4 DEF IsResume, KindOf
  <2>7. Walked' = {path[j] : j \in 1 .. Len(path)}
    <3>1. Walked' = {Extended[j] : j \in 1 .. Len(path)}
      BY <1>1 DEF Walked
    <3> QED
      BY <1>6, <2>4, <3>1
  <2>8. RoundAt(k + 1)'
    BY <1>1, <1>3, <2>3, <2>4, <2>5, <2>6, <2>7 DEF RoundAt
  <2> QED
    BY <2>4, <2>8
<1> QED
  BY <1>7, <1>8 DEF SightInv

(* A pause saves the batch that would come next, with a form first.        *)
LEMMA SightPause == IInv /\ SightInv /\ PostPause => SightInv'
<1> SUFFICES ASSUME IInv, SightInv, PostPause PROVE SightInv'
  OBVIOUS
<1> DEFINE R == FillupsFirst(Pending)
<1>1. /\ todo = {} /\ phase = "run" /\ phase' = "idle" /\ Broken = {} /\ Asks
      /\ saved'.path = R /\ saved'.out = out
      /\ graph' = graph /\ blind' = blind /\ midway' = midway /\ turns' = turns
  BY DEF PostPause, Posted, Save, data, bounds
<1>2. TypeInv /\ FirstInv /\ RoundInv
  BY DEF IInv, SightInv
<1>3. /\ (FirstTurn' <=> FirstTurn) /\ (Even' <=> Even) /\ (SeesAll' <=> SeesAll)
      /\ \A k \in Nat : At(k)' = At(k) /\ Nearer(k)' = Nearer(k)
  BY <1>1, SameCases
<1>4. turns \in Nat /\ turns # 0
  BY <1>1, <1>2 DEF FirstInv
<1>5. FirstInv'
  BY <1>1, <1>2, <1>3, <1>4 DEF FirstInv
<1>6. RoundInv'
  <2> SUFFICES ASSUME Even PROVE (\E k \in Nat : PauseAt(k))'
    BY <1>1, <1>2, <1>3 DEF RoundInv
  <2>1. Done /\ \E k \in Nat : RoundAt(k)
    BY <1>1, <1>2 DEF RoundInv
  <2>2. PICK k \in Nat : RoundAt(k)
    BY <2>1
  <2>3. /\ {Extended[i] : i \in Len(path) + 1 .. Len(Extended)} = At(k + 1)
        /\ \A c \in Nearer(k + 1) : out[c] > 0
    BY <1>1, <1>2, <2>1, <2>2, NextBatch
  <2>4. /\ Pending \in Seq(Node) /\ Len(path) \in Nat
        /\ \A j \in 1 .. Len(Pending) : /\ Len(path) + j \in Len(path) + 1 .. Len(Extended)
                                        /\ Pending[j] = Extended[Len(path) + j]
        /\ \A i \in Len(path) + 1 .. Len(Extended) :
             i - Len(path) \in 1 .. Len(Pending) /\ Pending[i - Len(path)] = Extended[i]
    <3>1. Extended \in Seq(Node) /\ Len(path) \in Nat
      BY <1>2, ExtendedGrows DEF TypeInv, TypeOK
    <3> QED
      BY <3>1, Parts DEF Pending
  <2>5. \A j \in 1 .. Len(Pending) : Pending[j] \in At(k + 1)
    BY <2>3, <2>4
  <2>6. ASSUME NEW d \in At(k + 1) PROVE \E j \in 1 .. Len(Pending) : Pending[j] = d
    <3>1. PICK i \in Len(path) + 1 .. Len(Extended) : d = Extended[i]
      BY <2>3
    <3> QED
      BY <2>4, <3>1
  <2>7. \E j \in 1 .. Len(Pending) : KindOf(Pending[j]) = "fillup"
    <3>1. PICK c \in Range(Pending) : KindOf(c) = "fillup"
      BY <1>1 DEF Asks
    <3> QED
      BY <2>4, <3>1 DEF Range
  <2> HIDE DEF R
  <2>8. /\ \A i \in 1 .. Len(R) : \E j \in 1 .. Len(Pending) : R[i] = Pending[j]
        /\ \A j \in 1 .. Len(Pending) : \E i \in 1 .. Len(R) : R[i] = Pending[j]
        /\ IsResume(R)
    <3>1. \A Q : Q = FillupsFirst(Pending) =>
            /\ \A i \in 1 .. Len(Q) : \E j \in 1 .. Len(Pending) : Q[i] = Pending[j]
            /\ \A j \in 1 .. Len(Pending) : \E i \in 1 .. Len(Q) : Q[i] = Pending[j]
            /\ IsResume(Q)
      BY <2>4, <2>7, FillupsFirstHas
    <3> QED
      BY <3>1 DEF R
  <2>9. {R[i] : i \in 1 .. Len(R)} = At(k + 1)
    <3>1. ASSUME NEW i \in 1 .. Len(R) PROVE R[i] \in At(k + 1)
      <4>1. PICK j \in 1 .. Len(Pending) : R[i] = Pending[j]
        BY <2>8
      <4> QED
        BY <2>5, <4>1
    <3>2. ASSUME NEW d \in At(k + 1) PROVE \E i \in 1 .. Len(R) : R[i] = d
      <4>1. PICK j \in 1 .. Len(Pending) : Pending[j] = d
        BY <2>6
      <4> QED
        BY <2>8, <4>1
    <3> QED
      BY <3>1, <3>2
  <2>10. IsBatch(saved.path, 0, k + 1)'
    BY <1>1, <1>3, <2>9 DEF IsBatch
  <2>11. IsResume(saved.path)'
    BY <1>1, <2>8 DEF IsResume, KindOf
  <2>12. k + 1 \in Nat
    OBVIOUS
  <2>13. PauseAt(k + 1)'
    BY <1>1, <1>3, <2>3, <2>10, <2>11, <2>12 DEF PauseAt
  <2> QED
    BY <2>12, <2>13
<1> QED
  BY <1>5, <1>6 DEF SightInv

(* Every step of a session keeps the invariants of NeverBlind.             *)
THEOREM SightNext == IInv /\ SightInv /\ [Next]_vars => SightInv'
<1> SUFFICES ASSUME IInv, SightInv, [Next]_vars PROVE SightInv'
  OBVIOUS
<1>1. CASE Turn
  BY <1>1, SightTurn
<1>2. CASE Canceled \/ PostRaise
  <2>1. /\ phase # "idle" /\ phase' = "idle" /\ last' = "raised"
        /\ UNCHANGED <<graph, turns, midway, blind>>
    BY <1>2 DEF Canceled, PostRaise, Raise, roundVars, bounds
  <2> QED
    BY <2>1, SightEnd
<1>3. CASE Prepare
  BY <1>3, SightPrepare
<1>4. CASE \E i \in todo : Run(i) \/ Fail(i)
  BY <1>4, SightFinish
<1>5. CASE PostError \/ PostFinish
  <2>1. /\ phase # "idle" /\ phase' = "idle" /\ last' # "paused"
        /\ UNCHANGED <<graph, turns, midway, blind>>
    BY <1>5 DEF PostError, PostFinish, Posted, Save, bounds
  <2> QED
    BY <2>1, SightEnd
<1>6. CASE PostPause
  BY <1>6, SightPause
<1>7. CASE PostContinue
  BY <1>7, SightContinue
<1>8. CASE Cancel \/ Expire \/ UNCHANGED vars
  BY <1>8, SightCancel
<1> QED
  BY <1>1, <1>2, <1>3, <1>4, <1>5, <1>6, <1>7, <1>8 DEF Next, Step

(* In every state of a session that its shape makes even, or in its first  *)
(* turn, what a batch refers to has been made.                             *)
THEOREM SightInvariant == Spec => []SightInv
<1>1. IInv /\ IInv' /\ SightInv /\ [Next]_vars => SightInv'
  BY SightNext
<1> QED
  BY <1>1, SightInit, CanvasInvariant, PTL DEF Spec

(* No component runs without the outputs it refers to: in a graph where    *)
(* all ways to a component have the same length in any turn, otherwise in  *)
(* the first one, under the conditions NeverBlind names.                   *)
THEOREM NobodyIsBlind == Spec => []NeverBlind
<1>1. SightInv => NeverBlind
  BY DEF SightInv, FirstInv, RoundInv, NeverBlind, FirstTurn, Even, SeesAll
<1> QED
  BY <1>1, SightInvariant, PTL

-----------------------------------------------------------------------------
(* What Prepare keeps of a batch that has nobody twice has nobody twice.   *)
LEMMA KeepsDistinct ==
  ASSUME TypeInv, phase # "idle", Distinct(path, idx),
         NEW P, P = Fold("keep", SubSeq(path, 1, idx), From(path, idx + 1))
  PROVE  /\ Distinct(P, idx)
         /\ \A i \in idx + 1 .. Len(P) : \E j \in idx + 1 .. Len(path) : P[i] = path[j]
<1> DEFINE p == SubSeq(path, 1, idx)
           q == From(path, idx + 1)
           V == {r \in Seq(Node) : idx <= Len(r)}
           W == [n \in 0 .. Len(q) |->
                   {r \in V : /\ \A i \in idx + 1 .. Len(r) : \E j \in 1 .. n : r[i] = q[j]
                              /\ Distinct(r, idx)}]
<1>1. /\ path \in Seq(Node) /\ idx \in Nat /\ Len(path) \in Nat /\ idx <= Len(path)
      /\ p \in Seq(Node) /\ Len(p) = idx
      /\ q \in Seq(Node) /\ Len(q) \in Nat
      /\ \A j \in 1 .. Len(q) : /\ q[j] = path[idx + j] /\ q[j] \in Node
                                /\ idx + j \in idx + 1 .. Len(path)
  <2> HIDE DEF p, q
  <2>1. \A s, t : s = SubSeq(path, 1, idx) /\ t = From(path, idx + 1) =>
          /\ path \in Seq(Node) /\ idx \in Nat /\ Len(path) \in Nat /\ idx <= Len(path)
          /\ s \in Seq(Node) /\ Len(s) = idx
          /\ t \in Seq(Node) /\ Len(t) \in Nat
          /\ \A j \in 1 .. Len(t) : /\ t[j] = path[idx + j] /\ t[j] \in Node
                                    /\ idx + j \in idx + 1 .. Len(path)
    BY BatchParts
  <2> QED
    BY <2>1 DEF p, q
<1> HIDE DEF p, q
<1>2. \A j, l \in 1 .. Len(q) : q[j] = q[l] => j = l
  <2> SUFFICES ASSUME NEW j \in 1 .. Len(q), NEW l \in 1 .. Len(q), q[j] = q[l] PROVE j = l
    OBVIOUS
  <2>1. idx + j = idx + l
    BY <1>1 DEF Distinct
  <2> QED
    BY <1>1, <2>1
<1>3. p \in V /\ p \in W[0]
  <2>1. 0 \in 0 .. Len(q) /\ ~ \E i : i \in idx + 1 .. Len(p)
    BY <1>1
  <2>2. p \in V /\ Distinct(p, idx)
    BY <1>1, <2>1 DEF Distinct
  <2> HIDE DEF V
  <2> QED
    BY <2>1, <2>2
<1>4. ASSUME NEW r \in V, NEW j \in 1 .. Len(q) PROVE StepOf("keep", r, q[j]) \in V
  <2>1. q[j] \in Node /\ Append(r, q[j]) \in V
    BY <1>1, Appending
  <2> HIDE DEF V
  <2> QED
    BY <2>1 DEF StepOf
<1>5. ASSUME NEW n \in 0 .. Len(q) - 1, NEW r \in V, r \in W[n]
      PROVE  StepOf("keep", r, q[n + 1]) \in W[n + 1]
  <2> DEFINE c == q[n + 1]
             a == Append(r, c)
  <2>1. /\ n \in Nat /\ n \in 0 .. Len(q) /\ n + 1 \in 0 .. Len(q) /\ n + 1 \in 1 .. Len(q)
        /\ \A j \in 1 .. n : j \in 1 .. n + 1 /\ j \in 1 .. Len(q) /\ j # n + 1
        /\ n + 1 \in 1 .. n + 1
    BY <1>1
  <2>2. /\ \A i \in idx + 1 .. Len(r) : \E j \in 1 .. n : r[i] = q[j]
        /\ Distinct(r, idx)
    <3> HIDE DEF V
    <3> QED
      BY <1>5, <2>1
  <2>3. r \in Seq(Node) /\ Len(r) \in Nat /\ idx <= Len(r) /\ c \in Node
    BY <1>1, <2>1
  <2>4. CASE Waits(r, c)
    <3>1. StepOf("keep", r, c) = r
      BY <2>4 DEF StepOf
    <3> HIDE DEF V
    <3>2. r \in W[n + 1]
      BY <2>1, <2>2
    <3> QED
      BY <3>1, <3>2
  <2>5. CASE ~Waits(r, c)
    <3>1. StepOf("keep", r, c) = a
      BY <2>5 DEF StepOf
    <3>2. /\ a \in Seq(Node) /\ Len(a) = Len(r) + 1 /\ a[Len(r) + 1] = c
          /\ \A i \in 1 .. Len(r) : a[i] = r[i]
      BY <2>3, Appending
    <3> HIDE DEF a, c, V
    <3>3. /\ \A i \in idx + 1 .. Len(a) :
               i = Len(r) + 1 \/ (i \in idx + 1 .. Len(r) /\ i \in 1 .. Len(r))
          /\ idx <= Len(a)
      <4>1. idx \in Nat /\ Len(r) \in Nat /\ idx <= Len(r) /\ Len(a) = Len(r) + 1
        BY <1>1, <2>3, <3>2
      <4> QED
        BY <4>1
    <3>4. ASSUME NEW i \in idx + 1 .. Len(r) PROVE r[i] # c
      <4>1. PICK j \in 1 .. n : r[i] = q[j]
        BY <2>2
      <4>2. q[j] # q[n + 1]
        BY <1>2, <2>1
      <4> QED
        BY <4>1, <4>2 DEF c
    <3>5. ASSUME NEW i \in idx + 1 .. Len(a) PROVE \E j \in 1 .. n + 1 : a[i] = q[j]
      BY <2>1, <2>2, <3>2, <3>3 DEF c
    <3>6. ASSUME NEW i \in idx + 1 .. Len(a), NEW l \in idx + 1 .. Len(a), a[i] = a[l] PROVE i = l
      <4>1. CASE i = Len(r) + 1 /\ l = Len(r) + 1
        BY <4>1
      <4>2. CASE i = Len(r) + 1 /\ l # Len(r) + 1
        BY <3>2, <3>3, <3>4, <3>6, <4>2
      <4>3. CASE i # Len(r) + 1 /\ l = Len(r) + 1
        BY <3>2, <3>3, <3>4, <3>6, <4>3
      <4>4. CASE i # Len(r) + 1 /\ l # Len(r) + 1
        <5>1. r[i] = r[l] /\ i \in idx + 1 .. Len(r) /\ l \in idx + 1 .. Len(r)
          BY <3>2, <3>3, <3>6, <4>4
        <5> QED
          BY <2>2, <5>1 DEF Distinct
      <4> QED
        BY <4>1, <4>2, <4>3, <4>4
    <3>7. Distinct(a, idx)
      BY <3>6 DEF Distinct
    <3>8. a \in V
      BY <3>2, <3>3 DEF V
    <3>9. a \in W[n + 1]
      BY <2>1, <3>5, <3>7, <3>8
    <3> QED
      BY <3>1, <3>9 DEF a, c
  <2> QED
    BY <2>4, <2>5
<1>6. Fold("keep", p, q) \in V /\ Fold("keep", p, q) \in W[Len(q)]
  <2>1. /\ \A r \in V : \A j \in 1 .. Len(q) : StepOf("keep", r, q[j]) \in V
        /\ \A n \in 0 .. Len(q) - 1 : \A r \in V :
             r \in W[n] => StepOf("keep", r, q[n + 1]) \in W[n + 1]
    BY <1>4, <1>5
  <2> HIDE DEF V, W
  <2> QED
    BY <1>1, <1>3, <2>1, FoldAt
<1>7. P = Fold("keep", p, q) /\ Len(q) \in 0 .. Len(q)
  BY <1>1 DEF p, q
<1>8. P \in W[Len(q)]
  BY <1>6, <1>7
<1>9. Distinct(P, idx) /\ \A i \in idx + 1 .. Len(P) : \E j \in 1 .. Len(q) : P[i] = q[j]
  <2> HIDE DEF V
  <2> QED
    BY <1>7, <1>8
<1>10. ASSUME NEW i \in idx + 1 .. Len(P) PROVE \E j \in idx + 1 .. Len(path) : P[i] = path[j]
  <2>1. PICK j \in 1 .. Len(q) : P[i] = q[j]
    BY <1>9
  <2> QED
    BY <1>1, <2>1
<1> QED
  BY <1>9, <1>10

(* Nor has FillupsFirst.                                                   *)
LEMMA PartDistinct ==
  ASSUME NEW x \in {"fillups", "others"}, NEW s \in Seq(Node), Distinct(s, 0)
  PROVE  Distinct(Fold(x, <<>>, s), 0)
<1> DEFINE V == Seq(Node)
           W == [k \in 0 .. Len(s) |->
                   {r \in V : /\ \A i \in 1 .. Len(r) : \E j \in 1 .. k : r[i] = s[j]
                              /\ \A i, l \in 1 .. Len(r) : r[i] = r[l] => i = l}]
<1>1. /\ Len(s) \in Nat /\ \A j \in 1 .. Len(s) : s[j] \in Node
      /\ \A j, l \in 1 .. Len(s) : s[j] = s[l] => j = l
  BY DEF Distinct
<1>2. <<>> \in V /\ <<>> \in W[0]
  <2>1. 0 \in 0 .. Len(s) /\ Len(<<>>) = 0 /\ ~ \E j : j \in 1 .. 0
    BY <1>1
  <2>2. <<>> \in V
    OBVIOUS
  <2> HIDE DEF V
  <2> QED
    BY <2>1, <2>2
<1>3. \A r \in V : \A j \in 1 .. Len(s) : StepOf(x, r, s[j]) \in V
  <2> TAKE r \in V
  <2> TAKE j \in 1 .. Len(s)
  <2>1. s[j] \in Node /\ Append(r, s[j]) \in V
    BY <1>1, Appending
  <2> HIDE DEF V
  <2> QED
    BY <2>1 DEF StepOf
<1>4. ASSUME NEW k \in 0 .. Len(s) - 1, NEW r \in V, r \in W[k]
      PROVE  StepOf(x, r, s[k + 1]) \in W[k + 1]
  <2> DEFINE c == s[k + 1]
             a == Append(r, c)
  <2>1. /\ k \in Nat /\ k \in 0 .. Len(s) /\ k + 1 \in 0 .. Len(s) /\ k + 1 \in 1 .. Len(s)
        /\ \A j \in 1 .. k : j \in 1 .. k + 1 /\ j \in 1 .. Len(s) /\ j # k + 1
        /\ k + 1 \in 1 .. k + 1
    BY <1>1
  <2>2. /\ \A i \in 1 .. Len(r) : \E j \in 1 .. k : r[i] = s[j]
        /\ \A i, l \in 1 .. Len(r) : r[i] = r[l] => i = l
    <3> HIDE DEF V
    <3> QED
      BY <1>4, <2>1
  <2>3. c \in Node /\ r \in Seq(Node) /\ Len(r) \in Nat
    BY <1>1, <2>1
  <2>4. StepOf(x, r, c) = a \/ StepOf(x, r, c) = r
    BY DEF StepOf
  <2>5. r \in W[k + 1]
    <3> HIDE DEF V
    <3> QED
      BY <2>1, <2>2
  <2>6. a \in W[k + 1]
    <3>1. /\ a \in Seq(Node) /\ Len(a) = Len(r) + 1 /\ a[Len(r) + 1] = c
          /\ \A i \in 1 .. Len(r) : a[i] = r[i]
      BY <2>3, Appending
    <3>2. \A i \in 1 .. Len(a) : i = Len(r) + 1 \/ i \in 1 .. Len(r)
      BY <2>3, <3>1
    <3> HIDE DEF a, c
    <3>3. ASSUME NEW i \in 1 .. Len(r) PROVE r[i] # c
      <4>1. PICK j \in 1 .. k : r[i] = s[j]
        BY <2>2
      <4>2. s[j] # s[k + 1]
        BY <1>1, <2>1
      <4> QED
        BY <4>1, <4>2 DEF c
    <3>4. ASSUME NEW i \in 1 .. Len(a) PROVE \E j \in 1 .. k + 1 : a[i] = s[j]
      BY <2>1, <2>2, <3>1, <3>2 DEF c
    <3>5. ASSUME NEW i \in 1 .. Len(a), NEW l \in 1 .. Len(a), a[i] = a[l] PROVE i = l
      <4>1. CASE i = Len(r) + 1 /\ l = Len(r) + 1
        BY <4>1
      <4>2. CASE i = Len(r) + 1 /\ l # Len(r) + 1
        BY <3>1, <3>2, <3>3, <3>5, <4>2
      <4>3. CASE i # Len(r) + 1 /\ l = Len(r) + 1
        BY <3>1, <3>2, <3>3, <3>5, <4>3
      <4>4. CASE i # Len(r) + 1 /\ l # Len(r) + 1
        BY <2>2, <3>1, <3>2, <3>5, <4>4
      <4> QED
        BY <4>1, <4>2, <4>3, <4>4
    <3>6. a \in V
      BY <3>1
    <3> HIDE DEF V
    <3> QED
      BY <2>1, <3>4, <3>5, <3>6
  <2> HIDE DEF V, W, a
  <2> QED
    BY <2>4, <2>5, <2>6
<1>5. Fold(x, <<>>, s) \in V /\ Fold(x, <<>>, s) \in W[Len(s)]
  <2>1. \A k \in 0 .. Len(s) - 1 : \A r \in V :
          r \in W[k] => StepOf(x, r, s[k + 1]) \in W[k + 1]
    BY <1>4
  <2> HIDE DEF V, W
  <2> QED
    BY <1>2, <1>3, <2>1, FoldAt
<1> DEFINE F == Fold(x, <<>>, s)
<1>6. \A i, l \in 1 .. Len(F) : F[i] = F[l] => i = l
  <2>1. Len(s) \in 0 .. Len(s) /\ F \in W[Len(s)]
    BY <1>1, <1>5
  <2> HIDE DEF F, V
  <2> QED
    BY <2>1
<1> HIDE DEF F
<1>7. \A i : i \in 0 + 1 .. Len(F) <=> i \in 1 .. Len(F)
  OBVIOUS
<1>8. Distinct(F, 0)
  BY <1>6, <1>7 DEF Distinct
<1> QED
  BY <1>8 DEF F

LEMMA FillupsFirstDistinct ==
  ASSUME NEW s \in Seq(Node), Distinct(s, 0)
  PROVE  Distinct(FillupsFirst(s), 0)
<1> DEFINE a == Fold("fillups", <<>>, s)
           b == Fold("others", <<>>, s)
           R == a \o b
<1>1. FillupsFirst(s) = R
  BY FoldsAreSteps DEF FillupsFirst
<1>2. Distinct(a, 0) /\ Distinct(b, 0)
  BY PartDistinct
<1>3. /\ a \in Seq(Node) /\ \A i \in 1 .. Len(a) : KindOf(a[i]) = "fillup"
      /\ b \in Seq(Node) /\ \A i \in 1 .. Len(b) : KindOf(b[i]) # "fillup"
  <2> HIDE DEF a, b
  <2>1. \A F : F = Fold("fillups", <<>>, s) =>
          /\ F \in Seq(Node)
          /\ \A i \in 1 .. Len(F) : \E j \in 1 .. Len(s) : F[i] = s[j] /\ Selects("fillups", s[j])
          /\ \A j \in 1 .. Len(s) : Selects("fillups", s[j]) => \E i \in 1 .. Len(F) : F[i] = s[j]
    BY PartHas
  <2>2. \A F : F = Fold("others", <<>>, s) =>
          /\ F \in Seq(Node)
          /\ \A i \in 1 .. Len(F) : \E j \in 1 .. Len(s) : F[i] = s[j] /\ Selects("others", s[j])
          /\ \A j \in 1 .. Len(s) : Selects("others", s[j]) => \E i \in 1 .. Len(F) : F[i] = s[j]
    BY PartHas
  <2> QED
    BY <2>1, <2>2 DEF a, b, Selects
<1> HIDE DEF a, b
<1>4. /\ Len(a) \in Nat /\ Len(b) \in Nat /\ Len(R) = Len(a) + Len(b)
      /\ \A i \in 1 .. Len(a) : R[i] = a[i]
      /\ \A i \in Len(a) + 1 .. Len(a) + Len(b) : R[i] = b[i - Len(a)]
  BY <1>3, ConcatProperties
<1>5. /\ \A i, l \in 1 .. Len(a) : a[i] = a[l] => i = l
      /\ \A i, l \in 1 .. Len(b) : b[i] = b[l] => i = l
  <2>1. \A i, n : i \in 0 + 1 .. n <=> i \in 1 .. n
    OBVIOUS
  <2> QED
    BY <1>2, <2>1 DEF Distinct
<1> HIDE DEF R
<1>6. ASSUME NEW i \in 0 + 1 .. Len(R), NEW l \in 0 + 1 .. Len(R), R[i] = R[l] PROVE i = l
  <2>1. \A j \in 0 + 1 .. Len(R) :
          \/ j \in 1 .. Len(a)
          \/ j \in Len(a) + 1 .. Len(a) + Len(b) /\ j - Len(a) \in 1 .. Len(b)
    BY <1>4
  <2>2. CASE i \in 1 .. Len(a) /\ l \in 1 .. Len(a)
    BY <1>4, <1>5, <1>6, <2>2
  <2>3. CASE i \in 1 .. Len(a) /\ l \notin 1 .. Len(a)
    <3>1. l \in Len(a) + 1 .. Len(a) + Len(b) /\ l - Len(a) \in 1 .. Len(b)
      BY <2>1, <2>3
    <3>2. a[i] = b[l - Len(a)]
      BY <1>4, <1>6, <2>3, <3>1
    <3> QED
      BY <1>3, <2>3, <3>1, <3>2
  <2>4. CASE i \notin 1 .. Len(a) /\ l \in 1 .. Len(a)
    <3>1. i \in Len(a) + 1 .. Len(a) + Len(b) /\ i - Len(a) \in 1 .. Len(b)
      BY <2>1, <2>4
    <3>2. a[l] = b[i - Len(a)]
      BY <1>4, <1>6, <2>4, <3>1
    <3> QED
      BY <1>3, <2>4, <3>1, <3>2
  <2>5. CASE i \notin 1 .. Len(a) /\ l \notin 1 .. Len(a)
    <3>1. /\ i \in Len(a) + 1 .. Len(a) + Len(b) /\ i - Len(a) \in 1 .. Len(b)
          /\ l \in Len(a) + 1 .. Len(a) + Len(b) /\ l - Len(a) \in 1 .. Len(b)
      BY <2>1, <2>5
    <3>2. b[i - Len(a)] = b[l - Len(a)]
      BY <1>4, <1>6, <3>1
    <3>3. i - Len(a) = l - Len(a)
      BY <1>5, <3>1, <3>2
    <3> QED
      BY <1>4, <3>1, <3>3
  <2> QED
    BY <2>2, <2>3, <2>4, <2>5
<1>7. Distinct(R, 0)
  BY <1>6 DEF Distinct
<1> QED
  BY <1>1, <1>7

(* A component is appended once, if it is the only successor.              *)
LEMMA ExtendOne ==
  ASSUME NEW r \in Seq(Node), r # <<>>, NEW d \in Node, NEW s \in Seq(Node), Range(s) \subseteq {d}
  PROVE  Extend(r, s) = r \/ (Extend(r, s) = Append(r, d) /\ Last(r) # d)
<1> DEFINE a == Append(r, d)
           V == IF Last(r) = d THEN {r} ELSE {r, a}
<1>1. \A j \in 1 .. Len(s) : s[j] = d
  BY DEF Range
<1>2. Last(a) = d
  <2>1. a \in Seq(Node) /\ Len(a) = Len(r) + 1 /\ a[Len(r) + 1] = d
    BY Appending
  <2> HIDE DEF a
  <2> QED
    BY <2>1 DEF Last
<1>3. r \in V
  OBVIOUS
<1>4. ASSUME NEW e \in V, NEW j \in 1 .. Len(s) PROVE StepOf("extend", e, s[j]) \in V
  <2>1. StepOf("extend", e, s[j]) = IF Last(e) = d THEN e ELSE Append(e, d)
    BY <1>1 DEF StepOf
  <2> HIDE DEF a
  <2>2. CASE Last(e) = d
    BY <2>1, <2>2
  <2>3. CASE Last(e) # d
    <3>1. e = r
      BY <1>2, <2>3
    <3>2. StepOf("extend", e, s[j]) = a
      BY <2>1, <2>3, <3>1 DEF a
    <3> QED
      BY <2>3, <3>1, <3>2
  <2> QED
    BY <2>2, <2>3
<1>5. Fold("extend", r, s) \in V
  <2> HIDE DEF V
  <2> QED
    BY <1>3, <1>4, FoldIn
<1>6. Extend(r, s) \in V
  BY <1>5, FoldsAreSteps DEF Extend
<1> QED
  BY <1>6

(* Successors that the end of a path does not have come once, if nobody is *)
(* a successor twice.                                                      *)
LEMMA ExtendDistinct ==
  ASSUME NEW r \in Seq(Node), r # <<>>, NEW n \in Nat, n <= Len(r), Distinct(r, n),
         NEW s \in Seq(Node), IsInjective(s), \A i \in n + 1 .. Len(r) : r[i] \notin Range(s)
  PROVE  Distinct(Extend(r, s), n)
<1> DEFINE V == {e \in Seq(Node) : Len(r) <= Len(e) /\ \A i \in 1 .. Len(r) : e[i] = r[i]}
           W == [h \in 0 .. Len(s) |->
                   {e \in V : /\ \A i \in Len(r) + 1 .. Len(e) : \E j \in 1 .. h : e[i] = s[j]
                              /\ Distinct(e, n)}]
<1>1. /\ Len(r) \in Nat /\ Len(s) \in Nat /\ \A j \in 1 .. Len(s) : s[j] \in Node
      /\ \A j, l \in 1 .. Len(s) : s[j] = s[l] => j = l
      /\ \A i \in n + 1 .. Len(r) : \A j \in 1 .. Len(s) : r[i] # s[j]
  BY DEF IsInjective, Range
<1>2. r \in V /\ r \in W[0]
  <2>1. 0 \in 0 .. Len(s) /\ ~ \E i : i \in Len(r) + 1 .. Len(r)
    BY <1>1
  <2>2. r \in V
    BY <1>1
  <2> HIDE DEF V
  <2> QED
    BY <2>1, <2>2
<1>3. ASSUME NEW e \in V, NEW j \in 1 .. Len(s) PROVE StepOf("extend", e, s[j]) \in V
  <2>1. e \in Seq(Node) /\ Len(e) \in Nat /\ Len(r) <= Len(e) /\ s[j] \in Node
    BY <1>1
  <2>2. Append(e, s[j]) \in V
    <3> DEFINE a == Append(e, s[j])
    <3>1. /\ a \in Seq(Node) /\ Len(a) = Len(e) + 1
          /\ \A i \in 1 .. Len(e) : a[i] = e[i]
      BY <2>1, Appending
    <3>2. \A i \in 1 .. Len(r) : i \in 1 .. Len(e) /\ e[i] = r[i]
      BY <1>1, <2>1
    <3> HIDE DEF a
    <3>3. Len(r) <= Len(a)
      BY <1>1, <2>1, <3>1
    <3>4. \A i \in 1 .. Len(r) : a[i] = r[i]
      BY <3>1, <3>2
    <3>5. a \in V
      BY <3>1, <3>3, <3>4
    <3> QED
      BY <3>5 DEF a
  <2> HIDE DEF V
  <2> QED
    BY <2>2 DEF StepOf
<1>4. ASSUME NEW h \in 0 .. Len(s) - 1, NEW e \in V, e \in W[h]
      PROVE  StepOf("extend", e, s[h + 1]) \in W[h + 1]
  <2> DEFINE c == s[h + 1]
             a == Append(e, c)
  <2>1. /\ h \in Nat /\ h \in 0 .. Len(s) /\ h + 1 \in 0 .. Len(s) /\ h + 1 \in 1 .. Len(s)
        /\ \A j \in 1 .. h : j \in 1 .. h + 1 /\ j \in 1 .. Len(s) /\ j # h + 1
        /\ h + 1 \in 1 .. h + 1
    BY <1>1
  <2>2. /\ \A i \in Len(r) + 1 .. Len(e) : \E j \in 1 .. h : e[i] = s[j]
        /\ Distinct(e, n)
    <3> HIDE DEF V
    <3> QED
      BY <1>4, <2>1
  <2>3. /\ c \in Node /\ e \in Seq(Node) /\ Len(e) \in Nat /\ Len(r) <= Len(e)
        /\ \A i \in 1 .. Len(r) : e[i] = r[i]
    BY <1>1, <2>1
  <2>4. CASE Last(e) = c
    <3>1. StepOf("extend", e, c) = e
      BY <2>4 DEF StepOf
    <3> HIDE DEF V
    <3>2. e \in W[h + 1]
      BY <2>1, <2>2
    <3> QED
      BY <3>1, <3>2
  <2>5. CASE Last(e) # c
    <3>1. StepOf("extend", e, c) = a
      BY <2>5 DEF StepOf
    <3>2. /\ a \in Seq(Node) /\ Len(a) = Len(e) + 1 /\ a[Len(e) + 1] = c
          /\ \A i \in 1 .. Len(e) : a[i] = e[i]
      BY <2>3, Appending
    <3>3. a \in V
      <4> HIDE DEF V
      <4> QED
        BY <1>3, <2>1, <3>1
    <3> HIDE DEF a, c, V
    <3>4. /\ \A i \in n + 1 .. Len(a) : i = Len(e) + 1 \/ (i \in n + 1 .. Len(e) /\ i \in 1 .. Len(e))
          /\ \A i \in Len(r) + 1 .. Len(a) :
               i = Len(e) + 1 \/ (i \in Len(r) + 1 .. Len(e) /\ i \in 1 .. Len(e))
          /\ \A i \in n + 1 .. Len(e) :
               \/ i \in Len(r) + 1 .. Len(e)
               \/ i \in n + 1 .. Len(r) /\ i \in 1 .. Len(r)
      <4>1. Len(r) \in Nat /\ Len(e) \in Nat /\ Len(r) <= Len(e) /\ Len(a) = Len(e) + 1
        BY <1>1, <2>3, <3>2
      <4> QED
        BY <4>1
    <3>5. ASSUME NEW i \in n + 1 .. Len(e) PROVE e[i] # c
      <4>1. CASE i \in Len(r) + 1 .. Len(e)
        <5>1. PICK j \in 1 .. h : e[i] = s[j]
          BY <2>2, <4>1
        <5>2. s[j] # s[h + 1]
          BY <1>1, <2>1
        <5> QED
          BY <5>1, <5>2 DEF c
      <4>2. CASE i \in n + 1 .. Len(r) /\ i \in 1 .. Len(r)
        BY <1>1, <2>1, <2>3, <4>2 DEF c
      <4> QED
        BY <3>4, <4>1, <4>2
    <3>6. ASSUME NEW i \in Len(r) + 1 .. Len(a) PROVE \E j \in 1 .. h + 1 : a[i] = s[j]
      BY <2>1, <2>2, <3>2, <3>4 DEF c
    <3>7. ASSUME NEW i \in n + 1 .. Len(a), NEW l \in n + 1 .. Len(a), a[i] = a[l] PROVE i = l
      <4>1. CASE i = Len(e) + 1 /\ l = Len(e) + 1
        BY <4>1
      <4>2. CASE i = Len(e) + 1 /\ l # Len(e) + 1
        BY <3>2, <3>4, <3>5, <3>7, <4>2
      <4>3. CASE i # Len(e) + 1 /\ l = Len(e) + 1
        BY <3>2, <3>4, <3>5, <3>7, <4>3
      <4>4. CASE i # Len(e) + 1 /\ l # Len(e) + 1
        <5>1. e[i] = e[l] /\ i \in n + 1 .. Len(e) /\ l \in n + 1 .. Len(e)
          BY <3>2, <3>4, <3>7, <4>4
        <5> QED
          BY <2>2, <5>1 DEF Distinct
      <4> QED
        BY <4>1, <4>2, <4>3, <4>4
    <3>8. Distinct(a, n)
      BY <3>7 DEF Distinct
    <3>9. a \in W[h + 1]
      BY <2>1, <3>3, <3>6, <3>8
    <3> QED
      BY <3>1, <3>9 DEF a, c
  <2> QED
    BY <2>4, <2>5
<1>5. Fold("extend", r, s) \in V /\ Fold("extend", r, s) \in W[Len(s)]
  <2>1. /\ \A e \in V : \A j \in 1 .. Len(s) : StepOf("extend", e, s[j]) \in V
        /\ \A h \in 0 .. Len(s) - 1 : \A e \in V :
             e \in W[h] => StepOf("extend", e, s[h + 1]) \in W[h + 1]
    BY <1>3, <1>4
  <2> HIDE DEF V, W
  <2> QED
    BY <1>2, <2>1, FoldAt
<1>6. Extend(r, s) = Fold("extend", r, s)
  BY FoldsAreSteps DEF Extend
<1>7. Len(s) \in 0 .. Len(s)
  BY <1>1
<1> HIDE DEF V
<1> QED
  BY <1>5, <1>6, <1>7

(* What comes after a batch comes once.                                    *)
LEMMA ExtendedDistinct ==
  ASSUME TypeInv, phase # "idle", Balanced, Tidy, ~Branching, path # <<>>, NEW k \in Nat,
         BatchIn(k), Distinct(path, idx)
  PROVE  Distinct(Extended, Len(path))
<1> DEFINE q == From(path, idx + 1)
           n == Len(path)
           D(j) == Range(graph.down[q[j]])
<1>1. /\ path \in Seq(Node) /\ idx \in Nat /\ n \in Nat /\ n > 0
      /\ q \in Seq(Node) /\ Len(q) \in Nat
      /\ \A j \in 1 .. Len(q) : /\ q[j] = path[idx + j] /\ q[j] \in Node
                                /\ idx + j \in idx + 1 .. n
  <2> HIDE DEF q, n
  <2>1. \A s, t : s = SubSeq(path, 1, idx) /\ t = From(path, idx + 1) =>
          /\ path \in Seq(Node) /\ idx \in Nat /\ Len(path) \in Nat /\ idx <= Len(path)
          /\ s \in Seq(Node) /\ Len(s) = idx /\ \A i \in 1 .. idx : s[i] = path[i]
          /\ t \in Seq(Node) /\ Len(t) \in Nat /\ idx + Len(t) = Len(path)
          /\ \A j \in 1 .. Len(t) : /\ t[j] = path[idx + j] /\ t[j] \in Node
                                    /\ idx + j \in idx + 1 .. Len(path)
    BY BatchParts
  <2>2. n > 0
    BY <2>1 DEF n
  <2> QED
    BY <2>1, <2>2 DEF q, n
<1> HIDE DEF q, n
<1>2. /\ Straight /\ graph \in Graphs
      /\ \A c \in Node : graph.down[c] \in Seq(Node) /\ IsInjective(graph.down[c])
  BY GraphFacts DEF Balanced, Tidy, TypeInv
<1>3. \A j, l \in 1 .. Len(q) : q[j] = q[l] => j = l
  <2> SUFFICES ASSUME NEW j \in 1 .. Len(q), NEW l \in 1 .. Len(q), q[j] = q[l] PROVE j = l
    OBVIOUS
  <2>1. idx + j = idx + l
    BY <1>1 DEF Distinct, n
  <2> QED
    BY <1>1, <2>1
<1>4. \A j \in 1 .. Len(q) : /\ k \in Levels[q[j]] /\ Edges(q[j]) = D(j)
                             /\ Levels[q[j]] = {k}
  <2> SUFFICES ASSUME NEW j \in 1 .. Len(q)
               PROVE  k \in Levels[q[j]] /\ Edges(q[j]) = D(j) /\ Levels[q[j]] = {k}
    OBVIOUS
  <2>1. k \in Levels[q[j]]
    BY <1>1 DEF BatchIn, At, n
  <2>2. Edges(q[j]) = D(j)
    BY <1>1, <1>2, Downstream
  <2>3. Levels[q[j]] = {k}
    BY <1>1, <2>1 DEF Balanced
  <2> QED
    BY <2>1, <2>2, <2>3
<1>5. ASSUME NEW r \in Seq(Node), NEW j \in 1 .. Len(q)
      PROVE  StepOf("post", r, q[j]) = Extend(r, graph.down[q[j]])
  <2>1. Successors(q[j]) = graph.down[q[j]] /\ graph.goto[q[j]] = <<>>
    BY <1>1, <1>2, Downstream
  <2> QED
    BY <2>1 DEF StepOf
<1>6. Extended = Fold("post", path, q)
  BY FoldsAreSteps DEF Extended, q
<1>7. CASE \E j, l \in 1 .. Len(q) : j # l /\ D(j) \cap D(l) # {}
  <2>1. PICK j \in 1 .. Len(q), l \in 1 .. Len(q) : j # l /\ D(j) \cap D(l) # {}
    BY <1>7
  <2>2. q[j] # q[l] /\ q[j] \in Node /\ q[l] \in Node /\ Edges(q[j]) \cap Edges(q[l]) # {}
    BY <1>1, <1>3, <1>4, <2>1
  <2>3. PICK d \in Node : \A o \in Node : Levels[o] = Levels[q[j]] => Edges(o) = {d}
    BY <2>2 DEF Tidy
  <2>4. \A h \in 1 .. Len(q) : D(h) = {d}
    BY <1>1, <1>4, <2>3
  <2> DEFINE a == Append(path, d)
             V == {path, a}
  <2>5. /\ a \in Seq(Node) /\ Len(a) = n + 1 /\ a[n + 1] = d /\ a # <<>>
        /\ \A i \in 1 .. n : a[i] = path[i]
    BY <1>1, AppendProperties DEF n
  <2>6. ASSUME NEW r \in V, NEW h \in 1 .. Len(q) PROVE StepOf("post", r, q[h]) \in V
    <3> DEFINE s == graph.down[q[h]]
    <3>1. s \in Seq(Node) /\ Range(s) \subseteq {d}
      BY <1>1, <1>2, <2>4
    <3>2. r \in Seq(Node) /\ r # <<>>
      <4> HIDE DEF a
      <4> QED
        BY <1>1, <2>5
    <3> HIDE DEF s
    <3>3. Extend(r, s) = r \/ (Extend(r, s) = Append(r, d) /\ Last(r) # d)
      BY <3>1, <3>2, ExtendOne
    <3>4. Last(a) = d
      <4> HIDE DEF a
      <4> QED
        BY <2>5 DEF Last
    <3>5. Extend(r, s) \in V
      <4>1. CASE r = path
        BY <3>3, <4>1
      <4>2. CASE r = a
        <5> HIDE DEF a
        <5> QED
          BY <3>3, <3>4, <4>2
      <4> HIDE DEF a
      <4> QED
        BY <4>1, <4>2
    <3>6. StepOf("post", r, q[h]) = Extend(r, s)
      BY <1>5, <3>2 DEF s
    <3> HIDE DEF V
    <3> QED
      BY <3>5, <3>6
  <2>7. Fold("post", path, q) \in V
    <3>1. path \in V
      OBVIOUS
    <3> HIDE DEF V
    <3> QED
      BY <1>1, <2>6, <3>1, FoldIn
  <2> HIDE DEF a
  <2>8. Distinct(path, n) /\ Distinct(a, n)
    <3>1. /\ ~ \E i : i \in n + 1 .. Len(path)
          /\ \A i \in n + 1 .. Len(a) : i = n + 1
      BY <1>1, <2>5 DEF n
    <3> QED
      BY <3>1 DEF Distinct
  <2> QED
    BY <1>6, <2>7, <2>8 DEF n
<1>8. CASE ~ \E j, l \in 1 .. Len(q) : j # l /\ D(j) \cap D(l) # {}
  <2> DEFINE V == {r \in Seq(Node) : n <= Len(r)}
             W == [m \in 0 .. Len(q) |->
                     {r \in V : /\ \A i \in n + 1 .. Len(r) : \E j \in 1 .. m : r[i] \in D(j)
                                /\ Distinct(r, n)}]
  <2>1. path \in V /\ path \in W[0]
    <3>1. 0 \in 0 .. Len(q) /\ ~ \E i : i \in n + 1 .. Len(path)
      BY <1>1 DEF n
    <3>2. path \in V /\ Distinct(path, n)
      BY <1>1, <3>1 DEF Distinct, n
    <3> HIDE DEF V, D
    <3> QED
      BY <3>1, <3>2
  <2>2. ASSUME NEW r \in V, NEW j \in 1 .. Len(q)
        PROVE  LET e == StepOf("post", r, q[j])
               IN /\ e \in V /\ Len(r) <= Len(e)
                  /\ \A i \in 1 .. Len(r) : e[i] = r[i]
                  /\ \A i \in Len(r) + 1 .. Len(e) : e[i] \in D(j)
    <3> DEFINE s == graph.down[q[j]]
               e == StepOf("post", r, q[j])
    <3>1. r \in Seq(Node) /\ n <= Len(r) /\ r # <<>> /\ Len(r) \in Nat /\ s \in Seq(Node)
      BY <1>1, <1>2
    <3>2. e = Extend(r, s)
      BY <1>5, <3>1
    <3> HIDE DEF e, s
    <3>3. \A E : E = Extend(r, s) =>
            /\ E \in Seq(Node) /\ Len(r) <= Len(E)
            /\ \A i \in 1 .. Len(r) : E[i] = r[i]
            /\ \A i \in Len(r) + 1 .. Len(E) : \E h \in 1 .. Len(s) : E[i] = s[h]
            /\ \A h \in 1 .. Len(s) : \E i \in Len(r) .. Len(E) : E[i] = s[h]
      BY <3>1, ExtendAdds
    <3>4. /\ e \in Seq(Node) /\ Len(r) <= Len(e)
          /\ \A i \in 1 .. Len(r) : e[i] = r[i]
          /\ \A i \in Len(r) + 1 .. Len(e) : \E h \in 1 .. Len(s) : e[i] = s[h]
      BY <3>2, <3>3
    <3>5. ASSUME NEW i \in Len(r) + 1 .. Len(e) PROVE e[i] \in D(j)
      <4>1. PICK h \in 1 .. Len(s) : e[i] = s[h]
        BY <3>4
      <4>2. s[h] \in Range(s)
        BY <3>1 DEF Range
      <4> QED
        BY <4>1, <4>2 DEF s
    <3>6. e \in V
      <4>1. Len(e) \in Nat
        BY <3>4
      <4>2. n <= Len(e)
        BY <1>1, <3>1, <3>4, <4>1
      <4> QED
        BY <3>4, <4>2
    <3> HIDE DEF V, D
    <3> QED
      BY <3>4, <3>5, <3>6 DEF e
  <2>3. ASSUME NEW m \in 0 .. Len(q) - 1, NEW r \in V, r \in W[m]
        PROVE  StepOf("post", r, q[m + 1]) \in W[m + 1]
    <3> DEFINE s == graph.down[q[m + 1]]
               e == StepOf("post", r, q[m + 1])
    <3>1. /\ m \in Nat /\ m \in 0 .. Len(q) /\ m + 1 \in 0 .. Len(q) /\ m + 1 \in 1 .. Len(q)
          /\ \A j \in 1 .. m : j \in 1 .. m + 1 /\ j \in 1 .. Len(q) /\ j # m + 1
          /\ m + 1 \in 1 .. m + 1
      BY <1>1
    <3>2. r \in Seq(Node) /\ n <= Len(r) /\ r # <<>> /\ Len(r) \in Nat
      BY <1>1
    <3>3. /\ \A i \in n + 1 .. Len(r) : \E j \in 1 .. m : r[i] \in D(j)
          /\ Distinct(r, n)
      <4> HIDE DEF V, D
      <4> QED
        BY <2>3, <3>1
    <3>4. s \in Seq(Node) /\ IsInjective(s) /\ Range(s) = D(m + 1) /\ e = Extend(r, s)
      BY <1>1, <1>2, <1>5, <3>1, <3>2
    <3>5. /\ e \in V /\ Len(r) <= Len(e)
          /\ \A i \in 1 .. Len(r) : e[i] = r[i]
          /\ \A i \in Len(r) + 1 .. Len(e) : e[i] \in D(m + 1)
      <4> HIDE DEF V, D
      <4> QED
        BY <2>2, <3>1
    <3>6. Len(e) \in Nat
      <4> HIDE DEF e
      <4> QED
        BY <3>5
    <3> HIDE DEF V, D, s, e
    <3>7. \A i \in n + 1 .. Len(r) : r[i] \notin Range(s)
      <4> SUFFICES ASSUME NEW i \in n + 1 .. Len(r), r[i] \in Range(s) PROVE FALSE
        OBVIOUS
      <4>1. PICK j \in 1 .. m : r[i] \in D(j)
        BY <3>3
      <4>2. r[i] \in D(j) \cap D(m + 1) /\ j # m + 1 /\ j \in 1 .. Len(q)
        BY <3>1, <3>4, <4>1
      <4> QED
        BY <1>8, <3>1, <4>2
    <3>8. Distinct(e, n)
      BY <1>1, <3>2, <3>3, <3>4, <3>7, ExtendDistinct
    <3>9. ASSUME NEW i \in n + 1 .. Len(e) PROVE \E j \in 1 .. m + 1 : e[i] \in D(j)
      <4>1. CASE i <= Len(r)
        <5>1. i \in n + 1 .. Len(r) /\ i \in 1 .. Len(r)
          BY <1>1, <3>2, <3>6, <4>1
        <5> QED
          BY <3>1, <3>3, <3>5, <5>1
      <4>2. CASE ~(i <= Len(r))
        <5>1. i \in Len(r) + 1 .. Len(e)
          BY <1>1, <3>2, <3>6, <4>2
        <5> QED
          BY <3>1, <3>5, <5>1
      <4> QED
        BY <4>1, <4>2
    <3>10. e \in W[m + 1]
      BY <3>1, <3>5, <3>8, <3>9
    <3> QED
      BY <3>10 DEF e
  <2>4. Fold("post", path, q) \in V /\ Fold("post", path, q) \in W[Len(q)]
    <3>1. /\ \A r \in V : \A j \in 1 .. Len(q) : StepOf("post", r, q[j]) \in V
          /\ \A m \in 0 .. Len(q) - 1 : \A r \in V :
               r \in W[m] => StepOf("post", r, q[m + 1]) \in W[m + 1]
      BY <2>2, <2>3
    <3> HIDE DEF V, W
    <3> QED
      BY <1>1, <2>1, <3>1, FoldAt
  <2>5. Len(q) \in 0 .. Len(q)
    BY <1>1
  <2> HIDE DEF V, D
  <2>6. Distinct(Fold("post", path, q), n)
    BY <2>4, <2>5
  <2> QED
    BY <1>6, <2>6 DEF n
<1> QED
  BY <1>7, <1>8

(* Nothing comes after an empty path.                                      *)
LEMMA SomethingBefore == ASSUME TypeInv, phase # "idle", Pending # <<>> PROVE path # <<>>
<1> SUFFICES ASSUME path = <<>> PROVE FALSE
  OBVIOUS
<1> DEFINE q == From(path, idx + 1)
           V == {path}
<1>1. /\ path \in Seq(Node) /\ idx \in Nat /\ Len(path) = 0
      /\ q \in Seq(Node) /\ Len(q) = 0
  <2> HIDE DEF q
  <2>1. \A s, t : s = SubSeq(path, 1, idx) /\ t = From(path, idx + 1) =>
          /\ path \in Seq(Node) /\ idx \in Nat /\ Len(path) \in Nat /\ idx <= Len(path)
          /\ t \in Seq(Node) /\ Len(t) \in Nat /\ idx + Len(t) = Len(path)
    BY BatchParts
  <2>2. /\ path \in Seq(Node) /\ idx \in Nat /\ Len(path) = 0
        /\ q \in Seq(Node) /\ Len(q) \in Nat /\ idx + Len(q) = Len(path)
    BY <2>1 DEF q
  <2> QED
    BY <2>2
<1> HIDE DEF q
<1>2. Extended = Fold("post", path, q)
  BY FoldsAreSteps DEF Extended, q
<1>3. Fold("post", path, q) \in V
  <2>1. path \in V /\ \A r \in V : \A i \in 1 .. Len(q) : StepOf("post", r, q[i]) \in V
    BY <1>1
  <2> HIDE DEF V
  <2> QED
    BY <1>1, <2>1, FoldIn
<1>4. Extended = path
  BY <1>2, <1>3
<1>5. Pending = From(path, Len(path) + 1)
  BY <1>4 DEF Pending
<1>6. /\ Pending \in Seq(Node)
      /\ \A j \in 1 .. Len(Pending) : 0 + j \in 0 + 1 .. 0
  BY <1>1, <1>5, Parts
<1>7. Len(Pending) \in Nat /\ Len(Pending) # 0
  BY <1>6
<1>8. 1 \in 1 .. Len(Pending)
  BY <1>7
<1> QED
  BY <1>6, <1>8

(* The cases that EachOnce distinguishes.                                  *)
LEMMA SameOrder ==
  ASSUME UNCHANGED <<graph, midway>>
  PROVE  /\ (Orderly' <=> Orderly)
         /\ \A k \in Nat : At(k)' = At(k) /\ Nearer(k)' = Nearer(k)
<1>1. /\ Branching' = Branching /\ Balanced' = Balanced /\ Levels' = Levels
      /\ \A k \in Nat : At(k)' = At(k) /\ Nearer(k)' = Nearer(k)
  BY SameShape
<1>2. \A c : Edges(c)' = Edges(c)
  BY DEF Edges
<1>3. Tidy' <=> Tidy
  BY <1>1, <1>2 DEF Tidy
<1>4. Orderly' <=> Orderly
  BY <1>1, <1>3, Zenon DEF Orderly
<1> QED
  BY <1>1, <1>4

(* In a balanced graph, a component is not nearer than it is.              *)
LEMMA NotNearer ==
  ASSUME Balanced, NEW k \in Nat, NEW c \in At(k)
  PROVE  c \notin Nearer(k)
<1> SUFFICES ASSUME c \in Nearer(k) PROVE FALSE
  OBVIOUS
<1>1. PICK l \in Levels[c] : l < k
  BY DEF Nearer
<1>2. l = k
  BY DEF Balanced, At
<1> QED
  BY <1>1, <1>2

(* What comes after a batch at distance k is at k + 1, each once, and what *)
(* has run is nearer.                                                      *)
LEMMA NextOnce ==
  ASSUME TypeInv, phase = "run", todo = {}, Orderly, Pending # <<>>, NEW k \in Nat,
         BatchIn(k), RanIn(k), Distinct(path, idx)
  PROVE  /\ Distinct(Extended, Len(path))
         /\ \A i \in Len(path) + 1 .. Len(Extended) : Extended[i] \in At(k + 1)
         /\ ran \subseteq Nearer(k + 1)
<1>1. path # <<>> /\ phase # "idle"
  BY SomethingBefore
<1>2. Balanced /\ Straight /\ ~Branching /\ Tidy /\ graph \in Graphs
  BY DEF Orderly, Balanced, TypeInv
<1>3. Distinct(Extended, Len(path))
  BY <1>1, <1>2, ExtendedDistinct
<1>4. ASSUME NEW i \in Len(path) + 1 .. Len(Extended) PROVE Extended[i] \in At(k + 1)
  <2>1. PICK j \in idx + 1 .. Len(path) : Extended[i] \in Range(graph.down[path[j]])
    BY <1>1, <1>2, PendingAdds
  <2>2. path[j] \in Node /\ k \in Levels[path[j]]
    BY DEF At, BatchIn
  <2>3. Extended[i] \in Node /\ k + 1 \in Levels[Extended[i]]
    BY <1>2, <2>1, <2>2, LevelBelow
  <2> QED
    BY <2>3 DEF At
<1>5. ASSUME NEW c \in ran PROVE c \in Nearer(k + 1)
  <2>1. c \in Nearer(k) \/ \E i \in idx + 1 .. Len(path) : c = path[i]
    BY DEF RanIn
  <2>2. CASE c \in Nearer(k)
    <3>1. PICK l \in Levels[c] : l < k
      BY <2>2 DEF Nearer
    <3>2. c \in Node /\ l \in Nat
      BY <1>2, <2>2, LevelFacts DEF Nearer
    <3>3. l < k + 1
      BY <3>1, <3>2
    <3> QED
      BY <3>2, <3>3 DEF Nearer
  <2>3. CASE \E i \in idx + 1 .. Len(path) : c = path[i]
    <3>1. c \in Node /\ k \in Levels[c]
      BY <2>3 DEF BatchIn, At
    <3>2. k < k + 1
      OBVIOUS
    <3> QED
      BY <3>1, <3>2 DEF Nearer
  <2> QED
    BY <2>1, <2>2, <2>3
<1> QED
  BY <1>3, <1>4, <1>5

(* The invariant of EachOnce holds in a new session.                       *)
LEMMA OnceInit == Init => OnceInv
  BY DEF Init, OnceInv

(* A turn that ends otherwise than by a pause.                             *)
LEMMA OnceEnd ==
  ASSUME OnceInv, UNCHANGED <<graph, midway, twice>>, phase' = "idle", last' # "paused"
  PROVE  OnceInv'
  BY SameOrder DEF OnceInv

(* The cancel flag, and steps that change nothing.                         *)
LEMMA OnceCancel == OnceInv /\ (Cancel \/ Expire \/ UNCHANGED vars) => OnceInv'
<1> SUFFICES ASSUME OnceInv, Cancel \/ Expire \/ UNCHANGED vars PROVE OnceInv'
  OBVIOUS
<1>1. /\ phase' = phase /\ path' = path /\ idx' = idx /\ todo' = todo
      /\ graph' = graph /\ midway' = midway /\ ran' = ran /\ twice' = twice
      /\ last' = last /\ saved' = saved
  BY DEF Cancel, Expire, vars, flow, data, roundVars, bounds
<1>2. (Orderly' <=> Orderly) /\ \A k \in Nat : At(k)' = At(k) /\ Nearer(k)' = Nearer(k)
  BY <1>1, SameOrder
<1>3. \A k \in Nat : (BatchIn(k)' <=> BatchIn(k)) /\ (RanIn(k)' <=> RanIn(k))
  BY <1>1, <1>2 DEF BatchIn, RanIn
<1>4. /\ Distinct(path, idx)' <=> Distinct(path, idx)
      /\ Distinct(saved.path, 0)' <=> Distinct(saved.path, 0)
      /\ IsResume(saved.path)' <=> IsResume(saved.path)
  BY <1>1 DEF Distinct, IsResume, KindOf
<1>5. ASSUME Orderly, phase # "idle"
      PROVE  Distinct(path, idx)' /\ (\E k \in Nat : BatchIn(k) /\ RanIn(k))'
  BY <1>3, <1>4, <1>5 DEF OnceInv
<1>6. ASSUME Orderly, phase = "idle", last = "paused"
      PROVE  (/\ IsResume(saved.path) /\ Distinct(saved.path, 0)
              /\ \E k \in Nat : /\ \A i \in 1 .. Len(saved.path) : saved.path[i] \in At(k)
                                /\ ran \subseteq Nearer(k))'
  <2>1. IsResume(saved.path)' /\ Distinct(saved.path, 0)'
    BY <1>4, <1>6 DEF OnceInv
  <2>2. PICK k \in Nat : /\ \A i \in 1 .. Len(saved.path) : saved.path[i] \in At(k)
                         /\ ran \subseteq Nearer(k)
    BY <1>6 DEF OnceInv
  <2> QED
    BY <1>1, <1>2, <2>1, <2>2
<1> QED
  BY <1>1, <1>2, <1>5, <1>6 DEF OnceInv

(* A turn starts with begin alone, or with what was saved when it paused.  *)
LEMMA OnceTurn == IInv /\ OnceInv /\ Turn => OnceInv'
<1> SUFFICES ASSUME IInv, OnceInv, Turn, Orderly' PROVE OnceInv'
  BY DEF OnceInv
<1> DEFINE p == saved.path
           resume == IsResume(p)
           paused == last = "paused"
<1>1. /\ graph' = graph /\ phase = "idle" /\ phase' = "batch"
      /\ path' = (IF resume THEN p ELSE Append(p, Begin))
      /\ idx' = (IF resume THEN 0 ELSE Len(p))
      /\ midway' = ((resume /\ ~paused) \/ (paused /\ midway))
      /\ IF paused THEN ran' = ran /\ twice' = twice ELSE ran' = {} /\ twice' = {}
  BY DEF Turn
<1>2. graph \in Graphs /\ p \in Seq(Node) /\ Len(p) \in Nat /\ Begin \in Node
  BY GraphAssumption DEF IInv, TypeInv, TypeOK
<1>3. /\ \A k \in Nat : At(k)' = At(k) /\ Nearer(k)' = Nearer(k)
      /\ Balanced' = Balanced /\ Branching' = Branching
  BY <1>1, SameShape
<1>4. Tidy' <=> Tidy
  <2>1. Levels' = Levels /\ \A c : Edges(c)' = Edges(c)
    BY <1>1 DEF Levels, Edges
  <2> QED
    BY <1>1, <2>1 DEF Tidy
<1> HIDE DEF p, resume, paused
<1>5. ~midway' /\ Balanced /\ Tidy /\ ~Branching
  BY <1>3, <1>4, Zenon DEF Orderly
<1>6. CASE paused
  <2>1. ~midway
    BY <1>1, <1>5, <1>6, Zenon
  <2>2. Orderly
    BY <1>5, <2>1, Zenon DEF Orderly
  <2>3. /\ twice = {} /\ resume /\ Distinct(p, 0)
        /\ \E k \in Nat : /\ \A i \in 1 .. Len(p) : p[i] \in At(k)
                          /\ ran \subseteq Nearer(k)
    BY <1>1, <1>6, <2>2 DEF OnceInv, p, resume, paused
  <2>4. PICK k \in Nat : /\ \A i \in 1 .. Len(p) : p[i] \in At(k)
                         /\ ran \subseteq Nearer(k)
    BY <2>3
  <2>5. path' = p /\ idx' = 0 /\ ran' = ran /\ twice' = {}
    BY <1>1, <1>6, <2>3
  <2>6. Distinct(path, idx)'
    BY <2>3, <2>5 DEF Distinct
  <2>7. BatchIn(k)' /\ RanIn(k)'
    BY <1>3, <2>4, <2>5 DEF BatchIn, RanIn
  <2> QED
    BY <1>1, <2>5, <2>6, <2>7 DEF OnceInv
<1>7. CASE ~paused
  <2>1. ~resume /\ ran' = {} /\ twice' = {}
    BY <1>1, <1>5, <1>7
  <2>2. /\ path' = Append(p, Begin) /\ idx' = Len(p)
        /\ Len(path') = idx' + 1 /\ path'[idx' + 1] = Begin /\ idx' \in Nat
    BY <1>1, <1>2, <2>1, AppendProperties
  <2>3. \A j : j \in idx' + 1 .. Len(path') <=> j = idx' + 1
    BY <2>2
  <2>4. Distinct(path, idx)'
    BY <2>3 DEF Distinct
  <2>5. BatchIn(0)' /\ RanIn(0)'
    BY <1>2, <1>3, <2>1, <2>2, <2>3, BeginIsFirst DEF BatchIn, RanIn
  <2> QED
    BY <1>1, <2>1, <2>4, <2>5 DEF OnceInv
<1> QED
  BY <1>6, <1>7

(* The batch that starts.                                                  *)
LEMMA OncePrepare == IInv /\ OnceInv /\ Prepare => OnceInv'
<1> SUFFICES ASSUME IInv, OnceInv, Prepare PROVE OnceInv'
  OBVIOUS
<1> DEFINE P == Fold("keep", SubSeq(path, 1, idx), From(path, idx + 1))
<1>0. path' = P
  <2>1. path' = FoldLeft(LAMBDA r, c : IF Waits(r, c) THEN r ELSE Append(r, c),
                         SubSeq(path, 1, idx), From(path, idx + 1))
    BY DEF Prepare
  <2> QED
    BY <2>1, FoldsAreSteps, Zenon
<1> HIDE DEF P
<1>1. /\ phase = "batch" /\ phase' = "run" /\ todo' = idx + 1 .. Len(path')
      /\ graph' = graph /\ idx' = idx /\ midway' = midway /\ ran' = ran /\ twice' = twice
  BY DEF Prepare, data, roundVars
<1>2. TypeInv /\ (Orderly' <=> Orderly) /\ \A k \in Nat : At(k)' = At(k) /\ Nearer(k)' = Nearer(k)
  BY <1>1, SameOrder DEF IInv
<1> SUFFICES ASSUME Orderly PROVE OnceInv'
  BY <1>2 DEF OnceInv
<1>3. twice = {} /\ Distinct(path, idx) /\ \E k \in Nat : BatchIn(k) /\ RanIn(k)
  BY <1>1 DEF OnceInv
<1>4. PICK k \in Nat : BatchIn(k) /\ RanIn(k)
  BY <1>3
<1>5. /\ Distinct(path', idx)
      /\ \A i \in idx + 1 .. Len(path') : \E j \in idx + 1 .. Len(path) : path'[i] = path[j]
  <2>1. phase # "idle" /\ path' = Fold("keep", SubSeq(path, 1, idx), From(path, idx + 1))
    BY <1>0, <1>1 DEF P
  <2>2. \A Q : Q = Fold("keep", SubSeq(path, 1, idx), From(path, idx + 1)) =>
          /\ Distinct(Q, idx)
          /\ \A i \in idx + 1 .. Len(Q) : \E j \in idx + 1 .. Len(path) : Q[i] = path[j]
    BY <1>2, <1>3, <2>1, KeepsDistinct
  <2> QED
    BY <2>1, <2>2
<1>6. Distinct(path, idx)'
  BY <1>1, <1>5 DEF Distinct
<1>7. BatchIn(k)'
  BY <1>1, <1>2, <1>4, <1>5 DEF BatchIn
<1>8. RanIn(k)'
  <2>1. ran \subseteq Nearer(k)
    BY <1>1, <1>4 DEF RanIn
  <2> QED
    BY <1>1, <1>2, <2>1 DEF RanIn
<1> QED
  BY <1>1, <1>3, <1>6, <1>7, <1>8 DEF OnceInv

(* A component of the batch finishes: it has not run in this round.        *)
LEMMA OnceFinish == ASSUME IInv, OnceInv, NEW i \in todo, Run(i) \/ Fail(i) PROVE OnceInv'
<1> DEFINE c == path[i]
<1>1. /\ phase = "run" /\ phase' = "run" /\ todo' = todo \ {i} /\ Note(c)
      /\ graph' = graph /\ path' = path /\ idx' = idx /\ midway' = midway
  BY DEF Run, Fail
<1>2. /\ c \in Node /\ i \in idx + 1 .. Len(path)
      /\ (Orderly' <=> Orderly) /\ \A k \in Nat : At(k)' = At(k) /\ Nearer(k)' = Nearer(k)
  BY <1>1, InBatch, SameOrder
<1> SUFFICES ASSUME Orderly PROVE OnceInv'
  BY <1>2 DEF OnceInv
<1>3. twice = {} /\ Distinct(path, idx) /\ \E k \in Nat : BatchIn(k) /\ RanIn(k)
  BY <1>1 DEF OnceInv
<1>4. PICK k \in Nat : BatchIn(k) /\ RanIn(k)
  BY <1>3
<1>5. c \notin Nearer(k)
  BY <1>2, <1>4, NotNearer DEF BatchIn, Orderly
<1>6. c \notin ran
  <2> SUFFICES ASSUME c \in ran PROVE FALSE
    OBVIOUS
  <2>1. PICK j \in (idx + 1 .. Len(path)) \ todo : c = path[j]
    BY <1>1, <1>4, <1>5 DEF RanIn
  <2>2. i = j
    BY <1>2, <1>3, <2>1 DEF Distinct
  <2> QED
    BY <2>1, <2>2
<1>7. ran' = ran \cup {c} /\ twice' = {}
  BY <1>1, <1>3, <1>6 DEF Note
<1>8. Distinct(path, idx)' /\ BatchIn(k)'
  BY <1>1, <1>2, <1>3, <1>4 DEF Distinct, BatchIn
<1>9. RanIn(k)'
  <2>1. \A d \in ran : d \in Nearer(k) \/ \E j \in (idx + 1 .. Len(path)) \ todo : d = path[j]
    BY <1>1, <1>4 DEF RanIn
  <2>2. \A d \in ran' : d \in Nearer(k) \/ \E j \in (idx + 1 .. Len(path)) \ todo' : d = path[j]
    BY <1>1, <1>2, <1>7, <2>1
  <2> QED
    BY <1>1, <1>2, <2>2 DEF RanIn
<1> QED
  BY <1>1, <1>7, <1>8, <1>9 DEF OnceInv

(* A turn goes on with the batch at the next distance.                     *)
LEMMA OnceContinue == IInv /\ OnceInv /\ PostContinue => OnceInv'
<1> SUFFICES ASSUME IInv, OnceInv, PostContinue PROVE OnceInv'
  OBVIOUS
<1>1. /\ todo = {} /\ phase = "run" /\ phase' = "batch" /\ path' = Extended /\ idx' = Len(path)
      /\ Pending # <<>> /\ graph' = graph /\ midway' = midway /\ ran' = ran /\ twice' = twice
  BY DEF PostContinue, Posted
<1>2. TypeInv /\ (Orderly' <=> Orderly) /\ \A k \in Nat : At(k)' = At(k) /\ Nearer(k)' = Nearer(k)
  BY <1>1, SameOrder DEF IInv
<1> SUFFICES ASSUME Orderly PROVE OnceInv'
  BY <1>2 DEF OnceInv
<1>3. twice = {} /\ Distinct(path, idx) /\ \E k \in Nat : BatchIn(k) /\ RanIn(k)
  BY <1>1 DEF OnceInv
<1>4. PICK k \in Nat : BatchIn(k) /\ RanIn(k)
  BY <1>3
<1>5. /\ Distinct(Extended, Len(path))
      /\ \A i \in Len(path) + 1 .. Len(Extended) : Extended[i] \in At(k + 1)
      /\ ran \subseteq Nearer(k + 1)
  BY <1>1, <1>2, <1>3, <1>4, NextOnce
<1>6. k + 1 \in Nat
  OBVIOUS
<1>7. Distinct(path, idx)'
  BY <1>1, <1>5 DEF Distinct
<1>8. BatchIn(k + 1)' /\ RanIn(k + 1)'
  BY <1>1, <1>2, <1>5, <1>6 DEF BatchIn, RanIn
<1> QED
  BY <1>1, <1>3, <1>6, <1>7, <1>8 DEF OnceInv

(* A pause saves the batch that would come next.                           *)
LEMMA OncePause == IInv /\ OnceInv /\ PostPause => OnceInv'
<1> SUFFICES ASSUME IInv, OnceInv, PostPause PROVE OnceInv'
  OBVIOUS
<1> DEFINE R == FillupsFirst(Pending)
           n == Len(path)
<1>1. /\ todo = {} /\ phase = "run" /\ phase' = "idle" /\ Asks /\ saved'.path = R
      /\ graph' = graph /\ midway' = midway /\ ran' = ran /\ twice' = twice
  BY DEF PostPause, Posted, Save
<1>2. TypeInv /\ (Orderly' <=> Orderly) /\ \A k \in Nat : At(k)' = At(k) /\ Nearer(k)' = Nearer(k)
  BY <1>1, SameOrder DEF IInv
<1> SUFFICES ASSUME Orderly PROVE OnceInv'
  BY <1>2 DEF OnceInv
<1>3. twice = {} /\ Distinct(path, idx) /\ \E k \in Nat : BatchIn(k) /\ RanIn(k)
  BY <1>1 DEF OnceInv
<1>4. PICK k \in Nat : BatchIn(k) /\ RanIn(k)
  BY <1>3
<1>5. /\ Pending \in Seq(Node) /\ n \in Nat /\ Len(Pending) \in Nat
      /\ \A j \in 1 .. Len(Pending) : n + j \in n + 1 .. Len(Extended) /\ Pending[j] = Extended[n + j]
  <2>1. Extended \in Seq(Node) /\ n \in Nat
    <3>1. path \in Seq(Node)
      BY <1>2 DEF TypeInv, TypeOK
    <3>2. Extended \in Seq(Node)
      BY <1>2, ExtendedGrows
    <3> QED
      BY <3>1, <3>2
  <2>2. /\ From(Extended, n + 1) \in Seq(Node)
        /\ \A j \in 1 .. Len(From(Extended, n + 1)) :
             n + j \in n + 1 .. Len(Extended) /\ From(Extended, n + 1)[j] = Extended[n + j]
    BY <2>1, Parts
  <2> QED
    BY <2>1, <2>2 DEF Pending
<1>6. PICK h \in 1 .. Len(Pending) : KindOf(Pending[h]) = "fillup"
  <2>1. PICK c \in Range(Pending) : KindOf(c) = "fillup"
    BY <1>1 DEF Asks
  <2> QED
    BY <1>5, <2>1 DEF Range
<1>7. Pending # <<>>
  BY <1>5, <1>6
<1>8. /\ Distinct(Extended, n)
      /\ \A i \in n + 1 .. Len(Extended) : Extended[i] \in At(k + 1)
      /\ ran \subseteq Nearer(k + 1)
  BY <1>1, <1>2, <1>3, <1>4, <1>7, NextOnce
<1> HIDE DEF R, n
<1>9. Distinct(Pending, 0)
  <2> SUFFICES ASSUME NEW j \in 1 .. Len(Pending), NEW l \in 1 .. Len(Pending),
                      Pending[j] = Pending[l]
               PROVE  j = l
    BY <1>5 DEF Distinct
  <2>1. n + j = n + l
    BY <1>5, <1>8 DEF Distinct
  <2> QED
    BY <1>5, <2>1
<1>10. Distinct(R, 0)
  BY <1>5, <1>9, FillupsFirstDistinct DEF R
<1>11. (\A i \in 1 .. Len(R) : \E j \in 1 .. Len(Pending) : R[i] = Pending[j]) /\ IsResume(R)
  <2>1. \A Q : Q = FillupsFirst(Pending) =>
          /\ \A i \in 1 .. Len(Q) : \E j \in 1 .. Len(Pending) : Q[i] = Pending[j]
          /\ \A j \in 1 .. Len(Pending) : \E i \in 1 .. Len(Q) : Q[i] = Pending[j]
          /\ IsResume(Q)
    BY <1>5, <1>6, FillupsFirstHas
  <2> QED
    BY <2>1 DEF R
<1>12. \A i \in 1 .. Len(R) : R[i] \in At(k + 1)
  BY <1>5, <1>8, <1>11
<1>13. k + 1 \in Nat
  OBVIOUS
<1>14. (\A i \in 1 .. Len(saved.path) : saved.path[i] \in At(k + 1))' /\ (ran \subseteq Nearer(k + 1))'
  BY <1>1, <1>2, <1>8, <1>12, <1>13
<1>15. IsResume(saved.path)' /\ Distinct(saved.path, 0)'
  BY <1>1, <1>10, <1>11 DEF IsResume, KindOf, Distinct
<1> QED
  BY <1>1, <1>3, <1>13, <1>14, <1>15 DEF OnceInv

(* Every step of a session keeps the invariant of EachOnce.                *)
THEOREM OnceNext == IInv /\ OnceInv /\ [Next]_vars => OnceInv'
<1> SUFFICES ASSUME IInv, OnceInv, [Next]_vars PROVE OnceInv'
  OBVIOUS
<1>1. CASE Turn
  BY <1>1, OnceTurn
<1>2. CASE Canceled \/ PostRaise
  <2>1. phase' = "idle" /\ last' = "raised" /\ UNCHANGED <<graph, midway, twice>>
    BY <1>2 DEF Canceled, PostRaise, Raise, roundVars
  <2> QED
    BY <2>1, OnceEnd
<1>3. CASE Prepare
  BY <1>3, OncePrepare
<1>4. CASE \E i \in todo : Run(i) \/ Fail(i)
  BY <1>4, OnceFinish
<1>5. CASE PostError \/ PostFinish
  <2>1. phase' = "idle" /\ last' # "paused" /\ UNCHANGED <<graph, midway, twice>>
    BY <1>5 DEF PostError, PostFinish, Posted, Save
  <2> QED
    BY <2>1, OnceEnd
<1>6. CASE PostPause
  BY <1>6, OncePause
<1>7. CASE PostContinue
  BY <1>7, OnceContinue
<1>8. CASE Cancel \/ Expire \/ UNCHANGED vars
  BY <1>8, OnceCancel
<1> QED
  BY <1>1, <1>2, <1>3, <1>4, <1>5, <1>6, <1>7, <1>8 DEF Next, Step

(* In every state of a session of an orderly graph, a batch has each       *)
(* component once, and none of them ran before in the round.               *)
THEOREM OnceInvariant == Spec => []OnceInv
<1>1. IInv /\ IInv' /\ OnceInv /\ [Next]_vars => OnceInv'
  BY OnceNext
<1> QED
  BY <1>1, OnceInit, CanvasInvariant, PTL DEF Spec

(* In a balanced graph without switches and handlers, in which components  *)
(* come together as EachOnce says, none is run twice in a round, also if   *)
(* the user is asked in between or a component fails.                      *)
THEOREM NobodyRunsTwice == Spec => []EachOnce
<1>1. OnceInv => EachOnce
  BY DEF OnceInv, EachOnce, Orderly
<1> QED
  BY <1>1, OnceInvariant, PTL

-----------------------------------------------------------------------------
(* Where a component sends the path to are components.                     *)
LEMMA NextsIn ==
  ASSUME TypeInv, NEW c \in Node
  PROVE  Nexts(c) \subseteq Node /\ Nexts(c) \subseteq Range(Follows(c))
<1>1. Follows(c) \in Seq(Node)
  <2>1. graph.goto[c] \in Seq(Node)
    BY GraphFacts DEF TypeInv
  <2> QED
    BY <2>1, SuccessorsIn DEF Follows
<1>2. Range(Follows(c)) \subseteq Node
  <2> DEFINE s == Follows(c)
  <2> HIDE DEF s
  <2>1. s \in Seq(Node) => Range(s) \subseteq Node
    BY DEF Range
  <2> QED
    BY <1>1, <2>1 DEF s
<1> QED
  BY <1>2 DEF Nexts

(* Nobody is led to from one that is not among the components R.           *)
LEMMA NotAmong == ASSUME NEW r, NEW d, NEW R, r \notin R PROVE Apart(r, d, R)
<1>1. {} \in SUBSET Node /\ d \notin {} /\ \A c \in ({} \cup {r}) \cap R : Nexts(c) \subseteq {}
  OBVIOUS
<1> QED
  BY <1>1 DEF Apart

(* After a batch, all that comes after it is pending, or was in it.        *)
LEMMA PendingHas ==
  ASSUME TypeInv, phase = "run", NEW c \in Now, NEW d \in Nexts(c)
  PROVE  d \in Now \/ \E i \in Len(path) + 1 .. Len(Extended) : d = Extended[i]
<1>1. path \in Seq(Node) /\ Len(path) \in Nat /\ idx \in Nat /\ Len(Extended) \in Nat
  BY ExtendedGrows DEF TypeInv, TypeOK
<1>2. PICK j \in idx + 1 .. Len(path) : c = path[j]
  BY DEF Now
<1>3. /\ path # <<>> /\ path[j] \in Node
      /\ Len(path) \in idx + 1 .. Len(path) /\ Len(path) \in 1 .. Len(path)
  <2>1. /\ j \in 1 .. Len(path)
        /\ Len(path) \in idx + 1 .. Len(path) /\ Len(path) \in 1 .. Len(path)
    BY <1>1, <1>2
  <2> QED
    BY <1>1, <2>1
<1>4. d \in Range(Follows(path[j]))
  BY <1>2, <1>3, NextsIn
<1>5. /\ \A i \in 1 .. Len(path) : Extended[i] = path[i]
      /\ \A l \in idx + 1 .. Len(path) : \A e \in Range(Follows(path[l])) :
           \E i \in Len(path) .. Len(Extended) : Extended[i] = e
  BY <1>3, FollowsAdds
<1>6. PICK i \in Len(path) .. Len(Extended) : Extended[i] = d
  BY <1>2, <1>4, <1>5
<1>7. CASE i = Len(path)
  BY <1>3, <1>5, <1>6, <1>7 DEF Now
<1>8. CASE i # Len(path)
  <2>1. i \in Len(path) + 1 .. Len(Extended)
    BY <1>1, <1>8
  <2> QED
    BY <1>6, <2>1
<1> QED
  BY <1>7, <1>8

(* When a batch has run, what comes after it takes its place.              *)
LEMMA OwedNext ==
  ASSUME Owed(Now), Now \subseteq ran, ran \subseteq Node, NEW B \in SUBSET Node,
         \A c \in Now : Nexts(c) \subseteq B \cup Now
  PROVE  Owed(B)
<1> SUFFICES ASSUME NEW c \in ran \ B, NEW d \in Nexts(c), d \notin ran, d \notin B
             PROVE  \E r \in graph.refs[d] : Apart(r, d, ran \ B)
  BY DEF Owed
<1>1. c \notin Now
  OBVIOUS
<1>2. PICK r \in graph.refs[d] : Apart(r, d, ran \ Now)
  BY <1>1 DEF Owed
<1>3. PICK S \in SUBSET Node :
        d \notin S /\ \A e \in (S \cup {r}) \cap (ran \ Now) : Nexts(e) \subseteq S
  BY <1>2 DEF Apart
<1> DEFINE T == S \cup B \cup Now
<1>4. T \in SUBSET Node /\ d \notin T
  BY <1>3
<1>5. ASSUME NEW e \in (T \cup {r}) \cap (ran \ B) PROVE Nexts(e) \subseteq T
  BY <1>3, <1>5
<1> HIDE DEF T
<1>6. Apart(r, d, ran \ B)
  BY <1>4, <1>5 DEF Apart
<1> QED
  BY <1>6

(* What Prepare keeps, and what it drops.                                  *)
LEMMA KeepsOrDrops ==
  ASSUME TypeInv, phase # "idle",
         NEW P, P = Fold("keep", SubSeq(path, 1, idx), From(path, idx + 1))
  PROVE  /\ P \in Seq(Node) /\ idx <= Len(P) /\ \A i \in 1 .. idx : P[i] = path[i]
         /\ \A i \in idx + 1 .. Len(P) : \E j \in idx + 1 .. Len(path) : P[i] = path[j]
         /\ \A j \in idx + 1 .. Len(path) :
              \/ \E i \in idx + 1 .. Len(P) : P[i] = path[j]
              \/ /\ KindOf(path[j]) \notin {"begin", "fillup"} /\ path[j] \in graph.text
                 /\ \E r \in graph.refs[path[j]] : r \notin Walked
         /\ \/ IsResume(P)
            \/ \A i \in idx + 1 .. Len(P) :
                 \/ KindOf(P[i]) \in {"begin", "fillup"} \/ P[i] \notin graph.text
                 \/ graph.refs[P[i]] \subseteq Range(P)
<1> DEFINE p == SubSeq(path, 1, idx)
           q == From(path, idx + 1)
           Sees(c, r) == \/ KindOf(c) \in {"begin", "fillup"} \/ c \notin graph.text
                         \/ graph.refs[c] \subseteq Range(r)
           Misses(c) == /\ KindOf(c) \notin {"begin", "fillup"} /\ c \in graph.text
                        /\ \E r \in graph.refs[c] : r \notin Walked
           V == {r \in Seq(Node) :
                   /\ idx <= Len(r) /\ \A i \in 1 .. idx : r[i] = path[i]
                   /\ \A i \in idx + 1 .. Len(r) : \E j \in 1 .. Len(q) : r[i] = q[j]
                   /\ IsResume(r) \/ \A i \in idx + 1 .. Len(r) : Sees(r[i], r)}
           W == [n \in 0 .. Len(q) |->
                   {r \in V : \A j \in 1 .. n :
                      (\E i \in idx + 1 .. Len(r) : r[i] = q[j]) \/ Misses(q[j])}]
<1>1. /\ path \in Seq(Node) /\ idx \in Nat /\ Len(path) \in Nat /\ idx <= Len(path)
      /\ p \in Seq(Node) /\ Len(p) = idx /\ \A i \in 1 .. idx : p[i] = path[i]
      /\ q \in Seq(Node) /\ Len(q) \in Nat /\ idx + Len(q) = Len(path)
      /\ \A j \in 1 .. Len(q) : /\ q[j] = path[idx + j] /\ q[j] \in Node
                                /\ idx + j \in idx + 1 .. Len(path)
  <2> HIDE DEF p, q
  <2>1. \A s, t : s = SubSeq(path, 1, idx) /\ t = From(path, idx + 1) =>
          /\ path \in Seq(Node) /\ idx \in Nat /\ Len(path) \in Nat /\ idx <= Len(path)
          /\ s \in Seq(Node) /\ Len(s) = idx /\ \A i \in 1 .. idx : s[i] = path[i]
          /\ t \in Seq(Node) /\ Len(t) \in Nat /\ idx + Len(t) = Len(path)
          /\ \A j \in 1 .. Len(t) : /\ t[j] = path[idx + j] /\ t[j] \in Node
                                    /\ idx + j \in idx + 1 .. Len(path)
    BY BatchParts
  <2> QED
    BY <2>1 DEF p, q
<1> HIDE DEF p, q, Sees
<1>2. p \in V /\ p \in W[0]
  <2>1. /\ 0 \in 0 .. Len(q) /\ ~ (\E i : i \in idx + 1 .. Len(p)) /\ ~ (\E j : j \in 1 .. 0)
        /\ idx <= Len(p)
    BY <1>1
  <2>2. p \in V
    BY <1>1, <2>1
  <2> HIDE DEF V, Misses
  <2> QED
    BY <2>1, <2>2
<1>3. ASSUME NEW r \in V, NEW c \in Node, NEW l \in 1 .. Len(q), c = q[l]
      PROVE  LET e == StepOf("keep", r, c)
             IN /\ e \in V /\ \A i \in idx + 1 .. Len(r) : i \in idx + 1 .. Len(e) /\ e[i] = r[i]
                /\ (\E i \in idx + 1 .. Len(e) : e[i] = c) \/ Misses(c)
  <2>1. /\ r \in Seq(Node) /\ Len(r) \in Nat /\ idx <= Len(r) /\ \A i \in 1 .. idx : r[i] = path[i]
        /\ \A i \in idx + 1 .. Len(r) : \E j \in 1 .. Len(q) : r[i] = q[j]
        /\ IsResume(r) \/ \A i \in idx + 1 .. Len(r) : Sees(r[i], r)
    OBVIOUS
  <2>2. CASE Waits(r, c)
    <3>1. StepOf("keep", r, c) = r
      BY <2>2 DEF StepOf
    <3>2. Walked \subseteq Range(r)
      <4>1. \A i \in 1 .. idx : i \in 1 .. Len(r)
        BY <1>1, <2>1
      <4> QED
        BY <2>1, <4>1 DEF Walked, Range
    <3>3. Misses(c)
      BY <2>2, <3>2 DEF Waits
    <3> HIDE DEF V, Misses
    <3> QED
      BY <3>1, <3>3
  <2>3. CASE ~Waits(r, c)
    <3> DEFINE a == Append(r, c)
    <3>1. StepOf("keep", r, c) = a
      BY <2>3 DEF StepOf
    <3>2. /\ a \in Seq(Node) /\ Len(a) = Len(r) + 1 /\ a[Len(r) + 1] = c
          /\ \A i \in 1 .. Len(r) : a[i] = r[i]
      BY <2>1, Appending
    <3> HIDE DEF a
    <3>3. /\ idx <= Len(a) /\ Len(r) + 1 \in idx + 1 .. Len(a)
          /\ \A i \in 1 .. idx : i \in 1 .. Len(r)
          /\ \A i \in idx + 1 .. Len(r) : i \in idx + 1 .. Len(a) /\ i \in 1 .. Len(r)
          /\ \A i \in idx + 1 .. Len(a) : i = Len(r) + 1 \/ i \in idx + 1 .. Len(r)
          /\ \A i \in 1 .. Len(r) : i \in 1 .. Len(a)
      <4>1. idx \in Nat /\ Len(r) \in Nat /\ idx <= Len(r) /\ Len(a) = Len(r) + 1
        BY <1>1, <2>1, <3>2
      <4> QED
        BY <4>1
    <3>4. \A i \in 1 .. idx : a[i] = path[i]
      BY <2>1, <3>2, <3>3
    <3>5. ASSUME NEW i \in idx + 1 .. Len(a) PROVE \E j \in 1 .. Len(q) : a[i] = q[j]
      BY <1>3, <2>1, <3>2, <3>3
    <3>6. Range(r) \subseteq Range(a)
      BY <2>1, <3>2, <3>3 DEF Range
    <3>7. IsResume(r) => IsResume(a)
      <4> SUFFICES ASSUME IsResume(r) PROVE IsResume(a)
        OBVIOUS
      <4>1. r # <<>> /\ KindOf(Head(r)) = "fillup"
        BY DEF IsResume
      <4>2. 1 \in 1 .. Len(r) /\ Len(a) > 0
        BY <2>1, <3>2, <4>1
      <4>3. Head(r) = r[1] /\ Head(a) = a[1] /\ a[1] = r[1] /\ a # <<>>
        BY <2>1, <3>2, <4>1, <4>2
      <4> QED
        BY <4>1, <4>3 DEF IsResume
    <3>8. IsResume(a) \/ \A i \in idx + 1 .. Len(a) : Sees(a[i], a)
      <4> SUFFICES ASSUME ~IsResume(r), NEW i \in idx + 1 .. Len(a) PROVE Sees(a[i], a)
        BY <3>7
      <4>1. CASE i = Len(r) + 1
        <5>1. \/ KindOf(c) \in {"begin", "fillup"} \/ c \notin graph.text
              \/ graph.refs[c] \subseteq Range(r)
          BY <2>3 DEF Waits
        <5> QED
          BY <3>2, <3>6, <4>1, <5>1 DEF Sees
      <4>2. CASE i \in idx + 1 .. Len(r)
        BY <2>1, <3>2, <3>3, <3>6, <4>2 DEF Sees
      <4> QED
        BY <3>3, <4>1, <4>2
    <3>9. a \in V
      BY <3>2, <3>3, <3>4, <3>5, <3>8
    <3> HIDE DEF V, Misses
    <3> QED
      BY <3>1, <3>2, <3>3, <3>9
  <2> QED
    BY <2>2, <2>3
<1>4. ASSUME NEW r \in V, NEW j \in 1 .. Len(q) PROVE StepOf("keep", r, q[j]) \in V
  <2> HIDE DEF V, Misses
  <2> QED
    BY <1>1, <1>3
<1>5. ASSUME NEW n \in 0 .. Len(q) - 1, NEW r \in V, r \in W[n]
      PROVE  StepOf("keep", r, q[n + 1]) \in W[n + 1]
  <2> DEFINE e == StepOf("keep", r, q[n + 1])
  <2>1. /\ n \in Nat /\ n \in 0 .. Len(q) /\ n + 1 \in 0 .. Len(q) /\ n + 1 \in 1 .. Len(q)
        /\ \A j \in 1 .. n + 1 : j = n + 1 \/ j \in 1 .. n
    BY <1>1
  <2> HIDE DEF V, Misses
  <2>2. \A j \in 1 .. n : (\E i \in idx + 1 .. Len(r) : r[i] = q[j]) \/ Misses(q[j])
    BY <1>5, <2>1
  <2>3. /\ e \in V /\ \A i \in idx + 1 .. Len(r) : i \in idx + 1 .. Len(e) /\ e[i] = r[i]
        /\ (\E i \in idx + 1 .. Len(e) : e[i] = q[n + 1]) \/ Misses(q[n + 1])
    BY <1>1, <1>3, <2>1
  <2> HIDE DEF e
  <2>4. ASSUME NEW j \in 1 .. n + 1
        PROVE  (\E i \in idx + 1 .. Len(e) : e[i] = q[j]) \/ Misses(q[j])
    <3>1. CASE j = n + 1
      BY <2>3, <3>1
    <3>2. CASE j \in 1 .. n
      BY <2>2, <2>3, <3>2
    <3> QED
      BY <2>1, <3>1, <3>2
  <2>5. e \in W[n + 1]
    BY <2>1, <2>3, <2>4
  <2> QED
    BY <2>5 DEF e
<1>6. Fold("keep", p, q) \in V /\ Fold("keep", p, q) \in W[Len(q)]
  <2> HIDE DEF V, W
  <2>1. /\ \A r \in V : \A j \in 1 .. Len(q) : StepOf("keep", r, q[j]) \in V
        /\ \A n \in 0 .. Len(q) - 1 : \A r \in V :
             r \in W[n] => StepOf("keep", r, q[n + 1]) \in W[n + 1]
    BY <1>4, <1>5
  <2>2. q \in Seq(Node)
    BY <1>1
  <2> QED
    BY <1>2, <2>1, <2>2, FoldAt
<1>7. P = Fold("keep", p, q) /\ Len(q) \in 0 .. Len(q)
  BY <1>1 DEF p, q
<1>8. P \in V /\ P \in W[Len(q)]
  <2> HIDE DEF V, W
  <2> QED
    BY <1>6, <1>7
<1>9. \A j \in 1 .. Len(q) : (\E i \in idx + 1 .. Len(P) : P[i] = q[j]) \/ Misses(q[j])
  <2> HIDE DEF V, Misses
  <2> QED
    BY <1>7, <1>8
<1>10. /\ P \in Seq(Node) /\ idx <= Len(P) /\ \A i \in 1 .. idx : P[i] = path[i]
       /\ \A i \in idx + 1 .. Len(P) : \E j \in 1 .. Len(q) : P[i] = q[j]
       /\ IsResume(P) \/ \A i \in idx + 1 .. Len(P) : Sees(P[i], P)
  BY <1>8
<1> HIDE DEF V, W, Misses
<1>11. ASSUME NEW i \in idx + 1 .. Len(P) PROVE \E j \in idx + 1 .. Len(path) : P[i] = path[j]
  <2>1. PICK j \in 1 .. Len(q) : P[i] = q[j]
    BY <1>10
  <2> QED
    BY <1>1, <2>1
<1>12. ASSUME NEW j \in idx + 1 .. Len(path)
       PROVE  (\E i \in idx + 1 .. Len(P) : P[i] = path[j]) \/ Misses(path[j])
  <2>1. j - idx \in 1 .. Len(q) /\ idx + (j - idx) = j
    BY <1>1
  <2>2. q[j - idx] = path[idx + (j - idx)]
    BY <1>1, <2>1
  <2>3. q[j - idx] = path[j]
    BY <2>1, <2>2
  <2>4. (\E i \in idx + 1 .. Len(P) : P[i] = q[j - idx]) \/ Misses(q[j - idx])
    BY <1>9, <2>1
  <2> QED
    BY <2>3, <2>4
<1> QED
  BY <1>10, <1>11, <1>12 DEF Misses, Sees

(* Where a component sends the path depends on its own data.               *)
LEMMA SameNexts ==
  ASSUME UNCHANGED <<graph, answers>>, NEW e \in Node,
         err'[e] <=> err[e], count'[e] = count[e], next'[e] = next[e]
  PROVE  Nexts(e)' = Nexts(e)
<1>1. Successors(e)' = Successors(e)
  BY DEF Successors, Ended, Exits, KindOf, Start
<1>2. Follows(e)' = Follows(e)
  BY <1>1 DEF Follows
<1> QED
  BY <1>2 DEF Nexts, KindOf

(* When nobody sends the path to more components than before, and whoever  *)
(* is not to run any more waits for one that has not run.                  *)
LEMMA OwedStill ==
  ASSUME graph' = graph, NEW B, Owed(B), NEW C, ran' \ C \subseteq ran \ B,
         \A e \in ran' \ C : Nexts(e)' \subseteq Nexts(e),
         \A d \in ran \cup B : d \in ran' \cup C \/ \E r \in graph.refs[d] : r \notin ran' \ C
  PROVE  \A c \in ran' \ C : \A d \in Nexts(c)' :
           \/ d \in ran' \cup C
           \/ \E r \in graph'.refs[d] : \E S \in SUBSET Node :
                d \notin S /\ \A e \in (S \cup {r}) \cap (ran' \ C) : Nexts(e)' \subseteq S
<1> SUFFICES ASSUME NEW c \in ran' \ C, NEW d \in Nexts(c)', d \notin ran' \cup C
             PROVE  \E r \in graph.refs[d] : \E S \in SUBSET Node :
                      d \notin S /\ \A e \in (S \cup {r}) \cap (ran' \ C) : Nexts(e)' \subseteq S
  OBVIOUS
<1>1. c \in ran \ B /\ d \in Nexts(c)
  OBVIOUS
<1>2. CASE d \in ran \cup B
  <2>1. PICK r \in graph.refs[d] : r \notin ran' \ C
    BY <1>2
  <2> SUFFICES \E S \in SUBSET Node :
                 d \notin S /\ \A e \in (S \cup {r}) \cap (ran' \ C) : Nexts(e)' \subseteq S
    OBVIOUS
  <2> WITNESS {} \in SUBSET Node
  <2> QED
    BY <2>1
<1>3. CASE d \notin ran \cup B
  <2>1. PICK r \in graph.refs[d] : Apart(r, d, ran \ B)
    BY <1>1, <1>3 DEF Owed
  <2>2. PICK S \in SUBSET Node :
          d \notin S /\ \A e \in (S \cup {r}) \cap (ran \ B) : Nexts(e) \subseteq S
    BY <2>1 DEF Apart
  <2>3. \A e \in (S \cup {r}) \cap (ran' \ C) : Nexts(e)' \subseteq S
    BY <2>2
  <2> QED
    BY <2>2, <2>3
<1> QED
  BY <1>2, <1>3

(* The invariant of NobodyLost holds in a new session.                     *)
LEMMA LostInit == Init => LostInv
  BY DEF Init, LostInv, NobodyLost, Finished

(* A turn that fails.                                                      *)
LEMMA LostEnd ==
  ASSUME LostInv, ran' = ran, phase' = "idle", last' \notin {"paused", "finished"}
  PROVE  LostInv'
  BY DEF LostInv, NobodyLost, Finished

(* The cancel flag, and steps that change nothing.                         *)
LEMMA LostCancel == LostInv /\ (Cancel \/ Expire \/ UNCHANGED vars) => LostInv'
<1> SUFFICES ASSUME LostInv, Cancel \/ Expire \/ UNCHANGED vars PROVE LostInv'
  OBVIOUS
<1>1. /\ phase' = phase /\ path' = path /\ idx' = idx /\ todo' = todo /\ graph' = graph
      /\ err' = err /\ count' = count /\ next' = next /\ answers' = answers
      /\ last' = last /\ saved' = saved /\ ran' = ran /\ turns' = turns
  BY DEF Cancel, Expire, vars, flow, data, roundVars, bounds
<1>2. \A c : Successors(c)' = Successors(c)
  BY <1>1 DEF Successors, Ended, Exits, KindOf, Start
<1>3. \A c : Nexts(c)' = Nexts(c)
  BY <1>1, <1>2 DEF Nexts, Follows, KindOf
<1>4. Now' = Now /\ Upto' = Upto
  BY <1>1 DEF Now, Upto
<1>5. \A c : Free(c)' <=> Free(c)
  BY <1>1, <1>4 DEF Free, KindOf
<1>6. (IsResume(path)' <=> IsResume(path)) /\ (IsResume(saved.path)' <=> IsResume(saved.path))
  BY <1>1 DEF IsResume, KindOf
<1>7. \A r, d, R : Apart(r, d, R)' <=> Apart(r, d, R)
  BY <1>3 DEF Apart
<1>8. (Owed(Now)' <=> Owed(Now)) /\ (Owed(Range(saved.path))' <=> Owed(Range(saved.path)))
  BY <1>1, <1>3, <1>4, <1>7 DEF Owed
<1>9. NobodyLost' <=> NobodyLost
  BY <1>1, <1>3, <1>7 DEF NobodyLost, Finished
<1> QED
  BY <1>1, <1>4, <1>5, <1>6, <1>8, <1>9 DEF LostInv

(* A turn that goes on after a pause runs what was saved.                  *)
LEMMA LostTurn == IInv /\ LostInv /\ Turn => LostInv'
<1> SUFFICES ASSUME IInv, LostInv, Turn PROVE LostInv'
  OBVIOUS
<1> DEFINE p == saved.path
<1>1. /\ graph' = graph /\ phase = "idle" /\ phase' = "batch"
      /\ path' = (IF IsResume(p) THEN p ELSE Append(p, Begin))
      /\ idx' = (IF IsResume(p) THEN 0 ELSE Len(p))
      /\ err' = Reset(p, saved.err) /\ next' = [c \in Node |-> <<>>]
      /\ answers' = (last = "paused")
      /\ ran' = (IF last = "paused" THEN ran ELSE {})
  BY DEF Turn
<1>2. TypeInv /\ ran \subseteq Node
  BY DEF IInv, LostInv
<1>3. ~Finished' /\ phase' # "run" /\ phase' # "idle"
  BY <1>1 DEF Finished
<1>4. CASE last = "paused"
  <2>1. IsResume(p) /\ saved.err = err /\ Owed(Range(p))
    BY <1>1, <1>4 DEF LostInv
  <2>2. path' = p /\ idx' = 0 /\ ran' = ran /\ answers'
    <3>1. path' = p /\ idx' = 0 /\ ran' = ran
      BY <1>1, <1>4, <2>1
    <3>2. answers'
      BY <1>1, <1>4, Zenon
    <3> QED
      BY <3>1, <3>2
  <2>3. Now' = Range(p)
    <3>1. p \in Seq(Node)
      BY <1>2 DEF TypeInv, TypeOK
    <3>2. Now' = {p[j] : j \in 0 + 1 .. Len(p)}
      BY <2>2 DEF Now
    <3> HIDE DEF p
    <3> QED
      BY <3>1, <3>2 DEF Range
  <2>4. ASSUME NEW e \in ran' \ Range(p) PROVE Nexts(e)' \subseteq Nexts(e)
    <3>1. e \in Node
      BY <1>2, <2>2
    <3>2. CASE KindOf(e) \in {"item", "loopitem"}
      BY <1>1, <2>2, <3>2 DEF Nexts, KindOf
    <3>3. CASE KindOf(e) \notin {"item", "loopitem"}
      <4>1. err'[e] <=> err[e]
        BY <1>1, <2>1, <3>1 DEF Reset
      <4>2. CASE KindOf(e) = "switch" /\ ~(err[e] /\ graph.goto[e] # <<>>)
        <5>1. Follows(e)' = <<>>
          BY <1>1, <3>1, <4>1, <4>2 DEF Follows, Successors, Ended, Exits, KindOf
        <5>2. Range(<<>>) = {}
          BY DEF Range
        <5>3. Nexts(e)' = {}
          BY <5>1, <5>2 DEF Nexts
        <5> QED
          BY <5>3
      <4>3. CASE err[e] /\ graph.goto[e] # <<>>
        <5>1. Follows(e)' = Follows(e)
          BY <1>1, <4>1, <4>3 DEF Follows
        <5> QED
          BY <1>1, <3>3, <5>1 DEF Nexts, KindOf
      <4>4. CASE KindOf(e) # "switch" /\ ~(err[e] /\ graph.goto[e] # <<>>)
        <5>1. Successors(e)' = Successors(e)
          BY <1>1, <3>3, <4>4 DEF Successors, Ended, Exits, KindOf, Start
        <5>2. Follows(e)' = Follows(e)
          BY <1>1, <4>1, <4>4, <5>1 DEF Follows
        <5> QED
          BY <1>1, <3>3, <5>2 DEF Nexts, KindOf
      <4> QED
        BY <4>2, <4>3, <4>4
    <3> QED
      BY <3>2, <3>3
  <2>5. Owed(Now)'
    <3>1. /\ ran' \ Now' \subseteq ran \ Range(p)
          /\ \A e \in ran' \ Now' : Nexts(e)' \subseteq Nexts(e)
          /\ \A d \in ran \cup Range(p) : d \in ran' \cup Now'
      BY <2>2, <2>3, <2>4
    <3> QED
      BY <1>1, <2>1, <3>1, OwedStill DEF Owed, Apart
  <2>6. IsResume(path)'
    BY <1>1, <2>1, <2>2 DEF IsResume, KindOf
  <2>7. (ran \subseteq Node)'
    BY <1>2, <2>2
  <2> QED
    BY <1>1, <1>3, <2>5, <2>6, <2>7 DEF LostInv, NobodyLost
<1>5. CASE last # "paused"
  <2>1. ran' = {}
    BY <1>1, <1>5
  <2>2. Owed(Now)'
    BY <2>1 DEF Owed
  <2>3. (\A c \in ran \cup (IF phase = "run" THEN Now ELSE {}) : c \in Upto /\ Free(c))'
    BY <1>3, <2>1
  <2> QED
    BY <1>1, <1>3, <2>1, <2>2, <2>3 DEF LostInv, NobodyLost
<1> QED
  BY <1>4, <1>5

(* Nobody is dropped who has run, and who is dropped waits for one that    *)
(* has not.                                                                *)
LEMMA LostPrepare == IInv /\ LostInv /\ Prepare => LostInv'
<1> SUFFICES ASSUME IInv, LostInv, Prepare PROVE LostInv'
  OBVIOUS
<1> DEFINE P == Fold("keep", SubSeq(path, 1, idx), From(path, idx + 1))
<1>1. path' = P
  <2>1. path' = FoldLeft(LAMBDA r, c : IF Waits(r, c) THEN r ELSE Append(r, c),
                         SubSeq(path, 1, idx), From(path, idx + 1))
    BY DEF Prepare
  <2> QED
    BY <2>1, FoldsAreSteps, Zenon
<1> HIDE DEF P
<1>2. /\ phase = "batch" /\ phase' = "run" /\ todo' = idx + 1 .. Len(path')
      /\ graph' = graph /\ idx' = idx /\ ran' = ran /\ answers' = answers
      /\ err' = err /\ count' = count /\ next' = next
  BY DEF Prepare, data, roundVars
<1>3. TypeInv /\ phase # "idle" /\ ran \subseteq Node /\ Owed(Now)
  BY <1>2 DEF IInv, LostInv
<1>4. /\ P \in Seq(Node) /\ idx <= Len(P) /\ \A i \in 1 .. idx : P[i] = path[i]
      /\ \A i \in idx + 1 .. Len(P) : \E j \in idx + 1 .. Len(path) : P[i] = path[j]
      /\ \A j \in idx + 1 .. Len(path) :
           \/ \E i \in idx + 1 .. Len(P) : P[i] = path[j]
           \/ /\ KindOf(path[j]) \notin {"begin", "fillup"} /\ path[j] \in graph.text
              /\ \E r \in graph.refs[path[j]] : r \notin Walked
      /\ \/ IsResume(P)
         \/ \A i \in idx + 1 .. Len(P) :
              \/ KindOf(P[i]) \in {"begin", "fillup"} \/ P[i] \notin graph.text
              \/ graph.refs[P[i]] \subseteq Range(P)
  <2>1. \A Q : Q = Fold("keep", SubSeq(path, 1, idx), From(path, idx + 1)) =>
          /\ Q \in Seq(Node) /\ idx <= Len(Q) /\ \A i \in 1 .. idx : Q[i] = path[i]
          /\ \A i \in idx + 1 .. Len(Q) : \E j \in idx + 1 .. Len(path) : Q[i] = path[j]
          /\ \A j \in idx + 1 .. Len(path) :
               \/ \E i \in idx + 1 .. Len(Q) : Q[i] = path[j]
               \/ /\ KindOf(path[j]) \notin {"begin", "fillup"} /\ path[j] \in graph.text
                  /\ \E r \in graph.refs[path[j]] : r \notin Walked
          /\ \/ IsResume(Q)
             \/ \A i \in idx + 1 .. Len(Q) :
                  \/ KindOf(Q[i]) \in {"begin", "fillup"} \/ Q[i] \notin graph.text
                  \/ graph.refs[Q[i]] \subseteq Range(Q)
    BY <1>3, KeepsOrDrops
  <2> QED
    BY <2>1 DEF P
<1>5. IsResume(path) => P = path
  BY <1>3, KeepsAll DEF P
<1>6. Now' = {P[i] : i \in idx + 1 .. Len(P)} /\ Upto' = Range(P)
  <2>1. Now' = {P[i] : i \in idx + 1 .. Len(P)}
    BY <1>1, <1>2 DEF Now
  <2>2. Upto' = {P[i] : i \in 1 .. Len(P)}
    BY <1>1, <1>2 DEF Upto
  <2> QED
    BY <1>4, <2>1, <2>2 DEF Range
<1>7. ~IsResume(path) => \A c \in ran : c \in Walked /\ Free(c)
  <2>1. Upto = Walked
    BY <1>2 DEF Upto, Walked
  <2> QED
    BY <1>3, <2>1 DEF LostInv
<1>8. Upto = Walked
  BY <1>2 DEF Upto, Walked
<1>9. ran' \ Now' \subseteq ran \ Now
  <2> SUFFICES ASSUME NEW c \in ran, c \in Now PROVE c \in Now'
    BY <1>2
  <2>1. PICK j \in idx + 1 .. Len(path) : c = path[j]
    BY DEF Now
  <2>2. CASE IsResume(path)
    BY <1>5, <1>6, <2>1, <2>2
  <2>3. CASE ~IsResume(path)
    <3>1. \/ KindOf(c) \in {"begin", "fillup"} \/ c \notin graph.text
          \/ graph.refs[c] \subseteq Walked
      BY <1>7, <1>8, <2>3 DEF Free
    <3>2. \E i \in idx + 1 .. Len(P) : P[i] = path[j]
      BY <1>4, <2>1, <3>1
    <3> QED
      BY <1>6, <2>1, <3>2
  <2> QED
    BY <2>2, <2>3
<1>10. ASSUME NEW d \in ran \cup Now
       PROVE  d \in ran' \cup Now' \/ \E r \in graph.refs[d] : r \notin ran' \ Now'
  <2> SUFFICES ASSUME d \in Now, d \notin Now'
               PROVE  \E r \in graph.refs[d] : r \notin ran
    BY <1>2
  <2>1. PICK j \in idx + 1 .. Len(path) : d = path[j]
    BY DEF Now
  <2>2. ~IsResume(path)
    BY <1>5, <1>6, <2>1
  <2>3. \E r \in graph.refs[d] : r \notin Walked
    BY <1>4, <1>6, <2>1
  <2> QED
    BY <1>7, <2>2, <2>3
<1>11. \A e \in ran' \ Now' : Nexts(e)' = Nexts(e)
  BY <1>2, <1>3, SameNexts
<1>12. Owed(Now)'
  <2>1. \A e \in ran' \ Now' : Nexts(e)' \subseteq Nexts(e)
    BY <1>11
  <2> QED
    BY <1>2, <1>3, <1>9, <1>10, <2>1, OwedStill DEF Owed, Apart
<1>13. ASSUME ~IsResume(path)', NEW c \in ran' \cup Now'
       PROVE  c \in Upto' /\ Free(c)'
  <2>1. ~IsResume(P)
    BY <1>1, <1>2, <1>13 DEF IsResume, KindOf
  <2>2. Walked \subseteq Range(P)
    <3>1. \A i \in 1 .. idx : i \in 1 .. Len(P)
      BY <1>3, <1>4 DEF TypeInv, TypeOK
    <3> QED
      BY <1>4, <3>1 DEF Walked, Range
  <2>3. CASE c \in ran'
    <3>1. c \in Walked /\ Free(c)
      BY <1>2, <1>5, <1>7, <2>1, <2>3
    <3> QED
      BY <1>2, <1>6, <1>8, <2>2, <3>1 DEF Free, KindOf
  <2>4. CASE c \in Now'
    <3>1. PICK i \in idx + 1 .. Len(P) : c = P[i]
      BY <1>6, <2>4
    <3>2. i \in 1 .. Len(P)
      BY <1>3 DEF TypeInv, TypeOK
    <3>3. c \in Range(P)
      BY <1>4, <3>1, <3>2 DEF Range
    <3>4. \/ KindOf(c) \in {"begin", "fillup"} \/ c \notin graph.text
          \/ graph.refs[c] \subseteq Range(P)
      BY <1>4, <2>1, <3>1
    <3> QED
      BY <1>2, <1>6, <3>3, <3>4 DEF Free, KindOf
  <2> QED
    BY <2>3, <2>4
<1>14. ~Finished' /\ (ran \subseteq Node)'
  BY <1>2, <1>3 DEF Finished
<1> QED
  BY <1>2, <1>12, <1>13, <1>14 DEF LostInv, NobodyLost

(* A component finishes: the others send the path where they did.          *)
LEMMA LostFinish == ASSUME IInv, LostInv, NEW i \in todo, Run(i) \/ Fail(i) PROVE LostInv'
<1> DEFINE c == path[i]
<1>1. /\ phase = "run" /\ phase' = "run" /\ todo' = todo \ {i} /\ ran' = ran \cup {c}
      /\ graph' = graph /\ path' = path /\ idx' = idx /\ answers' = answers
  BY DEF Run, Fail, Note
<1>2. c \in Node /\ i \in idx + 1 .. Len(path) /\ TypeInv
  BY <1>1, InBatch DEF IInv
<1>3. /\ ran \subseteq Node /\ Owed(Now)
      /\ IsResume(path) \/ \A d \in ran \cup Now : d \in Upto /\ Free(d)
      /\ \A j \in idx + 1 .. Len(path) : j \in todo \/ path[j] \in ran
  BY <1>1 DEF LostInv
<1>4. ASSUME NEW e \in Node, e # c
      PROVE  (err'[e] <=> err[e]) /\ count'[e] = count[e] /\ next'[e] = next[e]
  <2>1. err \in [Node -> BOOLEAN] /\ next \in [Node -> Seq(Node)]
        /\ count \in [Node -> -1 .. graph.items]
    BY <1>2 DEF TypeInv, TypeOK
  <2>2. CASE Run(i)
    <3>1. err' = err
      BY <2>2 DEF Run
    <3>2. count' = count \/ \E v : count' = [count EXCEPT ![c] = v]
      BY <2>2 DEF Run
    <3>3. next' = next \/ \E v : next' = [next EXCEPT ![c] = v]
      BY <2>2 DEF Run
    <3> QED
      BY <1>4, <2>1, <3>1, <3>2, <3>3
  <2>3. CASE Fail(i)
    <3>1. err' = [err EXCEPT ![c] = TRUE] /\ count' = count /\ next' = next
      BY <2>3 DEF Fail
    <3> QED
      BY <1>4, <2>1, <3>1
  <2> QED
    BY <2>2, <2>3
<1>5. c \in Now /\ Now' = Now /\ Upto' = Upto
  BY <1>1, <1>2 DEF Now, Upto
<1>6. \A e \in ran' \ Now' : Nexts(e)' = Nexts(e)
  BY <1>1, <1>3, <1>4, <1>5, SameNexts
<1>7. Owed(Now)'
  <2>1. /\ ran' \ Now' \subseteq ran \ Now
        /\ \A e \in ran' \ Now' : Nexts(e)' \subseteq Nexts(e)
        /\ \A d \in ran \cup Now : d \in ran' \cup Now'
    BY <1>1, <1>5, <1>6
  <2> QED
    BY <1>1, <1>3, <2>1, OwedStill DEF Owed, Apart
<1>8. IsResume(path)' \/ \A d \in ran' \cup Now' : d \in Upto' /\ Free(d)'
  <2>1. (IsResume(path)' <=> IsResume(path)) /\ \A d : Free(d)' <=> Free(d)
    BY <1>1, <1>5 DEF IsResume, KindOf, Free
  <2> QED
    BY <1>1, <1>3, <1>5, <2>1
<1>9. (\A j \in idx + 1 .. Len(path) : j \in todo \/ path[j] \in ran)'
  BY <1>1, <1>3
<1>10. ~Finished' /\ (ran \subseteq Node)'
  BY <1>1, <1>2, <1>3 DEF Finished
<1> QED
  BY <1>1, <1>7, <1>8, <1>9, <1>10 DEF LostInv, NobodyLost

(* When a batch has run, whoever it is followed by is pending.             *)
LEMMA OwedPending ==
  ASSUME IInv, LostInv, phase = "run", todo = {},
         NEW B, B = {Extended[i] : i \in Len(path) + 1 .. Len(Extended)}
  PROVE  B \subseteq Node /\ Owed(B)
<1>1. /\ TypeInv /\ ran \subseteq Node /\ Owed(Now)
      /\ \A i \in idx + 1 .. Len(path) : i \in todo \/ path[i] \in ran
  BY DEF IInv, LostInv
<1>2. Now \subseteq ran
  BY <1>1 DEF Now
<1>3. \A c \in Now : Nexts(c) \subseteq B \cup Now
  BY <1>1, PendingHas
<1>4. B \subseteq Node
  <2>1. Extended \in Seq(Node) /\ Len(Extended) \in Nat /\ Len(path) \in Nat
    BY <1>1, ExtendedGrows DEF TypeInv, TypeOK
  <2>2. \A i \in Len(path) + 1 .. Len(Extended) : Extended[i] \in Node
    BY <2>1
  <2> QED
    BY <2>2
<1> QED
  BY <1>1, <1>2, <1>3, <1>4, OwedNext

(* Between two batches nobody sends the path elsewhere.                    *)
LEMMA OwedSame ==
  ASSUME UNCHANGED <<graph, answers, err, count, next, ran>>, ran \subseteq Node,
         NEW B, Owed(B)
  PROVE  \A c \in ran' \ B : \A d \in Nexts(c)' :
           \/ d \in ran' \cup B
           \/ \E r \in graph'.refs[d] : \E S \in SUBSET Node :
                d \notin S /\ \A e \in (S \cup {r}) \cap (ran' \ B) : Nexts(e)' \subseteq S
<1>1. \A e \in ran' \ B : Nexts(e)' = Nexts(e)
  BY SameNexts
<1>2. /\ ran' \ B \subseteq ran \ B
      /\ \A e \in ran' \ B : Nexts(e)' \subseteq Nexts(e)
      /\ \A d \in ran \cup B : d \in ran' \cup B
  BY <1>1
<1> QED
  BY <1>2, OwedStill

(* A turn goes on with all that comes after the batch.                     *)
LEMMA LostContinue == IInv /\ LostInv /\ PostContinue => LostInv'
<1> SUFFICES ASSUME IInv, LostInv, PostContinue PROVE LostInv'
  OBVIOUS
<1> DEFINE B == {Extended[i] : i \in Len(path) + 1 .. Len(Extended)}
<1>1. /\ todo = {} /\ phase = "run" /\ phase' = "batch" /\ path' = Extended /\ idx' = Len(path)
      /\ Pending # <<>> /\ graph' = graph /\ ran' = ran /\ answers' = answers
      /\ err' = err /\ count' = count /\ next' = next
  BY DEF PostContinue, Posted, data
<1>2. /\ TypeInv /\ ran \subseteq Node
      /\ IsResume(path) \/ \A c \in ran : c \in Upto /\ Free(c)
  BY <1>1 DEF IInv, LostInv
<1>3. Now' = B
  BY <1>1 DEF Now
<1> HIDE DEF B
<1>4. Owed(Now)'
  <2>1. B \subseteq Node /\ Owed(B)
    BY <1>1, OwedPending DEF B
  <2>2. UNCHANGED <<graph, answers, err, count, next, ran>>
    BY <1>1
  <2>3. \A c \in ran' \ B : \A d \in Nexts(c)' :
          \/ d \in ran' \cup B
          \/ \E r \in graph'.refs[d] : \E S \in SUBSET Node :
               d \notin S /\ \A e \in (S \cup {r}) \cap (ran' \ B) : Nexts(e)' \subseteq S
    BY <1>2, <2>1, <2>2, OwedSame
  <2> QED
    BY <1>3, <2>3 DEF Owed, Apart
<1>5. /\ path # <<>> /\ path \in Seq(Node) /\ Len(path) \in Nat
      /\ Extended \in Seq(Node) /\ Len(path) <= Len(Extended)
      /\ \A i \in 1 .. Len(path) : Extended[i] = path[i]
  <2>1. path # <<>>
    BY <1>1, <1>2, SomethingBefore
  <2>2. \A i \in 1 .. Len(path) : Extended[i] = path[i]
    BY <1>2, <2>1, FollowsAdds
  <2>3. path \in Seq(Node) /\ Extended \in Seq(Node) /\ Len(path) <= Len(Extended)
    BY <1>2, ExtendedGrows DEF TypeInv, TypeOK
  <2> QED
    BY <2>1, <2>2, <2>3
<1>6. Upto' = Upto
  <2>1. Upto' = {Extended[i] : i \in 1 .. Len(path)} /\ Upto = {path[i] : i \in 1 .. Len(path)}
    BY <1>1 DEF Upto
  <2> QED
    BY <1>5, <2>1
<1>7. IsResume(path) => IsResume(path)'
  <2> SUFFICES ASSUME IsResume(path) PROVE IsResume(path)'
    OBVIOUS
  <2>1. 1 \in 1 .. Len(path) /\ Len(Extended) > 0
    BY <1>5
  <2>2. Head(path) = path[1] /\ Head(Extended) = Extended[1] /\ Extended[1] = path[1]
        /\ Extended # <<>>
    BY <1>5, <2>1
  <2> QED
    BY <1>1, <2>2 DEF IsResume, KindOf
<1>8. \A c : Free(c)' <=> Free(c)
  BY <1>1, <1>6 DEF Free, KindOf
<1>9. IsResume(path)' \/ \A c \in ran' : c \in Upto' /\ Free(c)'
  BY <1>1, <1>2, <1>6, <1>7, <1>8
<1>10. ~Finished' /\ (ran \subseteq Node)' /\ phase' # "run"
  BY <1>1, <1>2 DEF Finished
<1> QED
  BY <1>1, <1>4, <1>9, <1>10 DEF LostInv, NobodyLost

(* A pause saves all that comes after the batch.                           *)
LEMMA LostPause == IInv /\ LostInv /\ PostPause => LostInv'
<1> SUFFICES ASSUME IInv, LostInv, PostPause PROVE LostInv'
  OBVIOUS
<1> DEFINE B == {Extended[i] : i \in Len(path) + 1 .. Len(Extended)}
           R == FillupsFirst(Pending)
           n == Len(path)
<1>1. /\ todo = {} /\ phase = "run" /\ phase' = "idle" /\ last' = "paused" /\ Asks
      /\ saved'.path = R /\ saved'.err = err
      /\ graph' = graph /\ ran' = ran /\ answers' = answers
      /\ err' = err /\ count' = count /\ next' = next
  BY DEF PostPause, Posted, Save, data
<1>2. TypeInv /\ ran \subseteq Node
  BY DEF IInv, LostInv
<1>3. /\ Pending \in Seq(Node) /\ n \in Nat /\ Len(Pending) \in Nat
      /\ \A j \in 1 .. Len(Pending) : n + j \in n + 1 .. Len(Extended) /\ Pending[j] = Extended[n + j]
      /\ \A k \in n + 1 .. Len(Extended) :
           k - n \in 1 .. Len(Pending) /\ Pending[k - n] = Extended[k]
  <2>1. Extended \in Seq(Node) /\ n \in Nat
    <3>1. path \in Seq(Node)
      BY <1>2 DEF TypeInv, TypeOK
    <3>2. Extended \in Seq(Node)
      BY <1>2, ExtendedGrows
    <3> QED
      BY <3>1, <3>2
  <2>2. /\ From(Extended, n + 1) \in Seq(Node)
        /\ \A j \in 1 .. Len(From(Extended, n + 1)) :
             n + j \in n + 1 .. Len(Extended) /\ From(Extended, n + 1)[j] = Extended[n + j]
    BY <2>1, Parts
  <2>3. \A k \in n + 1 .. Len(Extended) :
          k - n \in 1 .. Len(Pending) /\ Pending[k - n] = Extended[k]
    BY <1>2, PendingIn
  <2> QED
    BY <2>1, <2>2, <2>3 DEF Pending
<1>4. PICK h \in 1 .. Len(Pending) : KindOf(Pending[h]) = "fillup"
  <2>1. PICK c \in Range(Pending) : KindOf(c) = "fillup"
    BY <1>1 DEF Asks
  <2>2. \A s : s \in Seq(Node) /\ c \in Range(s) => \E h \in 1 .. Len(s) : c = s[h]
    BY DEF Range
  <2> QED
    BY <1>3, <2>1, <2>2
<1>5. B \subseteq Node /\ Owed(B)
  BY <1>1, OwedPending
<1>6. R \in Seq(Node) /\ IsResume(R) /\ Range(R) = B
  <2>1. \A Q : Q = FillupsFirst(Pending) =>
          /\ \A i \in 1 .. Len(Q) : \E j \in 1 .. Len(Pending) : Q[i] = Pending[j]
          /\ \A j \in 1 .. Len(Pending) : \E i \in 1 .. Len(Q) : Q[i] = Pending[j]
          /\ IsResume(Q)
    BY <1>3, <1>4, FillupsFirstHas
  <2>2. R \in Seq(Node)
    BY <1>3, FillupsFirstIn
  <2>3. /\ \A i \in 1 .. Len(R) : \E j \in 1 .. Len(Pending) : R[i] = Pending[j]
        /\ \A j \in 1 .. Len(Pending) : \E i \in 1 .. Len(R) : R[i] = Pending[j]
        /\ IsResume(R)
    BY <2>1 DEF R
  <2> HIDE DEF R, n
  <2>4. \A i \in 1 .. Len(R) : \E k \in n + 1 .. Len(Extended) : R[i] = Extended[k]
    BY <1>3, <2>3
  <2>5. ASSUME NEW k \in n + 1 .. Len(Extended) PROVE \E i \in 1 .. Len(R) : R[i] = Extended[k]
    <3>1. k - n \in 1 .. Len(Pending) /\ Pending[k - n] = Extended[k]
      BY <1>3
    <3>2. PICK i \in 1 .. Len(R) : R[i] = Pending[k - n]
      BY <2>3, <3>1
    <3> QED
      BY <3>1, <3>2
  <2>6. Range(R) = {R[i] : i \in 1 .. Len(R)}
    BY <2>2 DEF Range
  <2>7. B = {Extended[k] : k \in n + 1 .. Len(Extended)}
    BY DEF n
  <2> HIDE DEF B
  <2>8. \A c \in Range(R) : c \in B
    BY <2>4, <2>6, <2>7
  <2>9. \A c \in B : c \in Range(R)
    BY <2>5, <2>6, <2>7
  <2> QED
    BY <2>2, <2>3, <2>8, <2>9
<1> HIDE DEF B, R, n
<1>7. Range(saved.path)' = B
  BY <1>1, <1>6 DEF Range
<1>8. Owed(Range(saved.path))'
  <2>1. UNCHANGED <<graph, answers, err, count, next, ran>>
    BY <1>1
  <2>2. \A c \in ran' \ B : \A d \in Nexts(c)' :
          \/ d \in ran' \cup B
          \/ \E r \in graph'.refs[d] : \E S \in SUBSET Node :
               d \notin S /\ \A e \in (S \cup {r}) \cap (ran' \ B) : Nexts(e)' \subseteq S
    BY <1>2, <1>5, <2>1, OwedSame
  <2> QED
    BY <1>7, <2>2 DEF Owed, Apart
<1>9. IsResume(saved.path)'
  BY <1>1, <1>6 DEF IsResume, KindOf
<1>10. ~Finished' /\ (ran \subseteq Node)' /\ (saved.err = err)'
  BY <1>1, <1>2 DEF Finished
<1> QED
  BY <1>1, <1>8, <1>9, <1>10 DEF LostInv, NobodyLost

(* When nothing is pending, nobody is owed anything.                       *)
LEMMA LostDone == IInv /\ LostInv /\ PostFinish => LostInv'
<1> SUFFICES ASSUME IInv, LostInv, PostFinish PROVE LostInv'
  OBVIOUS
<1>1. /\ todo = {} /\ phase = "run" /\ phase' = "idle" /\ last' = "finished" /\ Pending = <<>>
      /\ graph' = graph /\ ran' = ran /\ answers' = answers
      /\ err' = err /\ count' = count /\ next' = next
  BY DEF PostFinish, Posted, Save, data
<1>2. TypeInv /\ ran \subseteq Node
  BY DEF IInv, LostInv
<1>3. {Extended[i] : i \in Len(path) + 1 .. Len(Extended)} = {}
  <2>1. \A k \in Len(path) + 1 .. Len(Extended) : k - Len(path) \in 1 .. Len(Pending)
    BY <1>2, PendingIn
  <2>2. Len(Pending) = 0 /\ ~ (\E k : k \in 1 .. 0)
    BY <1>1
  <2> QED
    BY <2>1, <2>2
<1>4. Owed({})
  BY <1>1, <1>3, OwedPending
<1>5. Owed({})'
  BY <1>1, <1>2, <1>4, OwedSame DEF Owed, Apart
<1>6. NobodyLost'
  <2>1. (ran \ {})' = ran' /\ (ran \cup {})' = ran'
    OBVIOUS
  <2> QED
    BY <1>5, <2>1 DEF NobodyLost, Owed
<1> QED
  BY <1>1, <1>2, <1>6 DEF LostInv

(* Every step of a session keeps the invariant of NobodyLost.              *)
THEOREM LostNext == IInv /\ LostInv /\ [Next]_vars => LostInv'
<1> SUFFICES ASSUME IInv, LostInv, [Next]_vars PROVE LostInv'
  OBVIOUS
<1>1. CASE Turn
  BY <1>1, LostTurn
<1>2. CASE Canceled \/ PostRaise
  <2>1. phase' = "idle" /\ last' = "raised" /\ ran' = ran
    BY <1>2 DEF Canceled, PostRaise, Raise, roundVars
  <2> QED
    BY <2>1, LostEnd
<1>3. CASE Prepare
  BY <1>3, LostPrepare
<1>4. CASE \E i \in todo : Run(i) \/ Fail(i)
  BY <1>4, LostFinish
<1>5. CASE PostError
  <2>1. phase' = "idle" /\ last' = "failed" /\ ran' = ran
    BY <1>5 DEF PostError, Posted, Save
  <2> QED
    BY <2>1, LostEnd
<1>6. CASE PostPause
  BY <1>6, LostPause
<1>7. CASE PostFinish
  BY <1>7, LostDone
<1>8. CASE PostContinue
  BY <1>8, LostContinue
<1>9. CASE Cancel \/ Expire \/ UNCHANGED vars
  BY <1>9, LostCancel
<1> QED
  BY <1>1, <1>2, <1>3, <1>4, <1>5, <1>6, <1>7, <1>8, <1>9 DEF Next, Step

(* In every state of a session, whoever should come after a component that *)
(* ran in the round has run, is about to, or waits for one from which no   *)
(* way has led to it, also over the pauses of the round.                   *)
THEOREM LostInvariant == Spec => []LostInv
<1>1. IInv /\ IInv' /\ LostInv /\ [Next]_vars => LostInv'
  BY LostNext
<1> QED
  BY <1>1, LostInit, CanvasInvariant, PTL DEF Spec

(* When a round of a session is finished, whoever should come after a      *)
(* component that ran has run, too, although components are dropped and    *)
(* have to be appended again, in any graph; unless no way led to it from   *)
(* one that it refers to.                                                  *)
THEOREM NobodyIsLost == Spec => []NobodyLost
<1>1. LostInv => NobodyLost
  BY DEF LostInv
<1> QED
  BY <1>1, LostInvariant, PTL

-----------------------------------------------------------------------------
(* A fold over no or one element.                                          *)
LEMMA FoldShort ==
  ASSUME NEW x, NEW V, NEW p \in V, NEW q \in Seq(Node),
         \A r \in V : \A i \in 1 .. Len(q) : StepOf(x, r, q[i]) \in V
  PROVE  /\ Len(q) = 0 => Fold(x, p, q) = p
         /\ Len(q) = 1 => Fold(x, p, q) = StepOf(x, p, q[1])
<1>1. PICK F \in [0 .. Len(q) -> V] : Runs(F, x, p, q)
  BY FoldRuns
<1>2. /\ F[0] = p /\ F[Len(q)] = Fold(x, p, q)
      /\ \A k \in 0 .. Len(q) - 1 : F[k + 1] = StepOf(x, F[k], q[k + 1])
  BY <1>1 DEF Runs
<1>3. Len(q) = 0 => Fold(x, p, q) = p
  BY <1>2
<1>4. ASSUME Len(q) = 1 PROVE Fold(x, p, q) = StepOf(x, p, q[1])
  <2>1. 0 \in 0 .. Len(q) - 1 /\ 0 + 1 = 1
    BY <1>4
  <2>2. F[0 + 1] = StepOf(x, F[0], q[0 + 1])
    BY <1>2, <2>1
  <2>3. F[1] = StepOf(x, p, q[1])
    BY <1>2, <2>1, <2>2
  <2> QED
    BY <1>2, <1>4, <2>3
<1> QED
  BY <1>3, <1>4

(* How often a component is in a path.                                     *)
LEMMA TimesIn ==
  ASSUME NEW s \in Seq(Node), NEW c
  PROVE  /\ Times(s, c) \in Nat
         /\ \A d \in Node : Times(Append(s, d), c) = Times(s, c) + IF c = d THEN 1 ELSE 0
         /\ \A i \in 0 .. Len(s) : Times(SubSeq(s, 1, i), c) <= Times(s, c)
<1> DEFINE S == {i \in 1 .. Len(s) : s[i] = c}
<1>1. Len(s) \in Nat /\ DOMAIN s = 1 .. Len(s)
  OBVIOUS
<1>2. IsFiniteSet(1 .. Len(s)) /\ S \subseteq 1 .. Len(s)
  BY <1>1, FS_Interval
<1>3. IsFiniteSet(S)
  <2> HIDE DEF S
  <2> QED
    BY <1>2, FS_Subset
<1>4. Times(s, c) = Cardinality(S)
  BY <1>1 DEF Times
<1>5. Times(s, c) \in Nat
  <2> HIDE DEF S
  <2> QED
    BY <1>3, <1>4, FS_CardinalityType
<1>6. ASSUME NEW d \in Node PROVE Times(Append(s, d), c) = Times(s, c) + IF c = d THEN 1 ELSE 0
  <2> DEFINE a == Append(s, d)
  <2>1. /\ a \in Seq(Node) /\ Len(a) = Len(s) + 1 /\ a[Len(s) + 1] = d
        /\ \A i \in 1 .. Len(s) : a[i] = s[i]
    BY Appending
  <2> HIDE DEF a
  <2>2. DOMAIN a = 1 .. Len(s) + 1
    BY <2>1
  <2>3. {i \in DOMAIN a : a[i] = c} = IF c = d THEN S \cup {Len(s) + 1} ELSE S
    BY <1>1, <2>1, <2>2
  <2>4. Len(s) + 1 \notin S
    BY <1>1
  <2>5. Times(a, c) = Cardinality(IF c = d THEN S \cup {Len(s) + 1} ELSE S)
    BY <2>3 DEF Times
  <2> HIDE DEF S
  <2>6. Cardinality(S \cup {Len(s) + 1}) = Cardinality(S) + 1
    BY <1>3, <2>4, FS_AddElement
  <2> QED
    BY <1>4, <1>5, <2>5, <2>6 DEF a
<1>7. ASSUME NEW i \in 0 .. Len(s) PROVE Times(SubSeq(s, 1, i), c) <= Times(s, c)
  <2> DEFINE b == SubSeq(s, 1, i)
  <2>1. /\ b \in Seq(Node) /\ Len(b) = i /\ \A j \in 1 .. i : b[j] = s[j]
    <3>1. 1 \in Int /\ i \in Int /\ (1 <= i \/ i = 0) /\ \A j \in 1 .. i : s[j] \in Node
      BY <1>1
    <3> QED
      BY <3>1, SubSeqProperties
  <2> HIDE DEF b
  <2>2. {j \in DOMAIN b : b[j] = c} \subseteq S
    BY <1>1, <2>1
  <2>3. Times(b, c) = Cardinality({j \in DOMAIN b : b[j] = c})
    BY DEF Times
  <2> HIDE DEF S
  <2> QED
    BY <1>3, <1>4, <2>2, <2>3, FS_Subset DEF b
<1> QED
  BY <1>5, <1>6, <1>7

(* What Chain says of the components.                                      *)
LEMMA ChainFacts ==
  ASSUME graph \in Graphs, Chain
  PROVE  /\ \A c \in Node :
              /\ graph.down[c] \in Seq(Node) /\ graph.goto[c] = <<>> /\ graph.refs[c] \subseteq Node
              /\ c \in Nat /\ Place(c) \in Node /\ KindOf(c) # "fillup"
              /\ KindOf(c) = "switch" \/ Len(graph.down[c]) <= 1
              /\ \A d \in Range(graph.down[c]) :
                   d \in Node /\ graph.parent[d] = graph.parent[c]
                     /\ (graph.parent[c] = NoParent => c < d)
              /\ KindOf(c) \in {"iteration", "loop"} =>
                   graph.parent[c] = NoParent /\ Start(c) \in Items /\ graph.parent[Start(c)] = c
              /\ graph.parent[c] # NoParent =>
                   /\ graph.parent[c] \in Node /\ KindOf(graph.parent[c]) \in {"iteration", "loop"}
                   /\ graph.parent[graph.parent[c]] = NoParent
         /\ \A c \in Items : /\ c \in Node /\ graph.parent[c] \in Node
                             /\ c \notin graph.default /\ Start(graph.parent[c]) = c
         /\ Begin \in Node /\ graph.parent[Begin] = NoParent /\ NoParent \notin Node
         /\ Node \subseteq Nat /\ Begin = 0 /\ KindOf(Begin) = "begin"
<1>1. /\ Begin \in Node /\ NoParent \notin Node /\ Node \subseteq Nat /\ Begin = 0
      /\ KindOf(Begin) = "begin" /\ graph.parent[Begin] = NoParent
  BY GraphFacts, GraphAssumption DEF Chain, KindOf, Begin
<1>2. ASSUME NEW c \in Node
      PROVE  /\ graph.down[c] \in Seq(Node) /\ graph.goto[c] = <<>> /\ graph.refs[c] \subseteq Node
             /\ graph.parent[c] \in Node \cup {NoParent}
             /\ c \in Nat /\ KindOf(c) # "fillup"
             /\ KindOf(c) = "switch" \/ Len(graph.down[c]) <= 1
             /\ \A d \in Range(graph.down[c]) :
                  graph.parent[d] = graph.parent[c] /\ (graph.parent[c] = NoParent => c < d)
             /\ graph.parent[c] # NoParent =>
                  /\ KindOf(graph.parent[c]) \in {"iteration", "loop"}
                  /\ graph.parent[graph.parent[c]] = NoParent
  <2>1. /\ graph.down[c] \in Seq(Node) /\ graph.refs[c] \subseteq Node
        /\ graph.parent[c] \in Node \cup {NoParent}
    BY GraphFacts
  <2> QED
    BY <1>1, <2>1 DEF Chain
<1>3. ASSUME NEW c \in Node, NEW d \in Range(graph.down[c]) PROVE d \in Node
  <2>1. \A s : s \in Seq(Node) => Range(s) \subseteq Node
    BY DEF Range
  <2> QED
    BY <1>2, <2>1
<1>4. ASSUME NEW c \in Node, KindOf(c) \in {"iteration", "loop"}
      PROVE  graph.parent[c] = NoParent /\ Start(c) \in Items /\ graph.parent[Start(c)] = c
  <2>1. \E d \in Node : graph.parent[d] = c /\ KindOf(d) \in {"item", "loopitem"}
    BY <1>4, GraphFacts
  <2>2. Start(c) \in Node /\ graph.parent[Start(c)] = c /\ KindOf(Start(c)) \in {"item", "loopitem"}
    BY <2>1 DEF Start
  <2>3. graph.parent[c] = NoParent
    BY <1>1, <1>2, <2>2
  <2> QED
    BY <2>2, <2>3 DEF Items
<1>5. ASSUME NEW c \in Items
      PROVE  /\ c \in Node /\ graph.parent[c] \in Node
             /\ c \notin graph.default /\ Start(graph.parent[c]) = c
  <2>1. c \in Node /\ KindOf(c) \in {"item", "loopitem"}
    BY DEF Items
  <2>2. graph.parent[c] \in Node
    BY <1>2, <2>1, GraphFacts
  <2>3. c \notin graph.default /\ Start(graph.parent[c]) = c
    BY <2>1 DEF Chain
  <2> QED
    BY <2>1, <2>2, <2>3
<1>6. \A c \in Node : Place(c) \in Node
  BY <1>2 DEF Place
<1> QED
  BY <1>1, <1>2, <1>3, <1>4, <1>5, <1>6

(* Whether a graph is a chain does not change.                             *)
LEMMA SameChain ==
  ASSUME graph' = graph
  PROVE  /\ Chain' <=> Chain
         /\ \A c : /\ KindOf(c)' = KindOf(c) /\ Start(c)' = Start(c) /\ Body(c)' = Body(c)
                   /\ Place(c)' = Place(c) /\ (InOrder(c)' <=> InOrder(c))
                   /\ Handled(c)' = Handled(c)
         /\ Items' = Items /\ \A n : Gathered(n)' = Gathered(n)
<1>1. \A c : KindOf(c)' = KindOf(c) /\ Body(c)' = Body(c) /\ Place(c)' = Place(c)
  BY DEF KindOf, Body, Place
<1>2. \A c : Start(c)' = Start(c)
  BY DEF Start, KindOf
<1>3. Chain' <=> Chain
  BY <1>1, <1>2 DEF Chain
<1>4. \A c : InOrder(c)' <=> InOrder(c)
  BY <1>1, <1>2 DEF InOrder
<1>5. Items' = Items /\ (\A n : Gathered(n)' = Gathered(n)) /\ \A c : Handled(c)' = Handled(c)
  BY <1>1 DEF Items, Gathered, Handled
<1> QED
  BY <1>1, <1>2, <1>3, <1>4, <1>5

(* A batch is nobody or one component.                                     *)
LEMMA OneBatch ==
  ASSUME TypeInv, phase # "idle", Len(path) <= idx + 1
  PROVE  /\ Len(path) = idx \/ Len(path) = idx + 1
         /\ Len(path) = idx => Now = {}
         /\ Len(path) = idx + 1 =>
              /\ path[idx + 1] \in Node /\ Now = {path[idx + 1]} /\ Batch = {path[idx + 1]}
              /\ Last(path) = path[idx + 1] /\ path # <<>>
              /\ From(path, idx + 1) = <<path[idx + 1]>>
<1>1. path \in Seq(Node) /\ idx \in Nat /\ Len(path) \in Nat /\ idx <= Len(path)
  BY DEF TypeInv, TypeOK
<1>2. Len(path) = idx \/ Len(path) = idx + 1
  BY <1>1
<1>3. Len(path) = idx => Now = {}
  BY <1>1 DEF Now
<1>4. ASSUME Len(path) = idx + 1
      PROVE  /\ path[idx + 1] \in Node /\ Now = {path[idx + 1]} /\ Batch = {path[idx + 1]}
             /\ Last(path) = path[idx + 1] /\ path # <<>>
             /\ From(path, idx + 1) = <<path[idx + 1]>>
  <2>1. idx + 1 \in 1 .. Len(path) /\ idx + 1 .. Len(path) = {idx + 1}
    BY <1>1, <1>4
  <2>2. path[idx + 1] \in Node /\ path # <<>> /\ Last(path) = path[idx + 1]
    BY <1>1, <1>4, <2>1 DEF Last
  <2>3. Now = {path[idx + 1]}
    BY <2>1 DEF Now
  <2> DEFINE q == From(path, idx + 1)
  <2>4. /\ q \in Seq(Node)
        /\ \A j \in 1 .. Len(q) : idx + j \in idx + 1 .. Len(path) /\ q[j] = path[idx + j]
        /\ \A k \in idx + 1 .. Len(path) : k - idx \in 1 .. Len(q) /\ q[k - idx] = path[k]
    BY <1>1, Parts
  <2> HIDE DEF q
  <2>5. Len(q) = 1 /\ q[1] = path[idx + 1]
    <3>1. (idx + 1) - idx = 1 /\ Len(q) \in Nat
      BY <1>1, <2>4
    <3>2. 1 \in 1 .. Len(q) /\ q[1] = path[idx + 1]
      BY <2>1, <2>4, <3>1
    <3>3. idx + Len(q) <= Len(path)
      <4>1. Len(q) \in 1 .. Len(q)
        BY <3>1, <3>2
      <4> QED
        BY <2>4, <4>1
    <3>4. Len(q) <= 1 /\ 1 <= Len(q)
      <4> HIDE DEF q
      <4> DEFINE m == Len(q)
      <4>1. m \in Nat /\ 1 <= m /\ idx + m <= idx + 1
        BY <1>4, <3>1, <3>2, <3>3
      <4> HIDE DEF m
      <4>2. m <= 1 /\ 1 <= m
        BY <1>1, <4>1
      <4> QED
        BY <4>2 DEF m
    <3>5. Len(q) = 1
      <4> DEFINE m == Len(q)
      <4>1. m \in Nat /\ m <= 1 /\ 1 <= m
        BY <3>1, <3>4
      <4> HIDE DEF m
      <4>2. m = 1
        BY <4>1
      <4> QED
        BY <4>2 DEF m
    <3> QED
      BY <3>2, <3>5, Zenon
  <2>6. q = <<path[idx + 1]>>
    BY <2>4, <2>5
  <2>7. Range(q) = {path[idx + 1]}
    BY <2>4, <2>5 DEF Range
  <2> QED
    BY <2>2, <2>3, <2>6, <2>7 DEF Batch, q
<1> QED
  BY <1>2, <1>3, <1>4

(* Post-processing appends the successors of that one.                     *)
LEMMA ChainExtended ==
  ASSUME TypeInv, Chain, phase # "idle", Len(path) <= idx + 1
  PROVE  /\ Len(path) = idx => Extended = path
         /\ Len(path) = idx + 1 => Extended = Extend(path, Successors(path[idx + 1]))
<1> DEFINE q == From(path, idx + 1)
           V == Seq(Node)
<1>1. path \in V /\ idx \in Nat /\ graph \in Graphs /\ q \in Seq(Node) /\ Len(path) \in Nat
  BY Parts DEF TypeInv, TypeOK
<1>2. Extended = Fold("post", path, q)
  BY FoldsAreSteps, Zenon DEF Extended
<1>3. ASSUME NEW r \in V, NEW c \in Node
      PROVE  StepOf("post", r, c) = Extend(r, Successors(c)) /\ Extend(r, Successors(c)) \in V
  <2>1. graph.goto[c] = <<>>
    BY <1>1, ChainFacts
  <2>2. Successors(c) \in Seq(Node)
    BY SuccessorsIn
  <2>3. Extend(r, Successors(c)) \in V
    BY <2>2, ExtendGrows
  <2> QED
    BY <2>1, <2>3 DEF StepOf
<1>4. \A i \in 1 .. Len(q) : q[i] \in Node
  BY <1>1
<1> HIDE DEF q, V
<1>5. \A r \in V : \A i \in 1 .. Len(q) : StepOf("post", r, q[i]) \in V
  BY <1>3, <1>4
<1>6. q \in Seq(Node) /\ path \in V
  BY <1>1 DEF V
<1>7. /\ Len(q) = 0 => Fold("post", path, q) = path
      /\ Len(q) = 1 => Fold("post", path, q) = StepOf("post", path, q[1])
  BY <1>5, <1>6, FoldShort
<1>8. ASSUME Len(path) = idx PROVE Extended = path
  <2>1. \A j \in 1 .. Len(q) : idx + j \in idx + 1 .. Len(path)
    BY <1>1, Parts DEF q, V
  <2>2. Len(q) = 0
    <3>1. Len(q) \in Nat
      BY <1>6
    <3>2. Len(q) # 0 => idx + 1 \in idx + 1 .. Len(path)
      BY <2>1, <3>1
    <3> QED
      BY <1>1, <1>8, <3>2
  <2> QED
    BY <1>2, <1>7, <2>2
<1>9. ASSUME Len(path) = idx + 1
      PROVE  Extended = Extend(path, Successors(path[idx + 1]))
  <2>1. path[idx + 1] \in Node /\ q = <<path[idx + 1]>>
    BY <1>9, OneBatch DEF q
  <2>2. Len(q) = 1 /\ q[1] = path[idx + 1]
    BY <2>1
  <2> QED
    BY <1>2, <1>3, <1>6, <1>7, <2>1, <2>2
<1> QED
  BY <1>8, <1>9

(* Where a path goes in a chain: on, into a body, on in the body, or out   *)
(* of it.                                                                  *)
Leads(b, d) ==
  \/ /\ graph.parent[b] = NoParent /\ KindOf(b) \notin {"iteration", "loop"}
     /\ graph.parent[d] = NoParent /\ b < d
  \/ /\ graph.parent[b] = NoParent /\ KindOf(b) \in {"iteration", "loop"}
     /\ d = Start(b) /\ graph.parent[d] = b
  \/ /\ graph.parent[b] # NoParent /\ graph.parent[d] = graph.parent[b] /\ ~Ended(b)
  \/ /\ graph.parent[b] # NoParent /\ (Ended(b) \/ Exits(b))
     /\ graph.parent[d] = NoParent /\ graph.parent[b] < d

LEMMA ChainSuccessors ==
  ASSUME TypeInv, Chain, NEW b \in Node,
         Len(next[b]) <= 1, Range(next[b]) \subseteq Range(graph.down[b])
  PROVE  /\ Len(Successors(b)) <= 1 /\ Successors(b) \in Seq(Node)
         /\ \A d \in Range(Successors(b)) : d \in Node /\ Leads(b, d)
<1> DEFINE p == graph.parent[b]
<1>1. graph \in Graphs
  BY DEF TypeInv
<1>2. Successors(b) \in Seq(Node)
  BY SuccessorsIn
<1>3. \A d \in Range(Successors(b)) : d \in Node
  <2>1. \A s : s \in Seq(Node) => Range(s) \subseteq Node
    BY DEF Range
  <2> QED
    BY <1>2, <2>1
<1>4. \A c \in Node : \A d \in Range(graph.down[c]) :
        d \in Node /\ graph.parent[d] = graph.parent[c] /\ (graph.parent[c] = NoParent => c < d)
  BY <1>1, ChainFacts
<1>5. \A d : Range(<<d>>) = {d} /\ Len(<<d>>) = 1
  BY DEF Range
<1>6. CASE Ended(b) \/ Exits(b)
  <2>1. Successors(b) = graph.down[p]
    BY <1>6 DEF Successors, Ended, Exits
  <2>2. KindOf(b) \in {"item", "loopitem", "exitloop"}
    BY <1>6 DEF Ended, Exits
  <2>3. p # NoParent
    BY <1>1, <2>2, GraphFacts
  <2>4. p \in Node /\ KindOf(p) \in {"iteration", "loop"} /\ graph.parent[p] = NoParent
    BY <1>1, <2>3, ChainFacts
  <2>5. Len(graph.down[p]) <= 1
    BY <1>1, <2>4, ChainFacts
  <2>6. \A d \in Range(graph.down[p]) : graph.parent[d] = NoParent /\ p < d
    BY <1>4, <2>4
  <2> HIDE DEF p
  <2>7. \A d \in Range(Successors(b)) : Leads(b, d)
    BY <1>6, <2>1, <2>3, <2>6 DEF Leads, p
  <2> QED
    BY <1>2, <1>3, <2>1, <2>5, <2>7
<1>7. ASSUME ~Ended(b), ~Exits(b), KindOf(b) \notin {"iteration", "loop"},
             NEW d \in Range(graph.down[b])
      PROVE  Leads(b, d)
  <2>1. graph.parent[d] = p /\ (p = NoParent => b < d)
    BY <1>4
  <2> QED
    BY <1>7, <2>1 DEF Leads
<1>8. CASE ~Ended(b) /\ ~Exits(b) /\ KindOf(b) = "switch"
  <2>1. Successors(b) = next[b]
    BY <1>8 DEF Successors
  <2>2. \A d \in Range(Successors(b)) : Leads(b, d)
    BY <1>7, <1>8, <2>1
  <2> QED
    BY <1>2, <1>3, <2>1, <2>2
<1>9. CASE ~Ended(b) /\ ~Exits(b) /\ KindOf(b) \in {"iteration", "loop"}
  <2>1. Successors(b) = <<Start(b)>>
    BY <1>9 DEF Successors
  <2>2. graph.parent[b] = NoParent /\ graph.parent[Start(b)] = b
    BY <1>1, <1>9, ChainFacts
  <2>3. Leads(b, Start(b))
    BY <1>9, <2>2 DEF Leads
  <2> QED
    BY <1>2, <1>3, <1>5, <2>1, <2>3
<1>10. CASE /\ ~Ended(b) /\ ~Exits(b) /\ KindOf(b) \notin {"switch", "iteration", "loop"}
            /\ graph.down[b] = <<>> /\ p # NoParent
  <2>1. Successors(b) = <<Start(p)>>
    BY <1>10 DEF Successors
  <2>2. p \in Node /\ KindOf(p) \in {"iteration", "loop"}
    BY <1>1, <1>10, ChainFacts
  <2>3. graph.parent[Start(p)] = p
    BY <1>1, <2>2, ChainFacts
  <2>4. Leads(b, Start(p))
    BY <1>10, <2>3 DEF Leads
  <2> QED
    BY <1>2, <1>3, <1>5, <2>1, <2>4
<1>11. CASE /\ ~Ended(b) /\ ~Exits(b) /\ KindOf(b) \notin {"switch", "iteration", "loop"}
            /\ ~(graph.down[b] = <<>> /\ p # NoParent)
  <2>1. Successors(b) = graph.down[b]
    BY <1>11 DEF Successors
  <2>2. Len(graph.down[b]) <= 1
    BY <1>1, <1>11, ChainFacts
  <2>3. \A d \in Range(Successors(b)) : Leads(b, d)
    BY <1>7, <1>11, <2>1
  <2> QED
    BY <1>2, <1>3, <2>1, <2>2, <2>3
<1> QED
  BY <1>6, <1>8, <1>9, <1>10, <1>11

(* What comes after a batch, if somebody does.                             *)
LEMMA ChainPending ==
  ASSUME TypeInv, Chain, phase # "idle", Len(path) <= idx + 1,
         \A c \in Node : Len(next[c]) <= 1 /\ Range(next[c]) \subseteq Range(graph.down[c])
  PROVE  /\ Extended # path =>
              /\ Len(path) = idx + 1
              /\ \E d \in Node : Extended = Append(path, d) /\ Leads(path[idx + 1], d)
                                   /\ Successors(path[idx + 1]) = <<d>>
         /\ Len(path) = idx + 1 =>
              \A d \in Node : Successors(path[idx + 1]) = <<d>> /\ d # path[idx + 1] =>
                Extended = Append(path, d)
         /\ Pending = <<>> <=> Extended = path
<1> DEFINE b == path[idx + 1]
           s == Successors(b)
<1>1. path \in Seq(Node)
  BY DEF TypeInv, TypeOK
<1>2. Len(path) = idx \/ Len(path) = idx + 1
  BY OneBatch
<1>3. Len(path) = idx => Extended = path
  BY ChainExtended
<1>4. ASSUME Len(path) = idx + 1
      PROVE  /\ Extended = path \/ \E d \in Node : Extended = Append(path, d) /\ Leads(b, d)
                                                     /\ s = <<d>>
             /\ \A d \in Node : s = <<d>> /\ d # b => Extended = Append(path, d)
  <2>1. b \in Node /\ Last(path) = b /\ path # <<>>
    BY <1>4, OneBatch
  <2>2. Extended = Extend(path, s)
    BY <1>4, ChainExtended
  <2>3. Len(s) <= 1 /\ s \in Seq(Node) /\ \A d \in Range(s) : d \in Node /\ Leads(b, d)
    BY <2>1, ChainSuccessors
  <2> HIDE DEF s, b
  <2> DEFINE V == Seq(Node)
  <2>4. \A r \in V : \A i \in 1 .. Len(s) : StepOf("extend", r, s[i]) \in V
    <3> TAKE r \in V
    <3> TAKE i \in 1 .. Len(s)
    <3>1. s[i] \in Node
      BY <2>3
    <3>2. Append(r, s[i]) \in V
      BY <3>1, Appending
    <3> QED
      BY <3>2 DEF StepOf
  <2>5. Extended = Fold("extend", path, s)
    BY <2>2, FoldsAreSteps, Zenon DEF Extend
  <2>6. /\ Len(s) = 0 => Fold("extend", path, s) = path
        /\ Len(s) = 1 => Fold("extend", path, s) = StepOf("extend", path, s[1])
    <3>1. path \in V
      BY <1>1
    <3> HIDE DEF V
    <3> QED
      BY <2>3, <2>4, <3>1, FoldShort
  <2>7. CASE Len(s) = 0
    <3>1. \A d : s # <<d>>
      BY <2>7
    <3> QED
      BY <2>5, <2>6, <2>7, <3>1
  <2>8. CASE Len(s) = 1
    <3>1. s = <<s[1]>> /\ s[1] \in Range(s)
      BY <2>3, <2>8 DEF Range
    <3>2. s[1] \in Node /\ Leads(b, s[1])
      BY <2>3, <3>1
    <3>3. Extended = IF b = s[1] THEN path ELSE Append(path, s[1])
      BY <2>1, <2>5, <2>6, <2>8 DEF StepOf
    <3>4. \A d : s = <<d>> => d = s[1]
      BY <3>1
    <3> QED
      BY <3>1, <3>2, <3>3, <3>4
  <2>9. Len(s) = 0 \/ Len(s) = 1
    <3>1. \A m \in Nat : m <= 1 => m = 0 \/ m = 1
      OBVIOUS
    <3>2. Len(s) \in Nat
      BY <2>3
    <3> QED
      BY <2>3, <3>1, <3>2
  <2> QED
    BY <2>7, <2>8, <2>9
<1>5. Pending = <<>> <=> Extended = path
  <2>1. Extended \in Seq(Node) /\ Len(path) <= Len(Extended) /\ Len(path) \in Nat
    BY <1>1, ExtendedGrows
  <2>2. ASSUME Extended = path PROVE Pending = <<>>
    <3>1. \A j \in 1 .. Len(Pending) : Len(path) + j \in Len(path) + 1 .. Len(Extended)
      BY <2>1, Parts DEF Pending
    <3>2. Pending \in Seq(Node)
      BY PendingIn
    <3>3. Len(Pending) = 0
      <4>1. Len(Pending) # 0 => 1 \in 1 .. Len(Pending)
        BY <3>2
      <4> QED
        BY <2>1, <2>2, <3>1, <3>2, <4>1
    <3> QED
      BY <3>2, <3>3
  <2>3. ASSUME Extended # path PROVE Pending # <<>>
    <3>1. PICK d \in Node : Extended = Append(path, d)
      BY <1>2, <1>3, <1>4, <2>3
    <3>2. Len(Extended) = Len(path) + 1
      BY <1>1, <3>1, Appending
    <3>3. Len(path) + 1 \in Len(path) + 1 .. Len(Extended)
      BY <2>1, <3>2
    <3>4. Pending \in Seq(Node) /\ (Len(path) + 1) - Len(path) \in 1 .. Len(Pending)
      BY <3>3, PendingIn
    <3> QED
      BY <3>4
  <2> QED
    BY <2>2, <2>3
<1> HIDE DEF s
<1>6. ASSUME Extended # path
      PROVE  /\ Len(path) = idx + 1
             /\ \E d \in Node : Extended = Append(path, d) /\ Leads(b, d) /\ s = <<d>>
  BY <1>2, <1>3, <1>4, <1>6
<1> QED
  BY <1>4, <1>5, <1>6 DEF s

(* The invariant of IterationsComplete holds in a new session.             *)
LEMMA IterInit == Init => IterInv
<1> SUFFICES ASSUME Init PROVE IterInv
  OBVIOUS
<1>1. /\ phase = "idle" /\ path = <<>> /\ results = [c \in Node |-> <<>>]
      /\ next = [c \in Node |-> <<>>] /\ last = "finished" /\ turns = 0
      /\ saved.path = <<>> /\ saved.results = results /\ graph \in Graphs
  BY DEF Init
<1>2. results \in [Node -> Seq(Int)] /\ \A c \in Node : results[c] = <<>>
  BY <1>1
<1>3. \A c : Times(<<>>, c) = 0
  <2>1. \A c : {i \in DOMAIN <<>> : <<>>[i] = c} = {}
    OBVIOUS
  <2> QED
    BY <2>1, FS_EmptySet DEF Times
<1>4. turns * (graph.items + 1) = 0
  <2>1. graph.items \in Nat
    BY <1>1, GraphFacts
  <2> QED
    BY <1>1, <2>1
<1>5. \A c \in Node : Len(next[c]) <= 1 /\ Range(next[c]) \subseteq Range(graph.down[c])
  BY <1>1 DEF Range
<1>6. IterationsComplete
  BY <1>1, <1>3, <1>4 DEF IterationsComplete, Finished
<1> QED
  BY <1>1, <1>2, <1>3, <1>4, <1>5, <1>6 DEF IterInv

(* The cancel flag, and steps that change nothing.                         *)
LEMMA IterCancel == IterInv /\ (Cancel \/ Expire \/ UNCHANGED vars) => IterInv'
<1> SUFFICES ASSUME IterInv, Cancel \/ Expire \/ UNCHANGED vars PROVE IterInv'
  OBVIOUS
<1>1. /\ phase' = phase /\ path' = path /\ idx' = idx /\ todo' = todo /\ graph' = graph
      /\ out' = out /\ err' = err /\ results' = results /\ count' = count /\ next' = next
      /\ last' = last /\ saved' = saved /\ ran' = ran /\ failed' = failed /\ misled' = misled
      /\ turns' = turns
  BY DEF Cancel, Expire, vars, flow, data, roundVars, bounds
<1>2. /\ Chain' <=> Chain
      /\ \A c : /\ KindOf(c)' = KindOf(c) /\ Start(c)' = Start(c) /\ Body(c)' = Body(c)
                /\ Place(c)' = Place(c) /\ (InOrder(c)' <=> InOrder(c))
      /\ Items' = Items /\ \A n : Gathered(n)' = Gathered(n)
  BY <1>1, SameChain
<1>3. Now' = Now /\ Walked' = Walked /\ (Waiting' <=> Waiting) /\ (Clean' <=> Clean)
  BY <1>1 DEF Now, Walked, Waiting, Clean
<1>4. \A c : Used(c)' = Used(c) /\ Comes(c)' = Comes(c)
  BY <1>1, <1>3 DEF Used, Comes
<1>5. \A b, d, s : Fresh(b, d, s)' <=> Fresh(b, d, s)
  BY <1>3 DEF Fresh
<1>6. OneWay' <=> OneWay
  BY <1>1, <1>3 DEF OneWay
<1>7. \A c : Counted(c)' <=> Counted(c)
  BY <1>1, <1>2, <1>3, <1>4 DEF Counted
<1>8. \A p : Gathering(p)' <=> Gathering(p)
  BY <1>1, <1>2, <1>3, <1>5 DEF Gathering
<1>9. IterationsComplete' <=> IterationsComplete
  BY <1>1, <1>2, <1>3 DEF IterationsComplete, Finished
<1> QED
  BY <1>1, <1>2, <1>6, <1>7, <1>8, <1>9 DEF IterInv

(* The end of a turn.                                                      *)
LEMMA IterEnd ==
  ASSUME IInv, IterInv, phase # "idle", phase' = "idle", last' # "paused",
         UNCHANGED <<graph, results, next, turns>>,
         path' = path \/ \E i \in 0 .. Len(path) : path' = SubSeq(path, 1, i),
         saved' = saved \/
           (saved'.results = results /\ saved'.path = path' /\ Walked \subseteq Range(path')),
         (Chain /\ last' = "finished" /\ Clean') =>
           \A p \in ran' : InOrder(p) => results[p] = [j \in 1 .. graph.items |-> j]
  PROVE  IterInv'
<1> SUFFICES ASSUME Chain PROVE IterInv'
  BY SameChain DEF IterInv
<1>1. /\ Items' = Items /\ \A p : InOrder(p)' <=> InOrder(p)
      /\ \A c : KindOf(c)' = KindOf(c)
  BY SameChain
<1>2. path \in Seq(Node) /\ graph \in Graphs
  BY DEF IInv, TypeInv, TypeOK
<1>3. /\ turns \in Nat /\ results \in [Node -> Seq(Int)] /\ saved.results \in [Node -> Seq(Int)]
      /\ \A c \in Node : /\ Len(next[c]) <= 1 /\ Range(next[c]) \subseteq Range(graph.down[c])
                         /\ saved.results[c] # <<>> => c \in Range(saved.path)
      /\ \A c \in Items : Times(saved.path, c) <= turns * (graph.items + 1)
      /\ \A c \in Items : Times(path, c) <= turns * (graph.items + 1)
      /\ \A c \in Node : results[c] # <<>> => c \in Walked
  BY DEF IterInv, IterationsComplete, OneWay, Items
<1>4. turns * (graph.items + 1) \in Nat
  <2>1. graph.items \in Nat
    BY <1>2, GraphFacts
  <2> QED
    BY <1>3, <2>1
<1>5. \A c \in Items : Times(path', c) <= turns * (graph.items + 1)
  <2> TAKE c \in Items
  <2>1. Times(path, c) \in Nat /\ \A i \in 0 .. Len(path) : Times(SubSeq(path, 1, i), c) <= Times(path, c)
    BY <1>2, TimesIn
  <2>2. CASE path' = path
    BY <1>3, <2>2
  <2>3. ASSUME NEW i \in 0 .. Len(path), path' = SubSeq(path, 1, i)
        PROVE  Times(path', c) <= turns * (graph.items + 1)
    <3>1. path' \in Seq(Node)
      <4>1. i \in Nat /\ i <= Len(path)
        BY <1>2
      <4> QED
        BY <1>2, <2>3, <4>1, Parts
    <3>2. Times(path', c) \in Nat /\ Times(path', c) <= Times(path, c)
      BY <2>1, <2>3, <3>1, TimesIn
    <3>3. Times(path, c) <= turns * (graph.items + 1)
      BY <1>3
    <3> QED
      BY <1>4, <2>1, <3>2, <3>3
  <2> QED
    BY <2>2, <2>3
<1>6. /\ saved'.results \in [Node -> Seq(Int)]
      /\ \A c \in Node : saved'.results[c] # <<>> => c \in Range(saved'.path)
      /\ \A c \in Items : Times(saved'.path, c) <= turns * (graph.items + 1)
  BY <1>3, <1>5
<1>7. IterationsComplete'
  <2>1. \A c \in Node : KindOf(c)' \in {"item", "loopitem"} =>
          Times(path', c) <= turns' * (graph'.items + 1)
    BY <1>1, <1>5 DEF Items
  <2>2. (Finished /\ Clean)' =>
           \A p \in ran' : InOrder(p)' => results'[p] = [j \in 1 .. graph'.items |-> j]
    BY <1>1 DEF Finished
  <2> QED
    BY <2>1, <2>2 DEF IterationsComplete, Times
<1> QED
  BY <1>1, <1>3, <1>6, <1>7 DEF IterInv, Times

(* A message starts the path at begin, with the items at the start.        *)
LEMMA IterTurn == IInv /\ IterInv /\ Turn => IterInv'
<1> SUFFICES ASSUME IInv, IterInv, Turn, Chain PROVE IterInv'
  <2>1. Turn => graph' = graph
    BY DEF Turn
  <2> QED
    BY <2>1, SameChain DEF IterInv
<1> DEFINE p == saved.path
           T == turns * (graph.items + 1)
<1>1. /\ turns \in Nat /\ last # "paused"
      /\ results \in [Node -> Seq(Int)] /\ saved.results \in [Node -> Seq(Int)]
      /\ \A c \in Node : saved.results[c] # <<>> => c \in Range(p)
      /\ \A c \in Items : Times(p, c) <= T
  BY DEF IterInv
<1>2. p \in Seq(Node) /\ graph \in Graphs /\ Len(p) \in Nat
  BY DEF IInv, TypeInv, TypeOK
<1>3. ~IsResume(p)
  <2>1. p # <<>> => Head(p) \in Node
    BY <1>2
  <2> QED
    BY <1>2, <2>1, ChainFacts DEF IsResume
<1>4. /\ graph' = graph /\ turns' = turns + 1 /\ phase = "idle" /\ phase' = "batch" /\ todo' = {}
      /\ path' = Append(p, Begin) /\ idx' = Len(p) /\ count' = Zero
      /\ next' = [c \in Node |-> <<>>] /\ saved' = saved /\ last' = last
      /\ ran' = {} /\ failed' = {} /\ misled' = {}
      /\ results' = [c \in Node |-> IF c \in Range(p) THEN <<>> ELSE saved.results[c]]
  BY <1>1, <1>3 DEF Turn
<1>5. /\ Chain' /\ Items' = Items
      /\ \A c : /\ KindOf(c)' = KindOf(c) /\ Start(c)' = Start(c) /\ Body(c)' = Body(c)
                /\ Place(c)' = Place(c) /\ (InOrder(c)' <=> InOrder(c))
      /\ \A n : Gathered(n)' = Gathered(n)
  BY <1>4, SameChain
<1>6. results' \in [Node -> Seq(Int)] /\ \A c \in Node : results'[c] = <<>>
  <2>1. \A c \in Node : results'[c] = <<>>
    BY <1>1, <1>4
  <2>2. <<>> \in Seq(Int) /\ \A c \in Node : saved.results[c] \in Seq(Int)
    BY <1>1
  <2> HIDE DEF p
  <2>3. results' \in [Node -> Seq(Int)]
    BY <1>4, <2>2
  <2> QED
    BY <2>1, <2>3
<1>7. /\ Begin \in Node /\ graph.parent[Begin] = NoParent /\ KindOf(Begin) = "begin"
      /\ NoParent \notin Node
  BY <1>2, ChainFacts
<1>8. /\ path' \in Seq(Node) /\ Len(path') = Len(p) + 1 /\ path'[Len(p) + 1] = Begin
  BY <1>2, <1>4, <1>7, Appending
<1>9. Now' = {Begin}
  <2>1. Len(p) + 1 .. Len(p) + 1 = {Len(p) + 1}
    BY <1>2
  <2>2. Now' = {path'[j] : j \in Len(p) + 1 .. Len(p) + 1}
    BY <1>4, <1>8 DEF Now
  <2> QED
    BY <1>8, <2>1, <2>2
<1>10. \A c \in Items : c \in Node /\ graph.parent[c] \in Node /\ c # Begin
  BY <1>2, <1>7, ChainFacts
<1>11. T \in Nat /\ graph.items \in Nat /\ turns' \in Nat /\ turns' # 0
       /\ turns' * (graph.items + 1) = T + (graph.items + 1)
  <2>1. graph.items \in Nat
    BY <1>2, GraphFacts
  <2>2. \A t, k \in Nat : (t + 1) * k = t * k + k /\ t * k \in Nat
    OBVIOUS
  <2>3. graph.items + 1 \in Nat
    BY <2>1
  <2> QED
    BY <1>1, <1>4, <2>1, <2>2, <2>3
<1>12. \A c \in Items : Times(path', c) \in Nat /\ Times(path', c) <= T
  <2> TAKE c \in Items
  <2>1. Times(path', c) = Times(p, c) + 0 /\ Times(p, c) \in Nat
    BY <1>2, <1>4, <1>7, <1>10, TimesIn
  <2> QED
    BY <1>1, <2>1
<1> HIDE DEF T, p
<1>13. OneWay'
  BY <1>2, <1>4, <1>6, <1>7, <1>8, <1>9, <1>11 DEF OneWay
<1>14. ASSUME NEW c \in Items PROVE Counted(c)'
  <2>1. count'[c] = 0 /\ Used(c)' = 0 /\ Comes(c)' = 0
    BY <1>4, <1>9, <1>10 DEF Used, Comes, Zero
  <2>2. Times(path', c) + graph.items + 1 <= turns' * (graph.items + 1) + 0 + 0
    BY <1>11, <1>12
  <2>3. results'[graph.parent[c]] = <<>>
    BY <1>6, <1>10
  <2>4. \A b \in Now' : graph.parent[b] # graph.parent[c]
    BY <1>7, <1>9, <1>10
  <2> QED
    BY <1>4, <2>1, <2>2, <2>3, <2>4 DEF Counted, Times
<1>15. ASSUME NEW q \in Node, InOrder(q) PROVE Gathering(q)'
  <2>1. Now' \cap Body(q) = {}
    BY <1>7, <1>9 DEF Body
  <2>2. Start(q) \in Node
    BY <1>2, <1>15, StartIn DEF InOrder
  <2>3. count'[Start(q)] = 0
    BY <1>4, <2>2 DEF Zero
  <2>4. Gathered(0) = <<>>
    <3>1. Gathered(0) = [j \in 1 .. 0 |-> j]
      BY DEF Gathered
    <3> QED
      BY <3>1
  <2>5. results'[q] = Gathered(count[Start(q)])'
    BY <1>5, <1>6, <2>3, <2>4
  <2> QED
    BY <1>4, <1>5, <2>1, <2>5 DEF Gathering
<1>16. IterationsComplete'
  <2>1. \A c \in Items : Times(path', c) <= turns' * (graph.items + 1)
    BY <1>11, <1>12
  <2> QED
    BY <1>4, <1>5, <2>1 DEF IterationsComplete, Finished, Items, Times
<1>17. \A c \in Node : Len(next'[c]) <= 1 /\ Range(next'[c]) \subseteq Range(graph.down[c])
  BY <1>4 DEF Range
<1>18. \A c \in Items : Times(p, c) <= turns' * (graph.items + 1)
  <2> TAKE c \in Items
  <2>1. Times(p, c) \in Nat /\ Times(p, c) <= T
    BY <1>1, <1>2, TimesIn
  <2> QED
    BY <1>11, <2>1
<1> QED
  BY <1>1, <1>4, <1>5, <1>6, <1>11, <1>13, <1>14, <1>15, <1>16, <1>17, <1>18 DEF IterInv, Times, p

(* A batch of one component is kept, or dropped.                           *)
LEMMA ChainKeeps ==
  ASSUME TypeInv, Prepare, Len(path) = idx + 1
  PROVE  LET s == SubSeq(path, 1, idx)
         IN /\ s \in Seq(Node) /\ Len(s) = idx /\ Range(s) = Walked
            /\ path = Append(s, path[idx + 1])
            /\ path' = IF Waits(s, path[idx + 1]) THEN s ELSE path
<1> DEFINE s == SubSeq(path, 1, idx)
           q == From(path, idx + 1)
           b == path[idx + 1]
           V == Seq(Node)
<1>0. phase = "batch"
  BY DEF Prepare
<1>1. path \in Seq(Node) /\ idx \in Nat /\ Len(path) \in Nat /\ phase # "idle"
  BY <1>0 DEF TypeInv, TypeOK
<1>2. b \in Node /\ q = <<b>>
  BY <1>1, OneBatch
<1>3. s \in V /\ Len(s) = idx /\ \A i \in 1 .. idx : s[i] = path[i]
  <2>1. 1 \in Int /\ idx \in Int /\ (1 <= idx \/ idx = 0) /\ \A j \in 1 .. idx : path[j] \in Node
    BY <1>1
  <2> QED
    BY <2>1, SubSeqProperties
<1>4. Range(s) = Walked
  <2> HIDE DEF s
  <2> QED
    BY <1>1, <1>3 DEF Range, Walked
<1> HIDE DEF s, b
<1>5. path = Append(s, b)
  <2> DEFINE a == Append(s, b)
  <2>1. /\ a \in Seq(Node) /\ Len(a) = idx + 1 /\ a[idx + 1] = b
        /\ \A i \in 1 .. idx : a[i] = s[i]
    BY <1>2, <1>3, Appending
  <2> HIDE DEF a
  <2>2. ASSUME NEW i \in 1 .. Len(path) PROVE path[i] = a[i]
    <3>1. i \in 1 .. idx \/ i = idx + 1
      BY <1>1
    <3> QED
      BY <1>3, <2>1, <3>1 DEF b
  <2>3. path = a
    BY <1>1, <2>1, <2>2
  <2> QED
    BY <2>3 DEF a
<1>6. path' = Fold("keep", s, q)
  <2>1. path' = FoldLeft(LAMBDA r, c : IF Waits(r, c) THEN r ELSE Append(r, c),
                         SubSeq(path, 1, idx), From(path, idx + 1))
    BY DEF Prepare
  <2> QED
    BY <2>1, FoldsAreSteps, Zenon DEF s
<1>7. Fold("keep", s, q) = StepOf("keep", s, b)
  <2>1. q \in Seq(Node) /\ Len(q) = 1 /\ q[1] = b
    <3> HIDE DEF q
    <3> QED
      BY <1>2
  <2>2. \A r \in V : \A i \in 1 .. Len(q) : StepOf("keep", r, q[i]) \in V
    <3> TAKE r \in V
    <3> TAKE i \in 1 .. Len(q)
    <3>1. q[i] \in Node
      BY <2>1
    <3>2. Append(r, q[i]) \in V
      BY <3>1, Appending
    <3> QED
      BY <3>2 DEF StepOf
  <2> HIDE DEF V, q
  <2>3. Len(q) = 1 => Fold("keep", s, q) = StepOf("keep", s, q[1])
    BY <1>3, <2>1, <2>2, FoldShort
  <2> QED
    BY <2>1, <2>3
<1>8. path' = IF Waits(s, b) THEN s ELSE path
  BY <1>5, <1>6, <1>7 DEF StepOf
<1> QED
  BY <1>3, <1>4, <1>5, <1>8 DEF s, b

(* What is dropped is not of the body of an iteration in order, because    *)
(* what it refers to has been walked.                                      *)
LEMMA IterPrepare == IInv /\ IterInv /\ Prepare => IterInv'
<1> SUFFICES ASSUME IInv, IterInv, Prepare, Chain PROVE IterInv'
  <2>1. Prepare => graph' = graph
    BY DEF Prepare
  <2> QED
    BY <2>1, SameChain DEF IterInv
<1> DEFINE T == turns * (graph.items + 1)
           s == SubSeq(path, 1, idx)
           b == path[idx + 1]
<1>1. /\ phase = "batch" /\ phase' = "run" /\ todo' = idx + 1 .. Len(path')
      /\ graph' = graph /\ idx' = idx /\ out' = out /\ err' = err /\ results' = results
      /\ count' = count /\ next' = next /\ saved' = saved /\ last' = last /\ ran' = ran
      /\ failed' = failed /\ misled' = misled /\ turns' = turns
  BY DEF Prepare, data, roundVars, bounds
<1>2. /\ TypeInv /\ graph \in Graphs /\ path \in Seq(Node) /\ idx \in Nat /\ Len(path) \in Nat
  <2>1. TypeInv
    BY DEF IInv
  <2>2. graph \in Graphs /\ path \in Seq(Node) /\ idx \in Nat
    BY <2>1 DEF TypeInv, TypeOK
  <2> QED
    BY <2>1, <2>2
<1>3. /\ turns \in Nat /\ last # "paused"
      /\ results \in [Node -> Seq(Int)] /\ saved.results \in [Node -> Seq(Int)]
      /\ \A c \in Node : /\ Len(next[c]) <= 1 /\ Range(next[c]) \subseteq Range(graph.down[c])
                         /\ saved.results[c] # <<>> => c \in Range(saved.path)
      /\ \A c \in Items : Times(saved.path, c) <= T
      /\ OneWay /\ (\A c \in Items : Counted(c)) /\ (\A q \in Node : InOrder(q) => Gathering(q))
      /\ IterationsComplete
  BY <1>1 DEF IterInv
<1>4. /\ Chain' /\ Items' = Items
      /\ \A c : /\ KindOf(c)' = KindOf(c) /\ Start(c)' = Start(c) /\ Body(c)' = Body(c)
                /\ Place(c)' = Place(c) /\ (InOrder(c)' <=> InOrder(c))
      /\ \A n : Gathered(n)' = Gathered(n)
  BY <1>1, SameChain
<1>5. Len(path) = idx + 1 /\ turns # 0
  BY <1>1, <1>3 DEF OneWay
<1>6. b \in Node /\ Now = {b} /\ Waiting
  BY <1>1, <1>2, <1>5, OneBatch DEF Waiting
<1>7. /\ s \in Seq(Node) /\ Len(s) = idx /\ Range(s) = Walked
      /\ path = Append(s, b) /\ path' = IF Waits(s, b) THEN s ELSE path
  BY <1>2, <1>5, ChainKeeps
<1> HIDE DEF s, b
<1>8. Walked' = Walked
  <2>1. \A j \in 1 .. idx : path'[j] = path[j]
    <3>1. CASE path' = path
      BY <3>1
    <3>2. CASE path' = s
      BY <1>2, <1>6, <1>7, <3>2, Appending
    <3> QED
      BY <1>7, <3>1, <3>2
  <2> QED
    BY <1>1, <2>1 DEF Walked
<1>9. \A c \in Items : c \in Node /\ graph.parent[c] \in Node
  BY <1>2, ChainFacts
<1>10. T \in Nat /\ graph.items \in Nat
  <2>1. graph.items \in Nat
    BY <1>2, GraphFacts
  <2> QED
    BY <1>3, <2>1
<1>11. CASE path' = path
  <2>1. Now' = Now
    BY <1>1, <1>11 DEF Now
  <2>2. Waiting'
    <3>1. idx + 1 \in idx + 1 .. Len(path)
      BY <1>2, <1>5
    <3> QED
      BY <1>1, <1>11, <3>1 DEF Waiting
  <2>3. \A c : Used(c)' = Used(c) /\ Comes(c)' = Comes(c)
    BY <1>1, <1>6, <2>1, <2>2 DEF Used, Comes
  <2>4. \A d, e, f : Fresh(d, e, f)' <=> Fresh(d, e, f)
    BY <1>6, <2>2 DEF Fresh
  <2>5. OneWay'
    BY <1>1, <1>3, <1>8, <1>11, <2>1 DEF OneWay
  <2>6. \A c \in Items : Counted(c)'
    BY <1>1, <1>3, <1>4, <1>6, <1>11, <2>1, <2>2, <2>3 DEF Counted
  <2>7. Clean' <=> Clean
    BY <1>1 DEF Clean
  <2>8. \A q \in Node : InOrder(q) => Gathering(q)'
    BY <1>1, <1>3, <1>4, <1>8, <2>1, <2>4, <2>7 DEF Gathering
  <2>9. IterationsComplete'
    BY <1>1, <1>3, <1>4, <1>11 DEF IterationsComplete, Finished
  <2> QED
    BY <1>1, <1>3, <1>4, <2>5, <2>6, <2>8, <2>9 DEF IterInv, T
<1>12. CASE path' = s
  <2>1. Now' = {} /\ Len(path') = idx
    <3>1. {j : j \in idx + 1 .. idx} = {}
      BY <1>2
    <3> QED
      BY <1>1, <1>7, <1>12, <3>1 DEF Now
  <2>2. \A c \in Node : /\ Times(s, c) \in Nat
                        /\ Times(path, c) = Times(s, c) + IF c = b THEN 1 ELSE 0
    BY <1>6, <1>7, TimesIn
  <2>3. OneWay'
    BY <1>1, <1>2, <1>3, <1>8, <2>1 DEF OneWay
  <2>4. ASSUME NEW c \in Items PROVE Counted(c)'
    <3>1. Comes(c)' = 0 /\ Used(c)' = Used(c) /\ Comes(c) = IF c = b THEN 1 ELSE 0
      BY <1>1, <1>6, <2>1 DEF Comes, Used
    <3>2. Times(path, c) + graph.items + 1 <= T + Used(c) + Comes(c)
      BY <1>3 DEF Counted
    <3>3. Used(c) \in Nat
      <4>1. count[c] \in -1 .. graph.items
        BY <1>2, <1>9 DEF TypeInv, TypeOK
      <4> QED
        BY <1>10, <4>1 DEF Used
    <3> HIDE DEF T
    <3>4. Times(s, c) + graph.items + 1 <= T + Used(c) + 0
      <4> DEFINE e == IF c = b THEN 1 ELSE 0
                 t == Times(s, c)
                 u == Used(c)
      <4>1. t \in Nat /\ e \in Nat /\ u \in Nat /\ t + e + graph.items + 1 <= T + u + e
        BY <1>9, <2>2, <3>1, <3>2, <3>3
      <4> HIDE DEF e, t, u
      <4>2. t + graph.items + 1 <= T + u + 0
        BY <1>10, <4>1
      <4> QED
        BY <4>2 DEF t, u
    <3>5. count[c] = 0 => results[graph.parent[c]] = <<>>
      BY <1>3 DEF Counted
    <3> QED
      BY <1>1, <1>12, <2>1, <3>1, <3>4, <3>5 DEF Counted, Times, T
  <2>5. ASSUME NEW q \in Node, InOrder(q) PROVE Gathering(q)'
    <3>1. Gathering(q)
      BY <1>3, <2>5
    <3>2. Clean' <=> Clean
      BY <1>1 DEF Clean
    <3>3. b \notin Body(q)
      <4> SUFFICES ASSUME b \in Body(q) PROVE FALSE
        OBVIOUS
      <4>1. b = Start(q) => graph.refs[b] = {}
        BY <2>5 DEF InOrder
      <4>2. b # Start(q) => graph.refs[b] \subseteq {d \in Body(q) : d < b}
        BY <2>5 DEF InOrder
      <4>3. \A d \in Body(q) : d < b => d \in Walked
        BY <1>6, <3>1 DEF Gathering
      <4>4. \A r \in graph.refs[b] : r \in Range(s)
        BY <1>7, <4>1, <4>2, <4>3
      <4>5. ~Waits(s, b)
        BY <4>4 DEF Waits
      <4>6. s = path
        BY <1>7, <1>12, <4>5
      <4> QED
        BY <1>2, <1>5, <1>7, <4>6
    <3>4. /\ Start(q) \in Items /\ graph.parent[Start(q)] = q
      BY <1>2, <2>5, ChainFacts DEF InOrder
    <3>5. b = q => q \notin ran
      <4>1. Counted(Start(q))
        BY <1>3, <3>4
      <4> QED
        BY <1>6, <3>4, <4>1 DEF Counted
    <3>6. Now \cap Body(q) = {}
      BY <1>6, <3>3
    <3>7. Clean => /\ results[q] = Gathered(count[Start(q)])
                   /\ q \in ran => count[Start(q)] = -1
      <4> SUFFICES ASSUME Clean PROVE /\ results[q] = Gathered(count[Start(q)])
                                      /\ q \in ran => count[Start(q)] = -1
        OBVIOUS
      <4>1. /\ results[q] = Gathered(count[Start(q)])
            /\ q \in ran => count[Start(q)] = -1 \/ q \in Now \/ Now \cap Body(q) # {}
        BY <3>1 DEF Gathering
      <4> QED
        BY <1>6, <3>5, <3>6, <4>1
    <3> QED
      BY <1>1, <1>4, <2>1, <3>2, <3>7 DEF Gathering
  <2>6. IterationsComplete'
    <3>1. ASSUME NEW c \in Items PROVE Times(s, c) <= T
      <4>1. Times(path, c) <= T
        BY <1>3 DEF IterationsComplete, Items
      <4> HIDE DEF T
      <4>2. Times(s, c) \in Nat /\ Times(s, c) <= Times(path, c) /\ Times(path, c) \in Nat
        BY <1>9, <2>2
      <4> QED
        BY <1>10, <4>1, <4>2
    <3> QED
      BY <1>1, <1>4, <1>12, <3>1 DEF IterationsComplete, Finished, Items, Times
  <2> QED
    BY <1>1, <1>3, <1>4, <2>3, <2>4, <2>5, <2>6 DEF IterInv, T
<1> QED
  BY <1>7, <1>11, <1>12

(* The one component of a batch runs.                                      *)
LEMMA OneTodo ==
  ASSUME IInv, OneWay, NEW i \in todo, phase = "run", phase' = "run", todo' = todo \ {i},
         UNCHANGED <<path, idx>>
  PROVE  /\ Len(path) = idx + 1 /\ path[i] \in Node /\ Now = {path[i]} /\ Now' = Now
         /\ Walked' = Walked /\ Waiting /\ ~Waiting'
<1>1. path \in Seq(Node) /\ idx \in Nat /\ Len(path) \in Nat /\ todo \subseteq idx + 1 .. Len(path)
  BY DEF IInv, TypeInv, TypeOK
<1>2. Len(path) <= idx + 1
  BY DEF OneWay
<1>3. i = idx + 1 /\ Len(path) = idx + 1 /\ idx + 1 .. Len(path) = {idx + 1}
  BY <1>1, <1>2
<1>4. todo = {i}
  BY <1>1, <1>3
<1>5. TypeInv
  BY DEF IInv
<1>6. path[i] \in Node /\ Now = {path[i]}
  BY <1>2, <1>3, <1>5, OneBatch
<1>7. Waiting /\ ~Waiting'
  BY <1>4 DEF Waiting
<1>8. Now' = Now /\ Walked' = Walked
  BY DEF Now, Walked
<1> QED
  BY <1>3, <1>6, <1>7, <1>8

(* The _idx of items when one component has run.                           *)
LEMMA CountedNext ==
  ASSUME IInv, Chain, UNCHANGED <<graph, path, turns>>, turns \in Nat,
         NEW b \in Node, Now = {b}, Now' = {b}, Waiting, ~Waiting', ran' = ran \cup {b},
         NEW c \in Items, Counted(c),
         c # b => count'[c] = count[c],
         c = b => Used(c) + Comes(c) <= (Used(c) + Comes(c))' /\ Used(c)' \in Nat,
         c = b /\ Comes(c)' = 0 => count'[c] # 0,
         count'[c] = 0 => results'[graph.parent[c]] = <<>>
  PROVE  Counted(c)'
<1> DEFINE p == graph.parent[c]
           T == turns * (graph.items + 1)
<1>1. graph \in Graphs /\ path \in Seq(Node)
  BY DEF IInv, TypeInv, TypeOK
<1>2. /\ c \in Node /\ p \in Node /\ graph.parent[p] = NoParent /\ p \in Nat /\ NoParent \notin Node
  <2>1. c \in Node /\ p \in Node /\ NoParent \notin Node /\ p \in Nat
    BY <1>1, ChainFacts
  <2>2. graph.parent[p] = NoParent
    BY <1>1, <2>1, ChainFacts
  <2> QED
    BY <2>1, <2>2
<1>3. T \in Nat /\ graph.items \in Nat /\ Times(path, c) \in Nat
  <2>1. graph.items \in Nat
    BY <1>1, GraphFacts
  <2> QED
    BY <1>1, <2>1, TimesIn
<1>4. Used(c) \in Nat /\ Comes(c) \in Nat
  <2>1. count[c] \in -1 .. graph.items
    BY <1>2 DEF IInv, TypeInv, TypeOK
  <2> QED
    BY <1>3, <2>1 DEF Used, Comes
<1>5. /\ Used(c) + Comes(c) <= Used(c)' + Comes(c)'
      /\ Used(c)' \in Nat /\ Comes(c)' \in Nat
  <2>1. CASE c = b
    BY <2>1 DEF Comes
  <2>2. CASE c # b
    <3>1. Comes(c) = 0 /\ Comes(c)' = 0 /\ Used(c)' = Used(c)
      BY <2>2 DEF Comes, Used
    <3> QED
      BY <1>4, <3>1
  <2> QED
    BY <2>1, <2>2
<1>6. /\ Times(path, c) + graph.items + 1 <= T + Used(c) + Comes(c)
      /\ Place(b) < p \/ b = p => count[c] = 0
      /\ Place(b) < p \/ b = p => p \notin ran
      /\ graph.parent[b] = p =>
           (Comes(c) = 0 => count[c] # 0) /\ count[c] # -1
  <2> HIDE DEF T
  <2>1. /\ Times(path, c) + graph.items + 1 <= turns * (graph.items + 1) + Used(c) + Comes(c)
        /\ \A d \in Now :
             /\ Place(d) < p \/ d = p => count[c] = 0
             /\ Place(d) < p \/ (d = p /\ Waiting) => p \notin ran
             /\ graph.parent[d] = p =>
                  (Comes(c) = 0 => count[c] # 0) /\ (d # c \/ Waiting => count[c] # -1)
    BY DEF Counted
  <2> QED
    BY <2>1 DEF T
<1> HIDE DEF T
<1>7. Times(path, c) + graph.items + 1 <= T + Used(c)' + Comes(c)'
  <2> DEFINE t == Times(path, c)
             u == Used(c)
             k == Comes(c)
             v == Used(c)'
             l == Comes(c)'
  <2>1. /\ t \in Nat /\ u \in Nat /\ k \in Nat /\ v \in Nat /\ l \in Nat
        /\ u + k <= v + l /\ t + graph.items + 1 <= T + u + k
    BY <1>3, <1>4, <1>5, <1>6
  <2> HIDE DEF t, u, k, v, l
  <2>2. t + graph.items + 1 <= T + v + l
    BY <1>3, <2>1
  <2> QED
    BY <2>2 DEF t, v, l
<1>8. Place(b) < p => p \notin ran'
  <2>1. Place(b) < p => b # p
    BY <1>2 DEF Place
  <2> QED
    BY <1>6, <2>1
<1>9. Place(b) < p \/ b = p => count'[c] = 0
  <2>1. b = c => ~(Place(b) < p) /\ b # p
    BY <1>2 DEF Place
  <2> QED
    BY <1>6, <2>1
<1>10. graph.parent[b] = p =>
         (Comes(c)' = 0 => count'[c] # 0) /\ (b # c => count'[c] # -1)
  <2>1. c # b => Comes(c) = 0
    BY DEF Comes
  <2> QED
    BY <1>6, <2>1
<1>11. Place(b)' = Place(b)
  BY DEF Place
<1> QED
  BY <1>7, <1>8, <1>9, <1>10, <1>11 DEF Counted, Times, T, p

(* A component that fails spoils the round.                                *)
LEMMA IterFail == ASSUME IInv, IterInv, NEW i \in todo, Fail(i) PROVE IterInv'
<1> SUFFICES ASSUME Chain PROVE IterInv'
  <2>1. graph' = graph
    BY DEF Fail
  <2> QED
    BY <2>1, SameChain DEF IterInv
<1> DEFINE b == path[i]
<1>1. /\ phase = "run" /\ phase' = phase /\ todo' = todo \ {i} /\ graph' = graph /\ path' = path
      /\ idx' = idx /\ out' = out /\ results' = results /\ count' = count /\ next' = next
      /\ saved' = saved /\ last' = last /\ ran' = ran \cup {b} /\ failed' = failed \cup {b}
      /\ turns' = turns /\ err' = [err EXCEPT ![b] = TRUE]
  BY DEF Fail, Note
<1>2. /\ turns \in Nat /\ last # "paused"
      /\ results \in [Node -> Seq(Int)] /\ saved.results \in [Node -> Seq(Int)]
      /\ \A c \in Node : /\ Len(next[c]) <= 1 /\ Range(next[c]) \subseteq Range(graph.down[c])
                         /\ saved.results[c] # <<>> => c \in Range(saved.path)
      /\ \A c \in Items : Times(saved.path, c) <= turns * (graph.items + 1)
      /\ OneWay /\ (\A c \in Items : Counted(c)) /\ (\A q \in Node : InOrder(q) => Gathering(q))
      /\ IterationsComplete
  BY <1>1 DEF IterInv
<1>3. /\ Chain' /\ Items' = Items
      /\ \A c : /\ KindOf(c)' = KindOf(c) /\ Start(c)' = Start(c) /\ Body(c)' = Body(c)
                /\ Place(c)' = Place(c) /\ (InOrder(c)' <=> InOrder(c))
  BY <1>1, SameChain
<1>4. /\ Len(path) = idx + 1 /\ b \in Node /\ Now = {b} /\ Now' = Now
      /\ Walked' = Walked /\ Waiting /\ ~Waiting'
  BY <1>1, <1>2, OneTodo
<1>5. err'[b] /\ ~Clean' /\ graph \in Graphs
  <2>1. err \in [Node -> BOOLEAN] /\ graph \in Graphs
    BY DEF IInv, TypeInv, TypeOK
  <2> QED
    BY <1>1, <1>4, <2>1 DEF Clean
<1> HIDE DEF b
<1>6. OneWay'
  BY <1>1, <1>2, <1>4 DEF OneWay
<1>7. ASSUME NEW c \in Items PROVE Counted(c)'
  <2>1. c = b => Comes(c) = 1 /\ Comes(c)' = 1
    BY <1>4, <1>5 DEF Comes
  <2>2. Used(c)' = Used(c) /\ Used(c) \in Nat
    <3>1. c \in Node /\ graph.items \in Nat
      BY <1>5, ChainFacts, GraphFacts
    <3>2. count[c] \in -1 .. graph.items
      BY <3>1 DEF IInv, TypeInv, TypeOK
    <3> QED
      BY <1>1, <3>1, <3>2 DEF Used
  <2>3. c = b => Used(c) + Comes(c) <= (Used(c) + Comes(c))' /\ Used(c)' \in Nat
    BY <2>1, <2>2
  <2>4. Counted(c) /\ (count'[c] = 0 => results'[graph.parent[c]] = <<>>)
    BY <1>1, <1>2 DEF Counted
  <2>5. Now = {b} /\ Now' = {b}
    BY <1>4
  <2> QED
    BY <1>1, <1>2, <1>4, <2>1, <2>3, <2>4, <2>5, CountedNext
<1>8. \A q \in Node : InOrder(q) => Gathering(q)'
  BY <1>1, <1>2, <1>3, <1>4, <1>5 DEF Gathering
<1>9. IterationsComplete'
  BY <1>1, <1>2, <1>3 DEF IterationsComplete, Finished
<1> QED
  BY <1>1, <1>2, <1>3, <1>6, <1>7, <1>8, <1>9 DEF IterInv

(* What is made of one element only is of that element.                    *)
LEMMA MadeOne ==
  ASSUME TypeInv, NEW c \in Node, KindOf(c) = "plain", graph.refs[c] # {}, NEW n,
         \A r \in graph.refs[c] : out[r] = n
  PROVE  Made(c) = n
<1> DEFINE S == {out[r] : r \in graph.refs[c]}
<1>1. graph.refs[c] \subseteq Node /\ graph.items \in Nat /\ out \in [Node -> -1 .. graph.items]
  BY GraphFacts DEF TypeInv, TypeOK
<1>2. S \in SUBSET (-1 .. graph.items) /\ S # {} /\ \A x \in S : x = n
  BY <1>1
<1>3. Made(c) = Min(S)
  BY DEF Made
<1> HIDE DEF S
<1>4. Min(S) \in S
  BY <1>1, <1>2, MinIsIn
<1> QED
  BY <1>2, <1>3, <1>4

(* Another element is gathered.                                            *)
LEMMA GatheredNext ==
  ASSUME graph.items \in Nat \ {0}, NEW n \in 0 .. graph.items
  PROVE  Gathered(NextItem(n)) = IF n > 0 THEN Append(Gathered(n), n) ELSE Gathered(n)
<1>1. graph.items \in Nat /\ graph.items >= 1 /\ n \in Nat /\ n <= graph.items
  OBVIOUS
<1>2. NextItem(n) = (IF n >= graph.items THEN -1 ELSE n + 1) /\ n # -1
  BY <1>1 DEF NextItem
<1>3. Gathered(n) = [j \in 1 .. (IF n = 0 THEN 0 ELSE n - 1) |-> j]
  BY <1>2 DEF Gathered
<1>4. Gathered(NextItem(n)) = [j \in 1 .. n |-> j]
  <2>1. CASE n >= graph.items
    <3>1. n = graph.items /\ NextItem(n) = -1
      BY <1>1, <1>2, <2>1
    <3> QED
      BY <3>1 DEF Gathered
  <2>2. CASE ~(n >= graph.items)
    <3>1. NextItem(n) = n + 1 /\ n + 1 # -1 /\ n + 1 # 0 /\ (n + 1) - 1 = n
      BY <1>1, <1>2, <2>2
    <3> QED
      BY <3>1 DEF Gathered
  <2> QED
    BY <2>1, <2>2
<1>5. CASE n = 0
  BY <1>3, <1>4, <1>5
<1>6. CASE n > 0
  <2> DEFINE g == [j \in 1 .. n - 1 |-> j]
             h == [j \in 1 .. n |-> j]
             a == Append(g, n)
  <2>1. n - 1 \in Nat /\ n \in Nat
    BY <1>1, <1>6
  <2>2. g \in Seq(Int) /\ Len(g) = n - 1 /\ \A j \in 1 .. n - 1 : g[j] = j
    BY <2>1
  <2>3. h \in Seq(Int) /\ Len(h) = n /\ \A j \in 1 .. n : h[j] = j
    BY <2>1
  <2> HIDE DEF g, h
  <2>4. /\ a \in Seq(Int) /\ Len(a) = Len(g) + 1 /\ a[Len(g) + 1] = n
        /\ \A j \in 1 .. Len(g) : a[j] = g[j]
    BY <2>1, <2>2, AppendProperties
  <2> HIDE DEF a
  <2>5. Len(a) = n /\ a[n] = n
    BY <2>1, <2>2, <2>4
  <2>6. ASSUME NEW j \in 1 .. n PROVE a[j] = h[j]
    <3>1. j = n \/ j \in 1 .. n - 1
      BY <2>1
    <3> QED
      BY <2>2, <2>3, <2>4, <2>5, <3>1
  <2>7. a = h
    BY <2>1, <2>3, <2>4, <2>5, <2>6
  <2>8. Gathered(n) = g /\ Gathered(NextItem(n)) = h
    BY <1>1, <1>3, <1>4, <1>6 DEF g, h
  <2> QED
    BY <1>6, <2>7, <2>8 DEF a
<1> QED
  BY <1>1, <1>5, <1>6

(* What Run does to the data.                                              *)
LEMMA RunOf ==
  ASSUME IInv, Chain, NEW i \in todo, Run(i)
  PROVE  LET b == path[i]
             p == graph.parent[b]
         IN /\ phase = "run" /\ phase' = phase /\ todo' = todo \ {i} /\ graph' = graph
            /\ path' = path /\ idx' = idx /\ err' = err /\ saved' = saved /\ last' = last
            /\ failed' = failed /\ turns' = turns /\ ran' = ran \cup {b} /\ misled \subseteq misled'
            /\ b \in Node
            /\ \A c \in Node : c # b => count'[c] = count[c] /\ out'[c] = out[c]
            /\ b \in Items => count'[b] \in {NextItem(count[b]), -1}
            /\ (KindOf(b) = "item") =>
                 /\ count'[b] = NextItem(count[b]) /\ (count'[b] # -1 => out'[b] = Element(count[b]))
                 /\ results' = IF count[b] > 0
                               THEN [results EXCEPT ![p] = Append(@, out[graph.collect[p]])]
                               ELSE results
            /\ b \notin Items => out'[b] = Made(b) /\ count' = count
            /\ KindOf(b) # "item" => results' = results
            /\ \/ next' = next
               \/ \E d \in Range(graph.down[b]) : next' = [next EXCEPT ![b] = <<d>>]
<1> DEFINE b == path[i]
           p == graph.parent[b]
<1>1. /\ phase = "run" /\ phase' = phase /\ todo' = todo \ {i} /\ graph' = graph
      /\ path' = path /\ idx' = idx /\ err' = err /\ saved' = saved /\ last' = last
      /\ failed' = failed /\ turns' = turns /\ ran' = ran \cup {b} /\ misled \subseteq misled'
  BY DEF Run, Note, bounds
<1>2. b \in Node
  BY <1>1, InBatch
<1>3. count \in [Node -> -1 .. graph.items] /\ out \in [Node -> -1 .. graph.items]
  BY DEF IInv, TypeInv, TypeOK
<1>4. CASE KindOf(b) \in {"item", "loopitem"}
  <2>1. /\ \/ count' = [count EXCEPT ![b] = NextItem(@)]
           \/ KindOf(b) = "loopitem" /\ count' = [count EXCEPT ![b] = -1]
        /\ out' = [out EXCEPT ![b] = IF KindOf(b) = "loopitem" THEN 1
                                     ELSE IF NextItem(count[b]) = -1 THEN @
                                     ELSE Element(count[b])]
        /\ results' = IF KindOf(b) = "item" /\ count[b] > 0
                      THEN [results EXCEPT ![p] = Append(@, out[graph.collect[p]])]
                      ELSE results
    BY <1>4 DEF Run, Gathers
  <2>2. next' = next
    BY <1>4 DEF Run
  <2>3. b \in Items
    BY <1>2, <1>4 DEF Items
  <2> HIDE DEF b
  <2>4. \A c \in Node : c # b => count'[c] = count[c] /\ out'[c] = out[c]
    BY <1>3, <2>1
  <2>5. count'[b] \in {NextItem(count[b]), -1}
    BY <1>2, <1>3, <2>1
  <2>6. KindOf(b) = "item" => /\ count'[b] = NextItem(count[b])
                              /\ (count'[b] # -1 => out'[b] = Element(count[b]))
    BY <1>2, <1>3, <2>1
  <2> QED
    BY <1>1, <1>2, <2>1, <2>2, <2>3, <2>4, <2>5, <2>6 DEF b
<1>5. CASE KindOf(b) \notin {"item", "loopitem"}
  <2>1. out' = [out EXCEPT ![b] = Made(b)] /\ count' = count /\ results' = results
    BY <1>5 DEF Run
  <2>2. b \notin Items /\ KindOf(b) # "item"
    BY <1>5 DEF Items
  <2>3. \/ next' = next
        \/ \E d \in Range(graph.down[b]) : next' = [next EXCEPT ![b] = <<d>>]
    <3>1. CASE KindOf(b) = "switch"
      <4>1. PICK j \in DOMAIN graph.down[b] : next' = [next EXCEPT ![b] = <<graph.down[b][j]>>]
        BY <3>1 DEF Run
      <4>2. graph.down[b][j] \in Range(graph.down[b])
        BY DEF Range
      <4> QED
        BY <4>1, <4>2
    <3>2. CASE KindOf(b) # "switch"
      BY <3>2 DEF Run
    <3> QED
      BY <3>1, <3>2
  <2> HIDE DEF b
  <2>4. /\ \A c \in Node : c # b => count'[c] = count[c] /\ out'[c] = out[c]
        /\ out'[b] = Made(b)
    BY <1>2, <1>3, <2>1
  <2> QED
    BY <1>1, <1>2, <2>1, <2>2, <2>3, <2>4 DEF b
<1> QED
  BY <1>4, <1>5

(* An iteration that is run in order, when one component has run: its item *)
(* gathers the element before and goes on, and the rest of its body makes  *)
(* something of the element.                                               *)
LEMMA GatheringNext ==
  ASSUME IInv, Chain, OneWay, \A c \in Items : Counted(c), NEW i \in todo, Run(i),
         NEW q \in Node, InOrder(q), Gathering(q), results \in [Node -> Seq(Int)]
  PROVE  Gathering(q)'
<1> DEFINE b == path[i]
           s == Start(q)
<1>1. /\ phase = "run" /\ phase' = phase /\ todo' = todo \ {i} /\ graph' = graph
      /\ path' = path /\ idx' = idx /\ failed' = failed /\ ran' = ran \cup {b}
      /\ misled \subseteq misled' /\ b \in Node
      /\ \A c \in Node : c # b => count'[c] = count[c] /\ out'[c] = out[c]
      /\ (KindOf(b) = "item") =>
           /\ count'[b] = NextItem(count[b]) /\ (count'[b] # -1 => out'[b] = Element(count[b]))
           /\ results' = IF count[b] > 0
                         THEN [results EXCEPT ![graph.parent[b]] =
                                 Append(@, out[graph.collect[graph.parent[b]]])]
                         ELSE results
      /\ b \notin Items => out'[b] = Made(b) /\ count' = count
      /\ KindOf(b) # "item" => results' = results
  BY RunOf
<1> HIDE DEF b
<1>2. /\ TypeInv /\ graph \in Graphs /\ path \in Seq(Node) /\ idx \in Nat
      /\ count \in [Node -> -1 .. graph.items]
  BY DEF IInv, TypeInv, TypeOK
<1>3. /\ \A c : /\ Start(c)' = Start(c) /\ Body(c)' = Body(c)
                /\ (InOrder(c)' <=> InOrder(c))
      /\ \A n : Gathered(n)' = Gathered(n)
  BY <1>1, SameChain
<1>4. /\ Now = {b} /\ Now' = {b} /\ Walked' = Walked /\ Waiting /\ ~Waiting'
  BY <1>1, OneTodo DEF b
<1>5. graph.items \in Nat \ {0} /\ graph.items \in Nat
  BY <1>2, GraphFacts
<1>6. /\ KindOf(q) = "iteration" /\ KindOf(s) = "item" /\ graph.refs[s] = {}
      /\ graph.collect[q] \in Body(q) \ {s}
      /\ \A c \in Body(q) :
           c # s => /\ s < c /\ KindOf(c) = "plain" /\ graph.refs[c] # {}
                    /\ graph.refs[c] \subseteq {d \in Body(q) : d < c}
  BY DEF InOrder
<1>7. /\ s \in Items /\ s \in Node /\ graph.parent[s] = q /\ graph.parent[q] = NoParent
      /\ s \in Nat /\ NoParent \notin Node
      /\ \A c \in Items : c \in Node /\ Start(graph.parent[c]) = c
  BY <1>2, <1>6, ChainFacts
<1>8. Body(q) \subseteq Node /\ s \in Body(q) /\ q \notin Body(q) /\ \A c \in Body(q) : c \in Nat
  <2>1. Body(q) \subseteq Node /\ s \in Body(q) /\ q \notin Body(q)
    BY <1>7 DEF Body
  <2> QED
    BY <1>2, <2>1, ChainFacts
<1>9. Clean' => Clean
  BY <1>1 DEF Clean
<1>10. \A c \in Now \cap Body(q) : \A d \in Body(q) : d < c => d \in Walked
  BY DEF Gathering
<1>11. Clean => /\ results[q] = Gathered(count[s])
                /\ q \in ran => count[s] = -1 \/ q \in Now \/ Now \cap Body(q) # {}
                /\ \A c \in Now \cap Body(q) : count[s] > 0 =>
                     \A d \in Body(q) : Fresh(c, d, s) => out[d] = count[s]
  BY DEF Gathering
<1> HIDE DEF s
<1>12. /\ \A x, d, y : Fresh(x, d, y) <=> d < x \/ x = y
       /\ \A x, d, y : Fresh(x, d, y)' <=> d < x \/ d = x
  BY <1>4 DEF Fresh
<1>13. CASE b = s
  <2>1. /\ count[s] \in -1 .. graph.items /\ count[s] # -1
    <3>1. Counted(s)
      BY <1>7
    <3> QED
      BY <1>2, <1>4, <1>7, <1>13, <3>1 DEF Counted
  <2> DEFINE n == count[s]
  <2>2. n \in 0 .. graph.items
    BY <1>5, <2>1
  <2>3. /\ count'[s] = NextItem(n)
        /\ count'[s] # -1 => out'[s] = Element(n)
        /\ results' = IF n > 0 THEN [results EXCEPT ![q] = Append(@, out[graph.collect[q]])]
                      ELSE results
    BY <1>1, <1>6, <1>7, <1>13
  <2>4. Gathered(NextItem(n)) = IF n > 0 THEN Append(Gathered(n), n) ELSE Gathered(n)
    <3> HIDE DEF n
    <3> QED
      BY <1>5, <2>2, GatheredNext
  <2>5. ASSUME Clean PROVE results'[q] = Gathered(count'[s])
    <3>1. n > 0 => out[graph.collect[q]] = n
      BY <1>4, <1>6, <1>8, <1>11, <1>12, <1>13, <2>5
    <3>2. results[q] = Gathered(n)
      BY <1>11, <2>5
    <3>3. CASE n > 0
      <4>1. results'[q] = Append(results[q], n)
        BY <2>3, <3>1, <3>3
      <4> QED
        BY <2>3, <2>4, <3>2, <3>3, <4>1
    <3>4. CASE ~(n > 0)
      BY <2>3, <2>4, <3>2, <3>4
    <3> QED
      BY <3>3, <3>4
  <2>6. \A d \in Body(q) : (d < b \/ d = b) /\ count'[s] > 0 => out'[d] = count'[s]
    <3> SUFFICES ASSUME NEW d \in Body(q), d < b \/ d = b, count'[s] > 0
                 PROVE  out'[d] = count'[s]
      OBVIOUS
    <3>1. d = s
      <4>1. d \in Nat /\ (d # s => s < d) /\ (d < s \/ d = s)
        BY <1>6, <1>8, <1>13
      <4> QED
        BY <1>7, <4>1
    <3>2. count'[s] # -1 /\ n < graph.items /\ count'[s] = n + 1 /\ n \in Nat
      <4>1. NextItem(n) = IF n >= graph.items THEN -1 ELSE n + 1
        BY DEF NextItem
      <4> HIDE DEF n
      <4> QED
        BY <1>5, <2>2, <2>3, <4>1
    <3>3. Element(n) = n + 1
      <4> HIDE DEF n
      <4>1. n # -1
        BY <3>2
      <4> QED
        BY <4>1 DEF Element
    <3> QED
      BY <2>3, <3>1, <3>2, <3>3
  <2> HIDE DEF n
  <2> QED
    BY <1>1, <1>3, <1>4, <1>8, <1>9, <1>10, <1>12, <1>13, <2>5, <2>6 DEF Gathering, s
<1>14. CASE b # s
  <2>1. count'[s] = count[s]
    BY <1>1, <1>7, <1>14
  <2>2. results'[q] = results[q]
    <3>1. KindOf(b) = "item" => graph.parent[b] # q
      <4>1. KindOf(b) = "item" => b \in Items
        BY <1>1 DEF Items
      <4> QED
        BY <1>7, <1>14, <4>1 DEF s
    <3> QED
      BY <1>1, <3>1
  <2>3. ASSUME Clean, b \in Body(q), count[s] > 0, NEW d \in Body(q), d < b \/ d = b
        PROVE  out'[d] = count[s]
    <3>1. \A r \in Body(q) : r < b => out[r] = count[s]
      BY <1>4, <1>11, <1>12, <2>3
    <3>2. CASE d < b
      <4>1. d # b
        BY <1>8, <2>3, <3>2
      <4> QED
        BY <1>1, <1>8, <3>1, <3>2, <4>1
    <3>3. CASE d = b
      <4>1. KindOf(b) = "plain" /\ graph.refs[b] # {} /\ b \notin Items
        BY <1>6, <1>14, <2>3 DEF Items
      <4>2. \A r \in graph.refs[b] : out[r] = count[s]
        BY <1>6, <1>14, <2>3, <3>1
      <4>3. Made(b) = count[s]
        BY <1>1, <1>2, <4>1, <4>2, MadeOne
      <4> QED
        BY <1>1, <3>3, <4>1, <4>3
    <3> QED
      BY <2>3, <3>2, <3>3
  <2>4. Clean => (q \in ran' => count[s] = -1 \/ q \in Now \/ Now \cap Body(q) # {})
    BY <1>1, <1>4, <1>11
  <2> QED
    BY <1>1, <1>3, <1>4, <1>9, <1>10, <1>11, <1>12, <2>1, <2>2, <2>3, <2>4
       DEF Gathering, s
<1> QED
  BY <1>13, <1>14

(* A component runs without an error.                                      *)
LEMMA IterRun == ASSUME IInv, IterInv, NEW i \in todo, Run(i) PROVE IterInv'
<1> SUFFICES ASSUME Chain PROVE IterInv'
  <2>1. graph' = graph
    BY DEF Run
  <2> QED
    BY <2>1, SameChain DEF IterInv
<1> DEFINE b == path[i]
           p == graph.parent[b]
<1>1. /\ phase = "run" /\ phase' = phase /\ todo' = todo \ {i} /\ graph' = graph
      /\ path' = path /\ idx' = idx /\ err' = err /\ saved' = saved /\ last' = last
      /\ turns' = turns /\ ran' = ran \cup {b} /\ b \in Node
      /\ \A c \in Node : c # b => count'[c] = count[c]
      /\ b \in Items => count'[b] \in {NextItem(count[b]), -1}
      /\ (KindOf(b) = "item") =>
           results' = IF count[b] > 0
                      THEN [results EXCEPT ![p] = Append(@, out[graph.collect[p]])]
                      ELSE results
      /\ KindOf(b) # "item" => results' = results
      /\ \/ next' = next
         \/ \E d \in Range(graph.down[b]) : next' = [next EXCEPT ![b] = <<d>>]
  BY RunOf
<1>2. /\ turns \in Nat /\ last # "paused"
      /\ results \in [Node -> Seq(Int)] /\ saved.results \in [Node -> Seq(Int)]
      /\ \A c \in Node : /\ Len(next[c]) <= 1 /\ Range(next[c]) \subseteq Range(graph.down[c])
                         /\ saved.results[c] # <<>> => c \in Range(saved.path)
      /\ \A c \in Items : Times(saved.path, c) <= turns * (graph.items + 1)
      /\ OneWay /\ (\A c \in Items : Counted(c)) /\ (\A q \in Node : InOrder(q) => Gathering(q))
      /\ IterationsComplete
  BY <1>1 DEF IterInv
<1>3. /\ Chain' /\ Items' = Items
      /\ \A c : /\ KindOf(c)' = KindOf(c) /\ (InOrder(c)' <=> InOrder(c))
  BY <1>1, SameChain
<1>4. /\ Now = {b} /\ Now' = {b} /\ Walked' = Walked /\ Waiting /\ ~Waiting'
  BY <1>1, <1>2, OneTodo
<1>5. \A q \in Node : InOrder(q) => Gathering(q)'
  BY <1>2, GatheringNext
<1> HIDE DEF b
<1>6. /\ graph \in Graphs /\ next \in [Node -> Seq(Node)]
      /\ count \in [Node -> -1 .. graph.items] /\ out \in [Node -> -1 .. graph.items]
  BY DEF IInv, TypeInv, TypeOK
<1>7. graph.items \in Nat \ {0} /\ graph.items \in Nat
  BY <1>6, GraphFacts
<1>8. \A c \in Items : c \in Node /\ graph.parent[c] \in Node /\ Start(graph.parent[c]) = c
  BY <1>6, ChainFacts
<1>9. KindOf(b) = "item" => b \in Items /\ p \in Node /\ p # NoParent
  <2>1. NoParent \notin Node
    BY <1>6, ChainFacts
  <2> QED
    BY <1>1, <1>8, <2>1 DEF Items
<1>10. /\ results' \in [Node -> Seq(Int)]
       /\ \A c \in Node : results'[c] # results[c] => KindOf(b) = "item" /\ c = p
  <2>1. CASE KindOf(b) = "item"
    <3>1. out[graph.collect[p]] \in Int
      <4>1. graph.collect \in [Node -> Node]
        BY <1>6, GraphAssumption
      <4>2. graph.collect[p] \in Node
        BY <1>9, <2>1, <4>1
      <4> QED
        BY <1>6, <1>7, <4>2
    <3>2. Append(results[p], out[graph.collect[p]]) \in Seq(Int)
      BY <1>2, <1>9, <2>1, <3>1
    <3> HIDE DEF p
    <3> QED
      BY <1>1, <1>2, <1>9, <2>1, <3>2
  <2>2. CASE KindOf(b) # "item"
    BY <1>1, <1>2, <2>2
  <2> QED
    BY <2>1, <2>2
<1>11. \A c \in Node : Len(next'[c]) <= 1 /\ Range(next'[c]) \subseteq Range(graph.down[c])
  <2>1. CASE next' = next
    BY <1>2, <2>1
  <2>2. ASSUME NEW d \in Range(graph.down[b]), next' = [next EXCEPT ![b] = <<d>>],
               NEW c \in Node
        PROVE  Len(next'[c]) <= 1 /\ Range(next'[c]) \subseteq Range(graph.down[c])
    <3>1. Len(<<d>>) <= 1 /\ Range(<<d>>) = {d}
      BY DEF Range
    <3>2. next'[c] = IF c = b THEN <<d>> ELSE next[c]
      BY <1>6, <2>2
    <3> QED
      BY <1>2, <2>2, <3>1, <3>2
  <2> QED
    BY <1>1, <2>1, <2>2
<1>12. OneWay'
  <2>1. ASSUME NEW c \in Node, results'[c] # <<>> PROVE c \in Walked
    <3>1. CASE results'[c] = results[c]
      BY <1>2, <2>1, <3>1 DEF OneWay
    <3>2. CASE results'[c] # results[c]
      BY <1>2, <1>4, <1>9, <1>10, <3>2 DEF OneWay
    <3> QED
      BY <3>1, <3>2
  <2> QED
    BY <1>1, <1>2, <1>4, <2>1 DEF OneWay
<1>13. ASSUME NEW c \in Items PROVE Counted(c)'
  <2>1. Counted(c) /\ c \in Node
    BY <1>2, <1>8
  <2>2. c = b => /\ count[c] \in 0 .. graph.items
                 /\ count'[c] \in {IF count[c] >= graph.items THEN -1 ELSE count[c] + 1, -1}
    <3>1. c = b => count[c] # -1 /\ count[c] \in -1 .. graph.items
      BY <1>4, <1>6, <2>1 DEF Counted
    <3> QED
      BY <1>1, <1>7, <3>1 DEF NextItem
  <2>3. c = b => count'[c] # 0
    BY <1>7, <2>2
  <2>4. c = b => Used(c) + Comes(c) <= (Used(c) + Comes(c))' /\ Used(c)' \in Nat
    <3> SUFFICES ASSUME c = b PROVE Used(c) + Comes(c) <= (Used(c) + Comes(c))' /\ Used(c)' \in Nat
      OBVIOUS
    <3>1. Comes(c) \in {0, 1} /\ Comes(c)' \in {0, 1}
      BY DEF Comes
    <3>2. Used(c) = count[c]
      BY <1>7, <2>2 DEF Used
    <3>3. Used(c)' = IF count'[c] = -1 THEN graph.items + 1 ELSE count'[c]
      BY <1>1 DEF Used
    <3>4. Used(c)' \in Nat /\ Used(c)' >= Used(c) + 1
      BY <1>7, <2>2, <3>2, <3>3
    <3> QED
      BY <1>7, <2>2, <3>1, <3>2, <3>4
  <2>5. count'[c] = 0 => results'[graph.parent[c]] = <<>>
    <3> SUFFICES ASSUME count'[c] = 0 PROVE results'[graph.parent[c]] = <<>>
      OBVIOUS
    <3>1. c # b /\ count[c] = 0
      BY <1>1, <2>1, <2>3
    <3>2. results[graph.parent[c]] = <<>>
      BY <2>1, <3>1 DEF Counted
    <3>3. KindOf(b) = "item" => graph.parent[c] # p
      BY <1>8, <1>9, <3>1
    <3> QED
      BY <1>8, <1>10, <3>2, <3>3
  <2>6. c # b => count'[c] = count[c]
    BY <1>1, <2>1
  <2> HIDE DEF p
  <2> QED
    BY <1>1, <1>2, <1>4, <2>1, <2>3, <2>4, <2>5, <2>6, CountedNext
<1>14. IterationsComplete'
  BY <1>1, <1>2, <1>3 DEF IterationsComplete, Finished
<1> QED
  BY <1>1, <1>2, <1>3, <1>5, <1>10, <1>11, <1>12, <1>13, <1>14 DEF IterInv

(* The _idx of items when the path goes on.                                *)
LEMMA CountedOn ==
  ASSUME IInv, Chain, UNCHANGED <<graph, turns, count, results, ran>>, turns \in Nat,
         NEW b \in Node, NEW d \in Node, Now = {b}, Now' = {d}, ~Waiting, Waiting', Leads(b, d),
         b \in Items => ~err[b], path' = Append(path, d),
         NEW c \in Items, Counted(c)
  PROVE  Counted(c)' /\ Times(path', c) <= turns * (graph.items + 1)
<1> DEFINE p == graph.parent[c]
           T == turns * (graph.items + 1)
<1>1. graph \in Graphs /\ path \in Seq(Node)
  BY DEF IInv, TypeInv, TypeOK
<1>2. /\ c \in Node /\ p \in Node /\ Start(p) = c /\ NoParent \notin Node
      /\ \A e \in Node : e \in Nat
      /\ graph.parent[p] = NoParent /\ graph.parent[c] # NoParent
      /\ KindOf(c) \in {"item", "loopitem"}
  <2>1. c \in Node /\ p \in Node /\ Start(p) = c /\ NoParent \notin Node
    BY <1>1, ChainFacts
  <2>2. graph.parent[p] = NoParent
    BY <1>1, <2>1, ChainFacts
  <2>3. \A e \in Node : e \in Nat
    BY <1>1, ChainFacts
  <2> QED
    BY <2>1, <2>2, <2>3 DEF Items
<1>3. T \in Nat /\ graph.items \in Nat /\ Times(path, c) \in Nat
      /\ Times(path', c) = Times(path, c) + IF c = d THEN 1 ELSE 0
  <2>1. graph.items \in Nat
    BY <1>1, GraphFacts
  <2>2. Times(path, c) \in Nat /\ Times(path', c) = Times(path, c) + IF c = d THEN 1 ELSE 0
    BY <1>1, TimesIn
  <2>3. turns * (graph.items + 1) \in Nat
    BY <2>1
  <2> HIDE DEF T
  <2> QED
    BY <2>1, <2>2, <2>3 DEF T
<1>4. count[c] \in -1 .. graph.items
  BY <1>2 DEF IInv, TypeInv, TypeOK
<1>5. Comes(c) = 0 /\ Comes(c)' = IF c = d THEN 1 ELSE 0
  BY DEF Comes
<1>6. Used(c)' = Used(c)
  BY DEF Used
<1>7. /\ Times(path, c) + graph.items + 1 <= T + Used(c) + 0
      /\ count[c] = 0 => results[p] = <<>>
      /\ Place(b) < p \/ b = p => count[c] = 0
      /\ Place(b) < p => p \notin ran
      /\ graph.parent[b] = p => count[c] # 0 /\ (b # c => count[c] # -1)
  <2>1. /\ Times(path, c) + graph.items + 1 <= turns * (graph.items + 1) + Used(c) + Comes(c)
        /\ count[c] = 0 => results[graph.parent[c]] = <<>>
        /\ \A e \in Now :
             /\ Place(e) < p \/ e = p => count[c] = 0
             /\ Place(e) < p \/ (e = p /\ Waiting) => p \notin ran
             /\ graph.parent[e] = p =>
                  (Comes(c) = 0 => count[c] # 0) /\ (e # c \/ Waiting => count[c] # -1)
    BY DEF Counted
  <2> QED
    BY <1>5, <2>1
<1> HIDE DEF p
<1>8. /\ Place(d) < p \/ d = p => count[c] = 0 /\ p \notin ran
      /\ graph.parent[d] = p => (d # c => count[c] # 0) /\ count[c] # -1
  <2>1. CASE graph.parent[b] = NoParent /\ graph.parent[d] = NoParent /\ b < d
    <3>1. Place(b) = b /\ Place(d) = d
      BY <2>1 DEF Place
    <3>2. Place(d) < p \/ d = p => Place(b) < p
      BY <1>2, <2>1, <3>1
    <3>3. graph.parent[d] # p
      BY <1>2, <2>1
    <3> QED
      BY <1>7, <3>2, <3>3
  <2>2. CASE graph.parent[b] = NoParent /\ d = Start(b) /\ graph.parent[d] = b
    <3>1. Place(b) = b /\ Place(d) = b
      BY <1>2, <2>2 DEF Place
    <3>2. d # p
      BY <1>2, <2>2
    <3>3. graph.parent[d] = p => b = p /\ d = c
      BY <1>2, <2>2
    <3>4. /\ Place(d) < p \/ d = p => count[c] = 0 /\ p \notin ran
          /\ graph.parent[d] = p => d = c /\ count[c] = 0
      BY <1>7, <3>1, <3>2, <3>3
    <3> QED
      BY <3>4
  <2>3. CASE graph.parent[b] # NoParent /\ graph.parent[d] = graph.parent[b] /\ ~Ended(b)
    <3>1. Place(b) = graph.parent[b] /\ Place(d) = Place(b)
      BY <2>3 DEF Place
    <3>2. d # p
      BY <1>2, <2>3
    <3>3. graph.parent[d] = p => count[c] # 0 /\ count[c] # -1
      <4>1. b = c => count[c] # -1
        BY <1>2, <2>3 DEF Ended
      <4> QED
        BY <1>7, <2>3, <4>1
    <3>4. Place(d) < p \/ d = p => count[c] = 0 /\ p \notin ran
      BY <1>7, <3>1, <3>2
    <3> QED
      BY <3>3, <3>4
  <2>4. CASE graph.parent[b] # NoParent /\ graph.parent[d] = NoParent /\ graph.parent[b] < d
    <3>1. Place(b) = graph.parent[b] /\ Place(d) = d /\ graph.parent[b] \in Nat
      <4>1. graph.parent[b] \in Node
        BY <1>1, <2>4, ChainFacts
      <4> QED
        BY <1>2, <2>4, <4>1 DEF Place
    <3>2. Place(d) < p \/ d = p => Place(b) < p
      BY <1>2, <2>4, <3>1
    <3>3. graph.parent[d] # p
      BY <1>2, <2>4
    <3> QED
      BY <1>7, <3>2, <3>3
  <2> QED
    BY <2>1, <2>2, <2>3, <2>4 DEF Leads
<1>9. /\ Times(path', c) + graph.items + 1 <= T + Used(c)' + Comes(c)'
      /\ Times(path', c) <= T
  <2> DEFINE t == Times(path, c)
             u == Used(c)
             e == IF c = d THEN 1 ELSE 0
  <2>1. c = d => count[c] # -1
    BY <1>8 DEF p
  <2>2. u \in 0 .. graph.items + 1 /\ (c = d => u <= graph.items)
    BY <1>3, <1>4, <2>1 DEF Used
  <2>3. t \in Nat /\ t + graph.items + 1 <= T + u + 0 /\ Times(path', c) = t + e
    BY <1>3, <1>7
  <2> HIDE DEF t, u, T
  <2>4. t + e + graph.items + 1 <= T + u + e /\ t + e <= T
    BY <1>3, <2>2, <2>3
  <2> QED
    BY <1>5, <1>6, <2>3, <2>4 DEF u
<1>10. Place(d)' = Place(d)
  BY DEF Place
<1>11. (Times(path, c) + graph.items + 1 <= turns * (graph.items + 1) + Used(c) + Comes(c))'
  BY <1>9 DEF Times, T
<1>12. \A e \in Now' :
         /\ Place(e)' < p \/ e = p => count[c] = 0
         /\ Place(e)' < p \/ e = p => p \notin ran
         /\ graph.parent[e] = p => (e # c => count[c] # 0) /\ count[c] # -1
  BY <1>8, <1>10
<1>13. Comes(c)' = 0 => \A e \in Now' : e # c
  BY DEF Comes
<1> HIDE DEF T
<1>14. Counted(c)'
  BY <1>7, <1>11, <1>12, <1>13 DEF Counted, p
<1> QED
  BY <1>9, <1>14 DEF T

(* Where the path goes in the body of an iteration in order: to the next   *)
(* component, and from the last one to the item.                           *)
LEMMA OrderNext ==
  ASSUME TypeInv, Chain, NEW q \in Node, InOrder(q), NEW b \in Body(q), ~Ended(b)
  PROVE  \E d \in Body(q) :
           /\ Successors(b) = <<d>> /\ d # b
           /\ \/ b < d /\ \A e \in Body(q) : e <= b \/ d <= e
              \/ d = Start(q) /\ \A e \in Body(q) : e <= b
<1> DEFINE s == Start(q)
<1>1. graph \in Graphs
  BY DEF TypeInv
<1>2. /\ KindOf(s) = "item" /\ KindOf(q) = "iteration" /\ graph.collect[q] \in Body(q) \ {s}
      /\ \A c \in Body(q) : c # s => s < c /\ KindOf(c) = "plain"
      /\ \/ graph.down[b] = <<>> /\ \A e \in Body(q) : e <= b
         \/ \E d \in Body(q) : /\ graph.down[b] = <<d>> /\ b < d
                               /\ \A e \in Body(q) : e <= b \/ d <= e
  BY DEF InOrder
<1>3. s \in Body(q) /\ b \in Node /\ graph.parent[b] = q /\ q # NoParent
      /\ \A c \in Body(q) : c \in Nat
  <2>1. s \in Items /\ graph.parent[s] = q /\ NoParent \notin Node /\ \A c \in Node : c \in Nat
    BY <1>1, <1>2, ChainFacts
  <2> QED
    BY <2>1 DEF Body, Items
<1> HIDE DEF s
<1>4. KindOf(b) \in {"item", "plain"}
  BY <1>2
<1>5. ~Ended(b) /\ ~Exits(b) /\ KindOf(b) \notin {"switch", "iteration", "loop"}
  BY <1>4 DEF Exits
<1>6. CASE graph.down[b] = <<>> /\ \A e \in Body(q) : e <= b
  <2>1. Successors(b) = <<Start(graph.parent[b])>>
    BY <1>3, <1>5, <1>6 DEF Successors
  <2>2. s # b
    BY <1>2, <1>3, <1>6
  <2> QED
    BY <1>3, <1>6, <2>1, <2>2 DEF s
<1>7. ASSUME NEW d \in Body(q), graph.down[b] = <<d>>, b < d,
             \A e \in Body(q) : e <= b \/ d <= e
      PROVE  Successors(b) = <<d>> /\ d # b
  <2>1. graph.down[b] # <<>>
    BY <1>7
  <2>2. Successors(b) = graph.down[b]
    BY <1>5, <2>1 DEF Successors
  <2>3. d # b
    BY <1>3, <1>7
  <2> QED
    BY <1>7, <2>2, <2>3
<1> QED
  BY <1>2, <1>6, <1>7

(* An iteration that is run in order, when the path goes on.               *)
LEMMA GatheringOn ==
  ASSUME IInv, Chain, UNCHANGED <<graph, out, count, results, ran, failed, misled>>,
         NEW b \in Node, NEW d \in Node, Now = {b}, Now' = {d}, ~Waiting, Waiting', Leads(b, d),
         Successors(b) = <<d>>, Walked' = Walked \cup {b}, \A c \in Items : Counted(c),
         NEW q \in Node, InOrder(q), Gathering(q)
  PROVE  Gathering(q)'
<1> DEFINE s == Start(q)
<1>1. /\ \A c : Start(c)' = Start(c) /\ Body(c)' = Body(c)
      /\ (\A n : Gathered(n)' = Gathered(n)) /\ (Clean' <=> Clean)
  <2>1. Clean' <=> Clean
    BY DEF Clean
  <2> QED
    BY <2>1, SameChain
<1>2. TypeInv /\ graph \in Graphs
  BY DEF IInv, TypeInv
<1>3. /\ KindOf(q) = "iteration" /\ KindOf(s) = "item"
      /\ \A c \in Body(q) : c # s => s < c
  BY DEF InOrder
<1>4. /\ s \in Items /\ s \in Node /\ graph.parent[s] = q /\ graph.parent[q] = NoParent
      /\ NoParent \notin Node /\ \A c \in Node : c \in Nat
      /\ \A c \in Items : Start(graph.parent[c]) = c
  <2>1. /\ s \in Items /\ graph.parent[s] = q /\ graph.parent[q] = NoParent
        /\ NoParent \notin Node /\ \A c \in Node : c \in Nat
        /\ \A c \in Items : Start(graph.parent[c]) = c
    BY <1>2, <1>3, ChainFacts
  <2> QED
    BY <2>1 DEF Items
<1>5. Body(q) \subseteq Node /\ s \in Body(q) /\ q \notin Body(q)
  BY <1>4 DEF Body
<1>6. /\ \A c \in Now \cap Body(q) : \A e \in Body(q) : e < c => e \in Walked
      /\ Clean => /\ results[q] = Gathered(count[s])
                  /\ q \in ran => count[s] = -1 \/ q \in Now \/ Now \cap Body(q) # {}
                  /\ \A c \in Now \cap Body(q) : count[s] > 0 =>
                       \A e \in Body(q) : Fresh(c, e, s) => out[e] = count[s]
  BY DEF Gathering
<1>7. /\ \A x, e, y : Fresh(x, e, y) <=> e < x \/ e = x
      /\ \A x, e, y : Fresh(x, e, y)' <=> e < x \/ x = y
  BY DEF Fresh
<1>8. b = q => d = s /\ count[s] = 0
  <2>1. b = q => d = s
    BY <1>3, <1>4 DEF Leads
  <2>2. b = q => count[s] = 0
    <3>1. Counted(s)
      BY <1>4
    <3> QED
      BY <1>4, <3>1 DEF Counted
  <2> QED
    BY <2>1, <2>2
<1>9. b \in Body(q) /\ Ended(b) => b = s /\ count[s] = -1 /\ d \notin Body(q)
  <2> SUFFICES ASSUME b \in Body(q), Ended(b) PROVE b = s /\ count[s] = -1 /\ d \notin Body(q)
    OBVIOUS
  <2>1. b \in Items /\ count[b] = -1 /\ graph.parent[b] = q
    BY DEF Ended, Items, Body
  <2>2. b = s
    BY <1>4, <2>1
  <2>3. graph.parent[d] = NoParent
    BY <1>4, <2>1 DEF Leads
  <2>4. q # NoParent
    BY <1>4
  <2> QED
    BY <2>1, <2>2, <2>3, <2>4 DEF Body
<1>10. b \in Body(q) /\ ~Ended(b) =>
         /\ d \in Body(q)
         /\ \/ b < d /\ \A e \in Body(q) : e <= b \/ d <= e
            \/ d = s /\ \A e \in Body(q) : e <= b
  <2> SUFFICES ASSUME b \in Body(q), ~Ended(b)
               PROVE  /\ d \in Body(q)
                      /\ \/ b < d /\ \A e \in Body(q) : e <= b \/ d <= e
                         \/ d = s /\ \A e \in Body(q) : e <= b
    OBVIOUS
  <2>1. PICK e \in Body(q) :
          /\ Successors(b) = <<e>> /\ e # b
          /\ \/ b < e /\ \A f \in Body(q) : f <= b \/ e <= f
             \/ e = Start(q) /\ \A f \in Body(q) : f <= b
    BY <1>2, OrderNext
  <2>2. e = d
    BY <2>1
  <2> QED
    BY <2>1, <2>2
<1>11. d \in Body(q) => b = q \/ b \in Body(q)
  <2> SUFFICES ASSUME d \in Body(q) PROVE b = q \/ b \in Body(q)
    OBVIOUS
  <2>1. graph.parent[d] = q /\ q # NoParent
    BY <1>4 DEF Body
  <2> QED
    BY <2>1 DEF Leads, Body
<1> HIDE DEF s
<1>12. ASSUME d \in Body(q), NEW e \in Body(q), e < d PROVE e \in Walked \cup {b}
  <2>1. /\ b \in Nat /\ d \in Nat /\ e \in Nat /\ s \in Nat
    BY <1>4, <1>5
  <2>2. d # s
    BY <1>3, <1>12, <2>1
  <2>3. b \in Body(q) /\ ~Ended(b)
    BY <1>8, <1>9, <1>11, <1>12, <2>2
  <2>4. e <= b
    BY <1>10, <1>12, <2>1, <2>2, <2>3
  <2>5. e < b \/ e = b
    BY <2>1, <2>4
  <2> QED
    BY <1>6, <2>3, <2>5
<1>13. ASSUME Clean, q \in ran PROVE count[s] = -1 \/ d \in Body(q)
  BY <1>5, <1>6, <1>8, <1>9, <1>10, <1>13
<1>14. ASSUME Clean, d \in Body(q), count[s] > 0, NEW e \in Body(q), e < d \/ d = s
       PROVE  out[e] = count[s]
  <2>1. /\ b \in Nat /\ d \in Nat /\ e \in Nat /\ s \in Nat
    BY <1>4, <1>5
  <2>2. b \in Body(q) /\ ~Ended(b)
    BY <1>8, <1>9, <1>11, <1>14
  <2>3. e <= b
    <3>1. CASE b < d /\ \A f \in Body(q) : f <= b \/ d <= f
      <4>1. d # s
        <5>1. b = s \/ s < b
          BY <1>3, <2>2
        <5> QED
          BY <2>1, <3>1, <5>1
      <4> QED
        BY <1>14, <2>1, <3>1, <4>1
    <3>2. CASE d = s /\ \A f \in Body(q) : f <= b
      BY <3>2
    <3> QED
      BY <1>10, <2>2, <3>1, <3>2
  <2>4. e < b \/ e = b
    BY <2>1, <2>3
  <2> QED
    BY <1>6, <1>7, <1>14, <2>2, <2>4
<1> QED
  BY <1>1, <1>6, <1>7, <1>12, <1>13, <1>14 DEF Gathering, s

(* The path goes on from the one component of the batch to another.        *)
LEMMA IterContinue == IInv /\ IterInv /\ PostContinue => IterInv'
<1> SUFFICES ASSUME IInv, IterInv, PostContinue, Chain PROVE IterInv'
  <2>1. PostContinue => graph' = graph
    BY DEF PostContinue, Posted
  <2> QED
    BY <2>1, SameChain DEF IterInv
<1> DEFINE b == path[idx + 1]
<1>1. /\ phase = "run" /\ todo = {} /\ phase' = "batch" /\ Broken = {} /\ Pending # <<>>
      /\ path' = Extended /\ idx' = Len(path)
      /\ graph' = graph /\ out' = out /\ results' = results /\ count' = count /\ next' = next
      /\ saved' = saved /\ last' = last /\ ran' = ran /\ failed' = failed /\ misled' = misled
      /\ turns' = turns
  BY DEF PostContinue, Posted, data, bounds
<1>2. /\ turns \in Nat /\ last # "paused"
      /\ results \in [Node -> Seq(Int)] /\ saved.results \in [Node -> Seq(Int)]
      /\ \A c \in Node : /\ Len(next[c]) <= 1 /\ Range(next[c]) \subseteq Range(graph.down[c])
                         /\ saved.results[c] # <<>> => c \in Range(saved.path)
      /\ \A c \in Items : Times(saved.path, c) <= turns * (graph.items + 1)
      /\ OneWay /\ (\A c \in Items : Counted(c)) /\ (\A q \in Node : InOrder(q) => Gathering(q))
  BY <1>1 DEF IterInv
<1>3. /\ Chain' /\ Items' = Items
      /\ \A c : /\ KindOf(c)' = KindOf(c) /\ (InOrder(c)' <=> InOrder(c))
                /\ Handled(c)' = Handled(c)
  BY <1>1, SameChain
<1>4. TypeInv /\ graph \in Graphs
  BY DEF IInv, TypeInv
<1>5. path \in Seq(Node) /\ idx \in Nat /\ Len(path) \in Nat
  BY <1>4 DEF TypeInv, TypeOK
<1>6. Len(path) <= idx + 1 /\ turns # 0
      /\ (\A p \in Node : results[p] # <<>> => p \in Walked)
      /\ (\A e \in Now : graph.parent[e] # NoParent => graph.parent[e] \in Walked)
  BY <1>2 DEF OneWay
<1>7. /\ Extended # path => /\ Len(path) = idx + 1
                            /\ \E d \in Node : Extended = Append(path, d) /\ Leads(b, d)
                                                 /\ Successors(b) = <<d>>
      /\ Pending = <<>> <=> Extended = path
  BY <1>1, <1>2, <1>4, <1>6, ChainPending
<1>8. PICK d \in Node : Extended = Append(path, d) /\ Leads(b, d) /\ Successors(b) = <<d>>
  BY <1>1, <1>7
<1>9. /\ Len(path) = idx + 1 /\ b \in Node /\ Now = {b} /\ Batch = {b}
  <2>1. Len(path) = idx + 1
    BY <1>1, <1>7
  <2> QED
    BY <1>1, <1>4, <1>6, <2>1, OneBatch
<1>10. /\ path' \in Seq(Node) /\ Len(path') = Len(path) + 1 /\ path'[Len(path) + 1] = d
       /\ \A j \in 1 .. Len(path) : path'[j] = path[j]
  BY <1>1, <1>5, <1>8, Appending
<1>11. Now' = {d}
  <2>1. Len(path) + 1 .. Len(path) + 1 = {Len(path) + 1}
    BY <1>5
  <2>2. Now' = {path'[j] : j \in Len(path) + 1 .. Len(path) + 1}
    BY <1>1, <1>10 DEF Now
  <2> QED
    BY <1>10, <2>1, <2>2
<1>12. Walked' = Walked \cup {b}
  <2>1. Walked' = {path[j] : j \in 1 .. Len(path)}
    BY <1>1, <1>10 DEF Walked
  <2>2. \A j : j \in 1 .. Len(path) <=> j \in 1 .. idx \/ j = idx + 1
    BY <1>5, <1>9
  <2> QED
    BY <2>1, <2>2 DEF Walked
<1>13. ~Waiting /\ Waiting'
  BY <1>1 DEF Waiting
<1>14. b \in Items => ~err[b]
  <2>1. b \in Items => ~Handled(b)
    BY <1>4, <1>9, ChainFacts DEF Handled
  <2> QED
    BY <1>1, <1>9, <2>1 DEF Broken
<1> HIDE DEF b
<1>15. path' = Append(path, d)
  BY <1>1, <1>8
<1>16. \A c \in Items : Counted(c)' /\ Times(path', c) <= turns * (graph.items + 1)
  <2> TAKE c \in Items
  <2>1. Counted(c) /\ b \in Node /\ Leads(b, d) /\ Now = {b}
    BY <1>2, <1>8, <1>9
  <2> QED
    BY <1>1, <1>2, <1>11, <1>13, <1>14, <1>15, <2>1, CountedOn
<1>17. \A q \in Node : InOrder(q) => Gathering(q)'
  <2> TAKE q \in Node
  <2> SUFFICES ASSUME InOrder(q) PROVE Gathering(q)'
    OBVIOUS
  <2>1. Gathering(q) /\ b \in Node /\ Leads(b, d) /\ Now = {b} /\ Successors(b) = <<d>>
    BY <1>2, <1>8, <1>9
  <2> QED
    BY <1>1, <1>2, <1>11, <1>12, <1>13, <2>1, GatheringOn
<1>18. OneWay'
  <2>1. graph.parent[d] # NoParent => graph.parent[d] \in Walked \cup {b}
    <3>1. graph.parent[b] # NoParent => graph.parent[b] \in Walked
      BY <1>6, <1>9
    <3> QED
      BY <1>8, <3>1 DEF Leads
  <2>2. Len(path') = idx' + 1
    BY <1>1, <1>10
  <2>3. Len(path') <= idx' + 1
    BY <1>5, <1>10, <2>2
  <2> QED
    BY <1>1, <1>6, <1>11, <1>12, <2>1, <2>2, <2>3 DEF OneWay
<1>19. IterationsComplete'
  BY <1>1, <1>3, <1>16 DEF IterationsComplete, Finished, Items, Times
<1> QED
  BY <1>1, <1>2, <1>3, <1>16, <1>17, <1>18, <1>19 DEF IterInv

(* A turn that is finished has come out of the iterations that it came to. *)
LEMMA IterDone == IInv /\ LostInv /\ IterInv /\ PostFinish => IterInv'
<1> SUFFICES ASSUME IInv, LostInv, IterInv, PostFinish PROVE IterInv'
  OBVIOUS
<1>1. /\ phase = "run" /\ todo = {} /\ phase' = "idle" /\ Pending = <<>> /\ path' = path
      /\ saved'.path = path /\ saved'.results = results /\ last' = "finished"
      /\ UNCHANGED <<graph, results, next, turns, count, ran, failed, misled>>
  BY DEF PostFinish, Posted, Save, data, bounds
<1>2. TypeInv /\ graph \in Graphs
  BY DEF IInv, TypeInv
<1>3. path \in Seq(Node) /\ idx \in Nat /\ idx <= Len(path) /\ Len(path) \in Nat
  BY <1>1, <1>2 DEF TypeInv, TypeOK
<1>4. Walked \subseteq Range(path')
  <2>1. \A j \in 1 .. idx : j \in DOMAIN path
    BY <1>3
  <2> QED
    BY <1>1, <2>1 DEF Walked, Range
<1>5. ASSUME Chain, Clean', NEW q \in ran', InOrder(q)
      PROVE  results[q] = [j \in 1 .. graph.items |-> j]
  <2> DEFINE b == path[idx + 1]
             s == Start(q)
  <2>1. /\ \A c \in Node : Len(next[c]) <= 1 /\ Range(next[c]) \subseteq Range(graph.down[c])
        /\ OneWay /\ (\A p \in Node : InOrder(p) => Gathering(p))
    BY <1>1, <1>5 DEF IterInv
  <2>2. Len(path) <= idx + 1
    BY <2>1 DEF OneWay
  <2>3. /\ Len(path) = idx + 1 =>
             \A d \in Node : Successors(b) = <<d>> /\ d # b => Extended = Append(path, d)
        /\ Extended = path
    BY <1>1, <1>2, <1>5, <2>1, <2>2, ChainPending
  <2>4. /\ Len(path) = idx \/ Len(path) = idx + 1
        /\ Len(path) = idx => Now = {}
        /\ Len(path) = idx + 1 => Now = {b} /\ b \in Node
    BY <1>1, <1>2, <2>2, OneBatch
  <2>5. \A d \in Node : Now = {b} => ~(Successors(b) = <<d>> /\ d # b)
    <3> TAKE d \in Node
    <3>1. Append(path, d) # path
      <4>1. Len(Append(path, d)) = Len(path) + 1
        BY <1>3, Appending
      <4> QED
        BY <1>3, <4>1
    <3> QED
      BY <2>3, <2>4, <3>1
  <2>6. q \in Node /\ Clean /\ q \in ran
    <3>1. ran \subseteq Node
      BY DEF LostInv
    <3> QED
      BY <1>1, <1>5, <3>1 DEF Clean
  <2>7. /\ results[q] = Gathered(count[s])
        /\ count[s] = -1 \/ q \in Now \/ Now \cap Body(q) # {}
    BY <1>5, <2>1, <2>6 DEF Gathering
  <2>8. KindOf(q) = "iteration"
    BY <1>5 DEF InOrder
  <2>9. s \in Items /\ s \in Node /\ graph.parent[s] = q /\ graph.parent[q] = NoParent
        /\ NoParent \notin Node
    BY <1>2, <1>5, <2>6, <2>8, ChainFacts DEF Items
  <2>10. q \notin Now
    <3> SUFFICES ASSUME q \in Now PROVE FALSE
      OBVIOUS
    <3>1. Now = {b} /\ b = q
      BY <2>4
    <3>2. Successors(q) = <<s>>
      BY <2>8 DEF Successors, Ended, Exits
    <3>3. s # q
      BY <2>6, <2>9
    <3> QED
      BY <2>5, <2>9, <3>1, <3>2, <3>3
  <2>11. Now \cap Body(q) # {} => count[s] = -1
    <3> SUFFICES ASSUME NEW c \in Now \cap Body(q) PROVE count[s] = -1
      OBVIOUS
    <3>1. Now = {b} /\ b = c /\ b \in Body(q) /\ b \in Node
      BY <2>4
    <3>2. CASE Ended(b)
      <4>1. b \in Items /\ graph.parent[b] = q /\ count[b] = -1
        BY <3>1, <3>2 DEF Ended, Items, Body
      <4>2. b = s
        BY <1>2, <1>5, <4>1, ChainFacts
      <4> QED
        BY <4>1, <4>2
    <3>3. CASE ~Ended(b)
      <4>1. PICK d \in Body(q) : Successors(b) = <<d>> /\ d # b
        BY <1>2, <1>5, <2>6, <3>1, <3>3, OrderNext
      <4>2. d \in Node
        BY DEF Body
      <4> QED
        BY <2>5, <3>1, <4>1, <4>2
    <3> QED
      BY <3>2, <3>3
  <2>12. count[s] = -1
    BY <2>7, <2>10, <2>11
  <2> QED
    BY <2>7, <2>12 DEF Gathered
<1> QED
  BY <1>1, <1>4, <1>5, IterEnd

(* In a graph without forms nobody is asked.                               *)
LEMMA NobodyAsked == ASSUME TypeInv, Chain PROVE ~Asks
<1>1. Pending \in Seq(Node) /\ graph \in Graphs
  BY PendingIn DEF TypeInv
<1>2. \A s : s \in Seq(Node) => Range(s) \subseteq Node
  BY DEF Range
<1>3. \A c \in Node : KindOf(c) # "fillup"
  BY <1>1, ChainFacts
<1> QED
  BY <1>1, <1>2, <1>3 DEF Asks

(* A turn that fails or raises.                                            *)
LEMMA IterBreaks == IInv /\ IterInv /\ (Canceled \/ PostRaise \/ PostError) => IterInv'
<1> SUFFICES ASSUME IInv, IterInv, Canceled \/ PostRaise \/ PostError PROVE IterInv'
  OBVIOUS
<1>1. CASE Canceled \/ PostRaise
  <2>1. /\ phase # "idle" /\ phase' = "idle" /\ last' = "raised" /\ path' = path /\ saved' = saved
        /\ UNCHANGED <<graph, results, next, turns>>
    BY <1>1 DEF Canceled, PostRaise, Raise, data, bounds
  <2> QED
    BY <2>1, IterEnd
<1>2. CASE PostError
  <2>1. /\ phase = "run" /\ phase' = "idle" /\ last' = "failed" /\ path' = SubSeq(path, 1, idx)
        /\ saved'.path = path' /\ saved'.results = results
        /\ UNCHANGED <<graph, results, next, turns>>
    BY <1>2 DEF PostError, Posted, Save, data, bounds
  <2>2. path \in Seq(Node) /\ idx \in Nat /\ idx <= Len(path) /\ Len(path) \in Nat
    BY <2>1 DEF IInv, TypeInv, TypeOK
  <2>3. path' \in Seq(Node) /\ Len(path') = idx /\ \A j \in 1 .. idx : path'[j] = path[j]
    <3>1. 1 \in Int /\ idx \in Int /\ (1 <= idx \/ idx = 0) /\ \A j \in 1 .. idx : path[j] \in Node
      BY <2>2
    <3> QED
      BY <2>1, <3>1, SubSeqProperties
  <2>4. Walked \subseteq Range(path')
    BY <2>3 DEF Walked, Range
  <2>5. idx \in 0 .. Len(path)
    BY <2>2
  <2> QED
    BY <2>1, <2>4, <2>5, IterEnd
<1> QED
  BY <1>1, <1>2

(* Every step of a session keeps the invariant of IterationsComplete.      *)
THEOREM IterNext == IInv /\ LostInv /\ IterInv /\ [Next]_vars => IterInv'
<1> SUFFICES ASSUME IInv, LostInv, IterInv, [Next]_vars PROVE IterInv'
  OBVIOUS
<1>1. CASE Turn
  BY <1>1, IterTurn
<1>2. CASE Canceled \/ PostRaise \/ PostError
  BY <1>2, IterBreaks
<1>3. CASE Prepare
  BY <1>3, IterPrepare
<1>4. CASE \E i \in todo : Run(i) \/ Fail(i)
  BY <1>4, IterRun, IterFail
<1>5. CASE PostPause
  <2>1. graph' = graph /\ Asks
    BY <1>5 DEF PostPause, Posted
  <2>2. ~Chain
    BY <2>1, NobodyAsked DEF IInv
  <2> QED
    BY <2>1, <2>2, SameChain DEF IterInv
<1>6. CASE PostFinish
  BY <1>6, IterDone
<1>7. CASE PostContinue
  BY <1>7, IterContinue
<1>8. CASE Cancel \/ Expire \/ UNCHANGED vars
  BY <1>8, IterCancel
<1> QED
  BY <1>1, <1>2, <1>3, <1>4, <1>5, <1>6, <1>7, <1>8 DEF Next, Step

(* What is gathered, and how often the items of a chain have run, in every *)
(* state of a session.                                                     *)
THEOREM IterationInvariant == Spec => []IterInv
<1>1. Init => IterInv
  BY IterInit
<1>2. IInv /\ LostInv /\ IterInv /\ [Next]_vars => IterInv'
  BY IterNext
<1> QED
  BY <1>1, <1>2, CanvasInvariant, LostInvariant, PTL DEF Spec

(* In a chain an item comes up once for each element and once more in a    *)
(* turn, and an iteration that is run in order has gathered what its body  *)
(* made of every element, in order, when the turn is finished.             *)
THEOREM IterationsAreComplete == Spec => []IterationsComplete
<1>1. IterInv => IterationsComplete
  BY DEF IterInv, IterationsComplete
<1> QED
  BY <1>1, IterationInvariant, PTL
=============================================================================
