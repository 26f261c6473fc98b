------------------------------ MODULE CanvasRun ------------------------------
(***************************************************************************)
(* A session of an agent: Canvas.run is called once for each message of    *)
(* the user and runs the components of a graph, batch by batch, along a    *)
(* path that grows while it is walked.  The components of a batch run      *)
(* concurrently.  Between two turns the canvas is saved with the session:  *)
(* its path, and the outputs and errors of its components.                 *)
(*                                                                         *)
(* What a component makes is abstracted to a number: 0 is nothing, -1 what *)
(* it made in an earlier round, and otherwise the smallest of what its     *)
(* references have, where an iteration item has the number of its element. *)
(***************************************************************************)
EXTENDS Integers, SequencesExt, FiniteSetsExt

CONSTANTS
  Node,       \* components; edges outside of loops go to larger numbers
  Graphs,     \* set of graphs, see GraphAssumption
  NoParent,   \* the parent of a component outside of iterations and loops
  TurnsOf,    \* bound on the messages of the user, for each graph
  MaxFaults   \* bound on failures of components and cancellations

Begin == 0
Kind == {"begin", "plain", "switch", "fillup", "iteration", "item", "loop", "loopitem", "exitloop"}

(* down: downstream, in order.  refs: the components that a component      *)
(* refers to, text: it does so in a text, which _run_batch checks.  goto,  *)
(* default: its exception handler.  collect: the body component whose      *)
(* outputs an iteration gathers.  items: the length of the array, or       *)
(* maximum_loop_count.  Whatever has a body has an item to start it with.  *)
ASSUME GraphAssumption ==
  /\ Node \subseteq Nat /\ Begin \in Node /\ NoParent \notin Node
  /\ Graphs \subseteq [kind : [Node -> Kind], down : [Node -> Seq(Node)],
                       refs : [Node -> SUBSET Node], text : SUBSET Node,
                       goto : [Node -> Seq(Node)], default : SUBSET Node,
                       parent : [Node -> Node \cup {NoParent}],
                       collect : [Node -> Node], items : Nat \ {0}]
  /\ \A g \in Graphs :
       /\ g.kind[Begin] = "begin"
       /\ \A c \in Node :
            /\ g.kind[c] \in {"item", "loopitem", "exitloop"} => g.parent[c] # NoParent
            /\ g.kind[c] \in {"iteration", "loop"} \/ (\E d \in Node : g.parent[d] = c) =>
                 \E d \in Node : g.parent[d] = c /\ g.kind[d] \in {"item", "loopitem"}
  /\ TurnsOf \in [Graphs -> Nat]

VARIABLES
  graph,
  phase,     \* "idle" between two turns, then "batch", "run"
  path, idx, \* as in _run_impl
  todo,      \* positions of the batch whose component has not finished
  out, err,  \* the output and the _ERROR of the components
  results,   \* what iterations have gathered
  count,     \* _idx of items, which is not saved
  next,      \* what a switch chose
  canceled,  \* the cancel flag of the session in Redis
  saved,     \* the canvas in the session
  answers,   \* the user fills in the form in this turn
  (* history; a round is the turns up to one that does not pause *)
  last,      \* how the last turn ended
  ran, twice,\* components that ran in this round, or more than once
  blind,     \* components that ran without what they refer to
  failed,    \* components that failed in this round
  misled,    \* components that ran without an error and still have one
  poisoned,  \* components whose error was saved outside of the path
  midway,    \* a round started with a user fill-up
  turns, faults

flow == <<phase, path, idx, todo>>
data == <<out, err, results, count, next>>
roundVars == <<ran, twice, blind, failed, misled, poisoned, midway>>
bounds == <<turns, faults>>
vars == <<graph, flow, data, canceled, saved, answers, last, roundVars, bounds>>

-----------------------------------------------------------------------------
KindOf(c) == graph.kind[c]
Start(p) == CHOOSE c \in Node : graph.parent[c] = p /\ KindOf(c) \in {"item", "loopitem"}
From(s, i) == SubSeq(s, i, Len(s))
IsResume(p) == p # <<>> /\ KindOf(Head(p)) = "fillup"

Zero == [c \in Node |-> 0]
Nobody == [c \in Node |-> FALSE]

Init ==
  /\ graph \in Graphs
  /\ phase = "idle" /\ path = <<>> /\ idx = 0 /\ todo = {}
  /\ out = Zero /\ err = Nobody /\ results = [c \in Node |-> <<>>]
  /\ count = Zero /\ next = [c \in Node |-> <<>>]
  /\ canceled = FALSE /\ answers = FALSE /\ last = "finished"
  /\ saved = [path |-> <<>>, out |-> out, err |-> err, results |-> results]
  /\ ran = {} /\ twice = {} /\ blind = {} /\ failed = {} /\ misled = {} /\ poisoned = {}
  /\ midway = FALSE
  /\ turns = 0 /\ faults = 0

-----------------------------------------------------------------------------
(* Mutation of Reset: errors stay.                                         *)
ResetOutputs(p, e) == e

(* The components of the path are reset, the others keep their errors.     *)
Reset(p, e) == [c \in Node |-> e[c] /\ c \notin Range(p)]

(* A message of the user: the canvas is loaded from the session.  Outside  *)
(* the path, what was made in an earlier round is old.                     *)
Turn ==
  /\ phase = "idle" /\ turns < TurnsOf[graph] /\ turns' = turns + 1
  /\ LET p == saved.path
         resume == IsResume(p)
         paused == last = "paused"
         onPath(c) == c \in Range(p)
         AsOld(v) == IF v # 0 /\ ~paused THEN -1 ELSE v
     IN /\ path' = (IF resume THEN p ELSE Append(p, Begin))
        /\ idx' = (IF resume THEN 0 ELSE Len(p))
        /\ out' = [c \in Node |-> IF onPath(c) THEN 0 ELSE AsOld(saved.out[c])]
        /\ err' = Reset(p, saved.err)
        /\ results' = [c \in Node |-> IF onPath(c) THEN <<>> ELSE saved.results[c]]
        /\ answers' = paused
        /\ ran' = (IF paused THEN ran ELSE {}) /\ twice' = (IF paused THEN twice ELSE {})
        /\ blind' = (IF paused THEN blind ELSE {}) /\ misled' = (IF paused THEN misled ELSE {})
        /\ failed' = (IF paused THEN failed ELSE {})
        /\ midway' = ((resume /\ ~paused) \/ (paused /\ midway))
  /\ count' = Zero /\ next' = [c \in Node |-> <<>>]
  /\ phase' = "batch" /\ todo' = {}
  /\ UNCHANGED <<graph, canceled, saved, last, poisoned, faults>>

(* An exception leaves the run: nothing is saved, and the session is       *)
(* canceled.                                                               *)
Raise ==
  /\ phase' = "idle" /\ todo' = {} /\ canceled' = TRUE /\ last' = "raised"
  /\ UNCHANGED <<graph, path, idx, data, saved, answers, roundVars, bounds>>

Canceled == phase = "batch" /\ canceled /\ Raise

-----------------------------------------------------------------------------
(* Mutation of Waits: a reference need not have been reached.              *)
WaitsNever(p, c) == FALSE

(* Whether _run_batch drops a component that comes after p.                *)
Waits(p, c) ==
  /\ KindOf(c) \notin {"begin", "fillup"} /\ c \in graph.text
  /\ \E r \in graph.refs[c] : r \notin Range(p)
  /\ ~ IsResume(p)

(* The batch begins: what it keeps is started.                             *)
Prepare ==
  /\ phase = "batch" /\ ~canceled /\ phase' = "run"
  /\ path' = FoldLeft(LAMBDA p, c : IF Waits(p, c) THEN p ELSE Append(p, c),
                      SubSeq(path, 1, idx), From(path, idx + 1))
  /\ todo' = idx + 1 .. Len(path')
  /\ UNCHANGED <<graph, idx, data, canceled, saved, answers, last, roundVars, bounds>>

-----------------------------------------------------------------------------
(* Mutation of Gathers: the last element is not gathered.                  *)
GathersEarly(c) == count[c] > 0 /\ count[c] < graph.items

(* An item first gathers what the body made of the element before.         *)
Gathers(c) == count[c] > 0

(* Mutation of NextItem: the end is noticed one element too late.          *)
NextItemLate(n) == IF n > graph.items THEN -1 ELSE n + 1

(* Mutation of NextItem: the end is not remembered.                        *)
NextItemAgain(n) == IF n >= graph.items THEN 0 ELSE n + 1

NextItem(n) == IF n >= graph.items THEN -1 ELSE n + 1

Made(c) ==
  IF KindOf(c) = "fillup" /\ ~answers THEN 0
  ELSE IF graph.refs[c] = {} THEN 1
  ELSE Min({out[r] : r \in graph.refs[c]})

(* The element of an item: Python's arr[-1] is the last one.               *)
Element(n) == IF n = -1 THEN graph.items ELSE n + 1

Missing(c) ==
  IF KindOf(c) = "fillup" THEN ~answers ELSE \E r \in graph.refs[c] \ failed : out[r] <= 0

Note(c) ==
  /\ ran' = ran \cup {c} /\ twice' = twice \cup (ran \cap {c})
  /\ blind' = blind \cup {d \in {c} : Missing(c)}

(* The component at position i of the batch runs without an error, which   *)
(* does not clear the one it had.                                          *)
Run(i) ==
  /\ phase = "run" /\ i \in todo /\ todo' = todo \ {i}
  /\ LET c == path[i]
         p == graph.parent[c]
     IN /\ Note(c) /\ misled' = misled \cup {d \in {c} : err[c]}
        /\ IF KindOf(c) \in {"item", "loopitem"}
           THEN /\ \/ count' = [count EXCEPT ![c] = NextItem(@)]
                   \/ KindOf(c) = "loopitem" /\ count' = [count EXCEPT ![c] = -1]
                /\ out' = [out EXCEPT ![c] = IF KindOf(c) = "loopitem" THEN 1
                                             ELSE IF NextItem(count[c]) = -1 THEN @
                                             ELSE Element(count[c])]
                /\ results' = IF KindOf(c) = "item" /\ Gathers(c)
                              THEN [results EXCEPT ![p] = Append(@, out[graph.collect[p]])]
                              ELSE results
           ELSE /\ out' = [out EXCEPT ![c] = Made(c)]
                /\ UNCHANGED <<count, results>>
        /\ IF KindOf(c) = "switch"
           THEN \E j \in DOMAIN graph.down[c] : next' = [next EXCEPT ![c] = <<graph.down[c][j]>>]
           ELSE next' = next
  /\ UNCHANGED <<graph, phase, path, idx, err, canceled, saved, answers, last,
                 failed, poisoned, midway, bounds>>

(* The component sets _ERROR: it fails, or finds itself canceled.  (If it  *)
(* raises and has a default value to comment with, that is a Run.)         *)
Fail(i) ==
  /\ phase = "run" /\ i \in todo /\ todo' = todo \ {i}
  /\ \/ canceled /\ faults' = faults
     \/ faults < MaxFaults /\ faults' = faults + 1
  /\ err' = [err EXCEPT ![path[i]] = TRUE] /\ Note(path[i])
  /\ failed' = failed \cup {path[i]}
  /\ UNCHANGED <<graph, phase, path, idx, out, results, count, next, canceled, saved, answers,
                 last, misled, poisoned, midway, turns>>

-----------------------------------------------------------------------------
Ended(c) == KindOf(c) \in {"item", "loopitem"} /\ count[c] = -1
Exits(c) == KindOf(c) = "exitloop" /\ KindOf(graph.parent[c]) = "loop"

(* Where the path goes from c.                                             *)
Successors(c) ==
  CASE Ended(c) \/ Exits(c) -> graph.down[graph.parent[c]]
    [] KindOf(c) = "switch" -> next[c]
    [] KindOf(c) \in {"iteration", "loop"} -> <<Start(c)>>
    [] ~Ended(c) /\ ~Exits(c) /\ KindOf(c) \notin {"switch", "iteration", "loop"}
         /\ graph.down[c] = <<>> /\ graph.parent[c] # NoParent -> <<Start(graph.parent[c])>>
    [] OTHER -> graph.down[c]

(* Mutations of Extend: every successor is appended; one that the path     *)
(* has is not.                                                             *)
ExtendAlways(p, s) == p \o s
ExtendNew(p, s) == FoldLeft(LAMBDA q, c : IF c \in Range(q) THEN q ELSE Append(q, c), p, s)

(* A component is not appended twice in a row.                             *)
Extend(p, s) == FoldLeft(LAMBDA q, c : IF Last(q) = c THEN q ELSE Append(q, c), p, s)

Handled(c) == graph.goto[c] # <<>> \/ c \in graph.default

(* The path after the post-processing of the batch.                        *)
Extended ==
  FoldLeft(LAMBDA p, c : IF err[c] /\ graph.goto[c] # <<>> THEN p \o graph.goto[c]
                         ELSE Extend(p, Successors(c)),
           path, From(path, idx + 1))

Batch == Range(From(path, idx + 1))
Broken == {c \in Batch : err[c] /\ ~ Handled(c)}

Save(p) ==
  /\ saved' = [path |-> p, out |-> out, err |-> err, results |-> results]
  /\ poisoned' = poisoned \cup {c \in Node : err[c] /\ c \notin Range(p)}
  /\ path' = p /\ phase' = "idle"

Posted ==
  /\ phase = "run" /\ todo = {}
  /\ UNCHANGED <<graph, todo, data, canceled, answers, ran, twice, blind, failed, misled, midway,
                 bounds>>

(* A component failed: the batch is cut off the path, and the turn ends.   *)
PostError ==
  /\ Posted /\ Broken # {}
  /\ Save(SubSeq(path, 1, idx)) /\ last' = "failed" /\ UNCHANGED idx

(* A failed switch has no successors to go through, and this raises, if it *)
(* had some in an earlier turn.                                            *)
PostRaise ==
  /\ phase = "run" /\ todo = {}
  /\ \E c \in Broken : KindOf(c) = "switch"
  /\ Raise

Pending == From(Extended, Len(path) + 1)

FillupsFirst(s) ==
  FoldLeft(LAMBDA q, c : IF KindOf(c) = "fillup" THEN Append(q, c) ELSE q, <<>>, s)
    \o FoldLeft(LAMBDA q, c : IF KindOf(c) # "fillup" THEN Append(q, c) ELSE q, <<>>, s)

(* Mutation of Asks: only the first pending component is looked at.        *)
AsksFirst == Pending # <<>> /\ KindOf(Head(Pending)) = "fillup"

Asks == \E c \in Range(Pending) : KindOf(c) = "fillup"

(* The turn pauses and asks the user.                                      *)
PostPause ==
  /\ Posted /\ Broken = {} /\ Asks
  /\ Save(FillupsFirst(Pending)) /\ last' = "paused" /\ UNCHANGED idx

PostFinish ==
  /\ Posted /\ Broken = {} /\ Pending = <<>>
  /\ Save(path) /\ last' = "finished" /\ UNCHANGED idx

PostContinue ==
  /\ Posted /\ Broken = {} /\ Pending # <<>> /\ ~Asks
  /\ path' = Extended /\ idx' = Len(path) /\ phase' = "batch"
  /\ UNCHANGED <<saved, last, poisoned>>

-----------------------------------------------------------------------------
(* The user cancels the session; the flag expires after an hour.           *)
Cancel ==
  /\ phase # "idle" /\ ~canceled /\ canceled' = TRUE
  /\ faults < MaxFaults /\ faults' = faults + 1
  /\ UNCHANGED <<graph, flow, data, saved, answers, last, roundVars, turns>>

Expire ==
  /\ canceled /\ canceled' = FALSE
  /\ UNCHANGED <<graph, flow, data, saved, answers, last, roundVars, bounds>>

Step ==
  \/ Canceled \/ Prepare
  \/ \E i \in todo : Run(i) \/ Fail(i)
  \/ PostError \/ PostRaise \/ PostPause \/ PostFinish \/ PostContinue

Next == Turn \/ Step \/ Cancel \/ Expire

Spec == Init /\ [][Next]_vars

-----------------------------------------------------------------------------
(* Shapes of graphs, without the edges that loops go back by.              *)
EdgesOf(g, c) == Range(g.down[c]) \cup Range(g.goto[c])
Edges(c) == EdgesOf(graph, c)
Straight ==
  \A c \in Node : KindOf(c) \in {"begin", "plain", "switch", "fillup"} /\ \A d \in Edges(c) : c < d

(* The lengths of the ways from begin to each component.                   *)
LevelsOf(g) ==
  LET L[c \in Node] ==
        IF c = Begin THEN {0}
        ELSE UNION {{l + 1 : l \in L[p]} : p \in {q \in Node : q < c /\ c \in EdgesOf(g, q)}}
  IN L

Levels == LevelsOf(graph)

Balanced == Straight /\ \A c \in Node : \A k, l \in Levels[c] : k = l

(* A component and one it refers to may be in one batch.                   *)
Beside == \E c \in Node : \E r \in graph.refs[c] : Levels[c] \cap Levels[r] # {}

(* References are to components that come before.                          *)
Upward == \A c \in Node : \A r \in graph.refs[c] : \E l \in Levels[r] : \A k \in Levels[c] : l < k

(* _run_batch looks at all references.                                     *)
Checked == \A c \in Node : graph.refs[c] # {} => c \in graph.text /\ KindOf(c) # "begin"

(* Whether a component runs, and what it finds, may depend on a switch or  *)
(* an error.                                                               *)
Branching == \E c \in Node : KindOf(c) = "switch" \/ Handled(c)

(* Nobody has a successor twice, and if two components have one in common, *)
(* all that are as far from begin have it, and no other.                   *)
Tidy ==
  /\ \A c \in Node : IsInjective(graph.down[c])
  /\ \A p, q \in Node : (p # q /\ Edges(p) \cap Edges(q) # {}) =>
       \E d \in Node : \A o \in Node : Levels[o] = Levels[p] => Edges(o) = {d}

(* One way through a graph without forms and error handlers: only switches *)
(* have several successors, iterations and loops are not nested, edges do  *)
(* not lead into or out of their bodies, and a body has one item.          *)
Body(p) == {c \in Node : graph.parent[c] = p}
Chain ==
  /\ graph.parent[Begin] = NoParent
  /\ \A c \in Node :
       /\ KindOf(c) # "fillup" /\ graph.goto[c] = <<>>
       /\ KindOf(c) = "switch" \/ Len(graph.down[c]) <= 1
       /\ \A d \in Range(graph.down[c]) :
            graph.parent[d] = graph.parent[c] /\ (graph.parent[c] = NoParent => c < d)
       /\ graph.parent[c] # NoParent =>
            /\ KindOf(graph.parent[c]) \in {"iteration", "loop"}
            /\ graph.parent[graph.parent[c]] = NoParent
       /\ KindOf(c) \in {"item", "loopitem"} =>
            c \notin graph.default /\ c = Start(graph.parent[c])

(* The body of an iteration is run from its item on in order, and each of  *)
(* its components refers to some before it.                                *)
InOrder(p) ==
  /\ KindOf(p) = "iteration" /\ KindOf(Start(p)) = "item" /\ graph.refs[Start(p)] = {}
  /\ graph.collect[p] \in Body(p) \ {Start(p)}
  /\ \A c \in Body(p) :
       /\ c # Start(p) => /\ Start(p) < c /\ KindOf(c) = "plain" /\ graph.refs[c] # {}
                          /\ graph.refs[c] \subseteq {d \in Body(p) : d < c}
       /\ \/ graph.down[c] = <<>> /\ \A e \in Body(p) : e <= c
          \/ \E d \in Body(p) : /\ graph.down[c] = <<d>> /\ c < d
                                /\ \A e \in Body(p) : e <= c \/ d <= e

Finished == phase = "idle" /\ last = "finished" /\ turns > 0

TypeOK ==
  /\ phase \in {"idle", "batch", "run"} /\ last \in {"finished", "paused", "failed", "raised"}
  /\ path \in Seq(Node) /\ idx \in Nat /\ (phase # "idle" => idx <= Len(path))
  /\ todo \subseteq idx + 1 .. Len(path)
  /\ out \in [Node -> -1 .. graph.items] /\ err \in [Node -> BOOLEAN]
  /\ count \in [Node -> -1 .. graph.items] /\ canceled \in BOOLEAN /\ answers \in BOOLEAN
  /\ saved.path \in Seq(Node)
  /\ twice \subseteq ran /\ blind \subseteq ran /\ misled \subseteq ran

(* No component runs without the outputs it refers to, in a graph without  *)
(* switches and error handlers.  In any turn of a session, if all ways to  *)
(* a component have the same length, and it refers to components that are  *)
(* nearer to begin.  Otherwise in the first turn, if no component comes    *)
(* into one batch with another it refers to, and all references are in     *)
(* texts.  Exceptions: in later turns the path still has the components of *)
(* earlier ones, so that _run_batch starts a component before the one it   *)
(* refers to; a round that starts with a user fill-up, because the one     *)
(* before was resumed by it, runs its whole path at once.                  *)
NeverBlind ==
  (/\ ~midway /\ ~Branching
   /\ (Balanced /\ Upward) \/ (Straight /\ Checked /\ turns = 1 /\ ~Beside)) =>
    blind \ {c \in Node : KindOf(c) = "fillup"} = {}

(* Whom c has sent the path to.  In a turn that goes on after a pause this *)
(* is not known of an item, because the canvas does not save its _idx.     *)
Follows(c) == IF err[c] /\ graph.goto[c] # <<>> THEN graph.goto[c] ELSE Successors(c)
Nexts(c) ==
  IF answers /\ KindOf(c) \in {"item", "loopitem"} THEN {}
  ELSE Range(Follows(c))

(* No way leads from r to d through the components R and their successors. *)
Apart(r, d, R) ==
  \E S \in SUBSET Node : d \notin S /\ \A c \in (S \cup {r}) \cap R : Nexts(c) \subseteq S

(* When a round is finished, whoever should come after a component that    *)
(* ran has run, too, although components are dropped and have to be        *)
(* appended again.  Exception: no way led to it in this round from one of  *)
(* those that it refers to, which did not run, say.                        *)
NobodyLost ==
  Finished =>
    \A c \in ran : \A d \in Nexts(c) :
      d \in ran \/ \E r \in graph.refs[d] : Apart(r, d, ran)

(* A component is not run twice in a round, also if the user is asked in   *)
(* between, in a balanced graph without switches and handlers.  Exception: *)
(* components that come together after several others are run twice if     *)
(* something else comes in between.                                        *)
EachOnce == (Balanced /\ Tidy /\ ~Branching /\ ~midway) => twice = {}

(* What comes after a user fill-up waits for the answer of this round.     *)
AnswerFirst == ~midway => \A c \in blind : KindOf(c) # "fillup"

(* A component that ran without an error is treated as one that did only   *)
(* if it failed before in the round, or if the batch in which it failed in *)
(* an earlier turn was cut off the path: such a component is not reset,    *)
(* and its session fails for ever.                                         *)
ErrorsAreNew == misled \subseteq failed \cup poisoned

Times(p, c) == Cardinality({i \in DOMAIN p : p[i] = c})
Clean == failed = {} /\ misled = {}

(* An item comes up once for each element and once more, so that every     *)
(* turn ends, and an iteration gathers what its body made of every         *)
(* element, in order.  Exceptions: forms, handlers, bodies with branches   *)
(* of different lengths and nested ones may start an item over; after a    *)
(* form, an iteration may gather twice; and one without a body but for its *)
(* item ends with the first element.                                       *)
IterationsComplete ==
  Chain =>
    /\ \A c \in Node : KindOf(c) \in {"item", "loopitem"} =>
         Times(path, c) <= turns * (graph.items + 1)
    /\ Finished /\ Clean =>
         \A p \in ran : InOrder(p) => results[p] = [j \in 1 .. graph.items |-> j]

-----------------------------------------------------------------------------
(* The invariant from which TypeOK, ErrorsAreNew and AnswerFirst follow.   *)
(* The data have their types, those of the session too, and a path that is *)
(* walked is at least as long as what has been walked of it.               *)
TypeInv ==
  /\ graph \in Graphs
  /\ TypeOK
  /\ next \in [Node -> Seq(Node)]
  /\ saved.out \in [Node -> -1 .. graph.items] /\ saved.err \in [Node -> BOOLEAN]

(* An error that the next turn does not reset is poisoned, and during a    *)
(* turn every error is one of the round or poisoned.                       *)
ErrorInv ==
  /\ \A c \in Node : saved.err[c] => c \in Range(saved.path) \cup poisoned
  /\ phase # "idle" => \A c \in Node : err[c] => c \in failed \cup poisoned
  /\ ErrorsAreNew

(* Until the user has been asked, no batch has a fill-up.                  *)
AnswerInv ==
  /\ (phase # "idle" /\ ~midway /\ ~answers) =>
       \A i \in idx + 1 .. Len(path) : KindOf(path[i]) # "fillup"
  /\ AnswerFirst

IInv == TypeInv /\ ErrorInv /\ AnswerInv

(* For NeverBlind.  What has run of the batch is made, unless it failed.   *)
At(k) == {c \in Node : k \in Levels[c]}
Nearer(k) == {c \in Node : \E l \in Levels[c] : l < k}
Walked == {path[j] : j \in 1 .. idx}
IsBatch(p, i, k) == {p[j] : j \in i + 1 .. Len(p)} = At(k)
Done == \A i \in idx + 1 .. Len(path) : i \in todo \/ out[path[i]] > 0 \/ err[path[i]]
SeesAll == blind \ {c \in Node : KindOf(c) = "fillup"} = {}

(* The first turn: what has been walked of the path is made, the batch is  *)
(* at some distance k from begin, and what it refers to has been walked.   *)
FirstTurn == Straight /\ Checked /\ turns = 1 /\ ~Beside /\ ~Branching /\ ~midway
BatchIn(k) == \A i \in idx + 1 .. Len(path) : path[i] \in At(k)
Found == \A i \in idx + 1 .. Len(path) : graph.refs[path[i]] \subseteq Walked

FirstInv ==
  /\ turns \in Nat
  /\ turns = 0 => phase = "idle" /\ last = "finished" /\ saved.path = <<>>
  /\ FirstTurn =>
       /\ SeesAll
       /\ phase # "idle" =>
            /\ ~answers /\ path # <<>> /\ path[1] = Begin
            /\ \E k \in Nat : BatchIn(k)
            /\ \A i \in 1 .. idx : out[path[i]] > 0
       /\ phase = "run" => Done /\ Found

(* A balanced graph: a batch has all components at some distance k from    *)
(* begin, and those that are nearer have been made in this round.  A pause *)
(* saves such a batch, with a form first.                                  *)
Even == Balanced /\ Upward /\ ~Branching /\ ~midway
RoundAt(k) ==
  /\ path # <<>> /\ IsBatch(path, idx, k)
  /\ \A c \in Nearer(k) : out[c] > 0
  /\ IsResume(path) \/ Nearer(k) \subseteq Walked
PauseAt(k) ==
  /\ IsBatch(saved.path, 0, k) /\ IsResume(saved.path)
  /\ \A c \in Nearer(k) : saved.out[c] > 0

RoundInv ==
  Even =>
    /\ SeesAll
    /\ phase # "idle" => \E k \in Nat : RoundAt(k)
    /\ phase = "run" => Done
    /\ (phase = "idle" /\ last = "paused") => \E k \in Nat : PauseAt(k)

SightInv == FirstInv /\ RoundInv

(* For EachOnce.  A batch has components at some distance k from begin,    *)
(* each once, and what has run in the round is nearer, or is of the batch. *)
Orderly == Balanced /\ Tidy /\ ~Branching /\ ~midway
Distinct(p, i) == \A j, l \in i + 1 .. Len(p) : p[j] = p[l] => j = l
RanIn(k) ==
  ran \subseteq Nearer(k) \cup
    {path[i] : i \in IF phase = "run" THEN (idx + 1 .. Len(path)) \ todo ELSE {}}

OnceInv ==
  Orderly =>
    /\ twice = {}
    /\ phase # "idle" => Distinct(path, idx) /\ \E k \in Nat : BatchIn(k) /\ RanIn(k)
    /\ (phase = "idle" /\ last = "paused") =>
         /\ IsResume(saved.path) /\ Distinct(saved.path, 0)
         /\ \E k \in Nat : /\ \A i \in 1 .. Len(saved.path) : saved.path[i] \in At(k)
                           /\ ran \subseteq Nearer(k)

(* For NobodyLost.  While the components B are to run, whoever should come *)
(* after another that has run, and has not and is not of B, waits for one  *)
(* from which no way has led to it.  What is walked stays, unless the path *)
(* begins with a form, so that nobody is dropped who has run.              *)
Now == {path[j] : j \in idx + 1 .. Len(path)}
Upto == {path[j] : j \in 1 .. IF phase = "run" THEN Len(path) ELSE idx}
Free(c) ==
  KindOf(c) \in {"begin", "fillup"} \/ c \notin graph.text \/ graph.refs[c] \subseteq Upto
Owed(B) ==
  \A c \in ran \ B : \A d \in Nexts(c) :
    d \in ran \cup B \/ \E r \in graph.refs[d] : Apart(r, d, ran \ B)

LostInv ==
  /\ ran \subseteq Node
  /\ phase # "idle" =>
       /\ Owed(Now)
       /\ \/ IsResume(path)
          \/ \A c \in ran \cup (IF phase = "run" THEN Now ELSE {}) : c \in Upto /\ Free(c)
  /\ phase = "run" => \A i \in idx + 1 .. Len(path) : i \in todo \/ path[i] \in ran
  /\ (phase = "idle" /\ last = "paused") =>
       IsResume(saved.path) /\ saved.err = err /\ Owed(Range(saved.path))
  /\ NobodyLost

(* For IterationsComplete.  A batch is one component at most.  The _idx of *)
(* an item is 0 before the path comes to its iteration, not -1 while it is *)
(* in the body, and counts how often the item has run in the turn.         *)
Items == {c \in Node : KindOf(c) \in {"item", "loopitem"}}
Place(c) == IF graph.parent[c] = NoParent THEN c ELSE graph.parent[c]
Waiting == phase = "batch" \/ todo # {}
Used(c) == IF count[c] = -1 THEN graph.items + 1 ELSE count[c]
Comes(c) == IF c \in Now /\ (Waiting \/ err[c]) THEN 1 ELSE 0

OneWay ==
  /\ turns # 0 /\ Len(path) <= idx + 1 /\ (phase = "batch" => Len(path) = idx + 1)
  /\ \A p \in Node : results[p] # <<>> => p \in Walked
  /\ \A b \in Now : graph.parent[b] # NoParent => graph.parent[b] \in Walked

Counted(c) ==
  LET p == graph.parent[c]
  IN /\ Times(path, c) + graph.items + 1 <= turns * (graph.items + 1) + Used(c) + Comes(c)
     /\ count[c] = 0 => results[p] = <<>>
     /\ \A b \in Now :
          /\ Place(b) < p \/ b = p => count[c] = 0
          /\ Place(b) < p \/ (b = p /\ Waiting) => p \notin ran
          /\ graph.parent[b] = p =>
               (Comes(c) = 0 => count[c] # 0) /\ (b # c \/ Waiting => count[c] # -1)

(* Of an iteration: what it has gathered, and what has been made of the    *)
(* element that its item is at.                                            *)
Gathered(n) == [j \in 1 .. (IF n = -1 THEN graph.items ELSE IF n = 0 THEN 0 ELSE n - 1) |-> j]
Fresh(b, d, s) == d < b \/ (d = b /\ ~Waiting) \/ (b = s /\ Waiting)
Gathering(p) ==
  LET s == Start(p)
  IN /\ \A b \in Now \cap Body(p) : \A d \in Body(p) : d < b => d \in Walked
     /\ Clean =>
          /\ results[p] = Gathered(count[s])
          /\ p \in ran => count[s] = -1 \/ p \in Now \/ Now \cap Body(p) # {}
          /\ \A b \in Now \cap Body(p) : count[s] > 0 =>
               \A d \in Body(p) : Fresh(b, d, s) => out[d] = count[s]

IterInv ==
  Chain =>
    /\ turns \in Nat /\ last # "paused"
    /\ results \in [Node -> Seq(Int)] /\ saved.results \in [Node -> Seq(Int)]
    /\ \A c \in Node : /\ Len(next[c]) <= 1 /\ Range(next[c]) \subseteq Range(graph.down[c])
                       /\ saved.results[c] # <<>> => c \in Range(saved.path)
    /\ \A c \in Items : Times(saved.path, c) <= turns * (graph.items + 1)
    /\ phase # "idle" =>
         /\ OneWay /\ \A c \in Items : Counted(c)
         /\ \A p \in Node : InOrder(p) => Gathering(p)
    /\ IterationsComplete
=============================================================================
