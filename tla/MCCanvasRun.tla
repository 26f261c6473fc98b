---------------------------- MODULE MCCanvasRun -----------------------------
(* All graphs of four plain components in which each can be reached, with  *)
(* references to what comes before; and graphs with a switch, an error     *)
(* handler, a fill-up, an iteration and a loop.                            *)
EXTENDS CanvasRun

MCNode == 0 .. 5

Const(v) == [c \in Node |-> v]
Base == [kind |-> [Const("plain") EXCEPT ![0] = "begin"], down |-> Const(<<>>),
         refs |-> Const({}), text |-> Node, goto |-> Const(<<>>), default |-> {},
         parent |-> Const(NoParent), collect |-> Const(0), items |-> 2]

Pairs == {e \in (0 .. 3) \X (1 .. 4) : e[1] < e[2]}
Reached(E) == \A c \in 1 .. 4 : \E e \in E : e[2] = c
Sorted(S, up) == SetToSortSeq(S, LAMBDA a, b : IF up THEN a < b ELSE a > b)
Downs(E, up) == [c \in Node |-> Sorted({d \in Node : <<c, d>> \in E}, up)]
Preds(E) == [c \in Node |-> {p \in Node : <<p, c>> \in E}]
Far(E) == [c \in Node |-> {p \in 1 .. 3 : \E m \in Node : <<p, m>> \in E /\ <<m, c>> \in E}]

PlainGraphs ==
  UNION {{[Base EXCEPT !.down = Downs(E, up), !.refs = r] :
            up \in BOOLEAN, r \in {Preds(E), Far(E)}} : E \in {F \in SUBSET Pairs : Reached(F)}}

(* begin -> switch 1 -> 2 or 3 -> 4, with an error handler of 2.           *)
(* 4 refers to 2.                                                          *)
SwitchGraph ==
  [Base EXCEPT !.kind[1] = "switch",
     !.down = (0 :> <<1>>) @@ (1 :> <<2, 3>>) @@ (2 :> <<4>>) @@ (3 :> <<4>>) @@ Const(<<>>),
     !.refs[4] = {2}, !.goto[2] = <<5>>, !.default = {3}]

(* begin -> 1 and fill-up 2, 1 -> 3, 2 -> 3 -> 4.                          *)
FillupGraph(a, b) ==
  [Base EXCEPT !.kind[2] = "fillup",
     !.down = (0 :> <<a, b>>) @@ (1 :> <<3>>) @@ (2 :> <<3>>) @@ (3 :> <<4>>) @@ Const(<<>>),
     !.refs = (3 :> {1, 2}) @@ (4 :> {1}) @@ Const({})]

(* begin -> iteration 1 (item 2 -> 3 -> 4) -> 5.                           *)
IterationGraph ==
  [Base EXCEPT !.kind[1] = "iteration", !.kind[2] = "item",
     !.down = (0 :> <<1>>) @@ (1 :> <<5>>) @@ (2 :> <<3>>) @@ (3 :> <<4>>) @@ Const(<<>>),
     !.refs = (3 :> {2}) @@ (4 :> {3}) @@ Const({}),
     !.parent = (2 :> 1) @@ (3 :> 1) @@ (4 :> 1) @@ Const(NoParent), !.collect[1] = 4,
     !.default = {4}]

(* begin -> loop 1 (item 2 -> switch 3 -> 4 or exit) -> 5.                 *)
LoopGraph ==
  [Base EXCEPT !.kind[1] = "loop", !.kind[2] = "loopitem", !.kind[3] = "switch",
     !.kind[4] = "exitloop",
     !.down = (0 :> <<1>>) @@ (1 :> <<5>>) @@ (2 :> <<3>>) @@ (3 :> <<4, 2>>) @@ Const(<<>>),
     !.parent = (2 :> 1) @@ (3 :> 1) @@ (4 :> 1) @@ Const(NoParent)]

MCGraphs ==
  PlainGraphs \cup {SwitchGraph, FillupGraph(1, 2), FillupGraph(2, 1), IterationGraph, LoopGraph}

MCTurnsOf == [g \in MCGraphs |-> IF \A c \in Node : g.kind[c] \in {"begin", "plain"} THEN 2 ELSE 3]
=============================================================================
