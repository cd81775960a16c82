---------------------------- MODULE MCTaskGraph -----------------------------
(***************************************************************************)
(* The task graph of problems with two actions and three abstract tasks,   *)
(* of which 2 is the initial one: all problems made from a small set of    *)
(* methods in which every task is connected and can be decomposed.         *)
(***************************************************************************)
EXTENDS TaskGraph

methodsOf(t, bodies) == {[task |-> t, subs |-> b, ord |-> {}] : b \in bodies}
OneOrTwo(X) == {Y \in SUBSET X : Cardinality(Y) \in {1, 2}}

Graph(methods) ==
  [ numActions |-> 2, numTasks |-> 5,
    prec |-> [a \in 0 .. 1 |-> {}], add |-> [a \in 0 .. 1 |-> {}], del |-> [a \in 0 .. 1 |-> {}],
    cost |-> [a \in 0 .. 1 |-> 2 * a], methods |-> SetToSeq(methods),
    s0 |-> {}, goal |-> {}, initialTask |-> 2 ]

TaskGraphs ==
  {p \in {Graph(methodsOf(2, x) \cup methodsOf(3, y) \cup methodsOf(4, z)) :
            x \in {{<<3, 4>>}, {<<3>>, <<4, 0>>}, {<<4>>, <<2, 3>>}},
            y \in OneOrTwo({<<0>>, <<4>>, <<1, 3>>, <<2>>}),
            z \in OneOrTwo({<<1>>, <<3>>, <<4, 4>>, <<0, 0>>})} :
     Connected(p) /\ {} \notin Range(decompositions(p))}
=============================================================================
