-------------------------- MODULE WorkshopProblems --------------------------
(***************************************************************************)
(* HTN problems for the runs of the heuristics, and for every node that a  *)
(* few progressions reach the relaxed problem that hhRC2 makes of it.      *)
(***************************************************************************)
EXTENDS RelaxedComposition, HTNReference, TLC

CONSTANT Fuel    \* bound on the decompositions of the reference semantics

Method(t, subs, ord) == [task |-> t, subs |-> subs, ord |-> ord]

(* Actions: 0 makes p, 1 makes q at a cost of 3, 2 needs both and makes r  *)
(* and destroys p, 3 makes p from r; 4 is the initial task.                *)
Workshop(methods, s0, goal) ==
  [ numActions |-> 4, numTasks |-> 6,
    prec |-> (0 :> {} @@ 1 :> {"p"} @@ 2 :> {"p", "q"} @@ 3 :> {"r"}),
    add  |-> (0 :> {"p"} @@ 1 :> {"q"} @@ 2 :> {"r"} @@ 3 :> {"p", "q"}),
    del  |-> (0 :> {} @@ 1 :> {} @@ 2 :> {"p"} @@ 3 :> {"r"}),
    cost |-> (0 :> 1 @@ 1 :> 3 @@ 2 :> 0 @@ 3 :> 2),
    methods |-> methods, s0 |-> s0, goal |-> goal, initialTask |-> 4 ]

WorkshopProblems ==
  {Workshop(<<Method(4, m, o), Method(5, <<0>>, {}), Method(5, <<3, 1>>, {<<1, 2>>})>>, s, g) :
     m \in {<<5, 2, 5>>, <<5, 1, 3>>}, o \in {{<<1, 2>>}, {<<1, 3>>, <<2, 3>>}},
     s \in {{}, {"p", "q"}}, g \in {{"r"}, {"p", "q"}}}

RECURSIVE nodesWithin(_, _, _)
nodesWithin(h, N, k) ==
  IF k = 0 THEN N
  ELSE N \cup nodesWithin(h,
         UNION {{applyStep(h, n, s, 9 - k) : s \in applicableSteps(h, n)}
                  \cup UNION {{decomposeStep(h, n, d, mi, 9 - k) :
                                 mi \in taskToMethods(h, n.task[d])} : d \in n.abs} : n \in N},
         k - 1)

(* The relaxed problems of all of them, with the costs of the completions  *)
(* that the reference semantics gives the node.                            *)
rcInstances(problems, kinds, depth) ==
  UNION {UNION {{rcInstance(h, n, x[1], x[2],
                            {networkG(h, w, "action") : w \in completions(h, n, Fuel)}) :
                   x \in kinds} : n \in nodesWithin(h, {prepareTNi(h)}, depth)} : h \in problems}
=============================================================================
