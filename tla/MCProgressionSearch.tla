------------------------ MODULE MCProgressionSearch ------------------------
(***************************************************************************)
(* Small problems and configurations for model checking the search.        *)
(*                                                                         *)
(* Tasks: actions 0, 1, 2; abstract tasks 3 (initial) and 4.               *)
(***************************************************************************)
EXTENDS SearchProperties, RelaxedComposition

(* All transitively reduced acyclic orderings of n positions.              *)
Orderings(n) ==
  {R \in SUBSET {p \in (1 .. n) \X (1 .. n) : p[1] # p[2]} :
     /\ \A i \in 1 .. n : <<i, i>> \notin Closure(R, n)
     /\ R = TransitiveReduction(R, n)}

Chain(n) == {<<i, i + 1>> : i \in 1 .. (n - 1)}

Method(t, subs, ord) == [task |-> t, subs |-> subs, ord |-> ord]

(* Action 0 makes p, action 1 turns p into q, action 2 has no effect but   *)
(* needs q.                                                                *)
Toggle(methods) ==
  [ numActions |-> 3, numTasks |-> 5,
    prec |-> (0 :> {}    @@ 1 :> {"p"} @@ 2 :> {"q"}),
    add  |-> (0 :> {"p"} @@ 1 :> {"q"} @@ 2 :> {}),
    del  |-> (0 :> {"q"} @@ 1 :> {"p"} @@ 2 :> {}),
    cost |-> (0 :> 1     @@ 1 :> 3     @@ 2 :> 0),
    methods |-> methods, s0 |-> {"q"}, goal |-> {"q"}, initialTask |-> 3 ]

(* The initial task 3 has two methods; task 4 has two methods, one of two  *)
(* subtasks: ordered by o3, it decides which mode of the visited list the  *)
(* problem gets.                                                           *)
Family(O1, O2, o3) ==
  {Toggle(<<Method(3, <<0, 4, 1>>, o1), Method(3, <<4, 4>>, o2),
            Method(4, <<0>>, {}), Method(4, <<2, 1>>, o3)>>) : o1 \in O1, o2 \in O2}

(* Orderings that follow the positions.                                    *)
Forward(n) == {R \in Orderings(n) : \A p \in R : p[1] < p[2]}

(* Partial order mode: the subtasks of task 4 are not ordered.             *)
PartialOrderProblems == Family(Forward(3) \ {{}}, {{}}, {})

(* Total order and parallel sequences modes: disjoint chains only.  In the *)
(* second set the two methods of task 3 arrange the same four actions in   *)
(* chains that begin alike.                                                *)
Arrangements == {{<<1, 2>>, <<3, 4>>}, {<<1, 2>>, <<2, 4>>}, Chain(4)}

SequenceProblems ==
  Family({R \in Forward(3) : \A p, q \in R : p[1] = q[1] <=> p[2] = q[2]},
         Forward(2), Chain(2))
    \cup {Toggle(<<Method(3, <<0, 1, 0, 1>>, o1), Method(3, <<0, 1, 0, 1>>, o2),
                  Method(4, <<0>>, {})>>) : o1, o2 \in Arrangements}

BaseConfig ==
  [ suboptimal |-> FALSE, gValue |-> "path", heuristic |-> "zero", invert |-> FALSE,
    weight |-> 1, noVisitedCheck |-> FALSE, GIcheck |-> TRUE,
    parallelSequences |-> TRUE, optimzeSol |-> FALSE ]

Early(c) == [c EXCEPT !.suboptimal = TRUE]

(* Late goal test with two of the g values, and the early goal test.       *)
PartialConfigs == {BaseConfig, Early(BaseConfig)}
DefaultConfigs == PartialConfigs \cup {[BaseConfig EXCEPT !.gValue = "mixed"]}

(* Recursive problems: task 3 is decomposed into 4; task 4 repeats itself  *)
(* after action 0 or 1 (the state can toggle for ever) or ends with 2.     *)
RecursiveProblems ==
  {[Toggle(<<Method(3, <<4>>, {}), Method(4, <<a, 4>>, Chain(2)), Method(4, <<0, b, 4>>, o),
             Method(4, <<2>>, {})>>) EXCEPT !.goal = g, !.s0 = s] :
     s \in {{"p"}, {"q"}}, a \in {0, 1}, b \in {1, 2}, g \in {{"p"}, {"q"}, {"p", "q"}},
     o \in {Chain(3), {<<1, 3>>, <<2, 3>>}}}

RecursiveConfigs ==
  {[BaseConfig EXCEPT !.gValue = g] : g \in {"path", "action", "mixed"}}
    \cup {Early([BaseConfig EXCEPT !.gValue = "none"])}

(* A clock that is looked at often; search that goes on after the first    *)
(* solution, until the time limit; no visited list at all.                 *)
ClockProblems == Family({Chain(3), {<<1, 2>>}}, {{}}, {})
MinusOneAndThree == {-1, 3}

ClockConfigs ==
  {[[BaseConfig EXCEPT !.optimzeSol = TRUE] EXCEPT !.suboptimal = e] : e \in BOOLEAN}
    \cup {[BaseConfig EXCEPT !.noVisitedCheck = TRUE]}

(* rc2(filter) with the late and the early check.                          *)
Filter(c) == [c EXCEPT !.heuristic = "filter"]

FilterConfigs ==
  {Filter([BaseConfig EXCEPT !.gValue = "mixed"]),
   Filter(Early([BaseConfig EXCEPT !.gValue = "none"]))}

(* The modes of the visited list, recursion, the clock and the filter in    *)
(* one run: each family of problems with its configurations.               *)
ModesProblems == SequenceProblems \cup RecursiveProblems \cup ClockProblems
ModesConfigs  == DefaultConfigs \cup RecursiveConfigs \cup ClockConfigs \cup FilterConfigs

ModesInit ==
  /\ Init
  /\ <<htn, conf>> \in (SequenceProblems \X DefaultConfigs)
                      \cup (RecursiveProblems \X RecursiveConfigs)
                      \cup (ClockProblems \X ClockConfigs)
                      \cup ((RecursiveProblems \cup ClockProblems) \X FilterConfigs)

ModesSpec == ModesInit /\ [][Next]_vars /\ WF_vars(Next)

-----------------------------------------------------------------------------
(* Counterexamples.  Tasks: actions a (0), b (1), c (2); 4 is initial; the *)
(* methods of 3 order two a, one b and two c.  In one both a share a c, in *)
(* the other each a precedes a c of its own, and b shares the second.      *)
SharedSuccessorProblem ==
  [ numActions |-> 3, numTasks |-> 5,
    prec |-> (0 :> {"q"} @@ 1 :> {"z"} @@ 2 :> {}),
    add  |-> (0 :> {}    @@ 1 :> {}    @@ 2 :> {"q", "z"}),
    del  |-> (0 :> {"q"} @@ 1 :> {}    @@ 2 :> {}),
    cost |-> (0 :> 1     @@ 1 :> 1     @@ 2 :> 1),
    methods |-> <<Method(4, <<3>>, {}),
                  Method(3, <<0, 0, 1, 2, 2>>, {<<1, 4>>, <<2, 4>>, <<3, 5>>}),
                  Method(3, <<0, 0, 1, 2, 2>>, {<<1, 4>>, <<2, 5>>, <<3, 5>>})>>,
    s0 |-> {"q"}, goal |-> {}, initialTask |-> 4 ]

(* Tasks: actions a (0), b (1), c (2), d (3), e (4); 5 is initial, 6       *)
(* becomes a or b.  The first 6 precedes a c and a d, the second a c; e is *)
(* free.                                                                   *)
ForkProblem ==
  [ numActions |-> 5, numTasks |-> 7,
    prec |-> (0 :> {"q"} @@ 1 :> {"z"} @@ 2 :> {}    @@ 3 :> {}    @@ 4 :> {"q"}),
    add  |-> (0 :> {}    @@ 1 :> {}    @@ 2 :> {"p"} @@ 3 :> {"z"} @@ 4 :> {"p"}),
    del  |-> (0 :> {"q"} @@ 1 :> {"z"} @@ 2 :> {}    @@ 3 :> {}    @@ 4 :> {}),
    cost |-> [t \in 0 .. 4 |-> 1],
    methods |-> <<Method(5, <<6, 6, 2, 3, 2, 4>>, {<<1, 3>>, <<1, 4>>, <<2, 5>>}),
                  Method(6, <<0>>, {}), Method(6, <<1>>, {})>>,
    s0 |-> {"q"}, goal |-> {}, initialTask |-> 5 ]

OneShared == {SharedSuccessorProblem}
OneFork   == {ForkProblem}
BaseOnly  == {BaseConfig}
EarlyOnly == {Early(BaseConfig)}
=============================================================================
