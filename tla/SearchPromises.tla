--------------------------- MODULE SearchPromises ---------------------------
(***************************************************************************)
(* What the planner promises its user about the answer: "Proven            *)
(* unsolvable" is right, and the plan of a best-first search is a best     *)
(* one.  Both speak of every valid plan of the problem; Plans gives, per   *)
(* problem, the chains that are compared with the answer.                  *)
(***************************************************************************)
EXTENDS ProgressionSearch, FiniteSetsExt

CONSTANT Plans(_)

ASSUME PlansAssumption ==
  \A h \in Problems : Plans(h) \subseteq Seq(SolutionSteps(h))

(* What an entry of a chain adds to each kind of g value.                  *)
entryG(h, g, e) ==
  CASE g = "none"   -> 0
    [] g = "path"   -> 1
    [] g = "action" -> IF e.method = 0 THEN h.cost[e.task] ELSE 0
    [] g = "mixed"  -> IF e.method = 0 THEN h.cost[e.task] ELSE 1

planG(h, g, sol) ==
  LET weight == [i \in DOMAIN sol |-> entryG(h, g, sol[i])]
  IN  MapThenSumSet(LAMBDA i : weight[i], DOMAIN sol)

(* "Status: Proven unsolvable" is printed only for problems that have no   *)
(* solution, although nodes are pruned as duplicates and as dead ends, and *)
(* effectless and forced actions are progressed at once.                   *)
UnsolvableIsProven ==
  status = "unsolvable" => \A sol \in Plans(htn) : ~ ValidPlan(htn, sol)

(* With a late goal test and a heuristic that never overestimates (zero,   *)
(* or filter, which only drops nodes), the reported plan has the least g   *)
(* value of all solutions, although the visited list reopens nodes by f    *)
(* and effectless actions are progressed at once.  The build that goes on  *)
(* searching (OPTIMIZEUNTILTIMELIMIT) compares solutions by the costs of   *)
(* their actions only and is left out.                                     *)
SolutionIsOptimal ==
  /\ status = "solved"
  /\ ~ conf.suboptimal /\ ~ conf.optimzeSol
  /\ conf.heuristic \in {"zero", "filter"}
  => \A sol \in Plans(htn) :
       planG(htn, conf.gValue, sol) < gValue(node[tnSol]) => ~ ValidPlan(htn, sol)
-----------------------------------------------------------------------------
(***************************************************************************)
(* What the search relies on: that a node it drops is not needed.          *)
(***************************************************************************)
(* The reference: two nodes are the same search node when they have the    *)
(* same state and isomorphic task networks.                                *)
SameSearchNode(n, o) ==
  /\ n.state = o.state
  /\ Cardinality(Steps(n)) = Cardinality(Steps(o))
  /\ n.contained = o.contained
  /\ \E f \in [Steps(n) -> Steps(o)] :
       /\ IsInjective(f)
       /\ \A s \in Steps(n) :
            /\ n.task[s] = o.task[f[s]]
            /\ {f[t] : t \in n.succ[s]} = o.succ[f[s]]

(* Two nodes of the problem with a common key that match, where the list   *)
(* compares networks, are the same search node; keys are made of the       *)
(* network and the state, not of the f value.                              *)
PruningIsSound ==
  ~ conf.noVisitedCheck =>
    /\ \A n, v : obtained(htn, n) =>
         VisitedKeys(htn, conf, [n EXCEPT !.fValue = v, !.pushed = TRUE]) =
           VisitedKeys(htn, conf, n)
    /\ \A n, o :
         /\ obtained(htn, n) /\ obtained(htn, o)
         /\ VisitedKeys(htn, conf, n) \cap VisitedKeys(htn, conf, o) # {}
         /\ costMode \/ Matching(n, o)
         => SameSearchNode(n, o)

(* No goal node can be reached from a node that the filter calls a dead    *)
(* end.                                                                    *)
DeadEndIsSound ==
  conf.heuristic = "filter" =>
    \A n, o : obtained(htn, n) /\ DeadEnd(htn, n) /\ leadsTo(htn, n, o) => ~ isGoal(htn, o)
=============================================================================
