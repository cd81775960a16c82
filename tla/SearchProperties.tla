-------------------------- MODULE SearchProperties --------------------------
(***************************************************************************)
(* The search held against the reference semantics of HTNReference: the    *)
(* plans its promises are compared with, and what the visited list may     *)
(* prune.                                                                  *)
(***************************************************************************)
EXTENDS SearchPromises, VisitedList, HTNReference, SequencesExt

CONSTANT Fuel    \* bound on the decompositions of the reference semantics

(* An order in which the actions of a solution network execute.            *)
RECURSIVE execution(_, _, _, _)
execution(h, w, rest, s) ==
  IF rest = {} THEN << >>
  ELSE LET after(x) == (s \ h.del[w.task[x]]) \cup h.add[w.task[x]]
           next == CHOOSE x \in rest :
                     /\ \A y \in rest : <<y, x>> \notin w.ord
                     /\ h.prec[w.task[x]] \subseteq s
                     /\ executable(h, w, rest \ {x}, after(x))
       IN  <<next>> \o execution(h, w, rest \ {next}, after(next))

(* A solution network as a chain of solution steps: its decompositions,    *)
(* numbered, then its actions.  A step is the subtask of the decomposition *)
(* of the step it is named after.                                          *)
chainOf(h, w) ==
  LET used == SetToSeq(w.used)
      instance(d) == CHOOSE i \in DOMAIN used : used[i][1] = d
      step(d) == IF d = << >> THEN rootStep ELSE <<instance(Front(d)), Last(d)>>
      entry(d, i, t, mi) ==
        [step |-> step(d), instance |-> i, task |-> t, method |-> mi, after |-> {}]
      actions == execution(h, w, DOMAIN w.task, h.s0)
  IN  [i \in DOMAIN used |-> entry(used[i][1], i, h.methods[used[i][2]].task, used[i][2])]
        \o [i \in DOMAIN actions |-> entry(actions[i], 0, w.task[actions[i]], 0)]

referencePlans(h) == {chainOf(h, w) : w \in solutionNetworks(h, Fuel)}

(* The reference's solutions are plans.                                    *)
ASSUME ReferencePlansAreValid ==
  \A h \in Problems : \A sol \in referencePlans(h) : ValidPlan(h, sol)

(* What the visited list takes for the same node is the same node: equal   *)
(* access keys (and, where networks are compared, a match) mean equal      *)
(* states and isomorphic networks.                                         *)
PrunesOnlyDuplicates ==
  pc = "pop" => \A i, j \in DOMAIN node :
    /\ i < j
    /\ node[i].contained = node[j].contained
    /\ accessKeys(htn, conf, node[i]) \cap accessKeys(htn, conf, node[j]) # {}
    /\ costMode \/ matching(node[i], node[j])
    => SameSearchNode(node[i], node[j])

(* "visited lists ignores costs" (options.ggo:36, --suboptimal): of two    *)
(* generated nodes that are duplicates only the first is kept, whatever    *)
(* their costs.                                                            *)
SuboptimalIgnoresCosts ==
  conf.suboptimal =>
    \A i, j \in {k \in DOMAIN node : k # 0 /\ node[k].pushed} :
      SameSearchNode(node[i], node[j]) => i = j
=============================================================================
