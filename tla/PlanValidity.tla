---------------------------- MODULE PlanValidity ----------------------------
(***************************************************************************)
(* What it means that a chain of solution steps is a plan: the text that   *)
(* extractSolutionFromSearchNode prints, actions in their order and for    *)
(* every decomposition its children by position, read back as a tree.      *)
(* Every definition looks at the chain and the problem only.               *)
(***************************************************************************)
EXTENDS ProgressionNetwork

rootStep == <<0, 1>>

(* The entries that decompose a task; the others are actions.              *)
decompositions(sol) == {i \in DOMAIN sol : sol[i].method # 0}

stepsOf(sol) == {sol[i].step : i \in DOMAIN sol}

childrenOf(h, e) == {<<e.instance, i>> : i \in Positions(h.methods[e.method])}

(* The steps the decompositions of the chain make out of the initial task, *)
(* the children of each, and those under one in the tree.                  *)
treeSteps(h, sol) ==
  {rootStep} \cup UNION {childrenOf(h, sol[i]) : i \in decompositions(sol)}

decompositionsOf(sol, s) == {i \in decompositions(sol) : sol[i].step = s}

tree(h, sol) ==
  [s \in treeSteps(h, sol) |->
     UNION {childrenOf(h, sol[i]) : i \in decompositionsOf(sol, s)}]

under(h, sol, s) == Reachable(tree(h, sol), {s})

(* No step occurs twice and no two decompositions make the same children.  *)
namesDistinct(sol) ==
  /\ \A i, j \in DOMAIN sol : sol[i].step = sol[j].step => i = j
  /\ \A i, j \in decompositions(sol) : sol[i].instance = sol[j].instance => i = j

(* Methods are used for their tasks, and each step has the task that the   *)
(* problem or the method it stems from gives it.                           *)
hasTask(sol, s, t) == \A j \in DOMAIN sol : sol[j].step = s => sol[j].task = t

tasksFit(h, sol) ==
  /\ hasTask(sol, rootStep, h.initialTask)
  /\ \A i \in decompositions(sol) :
       /\ sol[i].method \in taskToMethods(h, sol[i].task)
       /\ LET m == h.methods[sol[i].method]
          IN  \A p \in Positions(m) : hasTask(sol, <<sol[i].instance, p>>, m.subs[p])

(* The entries are all steps of one tree, whose root is the initial task,  *)
(* no subtask of any other, and whose leaves are actions.                  *)
treeComplete(h, sol) ==
  /\ namesDistinct(sol)
  /\ \A i \in decompositions(sol) : rootStep \notin childrenOf(h, sol[i])
  /\ stepsOf(sol) = treeSteps(h, sol)
  /\ treeSteps(h, sol) \subseteq under(h, sol, rootStep)
  /\ tasksFit(h, sol)

(* What a method orders stays in order: all actions under the one subtask  *)
(* come before all actions under the other.                                *)
actionsUnder(h, sol, s) ==
  {j \in DOMAIN sol \ decompositions(sol) : sol[j].step \in under(h, sol, s)}

orderRespected(h, sol) ==
  \A i \in decompositions(sol) :
    \A p \in h.methods[sol[i].method].ord :
      \A a \in actionsUnder(h, sol, <<sol[i].instance, p[1]>>),
         b \in actionsUnder(h, sol, <<sol[i].instance, p[2]>>) : a < b

(* The state the first i entries lead to.                                  *)
stateAfter(h, sol, i) ==
  LET state[j \in 0 .. Len(sol)] ==
        IF j = 0 THEN h.s0
        ELSE IF sol[j].method # 0 THEN state[j - 1]
        ELSE (state[j - 1] \ h.del[sol[j].task]) \cup h.add[sol[j].task]
  IN  state[i]

(* Every action is executable where it stands, and the goal is reached.    *)
executes(h, sol) ==
  /\ \A i \in DOMAIN sol \ decompositions(sol) :
       /\ sol[i].task \in Actions(h)
       /\ h.prec[sol[i].task] \subseteq stateAfter(h, sol, i - 1)
  /\ h.goal \subseteq stateAfter(h, sol, Len(sol))

ValidPlan(h, sol) == treeComplete(h, sol) /\ orderRespected(h, sol) /\ executes(h, sol)
=============================================================================
