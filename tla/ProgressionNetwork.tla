------------------------- MODULE ProgressionNetwork -------------------------
(***************************************************************************)
(* Search nodes and the two progression steps of pandaPIengine             *)
(* (ProgressionNetwork.h, Model::apply, Model::decompose).                 *)
(*                                                                         *)
(* A plan step is named <<k, i>>: it is subtask i of the k-th progression  *)
(* step of the run, the pair (parentSolutionStepInstanceNumber,            *)
(* myPositionInParent) that the code keeps in every planStep.  The initial *)
(* task is <<0, 1>>.  A node holds the steps of its network explicitly;    *)
(* in the code they are the planSteps its two unconstraint arrays reach.   *)
(*                                                                         *)
(*   state                 facts that are true                             *)
(*   task                  function from the steps of the network to tasks *)
(*   succ                  direct successors of each step (successorList)  *)
(*   prim, abs             unconstraintPrimitive, unconstraintAbstract     *)
(*   contained             containedTasks with containedTaskCount          *)
(*   numContained          numContainedTasks, the size of those arrays     *)
(*   solution              the chain of solutionSteps, oldest first; the   *)
(*                         field after is a history variable: the state    *)
(*                         in which the step left the plan                 *)
(*   fValue, pushed        the value OneQueueWAStarFringe::push stores; the  *)
(*                         constructor leaves it uninitialised, which is     *)
(*                         what pushed = FALSE records                       *)
(***************************************************************************)
EXTENDS HTN, Functions

Steps(n)        == DOMAIN n.task
Unconstraint(n) == n.prim \cup n.abs

(* The steps reachable from Start along successor lists: the smallest set  *)
(* that contains Start and the successors of its members.                  *)
Reachable(succ, Start) ==
  {x \in DOMAIN succ :
     \A X \in SUBSET DOMAIN succ :
       Start \subseteq X /\ (\A t \in X : succ[t] \subseteq X) => x \in X}

-----------------------------------------------------------------------------
(* Model::prepareTNi.                                                      *)
prepareTNi(h) ==
  [ state |-> h.s0,
    task  |-> [s \in {<<0, 1>>} |-> h.initialTask],
    succ  |-> [s \in {<<0, 1>>} |-> {}],
    prim  |-> {},
    abs   |-> {<<0, 1>>},
    contained    |-> [t \in {h.initialTask} |-> 1],
    numContained |-> 1,
    solution     |-> << >>,
    actionCosts            |-> 0,
    modificationDepth      |-> 0,
    mixedModificationDepth |-> 0,
    fValue |-> 0, pushed   |-> FALSE ]

isApplicable(h, n, a) == h.prec[a] \subseteq n.state

(* Mutant of isGoal: primitive steps may be left over.                     *)
isGoalWithPrimitive(h, n) == n.abs = {} /\ h.goal \subseteq n.state

isGoal(h, n) ==
  /\ n.abs = {}
  /\ n.prim = {}
  /\ h.goal \subseteq n.state

(* Unconditional adds and deletes are both empty: progressing such a step  *)
(* as soon as it is applicable closes no alternative.                      *)
isEffectless(h, a) == h.add[a] = {} /\ h.del[a] = {}

-----------------------------------------------------------------------------
(* updateTaskCounterA: one occurrence of the action leaves the arrays, the *)
(* entry too when it was the last one.                                     *)
updateTaskCounterA(n, a) ==
  LET removeAI == n.contained[a] = 1
  IN  [ tasks |-> IF removeAI
                  THEN Restrict(n.contained, DOMAIN n.contained \ {a})
                  ELSE [n.contained EXCEPT ![a] = @ - 1],
        num   |-> IF removeAI THEN n.numContained - 1 ELSE n.numContained ]

(* updateTaskCounterM: merge of the sorted arrays of the network and of    *)
(* the method's distinct subtasks; the array size is computed beforehand   *)
(* from newElements and removeAbs.                                         *)
distinctSubtasks(m)  == {m.subs[i] : i \in Positions(m)}

(* Mutant of subtaskCount: a subtask that occurs twice is counted once.    *)
subtaskCountedOnce(m, t) == IF t \in distinctSubtasks(m) THEN 1 ELSE 0

subtaskCount(m, t) == Cardinality({i \in Positions(m) : m.subs[i] = t})

updateTaskCounterM(n, m) ==
  LET old         == n.contained
      newElements == Cardinality(distinctSubtasks(m) \ DOMAIN old)
      removeAbs   == old[m.task] = 1 /\ m.task \notin distinctSubtasks(m)
      kept        == IF removeAbs THEN DOMAIN old \ {m.task} ELSE DOMAIN old
      merged      == [t \in kept \cup distinctSubtasks(m) |->
                        (IF t \in kept THEN old[t] ELSE 0) + subtaskCount(m, t)]
  IN  [ tasks |-> IF removeAbs THEN merged
                  ELSE [merged EXCEPT ![m.task] = @ - 1],
        num   |-> n.numContained + newElements - (IF removeAbs THEN 1 ELSE 0) ]

-----------------------------------------------------------------------------
(* The successors of the progressed step that become first tasks: those no *)
(* other unconstrained step, and no other successor, still precedes.       *)
potentiallyFirst(n, s) ==
  LET potentialPredecessors ==
        UNION {n.succ[t] : t \in (Unconstraint(n) \ {s}) \cup n.succ[s]}
  IN  n.succ[s] \ Reachable(n.succ, potentialPredecessors)

(* Model::apply up to its two automatic progressions, which the search     *)
(* module runs as steps of their own: the k-th progression step takes the  *)
(* unconstrained primitive step s out of n.                                *)
applyStep(h, n, s, k) ==
  LET a     == n.task[s]
      first == potentiallyFirst(n, s)
      count == updateTaskCounterA(n, a)
      after == (n.state \ h.del[a]) \cup h.add[a]
  IN  [ state |-> after,
        task  |-> Restrict(n.task, Steps(n) \ {s}),
        succ  |-> Restrict(n.succ, Steps(n) \ {s}),
        prim  |-> (n.prim \ {s}) \cup {t \in first : isPrimitive(h, n.task[t])},
        abs   |-> n.abs \cup {t \in first : ~ isPrimitive(h, n.task[t])},
        contained    |-> count.tasks,
        numContained |-> count.num,
        solution     |-> Append(n.solution,
                           [step |-> s, instance |-> k, task |-> a,
                            method |-> 0, after |-> after]),
        actionCosts            |-> n.actionCosts + h.cost[a],
        modificationDepth      |-> n.modificationDepth + 1,
        mixedModificationDepth |-> n.mixedModificationDepth + h.cost[a],
        fValue |-> 0, pushed   |-> FALSE ]

(* Mutant of newSuccessors: the decomposed step's successors are lost.     *)
ownSuccessors(n, d, m, s) == {<<s[1], j>> : j \in Successors(m, s[2])}

(* initializeMethod: the new steps of method m, with the successors of the *)
(* decomposed step d appended to the last tasks.                           *)
newSteps(m, k) == {<<k, i>> : i \in Positions(m)}

newSuccessors(n, d, m, s) ==
  {<<s[1], j>> : j \in Successors(m, s[2])}
    \cup (IF s[2] \in LastTasks(m) THEN n.succ[d] ELSE {})

(* Model::decompose up to its automatic progressions: the k-th progression *)
(* step replaces the unconstrained abstract step d by method mi.           *)
decomposeStep(h, n, d, mi, k) ==
  LET m     == h.methods[mi]
      first == {<<k, i>> : i \in FirstTasks(m)}
      count == updateTaskCounterM(n, m)
      all   == (Steps(n) \ {d}) \cup newSteps(m, k)
  IN  [ state |-> n.state,
        task  |-> [s \in all |-> IF s \in newSteps(m, k) THEN m.subs[s[2]]
                                 ELSE n.task[s]],
        succ  |-> [s \in all |-> IF s \in newSteps(m, k)
                                 THEN newSuccessors(n, d, m, s)
                                 ELSE n.succ[s]],
        prim  |-> n.prim \cup {s \in first : isPrimitive(h, m.subs[s[2]])},
        abs   |-> (n.abs \ {d})
                    \cup {s \in first : ~ isPrimitive(h, m.subs[s[2]])},
        contained    |-> count.tasks,
        numContained |-> count.num,
        solution     |-> Append(n.solution,
                           [step |-> d, instance |-> k, task |-> m.task,
                            method |-> mi, after |-> n.state]),
        actionCosts            |-> n.actionCosts,
        modificationDepth      |-> n.modificationDepth + 1,
        mixedModificationDepth |-> n.mixedModificationDepth + 1,
        fValue |-> 0, pushed   |-> FALSE ]

-----------------------------------------------------------------------------
(* The effectLess stack apply leaves behind: every unconstrained step of   *)
(* the result that is effectless and applicable.                           *)
effectLessAfterApply(h, n) ==
  {s \in n.prim : isEffectless(h, n.task[s]) /\ isApplicable(h, n, n.task[s])}

(* Mutant of effectLessAfterDecompose: decompose progresses nothing.       *)
nothingAfterDecompose(h, n, k) == {}

(* decompose only looks at the first tasks of the method it inserted.      *)
effectLessAfterDecompose(h, n, k) ==
  {s \in effectLessAfterApply(h, n) : s[1] = k}

(* Mutant of applicableSteps: preconditions are not tested.                *)
allPrimitive(h, n) == n.prim

applicableSteps(h, n) == {s \in n.prim : isApplicable(h, n, n.task[s])}

(* Mutant of oneModification: abstract first tasks are ignored.            *)
oneApplicable(h, n) ==
  IF Cardinality(applicableSteps(h, n)) = 1 THEN applicableSteps(h, n) ELSE {}

(* The test for a forced move: no abstract task is left and the set of     *)
(* applicable steps is a singleton, or is empty (goalReachable = false).   *)
oneModification(h, n) ==
  IF n.abs = {} /\ Cardinality(applicableSteps(h, n)) = 1
  THEN applicableSteps(h, n) ELSE {}

(* Mutant of noModification: an empty network is taken for a dead end.     *)
nothingApplicable(h, n) == n.abs = {} /\ applicableSteps(h, n) = {}

noModification(h, n) ==
  n.abs = {} /\ n.prim # {} /\ applicableSteps(h, n) = {}

-----------------------------------------------------------------------------
(***************************************************************************)
(* The type of a search node of problem h.                                 *)
(***************************************************************************)
StepNames == Nat \X Nat

SolutionSteps(h) ==
  [ step : StepNames, instance : Nat, task : Tasks(h), method : Nat,
    after : SUBSET Facts(h) ]

NodeFields ==
  { "state", "task", "succ", "prim", "abs", "contained", "numContained", "solution",
    "actionCosts", "modificationDepth", "mixedModificationDepth", "fValue", "pushed" }

NodeType(h, n) ==
  /\ DOMAIN n = NodeFields
  /\ n.task \in [Steps(n) -> Tasks(h)]
  /\ Steps(n) \subseteq StepNames
  /\ n.succ \in [Steps(n) -> SUBSET Steps(n)]
  /\ n.prim \subseteq {s \in Steps(n) : isPrimitive(h, n.task[s])}
  /\ n.abs \subseteq {s \in Steps(n) : ~ isPrimitive(h, n.task[s])}
  /\ n.state \subseteq Facts(h)
  /\ n.solution \in Seq(SolutionSteps(h))
  /\ n.actionCosts \in Nat
  /\ n.modificationDepth \in Nat
  /\ n.mixedModificationDepth \in Nat
  /\ n.fValue \in Int
  /\ n.pushed \in BOOLEAN

(* The steps that no other step of the network precedes.                   *)
FirstSteps(n) == {s \in Steps(n) : \A t \in Steps(n) : s \notin n.succ[t]}

(* The chain of solution steps executes: each action is applicable in the  *)
(* state the steps before it produce, and the last one leads to the        *)
(* node's.                                                                 *)
stateBefore(h, sol, i) == IF i = 1 THEN h.s0 ELSE sol[i - 1].after

StepExecutes(h, e, before) ==
  IF e.method = 0
  THEN /\ e.task \in Actions(h)
       /\ h.prec[e.task] \subseteq before
       /\ e.after = (before \ h.del[e.task]) \cup h.add[e.task]
  ELSE e.after = before

ChainExecutes(h, n) ==
  /\ \A i \in 1 .. Len(n.solution) :
       StepExecutes(h, n.solution[i], stateBefore(h, n.solution, i))
  /\ n.state = stateBefore(h, n.solution, Len(n.solution) + 1)

(* Progression leads from node n to node o: o is in every set that holds   *)
(* n and with each node those that the next calls of apply, decompose and  *)
(* push may make of it.  The k-th call names its steps by k, a number that *)
(* no step of the network has.                                             *)
progressionClosed(h, X) ==
  \A n \in X :
    /\ \A s \in applicableSteps(h, n), k \in Nat :
         (\A t \in Steps(n) : t[1] < k) => applyStep(h, n, s, k) \in X
    /\ \A d \in n.abs : \A mi \in taskToMethods(h, n.task[d]), k \in Nat :
         (\A t \in Steps(n) : t[1] < k) => decomposeStep(h, n, d, mi, k) \in X
    /\ \A v \in Int : [n EXCEPT !.fValue = v, !.pushed = TRUE] \in X

leadsTo(h, n, o) == \A X : n \in X /\ progressionClosed(h, X) => o \in X

obtained(h, n) == leadsTo(h, prepareTNi(h), n)
=============================================================================
