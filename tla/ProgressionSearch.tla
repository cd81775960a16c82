-------------------------- MODULE ProgressionSearch --------------------------
(***************************************************************************)
(* PriorityQueueSearch::search with its fringe, its calls of the visited   *)
(* list and the progression steps of the model: from the initial task      *)
(* network to the line "- Status: ...".                                    *)
(*                                                                         *)
(* One action is one call made by the loop body, in the loop's order; the  *)
(* variable pc says where the loop is:                                     *)
(*                                                                         *)
(*   "pop"     head of the loop: take a node from the fringe               *)
(*   "expand"  inside the for loop over the modifications of cur           *)
(*   "settle"  inside apply or decompose, at the automatic progressions    *)
(*   "child"   the call has returned child; it is tested and pushed        *)
(*   "report"  the loop has ended                                          *)
(*   "done"    search has returned                                         *)
(*                                                                         *)
(* Search nodes live in node, a function from the numbers of the nodes     *)
(* that are allocated: delete n takes n out of its domain.  The node that  *)
(* the k-th call of apply or decompose allocates has number k.             *)
(*                                                                         *)
(* What the visited list takes for the same search node is a parameter:    *)
(* VisitedKeys is the set of access keys insertVisi may build for a node   *)
(* and Matching its comparison of two nodes with equal keys.  DeadEnd says *)
(* for which nodes the inner heuristic of rc2 returns UNREACHABLE.         *)
(***************************************************************************)
EXTENDS PlanValidity

CONSTANTS
  Problems,            \* the problems the planner may read
  Configs,             \* the configurations the command line may select
  CheckAfter,          \* CHECKAFTER: generated nodes between looks at the clock
  GarbageValues,       \* values an uninitialised fValue may have
  VisitedKeys(_, _, _),
  Matching(_, _),
  DeadEnd(_, _)

None == -1

gValues    == {"none", "path", "action", "mixed"}
Heuristics == {"zero", "modDepth", "mixedModDepth", "cost", "filter"}

(* The options of options.ggo that reach the search, and optimzeSol, which *)
(* is fixed when the planner is built.                                     *)
ConfigType ==
  [ suboptimal : BOOLEAN, gValue : gValues, heuristic : Heuristics,
    invert : BOOLEAN, weight : Nat, noVisitedCheck : BOOLEAN,
    GIcheck : BOOLEAN, parallelSequences : BOOLEAN, optimzeSol : BOOLEAN ]

ASSUME SearchAssumption ==
  /\ \A h \in Problems : IsProblem(h)
  /\ Configs \subseteq ConfigType
  /\ CheckAfter \in Nat \ {0}
  /\ GarbageValues \subseteq Int

VARIABLES
  htn,         \* the problem
  conf,        \* the configuration
  node,        \* the allocated search nodes
  fringe,      \* numbers of the nodes in the priority queue
  visited,     \* the hash table of the visited list: key -> payload
  pc,
  cur,         \* n, the node being expanded
  todo,        \* what is left of the for loop over its modifications
  child,       \* the node apply or decompose is building or has returned
  effectLess,  \* the model's effectLess stack
  tnSol,       \* the best solution node so far
  continueSearch,
  made,        \* calls of apply and decompose so far
  lastCheck,   \* generated nodes at the last look at the clock
  timeLimit,   \* reachedTimeLimit
  status       \* the status line printed

vars == <<htn, conf, node, fringe, visited, pc, cur, todo, child, effectLess,
          tnSol, continueSearch, made, lastCheck, timeLimit, status>>

-----------------------------------------------------------------------------
(* OneQueueWAStarFringe::push: f is the weighted heuristic value plus g.   *)
gValue(n) ==
  CASE conf.gValue = "none"   -> 0
    [] conf.gValue = "path"   -> n.modificationDepth
    [] conf.gValue = "action" -> n.actionCosts
    [] conf.gValue = "mixed"  -> n.mixedModificationDepth

(* The heuristics that need nothing but the node (hhZero, hhSimple), and   *)
(* rc2(filter) without task count, which tells dead ends from the rest.    *)
heuristicValue(n) ==
  LET v == CASE conf.heuristic = "zero"          -> 0
             [] conf.heuristic = "modDepth"      -> n.modificationDepth
             [] conf.heuristic = "mixedModDepth" -> n.mixedModificationDepth
             [] conf.heuristic = "cost"          -> n.actionCosts
             [] conf.heuristic = "filter"        -> 0
  IN  IF conf.invert THEN - v ELSE v

(* Mutant of pushed: greedy search, without the g value.                   *)
pushedGreedy(n, hval) == [n EXCEPT !.fValue = hval * conf.weight, !.pushed = TRUE]

pushed(n, hval) ==
  [n EXCEPT !.fValue = hval * conf.weight + gValue(n), !.pushed = TRUE]

-----------------------------------------------------------------------------
(* The visited list.  useSequencesMode and useTotalOrderMode are found     *)
(* once, by its constructor.                                               *)
useTotalOrderMode == isTotallyOrdered(htn)
useSequencesMode  == conf.parallelSequences /\ isParallelSequences(htn)

(* Mutant of canDeleteProcessedNodes: nodes the list compares with go too. *)
deleteAlways == TRUE

canDeleteProcessedNodes ==
  conf.noVisitedCheck \/ useTotalOrderMode \/ useSequencesMode

costMode == useTotalOrderMode \/ useSequencesMode \/ ~ conf.GIcheck

(* fValue as insertVisi reads it.                                          *)
fRead(n) == IF n.pushed THEN {n.fValue} ELSE GarbageValues

(* First case of insertVisi: the payload is the cost of the node plus one, *)
(* a null pointer (0) where nothing was stored.                            *)
payload(key) == IF key \in DOMAIN visited THEN visited[key] ELSE 0

stored(key, p) ==
  [k \in DOMAIN visited \cup {key} |-> IF k = key THEN p ELSE visited[k]]

insertCost(n, key) ==
  IF conf.suboptimal                       \* noReopening
  THEN {[isNew |-> payload(key) = 0, list |-> stored(key, 1)]}
  ELSE {IF payload(key) = 0 \/ payload(key) > f + 1
        THEN [isNew |-> TRUE,  list |-> stored(key, f + 1)]
        ELSE [isNew |-> FALSE, list |-> stored(key, payload(key))] : f \in fRead(n)}

(* Second case: the payload is the list of nodes with that key; a node     *)
(* that matches one at least as cheap is known, else it replaces the last  *)
(* dearer one it matches.  A listed node may be one that was never pushed. *)
nodesWith(key) == IF key \in DOMAIN visited THEN visited[key] ELSE << >>

without(list, l) == SubSeq(list, 1, l - 1) \o SubSeq(list, l + 1, Len(list))

kept(list, dearer) ==
  IF dearer = {} THEN {list}
  ELSE {without(list, l) : l \in {j \in dearer : \A d \in dearer : d <= j}}

insertNode(i, key) ==
  LET list    == nodesWith(key)
      matches == {j \in DOMAIN list : Matching(node[i], node[list[j]])}
      isDearer(j, f)  == \E v \in fRead(node[list[j]]) : v > f
      notDearer(j, f) == \E v \in fRead(node[list[j]]) : v <= f
      dearer(f) == {D \in SUBSET matches : /\ \A j \in D : isDearer(j, f)
                                           /\ \A j \in matches \ D : notDearer(j, f)}
      left(D)   == IF matches = D
                   THEN {[isNew |-> TRUE, list |-> stored(key, Append(l, i))] : l \in kept(list, D)}
                   ELSE {[isNew |-> FALSE, list |-> stored(key, list)]}
  IN  UNION {UNION {left(D) : D \in dearer(f)} : f \in fRead(node[i])}

(* The outcomes insertVisi may have for node i: its answer, and the hash   *)
(* table it leaves.                                                        *)
insertVisi(i) ==
  IF conf.noVisitedCheck THEN {[isNew |-> TRUE, list |-> visited]}
  ELSE UNION {IF costMode THEN insertCost(node[i], key) ELSE insertNode(i, key) :
                key \in VisitedKeys(htn, conf, node[i])}

-----------------------------------------------------------------------------
Init ==
  /\ htn \in Problems
  /\ conf \in Configs
  /\ node = [i \in {0} |-> pushed(prepareTNi(htn), 0)]
  /\ fringe = {0}
  /\ visited = << >>
  /\ pc = "pop"
  /\ cur = None
  /\ todo = {}
  /\ child = None
  /\ effectLess = {}
  /\ tnSol = None
  /\ continueSearch = TRUE
  /\ made = 0
  /\ lastCheck = 0
  /\ timeLimit = FALSE
  /\ status = "none"

(* new searchNode and delete.                                              *)
allocated(nodes, i, n) ==
  [j \in DOMAIN nodes \cup {i} |-> IF j = i THEN n ELSE nodes[j]]

(* Mutants of withoutNode: the node in hand is deleted; nothing is.        *)
withoutHand(i) == Restrict(node, DOMAIN node \ {cur})
leakNode(i)    == node

withoutNode(i) == Restrict(node, DOMAIN node \ {i})

(* Mutant of handleNewSolution: an equally cheap solution replaces too.    *)
handleAnySolution(i) ==
  IF tnSol = None \/ node[i].actionCosts <= node[tnSol].actionCosts THEN i ELSE tnSol

(* handleNewSolution: only a strictly cheaper solution replaces an older.  *)
handleNewSolution(i) ==
  IF tnSol = None \/ node[i].actionCosts < node[tnSol].actionCosts THEN i ELSE tnSol

(* The modifications the loop body tries on node n: every applicable first *)
(* task when no abstract one is left, else every method of one abstract    *)
(* first task, chosen at random.  A modification is <<step, method>>, with *)
(* method 0 for an action.                                                 *)
modifications(n) ==
  IF n.abs = {} THEN {applicableSteps(htn, n) \X {0}}
  ELSE {{d} \X taskToMethods(htn, n.task[d]) : d \in n.abs}

(* Mutant of minimalF: the comparator is the wrong way round.              *)
maximalF == {i \in fringe : \A j \in fringe : node[i].fValue >= node[j].fValue}

minimalF == {i \in fringe : \A j \in fringe : node[i].fValue <= node[j].fValue}

(* Mutant of PopKnown: the known node stays at the head of the queue.      *)
PopKnownKept(i) ==
  /\ pc = "pop"
  /\ i \in minimalF
  /\ ~ conf.suboptimal
  /\ \E r \in insertVisi(i) : ~ r.isNew
  /\ UNCHANGED vars

(* A node the visited list knows is deleted (late check only).             *)
PopKnown(i) ==
  /\ pc = "pop"
  /\ i \in minimalF
  /\ ~ conf.suboptimal
  /\ \E r \in insertVisi(i) : ~ r.isNew /\ visited' = r.list
  /\ fringe' = fringe \ {i}
  /\ node' = withoutNode(i)
  /\ UNCHANGED <<htn, conf, pc, cur, todo, child, effectLess, tnSol,
                 continueSearch, made, lastCheck, timeLimit, status>>

(* A new node: late goal test, then the loop over its modifications.       *)
PopNew(i) ==
  /\ pc = "pop"
  /\ i \in minimalF
  /\ IF conf.suboptimal THEN visited' = visited
     ELSE \E r \in insertVisi(i) : r.isNew /\ visited' = r.list
  /\ fringe' = fringe \ {i}
  /\ cur' = i
  /\ LET found == ~ conf.suboptimal /\ isGoal(htn, node[i])
     IN  /\ tnSol' = IF found THEN handleNewSolution(i) ELSE tnSol
         /\ continueSearch' = IF found THEN conf.optimzeSol ELSE continueSearch
         /\ \/ /\ ~ continueSearch'
               /\ found \/ node[i].abs # {}
               /\ pc' = "report"
               /\ todo' = {}
            \/ /\ continueSearch' \/ (~ found /\ node[i].abs = {})
               /\ pc' = "expand"
               /\ todo' \in modifications(node[i])
  /\ UNCHANGED <<htn, conf, node, child, effectLess, made, lastCheck,
                 timeLimit, status>>

(* htn->apply(n, i) up to its automatic progressions.                      *)
Apply(s) ==
  /\ pc = "expand"
  /\ <<s, 0>> \in todo
  /\ LET n2 == applyStep(htn, node[cur], s, made + 1)
     IN  /\ node' = allocated(node, made + 1, n2)
         /\ effectLess' = effectLessAfterApply(htn, n2)
  /\ todo' = todo \ {<<s, 0>>}
  /\ made' = made + 1
  /\ child' = made + 1
  /\ pc' = "settle"
  /\ UNCHANGED <<htn, conf, fringe, visited, cur, tnSol, continueSearch,
                 lastCheck, timeLimit, status>>

(* htn->decompose(n, decomposedStep, method), methods in their order.      *)
Decompose(d, m) ==
  /\ pc = "expand"
  /\ m # 0
  /\ <<d, m>> \in todo
  /\ \A x \in todo : m <= x[2]
  /\ LET n2 == decomposeStep(htn, node[cur], d, m, made + 1)
     IN  /\ node' = allocated(node, made + 1, n2)
         /\ effectLess' = effectLessAfterDecompose(htn, n2, made + 1)
  /\ todo' = todo \ {<<d, m>>}
  /\ made' = made + 1
  /\ child' = made + 1
  /\ pc' = "settle"
  /\ UNCHANGED <<htn, conf, fringe, visited, cur, tnSol, continueSearch,
                 lastCheck, timeLimit, status>>

(* The automatic progressions at the end of apply and decompose, each a    *)
(* nested call of apply that replaces and deletes the node built so far:   *)
(* an effectless step the stack names, ...                                 *)
replaceChild(s) ==
  LET n2 == applyStep(htn, node[child], s, made + 1)
  IN  /\ node' = allocated(withoutNode(child), made + 1, n2)
      /\ effectLess' = effectLessAfterApply(htn, n2)
      /\ made' = made + 1
      /\ child' = made + 1
      /\ UNCHANGED <<htn, conf, fringe, visited, pc, cur, todo, tnSol,
                     continueSearch, lastCheck, timeLimit, status>>

ProgressEffectLess(s) ==
  /\ pc = "settle"
  /\ s \in effectLess
  /\ replaceChild(s)

(* ... or, the stack being empty, the only applicable step left.           *)
ProgressOneModAction(s) ==
  /\ pc = "settle"
  /\ effectLess = {}
  /\ s \in oneModification(htn, node[child])
  /\ replaceChild(s)

settled ==
  /\ pc = "settle"
  /\ effectLess = {}
  /\ oneModification(htn, node[child]) = {}

(* The node returned cannot reach the goal: goalReachable is false.        *)
DropDeadEnd ==
  /\ settled
  /\ noModification(htn, node[child])
  /\ node' = withoutNode(child)
  /\ child' = None
  /\ pc' = "expand"
  /\ UNCHANGED <<htn, conf, fringe, visited, cur, todo, effectLess, tnSol,
                 continueSearch, made, lastCheck, timeLimit, status>>

(* The visited list knows the node returned (early check only).            *)
DropKnown ==
  /\ settled
  /\ ~ noModification(htn, node[child])
  /\ conf.suboptimal
  /\ \E r \in insertVisi(child) : ~ r.isNew /\ visited' = r.list
  /\ node' = withoutNode(child)
  /\ child' = None
  /\ pc' = "expand"
  /\ UNCHANGED <<htn, conf, fringe, cur, todo, effectLess, tnSol,
                 continueSearch, made, lastCheck, timeLimit, status>>

unreachable(n) == conf.heuristic = "filter" /\ DeadEnd(htn, n)

(* The heuristic finds that the node returned cannot reach the goal.  It   *)
(* is deleted only with the early check, and only where the visited list   *)
(* does not compare with it; with the late check nothing deletes it.       *)
DropUnreachable ==
  /\ settled
  /\ ~ noModification(htn, node[child])
  /\ unreachable(node[child])
  /\ IF conf.suboptimal
     THEN \E r \in insertVisi(child) : r.isNew /\ visited' = r.list
     ELSE visited' = visited
  /\ node' = IF conf.suboptimal /\ canDeleteProcessedNodes THEN withoutNode(child) ELSE node
  /\ child' = None
  /\ pc' = "expand"
  /\ UNCHANGED <<htn, conf, fringe, cur, todo, effectLess, tnSol,
                 continueSearch, made, lastCheck, timeLimit, status>>

(* The node returned is kept: heuristic, early goal test, push.  A         *)
(* solution that ends the search leaves the for loop before the push.      *)
Keep ==
  /\ settled
  /\ ~ noModification(htn, node[child])
  /\ ~ unreachable(node[child])
  /\ IF conf.suboptimal
     THEN \E r \in insertVisi(child) : r.isNew /\ visited' = r.list
     ELSE visited' = visited
  /\ IF conf.suboptimal /\ isGoal(htn, node[child])
     THEN /\ tnSol' = handleNewSolution(child)
          /\ continueSearch' = conf.optimzeSol
     ELSE UNCHANGED <<tnSol, continueSearch>>
  /\ IF conf.suboptimal /\ isGoal(htn, node[child]) /\ ~ conf.optimzeSol
     THEN /\ todo' = {}
          /\ UNCHANGED <<node, fringe>>
     ELSE /\ node' = [node EXCEPT ![child] = pushed(@, heuristicValue(@))]
          /\ fringe' = fringe \cup {child}
          /\ UNCHANGED todo
  /\ child' = None
  /\ pc' = "expand"
  /\ UNCHANGED <<htn, conf, cur, effectLess, made, lastCheck, timeLimit, status>>

(* The for loop is over.  After the one over actions the loop ends when a  *)
(* solution was found; the one over methods has no such test.  Then the    *)
(* clock, at most once every CheckAfter generated nodes, and delete n.     *)
generated == made + 1

EndExpansion ==
  /\ pc = "expand"
  /\ todo = {}
  /\ \/ /\ ~ continueSearch
        /\ node[cur].abs = {}
        /\ pc' = "report"
        /\ UNCHANGED <<node, lastCheck, timeLimit>>
     \/ /\ continueSearch \/ node[cur].abs # {}
        /\ IF generated - lastCheck >= CheckAfter
           THEN lastCheck' = generated /\ timeLimit' \in BOOLEAN
           ELSE UNCHANGED <<lastCheck, timeLimit>>
        /\ IF timeLimit' THEN pc' = "report" ELSE pc' = "pop"
        /\ node' = IF canDeleteProcessedNodes /\ ~ timeLimit'
                   THEN withoutNode(cur) ELSE node
  /\ cur' = None
  /\ UNCHANGED <<htn, conf, fringe, visited, todo, child, effectLess, tnSol,
                 continueSearch, made, status>>

(* Mutant of statusLine: reachedTimeLimit is not looked at.                *)
statusWithoutTimeout == IF tnSol # None THEN "solved" ELSE "unsolvable"

statusLine == IF tnSol # None THEN "solved"
              ELSE IF timeLimit THEN "timeout" ELSE "unsolvable"

Report ==
  /\ pc = "report" \/ (pc = "pop" /\ fringe = {})
  /\ pc' = "done"
  /\ status' = statusLine
  /\ UNCHANGED <<htn, conf, node, fringe, visited, cur, todo, child, effectLess,
                 tnSol, continueSearch, made, lastCheck, timeLimit>>

Terminating == pc = "done" /\ UNCHANGED vars

Next ==
  \/ \E i \in fringe : PopKnown(i) \/ PopNew(i)
  \/ \E x \in todo : Apply(x[1]) \/ Decompose(x[1], x[2])
  \/ \E s \in effectLess : ProgressEffectLess(s)
  \/ pc = "settle" /\ \E s \in node[child].prim : ProgressOneModAction(s)
  \/ DropDeadEnd
  \/ DropKnown
  \/ DropUnreachable
  \/ Keep
  \/ EndExpansion
  \/ Report
  \/ Terminating

(* The planner is one thread that never waits: it keeps taking steps.      *)
Spec == Init /\ [][Next]_vars /\ WF_vars(Next)

-----------------------------------------------------------------------------
(***************************************************************************)
(* Properties.                                                             *)
(***************************************************************************)
(* The variables hold what their declarations say.  Every node number the  *)
(* loop still uses names an allocated node: nothing is read after delete.  *)
TypeOK ==
  /\ conf \in Configs
  /\ made \in Nat
  /\ lastCheck \in Nat
  /\ DOMAIN node \subseteq 0 .. made
  /\ \A i \in DOMAIN node : NodeType(htn, node[i])
  /\ fringe \subseteq DOMAIN node
  /\ pc \in {"pop", "expand", "settle", "report", "done"}
  /\ pc \in {"expand", "settle"} => cur \in DOMAIN node
  /\ pc = "settle" => child \in DOMAIN node
  /\ continueSearch \in BOOLEAN
  /\ timeLimit \in BOOLEAN
  /\ status \in {"none", "solved", "timeout", "unsolvable"}

(* The unconstraint arrays that apply and decompose maintain from node to  *)
(* node are exactly the steps without a predecessor: no ordering is lost   *)
(* and no step is held back for ever (Model.cpp:1016, the comment on when  *)
(* a successor becomes a first task).                                      *)
FirstTasksExact == \A i \in DOMAIN node : Unconstraint(node[i]) = FirstSteps(node[i])

(* The task counters that are updated incrementally by two different merge *)
(* routines count the tasks of the network, and their arrays have the size *)
(* that was computed for them beforehand (Model.cpp:381 keeps this check   *)
(* as a commented-out assertion).                                          *)
CountersExact ==
  \A i \in DOMAIN node :
    LET n == node[i]
    IN  /\ DOMAIN n.contained = {n.task[s] : s \in Steps(n)}
        /\ \A t \in DOMAIN n.contained :
             n.contained[t] = Cardinality({s \in Steps(n) : n.task[s] = t})
        /\ n.numContained = Cardinality(DOMAIN n.contained)

(* A node that is pushed has no effectless first task that is applicable:  *)
(* it is enough that decompose looks at the method's own first tasks,      *)
(* since a decomposition never changes the state.                          *)
NothingLeftToProgress ==
  \A i \in fringe : effectLessAfterApply(htn, node[i]) = {} /\ oneModification(htn, node[i]) = {}

(* A deleted node is not used again: the solution that will be reported    *)
(* and the nodes the visited list compares with are still allocated.  The  *)
(* build that goes on searching after a solution is left out where it may  *)
(* delete nodes: it expands the solution node, and deletes it.             *)
NoUseAfterDelete ==
  /\ tnSol # None => tnSol \in DOMAIN node \/ (conf.optimzeSol /\ canDeleteProcessedNodes)
  /\ ~ costMode => \A k \in DOMAIN visited :
                     \A j \in DOMAIN visited[k] : visited[k][j] \in DOMAIN node

(* Where processed nodes may be deleted, every node is deleted once it has *)
(* been expanded: while the loop runs only the fringe, the node in hand,   *)
(* its child and the solution are allocated (one solution only, unless the *)
(* search goes on after the first).  Nodes that the heuristic drops after  *)
(* the late check are the exception: they are never deleted.               *)
NoNodeLeft ==
  canDeleteProcessedNodes /\ continueSearch /\ pc \in {"pop", "expand", "settle"} =>
    LET abandoned == {i \in DOMAIN node :
                        ~ conf.suboptimal /\ ~ node[i].pushed /\ unreachable(node[i])}
    IN  DOMAIN node \subseteq fringe \cup {cur, child, tnSol} \cup abandoned

(* The plan reported executes from the initial state, reaches the goal,    *)
(* and leaves no task of the network open, whatever the visited list       *)
(* prunes, in whatever order the fringe returns nodes.                     *)
SolutionExecutes ==
  tnSol # None /\ tnSol \in DOMAIN node =>
    ChainExecutes(htn, node[tnSol]) /\ isGoal(htn, node[tnSol])

(* The plan that is reported is a solution of the problem: its tree is a   *)
(* complete decomposition of the initial task by methods of the problem,   *)
(* and its actions respect every ordering, execute, and reach the goal     *)
(* (extractSolutionFromSearchNode prints exactly this chain).              *)
SolutionIsValid ==
  tnSol # None /\ tnSol \in DOMAIN node => ValidPlan(htn, node[tnSol].solution)

(* A solution is only ever replaced by a cheaper one, and never lost.      *)
SolutionOnlyImproves ==
  [][tnSol # None /\ tnSol' # tnSol =>
       tnSol' # None /\ node'[tnSol'].actionCosts < node[tnSol].actionCosts]_vars

(* The search ends by itself.                                              *)
Termination == <>(pc = "done")
=============================================================================
