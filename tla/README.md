# Formal models of the PANDA planner in this repository

This directory holds TLA+ models of the HTN planner the repository builds and
ships (`src/pandaPI/`): the progression search of `pandaPIengine`, the memory its
nodes share, the preprocessing of the task graph, the delete-relaxation
heuristics, and the plan verifier of `pandaPIparser`. TLC checks them on small
problems; TLAPS proves the central theorems for every problem. Paths below are
relative to the repository; `E/` abbreviates `pandaPI/pandaPIengine/src/`, `P/`
`pandaPI/pandaPIparser/src/`.

## 1. The system

The repository vendors the three programs of the PANDA toolchain and builds,
packages and releases them.

| Part | State it keeps | Operations | What is hard, and what makes it correct |
|---|---|---|---|
| `pandaPIparser` | syntax tree; sorts, tasks, methods | parse HDDL, compile away constructs, verify plans, write other formats | the passes must preserve the solutions; the verifier must accept exactly the valid plans |
| `pandaPIgrounder` | reachable facts, tasks, methods | generalised planning graph, hierarchy pruning, mutexes, duplicate removal, output | fixpoints; what is removed must be unreachable |
| `pandaPIengine`: HTN model (`E/Model.cpp`) | grounded tasks, methods, orderings, derived tables | read, transitive reduction, instance tests, `prepareTNi`, `apply`, `decompose` | incremental updates: first tasks, task counters; nodes share structure |
| task graph (`E/Model.cpp`) | strongly connected components, reachable tasks, implied minima | one pass over the grounded problem | recursive Tarjan, worklist that must end |
| search nodes (`E/ProgressionNetwork.*`) | state, partially ordered network, chain of solution steps | created by a progression, deleted by the loop | steps shared by reference counts that four functions and three destructors maintain |
| loop (`E/search/PriorityQueueSearch.*`) | node in hand, best solution, clock | expand, goal test, push, report | early and late goal test, dead ends, duplicates, timeout in any order |
| fringe (`E/search/fringes/`) | priority queue by f | push, pop | least f first, ties at random |
| visited list (`E/VisitedList.*`) | hash table of access keys, cost or list of nodes | `insertVisi` | what it prunes must be a duplicate that is not cheaper |
| relaxed composition (`E/heuristics/rcHeuristics/`) | classical problem made of the HTN problem; heap, values, cuts per call | set state and goal for a node; hAdd, hFF, LM-cut, filter | a dead end must be one, LM-cut must be admissible |
| other heuristics (`E/heuristics/`) | payload per node | evaluate a node | admissibility; external LP solver |
| plan verifier (`P/verify.cpp`) | matchings of the steps, those forbidden so far | check the plan, search over matchings, execute | backtracking through pairs of return values; must accept exactly the solutions |
| data structures (`E/intDataStructures/`) | tries, heaps, integer sets | insert, find, iterate | boundaries, sentinels |
| SAT and symbolic planners (`E/sat/`, `E/symbolic_search/`) | formula, BDDs | encode, solve, extract | outer loop over the bound; external solvers |
| scripts and CI (`scripts/`, `.github/`) | build trees, release assets | build, package, check provenance, publish, smoke test | partial failure, repeated publication |

The engine is one thread. What makes it hard is neither concurrency nor
messages but long sequences of calls whose results depend on each other: a node
is made by modifying data of its parent, and an error in one progression step is
inherited by all descendants; whether a node is new depends on what was popped
before; deletion depends on the mode of the visited list. No test of the
repository looks inside the search; the smoke test runs four fixtures.

`PROJECT.json` lists every component with its status and every hazard at its line.

### How the engine's parts interact

    Model::read --problem--> PriorityQueueSearch::search
       search --pop/push--> fringe
       search --insertVisi(n)--> visited list     (late: when popped; early: when made)
       search --apply / decompose--> Model --new node (or goalReachable = false)--> search
       search --setHeuristicValue--> relaxed composition --state, goal--> hAdd, hFF, LM-cut, filter
                                     --value, or "not reachable"--> search
       apply, decompose --apply--> Model          (automatic progressions)
       search --handleNewSolution--> best solution --> extractSolutionFromSearchNode
       nodes --pointersToMe++ / delete--> shared plan steps and solution steps
    Model::read --> calcSCCs, calcSCCGraph, calcMinimalImpliedX --> reachable tasks, minima --> relaxed composition
    plan printed by the engine --> pandaPIparser -verify (a program of its own)

## 2. The modules

| Module | Models | Extends |
|---|---|---|
| `HTN` | the grounded problem of `Model::read`, transitive reduction of method orderings, first and last tasks, the tests for totally ordered problems and parallel sequences | |
| `ProgressionNetwork` | search nodes; `prepareTNi`, `apply`, `decompose`, task counters, goal and applicability tests, effectless steps and forced moves | `HTN` |
| `PlanValidity` | what a printed plan means: one complete tree, orderings kept, actions execute; looks at the plan only | `ProgressionNetwork` |
| `ProgressionSearch` | `PriorityQueueSearch::search` with fringe, simple heuristics, heuristic dead ends, `insertVisi`; type invariant, soundness and the other safety properties of a single search | `PlanValidity` |
| `SearchPromises` | what the answer promises: unsolvability and optimality against all valid plans; what is assumed of visited list and filter | `ProgressionSearch` |
| `TaskSequences` | the key of a network as a sequence of tasks: `to_dfs`, `topSort` | `ProgressionNetwork` |
| `VisitedList` | the access key of a node, `dfsdfs`, `matching` | `TaskSequences` |
| `HTNReference` | all solutions of a problem: decompose completely, keep all orderings, execute | `ProgressionNetwork` |
| `SearchProperties` | the plans of the reference as chains; what the visited list promises | `SearchPromises`, `VisitedList`, `HTNReference` |
| `RelaxedComposition` | `RCModelFactory` and `hhRC2`: the classical problem, the state and goal of a node, the correction for repeated tasks, the split of stored cuts, the filter | `ProgressionNetwork` |
| `MCProgressionSearch` | problems, configurations and counterexamples for TLC | `SearchProperties`, `RelaxedComposition` |
| `NodeValues` | abstract: every search node is a value of its own | `ProgressionNetwork` |
| `NodeMemory` | the heap of plan steps and solution steps, reference counts, destructors pointer by pointer; refines `NodeValues` | `ProgressionNetwork` |
| `MCNodeMemory` | problems with shared successors | `NodeMemory` |
| `RelaxedProblem` | delete-relaxed classical problems, closed sets of facts, relaxed plans | |
| `AddFF` | `hsAddFF::getHeuristicValue` and `getFF`, with 32-bit sums | `RelaxedProblem` |
| `LmCut` | `hsLmCut`: hMax, goal zone, cuts, and the elements a `bucketSet` iterator skips | `RelaxedProblem` |
| `LmCutPromises` | what `hhRC2` promises with LM-cut: an admissible value for the HTN problem, cuts split into actions and methods | `LmCut`, `RelaxedComposition` |
| `WorkshopProblems` | HTN problems, and the relaxed problem of each node that few progressions reach | `RelaxedComposition`, `HTNReference` |
| `MCAddFF`, `MCLmCut` | instances | `WorkshopProblems` and `AddFF` or `LmCutPromises` |
| `TaskGraph` | `calcSCCs` (Tarjan), `calcSCCGraph`, `calcMinimalImpliedX`; what complete decompositions of the tasks cost | `HTN` |
| `MCTaskGraph` | all small task graphs | `TaskGraph` |
| `PlanVerdict` | abstract: a verifier answers once, and rightly | |
| `PlanVerifier` | `verify_plan`, `generateAssignmentsDFS`, `findLinearisation`, `executeDAG` | |
| `PlanReference` | what makes a plan with decompositions a solution; refinement of `PlanVerdict` | `PlanVerifier` |
| `MCPlanVerifier` | plans for TLC | `PlanReference` |
| `IterationProofs` | induction over numbers and subsets, recursion by rank, folds: the lemmas the other proofs take | |
| `ProgressionNetworkProofs`, `ProgressionSearchProofs` | lemmas about `apply` and `decompose`, on networks, on plans and on lists of steps, and about the relaxed composition of a node; the inductive invariants and theorems of the search | `PlanValidity`, `TaskSequences`, `RelaxedComposition`, `ProgressionSearch` |
| `CompletenessProofs` | the answer is right and best: every plan stays within reach of the search; the filter is sound | `SearchPromises`, `RelaxedComposition`, `ProgressionSearchProofs` |
| `NodeMemoryProofs` | memory safety, no leaks, and that `NodeMemory` implements `NodeValues` | `NodeMemory`, `ProgressionNetworkProofs` |
| `AddFFProofs` | type correctness, the value of hAdd, the plan of hFF, and that dead ends are dead for the relaxed and for the HTN problem | `AddFF`, `ProgressionNetworkProofs` |
| `LmCutProofs` | cuts are landmarks, admissibility for the relaxed and for the HTN problem, the split of cuts, the variant of the loop | `LmCutPromises`, `ProgressionNetworkProofs` |
| `TaskGraphProofs` | Tarjan's components, cyclicity, reachable tasks, the implied minima | `TaskGraph` |

What is proved about has no recursive operator: iteration is a recursive
function or a fold, of which `IterationProofs` shows that it exists and what
it computes. The recursive parts (keys and comparison of networks in `VisitedList`, `HTNReference`, `PlanVerifier`) are used
by TLC only; `ProgressionSearch` takes the first as the constants `VisitedKeys`
and `Matching`, and what a heuristic calls unreachable as `DeadEnd`; `SearchPromises`
takes the plans the answer is compared with as `Plans`. The runs
instantiate these with `accessKeys`, `matching`, `filterUnreachable` and
`referencePlans`; the proofs hold for any.

### Correspondence: the search

*Names.* A plan step is named by the pair (number of the progression step that
made it, position in its method), which the code stores in every `planStep`. A
network is the set of steps the code reaches through `unconstraintAbstract`,
`unconstraintPrimitive` and `successorList`.

*Nodes.* `node` maps the numbers of the allocated search nodes to their contents;
`delete` takes a number out of its domain, so that using a deleted node is a
visible error. `fValue` is uninitialised until `push` assigns it (`pushed`);
reading it before yields any of `GarbageValues`.

*The loop.* `pc` is the place in the loop body. One action is one call of the
body; the order of the calls is the code's:

| Action | Code (`E/search/PriorityQueueSearch.h`) |
|---|---|
| `PopKnown`, `PopNew` | 74-96: pop, late visited check, late goal test, which loop is entered |
| `Apply`, `Decompose` | 96-101, 160-167: one iteration; all applicable actions, or all methods of one abstract task in their order |
| `ProgressEffectLess`, `ProgressOneModAction` | the nested calls of `apply` at the end of `Model::apply` and `Model::decompose` (`E/Model.cpp` 902-938, 1340-1376) |
| `DropDeadEnd`, `DropKnown` | 102-111, 168-177: the node is deleted |
| `DropUnreachable` | 115-134, 180-199: the heuristic calls the node unreachable; only the early goal test deletes it |
| `Keep` | 115-152, 180-218: heuristic, early goal test, push |
| `EndExpansion` | 157-158, 224-256: end of the for loop, clock, delete |
| `Report` | 284-305: the status line |

`ProgressEffectLess` is an action of its own because every nested call allocates a
node and deletes the one before; the loop body cannot go on until the stack is
empty (`settled`), so these steps are not optional. The order in which the stack
is emptied follows the order of the unconstraint arrays, which is the order of
addresses: any order is possible in the model.

*Random choices.* The abstract task to decompose is chosen by `rand()` in the
code, ties in the fringe are broken by `rand()`: `\E` in the model. Tie-breaking
by further heuristics is covered by it.

*Visited list.* `insertVisi` returns the set of its possible outcomes. The key
contains exactly what the bit string and the hashes together contain, in each of the
three modes; where the code's result depends on the order of addresses (equal
tasks in `topSort`, layers in `dfsdfs`), all results are possible.

*Abstractions.* Facts for state bits; no names, no text; integers unbounded;
positions start at 1.

### Correspondence: memory of search nodes

`object` is the heap: <<k, i>> is the `planStep` of subtask i of progression step
k, <<k, 0>> the `solutionStep` of that step; `pointersToMe` is the counter the
code keeps by hand, `refs` the pointers an object holds. `Apply`, `Decompose`
and `Init` copy, allocate and count as `Model::apply`, `decompose` with
`initializeMethod`, and `prepareTNi` do. `Delete` runs `~searchNode`: what the
node points to enters `dropping`, and every `DropPointer` decrements one counter
and, at zero, frees the object and drops what it points to. The code recurses
depth first; the order is left open. The client is any that makes and deletes
nodes, of which the search is one. `valueOf` reads a node's value back through the
pointers; with it `NodeMemory` implements `NodeValues`.

### Correspondence: heuristics

`rcPrec`, `rcAdd` and `rcCost` are `RCModelFactory::getRCmodelSTRIPS`: one
action per HTN action and per method, one bit per fact, per action reachable
from above ("tdr") and per task reached from below ("bur"). `s0set` and `gset`
are what `hhRC2::setHeuristicValue` sets for a node, `countCorrection` its
correction for tasks that occur several times.

`AddFF`: `Skip` and `Settle` are the two outcomes of taking an entry of the heap,
`Relax` is one iteration of the loop over the actions of a fact, `VisitGoal`,
`Mark` and `Extracted` are `getFF` with its stack. The heap is the set of its
entries: which of the least it returns is open, and stale entries stay in it as
they do in the code. Sums wrap at `MaxInt` the way `int` does.

`LmCut`: `Skip`, `Settle`, `EndHMax` are `getHMax`; `NextZoneFact`, `Producer`
are `calcGoalZone` with its stack; `EndZone` takes out of the cut what is not
reached from the state outside the zone; `Pay` adds the least cost and reduces the costs. `erased`
models what the code's `bucketSet` does when elements are erased while it is
iterated: it stops after as many elements as are left, so some actions stay in the
cut that should go. Such a cut has more actions, and may be
cheaper, than the algorithm means it to be; `CutsAreLandmarks` and `Admissible`
show that no harm is done.

`filterUnreachable` is plain reachability: `hsFilter` calls hAdd and asks only
whether there is a value, which `AddIsExact` and `UnreachableIsSound` tie to it.

### Correspondence: task graph

`frames` is the call stack of the recursive `tarjan`; `VisitNew`, `VisitSeen` and
`Return` are the two branches of its loop and its end, in any order of the
successors. `ConstructSCCGraph`, `ReachComponent` and `EndReach` are the passes
of `calcSCCGraph`, `UpdateMethod` and `UpdateTask` the two kinds of entries of
the worklist of `calcMinimalImpliedX`, in the order of its queue.

### Correspondence: plan verifier

`CheckPlan` is everything `verify_plan` does before the search. It first brings
the plan (`plan`) into the form the program works on (`pplan`): `withTop` puts a
step `__top`, decomposed by `__top_method`, above the roots unless the plan lists
one itself (`P/verify.cpp:1331-1350`), and `truncated` cuts off arguments beyond the
declared ones, which is a warning only (1442-1451). Then come the checks: whether
the subtasks exist, declarations, duplicates, orphans, and the matchings of every
decomposed step (`generateAssignmentsDFS`, in the code's order, with the sorts of
all variables, 551-562). Wrong declarations, and a plan without a root, end the
verification with `false`; the other checks enter `overallResult`. `__top_method` is
the initial network, so it never has a precondition or an effect (`P/hddl.y:183-193`).
`Attempt` is one pass of `findLinearisation` from the root to an execution, to the
failure of a step, or to the answer: the function returns (true, true) to start over
after a forbidden matching, which is the state `forbidden` the next `Attempt` starts with.
`executeDAG` passes `num_prec` from branch to branch as the code's reference
parameter does. `verdict` is what the program reports; "exit" is its `exit(2)`.

`PlanReference` reads the plan as it is given. It shares with `PlanVerifier` the
domain, what a formula and an effect mean, and the execution of one action or
method, but no check and no change to the plan: `StepsDeclared`, `rooted`, `IsTree` and
`choicesFor` are definitions of their own. In one point it follows the
program: arguments beyond those of the task are ignored, as the warning says.

## 3. Properties and runs

| Run | Module | Expect | Question |
|---|---|---|---|
| `search_partial` | `MCProgressionSearch` | pass | partially ordered problems, lists of nodes compared by `matching`: are networks, counters and buckets consistent and the answer right? |
| `search_modes` | `MCProgressionSearch` | pass | total orders, parallel chains, recursive methods, a clock that may run out at any look, search after a solution, no visited list, dead ends of the filter: are nodes deleted, do keys identify nodes, is the answer right, does the search end? |
| `node_memory` | `MCNodeMemory` | pass | do shared, counted and freed steps behave as values, in every order of progressions and deletions? |
| `add_ff` | `MCAddFF` | pass | is a node dropped only if it has no completion, is the marked set a relaxed plan, is hAdd what its definition says? |
| `lm_cut` | `MCLmCut` | pass | is every cut a landmark, is the value admissible, for the relaxed problem and with the correction for the HTN problem? |
| `task_graph` | `MCTaskGraph` | pass | are components, numbering, reachable tasks and minima right, does the worklist end? |
| `verify` | `MCPlanVerifier` | pass | where the search over matchings never throws an alternative away, does the verifier accept exactly the solutions, and end? |
| `shared_successors`, `fork_unsolvable`, `early_reopens` | `MCProgressionSearch` | violation | findings |
| `verify_root`, `verify_order` | `MCPlanVerifier` | violation | findings |

Deadlock is checked in all runs but those of the verifier and `node_memory`,
where the system stops: the verifier after its answer, the memory when all nodes
are deleted.

| Property | Says | Broken by, for example |
|---|---|---|
| `TypeOK` (search) | nodes are well formed; the loop uses allocated nodes only | deleting the node in hand too early |
| `FirstTasksExact` | the incrementally kept first tasks are the steps without predecessor | forgetting the successors of a decomposed step |
| `CountersExact` | the two merge routines count the network's tasks, and size their arrays right | counting a repeated subtask once |
| `NothingLeftToProgress` | a pushed node has no effectless applicable step and no forced move | not progressing after `decompose` |
| `NoUseAfterDelete` | the solution and the nodes in buckets stay allocated | deleting nodes in the comparing mode |
| `NoNodeLeft` | where nodes are deleted, only fringe, node in hand, child and solution exist | one missing `delete` |
| `SolutionExecutes` | the chain of the solution executes and reaches the goal | skipping a precondition test |
| `SolutionIsValid` | the plan is a complete decomposition that respects every ordering, executes, reaches the goal | accepting a goal with steps left |
| `UnsolvableIsProven` | "Proven unsolvable" is printed only for unsolvable problems | any unsound pruning; a heuristic that misses a reachable task |
| `SolutionIsOptimal` | late goal test, zero heuristic or filter, first solution reported: least g of all solutions, for each kind of g | wrong comparator, missing g |
| `PrunesOnlyDuplicates` | nodes with a common key (and a match) have equal states and isomorphic networks | a key without the state |
| `SolutionOnlyImproves` | a solution is replaced only by a cheaper one | `<=` for `<` |
| `Termination` (search) | the search ends | a known node left in the queue |
| `CountsExact` | every counter is the number of pointers, also while destructors run | counting the inherited successors of one last task only |
| `NothingDangles`, `NothingLeaks` | no pointer to freed memory; what nothing points to is freed | an uncounted pointer; a destructor that does not recurse |
| `ImplementsValues` | refinement: creating and deleting nodes changes no other node's network, chain or state | sharing a step that should be copied |
| `UnreachableIsSound` | hAdd/hFF report a dead end only if some set of facts closed under the relaxed actions excludes the goal, or a sum hit the reserved value | skipping a current entry |
| `MarkedIsPlan` | the actions getFF marks reach the goal in some order from the state | stopping at the first level |
| `AddIsExact` | the value is hAdd by its definition, or unreachable where that has none; wherever no sum is too large, those of actions that cannot be used included | an update that keeps the last value |
| `DeadEndIsDead` | a node the relaxed composition drops has no completion in the HTN problem | reachable actions of the steps only, not of what follows |
| `CutsAreLandmarks`, `CutsCost` | every relaxed plan has an action of every cut; no action of a cut is free | a goal zone of one step |
| `Admissible`, `HeuristicAdmissible` | LM-cut is at most the cheapest relaxed plan; with the correction, at most the cost of any completion of the node | correcting for every occurrence |
| `EveryCutFrees` | the variant of the loop: each paid cut leaves fewer actions with costs | paying all but one |
| `CutsAreSplit` | the binary search finds the border of actions and methods, also in one-kind cuts | a border off by one |
| `ComponentsExact`, `AcyclicityExact` | components are mutual reachability, numbered bottom up; cyclicity flags agree | lowlinks of finished components |
| `ReachableExact` | the kept sets are the transitive closure of the task graph | the first successor component only |
| `ImpliedIsLowerBound` | no complete decomposition of a task is cheaper or shorter than the minima say, at every step of the worklist | greatest for least |
| `Termination` (task graph) | the preprocessing ends | a successor that stays on the list |
| `KeepsPromise` | refinement: the verifier implements `PlanVerdict` with the solutions of `PlanReference`, liveness included | edges of one method lost |
| `AcceptsOnlyValid`, `RejectsOnlyInvalid` | the two halves of it as invariants (violated, see 4) | |

The references share no step with the code they judge: `PlanValidity` reads the plan
that is printed as a tree and compares it with the problem, without any network;
`HTNReference` decomposes
the initial task completely, keeping the whole ordering, and then looks for an
execution. The two meet in `referencePlans`, which writes each solution of
`HTNReference` as a chain (`chainOf`); TLC evaluates the assumption
`ReferencePlansAreValid` that each is a valid plan for `PlanValidity`, on every problem of
every search run. So `UnsolvableIsProven` and `SolutionIsOptimal`, stated with `ValidPlan` in
order to be proved, are checked against plans that were found without the search; `RelaxedProblem` quantifies over sets of facts and of actions;
`TaskGraph` builds the
decomposition trees themselves, level by level (`decompositions`); `PlanReference` quantifies over
bijections, values and executions.

### Bounds

* *Problems of the search.* Three actions (one adds p, one turns p into q, one is
  effectless and needs q), two abstract tasks, two methods each; all orderings of a
  method of three subtasks that follow the positions, all arrangements of four
  actions in chains; 48 recursive problems, from both states and for three goals. These are
  enough for a repeated subtask, a shared successor, an effectless step that
  becomes applicable late, a forced move, a dead end, a duplicate reached by two
  methods, with equal and with different cost, and solvable and unsolvable members
  of each family.
* *`Fuel`* (4 in the search runs, 5 with the heuristics) bounds the
  decompositions of the reference. The non-recursive families need no more, so
  there the reference is complete; in the recursive family it restricts
  `SolutionIsOptimal` to solutions of up to four decompositions, which contain
  the best ones.
* *`CheckAfter`*: the code's `CHECKAFTER` is large; 2 (`search_modes`) makes the
  clock be looked at between any two expansions, 1000 (`search_partial`) never.
* *`GarbageValues`*: what an uninitialised `fValue` reads as: {-1, 3} in
  `search_partial`: less and more than costs that occur, and the value whose payload
  f + 1 is a null pointer; {0} in `search_modes` and the violated runs.
  With the early goal test, reopening and arbitrary garbage a recursive search need
  not end, since every look at the list may read a smaller value; so there the early
  configurations use g value "none".
* *`MaxProgressions`* = 4 calls of `apply` and `decompose` in `node_memory`, in
  any order, on any node, with deletions anywhere in between: two levels of
  methods, a step shared by three nodes, a solution chain with a fork.
* *Heuristics*: every node that three (`add_ff`) or two and one (`lm_cut`)
  progressions reach in sixteen problems with two producers per fact, a cycle, and
  actions that destroy what they need; `MaxCost` = 2 bounds the costs of the first
  family of `lm_cut` (all cost functions of five actions). `MaxInt` = 1000 stands
  for INT_MAX and is not reached by these instances; the overflow is a matter of the
  proofs, which hold for every `MaxInt`.
* *Task graphs*: 106 problems of two actions and three abstract tasks with one or
  two methods each, all in which every task is connected and can be decomposed. `Levels` = 3
  bounds the height of the trees that the minima are compared with: every task of these problems has a
  tree of at most this height. The theorem holds for every `Levels`.
* *Plans*: 1520 plans of one to four actions over two objects: two steps side by
  side or nested, every order of the actions, methods with repeated subtask names,
  preconditions that tell the matchings apart, preconditions of actions, free variables,
  variables of a narrower sort than the task's, constraints, method effects, cyclic
  derived networks, the root listed or not, and malformed plans: arguments too many,
  too few or of the wrong sort, the method of another task, steps too many, too few, listed
  twice or missing, another root, or only the actions. `SettledPlans` leaves out
  the plans in which the order of the actions rules out a matching of one step while
  another step has several matchings: there `verify_order` shows the verifier wrong. The
  remaining plans still make it forbid matchings and start over.

No state constraint is used: the state spaces are finite as they are (the
recursive family because the visited list recognises repeated networks).

### Fairness

The specifications of the search, the task graph, hAdd/hFF and the verifier
contain `WF_vars(Next)`: each is one thread that never waits, so while a step is
possible one is taken. Nothing more is assumed: neither that the queue returns a
given node eventually nor that the clock runs out. `NodeMemory` has no fairness, as
its client need not do anything; that LM-cut ends is stated by a variant
(`EveryCutFrees`) instead. `KeepsPromise` includes the fairness of `PlanVerdict`,
so it says that an answer does come.

## 4. Findings

Each is a run that must be violated.

* `fork_unsolvable`. `computeTransitiveChangeOfMethodOrderings` clears
  `isParallelSequences` only inside the tests on `isUniquePaths`
  (`E/Model.cpp:3067`); the initial method may have a step with two successors and
  the flag stays set, against `assert(s->numSuccessors <= 1)` (`E/VisitedList.cpp:151`).
  In a release build the assertion is compiled out and `to_dfs` ignores the second
  successor: two different networks get one key and a solvable problem is "Proven
  unsolvable".
* `shared_successors`. `matchingDFS` passes its mapping by value
  (`E/VisitedList.cpp:221`): what was matched below the first successor is
  forgotten at the second, and networks that differ in which step is shared match. Again
  a solvable problem is "Proven unsolvable".
* `early_reopens`. `--suboptimal` is documented as "visited lists ignores costs"
  (`E/options.ggo:36`), but the comparing mode compares `fValue`
  (`E/VisitedList.cpp:571`) before `push` has assigned it.
* `verify_root`. When all matchings of a step are forbidden, `findLinearisation`
  returns (true, true) and leaves the retry to its caller (`P/verify.cpp:1218`). The
  root has no caller that retries: `verify_plan` takes the result for success
  and accepts a plan with an action whose precondition does not hold.
* `verify_order`. A step with one forbidden matching and another that contradicts
  the order of the actions fails for good (`P/verify.cpp:1222`): the alternatives
  of steps visited before are not tried, and a solution is turned down. Listed
  the other way round the same plan is accepted.

The problems of the first two are `ForkProblem` and `SharedSuccessorProblem`. The
passing families hold no problem of these shapes: `search_modes` contains
disjoint chains only, and the methods of `search_partial` are too small for two
networks to differ only in a shared successor.

Four more weaknesses of the verifier (an omitted subtask, steps detached from the root,
decompositions that list each other, precedence counts that are not restored when
a method has effects) are hazards in `PROJECT.json` with their lines; the inputs
of the runs avoid them.

## 5. Proofs

`tlapm` checks every leaf.

### The search

The theorems hold for every set of problems the reader accepts, every
configuration, every `CHECKAFTER` and garbage value, and *whatever the visited
list takes for the same node and the heuristic for a dead end*: they need no
assumption on `VisitedKeys`, `Matching` or `DeadEnd`. The only assumption is
`SearchAssumption` (problems satisfy `IsProblem`, configurations have their type).

`ProgressionNetworkProofs` shows that `apply` and `decompose` preserve `NodeInv`:
the node is well typed; its first tasks are exact; the network has no cycle; its
steps are older than the next progression step; its chain executes.

* `PotentiallyFirstExact` is the heart. `apply` takes a successor of s as first when it
  is not reachable from the other unconstrained steps and the other successors of
  s. That this is the same as having no predecessor needs acyclicity: every other step is
  reachable from what remains (`CoveredByOthers`: of the steps that are not, one
  would have no predecessor among them, hence be unconstrained). This is why
  `FirstTasksExact` is not inductive by itself and acyclicity is part of the
  invariant.
* `DecomposeWellFormed` needs that a method has a last task (it is acyclic and not
  empty), else the successors of the decomposed step would lose their predecessor,
  and that step names are fresh (`NamedBefore`).

`ProgressionSearchProofs` lifts this to the loop with `IInv`: all nodes satisfy
`NodeInv`; what is left of the for loop are modifications of the node in hand
(`WorkFits`), else `Apply` might take a step that is not there; the node in hand and
the child are distinct and not in the fringe, else a deletion would hit the
wrong node. One lemma per action.

`NothingDeletedIsUsed` needs a second invariant, `KInv`: the solution and the nodes in
buckets are `Permanent`, that is, not in the fringe where popping may delete, not
the child, and not the node in hand where processed nodes are deleted. It excludes
one build, as the property does: with `OPTIMIZEUNTILTIMELIMIT` and the late goal test the loop
expands the solution node and deletes it where nodes may be deleted.

Four more properties have inductive invariants of their own, each on top of `IInv`.
`SolutionIsValid` comes last and is the most important: what the search reports solves
the problem. The other three:

* `CountersExact`: the two routines that merge counters (`apply` copies and
  decrements, `decompose` adds those of a method, which `IsProblem` defines from the
  method's subtasks) agree with the number of steps of each task in the network,
  because step names are fresh and a step leaves once.
* `NothingLeftToProgress` (`PInv`): `decompose` offers only new first tasks to
  the stack of effectless steps. Older ones stay inapplicable because a
  decomposition does not change the state, and `apply` looks at all of them again.
* `NoNodeLeft` (`FInv`): every allocated node is in the fringe, in hand, under
  construction, or one of those the heuristic dropped after the late check.

*Plans are valid.* `PlanInv` relates the network of a node to its chain at every node, not
only at a goal. Call the steps of the network and the actions of the chain the
*leaves* of the plan:

* `PlanNames`: no step occurs twice in the chain; what is in the network is not in
  it; the steps the chain's decompositions made are exactly the leaves and the
  decomposed steps.
* `ParentsFirst`: a step that is not the root was made by an earlier entry. The tree
  below the root is therefore complete: a set of steps that contains the root and the
  children of its members contains every entry, by the least one it lacks.
* `PlanTasks`: methods are used for their tasks, and steps have the tasks the methods give
  them, in the chain and in the network.
* `LeavesOrdered`: two subtasks a method orders have under them leaves that
  are all `before` each other. What `before` means depends on how far the search got:
  two actions of the chain stand in this order, an action of the chain is before
  a step of the network, and two steps of the network are connected by successors.

`ApplyPlan`: the step that leaves the network is unconstrained, so nothing in the
network is before it, and it stands behind all actions of the chain. `DecomposePlan`: the
new steps take the place of the decomposed one as leaves (`UnderAfterDecomposition`).
That nothing comes loose rests on the last tasks of a method: they get the successors of the
decomposed step, and every new step leads to a last task since the method is
acyclic (`NewStepsReachOld`);
and what led to the decomposed step leads to all new ones, because a step can
only be decomposed when nothing precedes it (`DecomposeKeepsBefore`).
At a goal the network is empty, so all leaves are actions of the chain and `before` is the
order of the plan (`GoalPlan`). `isGoal` itself only sees that no first task is left; that
then no step is left (`GoalIsEmpty`) is acyclicity once more.

### Completeness and optimality

`CompletenessProofs` shows the converse of validity: if the problem has a plan, the search
does not say that it has none, and a best-first search (late goal test, no
heuristic value) does not report a dearer one. The theorems hold for every
problem, configuration, choice between nodes of equal f, moment at which the clock
runs out, and value an uninitialised `fValue` holds.

*A plan completes a node* (`Completes`): the steps of the node's network are
mapped to entries of the plan; what is below these entries executes from the
node's state, in the order of the plan, and reaches the goal; the orderings of the network hold
between the leaves below. `Fits` counts what this leaves: at
most L entries, and a g value which, with what the node has spent, is at most the plan's.
The initial node is completed by every valid plan (`InitialCompletion`).

*One progression goes along* (`Progress`). Which steps a node branches over depends on its
network: all applicable actions, or the methods of *one* abstract task. If the
first action of the rest of the plan is applicable, `apply` follows it
(`ActionStep`); else the node decomposes some task, whichever the loop picks, and the plan has an
entry for it, whose method is among those tried (`DecomposeStep`). Both leave
one entry fewer. Effectless actions that `progressEffectLess` applies at once,
before their turn, are in the plan as well; taking them out of the rest changes no
state in between (`ReachesWithout`, `EffectLessProgress`).

*The plan stays within reach.* `KeptOpen`: as long as no solution is found, there is
an L such that some node is *open*, that is, the plan completes it with at
most L entries: a node of the fringe, the child in hand, or a child still to be
made of the node in hand. But an open child may be dropped because the list has its
key, and the node that put the key there may long be expanded. So `Pending` adds, for the same L,
that everything the list knows is *exhausted* (`ListDone`): the plan completes it with *more* than L entries only.
A node with a key of the list has the same completions as a node the list
knows (`SameCompletion`), hence is not the open one (`KnownIsDone`); and when a node enters
the list on its expansion, some child needs fewer entries than it, so L decreases
with it (`NewIsDone`). With the early check a node enters the list before it
is expanded: then the node waiting in the fringe may be the one the list knows, and
the list is exhausted up to L - 1 only (`Waiting`).

With g values in the list a node is dropped only if it has spent at least as much
as the one before, and reopened otherwise. `Fits` therefore also bounds g, for
optimality by the g the search uses. For the answer "unsolvable" the same
invariant is used with the g value "none": then an entry counts as exhausted whatever its payload is, and
an uninitialised `fValue` or a reopening too many does no harm (`Counted`).
When the fringe is empty nothing is open (`UnsolvableStays`); when a
best-first search pops a goal, an open node is still in the fringe and its g
value, at most the plan's, is not below that of the goal (`FoundIsBest`).

*The two assumptions.* `PruningIsSound`: of the nodes progression leads to,
those with a common key (and a match, where the list compares networks) have the same state
and isomorphic networks. `DeadEndIsSound`: from a node the filter drops,
progression leads to no goal. For the list as it is the
first is false for partially ordered problems with shared successors; the runs
`shared_successors` and `fork_unsolvable` show such nodes and what follows,
a solvable problem called unsolvable. In the runs `search_partial` and
`search_modes` it is checked as `PrunesOnlyDuplicates`. The second is proved for the
filter the code has (`FilterIsSound`), so that without visited list
(`ExhaustiveSearchIsComplete`) nothing is assumed.

*The filter is sound* (`FilterSoundness`), where `DeadEnd` is `filterUnreachable`
(`FilterIsRelaxed`, the assignment of the runs). Let C be what
the relaxed composition reaches from the state and the actions below the network of node n.
C is closed under its rules (`ClosedRC`): as many rounds as there are rules are enough, because the
rules whose additions are all there grow in number until nothing changes (`ClosureIsClosed`).
Forward, every node progression makes of n has its facts and the actions below its steps in
C (`Covers`): a decomposition adds only tasks below the decomposed one (`TasksBelow`), and the
effects of an applied action are among the relaxed ones. That all actions below n are in
the state to begin with needs every step to follow an unconstrained one (`EveryStepFollows`,
from the acyclic network), for the code collects them from the unconstrained steps only.
Backward from a goal node, C composes the tasks of each node on the way (`Composes`): of the
applied action by the rule of that action, of the decomposed task by the rule of the method. So C
contains the goal of n, and n is not dropped. The invariant has to carry both directions at once: it says
of each node on the way that it is covered and that, if C composes it, C composes n.

*Totally ordered problems* need no assumption about the list (`TotalOrderIsComplete`): the
first one is proved for the keys `insertVisi` builds there (`SequentialPruning`). In a
method whose positions have one neighbour each, but for the two ends, the positions are a
list (`MethodIsListed`: a chain that does not end in the last position can go on, and what it
leaves out would have a first position whose predecessor is on it). Then every
network is a list of steps: `apply` takes the first off (`ApplyListed`), `decompose` puts a method's
list in its place (`DecomposeListed`). On a list `to_dfs` and `topSort` both give the tasks in
order (`ToDfsOfList`, `TopSortsOfList`, by induction from the end), and two lists with equal
tasks are isomorphic (`ListedAlike`).

### Memory of search nodes

The theorems hold for every problem, any number of progressions and any order of
deletions (`MemoryAssumption`: problems satisfy `IsProblem`).

`IInv` of `NodeMemoryProofs`: counters equal the number of stored pointers,
pointers of running destructors included (`Counted`); no pointer dangles; owners
whose destructor runs are gone (`DroppingGone`), else a pointer would be dropped
twice; names of later steps are fresh (`NamesInUse`). A dangling pointer is excluded
only because counters are exact, and counters stay exact only because nothing
dangles, so the two are proved together. `AllocateIInv` is the common part of
`Apply` and `Decompose`: it relates the new pointers to the increments by hand;
`DropPointerIInv` splits on whether the counter reaches zero.

*Nothing leaks.* Counting alone does not show it: objects on a cycle would keep each
other alive. `Tidy` adds that the heap has no cycle (methods are acyclic, and solution
steps point to older ones) and that no counter is zero. Of the objects no node reaches, one that nothing points to would
then exist, and its counter would be zero.

*Refinement.* `ImplementsValues`: the initial state maps to an initial state of `NodeValues`, and each
action to the action of the same name or to a stutter. The mapping follows
pointers (`reachableFrom`, `chain`), so the work is to show that neither making a
node nor freeing an object changes what another node reaches. `reachableFrom` is
an iteration, `chain` a recursive function; `GrowthEnds` and `RecursionByRank`
turn them into the least closed set and into an equation (`LeastClosed`,
`ChainsFollowPrev`). For `Apply` and `Decompose` it remains that what the pointers
of the new node lead to is what `apply` and `decompose` of the abstract values
compute (`ProgressionNetworkProofs`).

### hAdd and hFF

The theorems hold for every relaxed problem, every order of equal heap entries and
every INT_MAX (`AddFFAssumption`).

`LoopInv` of `AddFFProofs` is the argument of Dijkstra: no key in the heap is
below the one in hand, settled facts have no value above it, and every counter is the
number of preconditions not yet settled, plus one for an action still to be
visited. The latter makes `numSatPrecs` = 0 mean that all preconditions are
settled. When the heap runs empty with a goal fact open, the facts with a value
are closed under the actions and exclude the goal. An overflow can make a sum equal
to INT_MAX, the value for unreachable; `UnreachableIsSound` allows this case by
name, and for no other.

`MarkedIsPlan` is about the extraction, which follows `reachedBy` from the goal.
Values cannot order this walk: a free action gives its effects the value of
its preconditions. `ReachersInv` orders it by the time facts were settled instead: any set of facts that contains
a settled fact as soon as it contains the preconditions of its `reachedBy` (and
the facts of the state that have none) contains all settled facts.
This survives the overwriting of entries, since only those of facts that are not settled
are overwritten. `MarkInv` says that preconditions of marked actions, and
goals, are marked or on the stack; when the stack is empty, what the marked
actions reach together with the facts that are not marked is such a set, so
every goal is reached. The theorem needs no bound on the stack, which the model does not have.

`AddIsExact` compares with the definition of hAdd, an iteration over functions that
have values for some facts (`improved`). `AddInv` says that the value of an action is
its cost plus the sum over the preconditions *taken* (`taken`: settled, except the fact
in hand while the action waits), and that a fact has the final value of the action
that reached it. At each of the three ends of the search let K be the key in hand (INT_MAX
when the heap is empty). Values cut off at K are undercut by no action, so no round of
the definition gets below them (`RoundsStayAbove`); facts that are settled get
their values from the state by actions whose preconditions are settled before, so as many rounds as
there are facts reach them (`RoundsReach`). Hence settled facts have exactly the value
of the definition (`ValuesAreExact`). The condition on sums is about all actions, also
those with a precondition that is out of reach: an overflow in the sum over its other
preconditions ends the search with INT_MAX - 2. Without that condition the statement is
false, and the case `RelaxExact` of the proof is where it is used.

`DeadEndsAreDead` carries the dead ends over to the HTN problem. It takes the instances to be
relaxed compositions of nodes the search can obtain (`IsComposition`), with the
costs of progressing them to a goal as `completed`; in the run these costs come from
`HTNReference`, which decomposes completely and gives the same. By `CompletionIsComposed`, shared with LM-cut, whatever contains the
state of the composition and is closed under the rules of some actions that
a completion executes, and of all methods, contains the goal. So does the set
of facts with a value, which is closed when hAdd ends with an empty heap. What remains is a sum that is
exactly INT_MAX, of an action or of the goal: `SumsMissUnreachable` excludes it,
and is true of all states of the run.

### LM-cut

The theorems hold for every relaxed problem (`LmCutAssumption`), every order
of equal heap entries, every choice among dearest goal facts, and every iteration of the
cut that stops early.

* `HMaxInv`: what `getHMax` computes. `maxPrec` is the dearest *settled*
  precondition, which only later becomes the dearest of all; facts of an action
  all of whose preconditions are settled are not dearer than it; whatever is
  closed contains all that has a value (`Justified`). It stays true while the zone and the cut
  are made, since costs change only in `Pay`.
* `ZoneInv`: an action that leads into the goal zone is still to be looked at, or comes
  from the zone, or is in the cut. Cut actions cost something, since
  what a free action needs joins the zone; and the facts the second reachability test looks at
  are noted. At `EndZone` the facts outside the zone that are reached without the
  cut are a set the uncut actions do not leave (`Separates`).
  An early stop of the iterator only leaves more actions in the cut, which keeps
  such a set closed. So `CutsAreLandmarks`.
* The cut is not empty, because the goal fact has a value above zero and `Justified`
  says that the state reaches it.
* `Bounded`: what is paid, with what a plan costs by the reduced costs, is not more
  than what the plan costs. The step needs that the plan has an action of the cut
  (`Separates`), so it becomes cheaper by at least what is paid; sums over sets are
  folds (`LowerTotal`).

*Admissible for the HTN problem* (`HeuristicIsAdmissible`). The value is paid by the relaxed plan that a
completion of the node gives: `CompletionIsComposed` counts for each action how
often the completion executes it (`weighted`), so that the costs are the weighted
sum, and every task of the network is executed at least as often as the network contains it.
Each action executed counts once for LM-cut (`CompositionReaches`: with the methods, which are free, they reach the goal), and the
correction adds its cost for every occurrence beyond the first. Whether the two together
stay below the weighted sum is decided action by action (`CorrectedBound`): an action that is
contained k times is executed at least k times. `countCorrectionAll`, which
corrects for the first occurrence too, is the mutant that breaks it. The hypothesis on completions is that they cost
less than INT_MAX, the value for unreachable.

*Cuts are split* (`SplitIsRight`): the binary search of `hhRC2` keeps the border between its two
bounds (`SplitIsBorder`, by induction over their distance). The stored cut is an ascending list (`SortedExists`).

### Task graph

The theorems hold for every problem whose tasks are connected to the initial one
(`TaskGraphAssumption`), every order of subtasks and every order of ready
components. The invariant of `tarjan`:

* `Numbering`: the stack `S` and the call frames are in the order of `dfsI`, and
  every task is new, on `S`, or in a component.
* `Paths`: a task on `S` reaches those above it, and reaches a task not above it that still
  has a frame.
* `SeenEdges`: only edges still to be visited lead to new tasks.
* `LowlinkReached`: a lowlink is the number of a task on `S` that is reached.
* `LowlinkLeast`: an edge that was seen and leads from above a frame to a task on `S`
  is noted in a lowlink of that frame or of a later one. It is stated for frames
  together: a lowlink is handed to the caller only when a call returns.
* `ComponentsInv`: finished components are classes of mutual reachability, closed
  under edges, and numbered so that no edge leads to a greater number.

When a call returns with `lowlink = dfsI`, the part of `S` from its task on is one
class: `LowlinkLeast` excludes edges to below it, `SeenEdges` edges to
new tasks, `Paths` gives a way between any two of its tasks.

`GraphInv` and `ReachInv` carry `calcSCCGraph`: `ready` counts the components below
that have no sets yet, and a component waits exactly when it counts none. Of
the components left when none waits, the one with the least number would
wait (edges descend). `AcyclicFound` computes the fold over the
component numbers by induction (`AcyclicUpTo`): up to k it has found the components below k
none of whose tasks reaches a cycle.

`ImpliedInv` carries `calcMinimalImpliedX`: the value of a task is never above that of one of
its methods, and the value of a method never above what its subtasks
sum up to *now* (`Rising`). The second half makes it inductive: a task only rises when it
takes the least of its methods, and then the sums it is part of rise with it (`SumsRise`). So
at every step, with entries still in the queue, a tree of decompositions costs at least
what its root is said to imply, by induction over the height (`HigherIsAbove`, `DecompositionsAbove`).
That the values stop rising is `Termination`, which stays with TLC.

### Lemmas about data

`IterationProofs` replaces induction principles that take a predicate: a set of
numbers that contains 0 and successors is `Nat` (`Induction`, from
well-foundedness of <), a family of subsets likewise (`SubsetInduction`); a step
function has an iteration (`Recursion`), and a functional that looks at lower
ranks only has a fixpoint (`RecursionByRank`). From these follow that a growing
sequence of subsets of a finite set ends within its size (`GrowthEnds`) and that
the fold operators of the community modules satisfy their equations (`FoldExists`,
`FoldByExists`), that a sum over a set is monotone and changes with a member by as
much (`TotalIsSum`, `LowerTotal`, `TotalFacts`). They are applied to set comprehensions
and function constructors.

### Theorems

| Theorem | Statement | Module |
|---|---|---|
| `TypeCorrect` | `Spec => []TypeOK` | `ProgressionSearchProofs` |
| `FirstTasksAreExact` | `Spec => []FirstTasksExact` | |
| `SolutionIsExecutable` | `Spec => []SolutionExecutes` | |
| `SolutionsImprove` | `Spec => SolutionOnlyImproves` | |
| `NothingDeletedIsUsed` | `Spec => []NoUseAfterDelete` | |
| `CountersAreExact` | `Spec => []CountersExact` | |
| `NothingIsLeftToProgress` | `Spec => []NothingLeftToProgress` | |
| `NoNodeIsLeft` | `Spec => []NoNodeLeft` | |
| `PlansAreValid` | `Spec => []SolutionIsValid` | |
| `CompleteInvariance` | `Spec /\ PruningIsSound /\ DeadEndIsSound => [](BaseInv /\ CompleteInv)` | `CompletenessProofs` |
| `UnsolvableIsRight` | `Spec /\ PruningIsSound /\ DeadEndIsSound => []UnsolvableIsProven` | |
| `SolutionIsBest` | `Spec /\ PruningIsSound /\ DeadEndIsSound => []SolutionIsOptimal` | |
| `FilterIsSound` | `Spec /\ FilterIsRelaxed(htn) => []DeadEndIsSound` | |
| `ExhaustiveSearchIsComplete` | `Spec /\ conf.noVisitedCheck /\ FilterIsRelaxed(htn) =>` both | |
| `TotalOrderIsComplete` | `Spec /\ isTotallyOrdered(htn) /\ KeysAreSequences(htn, conf) /\ FilterIsRelaxed(htn) =>` both | |
| `TypeCorrect` | `Spec => []TypeOK` | `NodeMemoryProofs` |
| `ReferencesAreCounted` | `Spec => []CountsExact` | |
| `NoPointerDangles` | `Spec => []NothingDangles` | |
| `MemoryIsFreed` | `Spec => []NothingLeaks` | |
| `Refinement` | `Spec => ImplementsValues` | |
| `TypeCorrect` | `Spec => []TypeOK` | `AddFFProofs` |
| `DeadEndsAreSound` | `Spec => []UnreachableIsSound` | |
| `ExtractedPlanReaches` | `Spec => []MarkedIsPlan` | |
| `AddIsRight` | `Spec => []AddIsExact` | |
| `DeadEndsAreDead` | `Spec /\ []SumsMissUnreachable => []DeadEndIsDead`, instances being compositions | |
| `TypeCorrect` | `Spec => []TypeOK` | `LmCutProofs` |
| `CutsSeparate` | `Spec => []CutsAreLandmarks` | |
| `EveryCutCosts` | `Spec => []CutsCost` | |
| `ValueIsAdmissible` | `Spec => []Admissible` | |
| `PayingFrees` | `Spec => EveryCutFrees` | |
| `HeuristicIsAdmissible` | `Spec => []HeuristicAdmissible`, instances being compositions, completions cheaper than INT_MAX | |
| `SplitIsRight` | `Spec => []CutsAreSplit`, instances being compositions | |
| `TarjanFindsComponents` | `Spec => []ComponentsExact` | `TaskGraphProofs` |
| `AcyclicFound` | `Spec => []AcyclicityExact` | |
| `ReachableSetsExact` | `Spec => []ReachableExact` | |
| `ImpliedIsBelow` | `Spec => []ImpliedIsLowerBound` | |

Only model-checked, not proved:

* `PrunesOnlyDuplicates` for partially ordered problems: it is false for the list as
  it is (section 4), so it is what `UnsolvableIsRight` and `SolutionIsBest` assume; for
  totally ordered problems it is proved (`SequentialPruning`).
* `KeepsPromise`: the verifier backtracks by recursion, and the operators that
  model it are recursive, which the prover does not handle.
* `Termination` and the liveness half of `KeepsPromise`: the prover has
  neither liveness under fairness nor `ENABLED`.

## 6. Not modelled

* In the search: several heuristics at once and tie-breaking statistics;
  conditional effects, which the search does not read; landmark tracking; the
  output of the search space; the clean-up of debug builds. Nodes dropped by the
  heuristic with the late goal test are never deleted
  (`E/search/PriorityQueueSearch.h:134`); the model does the same, and `NoNodeLeft`
  allows exactly these.
* In the visited list: the hash, which only selects a trie (`E/VisitedList.cpp:519-526`),
  and the trie itself, which compares the whole access key, so that nodes with
  equal hashes and different keys are not confused; the width of bit fields.
* Integer overflow of costs and f values in the search, of sums in LM-cut and in
  the task graph (in `AddFF` sums do wrap).
* In the heuristics: `updateHMax` (`LMCINCHMAX` is not defined, so the build has
  only the recomputation); the bound of the stack `needToMark`; what other
  heuristics do with stored cuts. `hhLMCount` has its body
  commented out in the source.
* In the task graph: tasks that the initial task does not reach (tarjan leaves
  them without a component; the code guards it by assertions, the model by
  `TaskGraphAssumption`) and tasks without a complete decomposition, on which the
  minima rise without bound.
* In the verifier: the text of plans (`parse_plan`, `convert_plan`), an empty plan
  (`exit(0)`), lenient mode, formulas other than conjunctions of atoms and inequalities of
  method variables, and the execution of a plan without a root, whose outcome is
  printed and not used (the result is always false). Steps that are their own
  descendants are not among the inputs (the recursion has no end, a hazard).
* The components marked `not_modelled` in `PROJECT.json`, each with its reason. By
  lines, most of the repository is vendored (the BDD library cudd, cpddl) or
  generated; the map covers hand-written code of the planner only, and a high share
  of all lines is out of reach for that reason.

## 7. Plan

Done: the core (progression search, visited list, reference semantics); memory of
search nodes; relaxed composition, hAdd, hFF, LM-cut, filter; task graph; plan
verifier; the proofs of section 5. Left to prove is that the list recognises duplicates in problems of
parallel sequences without a fork, and that the verifier accepts only solutions, which needs its
search written without recursive operators first. Left to model, in this order:

1. *Data structures*: the trie of the visited list as a refinement of a function
   from keys to payloads; the indexed heap as a refinement of a priority queue.
2. *Landmarks* (`E/heuristics/landmarks/`): the AND/OR fixpoint and the counting.
3. *Parser*: order decomposition (`P/orderingDecomposition.cpp`).
4. *Grounder*: planning graph fixpoint, duplicate removal and method pruning
   against a reference reachability.
5. *SAT planner's outer loop*, *release scripts*: bound iteration with timeout;
   publication with partial failure and repetition; the smoke test's watchdog.
