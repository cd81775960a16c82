----------------------------- MODULE NodeMemory -----------------------------
(***************************************************************************)
(* How search nodes share plan steps and solution steps in memory, and     *)
(* when those are freed (ProgressionNetwork.cpp, Model::prepareTNi, apply, *)
(* decompose, initializeMethod).                                           *)
(*                                                                         *)
(* The heap is object, a function from the names of what is allocated:     *)
(*   <<k, i>>, i > 0   the planStep of subtask i of progression step k     *)
(*   <<k, 0>>          the solutionStep of progression step k              *)
(* Both kinds count the pointers to them in pointersToMe; refs are the     *)
(* pointers they hold (successorList, prev).  A solution step also names   *)
(* the plan step it stands for, and keeps as a history variable the state  *)
(* after it.                                                               *)
(*                                                                         *)
(* delete runs destructors recursively.  dropping is the set of pointers,  *)
(* as pairs of owner and target, whose owner's destructor runs (node i is  *)
(* the owner <<i>>): each step of it decrements one counter and frees the  *)
(* target at zero.  The code drops them depth first; here the order is     *)
(* left open.  Nothing else happens meanwhile: the engine is one thread.   *)
(*                                                                         *)
(* The search is abstracted to any client that calls apply and decompose   *)
(* on nodes it has, and deletes them in any order.                         *)
(***************************************************************************)
EXTENDS ProgressionNetwork

CONSTANTS Problems, MaxProgressions

ASSUME MemoryAssumption ==
  /\ \A h \in Problems : IsProblem(h)
  /\ MaxProgressions \in Nat

VARIABLES
  htn,       \* the problem
  node,      \* the search nodes that are allocated
  object,    \* the plan steps and solution steps that are allocated
  dropping,  \* pointers held by what is being deleted
  made       \* calls of apply and decompose so far

vars == <<htn, node, object, dropping, made>>

-----------------------------------------------------------------------------
NoSolution == <<0, 0>>   \* the null pointer in searchNode::solution

newPlanStep(t, succs, count) ==
  [task |-> t, method |-> 0, step |-> <<0, 0>>, after |-> {}, refs |-> succs,
   pointersToMe |-> count]

newSolutionStep(t, mi, s, after, prev) ==
  [task |-> t, method |-> mi, step |-> s, after |-> after,
   refs |-> IF prev = NoSolution THEN {} ELSE {prev}, pointersToMe |-> 1]

(* What a search node points to.                                           *)
pointersOf(n) ==
  n.prim \cup n.abs \cup (IF n.solution = NoSolution THEN {} ELSE {n.solution})

Init ==
  /\ htn \in Problems
  /\ node = [i \in {0} |-> [prepareTNi(htn) EXCEPT !.task = << >>, !.succ = << >>,
                                                   !.solution = NoSolution]]
  /\ object = [o \in {<<0, 1>>} |-> newPlanStep(htn.initialTask, {}, 1)]
  /\ dropping = {}
  /\ made = 0

-----------------------------------------------------------------------------
(* The worklist loop of apply: everything reachable from the steps given.  *)
reachableFrom(Start) ==
  LET done[k \in Nat] ==
        IF k = 0 THEN Start ELSE UNION {{s} \cup object[s].refs : s \in done[k - 1]}
  IN  done[Cardinality(DOMAIN object)]

potentiallyFirstSteps(n, s) ==
  LET potentialPredecessors ==
        UNION {object[t].refs : t \in (Unconstraint(n) \ {s}) \cup object[s].refs}
  IN  object[s].refs \ reachableFrom(potentialPredecessors)

(* Mutant of counted: the step to the parent's solution is not counted.    *)
countedFirstOnly(n2, parentSolution, o) ==
  object[o].pointersToMe + (IF o \in n2.prim \cup n2.abs THEN 1 ELSE 0)

(* The pointers that the new node n2 takes are counted: one for each first *)
(* task, and one from the new solution step to the parent's.               *)
counted(n2, parentSolution, o) ==
  object[o].pointersToMe + (IF o \in n2.prim \cup n2.abs THEN 1 ELSE 0)
                         + (IF o = parentSolution THEN 1 ELSE 0)

(* Model::apply.                                                           *)
Apply(i, s) ==
  LET n     == node[i]
      k     == made + 1
      a     == object[s].task
      first == potentiallyFirstSteps(n, s)
      count == updateTaskCounterA(n, a)
      after == (n.state \ htn.del[a]) \cup htn.add[a]
      n2    == [n EXCEPT !.state = after,
                         !.prim = (@ \ {s}) \cup {t \in first : isPrimitive(htn, object[t].task)},
                         !.abs = @ \cup {t \in first : ~ isPrimitive(htn, object[t].task)},
                         !.contained = count.tasks,
                         !.numContained = count.num,
                         !.solution = <<k, 0>>,
                         !.actionCosts = @ + htn.cost[a],
                         !.modificationDepth = @ + 1,
                         !.mixedModificationDepth = @ + htn.cost[a]]
  IN  /\ dropping = {}
      /\ made < MaxProgressions
      /\ isApplicable(htn, n, a)
      /\ node' = [j \in DOMAIN node \cup {k} |-> IF j = k THEN n2 ELSE node[j]]
      /\ object' = [o \in DOMAIN object \cup {<<k, 0>>} |->
                      IF o = <<k, 0>> THEN newSolutionStep(a, 0, s, after, n.solution)
                      ELSE [object[o] EXCEPT !.pointersToMe = counted(n2, n.solution, o)]]
      /\ made' = k
      /\ UNCHANGED <<htn, dropping>>

(* Mutant of inherited: one pointer is counted, however many there are.    *)
inheritedOnce(m, d, o) == IF o \in object[d].refs THEN 1 ELSE 0

(* The last tasks of the method take over the successors of the decomposed *)
(* step: each successor is counted once for every last task.               *)
inherited(m, d, o) == IF o \in object[d].refs THEN Cardinality(LastTasks(m)) ELSE 0

(* Mutants of methodStep: the node's pointer to a first task is not        *)
(* counted; the decomposed step's successors are lost.                     *)
methodStepUncounted(m, d, k, i) ==
  newPlanStep(m.subs[i],
              IF i \in LastTasks(m) THEN object[d].refs ELSE {<<k, j>> : j \in Successors(m, i)},
              Cardinality(Predecessors(m, i)))

methodStepAlone(m, d, k, i) ==
  newPlanStep(m.subs[i], {<<k, j>> : j \in Successors(m, i)},
              Cardinality(Predecessors(m, i)) + (IF i \in FirstTasks(m) THEN 1 ELSE 0))

(* initializeMethod: the steps of method m, counted by the orderings of    *)
(* the method, and by the node when they are first tasks.                  *)
methodStep(m, d, k, i) ==
  newPlanStep(m.subs[i],
              IF i \in LastTasks(m) THEN object[d].refs ELSE {<<k, j>> : j \in Successors(m, i)},
              Cardinality(Predecessors(m, i)) + (IF i \in FirstTasks(m) THEN 1 ELSE 0))

(* Model::decompose.                                                       *)
Decompose(i, d, mi) ==
  LET n     == node[i]
      m     == htn.methods[mi]
      k     == made + 1
      first == {<<k, j>> : j \in FirstTasks(m)}
      count == updateTaskCounterM(n, m)
      n2    == [n EXCEPT !.prim = @ \cup {t \in first : isPrimitive(htn, m.subs[t[2]])},
                         !.abs = (@ \ {d}) \cup {t \in first : ~ isPrimitive(htn, m.subs[t[2]])},
                         !.contained = count.tasks,
                         !.numContained = count.num,
                         !.solution = <<k, 0>>,
                         !.modificationDepth = @ + 1,
                         !.mixedModificationDepth = @ + 1]
  IN  /\ dropping = {}
      /\ made < MaxProgressions
      /\ node' = [j \in DOMAIN node \cup {k} |-> IF j = k THEN n2 ELSE node[j]]
      /\ object' = [o \in DOMAIN object \cup {<<k, 0>>} \cup newSteps(m, k) |->
                      IF o = <<k, 0>>
                      THEN newSolutionStep(m.task, mi, d, n.state, n.solution)
                      ELSE IF o \in newSteps(m, k) THEN methodStep(m, d, k, o[2])
                      ELSE [object[o] EXCEPT !.pointersToMe =
                              counted(n2, n.solution, o) + inherited(m, d, o)]]
      /\ made' = k
      /\ UNCHANGED <<htn, dropping>>

(* delete n: searchNode::~searchNode starts.                               *)
Delete(i) ==
  /\ dropping = {}
  /\ dropping' = {<<i>>} \X pointersOf(node[i])
  /\ node' = Restrict(node, DOMAIN node \ {i})
  /\ UNCHANGED <<htn, object, made>>

(* Mutant of DropPointer: ~planStep does not let go of its successors.     *)
DropPointerShallow(p) ==
  LET o    == p[2]
      left == object[o].pointersToMe - 1
  IN  /\ object' = IF left = 0 THEN Restrict(object, DOMAIN object \ {o})
                   ELSE [object EXCEPT ![o].pointersToMe = left]
      /\ dropping' = dropping \ {p}
      /\ UNCHANGED <<htn, node, made>>

(* One pointer of a destructor: decrement, and delete the target at zero,  *)
(* whose own destructor then runs (~planStep, ~solutionStep).              *)
DropPointer(p) ==
  LET o    == p[2]
      left == object[o].pointersToMe - 1
  IN  /\ object' = IF left = 0 THEN Restrict(object, DOMAIN object \ {o})
                   ELSE [object EXCEPT ![o].pointersToMe = left]
      /\ dropping' = (dropping \ {p}) \cup
                       (IF left = 0 THEN {o} \X object[o].refs ELSE {})
      /\ UNCHANGED <<htn, node, made>>

Next ==
  \/ \E i \in DOMAIN node :
       \/ \E s \in node[i].prim : Apply(i, s)
       \/ \E d \in node[i].abs : \E mi \in taskToMethods(htn, object[d].task) : Decompose(i, d, mi)
       \/ Delete(i)
  \/ \E p \in dropping : DropPointer(p)

Spec == Init /\ [][Next]_vars

-----------------------------------------------------------------------------
(***************************************************************************)
(* Properties.                                                             *)
(***************************************************************************)
(* All pointers in memory, as pairs of owner and target.                   *)
Pointers ==
  (UNION {{<<i>>} \X pointersOf(node[i]) : i \in DOMAIN node})
    \cup (UNION {{o} \X object[o].refs : o \in DOMAIN object}) \cup dropping

PointersTo(o) == {p \in Pointers : p[2] = o}

TypeOK ==
  /\ made \in 0 .. MaxProgressions
  /\ DOMAIN node \subseteq 0 .. made
  /\ DOMAIN object \subseteq StepNames
  /\ \A o \in DOMAIN object : object[o].pointersToMe \in Nat

(* pointersToMe is the number of pointers there are, after any history of  *)
(* progressions and deletions: the increments that apply, decompose and    *)
(* initializeMethod make by hand (Model.cpp:716, 967, 1170) fit the        *)
(* pointers they store, and the decrements of the destructors those that   *)
(* go.                                                                     *)
CountsExact ==
  \A o \in DOMAIN object : object[o].pointersToMe = Cardinality(PointersTo(o))

(* No pointer dangles: what a node in use, a living step or a running      *)
(* destructor points to has not been freed.                                *)
NothingDangles == \A p \in Pointers : p[2] \in DOMAIN object

(* Between two calls of the search exactly what the nodes in use reach is  *)
(* allocated: deleting a node frees all that only it reached.              *)
NothingLeaks ==
  dropping = {} =>
    DOMAIN object \subseteq reachableFrom(UNION {pointersOf(node[i]) : i \in DOMAIN node})

(* The chain of solution steps that ends with o, oldest first.             *)
solutionSteps == {o \in DOMAIN object : o[2] = 0}

prevOf(o) == IF object[o].refs = {} THEN NoSolution ELSE CHOOSE q \in object[o].refs : TRUE

chain[o \in solutionSteps \cup {NoSolution}] ==
  IF o = NoSolution THEN << >>
  ELSE Append(chain[prevOf(o)],
              [step |-> object[o].step, instance |-> o[1], task |-> object[o].task,
               method |-> object[o].method, after |-> object[o].after])

(* The node that the code sees when it follows the pointers.               *)
valueOf(i) ==
  LET n     == node[i]
      steps == reachableFrom(n.prim \cup n.abs)
  IN  [n EXCEPT !.task = [s \in steps |-> object[s].task],
                !.succ = [s \in steps |-> object[s].refs],
                !.solution = chain[n.solution]]

(* Sharing is invisible: every node stays what it was made as, whatever    *)
(* happens to the others.                                                  *)
Values == INSTANCE NodeValues WITH value <- [i \in DOMAIN node |-> valueOf(i)]
ImplementsValues == Values!Spec
=============================================================================
