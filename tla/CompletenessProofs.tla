------------------------- MODULE CompletenessProofs -------------------------
(***************************************************************************)
(* Proofs that the search loses no solution and that its first one is a    *)
(* best one, for every problem and configuration.                          *)
(***************************************************************************)
EXTENDS SearchPromises, RelaxedComposition, ProgressionSearchProofs

-----------------------------------------------------------------------------
(***************************************************************************)
(* The tree of a valid plan.                                               *)
(***************************************************************************)
(* Steps that are subtasks of each other only do not exist: no step has    *)
(* two parents, the initial task has none, and all stem from it.           *)
children(h, sol, s) == tree(h, sol)[s]

LEMMA UnderStep ==
  ASSUME NEW h, NEW sol, NEW x \in treeSteps(h, sol)
  PROVE  /\ x \in under(h, sol, x)
         /\ under(h, sol, x) \subseteq treeSteps(h, sol)
         /\ \A y \in under(h, sol, x) : children(h, sol, y) \subseteq under(h, sol, x)
         /\ \A X \in SUBSET treeSteps(h, sol) :
              x \in X /\ (\A y \in X : children(h, sol, y) \subseteq X) => under(h, sol, x) \subseteq X
<1>1. {x} \in SUBSET DOMAIN tree(h, sol)
  BY TreeIsGraph
<1>2. {x} \subseteq under(h, sol, x)
  BY <1>1, StartIsReachable DEF under
<1>3. \A y \in under(h, sol, x) : children(h, sol, y) \subseteq under(h, sol, x)
  BY TreeIsGraph, SuccessorIsReachable DEF under, children
<1>4. under(h, sol, x) \subseteq treeSteps(h, sol)
  BY TreeIsGraph DEF under, Reachable
<1>5. ASSUME NEW X \in SUBSET treeSteps(h, sol), x \in X,
             \A y \in X : children(h, sol, y) \subseteq X
      PROVE  under(h, sol, x) \subseteq X
  BY <1>5, TreeIsGraph, ReachableInClosed DEF under, children
<1> QED
  BY <1>2, <1>3, <1>4, <1>5

(* A child of a step is a subtask of the one entry that decomposes it.     *)
LEMMA ChildIsSubtask ==
  ASSUME NEW h, NEW sol, ValidPlan(h, sol), NEW x \in treeSteps(h, sol)
  PROVE  /\ children(h, sol, x) \subseteq treeSteps(h, sol)
         /\ \A i \in DOMAIN sol : sol[i].step = x =>
              children(h, sol, x) = IF i \in decompositions(sol) THEN childrenOf(h, sol[i]) ELSE {}
         /\ \E i \in DOMAIN sol : sol[i].step = x
<1>1. children(h, sol, x) = UNION {childrenOf(h, sol[i]) : i \in decompositionsOf(sol, x)}
  BY DEF children, tree
<1>2. \A i, j \in DOMAIN sol : sol[i].step = sol[j].step => i = j
  BY DEF ValidPlan, treeComplete, namesDistinct
<1>3. ASSUME NEW i \in DOMAIN sol, sol[i].step = x
      PROVE  children(h, sol, x) = IF i \in decompositions(sol) THEN childrenOf(h, sol[i]) ELSE {}
  <2>1. decompositionsOf(sol, x) = IF i \in decompositions(sol) THEN {i} ELSE {}
    BY <1>2, <1>3 DEF decompositionsOf, decompositions
  <2> QED
    BY <1>1, <2>1
<1>4. \E i \in DOMAIN sol : sol[i].step = x
  BY DEF ValidPlan, treeComplete, stepsOf
<1> QED
  BY <1>3, <1>4, TreeIsGraph DEF children

LEMMA OneParent ==
  ASSUME NEW h, NEW sol, ValidPlan(h, sol), NEW x \in treeSteps(h, sol),
         NEW c \in children(h, sol, x)
  PROVE  /\ c # rootStep
         /\ \A z \in treeSteps(h, sol) : c \in children(h, sol, z) => z = x
<1>1. PICK i \in decompositions(sol) : sol[i].step = x /\ c \in childrenOf(h, sol[i])
  BY ChildIsSubtask
<1>2. c # rootStep
  BY <1>1 DEF ValidPlan, treeComplete
<1>3. ASSUME NEW z \in treeSteps(h, sol), c \in children(h, sol, z)
      PROVE  z = x
  <2>1. PICK j \in decompositions(sol) : sol[j].step = z /\ c \in childrenOf(h, sol[j])
    BY <1>3, ChildIsSubtask
  <2>2. c[1] = sol[i].instance /\ c[1] = sol[j].instance
    BY <1>1, <2>1 DEF childrenOf
  <2> QED
    BY <1>1, <2>1, <2>2 DEF ValidPlan, treeComplete, namesDistinct
<1> QED
  BY <1>2, <1>3

LEMMA NoOrphans ==
  ASSUME NEW h, NEW sol, ValidPlan(h, sol), NEW W \in SUBSET treeSteps(h, sol),
         \A y \in W : \E x \in W : y \in children(h, sol, x)
  PROVE  W = {}
<1> DEFINE X == treeSteps(h, sol) \ W
<1>1. rootStep \in X
  BY OneParent DEF treeSteps
<1>2. \A y \in X : children(h, sol, y) \subseteq X
  BY OneParent, ChildIsSubtask
<1>3. under(h, sol, rootStep) \subseteq X
  <2>1. X \in SUBSET treeSteps(h, sol) /\ rootStep \in treeSteps(h, sol)
    BY DEF treeSteps
  <2> HIDE DEF X
  <2> QED
    BY <1>1, <1>2, <2>1, UnderStep
<1> QED
  BY <1>3 DEF ValidPlan, treeComplete

(* A step is not under its children, nor is anything under two of them.    *)
LEMMA ParentInside ==
  ASSUME NEW h, NEW sol, NEW x \in treeSteps(h, sol), NEW y \in under(h, sol, x), y # x
  PROVE  \E z \in under(h, sol, x) : y \in children(h, sol, z)
<1> DEFINE U == under(h, sol, x)
           X == {u \in U : u = x \/ \E z \in U : u \in children(h, sol, z)}
<1>1. /\ x \in U /\ U \subseteq treeSteps(h, sol)
      /\ \A u \in U : children(h, sol, u) \subseteq U
  BY UnderStep
<1>2. X \in SUBSET treeSteps(h, sol) /\ x \in X /\ \A u \in X : children(h, sol, u) \subseteq X
  BY <1>1
<1>3. U \subseteq X
  BY <1>2, UnderStep
<1> QED
  BY <1>3

LEMMA NotUnderChild ==
  ASSUME NEW h, NEW sol, ValidPlan(h, sol), NEW x \in treeSteps(h, sol),
         NEW c \in children(h, sol, x)
  PROVE  x \notin under(h, sol, c)
<1> SUFFICES ASSUME x \in under(h, sol, c) PROVE FALSE
  OBVIOUS
<1>1. c \in treeSteps(h, sol)
  BY ChildIsSubtask
<1>2. \A y \in under(h, sol, c) : \E z \in under(h, sol, c) : y \in children(h, sol, z)
  BY <1>1, ParentInside
<1>3. c \in under(h, sol, c) /\ under(h, sol, c) \in SUBSET treeSteps(h, sol)
  BY <1>1, UnderStep
<1> QED
  BY <1>2, <1>3, NoOrphans

LEMMA ChildrenApart ==
  ASSUME NEW h, NEW sol, ValidPlan(h, sol), NEW x \in treeSteps(h, sol),
         NEW c \in children(h, sol, x), NEW d \in children(h, sol, x), c # d
  PROVE  under(h, sol, c) \cap under(h, sol, d) = {}
<1> DEFINE A == under(h, sol, c)
           B == under(h, sol, d)
<1>1. c \in treeSteps(h, sol) /\ d \in treeSteps(h, sol)
  BY ChildIsSubtask
<1>2. A \subseteq treeSteps(h, sol) /\ B \subseteq treeSteps(h, sol)
  BY <1>1, UnderStep
<1>3. c \notin B /\ d \notin A
  <2>1. \A u, w \in children(h, sol, x) : u # w => u \notin under(h, sol, w)
    <3> SUFFICES ASSUME NEW u \in children(h, sol, x), NEW w \in children(h, sol, x), u # w,
                        u \in under(h, sol, w)
                 PROVE  FALSE
      OBVIOUS
    <3>1. w \in treeSteps(h, sol)
      BY ChildIsSubtask
    <3>2. PICK z \in under(h, sol, w) : u \in children(h, sol, z)
      BY <3>1, ParentInside
    <3>3. z \in treeSteps(h, sol)
      BY <3>1, UnderStep
    <3>4. z = x
      BY <3>2, <3>3, OneParent
    <3> QED
      BY <3>2, <3>4, NotUnderChild
  <2> QED
    BY <2>1
<1>4. ASSUME NEW y \in A \cap B
      PROVE  \E z \in A \cap B : y \in children(h, sol, z)
  <2>1. y # c /\ y # d
    BY <1>3
  <2>2. PICK z \in A : y \in children(h, sol, z)
    BY <1>1, <2>1, ParentInside
  <2>3. PICK w \in B : y \in children(h, sol, w)
    BY <1>1, <2>1, ParentInside
  <2>4. z = w
    BY <1>2, <2>2, <2>3, OneParent
  <2> QED
    BY <2>2, <2>4
<1>5. A \cap B \in SUBSET treeSteps(h, sol)
  BY <1>2
<1> QED
  BY <1>4, <1>5, NoOrphans

(* What is under a step: itself and what is under its children.            *)
LEMMA UnderChildren ==
  ASSUME NEW h, NEW sol, NEW x \in treeSteps(h, sol)
  PROVE  /\ under(h, sol, x) = {x} \cup UNION {under(h, sol, c) : c \in children(h, sol, x)}
         /\ \A c \in children(h, sol, x) : c \in treeSteps(h, sol)
         /\ \A y \in under(h, sol, x) : under(h, sol, y) \subseteq under(h, sol, x)
<1> DEFINE X == {x} \cup UNION {under(h, sol, c) : c \in children(h, sol, x)}
<1>1. \A c \in children(h, sol, x) : c \in treeSteps(h, sol)
  BY TreeIsGraph DEF children
<1>2. /\ x \in under(h, sol, x) /\ under(h, sol, x) \subseteq treeSteps(h, sol)
      /\ \A y \in under(h, sol, x) : children(h, sol, y) \subseteq under(h, sol, x)
  BY UnderStep
<1>3. \A y \in under(h, sol, x) : under(h, sol, y) \subseteq under(h, sol, x)
  BY <1>2, UnderStep
<1>4. X \subseteq under(h, sol, x)
  BY <1>2, <1>3
<1>5. X \in SUBSET treeSteps(h, sol) /\ x \in X
  BY <1>2, <1>4
<1>6. \A c \in children(h, sol, x) :
        /\ c \in under(h, sol, c)
        /\ \A y \in under(h, sol, c) : children(h, sol, y) \subseteq under(h, sol, c)
  BY <1>1, UnderStep
<1>7. \A y \in X : children(h, sol, y) \subseteq X
  BY <1>6
<1>8. under(h, sol, x) \subseteq X
  <2> HIDE DEF X
  <2> QED
    BY <1>5, <1>7, UnderStep
<1> QED
  BY <1>1, <1>3, <1>4, <1>8

(* Every step of the tree has its entry; a primitive one is a leaf, an     *)
(* abstract one is decomposed by a method of its task.                     *)
LEMMA PrimitiveEntry ==
  ASSUME NEW h, IsProblem(h), NEW sol, ValidPlan(h, sol), NEW x \in treeSteps(h, sol),
         NEW t, hasTask(sol, x, t), isPrimitive(h, t),
         NEW j \in DOMAIN sol, sol[j].step = x
  PROVE  /\ j \notin decompositions(sol) /\ sol[j].task = t
         /\ under(h, sol, x) = {x}
<1>1. sol[j].task = t
  BY DEF hasTask
<1>2. j \notin decompositions(sol)
  <2> SUFFICES ASSUME j \in decompositions(sol) PROVE FALSE
    OBVIOUS
  <2>1. sol[j].method \in taskToMethods(h, t)
    BY <1>1 DEF ValidPlan, treeComplete, tasksFit
  <2>2. t \in Tasks(h) \ Actions(h)
    BY <2>1 DEF taskToMethods, IsProblem, IsMethod
  <2> QED
    BY <2>2 DEF isPrimitive, Tasks, Actions, IsProblem
<1>3. children(h, sol, x) = {}
  BY <1>2, ChildIsSubtask
<1>4. under(h, sol, x) = {x}
  BY <1>3, UnderChildren
<1> QED
  BY <1>1, <1>2, <1>4

LEMMA AbstractEntry ==
  ASSUME NEW h, IsProblem(h), NEW sol, ValidPlan(h, sol), NEW x \in treeSteps(h, sol),
         NEW t, hasTask(sol, x, t), ~ isPrimitive(h, t),
         NEW j \in DOMAIN sol, sol[j].step = x
  PROVE  /\ j \in decompositions(sol) /\ sol[j].task = t
         /\ sol[j].method \in taskToMethods(h, t) /\ sol[j].method # 0
         /\ children(h, sol, x) = childrenOf(h, sol[j])
<1>1. sol[j].task = t
  BY DEF hasTask
<1>2. j \in decompositions(sol)
  <2> SUFFICES ASSUME j \notin decompositions(sol) PROVE FALSE
    OBVIOUS
  <2>1. t \in Actions(h)
    BY <1>1 DEF ValidPlan, executes
  <2> QED
    BY <2>1 DEF isPrimitive, Actions, IsProblem
<1>3. sol[j].method \in taskToMethods(h, t) /\ sol[j].method # 0
  BY <1>1, <1>2 DEF ValidPlan, treeComplete, tasksFit, decompositions
<1> QED
  BY <1>1, <1>2, <1>3, ChildIsSubtask

LEMMA TreeIsFinite ==
  ASSUME NEW h, NEW sol \in Seq(SolutionSteps(h)), ValidPlan(h, sol)
  PROVE  /\ IsFiniteSet(DOMAIN sol) /\ IsFiniteSet(treeSteps(h, sol))
         /\ DOMAIN sol = 1 .. Len(sol) /\ Len(sol) \in Nat
<1>1. DOMAIN sol = 1 .. Len(sol) /\ Len(sol) \in Nat
  OBVIOUS
<1>2. IsFiniteSet(DOMAIN sol)
  BY <1>1, FS_Interval
<1> DEFINE e == [i \in DOMAIN sol |-> sol[i].step]
<1>3. IsFiniteSet({e[i] : i \in DOMAIN sol})
  BY <1>2, ImageIsFinite
<1>4. treeSteps(h, sol) = {e[i] : i \in DOMAIN sol}
  BY DEF ValidPlan, treeComplete, stepsOf
<1> QED
  BY <1>1, <1>2, <1>3, <1>4

(* A tree has no empty branch: methods have subtasks.                      *)
LEMMA HasAction ==
  ASSUME NEW h, IsProblem(h), NEW sol \in Seq(SolutionSteps(h)), ValidPlan(h, sol),
         NEW x \in treeSteps(h, sol)
  PROVE  actionsUnder(h, sol, x) # {}
<1> DEFINE W == {y \in treeSteps(h, sol) : actionsUnder(h, sol, y) = {}}
           size == [y \in treeSteps(h, sol) |-> Cardinality(under(h, sol, y))]
<1>1. ASSUME NEW y \in W
      PROVE  \E c \in W : size[c] \in Nat /\ size[y] \in Nat /\ size[c] < size[y]
  <2>1. PICK j \in DOMAIN sol : sol[j].step = y
    BY ChildIsSubtask
  <2>2. y \in under(h, sol, y) /\ under(h, sol, y) \subseteq treeSteps(h, sol)
    BY UnderStep
  <2>3. j \in decompositions(sol)
    BY <2>1, <2>2 DEF actionsUnder
  <2>4. children(h, sol, y) = childrenOf(h, sol[j])
    BY <2>1, <2>3, ChildIsSubtask
  <2>5. sol[j].method \in taskToMethods(h, sol[j].task)
    BY <2>3 DEF ValidPlan, treeComplete, tasksFit
  <2>6. IsMethod(h, h.methods[sol[j].method])
    BY <2>5 DEF taskToMethods, IsProblem
  <2>7. 1 \in Positions(h.methods[sol[j].method])
    BY <2>6 DEF IsMethod, Positions
  <2> DEFINE c == <<sol[j].instance, 1>>
  <2>8. c \in children(h, sol, y)
    BY <2>4, <2>7 DEF childrenOf
  <2> HIDE DEF c
  <2>9. /\ c \in treeSteps(h, sol) /\ under(h, sol, c) \subseteq under(h, sol, y)
    <3>1. c \in treeSteps(h, sol)
      BY <2>8, UnderChildren
    <3>2. c \in under(h, sol, c)
      BY <3>1, UnderStep
    <3>3. under(h, sol, y) = {y} \cup UNION {under(h, sol, d) : d \in children(h, sol, y)}
      BY UnderChildren
    <3> QED
      BY <2>8, <3>1, <3>3
  <2>10. y \notin under(h, sol, c)
    BY <2>8, NotUnderChild
  <2>11. c \in W
    BY <2>9 DEF actionsUnder
  <2>12. IsFiniteSet(under(h, sol, y))
    BY <2>2, TreeIsFinite, FS_Subset
  <2>13. /\ Cardinality(under(h, sol, y)) \in Nat /\ Cardinality(under(h, sol, c)) \in Nat
         /\ Cardinality(under(h, sol, c)) < Cardinality(under(h, sol, y))
    BY <2>2, <2>9, <2>10, <2>12, FS_Subset, FS_CardinalityType
  <2>14. size[y] = Cardinality(under(h, sol, y)) /\ size[c] = Cardinality(under(h, sol, c))
    BY <2>9
  <2> HIDE DEF W, size
  <2> QED
    BY <2>11, <2>13, <2>14
<1>2. SUFFICES ASSUME x \in W PROVE FALSE
  OBVIOUS
<1> DEFINE T == {size[y] : y \in W}
<1> HIDE DEF W, size
<1>3. T \in SUBSET Nat /\ T # {}
  BY <1>1, <1>2
<1>4. PICK k \in T : \A m \in T : k <= m
  <2> HIDE DEF T
  <2> QED
    BY <1>3, LeastElement
<1>5. PICK y \in W : size[y] = k
  BY <1>4
<1>6. PICK c \in W : size[c] \in Nat /\ size[y] \in Nat /\ size[c] < size[y]
  BY <1>1
<1>7. k <= size[c]
  BY <1>4, <1>6
<1> QED
  BY <1>5, <1>6, <1>7

-----------------------------------------------------------------------------
(***************************************************************************)
(* How a search node is completed by a plan.  f names, for every step of   *)
(* the node's network, the step of the plan it stands for; the entries at  *)
(* or under those are the ones still left, and executing the actions among *)
(* them from the node's state reaches the goal, through the states q.      *)
(***************************************************************************)
left(h, sol, f) ==
  {j \in DOMAIN sol : \E s \in DOMAIN f : sol[j].step \in under(h, sol, f[s])}

leftActions(h, sol, f) == left(h, sol, f) \ decompositions(sol)

(* The states q that executing the entries of A from state s leads through. *)
follows(h, sol, A, q, i) ==
  IF i \in A
  THEN /\ sol[i].task \in Actions(h)
       /\ h.prec[sol[i].task] \subseteq q[i - 1]
       /\ q[i] = (q[i - 1] \ h.del[sol[i].task]) \cup h.add[sol[i].task]
  ELSE q[i] = q[i - 1]

Reaches(h, sol, A, q, s) ==
  /\ q[0] = s
  /\ \A i \in DOMAIN sol : follows(h, sol, A, q, i)
  /\ h.goal \subseteq q[Len(sol)]

StandsFor(h, sol, n, f) ==
  /\ f \in [Steps(n) -> treeSteps(h, sol)]
  /\ \A s \in Steps(n) : hasTask(sol, f[s], n.task[s])
  /\ \A s, t \in Steps(n) : s # t => under(h, sol, f[s]) \cap under(h, sol, f[t]) = {}

KeepsOrder(h, sol, n, f) ==
  \A s \in Steps(n) : \A t \in n.succ[s] :
    \A a \in actionsUnder(h, sol, f[s]), b \in actionsUnder(h, sol, f[t]) : a < b

Completes(h, sol, n, f, q) ==
  /\ StandsFor(h, sol, n, f)
  /\ KeepsOrder(h, sol, n, f)
  /\ Reaches(h, sol, leftActions(h, sol, f), q, n.state)

(* The entry of the plan that a step of the network stands for.            *)
LEMMA EntryOf ==
  ASSUME NEW h, NEW sol, ValidPlan(h, sol), NEW n, NEW f, StandsFor(h, sol, n, f),
         NEW s \in Steps(n)
  PROVE  \E j \in left(h, sol, f) :
           /\ j \in DOMAIN sol /\ sol[j].step = f[s]
           /\ \A i \in DOMAIN sol : sol[i].step = f[s] => i = j
<1>1. f[s] \in treeSteps(h, sol) /\ s \in DOMAIN f
  BY DEF StandsFor
<1>2. PICK j \in DOMAIN sol : sol[j].step = f[s]
  BY <1>1, ChildIsSubtask
<1>3. f[s] \in under(h, sol, f[s])
  BY <1>1, UnderStep
<1>4. j \in left(h, sol, f)
  BY <1>1, <1>2, <1>3 DEF left
<1> QED
  BY <1>2, <1>4 DEF ValidPlan, treeComplete, namesDistinct

(* Entries before the first one left change nothing.                       *)
LEMMA SameStateUntil ==
  ASSUME NEW h, NEW sol \in Seq(SolutionSteps(h)), NEW A, NEW q, NEW s,
         Reaches(h, sol, A, q, s), NEW j \in 0 .. Len(sol),
         \A i \in A : i \in Nat => j < i
  PROVE  \A i \in 0 .. j : q[i] = s
<1> DEFINE S == {i \in Nat : i <= j => q[i] = s}
<1>1. 0 \in S
  BY DEF Reaches
<1>2. ASSUME NEW i \in Nat, i \in S
      PROVE  i + 1 \in S
  <2> SUFFICES ASSUME i + 1 <= j PROVE q[i + 1] = s
    OBVIOUS
  <2>1. i + 1 \in DOMAIN sol /\ i + 1 \notin A
    OBVIOUS
  <2>2. q[i + 1] = q[(i + 1) - 1]
    BY <2>1 DEF Reaches, follows
  <2> QED
    BY <1>2, <2>2
<1>3. Nat \subseteq S
  <2> HIDE DEF S
  <2> QED
    BY <1>1, <1>2, Induction
<1> QED
  BY <1>3

(* Where no abstract step is unconstrained, the first action left in the   *)
(* plan is an applicable step of the node.                                 *)
LEMMA FirstAction ==
  ASSUME NEW h, IsProblem(h), NEW sol \in Seq(SolutionSteps(h)), ValidPlan(h, sol),
         NEW n, WellFormed(h, n), n.abs = {}, Steps(n) # {},
         NEW f, NEW q, Completes(h, sol, n, f, q)
  PROVE  \E s \in applicableSteps(h, n) : \E j \in leftActions(h, sol, f) :
           /\ sol[j].step = f[s]
           /\ \A i \in leftActions(h, sol, f) : j <= i
<1> DEFINE A == leftActions(h, sol, f)
<1>1. DOMAIN sol = 1 .. Len(sol) /\ Len(sol) \in Nat
  OBVIOUS
<1>2. A \subseteq DOMAIN sol
  BY DEF leftActions, left
<1>3. ASSUME NEW s \in Steps(n)
      PROVE  actionsUnder(h, sol, f[s]) # {} /\ actionsUnder(h, sol, f[s]) \subseteq A
  <2>1. f[s] \in treeSteps(h, sol) /\ s \in DOMAIN f
    BY DEF Completes, StandsFor
  <2> QED
    BY <2>1, HasAction DEF actionsUnder, leftActions, left
<1>4. A # {}
  BY <1>3
<1>5. PICK j \in A : \A i \in A : j <= i
  <2> HIDE DEF A
  <2>1. A \in SUBSET Nat
    BY <1>1, <1>2
  <2> QED
    BY <1>4, <2>1, LeastElement
<1>6. PICK s \in DOMAIN f : sol[j].step \in under(h, sol, f[s])
  BY <1>5 DEF leftActions, left
<1>7. s \in Steps(n) /\ f[s] \in treeSteps(h, sol)
  BY <1>6 DEF Completes, StandsFor
<1>8. j \in actionsUnder(h, sol, f[s])
  BY <1>2, <1>5, <1>6 DEF actionsUnder, leftActions
<1>9. s \in FirstSteps(n)
  <2> SUFFICES ASSUME NEW t \in Steps(n), s \in n.succ[t] PROVE FALSE
    BY <1>7 DEF FirstSteps
  <2>1. PICK a \in actionsUnder(h, sol, f[t]) : a \in A
    BY <1>3
  <2>2. a < j
    BY <1>8, <2>1 DEF Completes, KeepsOrder
  <2>3. j <= a
    BY <1>5, <2>1
  <2> HIDE DEF A
  <2> QED
    BY <1>1, <1>2, <1>5, <2>1, <2>2, <2>3
<1>10. s \in n.prim /\ isPrimitive(h, n.task[s])
  BY <1>9 DEF WellFormed, Unconstraint, NodeType
<1>11. hasTask(sol, f[s], n.task[s])
  BY <1>7 DEF Completes, StandsFor
<1>12. PICK i \in DOMAIN sol : sol[i].step = f[s]
  BY <1>7, ChildIsSubtask
<1>13. under(h, sol, f[s]) = {f[s]}
  BY <1>7, <1>10, <1>11, <1>12, PrimitiveEntry
<1>14. sol[j].step = f[s] /\ sol[j].task = n.task[s]
  BY <1>2, <1>5, <1>6, <1>11, <1>13 DEF hasTask
<1>15. Reaches(h, sol, A, q, n.state)
  BY DEF Completes
<1>16. h.prec[n.task[s]] \subseteq n.state
  <2>1. q[j - 1] = n.state
    <3> HIDE DEF A
    <3>1. j - 1 \in 0 .. Len(sol) /\ j - 1 \in 0 .. j - 1
      BY <1>1, <1>2, <1>5
    <3>2. \A x \in A : x \in Nat => j - 1 < x
      BY <1>1, <1>2, <1>5
    <3> QED
      BY <1>15, <3>1, <3>2, SameStateUntil
  <2>2. h.prec[sol[j].task] \subseteq q[j - 1]
    BY <1>2, <1>5, <1>15 DEF Reaches, follows
  <2> QED
    BY <1>14, <2>1, <2>2
<1>17. s \in applicableSteps(h, n)
  BY <1>10, <1>16 DEF applicableSteps, isApplicable
<1> QED
  BY <1>5, <1>14, <1>17

-----------------------------------------------------------------------------
(***************************************************************************)
(* How much of the plan is left: the number of entries, and what they cost.*)
(***************************************************************************)
weight(h, g, sol, B) == [j \in DOMAIN sol |-> IF j \in B THEN entryG(h, g, sol[j]) ELSE 0]

restG(h, g, sol, f) == Total(weight(h, g, sol, left(h, sol, f)), DOMAIN sol)

LEMMA EntryWeights ==
  ASSUME NEW h, IsProblem(h), NEW sol \in Seq(SolutionSteps(h)), ValidPlan(h, sol),
         NEW g \in gValues
  PROVE  /\ \A j \in DOMAIN sol : entryG(h, g, sol[j]) \in Nat
         /\ \A B, j \in DOMAIN sol : weight(h, g, sol, B)[j] \in Nat
         /\ planG(h, g, sol) = Total(weight(h, g, sol, DOMAIN sol), DOMAIN sol)
         /\ planG(h, g, sol) \in Nat
<1>1. ASSUME NEW j \in DOMAIN sol
      PROVE  entryG(h, g, sol[j]) \in Nat
  <2>1. sol[j].method = 0 => sol[j].task \in Actions(h)
    BY DEF ValidPlan, executes, decompositions
  <2>2. sol[j].method = 0 => h.cost[sol[j].task] \in Nat
    BY <2>1 DEF IsProblem
  <2> QED
    BY <2>2 DEF entryG, gValues
<1>2. \A B, j \in DOMAIN sol : weight(h, g, sol, B)[j] \in Nat
  BY <1>1 DEF weight
<1>3. planG(h, g, sol) = Total(weight(h, g, sol, DOMAIN sol), DOMAIN sol)
  <2>1. weight(h, g, sol, DOMAIN sol) = [i \in DOMAIN sol |-> entryG(h, g, sol[i])]
    BY DEF weight
  <2>2. planG(h, g, sol) = Total([i \in DOMAIN sol |-> entryG(h, g, sol[i])], DOMAIN sol)
    BY DEF planG, Total
  <2> QED
    BY <2>1, <2>2
<1>4. planG(h, g, sol) \in Nat
  <2> DEFINE c == weight(h, g, sol, DOMAIN sol)
  <2>1. \A o \in DOMAIN sol : c[o] \in Nat
    BY <1>1 DEF weight
  <2> HIDE DEF c
  <2>2. Total(c, DOMAIN sol) \in Nat
    BY <2>1, TreeIsFinite, TotalFacts
  <2> QED
    BY <1>3, <2>2 DEF c
<1> QED
  BY <1>1, <1>2, <1>3, <1>4

LEMMA LeftMeasure ==
  ASSUME NEW h, IsProblem(h), NEW sol \in Seq(SolutionSteps(h)), ValidPlan(h, sol),
         NEW g \in gValues, NEW f
  PROVE  /\ left(h, sol, f) \subseteq DOMAIN sol /\ IsFiniteSet(left(h, sol, f))
         /\ Cardinality(left(h, sol, f)) \in Nat /\ Cardinality(left(h, sol, f)) <= Len(sol)
         /\ restG(h, g, sol, f) \in Nat
<1>1. left(h, sol, f) \subseteq DOMAIN sol
  BY DEF left
<1>2. IsFiniteSet(left(h, sol, f)) /\ Cardinality(left(h, sol, f)) <= Cardinality(DOMAIN sol)
  BY <1>1, TreeIsFinite, FS_Subset
<1>3. Cardinality(DOMAIN sol) = Len(sol)
  <2>1. DOMAIN sol = 1 .. Len(sol) /\ Len(sol) \in Nat
    BY TreeIsFinite
  <2>2. Cardinality(1 .. Len(sol)) = IF 1 > Len(sol) THEN 0 ELSE Len(sol) - 1 + 1
    BY <2>1, FS_Interval
  <2> QED
    BY <2>1, <2>2
<1> DEFINE c == weight(h, g, sol, left(h, sol, f))
<1>4. \A o \in DOMAIN sol : c[o] \in Nat
  BY EntryWeights DEF weight
<1>5. restG(h, g, sol, f) \in Nat
  <2> HIDE DEF c
  <2>1. Total(c, DOMAIN sol) \in Nat
    BY <1>4, TreeIsFinite, TotalFacts
  <2> QED
    BY <2>1 DEF restG, c
<1> QED
  BY <1>1, <1>2, <1>3, <1>5, FS_CardinalityType

(* Entry j is taken out of what is left.                                    *)
TakenOut(h, sol, f, f2, j) ==
  j \in left(h, sol, f) /\ left(h, sol, f2) = left(h, sol, f) \ {j}

LEMMA OneEntryLess ==
  ASSUME NEW h, IsProblem(h), NEW sol \in Seq(SolutionSteps(h)), ValidPlan(h, sol),
         NEW g \in gValues, NEW f, NEW f2, NEW j, TakenOut(h, sol, f, f2, j)
  PROVE  /\ Cardinality(left(h, sol, f2)) = Cardinality(left(h, sol, f)) - 1
         /\ restG(h, g, sol, f) = restG(h, g, sol, f2) + entryG(h, g, sol[j])
<1>0. j \in left(h, sol, f) /\ left(h, sol, f2) = left(h, sol, f) \ {j}
  BY DEF TakenOut
<1>1. Cardinality(left(h, sol, f2)) = Cardinality(left(h, sol, f)) - 1
  BY <1>0, LeftMeasure, OneLess
<1> DEFINE c == weight(h, g, sol, left(h, sol, f))
           d == weight(h, g, sol, left(h, sol, f2))
<1>2. j \in DOMAIN sol
  BY <1>0 DEF left
<1>3. /\ \A o \in DOMAIN sol : c[o] \in Nat
      /\ c[j] = entryG(h, g, sol[j]) /\ c[j] \in Nat
      /\ d[j] = 0 /\ \A o \in DOMAIN sol \ {j} : d[o] = c[o]
  BY <1>0, <1>2, EntryWeights DEF weight
<1>4. Total(d, DOMAIN sol) = Total(c, DOMAIN sol) + (d[j] - c[j])
  <2> HIDE DEF c, d
  <2>1. IsFiniteSet(DOMAIN sol)
    BY TreeIsFinite
  <2>2. d[j] \in Nat
    BY <1>3
  <2> QED
    BY <1>2, <1>3, <2>1, <2>2, TotalFacts
<1>5. Total(c, DOMAIN sol) \in Nat
  BY LeftMeasure DEF restG
<1>6. restG(h, g, sol, f) = restG(h, g, sol, f2) + entryG(h, g, sol[j])
  <2> HIDE DEF c, d
  <2>1. Total(c, DOMAIN sol) = Total(d, DOMAIN sol) + c[j]
    BY <1>3, <1>4, <1>5
  <2> QED
    BY <1>3, <2>1 DEF restG, c, d
<1> QED
  BY <1>1, <1>6

-----------------------------------------------------------------------------
(***************************************************************************)
(* Progressing a node along a plan that completes it.                      *)
(***************************************************************************)
withoutStep(f, n, s) == [t \in Steps(n) \ {s} |-> f[t]]

LEMMA LeftWithout ==
  ASSUME NEW h, NEW sol, ValidPlan(h, sol), NEW n, NEW f, StandsFor(h, sol, n, f),
         NEW s \in Steps(n), under(h, sol, f[s]) = {f[s]},
         NEW j \in DOMAIN sol, sol[j].step = f[s],
         NEW f2, f2 = withoutStep(f, n, s)
  PROVE  j \in left(h, sol, f) /\ left(h, sol, f2) = left(h, sol, f) \ {j}
<1>1. /\ DOMAIN f = Steps(n) /\ DOMAIN f2 = Steps(n) \ {s}
      /\ \A t \in Steps(n) \ {s} : f2[t] = f[t]
  BY DEF StandsFor, withoutStep
<1>2. j \in left(h, sol, f)
  BY <1>1 DEF left
<1>3. ASSUME NEW i \in left(h, sol, f2)
      PROVE  i \in left(h, sol, f) \ {j}
  <2>1. PICK t \in Steps(n) \ {s} : i \in DOMAIN sol /\ sol[i].step \in under(h, sol, f[t])
    BY <1>1 DEF left
  <2>2. under(h, sol, f[t]) \cap under(h, sol, f[s]) = {}
    BY <2>1 DEF StandsFor
  <2>3. i # j
    BY <2>1, <2>2
  <2> QED
    BY <1>1, <2>1, <2>3 DEF left
<1>4. ASSUME NEW i \in left(h, sol, f), i # j
      PROVE  i \in left(h, sol, f2)
  <2>1. PICK t \in Steps(n) : i \in DOMAIN sol /\ sol[i].step \in under(h, sol, f[t])
    BY <1>1 DEF left
  <2>2. sol[i].step # f[s]
    BY <1>4, <2>1 DEF ValidPlan, treeComplete, namesDistinct
  <2>3. t # s
    BY <2>1, <2>2
  <2> QED
    BY <1>1, <2>1, <2>3 DEF left
<1> QED
  BY <1>2, <1>3, <1>4

(* The states from the execution of the first action on; an action without *)
(* effects leaves all states as they are.                                  *)
LEMMA ReachesWithout ==
  ASSUME NEW h, NEW sol \in Seq(SolutionSteps(h)), NEW A \in SUBSET DOMAIN sol, NEW q, NEW s,
         Reaches(h, sol, A, q, s), NEW j \in A,
         isEffectless(h, sol[j].task) \/ \A i \in A : j <= i
  PROVE  \E q2 : Reaches(h, sol, A \ {j}, q2,
                         (s \ h.del[sol[j].task]) \cup h.add[sol[j].task])
<1> DEFINE s2 == (s \ h.del[sol[j].task]) \cup h.add[sol[j].task]
<1>1. DOMAIN sol = 1 .. Len(sol) /\ Len(sol) \in Nat /\ j \in DOMAIN sol
  OBVIOUS
<1>2. \A i \in DOMAIN sol : follows(h, sol, A, q, i)
  BY DEF Reaches
<1>3. CASE isEffectless(h, sol[j].task)
  <2>1. s2 = s
    BY <1>3 DEF isEffectless
  <2>2. q[j] = q[j - 1]
    BY <1>1, <1>2, <1>3 DEF isEffectless, follows
  <2>3. \A i \in DOMAIN sol : follows(h, sol, A \ {j}, q, i)
    BY <1>2, <2>2 DEF follows
  <2>4. Reaches(h, sol, A \ {j}, q, s2)
    BY <2>1, <2>3 DEF Reaches
  <2> QED
    BY <2>4
<1>4. CASE \A i \in A : j <= i
  <2> DEFINE q2 == [i \in 0 .. Len(sol) |-> IF i < j THEN s2 ELSE q[i]]
  <2>1. q[j - 1] = s
    <3>1. j - 1 \in 0 .. Len(sol) /\ j - 1 \in 0 .. j - 1
      BY <1>1
    <3>2. \A i \in A : i \in Nat => j - 1 < i
      BY <1>1, <1>4
    <3> QED
      BY <3>1, <3>2, SameStateUntil
  <2>2. q[j] = s2
    BY <1>1, <1>2, <2>1 DEF follows
  <2>3. ASSUME NEW i \in DOMAIN sol
        PROVE  follows(h, sol, A \ {j}, q2, i)
    <3>1. follows(h, sol, A, q, i) /\ i \in 1 .. Len(sol) /\ i - 1 \in 0 .. Len(sol)
      BY <1>1, <1>2
    <3>2. CASE i < j
      <4>1. i \notin A
        BY <1>1, <1>4, <3>2
      <4>2. q2[i] = s2 /\ q2[i - 1] = s2
        BY <1>1, <3>2
      <4> QED
        BY <4>1, <4>2 DEF follows
    <3>3. CASE i = j
      <4>1. q2[i] = s2 /\ q2[i - 1] = s2
        BY <1>1, <2>2, <3>3
      <4> QED
        BY <3>3, <4>1 DEF follows
    <3>4. CASE i > j
      <4>1. q2[i] = q[i] /\ q2[i - 1] = q[i - 1]
        BY <1>1, <3>4
      <4>2. i # j
        BY <1>1, <3>4
      <4> QED
        BY <3>1, <4>1, <4>2 DEF follows
    <3> QED
      BY <1>1, <3>2, <3>3, <3>4
  <2>4. q2[0] = s2
    BY <1>1
  <2>5. q2[Len(sol)] = q[Len(sol)]
    BY <1>1
  <2>6. h.goal \subseteq q2[Len(sol)]
    BY <2>5 DEF Reaches
  <2> HIDE DEF q2
  <2>7. Reaches(h, sol, A \ {j}, q2, s2)
    BY <2>3, <2>4, <2>6 DEF Reaches
  <2> QED
    BY <2>7
<1> QED
  BY <1>3, <1>4

(* Step s stands for entry j, which comes first or has no effect.           *)
isDue(h, sol, n, f, s, j) ==
  /\ j \in DOMAIN sol /\ sol[j].step = f[s]
  /\ isEffectless(h, n.task[s]) \/ \A i \in leftActions(h, sol, f) : j <= i

LEMMA ActionStep ==
  ASSUME NEW h, IsProblem(h), NEW sol \in Seq(SolutionSteps(h)), ValidPlan(h, sol),
         NEW n, WellFormed(h, n), NEW f, NEW q, Completes(h, sol, n, f, q),
         NEW s \in applicableSteps(h, n), NEW j, isDue(h, sol, n, f, s, j),
         NEW k \in Nat
  PROVE  \E f2, q2 :
           /\ Completes(h, sol, applyStep(h, n, s, k), f2, q2)
           /\ TakenOut(h, sol, f, f2, j)
           /\ sol[j].method = 0 /\ sol[j].task = n.task[s]
<1> DEFINE n2 == applyStep(h, n, s, k)
           f2 == [t \in Steps(n) \ {s} |-> f[t]]
           A  == leftActions(h, sol, f)
<1>0. /\ j \in DOMAIN sol /\ sol[j].step = f[s]
      /\ isEffectless(h, n.task[s]) \/ \A i \in leftActions(h, sol, f) : j <= i
  BY DEF isDue
<1>1. s \in n.prim /\ s \in Steps(n) /\ isPrimitive(h, n.task[s]) /\ s \in FirstSteps(n)
  BY DEF applicableSteps, WellFormed, NodeType, Unconstraint
<1>2. StandsFor(h, sol, n, f) /\ f[s] \in treeSteps(h, sol) /\ hasTask(sol, f[s], n.task[s])
  BY <1>1 DEF Completes, StandsFor
<1>3. under(h, sol, f[s]) = {f[s]} /\ j \notin decompositions(sol) /\ sol[j].task = n.task[s]
  BY <1>0, <1>1, <1>2, PrimitiveEntry
<1>4. j \in left(h, sol, f) /\ left(h, sol, f2) = left(h, sol, f) \ {j}
  <2> HIDE DEF f2
  <2>1. f2 = withoutStep(f, n, s)
    BY DEF f2, withoutStep
  <2> QED
    BY <1>0, <1>1, <1>2, <1>3, <2>1, LeftWithout
<1>5. sol[j].method = 0
  BY <1>0, <1>3 DEF decompositions
<1>6. /\ Steps(n2) = Steps(n) \ {s}
      /\ \A t \in Steps(n) \ {s} : n2.task[t] = n.task[t] /\ n2.succ[t] = n.succ[t]
      /\ n2.state = (n.state \ h.del[n.task[s]]) \cup h.add[n.task[s]]
  BY DEF applyStep, Steps, Restrict
<1>7. StandsFor(h, sol, n2, f2)
  BY <1>2, <1>6 DEF StandsFor
<1>8. KeepsOrder(h, sol, n2, f2)
  <2> SUFFICES ASSUME NEW t \in Steps(n) \ {s}, NEW u \in n2.succ[t],
                      NEW a \in actionsUnder(h, sol, f2[t]), NEW b \in actionsUnder(h, sol, f2[u])
               PROVE  a < b
    BY <1>6 DEF KeepsOrder
  <2>1. u \in n.succ[t] /\ u # s
    BY <1>1, <1>6 DEF FirstSteps
  <2>2. u \in Steps(n)
    BY <2>1 DEF WellFormed, NodeType
  <2>3. f2[t] = f[t] /\ f2[u] = f[u]
    BY <2>1, <2>2
  <2> QED
    BY <2>1, <2>3 DEF Completes, KeepsOrder
<1>9. \E q2 : Reaches(h, sol, leftActions(h, sol, f2), q2, n2.state)
  <2>1. A \in SUBSET DOMAIN sol /\ j \in A
    BY <1>0, <1>3, <1>4 DEF leftActions, left
  <2>2. Reaches(h, sol, A, q, n.state)
    BY DEF Completes
  <2>3. leftActions(h, sol, f2) = A \ {j}
    BY <1>4 DEF leftActions
  <2>4. isEffectless(h, sol[j].task) \/ \A i \in A : j <= i
    BY <1>0, <1>3
  <2> HIDE DEF A, n2, f2
  <2>5. \E q2 : Reaches(h, sol, A \ {j}, q2,
                        (n.state \ h.del[sol[j].task]) \cup h.add[sol[j].task])
    BY <2>1, <2>2, <2>4, ReachesWithout
  <2> QED
    BY <1>3, <1>6, <2>3, <2>5
<1>10. PICK q2 : Reaches(h, sol, leftActions(h, sol, f2), q2, n2.state)
  BY <1>9
<1> HIDE DEF n2, f2
<1>11. Completes(h, sol, n2, f2, q2)
  BY <1>7, <1>8, <1>10 DEF Completes
<1> QED
  BY <1>3, <1>4, <1>5, <1>11 DEF n2, TakenOut

isReplacement(h, n, d, mi, k, n2) ==
  LET m == h.methods[mi]
  IN  /\ Steps(n2) = (Steps(n) \ {d}) \cup newSteps(m, k)
      /\ newSteps(m, k) \cap Steps(n) = {}
      /\ \A x \in Steps(n) \ {d} : n2.succ[x] = n.succ[x] /\ n2.task[x] = n.task[x]
      /\ \A i \in Positions(m) :
           /\ n2.succ[<<k, i>>] = newSuccessors(n, d, m, <<k, i>>)
           /\ n2.task[<<k, i>>] = m.subs[i]
      /\ n2.state = n.state

LEMMA Replacement ==
  ASSUME NEW h, IsProblem(h), NEW n, NEW k \in Nat, NodeInv(h, n, k),
         NEW d \in n.abs, NEW mi \in taskToMethods(h, n.task[d])
  PROVE  isReplacement(h, n, d, mi, k, decomposeStep(h, n, d, mi, k))
<1> DEFINE m  == h.methods[mi]
           n2 == decomposeStep(h, n, d, mi, k)
           e  == [step |-> d, instance |-> k, task |-> m.task, method |-> mi, after |-> n.state]
<1>1. /\ ReplacesStep(n, n2, d, m, k) /\ Acyclic(m)
      /\ m.task = n.task[d] /\ mi # 0
      /\ \A t \in Steps(n) \ {d} : n2.task[t] = n.task[t]
      /\ \A i \in Positions(m) : n2.task[<<k, i>>] = m.subs[i]
      /\ n2.solution = Append(n.solution, e)
      /\ e \in SolutionSteps(h) /\ n.solution \in Seq(SolutionSteps(h))
  BY DecomposeReplaces
<1>2. n2.state = n.state
  BY DEF decomposeStep
<1>3. newSteps(m, k) \cap Steps(n) = {}
  BY DEF NodeInv, NamedBefore, newSteps
<1> HIDE DEF n2
<1>4. isReplacement(h, n, d, mi, k, n2)
  BY <1>1, <1>2, <1>3 DEF ReplacesStep, KeepsAllBut, isReplacement
<1> QED
  BY <1>4 DEF n2

LEMMA DecomposeStep ==
  ASSUME NEW h, IsProblem(h), NEW sol \in Seq(SolutionSteps(h)), ValidPlan(h, sol),
         NEW n, NEW k \in Nat, NodeInv(h, n, k), NEW f, NEW q, Completes(h, sol, n, f, q),
         NEW d \in n.abs, NEW j \in DOMAIN sol, sol[j].step = f[d]
  PROVE  /\ sol[j].method \in taskToMethods(h, n.task[d])
         /\ \E f2 :
              /\ Completes(h, sol, decomposeStep(h, n, d, sol[j].method, k), f2, q)
              /\ TakenOut(h, sol, f, f2, j)
              /\ sol[j].method # 0
<1> DEFINE mi == sol[j].method
           m  == h.methods[mi]
           n2 == decomposeStep(h, n, d, mi, k)
           named(x) == <<sol[j].instance, x[2]>>
           f2 == [x \in Steps(n2) |-> IF x \in newSteps(m, k) THEN named(x) ELSE f[x]]
<1>1. d \in Steps(n) /\ ~ isPrimitive(h, n.task[d]) /\ d \in FirstSteps(n)
  BY DEF NodeInv, WellFormed, NodeType, Unconstraint
<1>2. StandsFor(h, sol, n, f) /\ f[d] \in treeSteps(h, sol) /\ hasTask(sol, f[d], n.task[d])
  BY <1>1 DEF Completes, StandsFor
<1>3. /\ j \in decompositions(sol) /\ mi \in taskToMethods(h, n.task[d]) /\ mi # 0
      /\ children(h, sol, f[d]) = childrenOf(h, sol[j])
  BY <1>1, <1>2, AbstractEntry
<1>4. isReplacement(h, n, d, mi, k, n2)
  BY <1>3, Replacement
<1> HIDE DEF n2, m, mi
<1>5. /\ Steps(n2) = (Steps(n) \ {d}) \cup newSteps(m, k)
      /\ \A x \in Steps(n) \ {d} : n2.succ[x] = n.succ[x] /\ n2.task[x] = n.task[x]
      /\ \A i \in Positions(m) :
           /\ n2.succ[<<k, i>>] = newSuccessors(n, d, m, <<k, i>>)
           /\ n2.task[<<k, i>>] = m.subs[i]
      /\ n2.state = n.state
  BY <1>4 DEF isReplacement, m
<1>6. newSteps(m, k) \cap Steps(n) = {}
  BY <1>4 DEF isReplacement, m
<1> HIDE DEF named
<1>7. /\ \A x \in newSteps(m, k) : /\ x \in Steps(n2) /\ f2[x] = named(x) /\ x = <<k, x[2]>>
                                  /\ x[1] = k /\ x[2] \in Positions(m)
                                  /\ named(x) \in children(h, sol, f[d])
      /\ \A x \in Steps(n) \ {d} : x \in Steps(n2) /\ f2[x] = f[x]
      /\ \A c \in children(h, sol, f[d]) : \E x \in newSteps(m, k) : c = named(x)
  <2>1. \A x \in newSteps(m, k) : x = <<k, x[2]>> /\ x[1] = k /\ x[2] \in Positions(m)
    BY DEF newSteps
  <2>2. children(h, sol, f[d]) = {<<sol[j].instance, i>> : i \in Positions(m)}
    BY <1>3 DEF childrenOf, m, mi
  <2>3. \A x \in newSteps(m, k) : named(x) \in children(h, sol, f[d])
    BY <2>1, <2>2 DEF named
  <2>4. \A c \in children(h, sol, f[d]) : \E x \in newSteps(m, k) : c = named(x)
    <3> SUFFICES ASSUME NEW i \in Positions(m)
                 PROVE  \E x \in newSteps(m, k) : <<sol[j].instance, i>> = named(x)
      BY <2>2
    <3>1. <<k, i>> \in newSteps(m, k)
      BY DEF newSteps
    <3>2. <<sol[j].instance, i>> = named(<<k, i>>)
      BY DEF named
    <3> QED
      BY <3>1, <3>2
  <2>5. /\ \A x \in newSteps(m, k) : x \in Steps(n2) /\ f2[x] = named(x)
        /\ \A x \in Steps(n) \ {d} : x \in Steps(n2) /\ f2[x] = f[x]
    BY <1>5, <1>6
  <2> QED
    BY <2>1, <2>3, <2>4, <2>5
<1>8. \A c \in children(h, sol, f[d]) :
        /\ c \in treeSteps(h, sol) /\ under(h, sol, c) \subseteq under(h, sol, f[d])
        /\ f[d] \notin under(h, sol, c)
  <2> SUFFICES ASSUME NEW c \in children(h, sol, f[d])
               PROVE  /\ c \in treeSteps(h, sol) /\ under(h, sol, c) \subseteq under(h, sol, f[d])
                      /\ f[d] \notin under(h, sol, c)
    OBVIOUS
  <2>1. c \in treeSteps(h, sol)
    BY <1>2, UnderChildren
  <2>2. under(h, sol, f[d]) = {f[d]} \cup UNION {under(h, sol, z) : z \in children(h, sol, f[d])}
    BY <1>2, UnderChildren
  <2>3. under(h, sol, c) \subseteq under(h, sol, f[d])
    BY <2>2
  <2> QED
    BY <1>2, <2>1, <2>3, NotUnderChild
<1>9. \A x, y \in newSteps(m, k) : x # y => named(x) # named(y)
  BY <1>7 DEF named
<1> HIDE DEF f2
<1>10. \A x \in Steps(n2) : x \in newSteps(m, k) \/ x \in Steps(n) \ {d}
  BY <1>5
<1>11. StandsFor(h, sol, n2, f2)
  <2>1. f2 \in [Steps(n2) -> treeSteps(h, sol)]
    BY <1>2, <1>7, <1>8, <1>10 DEF StandsFor, f2
  <2>2. ASSUME NEW x \in Steps(n2)
        PROVE  hasTask(sol, f2[x], n2.task[x])
    <3>1. CASE x \in newSteps(m, k)
      <4>1. hasTask(sol, <<sol[j].instance, x[2]>>, m.subs[x[2]])
        BY <1>3, <1>7, <3>1 DEF ValidPlan, treeComplete, tasksFit, m, mi
      <4>2. f2[x] = named(x) /\ x = <<k, x[2]>> /\ x[2] \in Positions(m)
        BY <1>7, <3>1
      <4>3. n2.task[<<k, x[2]>>] = m.subs[x[2]]
        BY <1>5, <4>2
      <4>4. n2.task[x] = m.subs[x[2]]
        BY <4>2, <4>3
      <4>5. f2[x] = <<sol[j].instance, x[2]>>
        BY <4>2 DEF named
      <4> QED
        BY <4>1, <4>4, <4>5
    <3>2. CASE x \in Steps(n) \ {d}
      BY <1>2, <1>5, <1>7, <3>2 DEF StandsFor
    <3> QED
      BY <1>10, <3>1, <3>2
  <2>3. ASSUME NEW x \in Steps(n2), NEW y \in Steps(n2), x # y
        PROVE  under(h, sol, f2[x]) \cap under(h, sol, f2[y]) = {}
    <3>1. CASE x \in newSteps(m, k) /\ y \in newSteps(m, k)
      <4>1. /\ named(x) \in children(h, sol, f[d]) /\ named(y) \in children(h, sol, f[d])
            /\ named(x) # named(y)
        BY <1>7, <1>9, <2>3, <3>1
      <4>2. f2[x] = named(x) /\ f2[y] = named(y)
        BY <1>7, <3>1
      <4>3. under(h, sol, named(x)) \cap under(h, sol, named(y)) = {}
        BY <1>2, <4>1, ChildrenApart
      <4> QED
        BY <4>2, <4>3
    <3>2. CASE x \in newSteps(m, k) /\ y \in Steps(n) \ {d}
      <4>1. under(h, sol, f[d]) \cap under(h, sol, f[y]) = {}
        BY <1>1, <1>2, <3>2 DEF StandsFor
      <4> QED
        BY <1>7, <1>8, <3>2, <4>1
    <3>3. CASE y \in newSteps(m, k) /\ x \in Steps(n) \ {d}
      <4>1. under(h, sol, f[d]) \cap under(h, sol, f[x]) = {}
        BY <1>1, <1>2, <3>3 DEF StandsFor
      <4> QED
        BY <1>7, <1>8, <3>3, <4>1
    <3>4. CASE x \in Steps(n) \ {d} /\ y \in Steps(n) \ {d}
      BY <1>2, <1>7, <2>3, <3>4 DEF StandsFor
    <3> QED
      BY <1>10, <3>1, <3>2, <3>3, <3>4
  <2> QED
    BY <2>1, <2>2, <2>3 DEF StandsFor
<1>12. \A x \in newSteps(m, k) : actionsUnder(h, sol, f2[x]) \subseteq actionsUnder(h, sol, f[d])
  BY <1>7, <1>8 DEF actionsUnder
<1>13. KeepsOrder(h, sol, n2, f2)
  <2> SUFFICES ASSUME NEW x \in Steps(n2), NEW y \in n2.succ[x],
                      NEW a \in actionsUnder(h, sol, f2[x]), NEW b \in actionsUnder(h, sol, f2[y])
               PROVE  a < b
    BY DEF KeepsOrder
  <2>1. \A z \in Steps(n) : \A u \in n.succ[z] : u \in Steps(n) \ {d}
    BY <1>1 DEF FirstSteps, NodeInv, WellFormed, NodeType
  <2>2. CASE x \in Steps(n) \ {d}
    <3>1. y \in n.succ[x] /\ f2[x] = f[x] /\ f2[y] = f[y]
      BY <1>5, <1>7, <2>1, <2>2
    <3> QED
      BY <2>2, <3>1 DEF Completes, KeepsOrder
  <2>3. CASE x \in newSteps(m, k)
    <3>1. n2.succ[x] = newSuccessors(n, d, m, x)
      BY <1>5, <1>7, <2>3
    <3>2. CASE y \in n.succ[d]
      <4>1. f2[y] = f[y]
        BY <1>1, <1>7, <2>1, <3>2
      <4>2. a \in actionsUnder(h, sol, f[d])
        BY <1>12, <2>3
      <4> QED
        BY <1>1, <3>2, <4>1, <4>2 DEF Completes, KeepsOrder
    <3>3. CASE y \notin n.succ[d]
      <4>1. PICK i \in Successors(m, x[2]) : y = <<x[1], i>>
        BY <3>1, <3>3 DEF newSuccessors
      <4>2. i \in Positions(m) /\ <<x[2], i>> \in m.ord
        BY <4>1 DEF Successors
      <4>3. x[1] = k
        BY <1>7, <2>3
      <4>4. y \in newSteps(m, k) /\ y[2] = i
        BY <4>1, <4>2, <4>3 DEF newSteps
      <4>5. f2[x] = <<sol[j].instance, x[2]>> /\ f2[y] = <<sol[j].instance, i>>
        BY <1>7, <2>3, <4>4 DEF named
      <4>6. \A p \in m.ord :
              \A u \in actionsUnder(h, sol, <<sol[j].instance, p[1]>>),
                 v \in actionsUnder(h, sol, <<sol[j].instance, p[2]>>) : u < v
        BY <1>3 DEF ValidPlan, orderRespected, m, mi
      <4> QED
        BY <4>2, <4>5, <4>6
    <3> QED
      BY <3>2, <3>3
  <2> QED
    BY <1>10, <2>2, <2>3
<1>14. j \in left(h, sol, f) /\ left(h, sol, f2) = left(h, sol, f) \ {j}
  <2>1. DOMAIN f = Steps(n) /\ DOMAIN f2 = Steps(n2)
    BY <1>2, <1>11 DEF StandsFor
  <2>2. f[d] \in under(h, sol, f[d])
    BY <1>2, UnderStep
  <2>3. j \in left(h, sol, f)
    BY <1>1, <2>1, <2>2 DEF left
  <2>4. ASSUME NEW i \in left(h, sol, f2)
        PROVE  i \in left(h, sol, f) \ {j}
    <3>1. PICK x \in Steps(n2) : i \in DOMAIN sol /\ sol[i].step \in under(h, sol, f2[x])
      BY <2>1 DEF left
    <3>2. CASE x \in newSteps(m, k)
      <4>1. sol[i].step \in under(h, sol, f[d]) /\ sol[i].step # f[d]
        BY <1>7, <1>8, <3>1, <3>2
      <4> QED
        BY <1>1, <2>1, <3>1, <4>1 DEF left
    <3>3. CASE x \in Steps(n) \ {d}
      <4>1. under(h, sol, f[d]) \cap under(h, sol, f[x]) = {} /\ f2[x] = f[x]
        BY <1>1, <1>2, <1>7, <3>3 DEF StandsFor
      <4>2. i # j
        BY <2>2, <3>1, <4>1
      <4> QED
        BY <2>1, <3>1, <3>3, <4>1, <4>2 DEF left
    <3> QED
      BY <1>10, <3>2, <3>3
  <2>5. ASSUME NEW i \in left(h, sol, f), i # j
        PROVE  i \in left(h, sol, f2)
    <3>1. PICK x \in Steps(n) : i \in DOMAIN sol /\ sol[i].step \in under(h, sol, f[x])
      BY <2>1 DEF left
    <3>2. CASE x # d
      BY <1>7, <2>1, <3>1, <3>2 DEF left
    <3>3. CASE x = d
      <4>1. sol[i].step # f[d]
        BY <2>5, <3>1 DEF ValidPlan, treeComplete, namesDistinct
      <4>2. under(h, sol, f[d]) =
              {f[d]} \cup UNION {under(h, sol, z) : z \in children(h, sol, f[d])}
        BY <1>2, UnderChildren
      <4>3. PICK c \in children(h, sol, f[d]) : sol[i].step \in under(h, sol, c)
        BY <3>1, <3>3, <4>1, <4>2
      <4>4. PICK y \in newSteps(m, k) : c = named(y)
        BY <1>7
      <4>5. y \in Steps(n2) /\ f2[y] = c
        BY <1>7, <4>4
      <4> QED
        BY <2>1, <3>1, <4>3, <4>5 DEF left
    <3> QED
      BY <3>2, <3>3
  <2> QED
    BY <2>3, <2>4, <2>5
<1>15. leftActions(h, sol, f2) = leftActions(h, sol, f)
  BY <1>3, <1>14 DEF leftActions
<1>16. Completes(h, sol, n2, f2, q)
  BY <1>5, <1>11, <1>13, <1>15 DEF Completes
<1> QED
  BY <1>3, <1>14, <1>16 DEF n2, mi, TakenOut

(* The states a chain leads through, entry by entry.                       *)
LEMMA StateAfterEntry ==
  ASSUME NEW h, NEW sol \in Seq(SolutionSteps(h))
  PROVE  /\ stateAfter(h, sol, 0) = h.s0
         /\ \A i \in DOMAIN sol :
              stateAfter(h, sol, i) =
                IF sol[i].method # 0 THEN stateAfter(h, sol, i - 1)
                ELSE (stateAfter(h, sol, i - 1) \ h.del[sol[i].task]) \cup h.add[sol[i].task]
<1> DEFINE D == 0 .. Len(sol)
           next(f, j) == IF j = 0 THEN h.s0
                         ELSE IF sol[j].method # 0 THEN f[j - 1]
                         ELSE (f[j - 1] \ h.del[sol[j].task]) \cup h.add[sol[j].task]
           all(f) == [j \in D |-> IF j = 0 THEN h.s0
                         ELSE IF sol[j].method # 0 THEN f[j - 1]
                         ELSE (f[j - 1] \ h.del[sol[j].task]) \cup h.add[sol[j].task]]
           it == CHOOSE f : f = all(f)
           U  == h.s0 \cup UNION {h.add[sol[j].task] : j \in DOMAIN sol}
           V  == Nat \X SUBSET U
           out(i, S) == IF i \in DOMAIN sol /\ sol[i].method = 0
                        THEN (S \ h.del[sol[i].task]) \cup h.add[sol[i].task] ELSE S
           step == [v \in V |-> <<v[1] + 1, out(v[1] + 1, v[2])>>]
<1>1. Len(sol) \in Nat /\ DOMAIN sol = 1 .. Len(sol)
  OBVIOUS
<1>2. <<0, h.s0>> \in V /\ step \in [V -> V]
  OBVIOUS
<1>3. PICK r : IsIteration(r, V, <<0, h.s0>>, step)
  <2> HIDE DEF V, step
  <2> QED
    BY <1>2, Recursion
<1>4. /\ \A i \in Nat : r[i] \in V /\ r[i + 1] = <<r[i][1] + 1, out(r[i][1] + 1, r[i][2])>>
      /\ r[0] = <<0, h.s0>>
  BY <1>3 DEF IsIteration
<1>5. \A i \in Nat : r[i][1] = i
  <2> DEFINE S == {i \in Nat : r[i][1] = i}
  <2>1. 0 \in S /\ \A i \in Nat : i \in S => i + 1 \in S
    <3> HIDE DEF V, out, step
    <3>1. r[0][1] = 0
      BY <1>4
    <3>2. ASSUME NEW i \in Nat, r[i][1] = i PROVE r[i + 1][1] = i + 1
      <4>1. r[i + 1] = <<r[i][1] + 1, out(r[i][1] + 1, r[i][2])>>
        BY <1>4
      <4> QED
        BY <3>2, <4>1
    <3> QED
      BY <3>1, <3>2
  <2>2. Nat \subseteq S
    <3> HIDE DEF S
    <3> QED
      BY <2>1, Induction
  <2> QED
    BY <2>2
<1> DEFINE rec == [j \in D |-> r[j][2]]
<1>6. ASSUME NEW j \in D PROVE rec[j] = next(rec, j)
  <2>1. CASE j = 0
    <3> HIDE DEF V, out, step, D
    <3>1. r[0][2] = h.s0
      BY <1>4
    <3> QED
      BY <2>1, <3>1
  <2>2. CASE j # 0
    <3>1. j - 1 \in Nat /\ (j - 1) + 1 = j /\ j \in DOMAIN sol /\ j - 1 \in D
      BY <1>1, <2>2
    <3>2. r[j] = <<j, out(j, r[j - 1][2])>>
      <4> HIDE DEF out, V, step
      <4> QED
        BY <1>4, <1>5, <3>1
    <3>3. r[j][2] = out(j, r[j - 1][2])
      BY <3>2
    <3> QED
      BY <2>2, <3>1, <3>3
  <2> QED
    BY <2>1, <2>2
<1>7. rec = all(rec)
  <2>1. rec = [j \in D |-> rec[j]]
    OBVIOUS
  <2> HIDE DEF rec, D
  <2> QED
    BY <1>6, <2>1
<1>8. it = all(it)
  <2> HIDE DEF all, rec
  <2> QED
    BY <1>7
<1>9. \A i : stateAfter(h, sol, i) = it[i]
  BY DEF stateAfter
<1>10. \A j \in D : it[j] = next(it, j)
  <2> HIDE DEF it, D
  <2> QED
    BY <1>8
<1> HIDE DEF it
<1>11. stateAfter(h, sol, 0) = h.s0
  <2>1. 0 \in D
    BY <1>1
  <2>2. it[0] = next(it, 0)
    BY <1>10, <2>1
  <2> QED
    BY <1>9, <2>2
<1>12. ASSUME NEW i \in DOMAIN sol
       PROVE  stateAfter(h, sol, i) =
                IF sol[i].method # 0 THEN stateAfter(h, sol, i - 1)
                ELSE (stateAfter(h, sol, i - 1) \ h.del[sol[i].task]) \cup h.add[sol[i].task]
  <2>1. i \in D /\ i # 0
    BY <1>1
  <2>2. it[i] = next(it, i)
    BY <1>10, <2>1
  <2>3. stateAfter(h, sol, i) = it[i] /\ stateAfter(h, sol, i - 1) = it[i - 1]
    BY <1>9
  <2> QED
    BY <2>1, <2>2, <2>3
<1> QED
  BY <1>11, <1>12

(* At the start, all of the plan is left.                                  *)
LEMMA InitialCompletion ==
  ASSUME NEW h, NEW sol \in Seq(SolutionSteps(h)), ValidPlan(h, sol)
  PROVE  \E f, q : Completes(h, sol, prepareTNi(h), f, q) /\ left(h, sol, f) = DOMAIN sol
<1> DEFINE n == prepareTNi(h)
           f == [s \in {rootStep} |-> rootStep]
           q == [i \in 0 .. Len(sol) |-> stateAfter(h, sol, i)]
<1>1. /\ Steps(n) = {rootStep} /\ n.task[rootStep] = h.initialTask
      /\ n.succ[rootStep] = {} /\ n.state = h.s0
  BY DEF prepareTNi, Steps, rootStep
<1> HIDE DEF n
<1>2. rootStep \in treeSteps(h, sol)
  BY DEF treeSteps
<1>3. hasTask(sol, rootStep, h.initialTask)
  BY DEF ValidPlan, treeComplete, tasksFit
<1>4. StandsFor(h, sol, n, f)
  BY <1>1, <1>2, <1>3 DEF StandsFor
<1>5. KeepsOrder(h, sol, n, f)
  BY <1>1 DEF KeepsOrder
<1>6. left(h, sol, f) = DOMAIN sol
  BY DEF left, ValidPlan, treeComplete, stepsOf
<1>7. Reaches(h, sol, leftActions(h, sol, f), q, n.state)
  <2>1. leftActions(h, sol, f) = DOMAIN sol \ decompositions(sol)
    BY <1>6 DEF leftActions
  <2>2. Len(sol) \in Nat /\ DOMAIN sol = 1 .. Len(sol)
    OBVIOUS
  <2>3. q[0] = n.state
    BY <1>1, <2>2, StateAfterEntry
  <2>4. h.goal \subseteq q[Len(sol)]
    BY <2>2 DEF ValidPlan, executes
  <2>5. ASSUME NEW i \in DOMAIN sol
        PROVE  follows(h, sol, DOMAIN sol \ decompositions(sol), q, i)
    <3>1. q[i] = stateAfter(h, sol, i) /\ q[i - 1] = stateAfter(h, sol, i - 1)
      BY <2>2
    <3>2. stateAfter(h, sol, i) =
            IF sol[i].method # 0 THEN stateAfter(h, sol, i - 1)
            ELSE (stateAfter(h, sol, i - 1) \ h.del[sol[i].task]) \cup h.add[sol[i].task]
      BY StateAfterEntry
    <3> HIDE DEF q
    <3> QED
      BY <3>1, <3>2 DEF follows, ValidPlan, executes, decompositions
  <2> HIDE DEF q, f
  <2> QED
    BY <2>1, <2>3, <2>4, <2>5 DEF Reaches
<1> HIDE DEF f, q
<1>8. Completes(h, sol, n, f, q)
  BY <1>4, <1>5, <1>7 DEF Completes
<1> QED
  BY <1>6, <1>8 DEF n

(* The same search node is completed in the same way.                      *)
LEMMA SameCompletion ==
  ASSUME NEW h, NEW sol, NEW n, NEW o, IsFiniteSet(Steps(n)), IsFiniteSet(Steps(o)),
         n.succ \in [Steps(n) -> SUBSET Steps(n)],
         SameSearchNode(n, o), NEW f, NEW q, Completes(h, sol, n, f, q)
  PROVE  \E f2 : Completes(h, sol, o, f2, q) /\ left(h, sol, f2) = left(h, sol, f)
<1>1. PICK m \in [Steps(n) -> Steps(o)] :
        /\ IsInjective(m)
        /\ \A s \in Steps(n) : n.task[s] = o.task[m[s]] /\ {m[t] : t \in n.succ[s]} = o.succ[m[s]]
  BY DEF SameSearchNode
<1>2. \A s, t \in Steps(n) : m[s] = m[t] => s = t
  BY <1>1 DEF IsInjective
<1>3. {m[s] : s \in Steps(n)} = Steps(o)
  <2> DEFINE R == {m[s] : s \in Steps(n)}
  <2>1. R \subseteq Steps(o)
    BY <1>1
  <2>2. Cardinality(R) = Cardinality(Steps(n))
    <3>1. m \in Bijection(Steps(n), R)
      BY <1>1, <1>2 DEF Bijection, Injection, Surjection, IsInjective
    <3>2. ExistsBijection(Steps(n), R)
      BY <3>1 DEF ExistsBijection
    <3> HIDE DEF R
    <3> QED
      BY <3>2, FS_Bijection
  <2>3. Cardinality(Steps(n)) = Cardinality(Steps(o))
    BY DEF SameSearchNode
  <2> HIDE DEF R
  <2>4. R = Steps(o)
    BY <2>1, <2>2, <2>3, FS_Subset
  <2> QED
    BY <2>4 DEF R
<1> DEFINE back(x) == CHOOSE s \in Steps(n) : m[s] = x
           f2 == [x \in Steps(o) |-> f[back(x)]]
<1>4. \A x \in Steps(o) : back(x) \in Steps(n) /\ m[back(x)] = x
  BY <1>3
<1>5. \A s \in Steps(n) : m[s] \in Steps(o) /\ back(m[s]) = s
  BY <1>1, <1>2, <1>4
<1> HIDE DEF back
<1>6. StandsFor(h, sol, n, f)
  BY DEF Completes
<1>7. StandsFor(h, sol, o, f2)
  <2>1. f2 \in [Steps(o) -> treeSteps(h, sol)]
    BY <1>4, <1>6 DEF StandsFor
  <2>2. \A x \in Steps(o) : hasTask(sol, f2[x], o.task[x])
    BY <1>1, <1>4, <1>6 DEF StandsFor
  <2>3. \A x, y \in Steps(o) : x # y => under(h, sol, f2[x]) \cap under(h, sol, f2[y]) = {}
    BY <1>4, <1>6 DEF StandsFor
  <2> QED
    BY <2>1, <2>2, <2>3 DEF StandsFor
<1>8. KeepsOrder(h, sol, o, f2)
  <2> SUFFICES ASSUME NEW x \in Steps(o), NEW y \in o.succ[x],
                      NEW a \in actionsUnder(h, sol, f2[x]), NEW b \in actionsUnder(h, sol, f2[y])
               PROVE  a < b
    BY DEF KeepsOrder
  <2>1. back(x) \in Steps(n) /\ m[back(x)] = x
    BY <1>4
  <2>2. {m[t] : t \in n.succ[back(x)]} = o.succ[x]
    BY <1>1, <2>1
  <2>3. PICK t \in n.succ[back(x)] : y = m[t]
    BY <2>2
  <2>4. t \in Steps(n)
    BY <2>1, <2>3
  <2>5. y \in Steps(o) /\ back(y) = t
    BY <1>5, <2>3, <2>4
  <2>6. f2[x] = f[back(x)] /\ f2[y] = f[t]
    BY <2>5
  <2> QED
    BY <2>1, <2>3, <2>6 DEF Completes, KeepsOrder
<1>9. left(h, sol, f2) = left(h, sol, f)
  <2>1. DOMAIN f = Steps(n) /\ DOMAIN f2 = Steps(o)
    BY <1>6 DEF StandsFor
  <2>2. \A i : i \in left(h, sol, f2) <=> i \in left(h, sol, f)
    BY <1>4, <1>5, <2>1 DEF left
  <2> QED
    BY <2>2
<1>10. n.state = o.state
  BY DEF SameSearchNode
<1> HIDE DEF f2
<1>11. Completes(h, sol, o, f2, q)
  BY <1>7, <1>8, <1>9, <1>10 DEF Completes, leftActions
<1> QED
  BY <1>9, <1>11

-----------------------------------------------------------------------------
(***************************************************************************)
(* A node fits the plan within L entries when the plan completes it, at    *)
(* most L entries are left, and what the node has spent and what is left   *)
(* to spend is no more than the plan costs.                                *)
(***************************************************************************)
PlanOf(h, sol) == IsProblem(h) /\ sol \in Seq(SolutionSteps(h)) /\ ValidPlan(h, sol)

spent(g, n) ==
  CASE g = "none"   -> 0
    [] g = "path"   -> n.modificationDepth
    [] g = "action" -> n.actionCosts
    [] g = "mixed"  -> n.mixedModificationDepth

Fits(h, g, sol, n, p, L) ==
  \E f, q :
    /\ Completes(h, sol, n, f, q)
    /\ Cardinality(left(h, sol, f)) <= L
    /\ p + restG(h, g, sol, f) <= planG(h, g, sol)

FitsAt(h, g, sol, n, L) == Fits(h, g, sol, n, spent(g, n), L)

(* Modification x of node n, as the k-th progression step, leads to a node *)
(* that fits.                                                              *)
progressed(h, n, x, k) ==
  IF x[2] = 0 THEN applyStep(h, n, x[1], k) ELSE decomposeStep(h, n, x[1], x[2], k)

Follows(h, g, sol, n, x, L) ==
  \A k \in Nat : NodeInv(h, n, k) => FitsAt(h, g, sol, progressed(h, n, x, k), L)

LEMMA SpentType ==
  ASSUME NEW h, NEW n, NodeType(h, n), NEW g \in gValues
  PROVE  spent(g, n) \in Nat
BY DEF spent, gValues, NodeType

LEMMA FitsWeaker ==
  ASSUME NEW h, NEW sol, PlanOf(h, sol), NEW g \in gValues, NEW n,
         NEW p \in Nat, NEW p2 \in Nat, p2 <= p, NEW L \in Int, NEW L2 \in Int, L <= L2,
         Fits(h, g, sol, n, p, L)
  PROVE  Fits(h, g, sol, n, p2, L2)
<1>1. PICK f, q :
        /\ Completes(h, sol, n, f, q)
        /\ Cardinality(left(h, sol, f)) <= L
        /\ p + restG(h, g, sol, f) <= planG(h, g, sol)
  BY DEF Fits
<1>2. /\ Cardinality(left(h, sol, f)) \in Nat /\ restG(h, g, sol, f) \in Nat
      /\ planG(h, g, sol) \in Nat
  BY LeftMeasure, EntryWeights DEF PlanOf
<1>3. Cardinality(left(h, sol, f)) <= L2 /\ p2 + restG(h, g, sol, f) <= planG(h, g, sol)
  BY <1>1, <1>2
<1> QED
  BY <1>1, <1>3 DEF Fits

LEMMA FitsBounds ==
  ASSUME NEW h, NEW sol, PlanOf(h, sol), NEW g \in gValues, NEW n,
         NEW p \in Nat, NEW L \in Int, Fits(h, g, sol, n, p, L)
  PROVE  L >= 0 /\ p <= planG(h, g, sol)
<1>1. PICK f, q :
        /\ Cardinality(left(h, sol, f)) <= L
        /\ p + restG(h, g, sol, f) <= planG(h, g, sol)
  BY DEF Fits
<1>2. /\ Cardinality(left(h, sol, f)) \in Nat /\ restG(h, g, sol, f) \in Nat
      /\ planG(h, g, sol) \in Nat
  BY LeftMeasure, EntryWeights DEF PlanOf
<1> QED
  BY <1>1, <1>2

LEMMA InitialFits ==
  ASSUME NEW h, NEW sol, PlanOf(h, sol), NEW g \in gValues
  PROVE  FitsAt(h, g, sol, prepareTNi(h), Len(sol))
<1> DEFINE n == prepareTNi(h)
<1>1. PICK f, q : Completes(h, sol, n, f, q) /\ left(h, sol, f) = DOMAIN sol
  BY InitialCompletion DEF PlanOf
<1>2. Cardinality(left(h, sol, f)) <= Len(sol)
  BY LeftMeasure DEF PlanOf
<1>3. spent(g, n) = 0
  BY DEF spent, gValues, prepareTNi
<1>4. restG(h, g, sol, f) = planG(h, g, sol) /\ planG(h, g, sol) \in Nat
  BY <1>1, EntryWeights DEF PlanOf, restG
<1> HIDE DEF n
<1>5. spent(g, n) + restG(h, g, sol, f) <= planG(h, g, sol)
  BY <1>3, <1>4
<1>6. FitsAt(h, g, sol, n, Len(sol))
  BY <1>1, <1>2, <1>5 DEF FitsAt, Fits
<1> QED
  BY <1>6 DEF n

LEMMA SameFits ==
  ASSUME NEW h, NEW sol, NEW g, NEW n, NEW o, IsFiniteSet(Steps(n)), IsFiniteSet(Steps(o)),
         NodeType(h, n), SameSearchNode(n, o), NEW p, NEW L, Fits(h, g, sol, n, p, L)
  PROVE  Fits(h, g, sol, o, p, L)
<1>1. PICK f, q :
        /\ Completes(h, sol, n, f, q)
        /\ Cardinality(left(h, sol, f)) <= L
        /\ p + restG(h, g, sol, f) <= planG(h, g, sol)
  BY DEF Fits
<1>2. n.succ \in [Steps(n) -> SUBSET Steps(n)]
  BY DEF NodeType
<1>3. PICK f2 : Completes(h, sol, o, f2, q) /\ left(h, sol, f2) = left(h, sol, f)
  BY <1>1, <1>2, SameCompletion
<1> QED
  BY <1>1, <1>3 DEF Fits, restG

LEMMA PushedFits ==
  ASSUME NEW h, NEW sol, NEW g, NEW n, NEW o, SameNetwork(o, n), NEW p, NEW L
  PROVE  Fits(h, g, sol, n, p, L) <=> Fits(h, g, sol, o, p, L)
<1>1. \A f, q : Completes(h, sol, n, f, q) <=> Completes(h, sol, o, f, q)
  BY DEF Completes, StandsFor, KeepsOrder, SameNetwork, Steps
<1> QED
  BY <1>1 DEF Fits

(* What a progression step adds to the g value of the node.                *)
LEMMA SpentApply ==
  ASSUME NEW h, NEW n, NodeType(h, n), NEW g \in gValues, NEW s, NEW k,
         NEW e, e.method = 0, e.task = n.task[s]
  PROVE  spent(g, applyStep(h, n, s, k)) = spent(g, n) + entryG(h, g, e)
BY DEF spent, gValues, applyStep, entryG, NodeType

LEMMA SpentDecompose ==
  ASSUME NEW h, NEW n, NodeType(h, n), NEW g \in gValues, NEW d, NEW mi, NEW k,
         NEW e, e.method # 0
  PROVE  spent(g, decomposeStep(h, n, d, mi, k)) = spent(g, n) + entryG(h, g, e)
BY DEF spent, gValues, decomposeStep, entryG, NodeType

(* Taking entry j out of what is left.                                     *)
LEMMA LessLeft ==
  ASSUME NEW h, NEW sol, PlanOf(h, sol), NEW g \in gValues, NEW n, NEW L \in Nat,
         NEW f, Cardinality(left(h, sol, f)) <= L, NEW p \in Nat,
         p + restG(h, g, sol, f) <= planG(h, g, sol),
         NEW j, NEW f2, NEW q2, TakenOut(h, sol, f, f2, j),
         NEW n2, Completes(h, sol, n2, f2, q2), spent(g, n2) = p + entryG(h, g, sol[j])
  PROVE  L >= 1 /\ FitsAt(h, g, sol, n2, L - 1)
<1>1. /\ Cardinality(left(h, sol, f2)) = Cardinality(left(h, sol, f)) - 1
      /\ restG(h, g, sol, f) = restG(h, g, sol, f2) + entryG(h, g, sol[j])
  <2>1. IsProblem(h) /\ sol \in Seq(SolutionSteps(h)) /\ ValidPlan(h, sol)
    BY DEF PlanOf
  <2> QED
    BY <2>1, OneEntryLess
<1>2. /\ Cardinality(left(h, sol, f)) \in Nat /\ Cardinality(left(h, sol, f2)) \in Nat
      /\ restG(h, g, sol, f2) \in Nat /\ planG(h, g, sol) \in Nat
      /\ j \in DOMAIN sol
  BY LeftMeasure, EntryWeights DEF PlanOf, TakenOut
<1>3. entryG(h, g, sol[j]) \in Nat
  BY <1>2, EntryWeights DEF PlanOf
<1>4. /\ L >= 1 /\ Cardinality(left(h, sol, f2)) <= L - 1
      /\ spent(g, n2) + restG(h, g, sol, f2) <= planG(h, g, sol)
  BY <1>1, <1>2, <1>3
<1> QED
  BY <1>4 DEF FitsAt, Fits

(* Taking an action of the plan that is due, or has no effect.             *)
LEMMA ActionFollows ==
  ASSUME NEW h, NEW sol, PlanOf(h, sol), NEW g \in gValues, NEW n, WellFormed(h, n),
         NEW L \in Nat, NEW f, NEW q, Completes(h, sol, n, f, q),
         Cardinality(left(h, sol, f)) <= L, spent(g, n) + restG(h, g, sol, f) <= planG(h, g, sol),
         NEW s \in applicableSteps(h, n), NEW j, isDue(h, sol, n, f, s, j)
  PROVE  L >= 1 /\ \A k \in Nat : FitsAt(h, g, sol, applyStep(h, n, s, k), L - 1)
<1> SUFFICES ASSUME NEW k \in Nat
             PROVE  L >= 1 /\ FitsAt(h, g, sol, applyStep(h, n, s, k), L - 1)
  OBVIOUS
<1>1. IsProblem(h) /\ sol \in Seq(SolutionSteps(h)) /\ ValidPlan(h, sol) /\ NodeType(h, n)
  BY DEF PlanOf, WellFormed
<1> DEFINE n2 == applyStep(h, n, s, k)
<1>2. PICK f2, q2 :
        /\ Completes(h, sol, n2, f2, q2)
        /\ TakenOut(h, sol, f, f2, j)
        /\ sol[j].method = 0 /\ sol[j].task = n.task[s]
  BY <1>1, ActionStep
<1>4. spent(g, n2) = spent(g, n) + entryG(h, g, sol[j])
  BY <1>1, <1>2, SpentApply
<1>5. spent(g, n) \in Nat
  BY <1>1, SpentType
<1> HIDE DEF n2
<1>6. L >= 1 /\ FitsAt(h, g, sol, n2, L - 1)
  BY <1>2, <1>4, <1>5, LessLeft
<1> QED
  BY <1>6 DEF n2

LEMMA MethodFollows ==
  ASSUME NEW h, NEW sol, PlanOf(h, sol), NEW g \in gValues, NEW n, NEW k \in Nat, NodeInv(h, n, k),
         NEW L \in Nat, NEW f, NEW q, Completes(h, sol, n, f, q),
         Cardinality(left(h, sol, f)) <= L, spent(g, n) + restG(h, g, sol, f) <= planG(h, g, sol),
         NEW d \in n.abs, NEW j \in DOMAIN sol, sol[j].step = f[d]
  PROVE  /\ L >= 1 /\ sol[j].method \in taskToMethods(h, n.task[d]) /\ sol[j].method # 0
         /\ FitsAt(h, g, sol, decomposeStep(h, n, d, sol[j].method, k), L - 1)
<1>1. IsProblem(h) /\ sol \in Seq(SolutionSteps(h)) /\ ValidPlan(h, sol) /\ NodeType(h, n)
  BY DEF PlanOf, NodeInv, WellFormed
<1> DEFINE n2 == decomposeStep(h, n, d, sol[j].method, k)
<1>2. sol[j].method \in taskToMethods(h, n.task[d])
  BY <1>1, DecomposeStep
<1>3. PICK f2 :
        /\ Completes(h, sol, n2, f2, q)
        /\ TakenOut(h, sol, f, f2, j)
        /\ sol[j].method # 0
  BY <1>1, DecomposeStep
<1>4. spent(g, n2) = spent(g, n) + entryG(h, g, sol[j])
  BY <1>1, <1>3, SpentDecompose
<1>5. spent(g, n) \in Nat
  BY <1>1, SpentType
<1> HIDE DEF n2
<1>6. L >= 1 /\ FitsAt(h, g, sol, n2, L - 1)
  BY <1>3, <1>4, <1>5, LessLeft
<1> QED
  BY <1>2, <1>3, <1>6 DEF n2

(* A node that fits is a goal node, or one of the modifications of each    *)
(* set that the loop may choose leads on.                                  *)
LEMMA Progress ==
  ASSUME NEW h, NEW sol, PlanOf(h, sol), NEW g \in gValues, NEW n, NEW k0 \in Nat, NodeInv(h, n, k0),
         NEW L \in Nat, FitsAt(h, g, sol, n, L), ~ isGoal(h, n)
  PROVE  /\ L >= 1
         /\ n.abs = {} =>
              \E s \in applicableSteps(h, n) : Follows(h, g, sol, n, <<s, 0>>, L - 1)
         /\ \A d \in n.abs : \E mi \in taskToMethods(h, n.task[d]) :
              mi # 0 /\ Follows(h, g, sol, n, <<d, mi>>, L - 1)
<1>1. PICK f, q :
        /\ Completes(h, sol, n, f, q)
        /\ Cardinality(left(h, sol, f)) <= L
        /\ spent(g, n) + restG(h, g, sol, f) <= planG(h, g, sol)
  BY DEF FitsAt, Fits
<1>2. /\ IsProblem(h) /\ sol \in Seq(SolutionSteps(h)) /\ ValidPlan(h, sol)
      /\ WellFormed(h, n) /\ NodeType(h, n) /\ StandsFor(h, sol, n, f)
  BY <1>1 DEF PlanOf, NodeInv, WellFormed, Completes
<1>3. \A d \in n.abs : d \in Steps(n)
  BY <1>2 DEF NodeType
<1>4. ASSUME NEW d \in n.abs
      PROVE  L >= 1 /\ \E mi \in taskToMethods(h, n.task[d]) :
               mi # 0 /\ Follows(h, g, sol, n, <<d, mi>>, L - 1)
  <2>1. PICK j \in left(h, sol, f) : j \in DOMAIN sol /\ sol[j].step = f[d]
    BY <1>2, <1>3, EntryOf
  <2> DEFINE mi == sol[j].method
  <2>2. \A k \in Nat : NodeInv(h, n, k) =>
          /\ L >= 1 /\ mi \in taskToMethods(h, n.task[d]) /\ mi # 0
          /\ FitsAt(h, g, sol, decomposeStep(h, n, d, mi, k), L - 1)
    BY <1>1, <2>1, MethodFollows
  <2>3. L >= 1 /\ mi \in taskToMethods(h, n.task[d]) /\ mi # 0
    BY <2>2
  <2> HIDE DEF mi
  <2>4. Follows(h, g, sol, n, <<d, mi>>, L - 1)
    BY <2>2, <2>3 DEF Follows, progressed
  <2> QED
    BY <2>3, <2>4
<1>5. ASSUME n.abs = {}
      PROVE  L >= 1 /\ \E s \in applicableSteps(h, n) : Follows(h, g, sol, n, <<s, 0>>, L - 1)
  <2>1. Steps(n) # {}
    <3> SUFFICES ASSUME Steps(n) = {} PROVE FALSE
      OBVIOUS
    <3>1. DOMAIN f = {}
      BY <1>2 DEF StandsFor
    <3>2. leftActions(h, sol, f) = {}
      BY <3>1 DEF leftActions, left
    <3>3. Reaches(h, sol, {}, q, n.state)
      BY <1>1, <3>2 DEF Completes
    <3>4. Len(sol) \in Nat /\ Len(sol) \in 0 .. Len(sol)
      BY <1>2
    <3>5. q[Len(sol)] = n.state
      BY <1>2, <3>3, <3>4, SameStateUntil
    <3>6. n.prim = {}
      BY <1>2 DEF NodeType
    <3> QED
      BY <1>5, <3>3, <3>5, <3>6 DEF Reaches, isGoal
  <2>2. PICK s \in applicableSteps(h, n) : \E j \in leftActions(h, sol, f) :
           /\ sol[j].step = f[s]
           /\ \A i \in leftActions(h, sol, f) : j <= i
    BY <1>1, <1>2, <1>5, <2>1, FirstAction
  <2>3. PICK j \in leftActions(h, sol, f) :
           /\ sol[j].step = f[s]
           /\ \A i \in leftActions(h, sol, f) : j <= i
    BY <2>2
  <2>4. j \in DOMAIN sol
    BY DEF leftActions, left
  <2>5. L >= 1 /\ \A k \in Nat : FitsAt(h, g, sol, applyStep(h, n, s, k), L - 1)
    <3>1. isDue(h, sol, n, f, s, j)
      BY <2>3, <2>4 DEF isDue
    <3> QED
      BY <1>1, <1>2, <3>1, ActionFollows
  <2>6. Follows(h, g, sol, n, <<s, 0>>, L - 1)
    BY <2>5 DEF Follows, progressed
  <2> QED
    BY <2>5, <2>6
<1>6. L >= 1
  BY <1>4, <1>5
<1> QED
  BY <1>4, <1>5, <1>6

(* Progressing an effectless step at once stays on the plan.               *)
LEMMA EffectLessProgress ==
  ASSUME NEW h, NEW sol, PlanOf(h, sol), NEW g \in gValues, NEW n, NEW k0 \in Nat, NodeInv(h, n, k0),
         NEW L \in Nat, FitsAt(h, g, sol, n, L), NEW s \in effectLessAfterApply(h, n)
  PROVE  L >= 1 /\ \A k \in Nat : FitsAt(h, g, sol, applyStep(h, n, s, k), L - 1)
<1>1. PICK f, q :
        /\ Completes(h, sol, n, f, q)
        /\ Cardinality(left(h, sol, f)) <= L
        /\ spent(g, n) + restG(h, g, sol, f) <= planG(h, g, sol)
  BY DEF FitsAt, Fits
<1>2. /\ ValidPlan(h, sol) /\ WellFormed(h, n) /\ NodeType(h, n) /\ StandsFor(h, sol, n, f)
  BY <1>1 DEF PlanOf, NodeInv, WellFormed, Completes
<1>3. s \in applicableSteps(h, n) /\ isEffectless(h, n.task[s])
  BY DEF effectLessAfterApply, applicableSteps
<1>4. s \in Steps(n)
  BY <1>2, <1>3 DEF NodeType, applicableSteps
<1>5. PICK j \in left(h, sol, f) : j \in DOMAIN sol /\ sol[j].step = f[s]
  BY <1>2, <1>4, EntryOf
<1>6. isDue(h, sol, n, f, s, j)
  BY <1>3, <1>5 DEF isDue
<1> QED
  BY <1>1, <1>2, <1>3, <1>6, ActionFollows
-----------------------------------------------------------------------------
(***************************************************************************)
(* Where progression leads.                                                *)
(***************************************************************************)
LEMMA LeadsToNext ==
  ASSUME NEW h, NEW n, NEW o, leadsTo(h, n, o)
  PROVE  /\ \A s \in applicableSteps(h, o), k \in Nat :
              NamedBefore(o, k) => leadsTo(h, n, applyStep(h, o, s, k))
         /\ \A d \in o.abs : \A mi \in taskToMethods(h, o.task[d]), k \in Nat :
              NamedBefore(o, k) => leadsTo(h, n, decomposeStep(h, o, d, mi, k))
         /\ \A v \in Int : leadsTo(h, n, [o EXCEPT !.fValue = v, !.pushed = TRUE])
<1>1. ASSUME NEW s \in applicableSteps(h, o), NEW k \in Nat, NamedBefore(o, k)
      PROVE  leadsTo(h, n, applyStep(h, o, s, k))
  BY <1>1 DEF leadsTo, progressionClosed, NamedBefore
<1>2. ASSUME NEW d \in o.abs, NEW mi \in taskToMethods(h, o.task[d]), NEW k \in Nat,
             NamedBefore(o, k)
      PROVE  leadsTo(h, n, decomposeStep(h, o, d, mi, k))
  BY <1>2 DEF leadsTo, progressionClosed, NamedBefore
<1>3. ASSUME NEW v \in Int
      PROVE  leadsTo(h, n, [o EXCEPT !.fValue = v, !.pushed = TRUE])
  BY DEF leadsTo, progressionClosed
<1> QED
  BY <1>1, <1>2, <1>3

LEMMA LeadsToAfter ==
  ASSUME NEW h, NEW n, NEW o, NEW p, leadsTo(h, n, o), leadsTo(h, o, p)
  PROVE  leadsTo(h, n, p)
BY DEF leadsTo

LEMMA LeadsToItself == \A h, n : leadsTo(h, n, n)
BY DEF leadsTo

(* From a node that fits, progression leads to a goal node.                *)
LEMMA LeadsToGoal ==
  ASSUME NEW h, NEW sol, PlanOf(h, sol), NEW g \in gValues, NEW n0, NEW k0 \in Nat,
         NodeInv(h, n0, k0), NEW L0 \in Nat, FitsAt(h, g, sol, n0, L0)
  PROVE  \E o : leadsTo(h, n0, o) /\ isGoal(h, o)
<1> DEFINE S == {L \in Nat : \A n, k : k \in Nat /\ NodeInv(h, n, k) /\ FitsAt(h, g, sol, n, L)
                                  => \E o : leadsTo(h, n, o) /\ isGoal(h, o)}
<1>1. ASSUME NEW L \in Nat, L >= 1 => L - 1 \in S
      PROVE  L \in S
  <2> SUFFICES ASSUME NEW n, NEW k \in Nat, NodeInv(h, n, k), FitsAt(h, g, sol, n, L)
               PROVE  \E o : leadsTo(h, n, o) /\ isGoal(h, o)
    OBVIOUS
  <2>1. CASE isGoal(h, n)
    BY <2>1, LeadsToItself
  <2>2. ASSUME ~ isGoal(h, n)
        PROVE  \E n2 : /\ leadsTo(h, n, n2) /\ NodeInv(h, n2, k + 1)
                       /\ FitsAt(h, g, sol, n2, L - 1) /\ L >= 1
    <3>0. NamedBefore(n, k) /\ IsProblem(h) /\ leadsTo(h, n, n)
      BY LeadsToItself DEF NodeInv, PlanOf
    <3>1. CASE n.abs = {}
      <4>1. PICK s \in applicableSteps(h, n) : L >= 1 /\ Follows(h, g, sol, n, <<s, 0>>, L - 1)
        BY <2>2, <3>1, Progress
      <4>2. FitsAt(h, g, sol, applyStep(h, n, s, k), L - 1)
        BY <4>1 DEF Follows, progressed
      <4>3. leadsTo(h, n, applyStep(h, n, s, k))
        BY <3>0, LeadsToNext
      <4>4. NodeInv(h, applyStep(h, n, s, k), k + 1)
        BY <3>0, AppliedNode
      <4> QED
        BY <4>1, <4>2, <4>3, <4>4
    <3>2. ASSUME NEW d \in n.abs
          PROVE  \E n2 : /\ leadsTo(h, n, n2) /\ NodeInv(h, n2, k + 1)
                         /\ FitsAt(h, g, sol, n2, L - 1) /\ L >= 1
      <4>1. PICK mi \in taskToMethods(h, n.task[d]) :
              L >= 1 /\ mi # 0 /\ Follows(h, g, sol, n, <<d, mi>>, L - 1)
        BY <2>2, Progress
      <4>2. FitsAt(h, g, sol, decomposeStep(h, n, d, mi, k), L - 1)
        BY <4>1 DEF Follows, progressed
      <4>3. leadsTo(h, n, decomposeStep(h, n, d, mi, k))
        BY <3>0, LeadsToNext
      <4>4. NodeInv(h, decomposeStep(h, n, d, mi, k), k + 1)
        BY <3>0, DecomposedNode
      <4> QED
        BY <4>1, <4>2, <4>3, <4>4
    <3> QED
      BY <3>1, <3>2
  <2>3. ASSUME ~ isGoal(h, n) PROVE \E o : leadsTo(h, n, o) /\ isGoal(h, o)
    <3>1. PICK n2 : /\ leadsTo(h, n, n2) /\ NodeInv(h, n2, k + 1)
                    /\ FitsAt(h, g, sol, n2, L - 1) /\ L >= 1
      BY <2>2, <2>3
    <3>2. PICK o : leadsTo(h, n2, o) /\ isGoal(h, o)
      BY <1>1, <3>1
    <3> QED
      BY <3>1, <3>2, LeadsToAfter
  <2> QED
    BY <2>1, <2>3
<1> HIDE DEF S
<1>2. Nat \subseteq S
  <2>1. 0 \in S
    BY <1>1
  <2>2. \A L \in Nat : L \in S => L + 1 \in S
    BY <1>1
  <2> QED
    BY <2>1, <2>2, Induction
<1> QED
  BY <1>2 DEF S

-----------------------------------------------------------------------------
(***************************************************************************)
(* What the search allocates is obtained by progression.                   *)
(***************************************************************************)
ObtainedInv == \A i \in DOMAIN node : obtained(htn, node[i])

LEMMA PushedObtained ==
  ASSUME NEW n, NEW hval, DOMAIN n = NodeFields, NodeType(htn, pushed(n, hval)), obtained(htn, n)
  PROVE  obtained(htn, pushed(n, hval))
<1> DEFINE v == hval * conf.weight + gValue(n)
<1>1. pushed(n, hval) = [n EXCEPT !.fValue = v, !.pushed = TRUE]
  BY DEF pushed
<1>2. pushed(n, hval).fValue = v
  BY <1>1 DEF NodeFields
<1>3. v \in Int
  BY <1>2 DEF NodeType
<1> HIDE DEF v
<1>4. leadsTo(htn, prepareTNi(htn), n)
  BY DEF obtained
<1>5. \A w \in Int : leadsTo(htn, prepareTNi(htn), [n EXCEPT !.fValue = w, !.pushed = TRUE])
  BY <1>4, LeadsToNext
<1>6. leadsTo(htn, prepareTNi(htn), pushed(n, hval))
  BY <1>1, <1>3, <1>5
<1> QED
  BY <1>6 DEF obtained

LEMMA InitialObtained == ASSUME Init PROVE ObtainedInv
<1> DEFINE n == prepareTNi(htn)
<1>1. IsProblem(htn) /\ conf \in Configs
  BY SearchAssumption DEF Init
<1>2. NodeInv(htn, n, 1)
  BY <1>1, InitialNode
<1>3. obtained(htn, n)
  BY LeadsToItself DEF obtained
<1>4. node = [i \in {0} |-> pushed(n, 0)]
  BY DEF Init
<1> HIDE DEF n
<1>5. NodeInv(htn, pushed(n, 0), 1)
  BY <1>1, <1>2, PushedNode
<1>6. DOMAIN n = NodeFields /\ NodeType(htn, pushed(n, 0))
  BY <1>2, <1>5 DEF NodeInv, WellFormed, NodeType
<1>7. obtained(htn, pushed(n, 0))
  BY <1>3, <1>6, PushedObtained
<1> QED
  BY <1>4, <1>7 DEF ObtainedInv

LEMMA ObtainedInductive ==
  ASSUME IInv, ObtainedInv, [Next]_vars
  PROVE  ObtainedInv'
<1>1. htn' = htn /\ made + 1 \in Nat
  BY ProblemStays DEF IInv, TypeOK
<1> SUFFICES ASSUME NEW i \in DOMAIN node'
             PROVE  obtained(htn, node'[i])
  BY <1>1 DEF ObtainedInv
<1>2. \A j \in DOMAIN node : /\ obtained(htn, node[j]) /\ NamedBefore(node[j], made + 1)
                             /\ NodeInv(htn, node[j], made + 1) /\ DOMAIN node[j] = NodeFields
  BY DEF IInv, ObtainedInv, NodeInv, WellFormed, NodeType
<1>3. CASE Kept(i)
  BY <1>2, <1>3 DEF Kept
<1>4. CASE PushedNow(i)
  <2> DEFINE n == node[i]
             p == pushed(n, heuristicValue(n))
  <2>1. node'[i] = p /\ i \in DOMAIN node
    BY <1>4 DEF PushedNow
  <2>2. /\ obtained(htn, n) /\ NodeInv(htn, n, made + 1) /\ DOMAIN n = NodeFields
        /\ conf \in Configs
    BY <1>2, <2>1 DEF IInv, TypeOK
  <2> HIDE DEF n
  <2>3. NodeInv(htn, p, made + 1)
    BY <1>1, <2>2, PushedNode
  <2>4. NodeType(htn, p)
    BY <2>3 DEF NodeInv, WellFormed
  <2> QED
    BY <2>1, <2>2, <2>4, PushedObtained
<1>5. CASE AppliedNow(i)
  <2>1. PICK j \in DOMAIN node :
          \E s \in applicableSteps(htn, node[j]) :
            node'[i] = applyStep(htn, node[j], s, made + 1)
    BY <1>5 DEF AppliedNow
  <2>2. leadsTo(htn, prepareTNi(htn), node[j]) /\ NamedBefore(node[j], made + 1)
    BY <1>2 DEF obtained
  <2>3. \A s \in applicableSteps(htn, node[j]) :
          leadsTo(htn, prepareTNi(htn), applyStep(htn, node[j], s, made + 1))
    BY <1>1, <2>2, LeadsToNext
  <2> QED
    BY <2>1, <2>3 DEF obtained
<1>6. CASE DecomposedNow(i)
  <2>1. PICK j \in DOMAIN node :
          \E d \in node[j].abs : \E m \in taskToMethods(htn, node[j].task[d]) :
            node'[i] = decomposeStep(htn, node[j], d, m, made + 1)
    BY <1>6 DEF DecomposedNow
  <2>2. leadsTo(htn, prepareTNi(htn), node[j]) /\ NamedBefore(node[j], made + 1)
    BY <1>2 DEF obtained
  <2>3. \A d \in node[j].abs : \A m \in taskToMethods(htn, node[j].task[d]) :
          leadsTo(htn, prepareTNi(htn), decomposeStep(htn, node[j], d, m, made + 1))
    BY <1>1, <2>2, LeadsToNext
  <2> QED
    BY <2>1, <2>3 DEF obtained
<1> QED
  BY <1>3, <1>4, <1>5, <1>6, NodesOfAStep

-----------------------------------------------------------------------------
(***************************************************************************)
(* What a step leaves as it was.                                           *)
(***************************************************************************)
PushesChild(i) ==
  Keep /\ i = child /\ i \in DOMAIN node /\ node'[i] = pushed(node[i], heuristicValue(node[i]))

LEMMA OldNodes ==
  ASSUME IInv, [Next]_vars
  PROVE  \A i \in DOMAIN node : i \in DOMAIN node' => node'[i] = node[i] \/ PushesChild(i)
<1> DEFINE Goal == \A i \in DOMAIN node : i \in DOMAIN node' => node'[i] = node[i] \/ PushesChild(i)
<1>1. made + 1 \notin DOMAIN node
  BY DEF IInv, TypeOK
<1>2. ASSUME NEW i \in fringe, PopKnown(i) \/ PopNew(i) PROVE Goal
  BY <1>2 DEF PopKnown, PopNew, withoutNode, Restrict
<1>3. ASSUME NEW x, Apply(x[1]) \/ Decompose(x[1], x[2]) PROVE Goal
  BY <1>1, <1>3 DEF Apply, Decompose, allocated
<1>4. ASSUME NEW s, ProgressEffectLess(s) \/ ProgressOneModAction(s) PROVE Goal
  BY <1>1, <1>4 DEF ProgressEffectLess, ProgressOneModAction, replaceChild, allocated,
                    withoutNode, Restrict
<1>5. CASE DropDeadEnd \/ DropKnown \/ DropUnreachable \/ EndExpansion
  BY <1>5 DEF DropDeadEnd, DropKnown, DropUnreachable, EndExpansion, withoutNode, Restrict
<1>6. CASE Keep
  BY <1>6 DEF Keep, PushesChild
<1>7. CASE Report \/ UNCHANGED vars
  BY <1>7 DEF Report, vars
<1> QED
  BY <1>2, <1>3, <1>4, <1>5, <1>6, <1>7 DEF Next, Terminating

LEMMA FringeOfAStep ==
  ASSUME IInv, [Next]_vars
  PROVE  \A i \in fringe' : (i \in fringe /\ node'[i] = node[i]) \/ PushesChild(i)
<1>1. fringe \subseteq DOMAIN node /\ (pc = "settle" => child \notin fringe)
  BY DEF IInv, TypeOK
<1>2. fringe' \subseteq fringe \/ (Keep /\ fringe' \subseteq fringe \cup {child} /\ child \in DOMAIN node')
  <2>1. \/ fringe' \subseteq fringe
        \/ Keep /\ fringe' \subseteq fringe \cup {child}
    BY DEF Next, vars, PopKnown, PopNew, Apply, Decompose, ProgressEffectLess,
           ProgressOneModAction, replaceChild, DropDeadEnd, DropKnown, DropUnreachable, Keep,
           EndExpansion, Report, Terminating
  <2>2. Keep => child \in DOMAIN node'
    BY DEF Keep, settled, IInv, TypeOK
  <2> QED
    BY <2>1, <2>2
<1>3. fringe' \subseteq DOMAIN node'
  BY Inductive DEF IInv, TypeOK
<1>4. \A i \in fringe : i \in fringe' => node'[i] = node[i]
  <2>1. \A i : PushesChild(i) => i \notin fringe
    BY <1>1 DEF PushesChild, Keep, settled
  <2> QED
    BY <1>1, <1>3, <2>1, OldNodes
<1>5. Keep => child \in DOMAIN node
  BY DEF Keep, settled, IInv, TypeOK
<1>6. ASSUME Keep, child \in fringe' PROVE PushesChild(child)
  <2>1. fringe' # fringe
    BY <1>1, <1>6 DEF Keep, settled
  <2>2. node' = [node EXCEPT ![child] = pushed(@, heuristicValue(@))]
    BY <1>6, <2>1 DEF Keep
  <2> QED
    BY <1>5, <1>6, <2>2 DEF PushesChild
<1> QED
  BY <1>2, <1>4, <1>6

(* A solution is never forgotten.                                          *)
LEMMA SolutionStays ==
  ASSUME IInv, [Next]_vars, tnSol # None
  PROVE  tnSol' # None
<1>1. \A i \in DOMAIN node : i # None
  BY DEF IInv, TypeOK, None
<1>2. tnSol' = tnSol \/ \E i \in DOMAIN node : tnSol' = handleNewSolution(i)
  <2>1. ASSUME NEW i \in fringe, PopKnown(i) \/ PopNew(i)
        PROVE  tnSol' = tnSol \/ tnSol' = handleNewSolution(i)
    BY <2>1 DEF PopKnown, PopNew
  <2>2. Keep => child \in DOMAIN node /\ (tnSol' = tnSol \/ tnSol' = handleNewSolution(child))
    BY DEF Keep, settled, IInv, TypeOK
  <2>3. tnSol' = tnSol \/ Keep \/ \E i \in fringe : PopKnown(i) \/ PopNew(i)
    BY DEF Next, vars, Apply, Decompose, ProgressEffectLess,
           ProgressOneModAction, replaceChild, DropDeadEnd, DropKnown, DropUnreachable,
           EndExpansion, Report, Terminating
  <2>4. fringe \subseteq DOMAIN node
    BY DEF IInv, TypeOK
  <2> QED
    BY <2>1, <2>2, <2>3, <2>4
<1> QED
  BY <1>1, <1>2 DEF handleNewSolution

-----------------------------------------------------------------------------
(***************************************************************************)
(* What the flags of the loop say, and what the fringe holds.              *)
(***************************************************************************)
(* The loop ends with a solution, at the time limit, or with an empty      *)
(* fringe; the stack names steps that are effectless.                      *)
FlagsInv ==
  /\ pc = "report" /\ tnSol = None => timeLimit
  /\ ~ continueSearch => tnSol # None
  /\ timeLimit => pc \in {"report", "done"}
  /\ status # "none" => pc = "done"
  /\ status = "solved" => tnSol # None
  /\ pc = "settle" => effectLess \subseteq effectLessAfterApply(htn, node[child])

LEMMA FlagsInductive ==
  ASSUME IInv, FlagsInv, [Next]_vars
  PROVE  FlagsInv'
<1>0. /\ htn' = htn /\ (tnSol # None => tnSol' # None)
      /\ made + 1 \notin DOMAIN node /\ (\A i \in fringe : i # None)
      /\ (pc = "settle" => child \in DOMAIN node)
  BY ProblemStays, SolutionStays DEF IInv, TypeOK, None
<1>1. ASSUME NEW i \in fringe, PopKnown(i) PROVE FlagsInv'
  BY <1>0, <1>1 DEF PopKnown, FlagsInv
<1>2. ASSUME NEW i \in fringe, PopNew(i) PROVE FlagsInv'
  <2>1. /\ pc = "pop" /\ pc' \in {"report", "expand"} /\ UNCHANGED <<timeLimit, status>>
        /\ (pc' = "report" => ~ continueSearch')
    BY <1>2 DEF PopNew
  <2>2. ~ continueSearch' => tnSol' # None
    BY <1>0, <1>2 DEF PopNew, handleNewSolution, FlagsInv
  <2> QED
    BY <2>1, <2>2, <1>0 DEF FlagsInv
<1>3. ASSUME NEW n, node' = allocated(node, made + 1, n) \/
                    node' = allocated(withoutNode(child), made + 1, n),
             child' = made + 1, effectLess' \subseteq effectLessAfterApply(htn, n),
             pc \in {"expand", "settle"}, pc' = "settle",
             UNCHANGED <<tnSol, continueSearch, timeLimit, status>>
      PROVE  FlagsInv'
  <2>1. node'[child'] = n
    BY <1>3, <1>0 DEF allocated, withoutNode, Restrict
  <2> QED
    BY <2>1, <1>3, <1>0 DEF FlagsInv
<1>4. ASSUME NEW x \in todo, Apply(x[1]) PROVE FlagsInv'
  <2> DEFINE n == applyStep(htn, node[cur], x[1], made + 1)
  <2>1. /\ node' = allocated(node, made + 1, n) /\ child' = made + 1
        /\ effectLess' = effectLessAfterApply(htn, n) /\ pc = "expand" /\ pc' = "settle"
        /\ UNCHANGED <<tnSol, continueSearch, timeLimit, status>>
    BY <1>4 DEF Apply
  <2> HIDE DEF n
  <2> QED
    BY <2>1, <1>3
<1>5. ASSUME NEW x \in todo, Decompose(x[1], x[2]) PROVE FlagsInv'
  <2> DEFINE n == decomposeStep(htn, node[cur], x[1], x[2], made + 1)
  <2>1. /\ node' = allocated(node, made + 1, n) /\ child' = made + 1
        /\ effectLess' = effectLessAfterDecompose(htn, n, made + 1)
        /\ pc = "expand" /\ pc' = "settle"
        /\ UNCHANGED <<tnSol, continueSearch, timeLimit, status>>
    BY <1>5 DEF Decompose
  <2> HIDE DEF n
  <2>2. effectLess' \subseteq effectLessAfterApply(htn, n)
    BY <2>1 DEF effectLessAfterDecompose
  <2> QED
    BY <2>1, <2>2, <1>3
<1>6. ASSUME NEW s, ProgressEffectLess(s) \/ ProgressOneModAction(s) PROVE FlagsInv'
  <2> DEFINE n == applyStep(htn, node[child], s, made + 1)
  <2>1. /\ node' = allocated(withoutNode(child), made + 1, n) /\ child' = made + 1
        /\ effectLess' = effectLessAfterApply(htn, n) /\ pc = "settle" /\ pc' = "settle"
        /\ UNCHANGED <<tnSol, continueSearch, timeLimit, status>>
    BY <1>6 DEF ProgressEffectLess, ProgressOneModAction, replaceChild
  <2> HIDE DEF n
  <2> QED
    BY <2>1, <1>3
<1>7. CASE DropDeadEnd \/ DropKnown \/ DropUnreachable
  BY <1>7, <1>0 DEF DropDeadEnd, DropKnown, DropUnreachable, settled, FlagsInv
<1>8. CASE Keep
  <2>1. pc = "settle" /\ pc' = "expand" /\ UNCHANGED <<timeLimit, status>>
    BY <1>8 DEF Keep, settled
  <2>2. child # None
    BY <1>0, <2>1 DEF IInv, TypeOK, None
  <2>3. ~ continueSearch' => tnSol' # None
    BY <1>0, <1>8, <2>2 DEF Keep, handleNewSolution, FlagsInv
  <2> QED
    BY <2>1, <2>3, <1>0 DEF FlagsInv
<1>9. CASE EndExpansion
  <2>1. /\ pc = "expand" /\ pc' \in {"report", "pop"}
        /\ UNCHANGED <<tnSol, continueSearch, status>>
    BY <1>9 DEF EndExpansion
  <2>2. /\ timeLimit' => pc' = "report" \/ timeLimit
        /\ pc' = "report" => timeLimit' \/ ~ continueSearch
    BY <1>9 DEF EndExpansion
  <2> QED
    BY <2>1, <2>2, <1>0 DEF FlagsInv
<1>10. CASE Report
  <2>1. pc' = "done" /\ UNCHANGED <<tnSol, continueSearch, timeLimit>>
    BY <1>10 DEF Report
  <2>2. status' = "solved" => tnSol # None
    BY <1>10 DEF Report, statusLine
  <2> QED
    BY <2>1, <2>2 DEF FlagsInv
<1>11. CASE UNCHANGED vars
  BY <1>11 DEF vars, FlagsInv
<1> QED
  BY <1>1, <1>2, <1>4, <1>5, <1>6, <1>7, <1>8, <1>9, <1>10, <1>11 DEF Next, Terminating

(* A node in the fringe is pushed; without a heuristic value its f value   *)
(* is its g value; with the early test, and as long as there is no         *)
(* solution, it is no goal node.                                           *)
FringeNode(n) ==
  /\ n.pushed
  /\ conf.heuristic \in {"zero", "filter"} => n.fValue = spent(conf.gValue, n)
  /\ conf.suboptimal /\ tnSol = None => ~ isGoal(htn, n)

FringeInv == \A i \in fringe : FringeNode(node[i])

LEMMA PushedValue ==
  ASSUME conf \in Configs, NEW n, NodeType(htn, n), conf.heuristic \in {"zero", "filter"},
         NEW hval, hval = heuristicValue(n) \/ hval = 0
  PROVE  pushed(n, hval).fValue = spent(conf.gValue, pushed(n, hval))
<1>1. conf \in ConfigType
  BY SearchAssumption
<1>2. conf.weight \in Nat /\ conf.gValue \in gValues /\ conf.invert \in BOOLEAN
  BY <1>1 DEF ConfigType
<1>3. hval = 0 \/ hval = -0
  BY <1>2 DEF heuristicValue
<1>4. hval * conf.weight = 0
  BY <1>2, <1>3
<1>5. gValue(n) = spent(conf.gValue, n) /\ gValue(n) \in Nat
  BY <1>2 DEF gValue, spent, gValues, NodeType
<1>6. DOMAIN n = NodeFields
  BY DEF NodeType
<1>7. hval * conf.weight + gValue(n) = spent(conf.gValue, n)
  BY <1>4, <1>5
<1>8. pushed(n, hval).fValue = spent(conf.gValue, n)
  BY <1>6, <1>7 DEF pushed, NodeFields
<1>9. spent(conf.gValue, pushed(n, hval)) = spent(conf.gValue, n)
  BY <1>6 DEF pushed, NodeFields, spent
<1> QED
  BY <1>8, <1>9

LEMMA InitialFringe == ASSUME Init PROVE FringeInv
<1> DEFINE n == prepareTNi(htn)
<1>1. IsProblem(htn) /\ conf \in Configs
  BY SearchAssumption DEF Init
<1>2. NodeInv(htn, n, 1) /\ n.abs # {}
  BY <1>1, InitialNode DEF prepareTNi
<1>3. node = [i \in {0} |-> pushed(n, 0)] /\ fringe = {0}
  BY DEF Init
<1> HIDE DEF n
<1>4. NodeType(htn, n) /\ DOMAIN n = NodeFields
  BY <1>2 DEF NodeInv, WellFormed, NodeType
<1>5. pushed(n, 0).pushed /\ SameNetwork(pushed(n, 0), n)
  BY <1>4, PushedFields
<1>6. ~ isGoal(htn, pushed(n, 0))
  BY <1>2, <1>5 DEF isGoal, SameNetwork
<1>7. conf.heuristic \in {"zero", "filter"} =>
        pushed(n, 0).fValue = spent(conf.gValue, pushed(n, 0))
  BY <1>1, <1>4, PushedValue
<1> QED
  BY <1>3, <1>5, <1>6, <1>7 DEF FringeInv, FringeNode

LEMMA FringeInductive ==
  ASSUME IInv, FringeInv, [Next]_vars
  PROVE  FringeInv'
<1>0. htn' = htn /\ conf' = conf /\ (tnSol # None => tnSol' # None) /\ conf \in Configs
  BY ProblemStays, SolutionStays DEF IInv, TypeOK
<1> SUFFICES ASSUME NEW i \in fringe'
             PROVE  FringeNode(node[i])'
  BY DEF FringeInv
<1>1. CASE i \in fringe /\ node'[i] = node[i]
  BY <1>0, <1>1 DEF FringeInv, FringeNode
<1>2. CASE PushesChild(i)
  <2> DEFINE n == node[i]
             p == pushed(n, heuristicValue(n))
  <2>1. node'[i] = p /\ i = child /\ Keep /\ i \in DOMAIN node
    BY <1>2 DEF PushesChild
  <2>2. NodeType(htn, n) /\ DOMAIN n = NodeFields
    BY <2>1 DEF IInv, TypeOK, NodeType
  <2>3. conf.suboptimal /\ tnSol' = None => ~ isGoal(htn, n)
    BY <2>1, <1>0 DEF Keep, handleNewSolution, IInv, TypeOK, None
  <2> HIDE DEF n
  <2>4. conf.heuristic \in {"zero", "filter"} => p.fValue = spent(conf.gValue, p)
    BY <1>0, <2>2, PushedValue
  <2>5. p.pushed /\ SameNetwork(p, n)
    BY <2>2, PushedFields
  <2> HIDE DEF p
  <2>6. isGoal(htn, p) <=> isGoal(htn, n)
    BY <2>5 DEF isGoal, SameNetwork
  <2> QED
    BY <1>0, <2>1, <2>3, <2>4, <2>5, <2>6 DEF FringeNode
<1> QED
  BY <1>1, <1>2, FringeOfAStep

-----------------------------------------------------------------------------
(***************************************************************************)
(* What the visited list knows is exhausted.  A node n that has spent p is *)
(* exhausted up to B when no completion of it by the plan, within the      *)
(* plan's g value, takes B entries or less.                                *)
(***************************************************************************)
KnownNode(h, o) == obtained(h, o) /\ NodeType(h, o) /\ IsFiniteSet(Steps(o))

Exhausted(h, g, sol, o, p, B) == \A K \in Nat : Fits(h, g, sol, o, p, K) => K > B

(* What the node that left payload v had spent.                            *)
paid(g, v) == IF g = "none" THEN 0 ELSE v - 1

(* What fValue reads as is what the node had spent.                        *)
Readable(g, n) == g = "none" \/ (n.pushed /\ n.fValue = spent(g, n))

CostDone(h, c, g, sol, key, v, B) ==
  /\ v \in Int /\ paid(g, v) \in Nat
  /\ \E o : /\ KnownNode(h, o) /\ key \in VisitedKeys(h, c, o)
            /\ Exhausted(h, g, sol, o, paid(g, v), B)

NodeDone(h, c, g, sol, key, o, B) ==
  /\ key \in VisitedKeys(h, c, o)
  /\ Readable(g, o)
  /\ Exhausted(h, g, sol, o, spent(g, o), B)

CostListDone(h, c, g, sol, V, B) == \A k \in DOMAIN V : CostDone(h, c, g, sol, k, V[k], B)

NodeListDone(h, c, g, sol, V, N, B) ==
  \A k \in DOMAIN V : \A l \in DOMAIN V[k] :
    V[k][l] \in DOMAIN N /\ NodeDone(h, c, g, sol, k, N[V[k][l]], B)

keyedByCost(h, c) ==
  isTotallyOrdered(h) \/ (c.parallelSequences /\ isParallelSequences(h)) \/ ~ c.GIcheck

ListDone(h, c, g, sol, V, N, B) ==
  ~ c.noVisitedCheck =>
    IF keyedByCost(h, c) THEN CostListDone(h, c, g, sol, V, B)
    ELSE NodeListDone(h, c, g, sol, V, N, B)

(* The g values for which the list prunes nothing that is needed: none, or *)
(* with the late test the one that f consists of.                          *)
Counted(c, g) ==
  /\ g \in gValues
  /\ g = "none" \/ (g = c.gValue /\ ~ c.suboptimal /\ c.heuristic \in {"zero", "filter"})

LEMMA CostModeKey == costMode <=> keyedByCost(htn, conf)
BY DEF costMode, useTotalOrderMode, useSequencesMode, keyedByCost

LEMMA ExhaustedLess ==
  ASSUME NEW h, NEW g, NEW sol, NEW o, NEW p, NEW B \in Int, NEW B2 \in Int, B2 <= B,
         Exhausted(h, g, sol, o, p, B)
  PROVE  Exhausted(h, g, sol, o, p, B2)
BY DEF Exhausted

LEMMA CostDoneLess ==
  ASSUME NEW h, NEW c, NEW g, NEW sol, NEW key, NEW v, NEW B \in Int, NEW B2 \in Int, B2 <= B,
         CostDone(h, c, g, sol, key, v, B)
  PROVE  CostDone(h, c, g, sol, key, v, B2)
<1>1. PICK o : /\ KnownNode(h, o) /\ key \in VisitedKeys(h, c, o)
               /\ Exhausted(h, g, sol, o, paid(g, v), B)
  BY DEF CostDone
<1>2. Exhausted(h, g, sol, o, paid(g, v), B2)
  BY <1>1, ExhaustedLess
<1> QED
  BY <1>1, <1>2 DEF CostDone

LEMMA NodeDoneLess ==
  ASSUME NEW h, NEW c, NEW g, NEW sol, NEW key, NEW o, NEW B \in Int, NEW B2 \in Int, B2 <= B,
         NodeDone(h, c, g, sol, key, o, B)
  PROVE  NodeDone(h, c, g, sol, key, o, B2)
<1>1. Exhausted(h, g, sol, o, spent(g, o), B2)
  BY ExhaustedLess DEF NodeDone
<1> QED
  BY <1>1 DEF NodeDone

LEMMA DoneLess ==
  ASSUME NEW h, NEW c, NEW g, NEW sol, NEW V, NEW N, NEW B \in Int, NEW B2 \in Int, B2 <= B,
         ListDone(h, c, g, sol, V, N, B)
  PROVE  ListDone(h, c, g, sol, V, N, B2)
<1>1. CostListDone(h, c, g, sol, V, B) => CostListDone(h, c, g, sol, V, B2)
  BY CostDoneLess DEF CostListDone
<1>2. NodeListDone(h, c, g, sol, V, N, B) => NodeListDone(h, c, g, sol, V, N, B2)
  BY NodeDoneLess DEF NodeListDone
<1> QED
  BY <1>1, <1>2 DEF ListDone

(* A node is exhausted where the same search node is that spent no more.   *)
LEMMA SameExhausted ==
  ASSUME NEW h, NEW sol, PlanOf(h, sol), NEW g \in gValues, NEW n, NEW o,
         KnownNode(h, n), KnownNode(h, o), SameSearchNode(n, o),
         NEW p \in Nat, NEW p2 \in Nat, p2 <= p, NEW B, Exhausted(h, g, sol, o, p2, B)
  PROVE  Exhausted(h, g, sol, n, p, B)
<1> SUFFICES ASSUME NEW K \in Nat, Fits(h, g, sol, n, p, K)
             PROVE  K > B
  BY DEF Exhausted
<1>1. Fits(h, g, sol, o, p, K)
  BY SameFits DEF KnownNode
<1>2. K \in Int /\ K <= K
  OBVIOUS
<1>3. Fits(h, g, sol, o, p2, K)
  BY <1>1, <1>2, FitsWeaker
<1> QED
  BY <1>3 DEF Exhausted

(* A pair of nodes the list takes for the same is the same.                *)
LEMMA SameByKey ==
  ASSUME PruningIsSound, ~ conf.noVisitedCheck, NEW n, NEW o,
         KnownNode(htn, n), KnownNode(htn, o),
         NEW key \in VisitedKeys(htn, conf, n), key \in VisitedKeys(htn, conf, o),
         costMode \/ Matching(n, o)
  PROVE  SameSearchNode(n, o)
<1>1. VisitedKeys(htn, conf, n) \cap VisitedKeys(htn, conf, o) # {}
  OBVIOUS
<1> QED
  BY <1>1 DEF PruningIsSound, KnownNode

(* insertVisi in its first case.                                           *)
LEMMA InsertCost ==
  ASSUME NEW n, NodeType(htn, n), NEW key, NEW r \in insertCost(n, key), NEW g,
         Counted(conf, g), Readable(g, n), GarbageValues \subseteq Int
  PROVE  /\ r.isNew => \E v \in Int : r.list = stored(key, v) /\ paid(g, v) = spent(g, n)
         /\ ~ r.isNew =>
              /\ key \in DOMAIN visited
              /\ r.list = stored(key, visited[key]) \/ (g = "none" /\ r.list = stored(key, 1))
              /\ visited[key] \in Int => paid(g, visited[key]) <= spent(g, n)
<1>1. g \in gValues /\ spent(g, n) \in Nat /\ (g = "none" => spent(g, n) = 0)
  BY SpentType DEF Counted, spent
<1>2. CASE conf.suboptimal
  <2>1. g = "none" /\ r = [isNew |-> payload(key) = 0, list |-> stored(key, 1)]
    BY <1>2 DEF insertCost, Counted
  <2>2. paid(g, 1) = 0 /\ spent(g, n) = 0
    BY <1>1, <2>1 DEF paid
  <2>3. ~ r.isNew => key \in DOMAIN visited /\ paid(g, visited[key]) = 0
    BY <2>1 DEF payload, paid
  <2> QED
    BY <2>1, <2>2, <2>3
<1>3. CASE ~ conf.suboptimal
  <2>1. PICK f \in fRead(n) :
          r = IF payload(key) = 0 \/ payload(key) > f + 1
              THEN [isNew |-> TRUE,  list |-> stored(key, f + 1)]
              ELSE [isNew |-> FALSE, list |-> stored(key, payload(key))]
    BY <1>3 DEF insertCost
  <2>2. f \in Int /\ (g = "none" \/ f = spent(g, n))
    BY <2>1 DEF fRead, NodeType, Readable
  <2>3. f + 1 \in Int /\ paid(g, f + 1) = spent(g, n)
    BY <1>1, <2>2 DEF paid
  <2>4. ASSUME ~ r.isNew
        PROVE  /\ key \in DOMAIN visited /\ r.list = stored(key, visited[key])
               /\ visited[key] \in Int => paid(g, visited[key]) <= spent(g, n)
    <3>1. payload(key) # 0 /\ ~ (payload(key) > f + 1) /\ r.list = stored(key, payload(key))
      BY <2>1, <2>4
    <3>2. key \in DOMAIN visited /\ payload(key) = visited[key]
      BY <3>1 DEF payload
    <3>3. visited[key] \in Int => paid(g, visited[key]) <= spent(g, n)
      BY <1>1, <2>2, <3>1, <3>2 DEF paid
    <3> QED
      BY <3>1, <3>2, <3>3
  <2>5. r.isNew => r.list = stored(key, f + 1)
    BY <2>1
  <2> QED
    BY <2>3, <2>4, <2>5
<1> QED
  BY <1>2, <1>3

(* insertVisi in its second case.                                          *)
LEMMA InsertNode ==
  ASSUME NEW i, NodeType(htn, node[i]), NEW key, NEW r \in insertNode(i, key), NEW g,
         Counted(conf, g), Readable(g, node[i]), GarbageValues \subseteq Int,
         NEW S, nodesWith(key) \in Seq(S), i \in S
  PROVE  /\ r.isNew => \E q \in Seq(S) : r.list = stored(key, q)
         /\ ~ r.isNew =>
              /\ r.list = stored(key, nodesWith(key))
              /\ \E j \in DOMAIN nodesWith(key) :
                   /\ Matching(node[i], node[nodesWith(key)[j]])
                   /\ g = "none" \/ \E v \in fRead(node[nodesWith(key)[j]]) : v <= spent(g, node[i])
<1> DEFINE list == nodesWith(key)
           matches == {j \in DOMAIN list : Matching(node[i], node[list[j]])}
<1>1. PICK f \in fRead(node[i]), D \in SUBSET matches :
        /\ \A j \in matches \ D : \E v \in fRead(node[list[j]]) : v <= f
        /\ r \in IF matches = D
                 THEN {[isNew |-> TRUE, list |-> stored(key, Append(l, i))] : l \in kept(list, D)}
                 ELSE {[isNew |-> FALSE, list |-> stored(key, list)]}
  BY DEF insertNode
<1>2. f \in Int /\ (g = "none" \/ f = spent(g, node[i]))
  BY DEF fRead, NodeType, Readable
<1>3. CASE matches = D
  <2>1. PICK l \in kept(list, D) : r = [isNew |-> TRUE, list |-> stored(key, Append(l, i))]
    BY <1>1, <1>3
  <2>2. l \in Seq(S)
    <3>1. D \subseteq DOMAIN list
      OBVIOUS
    <3>2. l \in kept(list, D)
      OBVIOUS
    <3> HIDE DEF list
    <3>3. list \in Seq(S)
      BY DEF list
    <3> QED
      BY <3>1, <3>2, <3>3, KeptList
  <2>3. Append(l, i) \in Seq(S)
    BY <2>2
  <2> QED
    BY <2>1, <2>3
<1>4. CASE matches # D
  <2>1. r = [isNew |-> FALSE, list |-> stored(key, list)]
    BY <1>1, <1>4
  <2>2. PICK j \in matches : \E v \in fRead(node[list[j]]) : v <= f
    BY <1>1, <1>4
  <2>3. j \in DOMAIN list /\ Matching(node[i], node[list[j]])
    BY <2>2
  <2>4. g = "none" \/ \E v \in fRead(node[list[j]]) : v <= spent(g, node[i])
    BY <1>2, <2>2
  <2> QED
    BY <2>1, <2>3, <2>4
<1> QED
  BY <1>3, <1>4

(* What a lookup that finds the node known, or new, says and leaves.       *)
ReadsList(i, g, sol, B) ==
  /\ PruningIsSound /\ GarbageValues \subseteq Int
  /\ PlanOf(htn, sol) /\ Counted(conf, g)
  /\ \A x \in DOMAIN node : KnownNode(htn, node[x])
  /\ i \in DOMAIN node /\ Readable(g, node[i])
  /\ ListDone(htn, conf, g, sol, visited, node, B)
  /\ ~ costMode => \A k \in DOMAIN visited : visited[k] \in Seq(DOMAIN node)

LEMMA KeyOfInsert ==
  ASSUME NEW i, NEW r \in insertVisi(i), ~ conf.noVisitedCheck
  PROVE  \E key \in VisitedKeys(htn, conf, node[i]) :
           IF costMode THEN r \in insertCost(node[i], key) ELSE r \in insertNode(i, key)
BY DEF insertVisi

LEMMA KnownIsDone ==
  ASSUME NEW i, NEW g, NEW sol, NEW B \in Int, ReadsList(i, g, sol, B),
         NEW r \in insertVisi(i), ~ r.isNew
  PROVE  /\ ListDone(htn, conf, g, sol, r.list, node, B)
         /\ Exhausted(htn, g, sol, node[i], spent(g, node[i]), B)
<1>1. ~ conf.noVisitedCheck
  BY DEF insertVisi
<1>2. /\ PruningIsSound /\ GarbageValues \subseteq Int /\ PlanOf(htn, sol)
      /\ Counted(conf, g) /\ g \in gValues /\ Readable(g, node[i]) /\ i \in DOMAIN node
      /\ KnownNode(htn, node[i]) /\ NodeType(htn, node[i]) /\ spent(g, node[i]) \in Nat
  BY SpentType DEF ReadsList, Counted, KnownNode
<1>3. PICK key \in VisitedKeys(htn, conf, node[i]) :
        IF costMode THEN r \in insertCost(node[i], key) ELSE r \in insertNode(i, key)
  BY <1>1, KeyOfInsert
<1>4. CASE costMode
  <2>1. CostListDone(htn, conf, g, sol, visited, B) /\ keyedByCost(htn, conf)
    BY <1>1, <1>4, CostModeKey DEF ReadsList, ListDone
  <2>2. /\ key \in DOMAIN visited
        /\ r.list = stored(key, visited[key]) \/ (g = "none" /\ r.list = stored(key, 1))
        /\ visited[key] \in Int => paid(g, visited[key]) <= spent(g, node[i])
    BY <1>2, <1>3, <1>4, InsertCost
  <2>3. CostDone(htn, conf, g, sol, key, visited[key], B)
    BY <2>1, <2>2 DEF CostListDone
  <2>4. PICK o : /\ KnownNode(htn, o) /\ key \in VisitedKeys(htn, conf, o)
                 /\ Exhausted(htn, g, sol, o, paid(g, visited[key]), B)
    BY <2>3 DEF CostDone
  <2>5. paid(g, visited[key]) \in Nat /\ paid(g, visited[key]) <= spent(g, node[i])
    BY <2>2, <2>3 DEF CostDone
  <2>6. SameSearchNode(node[i], o)
    BY <1>1, <1>2, <1>4, <2>4, SameByKey
  <2>7. Exhausted(htn, g, sol, node[i], spent(g, node[i]), B)
    BY <1>2, <2>4, <2>5, <2>6, SameExhausted
  <2>8. CostDone(htn, conf, g, sol, key, visited[key], B) /\ g = "none" =>
          CostDone(htn, conf, g, sol, key, 1, B)
    BY DEF CostDone, paid
  <2>9. CostListDone(htn, conf, g, sol, r.list, B)
    BY <2>1, <2>2, <2>3, <2>8 DEF CostListDone, stored
  <2> QED
    BY <2>1, <2>7, <2>9 DEF ListDone
<1>5. CASE ~ costMode
  <2>1. NodeListDone(htn, conf, g, sol, visited, node, B) /\ ~ keyedByCost(htn, conf)
    BY <1>1, <1>5, CostModeKey DEF ReadsList, ListDone
  <2>2. nodesWith(key) \in Seq(DOMAIN node)
    <3>1. << >> \in Seq(DOMAIN node)
      OBVIOUS
    <3>2. \A k \in DOMAIN visited : visited[k] \in Seq(DOMAIN node)
      BY <1>5 DEF ReadsList
    <3> QED
      BY <3>1, <3>2 DEF nodesWith
  <2>3. \A j \in DOMAIN nodesWith(key) :
          /\ key \in DOMAIN visited /\ nodesWith(key) = visited[key]
          /\ nodesWith(key)[j] \in DOMAIN node
          /\ KnownNode(htn, node[nodesWith(key)[j]])
    BY <2>2 DEF nodesWith, ReadsList
  <2>4. /\ r.list = stored(key, nodesWith(key))
        /\ \E j \in DOMAIN nodesWith(key) :
             /\ Matching(node[i], node[nodesWith(key)[j]])
             /\ g = "none" \/ \E v \in fRead(node[nodesWith(key)[j]]) : v <= spent(g, node[i])
    BY <1>2, <1>3, <1>5, <2>2, <2>3, InsertNode
  <2>5. PICK j \in DOMAIN nodesWith(key) :
          /\ Matching(node[i], node[nodesWith(key)[j]])
          /\ g = "none" \/ \E v \in fRead(node[nodesWith(key)[j]]) : v <= spent(g, node[i])
    BY <2>4
  <2> DEFINE o == node[nodesWith(key)[j]]
  <2>6. NodeDone(htn, conf, g, sol, key, o, B) /\ KnownNode(htn, o)
    BY <2>1, <2>3 DEF NodeListDone
  <2>7. Matching(node[i], o) /\ (g = "none" \/ \E v \in fRead(o) : v <= spent(g, node[i]))
    BY <2>5
  <2> HIDE DEF o
  <2>8. SameSearchNode(node[i], o)
    BY <1>1, <1>2, <2>6, <2>7, SameByKey DEF NodeDone
  <2>9. spent(g, o) \in Nat /\ spent(g, o) <= spent(g, node[i])
    <3>1. spent(g, o) \in Nat
      BY <1>2, <2>6, SpentType DEF KnownNode
    <3>2. g = "none" => spent(g, o) = 0 /\ spent(g, node[i]) = 0
      BY DEF spent
    <3>3. g = "none" \/ (o.fValue = spent(g, o) /\ fRead(o) = {o.fValue})
      BY <2>6 DEF NodeDone, Readable, fRead
    <3> QED
      BY <2>7, <3>1, <3>2, <3>3
  <2>10. Exhausted(htn, g, sol, node[i], spent(g, node[i]), B)
    BY <1>2, <2>6, <2>8, <2>9, SameExhausted DEF NodeDone
  <2>11. \A k \in DOMAIN r.list : \A l \in DOMAIN r.list[k] :
           k \in DOMAIN visited /\ r.list[k] = visited[k]
    BY <2>3, <2>4 DEF stored
  <2>12. NodeListDone(htn, conf, g, sol, r.list, node, B)
    BY <2>1, <2>11 DEF NodeListDone
  <2> QED
    BY <2>1, <2>10, <2>12 DEF ListDone
<1> QED
  BY <1>4, <1>5

LEMMA NewIsDone ==
  ASSUME NEW i, NEW g, NEW sol, NEW B \in Int, ReadsList(i, g, sol, B),
         NEW r \in insertVisi(i), r.isNew, NEW B2 \in Int, B2 <= B,
         Exhausted(htn, g, sol, node[i], spent(g, node[i]), B2)
  PROVE  ListDone(htn, conf, g, sol, r.list, node, B2)
<1> SUFFICES ASSUME ~ conf.noVisitedCheck
             PROVE  ListDone(htn, conf, g, sol, r.list, node, B2)
  BY DEF ListDone
<1>1. ListDone(htn, conf, g, sol, visited, node, B2)
  BY DoneLess DEF ReadsList
<1>2. /\ GarbageValues \subseteq Int
      /\ Counted(conf, g) /\ g \in gValues /\ Readable(g, node[i]) /\ i \in DOMAIN node
      /\ KnownNode(htn, node[i]) /\ NodeType(htn, node[i]) /\ spent(g, node[i]) \in Nat
  BY SpentType DEF ReadsList, Counted, KnownNode
<1>3. PICK key \in VisitedKeys(htn, conf, node[i]) :
        IF costMode THEN r \in insertCost(node[i], key) ELSE r \in insertNode(i, key)
  BY KeyOfInsert
<1>4. CASE costMode
  <2>1. CostListDone(htn, conf, g, sol, visited, B2) /\ keyedByCost(htn, conf)
    BY <1>1, <1>4, CostModeKey DEF ListDone
  <2>2. PICK v \in Int : r.list = stored(key, v) /\ paid(g, v) = spent(g, node[i])
    BY <1>2, <1>3, <1>4, InsertCost
  <2>3. CostDone(htn, conf, g, sol, key, v, B2)
    BY <1>2, <2>2 DEF CostDone
  <2>4. CostListDone(htn, conf, g, sol, r.list, B2)
    BY <2>1, <2>2, <2>3 DEF CostListDone, stored
  <2> QED
    BY <2>1, <2>4 DEF ListDone
<1>5. CASE ~ costMode
  <2>1. NodeListDone(htn, conf, g, sol, visited, node, B2) /\ ~ keyedByCost(htn, conf)
    BY <1>1, <1>5, CostModeKey DEF ListDone
  <2> DEFINE S == {x \in DOMAIN node : NodeDone(htn, conf, g, sol, key, node[x], B2)}
  <2>2. nodesWith(key) \in Seq(DOMAIN node)
    <3>1. << >> \in Seq(DOMAIN node)
      OBVIOUS
    <3>2. \A k \in DOMAIN visited : visited[k] \in Seq(DOMAIN node)
      BY <1>5 DEF ReadsList
    <3> QED
      BY <3>1, <3>2 DEF nodesWith
  <2>3. \A j \in DOMAIN nodesWith(key) : nodesWith(key)[j] \in S
    BY <2>1, <2>2 DEF NodeListDone, nodesWith
  <2>4. i \in S
    BY <1>2 DEF NodeDone
  <2>5. \A x \in S : x \in DOMAIN node /\ NodeDone(htn, conf, g, sol, key, node[x], B2)
    OBVIOUS
  <2> HIDE DEF S
  <2>6. nodesWith(key) \in Seq(S)
    BY <2>2, <2>3
  <2>7. PICK q \in Seq(S) : r.list = stored(key, q)
    BY <1>2, <1>3, <1>5, <2>4, <2>6, InsertNode
  <2>8. \A l \in DOMAIN q : q[l] \in S
    BY <2>7
  <2>9. NodeListDone(htn, conf, g, sol, r.list, node, B2)
    BY <2>1, <2>5, <2>7, <2>8 DEF NodeListDone, stored
  <2> QED
    BY <2>1, <2>9 DEF ListDone
<1> QED
  BY <1>4, <1>5

-----------------------------------------------------------------------------
(***************************************************************************)
(* The invariants the argument rests on.                                   *)
(***************************************************************************)
BaseInv ==
  /\ IInv /\ KInv /\ CountsInv /\ ObtainedInv /\ FlagsInv /\ FringeInv
  /\ PruningIsSound /\ DeadEndIsSound

LEMMA ReliedStays ==
  ASSUME PruningIsSound, DeadEndIsSound, UNCHANGED <<htn, conf>>
  PROVE  PruningIsSound' /\ DeadEndIsSound'
<1>1. costMode' = costMode
  BY ModesStay
<1>2. PruningIsSound'
  BY <1>1 DEF PruningIsSound
<1>3. DeadEndIsSound'
  BY DEF DeadEndIsSound
<1> QED
  BY <1>2, <1>3

LEMMA InitialBase ==
  ASSUME Init, PruningIsSound, DeadEndIsSound
  PROVE  BaseInv
<1>1. KInv
  BY DEF Init, KInv, None
<1>2. FlagsInv
  BY DEF Init, FlagsInv
<1> QED
  BY <1>1, <1>2, InitInv, InitialCountsInv, InitialObtained, InitialFringe DEF BaseInv

LEMMA BaseInductive ==
  ASSUME BaseInv, [Next]_vars
  PROVE  BaseInv'
<1>1. IInv' /\ KInv' /\ CountsInv'
  BY Inductive, KInvInductive, CountsInductive DEF BaseInv
<1>2. ObtainedInv' /\ FlagsInv' /\ FringeInv'
  BY ObtainedInductive, FlagsInductive, FringeInductive DEF BaseInv
<1>3. PruningIsSound' /\ DeadEndIsSound'
  BY ProblemStays, ReliedStays DEF BaseInv
<1> QED
  BY <1>1, <1>2, <1>3 DEF BaseInv

LEMMA AllKnown ==
  ASSUME BaseInv
  PROVE  /\ IsProblem(htn) /\ conf \in ConfigType /\ GarbageValues \subseteq Int
         /\ made + 1 \in Nat /\ made + 1 \notin DOMAIN node /\ fringe \subseteq DOMAIN node
         /\ \A x \in DOMAIN node :
              /\ x # None /\ KnownNode(htn, node[x]) /\ NodeInv(htn, node[x], made + 1)
              /\ DOMAIN node[x] = NodeFields
         /\ ~ costMode => \A k \in DOMAIN visited :
                            /\ visited[k] \in Seq(DOMAIN node)
                            /\ \A l \in DOMAIN visited[k] : visited[k][l] \in Permanent
<1>1. IsProblem(htn) /\ conf \in ConfigType /\ GarbageValues \subseteq Int
  BY SearchAssumption DEF BaseInv, IInv, TypeOK
<1>2. made + 1 \in Nat /\ made + 1 \notin DOMAIN node /\ fringe \subseteq DOMAIN node
  BY DEF BaseInv, IInv, TypeOK
<1>3. \A x \in DOMAIN node : x # None /\ NodeInv(htn, node[x], made + 1)
  BY DEF BaseInv, IInv, TypeOK, None
<1>4. \A x \in DOMAIN node : NodeType(htn, node[x]) /\ DOMAIN node[x] = NodeFields
  BY <1>3 DEF NodeInv, WellFormed, NodeType
<1>5. \A x \in DOMAIN node : KnownNode(htn, node[x])
  <2>1. \A x \in DOMAIN node : IsFiniteSet(Steps(node[x]))
    BY DEF BaseInv, CountsInv, TaskCountsExact
  <2>2. \A x \in DOMAIN node : obtained(htn, node[x])
    BY DEF BaseInv, ObtainedInv
  <2> QED
    BY <1>4, <2>1, <2>2 DEF KnownNode
<1>6. Permanent \subseteq DOMAIN node
  BY DEF Permanent
<1>7. ASSUME ~ costMode, NEW k \in DOMAIN visited
      PROVE  /\ visited[k] \in Seq(DOMAIN node)
             /\ \A l \in DOMAIN visited[k] : visited[k][l] \in Permanent
  <2>1. visited[k] \in Seq(Permanent)
    BY <1>7 DEF BaseInv, KInv
  <2> QED
    BY <1>6, <2>1
<1> QED
  BY <1>1, <1>2, <1>3, <1>4, <1>5, <1>7

(* push changes nothing that matters for the plan.                         *)
LEMMA PushedSame ==
  ASSUME NEW n, DOMAIN n = NodeFields, NEW hval, NEW h, NEW g, NEW sol
  PROVE  /\ spent(g, pushed(n, hval)) = spent(g, n)
         /\ \A L : FitsAt(h, g, sol, n, L) <=> FitsAt(h, g, sol, pushed(n, hval), L)
         /\ \A B : Exhausted(h, g, sol, n, spent(g, n), B) =>
              Exhausted(h, g, sol, pushed(n, hval), spent(g, pushed(n, hval)), B)
<1> DEFINE p == pushed(n, hval)
<1>1. spent(g, p) = spent(g, n)
  BY DEF pushed, NodeFields, spent
<1>2. SameNetwork(p, n)
  BY PushedFields
<1> HIDE DEF p
<1>3. \A q, L : Fits(h, g, sol, n, q, L) <=> Fits(h, g, sol, p, q, L)
  BY <1>2, PushedFits
<1>4. \A L : FitsAt(h, g, sol, n, L) <=> FitsAt(h, g, sol, p, L)
  BY <1>1, <1>3 DEF FitsAt
<1>5. \A B : Exhausted(h, g, sol, n, spent(g, n), B) => Exhausted(h, g, sol, p, spent(g, p), B)
  BY <1>1, <1>3 DEF Exhausted
<1> QED
  BY <1>1, <1>4, <1>5 DEF p

(* What was done stays done.                                               *)
LEMMA DoneStays ==
  ASSUME BaseInv, [Next]_vars, NEW g, Counted(conf, g), NEW sol, NEW B,
         ListDone(htn, conf, g, sol, visited', node, B)
  PROVE  ListDone(htn, conf, g, sol, visited', node', B)
<1>1. CASE keyedByCost(htn, conf)
  BY <1>1 DEF ListDone
<1>2. CASE ~ keyedByCost(htn, conf)
  <2> SUFFICES ASSUME ~ conf.noVisitedCheck, NodeListDone(htn, conf, g, sol, visited', node, B)
               PROVE  NodeListDone(htn, conf, g, sol, visited', node', B)
    BY <1>2 DEF ListDone
  <2> SUFFICES ASSUME NEW k \in DOMAIN visited', NEW l \in DOMAIN visited'[k]
               PROVE  /\ visited'[k][l] \in DOMAIN node'
                      /\ NodeDone(htn, conf, g, sol, k, node'[visited'[k][l]], B)
    BY DEF NodeListDone
  <2> DEFINE x == visited'[k][l]
  <2>1. x \in DOMAIN node /\ NodeDone(htn, conf, g, sol, k, node[x], B)
    BY DEF NodeListDone
  <2>2. ~ costMode /\ ~ costMode'
    BY <1>2, CostModeKey, ProblemStays, ModesStay
  <2>3. x \in DOMAIN node'
    <3>1. KInv'
      BY BaseInductive DEF BaseInv
    <3>2. visited'[k] \in Seq(Permanent')
      BY <2>2, <3>1 DEF KInv
    <3>3. x \in Permanent'
      BY <3>2
    <3> QED
      BY <3>3 DEF Permanent
  <2> HIDE DEF x
  <2>4. CASE node'[x] = node[x]
    BY <2>1, <2>3, <2>4 DEF x
  <2>5. CASE PushesChild(x)
    <3> DEFINE n == node[x]
               p == pushed(n, heuristicValue(n))
    <3>1. /\ node'[x] = p /\ Keep /\ x = child
          /\ DOMAIN n = NodeFields /\ obtained(htn, n) /\ NodeType(htn, n)
          /\ NodeDone(htn, conf, g, sol, k, n, B)
      BY <2>1, <2>5, AllKnown DEF PushesChild, KnownNode
    <3>2. g = "none"
      <4> SUFFICES ASSUME g # "none" PROVE FALSE
        OBVIOUS
      <4>1. visited' = visited /\ pc = "settle"
        BY <3>1 DEF Counted, Keep, settled
      <4>2. k \in DOMAIN visited /\ x = visited[k][l] /\ l \in DOMAIN visited[k]
        BY <4>1 DEF x
      <4>3. x \in Permanent
        BY <2>2, <4>2, AllKnown
      <4> QED
        BY <3>1, <4>1, <4>3 DEF Permanent
    <3> DEFINE v == heuristicValue(n) * conf.weight + gValue(n)
    <3>3. p = [n EXCEPT !.fValue = v, !.pushed = TRUE]
      BY DEF pushed
    <3> HIDE DEF n, v
    <3>4. VisitedKeys(htn, conf, p) = VisitedKeys(htn, conf, n)
      BY <3>1, <3>3 DEF PruningIsSound, BaseInv
    <3>5. Exhausted(htn, g, sol, p, spent(g, p), B)
      BY <3>1, PushedSame DEF NodeDone
    <3>6. NodeDone(htn, conf, g, sol, k, p, B)
      BY <3>1, <3>2, <3>4, <3>5 DEF NodeDone, Readable
    <3> QED
      BY <2>3, <3>1, <3>6 DEF x
  <2> QED
    BY <2>1, <2>4, <2>5, <2>3, OldNodes DEF BaseInv
<1> QED
  BY <1>1, <1>2

-----------------------------------------------------------------------------
(***************************************************************************)
(* No solution is lost.                                                    *)
(***************************************************************************)
(* A node that the plan completes with at most L entries is in the fringe, *)
(* follows from what is left of the loop, or is under construction.        *)
OpenFringe(h, g, sol, F, N, L) == \E i \in F : FitsAt(h, g, sol, N[i], L)

Open(g, sol, L) ==
  \/ OpenFringe(htn, g, sol, fringe, node, L)
  \/ pc \in {"expand", "settle"} /\ \E x \in todo : Follows(htn, g, sol, node[cur], x, L)
  \/ pc = "settle" /\ FitsAt(htn, g, sol, node[child], L)

(* The invariant, for a plan and a g value.  As long as the search has no  *)
(* solution, some node is open at an L up to which all that the visited    *)
(* list knows is exhausted: the list cannot take what leads to that node   *)
(* for known.  With the early check a node is in the list while it waits   *)
(* in the fringe: there the list may know that very node.                  *)
Pending(g, sol, L) == Open(g, sol, L) /\ ListDone(htn, conf, g, sol, visited, node, L)

Waiting(g, sol, L) ==
  /\ conf.suboptimal
  /\ OpenFringe(htn, g, sol, fringe, node, L)
  /\ ListDone(htn, conf, g, sol, visited, node, L - 1)

KeptOpen(g, sol) ==
  pc \in {"pop", "expand", "settle"} /\ tnSol = None =>
    \E L \in Nat : Pending(g, sol, L) \/ Waiting(g, sol, L)

NextOpen(g, sol, L) ==
  \/ OpenFringe(htn, g, sol, fringe', node', L)
  \/ pc' \in {"expand", "settle"} /\ \E x \in todo' : Follows(htn, g, sol, node'[cur'], x, L)
  \/ pc' = "settle" /\ FitsAt(htn, g, sol, node'[child'], L)

LEMMA StaysOpen ==
  ASSUME BaseInv, [Next]_vars, NEW g, Counted(conf, g), NEW sol, NEW L \in Nat,
         Pending(g, sol, L) \/ Waiting(g, sol, L),
         OpenFringe(htn, g, sol, fringe, node, L) => OpenFringe(htn, g, sol, fringe', node', L),
         Pending(g, sol, L) /\ ~ OpenFringe(htn, g, sol, fringe, node, L) => NextOpen(g, sol, L),
         ListDone(htn, conf, g, sol, visited, node, L) =>
           ListDone(htn, conf, g, sol, visited', node, L),
         conf.suboptimal /\ ListDone(htn, conf, g, sol, visited, node, L - 1) =>
           ListDone(htn, conf, g, sol, visited', node, L - 1)
  PROVE  \E M \in Nat : Pending(g, sol, M)' \/ Waiting(g, sol, M)'
<1>1. htn' = htn /\ conf' = conf
  BY ProblemStays
<1>2. CASE Pending(g, sol, L)
  <2>1. ListDone(htn, conf, g, sol, visited', node', L)
    BY <1>2, DoneStays DEF Pending
  <2>2. NextOpen(g, sol, L)
    BY <1>2 DEF NextOpen
  <2>3. Open(g, sol, L)'
    BY <1>1, <2>2 DEF NextOpen, Open
  <2> QED
    BY <1>1, <2>1, <2>3 DEF Pending
<1>3. CASE Waiting(g, sol, L)
  <2>1. ListDone(htn, conf, g, sol, visited', node', L - 1)
    BY <1>3, DoneStays DEF Waiting
  <2>2. OpenFringe(htn, g, sol, fringe', node', L)
    BY <1>3 DEF Waiting
  <2> QED
    BY <1>1, <1>3, <2>1, <2>2 DEF Waiting
<1> QED
  BY <1>2, <1>3

(* Nodes that stay in the fringe stay as they are.                         *)
LEMMA FringeStaysOpen ==
  ASSUME BaseInv, [Next]_vars, NEW g, NEW sol, NEW L,
         NEW F, F \subseteq fringe, F \subseteq fringe',
         OpenFringe(htn, g, sol, F, node, L)
  PROVE  OpenFringe(htn, g, sol, fringe', node', L)
<1>1. \A j \in F : node'[j] = node[j]
  <2>1. \A j \in fringe : ~ PushesChild(j)
    BY DEF PushesChild, Keep, settled, BaseInv, IInv
  <2> QED
    BY <2>1, FringeOfAStep DEF BaseInv
<1> QED
  BY <1>1 DEF OpenFringe

(* A node that does not fit at L is exhausted up to L, and one that does   *)
(* fits at a least one.                                                    *)
LEMMA FitsOrExhausted ==
  ASSUME NEW h, NEW sol, PlanOf(h, sol), NEW g \in gValues, NEW n, NodeType(h, n), NEW L \in Nat
  PROVE  \/ Exhausted(h, g, sol, n, spent(g, n), L)
         \/ \E M \in Nat : /\ M <= L /\ FitsAt(h, g, sol, n, M)
                           /\ Exhausted(h, g, sol, n, spent(g, n), M - 1)
<1> DEFINE T == {K \in Nat : FitsAt(h, g, sol, n, K)}
<1>1. CASE T = {}
  BY <1>1 DEF Exhausted, FitsAt
<1>2. CASE T # {}
  <2>1. PICK M \in T : \A K \in T : M <= K
    <3>1. T \in SUBSET Nat
      OBVIOUS
    <3> HIDE DEF T
    <3> QED
      BY <1>2, <3>1, LeastElement
  <2>2. M \in Nat /\ FitsAt(h, g, sol, n, M)
    OBVIOUS
  <2>3. Exhausted(h, g, sol, n, spent(g, n), M - 1)
    BY <2>1 DEF Exhausted, FitsAt
  <2>4. M > L => Exhausted(h, g, sol, n, spent(g, n), L)
    BY <2>1 DEF Exhausted, FitsAt
  <2> QED
    BY <2>2, <2>3, <2>4
<1> QED
  BY <1>1, <1>2

LEMMA NotBoth ==
  ASSUME NEW h, NEW sol, NEW g, NEW n, NEW L \in Nat, FitsAt(h, g, sol, n, L),
         Exhausted(h, g, sol, n, spent(g, n), L)
  PROVE  FALSE
BY DEF Exhausted, FitsAt

LEMMA ReadsNode ==
  ASSUME BaseInv, NEW g, Counted(conf, g), NEW sol, PlanOf(htn, sol), NEW B,
         ListDone(htn, conf, g, sol, visited, node, B), NEW i \in DOMAIN node,
         ~ conf.suboptimal => i \in fringe
  PROVE  ReadsList(i, g, sol, B)
<1>1. Readable(g, node[i])
  BY DEF Readable, Counted, BaseInv, FringeInv, FringeNode
<1>2. PruningIsSound
  BY DEF BaseInv
<1> QED
  BY <1>1, <1>2, AllKnown DEF ReadsList

(* A known node that is taken from the fringe was not the one that is      *)
(* needed.                                                                 *)
LEMMA PopKnownKeepsOpen ==
  ASSUME BaseInv, [Next]_vars, NEW g, Counted(conf, g), NEW sol, PlanOf(htn, sol), NEW L \in Nat,
         Pending(g, sol, L) \/ Waiting(g, sol, L), NEW i \in fringe, PopKnown(i)
  PROVE  \E M \in Nat : Pending(g, sol, M)' \/ Waiting(g, sol, M)'
<1>1. /\ ~ conf.suboptimal /\ pc = "pop" /\ fringe' = fringe \ {i} /\ i \in DOMAIN node
      /\ Pending(g, sol, L) /\ ListDone(htn, conf, g, sol, visited, node, L)
      /\ OpenFringe(htn, g, sol, fringe, node, L)
  BY AllKnown DEF PopKnown, Waiting, Pending, Open
<1>2. PICK r \in insertVisi(i) : ~ r.isNew /\ visited' = r.list
  BY DEF PopKnown
<1>3. ReadsList(i, g, sol, L)
  BY <1>1, ReadsNode
<1>4. /\ ListDone(htn, conf, g, sol, r.list, node, L)
      /\ Exhausted(htn, g, sol, node[i], spent(g, node[i]), L)
  BY <1>2, <1>3, KnownIsDone
<1>5. OpenFringe(htn, g, sol, fringe \ {i}, node, L)
  BY <1>1, <1>4, NotBoth DEF OpenFringe
<1>6. OpenFringe(htn, g, sol, fringe', node', L)
  BY <1>1, <1>5, FringeStaysOpen
<1> QED
  BY <1>1, <1>2, <1>4, <1>6, StaysOpen

(* A new node that is taken from the fringe is expanded.                   *)
LEMMA PopNewKeepsOpen ==
  ASSUME BaseInv, [Next]_vars, NEW g, Counted(conf, g), NEW sol, PlanOf(htn, sol), NEW L \in Nat,
         Pending(g, sol, L) \/ Waiting(g, sol, L), tnSol = None, tnSol' = None,
         NEW i \in fringe, PopNew(i)
  PROVE  \E M \in Nat : Pending(g, sol, M)' \/ Waiting(g, sol, M)'
<1> DEFINE n == node[i]
<1>1. /\ pc = "pop" /\ fringe' = fringe \ {i} /\ i \in DOMAIN node /\ cur' = i /\ node' = node
      /\ OpenFringe(htn, g, sol, fringe, node, L) /\ L \in Int /\ L - 1 \in Int
  BY AllKnown DEF PopNew, Waiting, Pending, Open
<1>2. /\ i # None /\ NodeInv(htn, n, made + 1) /\ NodeType(htn, n) /\ made + 1 \in Nat
      /\ g \in gValues /\ htn' = htn /\ conf' = conf
  BY <1>1, AllKnown, ProblemStays DEF KnownNode, Counted
<1>3. /\ ~ isGoal(htn, n) /\ pc' = "expand" /\ todo' \in modifications(n)
  <2>1. ~ conf.suboptimal => ~ isGoal(htn, n)
    BY <1>2 DEF PopNew, handleNewSolution
  <2>2. conf.suboptimal => ~ isGoal(htn, n)
    BY DEF BaseInv, FringeInv, FringeNode
  <2>3. continueSearch
    BY DEF BaseInv, FlagsInv, IInv, TypeOK
  <2> QED
    BY <2>1, <2>2, <2>3 DEF PopNew
<1>4. \A B \in {L, L - 1}, B2 \in Int :
        /\ B2 <= B /\ Exhausted(htn, g, sol, n, spent(g, n), B2)
        /\ ListDone(htn, conf, g, sol, visited, node, B)
        => ListDone(htn, conf, g, sol, visited', node, B2)
  <2> SUFFICES ASSUME NEW B \in {L, L - 1}, NEW B2 \in Int, B2 <= B,
                      Exhausted(htn, g, sol, n, spent(g, n), B2),
                      ListDone(htn, conf, g, sol, visited, node, B)
               PROVE  ListDone(htn, conf, g, sol, visited', node, B2)
    OBVIOUS
  <2>0. B \in Int
    BY <1>1
  <2>1. CASE conf.suboptimal
    <3>1. visited' = visited
      BY <2>1 DEF PopNew
    <3> QED
      BY <2>0, <3>1, DoneLess
  <2>2. CASE ~ conf.suboptimal
    <3>1. PICK r \in insertVisi(i) : r.isNew /\ visited' = r.list
      BY <2>2 DEF PopNew
    <3>2. ReadsList(i, g, sol, B)
      BY <1>1, ReadsNode
    <3> QED
      BY <2>0, <3>1, <3>2, NewIsDone
  <2> QED
    BY <2>1, <2>2
<1>5. CASE Exhausted(htn, g, sol, n, spent(g, n), L)
  <2>1. OpenFringe(htn, g, sol, fringe \ {i}, node, L)
    BY <1>1, <1>5, NotBoth DEF OpenFringe
  <2>2. OpenFringe(htn, g, sol, fringe', node', L)
    BY <1>1, <2>1, FringeStaysOpen
  <2>3. Exhausted(htn, g, sol, n, spent(g, n), L - 1)
    <3> HIDE DEF n
    <3> QED
      BY <1>1, <1>5, ExhaustedLess
  <2>4. /\ ListDone(htn, conf, g, sol, visited, node, L) =>
             ListDone(htn, conf, g, sol, visited', node, L)
        /\ ListDone(htn, conf, g, sol, visited, node, L - 1) =>
             ListDone(htn, conf, g, sol, visited', node, L - 1)
    BY <1>1, <1>4, <1>5, <2>3
  <2> QED
    BY <1>1, <2>2, <2>4, StaysOpen
<1>6. ASSUME NEW M \in Nat, M <= L, FitsAt(htn, g, sol, n, M),
             Exhausted(htn, g, sol, n, spent(g, n), M - 1)
      PROVE  \E K \in Nat : Pending(g, sol, K)' \/ Waiting(g, sol, K)'
  <2> HIDE DEF n
  <2>1. /\ M >= 1
        /\ n.abs = {} =>
             \E s \in applicableSteps(htn, n) : Follows(htn, g, sol, n, <<s, 0>>, M - 1)
        /\ \A d \in n.abs : \E mi \in taskToMethods(htn, n.task[d]) :
             mi # 0 /\ Follows(htn, g, sol, n, <<d, mi>>, M - 1)
    BY <1>2, <1>3, <1>6, Progress
  <2>2. \E x \in todo' : Follows(htn, g, sol, n, x, M - 1)
    BY <1>3, <2>1 DEF modifications
  <2>3. ListDone(htn, conf, g, sol, visited', node', M - 1)
    <3>1. M - 1 \in Int /\ M - 1 <= L - 1 /\ M - 1 <= L
      BY <1>6
    <3>2. \/ ListDone(htn, conf, g, sol, visited, node, L)
          \/ ListDone(htn, conf, g, sol, visited, node, L - 1)
      BY DEF Pending, Waiting
    <3> QED
      BY <1>1, <1>4, <1>6, <3>1, <3>2
  <2>4. M - 1 \in Nat
    BY <2>1
  <2>5. \E x \in todo' : Follows(htn', g, sol, node'[cur'], x, M - 1)
    BY <1>1, <1>2, <2>2 DEF n
  <2>6. Open(g, sol, M - 1)'
    BY <1>3, <2>5 DEF Open
  <2>7. Pending(g, sol, M - 1)'
    BY <1>2, <2>3, <2>6 DEF Pending
  <2> QED
    BY <2>4, <2>7
<1>7. \/ Exhausted(htn, g, sol, n, spent(g, n), L)
      \/ \E M \in Nat : /\ M <= L /\ FitsAt(htn, g, sol, n, M)
                        /\ Exhausted(htn, g, sol, n, spent(g, n), M - 1)
  BY <1>2, FitsOrExhausted
<1> QED
  BY <1>5, <1>6, <1>7

(* The loop takes the modification that leads on, or keeps it.             *)
LEMMA ExpandKeepsOpen ==
  ASSUME BaseInv, [Next]_vars, NEW g, Counted(conf, g), NEW sol, PlanOf(htn, sol), NEW L \in Nat,
         Pending(g, sol, L) \/ Waiting(g, sol, L), NEW x \in todo,
         x = <<x[1], x[2]>>, (Apply(x[1]) /\ x[2] = 0) \/ Decompose(x[1], x[2])
  PROVE  \E M \in Nat : Pending(g, sol, M)' \/ Waiting(g, sol, M)'
<1> DEFINE n2 == progressed(htn, node[cur], x, made + 1)
<1>1. /\ pc = "expand" /\ pc' = "settle" /\ todo' = todo \ {x} /\ child' = made + 1
      /\ cur' = cur /\ fringe' = fringe /\ visited' = visited
      /\ node' = allocated(node, made + 1, n2)
  BY DEF Apply, Decompose, progressed
<1>2. cur \in DOMAIN node /\ NodeInv(htn, node[cur], made + 1) /\ made + 1 \in Nat
  BY <1>1, AllKnown DEF BaseInv, IInv, TypeOK
<1>3. node'[cur'] = node[cur] /\ node'[child'] = n2
  BY <1>1, <1>2, AllKnown DEF allocated
<1>4. OpenFringe(htn, g, sol, fringe, node, L) => OpenFringe(htn, g, sol, fringe', node', L)
  BY <1>1, FringeStaysOpen
<1>5. ASSUME Pending(g, sol, L), ~ OpenFringe(htn, g, sol, fringe, node, L)
      PROVE  NextOpen(g, sol, L)
  <2>1. PICK y \in todo : Follows(htn, g, sol, node[cur], y, L)
    BY <1>1, <1>5 DEF Pending, Open
  <2>2. CASE y = x
    <3>1. FitsAt(htn, g, sol, n2, L)
      BY <1>2, <2>1, <2>2 DEF Follows
    <3> QED
      BY <1>1, <1>3, <3>1 DEF NextOpen
  <2>3. CASE y # x
    BY <1>1, <1>3, <2>1, <2>3 DEF NextOpen
  <2> QED
    BY <2>2, <2>3
<1> QED
  BY <1>1, <1>4, <1>5, StaysOpen

(* Progressing the node under construction at once loses nothing.          *)
LEMMA ReplaceKeepsOpen ==
  ASSUME BaseInv, [Next]_vars, NEW g, Counted(conf, g), NEW sol, PlanOf(htn, sol), NEW L \in Nat,
         Pending(g, sol, L) \/ Waiting(g, sol, L), NEW s,
         ProgressEffectLess(s) \/ ProgressOneModAction(s)
  PROVE  \E M \in Nat : Pending(g, sol, M)' \/ Waiting(g, sol, M)'
<1> DEFINE n == node[child]
           n2 == applyStep(htn, n, s, made + 1)
<1>1. /\ pc = "settle" /\ pc' = "settle" /\ todo' = todo /\ child' = made + 1
      /\ cur' = cur /\ fringe' = fringe /\ visited' = visited
      /\ node' = allocated(withoutNode(child), made + 1, n2)
  BY DEF ProgressEffectLess, ProgressOneModAction, replaceChild
<1>2. /\ cur \in DOMAIN node /\ child \in DOMAIN node /\ child # cur
      /\ made + 1 \in Nat /\ g \in gValues /\ L \in Int
  BY <1>1, AllKnown DEF BaseInv, IInv, TypeOK, Counted
<1>3. NodeInv(htn, n, made + 1) /\ IsFiniteSet(Steps(n)) /\ IsProblem(htn)
  BY <1>2, AllKnown DEF KnownNode
<1>4. node'[cur'] = node[cur] /\ node'[child'] = n2
  BY <1>1, <1>2, AllKnown DEF allocated, withoutNode, Restrict
<1>5. OpenFringe(htn, g, sol, fringe, node, L) => OpenFringe(htn, g, sol, fringe', node', L)
  BY <1>1, FringeStaysOpen
<1>6. ASSUME FitsAt(htn, g, sol, n, L)
      PROVE  L >= 1 /\ FitsAt(htn, g, sol, n2, L - 1)
  <2>1. CASE ProgressEffectLess(s)
    <3>1. s \in effectLessAfterApply(htn, n)
      BY <1>1, <2>1 DEF ProgressEffectLess, BaseInv, FlagsInv
    <3> HIDE DEF n
    <3> QED
      BY <1>2, <1>3, <1>6, <3>1, EffectLessProgress
  <2>2. CASE ProgressOneModAction(s)
    <3>1. n.abs = {} /\ Cardinality(applicableSteps(htn, n)) = 1 /\ s \in applicableSteps(htn, n)
      BY <2>2 DEF ProgressOneModAction, oneModification
    <3> HIDE DEF n
    <3>2. ~ isGoal(htn, n)
      BY <3>1 DEF isGoal, applicableSteps
    <3>3. PICK s2 \in applicableSteps(htn, n) :
            L >= 1 /\ Follows(htn, g, sol, n, <<s2, 0>>, L - 1)
      BY <1>2, <1>3, <1>6, <3>1, <3>2, Progress
    <3>4. s2 = s
      <4> SUFFICES ASSUME s2 # s PROVE FALSE
        OBVIOUS
      <4>1. IsFiniteSet(applicableSteps(htn, n))
        <5>1. applicableSteps(htn, n) \subseteq Steps(n)
          BY <1>3 DEF applicableSteps, NodeInv, WellFormed, NodeType
        <5> QED
          BY <5>1, <1>3, FS_Subset
      <4>2. {s, s2} \subseteq applicableSteps(htn, n)
        BY <3>1
      <4>3. Cardinality({s, s2}) <= 1
        BY <3>1, <4>1, <4>2, FS_Subset
      <4>4. Cardinality({s, s2}) = 2
        <5>1. IsFiniteSet({s}) /\ Cardinality({s}) = 1
          BY FS_Singleton
        <5>2. Cardinality({s} \cup {s2}) = Cardinality({s}) + 1
          BY <5>1, FS_AddElement
        <5>3. {s} \cup {s2} = {s, s2}
          OBVIOUS
        <5> QED
          BY <5>1, <5>2, <5>3
      <4> QED
        BY <4>3, <4>4
    <3> QED
      BY <1>2, <1>3, <3>3, <3>4 DEF Follows, progressed
  <2> QED
    BY <2>1, <2>2
<1>7. ASSUME FitsAt(htn, g, sol, n, L)
      PROVE  FitsAt(htn, g, sol, n2, L)
  <2>1. NodeType(htn, n2)
    <3>1. s \in applicableSteps(htn, n)
      BY <1>1, EffectLessApplicable DEF ProgressEffectLess, ProgressOneModAction, BaseInv, IInv
    <3> HIDE DEF n
    <3>2. NodeInv(htn, n2, (made + 1) + 1)
      BY <1>2, <1>3, <3>1, AppliedNode
    <3> QED
      BY <3>2 DEF NodeInv, WellFormed
  <2>2. FitsAt(htn, g, sol, n2, L - 1)
    BY <1>6, <1>7
  <2> HIDE DEF n2
  <2>3. spent(g, n2) \in Nat /\ spent(g, n2) <= spent(g, n2) /\ L - 1 \in Int /\ L - 1 <= L
    BY <1>2, <2>1, SpentType
  <2>4. Fits(htn, g, sol, n2, spent(g, n2), L - 1)
    BY <2>2 DEF FitsAt
  <2>5. Fits(htn, g, sol, n2, spent(g, n2), L)
    BY <1>2, <2>3, <2>4, FitsWeaker
  <2> QED
    BY <2>5 DEF FitsAt
<1>8. ASSUME Pending(g, sol, L), ~ OpenFringe(htn, g, sol, fringe, node, L)
      PROVE  NextOpen(g, sol, L)
  <2>1. \/ \E y \in todo : Follows(htn, g, sol, node[cur], y, L)
        \/ FitsAt(htn, g, sol, n, L)
    BY <1>1, <1>8 DEF Pending, Open
  <2> HIDE DEF n, n2
  <2> QED
    BY <1>1, <1>4, <1>7, <2>1 DEF NextOpen
<1> QED
  BY <1>1, <1>5, <1>8, StaysOpen

(* The node under construction is given up only where it leads nowhere.    *)
LEMMA DropKeepsOpen ==
  ASSUME BaseInv, [Next]_vars, NEW g, Counted(conf, g), NEW sol, PlanOf(htn, sol), NEW L \in Nat,
         Pending(g, sol, L) \/ Waiting(g, sol, L), DropDeadEnd \/ DropKnown \/ DropUnreachable
  PROVE  \E M \in Nat : Pending(g, sol, M)' \/ Waiting(g, sol, M)'
<1> DEFINE n == node[child]
<1>1. /\ pc = "settle" /\ pc' = "expand" /\ todo' = todo /\ cur' = cur /\ fringe' = fringe
      /\ node' = withoutNode(child) \/ node' = node
  BY DEF DropDeadEnd, DropKnown, DropUnreachable, settled
<1>2. /\ cur \in DOMAIN node /\ child \in DOMAIN node /\ child # cur
      /\ made + 1 \in Nat /\ g \in gValues /\ L \in Int /\ L - 1 \in Int
  BY <1>1, AllKnown DEF BaseInv, IInv, TypeOK, Counted
<1>3. NodeInv(htn, n, made + 1) /\ KnownNode(htn, n) /\ IsProblem(htn)
  BY <1>2, AllKnown
<1>4. node'[cur'] = node[cur]
  BY <1>1, <1>2 DEF withoutNode, Restrict
<1>5. OpenFringe(htn, g, sol, fringe, node, L) => OpenFringe(htn, g, sol, fringe', node', L)
  BY <1>1, FringeStaysOpen
<1>6. ASSUME Pending(g, sol, L) => ~ FitsAt(htn, g, sol, n, L)
      PROVE  Pending(g, sol, L) /\ ~ OpenFringe(htn, g, sol, fringe, node, L) =>
               NextOpen(g, sol, L)
  <2> SUFFICES ASSUME Pending(g, sol, L), ~ OpenFringe(htn, g, sol, fringe, node, L)
               PROVE  NextOpen(g, sol, L)
    OBVIOUS
  <2>1. \E y \in todo : Follows(htn, g, sol, node[cur], y, L)
    BY <1>1, <1>6 DEF Pending, Open
  <2> QED
    BY <1>1, <1>4, <2>1 DEF NextOpen
<1>7. CASE DropDeadEnd
  <2>1. n.abs = {} /\ n.prim # {} /\ applicableSteps(htn, n) = {} /\ visited' = visited
    BY <1>7 DEF DropDeadEnd, noModification
  <2> HIDE DEF n
  <2>2. ~ isGoal(htn, n)
    BY <2>1 DEF isGoal
  <2>3. ~ FitsAt(htn, g, sol, n, L)
    BY <1>2, <1>3, <2>1, <2>2, Progress
  <2> QED
    BY <1>5, <1>6, <2>1, <2>3, StaysOpen
<1>8. CASE DropKnown
  <2>1. PICK r \in insertVisi(child) : ~ r.isNew /\ visited' = r.list
    BY <1>8 DEF DropKnown
  <2>2. conf.suboptimal
    BY <1>8 DEF DropKnown
  <2>3. ASSUME NEW B \in Int, ListDone(htn, conf, g, sol, visited, node, B)
        PROVE  /\ ListDone(htn, conf, g, sol, visited', node, B)
               /\ Exhausted(htn, g, sol, n, spent(g, n), B)
    <3>1. ReadsList(child, g, sol, B)
      BY <1>2, <2>2, <2>3, ReadsNode
    <3> QED
      BY <2>1, <3>1, KnownIsDone
  <2>4. Pending(g, sol, L) => ~ FitsAt(htn, g, sol, n, L)
    BY <1>2, <2>3, NotBoth DEF Pending
  <2> QED
    BY <1>2, <1>5, <1>6, <2>3, <2>4, StaysOpen
<1>9. CASE DropUnreachable
  <2>1. conf.heuristic = "filter" /\ DeadEnd(htn, n)
    BY <1>9 DEF DropUnreachable, unreachable
  <2>2. ASSUME NEW K \in Nat, FitsAt(htn, g, sol, n, K) PROVE FALSE
    <3>1. PICK o : leadsTo(htn, n, o) /\ isGoal(htn, o)
      <4> HIDE DEF n
      <4> QED
        BY <1>2, <1>3, <2>2, LeadsToGoal
    <3> QED
      BY <1>3, <2>1, <3>1 DEF BaseInv, DeadEndIsSound, KnownNode
  <2>3. \A B : Exhausted(htn, g, sol, n, spent(g, n), B)
    BY <2>2 DEF Exhausted, FitsAt
  <2>4. ASSUME NEW B \in Int, ListDone(htn, conf, g, sol, visited, node, B)
        PROVE  ListDone(htn, conf, g, sol, visited', node, B)
    <3>1. CASE conf.suboptimal
      <4>1. PICK r \in insertVisi(child) : r.isNew /\ visited' = r.list
        BY <1>9, <3>1 DEF DropUnreachable
      <4>2. ReadsList(child, g, sol, B)
        BY <1>2, <3>1, <2>4, ReadsNode
      <4> QED
        BY <2>3, <4>1, <4>2, NewIsDone
    <3>2. CASE ~ conf.suboptimal
      <4>1. visited' = visited
        BY <1>9, <3>2 DEF DropUnreachable
      <4> QED
        BY <2>4, <4>1
    <3> QED
      BY <3>1, <3>2
  <2> QED
    BY <1>2, <1>5, <1>6, <2>2, <2>4, StaysOpen
<1> QED
  BY <1>7, <1>8, <1>9

(* A node that is kept waits in the fringe.                                *)
LEMMA KeepKeepsOpen ==
  ASSUME BaseInv, [Next]_vars, NEW g, Counted(conf, g), NEW sol, PlanOf(htn, sol), NEW L \in Nat,
         Pending(g, sol, L) \/ Waiting(g, sol, L), tnSol = None, tnSol' = None, Keep
  PROVE  \E M \in Nat : Pending(g, sol, M)' \/ Waiting(g, sol, M)'
<1> DEFINE n == node[child]
           p == pushed(n, heuristicValue(n))
<1>1. pc = "settle" /\ pc' = "expand" /\ cur' = cur
  BY DEF Keep, settled
<1>2. /\ cur \in DOMAIN node /\ child \in DOMAIN node /\ child # cur /\ child # None
      /\ g \in gValues /\ L \in Int /\ L - 1 \in Int
      /\ htn' = htn /\ conf' = conf
  BY <1>1, AllKnown, ProblemStays DEF BaseInv, IInv, TypeOK, Counted
<1>3. NodeType(htn, n) /\ DOMAIN n = NodeFields
  BY <1>2, AllKnown DEF KnownNode
<1>4. ~ (conf.suboptimal /\ isGoal(htn, n))
  BY <1>2 DEF Keep, handleNewSolution
<1>5. /\ node' = [node EXCEPT ![child] = p] /\ fringe' = fringe \cup {child} /\ todo' = todo
  BY <1>4 DEF Keep
<1>6. node'[cur'] = node[cur] /\ node'[child] = p
  BY <1>1, <1>2, <1>5
<1>7. OpenFringe(htn, g, sol, fringe, node, L) => OpenFringe(htn, g, sol, fringe', node', L)
  BY <1>5, FringeStaysOpen
<1>8. ASSUME NEW M \in Nat, FitsAt(htn, g, sol, n, M)
      PROVE  OpenFringe(htn, g, sol, fringe', node', M)
  <2>1. FitsAt(htn, g, sol, p, M)
    <3> HIDE DEF n
    <3> QED
      BY <1>3, <1>8, PushedSame
  <2> HIDE DEF p
  <2> QED
    BY <1>5, <1>6, <2>1 DEF OpenFringe
<1>9. Pending(g, sol, L) /\ ~ OpenFringe(htn, g, sol, fringe, node, L) => NextOpen(g, sol, L)
  <2> SUFFICES ASSUME Pending(g, sol, L), ~ OpenFringe(htn, g, sol, fringe, node, L)
               PROVE  NextOpen(g, sol, L)
    OBVIOUS
  <2>1. \/ \E y \in todo : Follows(htn, g, sol, node[cur], y, L)
        \/ FitsAt(htn, g, sol, n, L)
    BY DEF Pending, Open
  <2> HIDE DEF n, p
  <2> QED
    BY <1>1, <1>5, <1>6, <1>8, <2>1 DEF NextOpen
<1> HIDE DEF p
<1>10. CASE ~ conf.suboptimal
  <2>1. visited' = visited
    BY <1>10 DEF Keep
  <2> QED
    BY <1>7, <1>9, <1>10, <2>1, StaysOpen
<1>11. CASE conf.suboptimal
  <2>1. PICK r \in insertVisi(child) : r.isNew /\ visited' = r.list
    BY <1>11 DEF Keep
  <2>2. ASSUME NEW B \in Int, NEW B2 \in Int, B2 <= B,
               Exhausted(htn, g, sol, n, spent(g, n), B2),
               ListDone(htn, conf, g, sol, visited, node, B)
        PROVE  ListDone(htn, conf, g, sol, visited', node, B2)
    <3>1. ReadsList(child, g, sol, B)
      BY <1>2, <1>11, <2>2, ReadsNode
    <3> QED
      BY <2>1, <2>2, <3>1, NewIsDone
  <2>3. CASE Exhausted(htn, g, sol, n, spent(g, n), L)
    <3>1. Exhausted(htn, g, sol, n, spent(g, n), L - 1)
      <4> HIDE DEF n
      <4> QED
        BY <1>2, <2>3, ExhaustedLess
    <3>2. /\ ListDone(htn, conf, g, sol, visited, node, L) =>
               ListDone(htn, conf, g, sol, visited', node, L)
          /\ ListDone(htn, conf, g, sol, visited, node, L - 1) =>
               ListDone(htn, conf, g, sol, visited', node, L - 1)
      BY <1>2, <2>2, <2>3, <3>1
    <3> QED
      BY <1>7, <1>9, <3>2, StaysOpen
  <2>4. ASSUME NEW M \in Nat, M <= L, FitsAt(htn, g, sol, n, M),
               Exhausted(htn, g, sol, n, spent(g, n), M - 1)
        PROVE  \E K \in Nat : Pending(g, sol, K)' \/ Waiting(g, sol, K)'
    <3>1. OpenFringe(htn, g, sol, fringe', node', M)
      BY <1>8, <2>4
    <3>2. ListDone(htn, conf, g, sol, visited', node, M - 1)
      <4>1. M - 1 \in Int /\ M - 1 <= L - 1 /\ M - 1 <= L
        BY <2>4
      <4>2. \/ ListDone(htn, conf, g, sol, visited, node, L)
            \/ ListDone(htn, conf, g, sol, visited, node, L - 1)
        BY DEF Pending, Waiting
      <4> QED
        BY <1>2, <2>2, <2>4, <4>1, <4>2
    <3>3. ListDone(htn, conf, g, sol, visited', node', M - 1)
      BY <3>2, DoneStays
    <3>4. Waiting(g, sol, M)'
      BY <1>2, <1>11, <3>1, <3>3 DEF Waiting
    <3> QED
      BY <3>4
  <2>5. \/ Exhausted(htn, g, sol, n, spent(g, n), L)
        \/ \E M \in Nat : /\ M <= L /\ FitsAt(htn, g, sol, n, M)
                          /\ Exhausted(htn, g, sol, n, spent(g, n), M - 1)
    BY <1>2, <1>3, FitsOrExhausted
  <2> QED
    BY <2>3, <2>4, <2>5
<1> QED
  BY <1>10, <1>11

(* The end of the for loop: nothing is left of it.                         *)
LEMMA EndExpansionKeepsOpen ==
  ASSUME BaseInv, [Next]_vars, NEW g, Counted(conf, g), NEW sol, PlanOf(htn, sol), NEW L \in Nat,
         Pending(g, sol, L) \/ Waiting(g, sol, L), EndExpansion
  PROVE  \E M \in Nat : Pending(g, sol, M)' \/ Waiting(g, sol, M)'
<1>1. pc = "expand" /\ todo = {} /\ fringe' = fringe /\ visited' = visited
  BY DEF EndExpansion
<1>2. OpenFringe(htn, g, sol, fringe, node, L) => OpenFringe(htn, g, sol, fringe', node', L)
  BY <1>1, FringeStaysOpen
<1>3. Pending(g, sol, L) => OpenFringe(htn, g, sol, fringe, node, L)
  BY <1>1 DEF Pending, Open
<1> QED
  BY <1>1, <1>2, <1>3, StaysOpen

LEMMA InitialKeptOpen ==
  ASSUME Init, NEW g, Counted(conf, g), NEW sol, PlanOf(htn, sol)
  PROVE  KeptOpen(g, sol)
<1> DEFINE n == prepareTNi(htn)
           p == pushed(n, 0)
<1>1. IsProblem(htn) /\ conf \in Configs /\ g \in gValues
  BY SearchAssumption DEF Init, Counted
<1>2. FitsAt(htn, g, sol, n, Len(sol)) /\ Len(sol) \in Nat
  BY <1>1, InitialFits DEF PlanOf
<1>3. DOMAIN n = NodeFields
  BY <1>1, InitialNode DEF NodeInv, WellFormed, NodeType
<1>4. FitsAt(htn, g, sol, p, Len(sol))
  <2> HIDE DEF n
  <2> QED
    BY <1>2, <1>3, PushedSame
<1> HIDE DEF p
<1>5. OpenFringe(htn, g, sol, fringe, node, Len(sol))
  BY <1>4 DEF Init, OpenFringe, p
<1>6. ListDone(htn, conf, g, sol, visited, node, Len(sol))
  BY DEF Init, ListDone, CostListDone, NodeListDone
<1>7. Pending(g, sol, Len(sol))
  BY <1>5, <1>6 DEF Pending, Open
<1> QED
  BY <1>2, <1>7 DEF KeptOpen

LEMMA KeptOpenInductive ==
  ASSUME BaseInv, [Next]_vars, NEW g, Counted(conf, g), NEW sol, PlanOf(htn, sol),
         KeptOpen(g, sol)
  PROVE  KeptOpen(g, sol)'
<1> SUFFICES ASSUME pc' \in {"pop", "expand", "settle"}, tnSol' = None
             PROVE  \E M \in Nat : Pending(g, sol, M)' \/ Waiting(g, sol, M)'
  BY DEF KeptOpen
<1>1. tnSol = None
  BY SolutionStays DEF BaseInv
<1>2. pc \in {"pop", "expand", "settle"}
  BY DEF Next, vars, PopKnown, PopNew, Apply, Decompose, ProgressEffectLess,
         ProgressOneModAction, replaceChild, DropDeadEnd, DropKnown, DropUnreachable, Keep,
         settled, EndExpansion, Report, Terminating
<1>3. PICK L \in Nat : Pending(g, sol, L) \/ Waiting(g, sol, L)
  BY <1>1, <1>2 DEF KeptOpen
<1>4. ASSUME NEW i \in fringe, PopKnown(i)
      PROVE  \E M \in Nat : Pending(g, sol, M)' \/ Waiting(g, sol, M)'
  BY <1>3, <1>4, PopKnownKeepsOpen
<1>5. ASSUME NEW i \in fringe, PopNew(i)
      PROVE  \E M \in Nat : Pending(g, sol, M)' \/ Waiting(g, sol, M)'
  BY <1>1, <1>3, <1>5, PopNewKeepsOpen
<1>6. ASSUME NEW s, Apply(s)
      PROVE  \E M \in Nat : Pending(g, sol, M)' \/ Waiting(g, sol, M)'
  <2> DEFINE x == <<s, 0>>
  <2>1. x \in todo /\ x = <<x[1], x[2]>> /\ x[2] = 0 /\ x[1] = s
    BY <1>6 DEF Apply
  <2> HIDE DEF x
  <2> QED
    BY <1>3, <1>6, <2>1, ExpandKeepsOpen
<1>7. ASSUME NEW d, NEW m, Decompose(d, m)
      PROVE  \E M \in Nat : Pending(g, sol, M)' \/ Waiting(g, sol, M)'
  <2> DEFINE x == <<d, m>>
  <2>1. x \in todo /\ x = <<x[1], x[2]>> /\ x[1] = d /\ x[2] = m
    BY <1>7 DEF Decompose
  <2> HIDE DEF x
  <2> QED
    BY <1>3, <1>7, <2>1, ExpandKeepsOpen
<1>8. ASSUME NEW s, ProgressEffectLess(s) \/ ProgressOneModAction(s)
      PROVE  \E M \in Nat : Pending(g, sol, M)' \/ Waiting(g, sol, M)'
  BY <1>3, <1>8, ReplaceKeepsOpen
<1>9. CASE DropDeadEnd \/ DropKnown \/ DropUnreachable
  BY <1>3, <1>9, DropKeepsOpen
<1>10. CASE Keep
  BY <1>1, <1>3, <1>10, KeepKeepsOpen
<1>11. CASE EndExpansion
  BY <1>3, <1>11, EndExpansionKeepsOpen
<1>12. CASE Report
  BY <1>12 DEF Report
<1>13. CASE UNCHANGED vars
  <2>1. Pending(g, sol, L)' = Pending(g, sol, L) /\ Waiting(g, sol, L)' = Waiting(g, sol, L)
    BY <1>13 DEF vars, Pending, Waiting, Open
  <2> QED
    BY <1>3, <2>1
<1> QED
  BY <1>4, <1>5, <1>6, <1>7, <1>8, <1>9, <1>10, <1>11, <1>12, <1>13 DEF Next, Terminating

-----------------------------------------------------------------------------
(***************************************************************************)
(* What the answer promises.                                               *)
(***************************************************************************)
bestFirst ==
  ~ conf.suboptimal /\ ~ conf.optimzeSol /\ conf.heuristic \in {"zero", "filter"}

(* For a plan of the problem: the answer is not "unsolvable", and the      *)
(* solution of a best-first search has at most the plan's g value.         *)
Answered(sol) ==
  /\ status # "unsolvable"
  /\ tnSol # None /\ bestFirst =>
       /\ pc \in {"report", "done"} /\ tnSol \in DOMAIN node
       /\ spent(conf.gValue, node[tnSol]) <= planG(htn, conf.gValue, sol)

CompleteInv ==
  \A sol : PlanOf(htn, sol) =>
    /\ \A g : Counted(conf, g) => KeptOpen(g, sol)
    /\ Answered(sol)

(* The loop is not left with an empty fringe, as long as the problem has a *)
(* plan and the search has none.                                           *)
LEMMA UnsolvableStays ==
  ASSUME BaseInv, [Next]_vars, NEW sol, KeptOpen("none", sol), status # "unsolvable"
  PROVE  status' # "unsolvable"
<1>1. Counted(conf, "none")
  BY DEF Counted, gValues
<1>2. CASE Report
  <2> SUFFICES ASSUME tnSol = None, ~ timeLimit PROVE FALSE
    BY <1>2 DEF Report, statusLine
  <2>1. pc = "pop" /\ fringe = {}
    BY <1>2 DEF Report, BaseInv, FlagsInv
  <2>2. PICK L \in Nat : Pending("none", sol, L) \/ Waiting("none", sol, L)
    BY <2>1 DEF KeptOpen
  <2> QED
    BY <2>1, <2>2 DEF Pending, Waiting, Open, OpenFringe
<1>3. CASE ~ Report
  BY <1>3 DEF Next, vars, PopKnown, PopNew, Apply, Decompose, ProgressEffectLess,
         ProgressOneModAction, replaceChild, DropDeadEnd, DropKnown, DropUnreachable, Keep,
         EndExpansion, Terminating
<1> QED
  BY <1>2, <1>3

(* The goal node that ends the search has the least f value of the fringe, *)
(* where a node is that the plan completes.                                *)
LEMMA FoundIsBest ==
  ASSUME BaseInv, [Next]_vars, NEW sol, PlanOf(htn, sol), KeptOpen(conf.gValue, sol), bestFirst,
         tnSol = None, tnSol' # None
  PROVE  /\ pc' = "report" /\ tnSol' \in DOMAIN node' /\ conf' = conf /\ htn' = htn
         /\ spent(conf.gValue, node'[tnSol']) <= planG(htn, conf.gValue, sol)
<1>1. conf.gValue \in gValues /\ Counted(conf, conf.gValue)
  BY AllKnown DEF bestFirst, Counted, ConfigType
<1>2. PICK i \in fringe : PopNew(i)
  BY DEF bestFirst, Next, vars, PopKnown, Apply, Decompose, ProgressEffectLess,
         ProgressOneModAction, replaceChild, DropDeadEnd, DropKnown, DropUnreachable, Keep,
         EndExpansion, Report, Terminating
<1>3. /\ pc = "pop" /\ i \in minimalF /\ node' = node /\ tnSol' = i /\ pc' = "report"
      /\ i \in DOMAIN node
  BY <1>2, AllKnown DEF PopNew, handleNewSolution, bestFirst
<1>4. PICK L \in Nat : Pending(conf.gValue, sol, L) \/ Waiting(conf.gValue, sol, L)
  BY <1>3 DEF KeptOpen
<1>5. PICK j \in fringe : FitsAt(htn, conf.gValue, sol, node[j], L)
  BY <1>3, <1>4 DEF Pending, Waiting, Open, OpenFringe
<1>6. NodeType(htn, node[i]) /\ NodeType(htn, node[j])
  BY <1>3, <1>5, AllKnown DEF KnownNode
<1>7. spent(conf.gValue, node[i]) \in Nat /\ spent(conf.gValue, node[j]) \in Nat
  BY <1>1, <1>6, SpentType
<1>8. spent(conf.gValue, node[j]) <= planG(htn, conf.gValue, sol)
  BY <1>1, <1>5, <1>7, FitsBounds DEF FitsAt
<1>9. /\ node[i].fValue = spent(conf.gValue, node[i])
      /\ node[j].fValue = spent(conf.gValue, node[j])
      /\ node[i].fValue <= node[j].fValue
  BY <1>3, <1>5 DEF BaseInv, FringeInv, FringeNode, bestFirst, minimalF
<1>10. planG(htn, conf.gValue, sol) \in Nat
  BY <1>1, EntryWeights DEF PlanOf
<1>11. spent(conf.gValue, node[i]) <= planG(htn, conf.gValue, sol)
  BY <1>7, <1>8, <1>9, <1>10
<1> QED
  BY <1>3, <1>11, ProblemStays

LEMMA AnsweredStays ==
  ASSUME BaseInv, [Next]_vars, NEW sol, PlanOf(htn, sol),
         \A g : Counted(conf, g) => KeptOpen(g, sol), Answered(sol)
  PROVE  Answered(sol)'
<1>1. htn' = htn /\ conf' = conf /\ (bestFirst' <=> bestFirst)
  BY ProblemStays DEF bestFirst
<1>2. KeptOpen("none", sol)
  BY DEF Counted, gValues
<1>3. status' # "unsolvable"
  BY <1>2, UnsolvableStays DEF Answered
<1>4. ASSUME tnSol' # None, bestFirst
      PROVE  /\ pc' \in {"report", "done"} /\ tnSol' \in DOMAIN node'
             /\ spent(conf.gValue, node'[tnSol']) <= planG(htn, conf.gValue, sol)
  <2>1. CASE tnSol = None
    <3>1. KeptOpen(conf.gValue, sol)
      BY <1>4, AllKnown DEF bestFirst, Counted, ConfigType
    <3> QED
      BY <1>4, <2>1, <3>1, FoundIsBest
  <2>2. CASE tnSol # None
    <3>1. /\ pc \in {"report", "done"} /\ tnSol \in DOMAIN node
          /\ spent(conf.gValue, node[tnSol]) <= planG(htn, conf.gValue, sol)
      BY <1>4, <2>2 DEF Answered
    <3>2. node' = node /\ tnSol' = tnSol /\ pc' \in {"report", "done"}
      BY <3>1 DEF Next, vars, PopKnown, PopNew, Apply, Decompose, ProgressEffectLess,
         ProgressOneModAction, replaceChild, DropDeadEnd, DropKnown, DropUnreachable, Keep,
         settled, EndExpansion, Report, Terminating
    <3> QED
      BY <3>1, <3>2
  <2> QED
    BY <2>1, <2>2
<1> QED
  BY <1>1, <1>3, <1>4 DEF Answered

LEMMA CompleteInductive ==
  ASSUME BaseInv, [Next]_vars, CompleteInv
  PROVE  CompleteInv'
<1>1. htn' = htn /\ conf' = conf
  BY ProblemStays
<1> SUFFICES ASSUME NEW sol, PlanOf(htn, sol)
             PROVE  /\ \A g : Counted(conf, g) => KeptOpen(g, sol)'
                    /\ Answered(sol)'
  BY <1>1 DEF CompleteInv
<1>2. (\A g : Counted(conf, g) => KeptOpen(g, sol)) /\ Answered(sol)
  BY DEF CompleteInv
<1> QED
  BY <1>2, KeptOpenInductive, AnsweredStays

(* For every problem, configuration and choice the search makes, and       *)
(* whatever an uninitialised f value holds: a plan of the problem stays    *)
(* within reach until the search has a solution, so the answer is right,   *)
(* and a best-first search answers with a best plan.                       *)
THEOREM CompleteInvariance ==
  Spec /\ PruningIsSound /\ DeadEndIsSound => [](BaseInv /\ CompleteInv)
<1>1. Init /\ PruningIsSound /\ DeadEndIsSound => BaseInv /\ CompleteInv
  <2> SUFFICES ASSUME Init, PruningIsSound, DeadEndIsSound PROVE BaseInv /\ CompleteInv
    OBVIOUS
  <2>1. BaseInv
    BY InitialBase
  <2>2. \A sol : Answered(sol)
    BY DEF Init, Answered
  <2>3. CompleteInv
    BY <2>2, InitialKeptOpen DEF CompleteInv
  <2> QED
    BY <2>1, <2>3
<1>2. BaseInv /\ CompleteInv /\ [Next]_vars => (BaseInv /\ CompleteInv)'
  <2> SUFFICES ASSUME BaseInv, CompleteInv, [Next]_vars PROVE BaseInv' /\ CompleteInv'
    OBVIOUS
  <2> QED
    BY BaseInductive, CompleteInductive
<1> QED
  BY <1>1, <1>2, PTL DEF Spec

(* "Proven unsolvable" is right: whatever plan of the problem one gives,   *)
(* it is not a valid one, although the search prunes duplicates and dead   *)
(* ends, progresses effectless and forced actions at once, and branches    *)
(* over the methods of a single abstract task.  Assumed is that the        *)
(* visited list takes only nodes for the same that are, and that the       *)
(* filter calls only dead ends dead ends.                                  *)
THEOREM UnsolvableIsRight ==
  Spec /\ PruningIsSound /\ DeadEndIsSound => []UnsolvableIsProven
<1>1. BaseInv /\ CompleteInv => UnsolvableIsProven
  <2> SUFFICES ASSUME BaseInv, CompleteInv, status = "unsolvable",
                      NEW sol \in Plans(htn), ValidPlan(htn, sol)
               PROVE  FALSE
    BY DEF UnsolvableIsProven
  <2>1. sol \in Seq(SolutionSteps(htn)) /\ IsProblem(htn)
    BY PlansAssumption, AllKnown DEF BaseInv, IInv
  <2>2. Answered(sol)
    BY <2>1 DEF CompleteInv, PlanOf
  <2> QED
    BY <2>2 DEF Answered
<1> QED
  BY <1>1, CompleteInvariance, PTL

(* The plan that a search with the late goal test and without a heuristic  *)
(* value reports has the least g value of all plans of the problem, from   *)
(* the same two assumptions: reopening by f value loses no cheaper plan.   *)
THEOREM SolutionIsBest ==
  Spec /\ PruningIsSound /\ DeadEndIsSound => []SolutionIsOptimal
<1>1. BaseInv /\ CompleteInv => SolutionIsOptimal
  <2> SUFFICES ASSUME BaseInv, CompleteInv, status = "solved", bestFirst,
                      NEW sol \in Plans(htn), ValidPlan(htn, sol),
                      planG(htn, conf.gValue, sol) < gValue(node[tnSol])
               PROVE  FALSE
    BY DEF SolutionIsOptimal, bestFirst
  <2>1. sol \in Seq(SolutionSteps(htn)) /\ IsProblem(htn)
    BY PlansAssumption, AllKnown DEF BaseInv, IInv
  <2>2. Answered(sol)
    BY <2>1 DEF CompleteInv, PlanOf
  <2>3. tnSol # None
    BY DEF BaseInv, FlagsInv
  <2>4. spent(conf.gValue, node[tnSol]) <= planG(htn, conf.gValue, sol)
    BY <2>2, <2>3 DEF Answered
  <2>5. gValue(node[tnSol]) = spent(conf.gValue, node[tnSol])
    BY DEF gValue, spent
  <2>6. conf.gValue \in gValues
    BY AllKnown DEF ConfigType
  <2>7. planG(htn, conf.gValue, sol) \in Nat
    BY <2>1, <2>6, EntryWeights DEF PlanOf
  <2>8. spent(conf.gValue, node[tnSol]) \in Nat
    <3>1. NodeType(htn, node[tnSol])
      BY <2>2, <2>3, AllKnown DEF Answered, KnownNode
    <3> QED
      BY <2>6, <3>1, SpentType
  <2> QED
    BY <2>4, <2>5, <2>7, <2>8
<1> QED
  BY <1>1, CompleteInvariance, PTL
-----------------------------------------------------------------------------
(***************************************************************************)
(* The filter is sound.  Forward, progression meets only facts and actions *)
(* that the relaxed composition can have; backward from a goal node, it    *)
(* can compose the tasks of each node on the way.                          *)
(***************************************************************************)
FilterIsRelaxed(h) == \A n : DeadEnd(h, n) = filterUnreachable(h, n)

(* The filter drops only nodes from which no goal node can be reached.     *)
THEOREM FilterIsSound ==
  Spec /\ FilterIsRelaxed(htn) => []DeadEndIsSound
<1>1. Init /\ FilterIsRelaxed(htn) => DeadEndIsSound
  <2> SUFFICES ASSUME Init, FilterIsRelaxed(htn) PROVE DeadEndIsSound
    OBVIOUS
  <2>1. IsProblem(htn)
    BY SearchAssumption DEF Init
  <2> QED
    BY <2>1, FilterSoundness DEF DeadEndIsSound, FilterIsRelaxed
<1>2. ASSUME DeadEndIsSound, [Next]_vars PROVE DeadEndIsSound'
  <2>1. UNCHANGED <<htn, conf>>
    BY <1>2, ProblemStays
  <2> QED
    BY <1>2, <2>1 DEF DeadEndIsSound
<1> QED
  BY <1>1, <1>2, PTL DEF Spec

(* Without the visited list the search is complete and, where it is best   *)
(* first, optimal; nothing is assumed but that the filter is the one of    *)
(* the relaxed composition.                                                *)
THEOREM ExhaustiveSearchIsComplete ==
  Spec /\ conf.noVisitedCheck /\ FilterIsRelaxed(htn) =>
    [](UnsolvableIsProven /\ SolutionIsOptimal)
<1>1. conf.noVisitedCheck => PruningIsSound
  BY DEF PruningIsSound
<1> QED
  BY <1>1, FilterIsSound, UnsolvableIsRight, SolutionIsBest, PTL
-----------------------------------------------------------------------------
(***************************************************************************)
(* Totally ordered problems.  There the key of a node is its sequence of   *)
(* tasks, which tells all networks apart that progression makes.           *)
(***************************************************************************)
sequentialNodes(h) == {n \in SearchNodes(h) : SequentialNode(h, n)}

LEMMA SequentialIsCounted ==
  ASSUME NEW h, NEW n
  PROVE  n \in sequentialNodes(h) <=> n \in countedNodes(h) /\ SequentialNode(h, n)
BY DEF sequentialNodes, countedNodes, SequentialNode

LEMMA ObtainedIsSequential ==
  ASSUME NEW h, IsProblem(h), isTotallyOrdered(h), NEW n, obtained(h, n)
  PROVE  n \in sequentialNodes(h)
<1> DEFINE X == sequentialNodes(h)
<1>1. ASSUME NEW o \in X, NEW s \in applicableSteps(h, o), NEW k \in Nat
      PROVE  applyStep(h, o, s, k) \in X
  <2>1. o \in countedNodes(h) /\ SequentialNode(h, o) /\ s \in o.prim
    BY SequentialIsCounted DEF applicableSteps
  <2>2. applyStep(h, o, s, k) \in countedNodes(h) /\ SequentialNode(h, applyStep(h, o, s, k))
    BY <2>1, ApplyCounted, ApplySequential
  <2> QED
    BY <2>2, SequentialIsCounted
<1>2. ASSUME NEW o \in X, NEW d \in o.abs, NEW mi \in taskToMethods(h, o.task[d]), NEW k \in Nat,
             \A t \in Steps(o) : t[1] < k
      PROVE  decomposeStep(h, o, d, mi, k) \in X
  <2>1. o \in countedNodes(h) /\ SequentialNode(h, o) /\ NamedBefore(o, k)
    BY <1>2, SequentialIsCounted DEF NamedBefore
  <2>2. /\ decomposeStep(h, o, d, mi, k) \in countedNodes(h)
        /\ SequentialNode(h, decomposeStep(h, o, d, mi, k))
    BY <2>1, DecomposeCounted, DecomposeSequential
  <2> QED
    BY <2>2, SequentialIsCounted
<1>3. ASSUME NEW o \in X, NEW v \in Int PROVE [o EXCEPT !.fValue = v, !.pushed = TRUE] \in X
  <2> DEFINE p == withValue(o, v)
  <2>1. o \in countedNodes(h) /\ SequentialNode(h, o)
    BY SequentialIsCounted
  <2>2. p.succ = o.succ /\ Steps(p) = Steps(o) /\ p \in countedNodes(h)
    BY <2>1, PushCounted
  <2> HIDE DEF p
  <2>3. \E e, l : ListedBy(p, e, l)
    BY <2>1, <2>2 DEF SequentialNode, ListedBy
  <2>4. SequentialNode(h, p)
    BY <2>2, <2>3 DEF SequentialNode, countedNodes
  <2>5. p \in X
    BY <2>2, <2>4, SequentialIsCounted
  <2> QED
    BY <2>5 DEF p, withValue
<1>4. prepareTNi(h) \in X
  BY InitialCounted, InitialSequential, SequentialIsCounted
<1> HIDE DEF X
<1>5. progressionClosed(h, X)
  BY <1>1, <1>2, <1>3 DEF progressionClosed
<1> QED
  BY <1>4, <1>5 DEF obtained, leadsTo, X

(* The keys of insertVisi for such problems.                               *)
KeysAreSequences(h, c) ==
  \A n : VisitedKeys(h, c, n) = {keyOf(n, o) : o \in sequenceKeys(h, c, n)}

LEMMA SequentialPruning ==
  ASSUME IsProblem(htn), isTotallyOrdered(htn), KeysAreSequences(htn, conf)
  PROVE  PruningIsSound
<1> DEFINE keys(n) == VisitedKeys(htn, conf, n)
<1>1. \A n : keys(n) = {keyOf(n, o) : o \in sequenceKeys(htn, conf, n)}
  BY DEF KeysAreSequences
<1>2. ASSUME NEW n, NEW v, obtained(htn, n)
      PROVE  keys([n EXCEPT !.fValue = v, !.pushed = TRUE]) = keys(n)
  <2> DEFINE p == [n EXCEPT !.fValue = v, !.pushed = TRUE]
  <2>1. n \in SearchNodes(htn)
    BY <1>2, ObtainedIsSequential DEF sequentialNodes
  <2>2. /\ p.state = n.state /\ p.task = n.task /\ p.succ = n.succ /\ p.prim = n.prim
        /\ p.abs = n.abs /\ p.contained = n.contained
    BY <2>1 DEF SearchNodes
  <2> HIDE DEF p
  <2>3. sequenceKeys(htn, conf, p) = sequenceKeys(htn, conf, n)
    BY <2>2 DEF sequenceKeys, sequences, topSorts, to_dfs, smallestOpen, Steps, Unconstraint
  <2>4. \A o : keyOf(p, o) = keyOf(n, o)
    BY <2>2 DEF keyOf
  <2> HIDE DEF keys
  <2>5. keys(p) = keys(n)
    BY <1>1, <2>3, <2>4
  <2> QED
    BY <2>5 DEF p, keys
<1>3. ASSUME NEW n, NEW o, obtained(htn, n), obtained(htn, o), keys(n) \cap keys(o) # {}
      PROVE  SameSearchNode(n, o)
  <2>1. PICK x : x \in keys(n) /\ x \in keys(o)
    BY <1>3
  <2>2. PICK a \in sequenceKeys(htn, conf, n) : x = keyOf(n, a)
    BY <1>1, <2>1
  <2>3. PICK b \in sequenceKeys(htn, conf, o) : x = keyOf(o, b)
    BY <1>1, <2>1
  <2>4. n.state = o.state /\ n.contained = o.contained /\ a = b
    BY <2>2, <2>3 DEF keyOf
  <2>5. sequenceKeys(htn, conf, n) \cap sequenceKeys(htn, conf, o) # {}
    BY <2>4
  <2>6. SequentialNode(htn, n) /\ SequentialNode(htn, o)
    BY <1>3, ObtainedIsSequential DEF sequentialNodes
  <2>7. PICK e, l : ListedBy(n, e, l)
    BY <2>6 DEF SequentialNode
  <2>8. PICK e2, l2 : ListedBy(o, e2, l2)
    BY <2>6 DEF SequentialNode
  <2>9. lastTasks(n, e, l, l) = lastTasks(o, e2, l2, l2)
    BY <2>5, <2>6, <2>7, <2>8, KeyIsSequence
  <2>10. l = l2
    <3>1. l \in Nat /\ l2 \in Nat
      BY <2>7, <2>8 DEF ListedBy, ListOf
    <3>2. 1 .. l = 1 .. l2
      BY <2>9 DEF lastTasks
    <3> QED
      BY <3>1, <3>2
  <2>11. Cardinality(Steps(n)) = Cardinality(Steps(o))
    BY <2>7, <2>8, <2>10, SameSize
  <2>12. \E f : SameOrder(n, o, f)
    BY <2>7, <2>8, <2>9, ListedAlike
  <2> QED
    BY <2>4, <2>11, <2>12 DEF SameSearchNode, SameOrder
<1> QED
  BY <1>2, <1>3 DEF PruningIsSound

(* In a totally ordered problem the visited list needs no assumption: with *)
(* the keys insertVisi builds for it, and the filter of the relaxed        *)
(* composition, the answer is right and the plan of a best-first search is *)
(* a best one.                                                             *)
THEOREM TotalOrderIsComplete ==
  Spec /\ isTotallyOrdered(htn) /\ KeysAreSequences(htn, conf) /\ FilterIsRelaxed(htn) =>
    [](UnsolvableIsProven /\ SolutionIsOptimal)
<1>1. Init /\ isTotallyOrdered(htn) /\ KeysAreSequences(htn, conf) => PruningIsSound
  BY SequentialPruning, SearchAssumption DEF Init
<1> QED
  BY <1>1, FilterIsSound, UnsolvableIsRight, SolutionIsBest, PTL DEF Spec
=============================================================================
