-------------------------- MODULE NodeMemoryProofs --------------------------
(***************************************************************************)
(* Memory safety of the shared plan steps and solution steps: for every    *)
(* problem, any number of progressions and any order of deletions, every   *)
(* reference count is the number of pointers, and no pointer dangles.      *)
(* Then NodeMemory implements NodeValues.                                  *)
(***************************************************************************)
EXTENDS NodeMemory, IterationProofs, ProgressionNetworkProofs

(* Destructors run for owners that are gone.                               *)
DroppingGone ==
  \A p \in dropping :
    /\ p = <<p[1], p[2]>>
    /\ p[1] \notin DOMAIN object
    /\ \A i \in DOMAIN node : p[1] # <<i>>

HasFields ==
  /\ \A i \in DOMAIN node : {"prim", "abs", "solution"} \subseteq DOMAIN node[i]
  /\ \A o \in DOMAIN object : {"refs", "pointersToMe"} \subseteq DOMAIN object[o]

(* Names of later progression steps are fresh, and no name is null.        *)
NamesInUse ==
  /\ made \in 0 .. MaxProgressions
  /\ DOMAIN node \subseteq 0 .. made
  /\ DOMAIN object \subseteq StepNames
  /\ \A o \in DOMAIN object : o[1] <= made /\ o # NoSolution

Counted(o) == IsFiniteSet(PointersTo(o)) /\ object[o].pointersToMe = Cardinality(PointersTo(o))

IInv ==
  /\ htn \in Problems
  /\ NamesInUse
  /\ HasFields
  /\ DroppingGone
  /\ NothingDangles
  /\ \A o \in DOMAIN object : Counted(o)

-----------------------------------------------------------------------------
(* Owners of pointers: nodes are named by one number, steps by two.        *)
LEMMA NodesAreNoSteps == \A i, a, b : <<i>> # <<a, b>>
OBVIOUS

LEMMA PointersArePairs == ASSUME IInv, NEW p \in Pointers PROVE p = <<p[1], p[2]>>
<1>1. \A a, S : p \in {a} \X S => p = <<p[1], p[2]>>
  OBVIOUS
<1>2. CASE p \in UNION {{<<i>>} \X pointersOf(node[i]) : i \in DOMAIN node}
  BY <1>1, <1>2
<1>3. CASE p \in UNION {{o} \X object[o].refs : o \in DOMAIN object}
  BY <1>1, <1>3
<1>4. CASE p \in dropping
  BY <1>4 DEF IInv, DroppingGone
<1> QED
  BY <1>2, <1>3, <1>4 DEF Pointers

(* Who points to o.                                                        *)
LEMMA Membership ==
  ASSUME NEW q, NEW o
  PROVE  <<q, o>> \in Pointers <=>
           \/ \E i \in DOMAIN node : q = <<i>> /\ o \in pointersOf(node[i])
           \/ q \in DOMAIN object /\ o \in object[q].refs
           \/ <<q, o>> \in dropping
<1>1. \A a, S : <<q, o>> \in {a} \X S <=> q = a /\ o \in S
  OBVIOUS
<1>2. <<q, o>> \in UNION {{<<i>>} \X pointersOf(node[i]) : i \in DOMAIN node}
        <=> \E i \in DOMAIN node : <<q, o>> \in {<<i>>} \X pointersOf(node[i])
  OBVIOUS
<1>3. <<q, o>> \in UNION {{a} \X object[a].refs : a \in DOMAIN object}
        <=> \E a \in DOMAIN object : <<q, o>> \in {a} \X object[a].refs
  OBVIOUS
<1> QED
  BY <1>1, <1>2, <1>3 DEF Pointers

LEMMA MembershipAfter ==
  ASSUME NEW q, NEW o
  PROVE  <<q, o>> \in Pointers' <=>
           \/ \E i \in DOMAIN node' : q = <<i>> /\ o \in pointersOf(node'[i])
           \/ q \in DOMAIN object' /\ o \in object'[q].refs
           \/ <<q, o>> \in dropping'
<1>1. \A a, S : <<q, o>> \in {a} \X S <=> q = a /\ o \in S
  OBVIOUS
<1>2. <<q, o>> \in UNION {{<<i>>} \X pointersOf(node'[i]) : i \in DOMAIN node'}
        <=> \E i \in DOMAIN node' : <<q, o>> \in {<<i>>} \X pointersOf(node'[i])
  OBVIOUS
<1>3. <<q, o>> \in UNION {{a} \X object'[a].refs : a \in DOMAIN object'}
        <=> \E a \in DOMAIN object' : <<q, o>> \in {a} \X object'[a].refs
  OBVIOUS
<1> QED
  BY <1>1, <1>2, <1>3 DEF Pointers

(* Only a name of an object is pointed to, and its owner is not new.       *)
LEMMA OldOwners ==
  ASSUME IInv, dropping = {}, NEW p \in Pointers
  PROVE  /\ p[2] \in DOMAIN object
         /\ \A j \in Nat : p[1] # <<made + 1>> /\ p[1] # <<made + 1, j>>
<1>1. p[2] \in DOMAIN object
  BY DEF IInv, NothingDangles
<1>2. <<p[1], p[2]>> \in Pointers
  BY PointersArePairs
<1>3. made \in Nat
  BY MemoryAssumption DEF IInv, NamesInUse
<1>4. CASE \E i \in DOMAIN node : p[1] = <<i>> /\ p[2] \in pointersOf(node[i])
  BY <1>1, <1>3, <1>4, NodesAreNoSteps DEF IInv, NamesInUse
<1>5. CASE p[1] \in DOMAIN object
  <2>1. p[1] \in Nat \X Nat /\ p[1][1] <= made
    BY <1>5 DEF IInv, NamesInUse, StepNames
  <2> QED
    BY <1>1, <1>3, <2>1, NodesAreNoSteps
<1> QED
  BY <1>2, <1>4, <1>5, Membership
-----------------------------------------------------------------------------
(* The initial node points to the initial task, and nothing else does.     *)
LEMMA InitIInv == ASSUME Init PROVE IInv
<1> DEFINE o == <<0, 1>>
           r == [prepareTNi(htn) EXCEPT !.task = << >>, !.succ = << >>, !.solution = NoSolution]
<1>1. /\ DOMAIN node = {0} /\ node[0] = r /\ dropping = {} /\ made = 0 /\ htn \in Problems
      /\ DOMAIN object = {o} /\ object[o] = newPlanStep(htn.initialTask, {}, 1)
  BY DEF Init
<1>2. /\ {"prim", "abs", "solution"} \subseteq DOMAIN r
      /\ r.prim = {} /\ r.abs = {o} /\ r.solution = NoSolution
  BY DEF prepareTNi
<1>3. /\ {"refs", "pointersToMe"} \subseteq DOMAIN object[o]
      /\ object[o].refs = {} /\ object[o].pointersToMe = 1
  BY <1>1 DEF newPlanStep
<1> HIDE DEF r
<1>4. pointersOf(node[0]) = {o}
  BY <1>1, <1>2 DEF pointersOf
<1>5. Pointers = {<<<<0>>, o>>}
  BY <1>1, <1>3, <1>4 DEF Pointers
<1>6. PointersTo(o) = {<<<<0>>, o>>}
  BY <1>5 DEF PointersTo
<1>7. Counted(o)
  BY <1>3, <1>6, FS_Singleton DEF Counted
<1>8. NothingDangles
  BY <1>1, <1>5 DEF NothingDangles
<1>9. NamesInUse
  BY <1>1, MemoryAssumption DEF NamesInUse, StepNames, NoSolution
<1>10. HasFields /\ DroppingGone
  BY <1>1, <1>2, <1>3 DEF HasFields, DroppingGone
<1> QED
  BY <1>1, <1>7, <1>8, <1>9, <1>10 DEF IInv

(* What apply and decompose have in common: they make node n2 and the      *)
(* steps in N, and change only the counters of the others.                 *)
Allocates(n2, N) ==
  LET k == made + 1
  IN  /\ dropping = {} /\ dropping' = {}
      /\ made < MaxProgressions /\ made' = k /\ htn' = htn
      /\ {"prim", "abs", "solution"} \subseteq DOMAIN n2
      /\ node' = [j \in DOMAIN node \cup {k} |-> IF j = k THEN n2 ELSE node[j]]
      /\ <<k, 0>> \in N /\ N \subseteq {k} \X Nat
      /\ DOMAIN object' = DOMAIN object \cup N
      /\ \A o \in DOMAIN object' : {"refs", "pointersToMe"} \subseteq DOMAIN object'[o]
      /\ \A o \in DOMAIN object : object'[o].refs = object[o].refs

(* The new pointers to o come from the new node and the new steps.         *)
newPointers(n2, N, o) ==
  {p \in ({<<made + 1>>} \cup N) \X {o} :
     IF p[1] \in N THEN o \in object'[p[1]].refs ELSE o \in pointersOf(n2)}

LEMMA AllocatePointers ==
  ASSUME IInv, NEW n2, NEW N, Allocates(n2, N), NEW o
  PROVE  /\ PointersTo(o)' = PointersTo(o) \cup newPointers(n2, N, o)
         /\ PointersTo(o) \cap newPointers(n2, N, o) = {}
         /\ o \notin DOMAIN object => PointersTo(o) = {}
<1> DEFINE k == made + 1
<1>1. /\ made \in Nat /\ k \in Nat /\ k \notin DOMAIN node /\ dropping = {} /\ dropping' = {}
      /\ N \cap DOMAIN object = {} /\ N \subseteq Nat \X Nat
  BY MemoryAssumption DEF IInv, NamesInUse, Allocates, StepNames
<1>2. /\ DOMAIN node' = DOMAIN node \cup {k} /\ node'[k] = n2
      /\ \A i \in DOMAIN node : node'[i] = node[i]
  BY <1>1 DEF Allocates
<1>3. ASSUME NEW q
      PROVE  <<q, o>> \in Pointers' <=> <<q, o>> \in Pointers \/ <<q, o>> \in newPointers(n2, N, o)
  <2>1. <<q, o>> \in newPointers(n2, N, o) <=>
          \/ q = <<k>> /\ o \in pointersOf(n2)
          \/ q \in N /\ o \in object'[q].refs
    BY <1>1, NodesAreNoSteps DEF newPointers
  <2>2. (\E i \in DOMAIN node' : q = <<i>> /\ o \in pointersOf(node'[i])) <=>
          \/ \E i \in DOMAIN node : q = <<i>> /\ o \in pointersOf(node[i])
          \/ q = <<k>> /\ o \in pointersOf(n2)
    BY <1>1, <1>2
  <2>3. q \in DOMAIN object' /\ o \in object'[q].refs <=>
          \/ q \in DOMAIN object /\ o \in object[q].refs
          \/ q \in N /\ o \in object'[q].refs
    BY <1>1 DEF Allocates
  <2>4. /\ <<q, o>> \in Pointers' <=>
             \/ \E i \in DOMAIN node' : q = <<i>> /\ o \in pointersOf(node'[i])
             \/ q \in DOMAIN object' /\ o \in object'[q].refs
        /\ <<q, o>> \in Pointers <=>
             \/ \E i \in DOMAIN node : q = <<i>> /\ o \in pointersOf(node[i])
             \/ q \in DOMAIN object /\ o \in object[q].refs
    BY <1>1, Membership, MembershipAfter
  <2> QED
    BY <2>1, <2>2, <2>3, <2>4
<1>4. ASSUME NEW p, p \in Pointers' PROVE p = <<p[1], p[2]>>
  <2>1. \A a, S : p \in {a} \X S => p = <<p[1], p[2]>>
    OBVIOUS
  <2>2. Pointers' = (UNION {{<<i>>} \X pointersOf(node'[i]) : i \in DOMAIN node'})
                    \cup (UNION {{x} \X object'[x].refs : x \in DOMAIN object'})
    BY <1>1 DEF Pointers
  <2> QED
    BY <1>4, <2>1, <2>2
<1>5. ASSUME NEW p, p \in Pointers PROVE p = <<p[1], p[2]>>
  BY <1>5, PointersArePairs
<1>6. ASSUME NEW p, p \in newPointers(n2, N, o) PROVE p = <<p[1], o>> /\ p[2] = o
  BY <1>6 DEF newPointers
<1>7. PointersTo(o)' = PointersTo(o) \cup newPointers(n2, N, o)
  BY <1>3, <1>4, <1>5, <1>6 DEF PointersTo
<1>8. PointersTo(o) \cap newPointers(n2, N, o) = {}
  <2>1. SUFFICES ASSUME NEW p \in PointersTo(o), p \in newPointers(n2, N, o) PROVE FALSE
    OBVIOUS
  <2>2. p \in Pointers /\ (p[1] = <<k>> \/ p[1] \in N)
    BY <2>1 DEF PointersTo, newPointers
  <2>3. p[1] \in N => p[1] = <<k, p[1][2]>> /\ p[1][2] \in Nat
    BY DEF Allocates
  <2> QED
    BY <1>1, <2>2, <2>3, OldOwners
<1>9. o \notin DOMAIN object => PointersTo(o) = {}
  BY DEF PointersTo, IInv, NothingDangles
<1> QED
  BY <1>7, <1>8, <1>9

(* Such a step keeps the invariant if what is new points into the heap and *)
(* the counters are raised by the numbers of new pointers.                 *)
LEMMA AllocateIInv ==
  ASSUME IInv, NEW n2, NEW N, Allocates(n2, N),
         pointersOf(n2) \subseteq DOMAIN object',
         \A q \in N : object'[q].refs \subseteq DOMAIN object',
         \A o \in DOMAIN object' :
           /\ IsFiniteSet(newPointers(n2, N, o))
           /\ object'[o].pointersToMe = Cardinality(newPointers(n2, N, o)) +
                (IF o \in N THEN 0 ELSE object[o].pointersToMe)
  PROVE  IInv'
<1> DEFINE k == made + 1
<1>1. made \in Nat /\ k \in Nat /\ N \cap DOMAIN object = {} /\ N \subseteq Nat \X Nat
  BY MemoryAssumption DEF IInv, NamesInUse, Allocates, StepNames
<1>2. ASSUME NEW o \in DOMAIN object' PROVE Counted(o)'
  <2>1. /\ PointersTo(o)' = PointersTo(o) \cup newPointers(n2, N, o)
        /\ PointersTo(o) \cap newPointers(n2, N, o) = {}
        /\ o \notin DOMAIN object => PointersTo(o) = {}
    BY AllocatePointers
  <2>2. CASE o \in N
    <3>1. PointersTo(o)' = newPointers(n2, N, o)
      BY <1>1, <2>1, <2>2
    <3>2. Cardinality(newPointers(n2, N, o)) \in Nat
      BY FS_CardinalityType
    <3> QED
      BY <2>2, <3>1, <3>2 DEF Counted
  <2>3. CASE o \notin N
    <3>1. o \in DOMAIN object
      BY <2>3 DEF Allocates
    <3>2. IsFiniteSet(PointersTo(o)) /\ object[o].pointersToMe = Cardinality(PointersTo(o))
      BY <3>1 DEF IInv, Counted
    <3>3. /\ IsFiniteSet(PointersTo(o) \cup newPointers(n2, N, o))
          /\ Cardinality(PointersTo(o) \cup newPointers(n2, N, o)) =
               Cardinality(PointersTo(o)) + Cardinality(newPointers(n2, N, o)) - 0
      BY <2>1, <3>2, FS_Union, FS_EmptySet
    <3>4. Cardinality(newPointers(n2, N, o)) \in Nat /\ Cardinality(PointersTo(o)) \in Nat
      BY <3>2, FS_CardinalityType
    <3>5. object'[o].pointersToMe = Cardinality(newPointers(n2, N, o)) + object[o].pointersToMe
      BY <2>3
    <3> QED
      BY <2>1, <3>2, <3>3, <3>4, <3>5 DEF Counted
  <2> QED
    BY <2>2, <2>3
<1>3. NothingDangles'
  <2>1. SUFFICES ASSUME NEW p, p \in Pointers' PROVE p[2] \in DOMAIN object'
    BY DEF NothingDangles
  <2>2. p \in PointersTo(p[2])'
    BY <2>1 DEF PointersTo
  <2>3. CASE p \in PointersTo(p[2])
    BY <2>3 DEF PointersTo, IInv, NothingDangles, Allocates
  <2>4. CASE p \in newPointers(n2, N, p[2])
    BY <2>4 DEF newPointers
  <2> QED
    BY <2>2, <2>3, <2>4, AllocatePointers
<1>4. NamesInUse'
  <2>1. ASSUME NEW o \in N PROVE o[1] = k /\ o # NoSolution /\ o \in Nat \X Nat
    BY <1>1 DEF Allocates, NoSolution
  <2>2. DOMAIN node' \subseteq 0 .. k
    BY <1>1 DEF Allocates, IInv, NamesInUse
  <2>3. ASSUME NEW o \in DOMAIN object PROVE o[1] <= k /\ o # NoSolution /\ o \in Nat \X Nat
    BY <1>1 DEF IInv, NamesInUse, StepNames
  <2>4. made' = k /\ k \in 0 .. MaxProgressions
    BY <1>1, MemoryAssumption DEF Allocates
  <2> QED
    BY <1>1, <2>1, <2>2, <2>3, <2>4 DEF Allocates, NamesInUse, StepNames
<1>5. HasFields'
  BY DEF IInv, HasFields, Allocates
<1>6. DroppingGone' /\ htn' \in Problems
  BY DEF DroppingGone, Allocates, IInv
<1> QED
  BY <1>2, <1>3, <1>4, <1>5, <1>6 DEF IInv
-----------------------------------------------------------------------------
(* What nodes and steps point to is allocated.                             *)
LEMMA HeapClosed ==
  ASSUME IInv
  PROVE  /\ \A i \in DOMAIN node :
              /\ node[i].prim \cup node[i].abs \subseteq DOMAIN object
              /\ node[i].solution # NoSolution => node[i].solution \in DOMAIN object
         /\ \A o \in DOMAIN object : object[o].refs \subseteq DOMAIN object
<1>1. ASSUME NEW i \in DOMAIN node, NEW o \in pointersOf(node[i]) PROVE o \in DOMAIN object
  <2>1. <<<<i>>, o>> \in Pointers
    BY <1>1, Membership
  <2> QED
    BY <2>1 DEF IInv, NothingDangles
<1>2. ASSUME NEW q \in DOMAIN object, NEW o \in object[q].refs PROVE o \in DOMAIN object
  <2>1. <<q, o>> \in Pointers
    BY <1>2, Membership
  <2> QED
    BY <2>1 DEF IInv, NothingDangles
<1> QED
  BY <1>1, <1>2 DEF pointersOf

(* A set with at most the two elements x and y.                            *)
LEMMA AtMostTwo ==
  ASSUME NEW x, NEW y, x # y, NEW S \in SUBSET {x, y}
  PROVE  /\ IsFiniteSet(S)
         /\ Cardinality(S) = (IF x \in S THEN 1 ELSE 0) + (IF y \in S THEN 1 ELSE 0)
<1>1. /\ IsFiniteSet({x}) /\ Cardinality({x}) = 1 /\ IsFiniteSet({}) /\ Cardinality({}) = 0
      /\ IsFiniteSet({y}) /\ Cardinality({y}) = 1
  BY FS_Singleton, FS_EmptySet
<1>2. IsFiniteSet({x, y}) /\ Cardinality({x, y}) = 2
  <2>1. {x} \cap {y} = {} /\ {x} \cup {y} = {x, y}
    OBVIOUS
  <2> QED
    BY <1>1, <2>1, FS_Union
<1>3. CASE x \in S /\ y \in S
  <2>1. S = {x, y}
    BY <1>3
  <2> QED
    BY <1>2, <1>3, <2>1
<1>4. CASE x \in S /\ y \notin S
  <2>1. S = {x}
    BY <1>4
  <2> QED
    BY <1>1, <1>4, <2>1
<1>5. CASE x \notin S /\ y \in S
  <2>1. S = {y}
    BY <1>5
  <2> QED
    BY <1>1, <1>5, <2>1
<1>6. CASE x \notin S /\ y \notin S
  <2>1. S = {}
    BY <1>6
  <2> QED
    BY <1>1, <1>6, <2>1
<1> QED
  BY <1>3, <1>4, <1>5, <1>6

(* Model::apply: what is allocated and what the counters become.           *)
LEMMA ApplyAllocates ==
  ASSUME IInv, NEW i \in DOMAIN node, NEW s \in node[i].prim, Apply(i, s)
  PROVE  LET n  == node[i]
             k  == made + 1
             n2 == node'[k]
             e  == object'[<<k, 0>>]
         IN  /\ Allocates(n2, {<<k, 0>>})
             /\ pointersOf(n2) = n2.prim \cup n2.abs \cup {<<k, 0>>}
             /\ n2.prim \cup n2.abs \subseteq DOMAIN object
             /\ e.refs = (IF n.solution = NoSolution THEN {} ELSE {n.solution})
             /\ e.refs \subseteq DOMAIN object
             /\ e.pointersToMe = 1
             /\ \A o \in DOMAIN object : object'[o].pointersToMe = counted(n2, n.solution, o)
<1> DEFINE n     == node[i]
           k     == made + 1
           a     == object[s].task
           first == potentiallyFirstSteps(n, s)
           count == updateTaskCounterA(n, a)
           after == (n.state \ htn.del[a]) \cup htn.add[a]
           prim2 == (n.prim \ {s}) \cup {t \in first : isPrimitive(htn, object[t].task)}
           abs2  == n.abs \cup {t \in first : ~ isPrimitive(htn, object[t].task)}
           n2    == [n EXCEPT !.state = after,
                              !.prim = (@ \ {s}) \cup {t \in first : isPrimitive(htn, object[t].task)},
                              !.abs = @ \cup {t \in first : ~ isPrimitive(htn, object[t].task)},
                              !.contained = count.tasks,
                              !.numContained = count.num,
                              !.solution = <<k, 0>>,
                              !.actionCosts = @ + htn.cost[a],
                              !.modificationDepth = @ + 1,
                              !.mixedModificationDepth = @ + htn.cost[a]]
           N     == {<<k, 0>>}
           e     == newSolutionStep(a, 0, s, after, n.solution)
<1>1. /\ dropping = {} /\ dropping' = {} /\ made < MaxProgressions /\ made' = k /\ htn' = htn
      /\ node' = [j \in DOMAIN node \cup {k} |-> IF j = k THEN n2 ELSE node[j]]
      /\ object' = [o \in DOMAIN object \cup {<<k, 0>>} |->
                      IF o = <<k, 0>> THEN e
                      ELSE [object[o] EXCEPT !.pointersToMe = counted(n2, n.solution, o)]]
  BY DEF Apply
<1>2. made \in Nat /\ k \in Nat /\ k # 0 /\ <<k, 0>> \notin DOMAIN object
  BY MemoryAssumption DEF IInv, NamesInUse
<1>3. {"prim", "abs", "solution"} \subseteq DOMAIN n
  BY DEF IInv, HasFields
<1>4. /\ {"prim", "abs", "solution"} \subseteq DOMAIN n2
      /\ n2.prim = prim2 /\ n2.abs = abs2 /\ n2.solution = <<k, 0>>
  <2> HIDE DEF n, first, count, after, a, k
  <2> QED
    BY <1>3
<1>5. /\ n.prim \cup n.abs \subseteq DOMAIN object
      /\ n.solution # NoSolution => n.solution \in DOMAIN object
      /\ s \in DOMAIN object /\ object[s].refs \subseteq DOMAIN object
  BY HeapClosed
<1>6. n2.prim \cup n2.abs \subseteq DOMAIN object
  <2>1. first \subseteq object[s].refs
    BY DEF potentiallyFirstSteps
  <2> HIDE DEF first, n2
  <2> QED
    BY <1>4, <1>5, <2>1
<1>7. /\ {"refs", "pointersToMe"} \subseteq DOMAIN e
      /\ e.refs = (IF n.solution = NoSolution THEN {} ELSE {n.solution}) /\ e.pointersToMe = 1
  BY DEF newSolutionStep
<1> HIDE DEF n2, e
<1>8. /\ DOMAIN object' = DOMAIN object \cup N /\ object'[<<k, 0>>] = e
      /\ \A o \in DOMAIN object :
           /\ {"refs", "pointersToMe"} \subseteq DOMAIN object'[o]
           /\ object'[o].refs = object[o].refs
           /\ object'[o].pointersToMe = counted(n2, n.solution, o)
  <2>1. \A o \in DOMAIN object : {"refs", "pointersToMe"} \subseteq DOMAIN object[o]
    BY DEF IInv, HasFields
  <2>2. \A o \in DOMAIN object :
          object'[o] = [object[o] EXCEPT !.pointersToMe = counted(n2, n.solution, o)]
    BY <1>1, <1>2
  <2> QED
    BY <1>1, <2>1, <2>2
<1>9. Allocates(n2, N)
  BY <1>1, <1>2, <1>4, <1>7, <1>8 DEF Allocates
<1>10. pointersOf(n2) = n2.prim \cup n2.abs \cup {<<k, 0>>}
  BY <1>2, <1>4 DEF pointersOf, NoSolution
<1>11. node'[k] = n2
  BY <1>1
<1> QED
  BY <1>5, <1>6, <1>7, <1>8, <1>9, <1>10, <1>11

LEMMA ApplyIInv ==
  ASSUME IInv, NEW i \in DOMAIN node, NEW s \in node[i].prim, Apply(i, s)
  PROVE  IInv'
<1> DEFINE n  == node[i]
           k  == made + 1
           n2 == node'[k]
           e  == object'[<<k, 0>>]
           N  == {<<k, 0>>}
<1>1. /\ Allocates(n2, N)
      /\ pointersOf(n2) = n2.prim \cup n2.abs \cup {<<k, 0>>}
      /\ n2.prim \cup n2.abs \subseteq DOMAIN object
      /\ e.refs = (IF n.solution = NoSolution THEN {} ELSE {n.solution})
      /\ e.refs \subseteq DOMAIN object
      /\ e.pointersToMe = 1
      /\ \A o \in DOMAIN object : object'[o].pointersToMe = counted(n2, n.solution, o)
  BY ApplyAllocates
<1>2. made \in Nat /\ k \in Nat /\ k # 0 /\ <<k, 0>> \notin DOMAIN object
  BY MemoryAssumption DEF IInv, NamesInUse
<1>3. DOMAIN object' = DOMAIN object \cup N
  BY <1>1 DEF Allocates
<1> HIDE DEF n2, e
<1>4. pointersOf(n2) \subseteq DOMAIN object'
  BY <1>1, <1>3
<1>5. ASSUME NEW o \in DOMAIN object'
       PROVE  /\ IsFiniteSet(newPointers(n2, N, o))
              /\ object'[o].pointersToMe = Cardinality(newPointers(n2, N, o)) +
                   (IF o \in N THEN 0 ELSE object[o].pointersToMe)
  <2>1. CASE o = <<k, 0>>
    <3>1. newPointers(n2, N, o) = {<<<<k>>, o>>}
      BY <1>1, <1>2, <1>3, <2>1, NodesAreNoSteps DEF newPointers, e
    <3>2. /\ IsFiniteSet(newPointers(n2, N, o))
          /\ Cardinality(newPointers(n2, N, o)) = 1
      BY <3>1, FS_Singleton
    <3>3. object'[o].pointersToMe = 1 /\ o \in N
      BY <1>1, <2>1 DEF e
    <3> QED
      BY <3>2, <3>3
  <2>2. CASE o # <<k, 0>>
    <3> DEFINE A == o \in n2.prim \cup n2.abs
               B == o = n.solution
    <3>1. o \in DOMAIN object /\ o # NoSolution
      BY <1>3, <2>2 DEF IInv, NamesInUse
    <3>2. newPointers(n2, N, o) \in SUBSET {<<<<k>>, o>>, <<<<k, 0>>, o>>}
      BY DEF newPointers
    <3>3. /\ <<<<k>>, o>> \in newPointers(n2, N, o) <=> A
          /\ <<<<k, 0>>, o>> \in newPointers(n2, N, o) <=> B
      BY <1>1, <1>3, <2>2, <3>1, NodesAreNoSteps DEF newPointers, e
    <3>4. /\ IsFiniteSet(newPointers(n2, N, o))
          /\ Cardinality(newPointers(n2, N, o)) = (IF A THEN 1 ELSE 0) + (IF B THEN 1 ELSE 0)
      <4> HIDE DEF A, B
      <4> DEFINE x == <<<<k>>, o>>
                 y == <<<<k, 0>>, o>>
                 S == newPointers(n2, N, o)
      <4>1. x # y
        BY NodesAreNoSteps
      <4>2. S \in SUBSET {x, y}
        BY <3>2
      <4>3. (x \in S <=> A) /\ (y \in S <=> B)
        BY <3>3
      <4> HIDE DEF x, y, S
      <4>4. /\ IsFiniteSet(S)
            /\ Cardinality(S) = (IF x \in S THEN 1 ELSE 0) + (IF y \in S THEN 1 ELSE 0)
        BY <4>1, <4>2, AtMostTwo
      <4>5. IsFiniteSet(S) /\ Cardinality(S) = (IF A THEN 1 ELSE 0) + (IF B THEN 1 ELSE 0)
        BY <4>3, <4>4
      <4> QED
        BY <4>5 DEF S
    <3>5. object[o].pointersToMe \in Nat
      BY <3>1, FS_CardinalityType DEF IInv, Counted
    <3>6. object'[o].pointersToMe = object[o].pointersToMe + (IF A THEN 1 ELSE 0)
                                                           + (IF B THEN 1 ELSE 0)
      BY <1>1, <3>1 DEF counted
    <3>7. o \notin N
      BY <2>2
    <3> HIDE DEF A, B, N
    <3> QED
      BY <3>4, <3>5, <3>6, <3>7
  <2> QED
    BY <2>1, <2>2
<1>6. \A q \in N : object'[q].refs \subseteq DOMAIN object'
  BY <1>1, <1>3 DEF e
<1> QED
  BY <1>1, <1>4, <1>5, <1>6, AllocateIInv

(* The positions of a method, numbered from one.                           *)
LEMMA MethodFacts ==
  ASSUME htn \in Problems, NEW t, NEW mi \in taskToMethods(htn, t)
  PROVE  LET m == htn.methods[mi]
         IN  /\ Positions(m) \subseteq Nat \ {0} /\ IsFiniteSet(Positions(m))
             /\ \A j : /\ IsFiniteSet(Predecessors(m, j)) /\ Predecessors(m, j) \subseteq Positions(m)
                       /\ Successors(m, j) \subseteq Positions(m)
             /\ IsFiniteSet(LastTasks(m)) /\ LastTasks(m) \subseteq Positions(m)
             /\ FirstTasks(m) \subseteq Positions(m)
<1> DEFINE m == htn.methods[mi]
<1>1. m.subs \in Seq(Tasks(htn))
  BY MemoryAssumption DEF IsProblem, IsMethod, taskToMethods, Methods
<1>2. Positions(m) = 1 .. Len(m.subs) /\ Len(m.subs) \in Nat
  BY <1>1 DEF Positions
<1>3. IsFiniteSet(Positions(m)) /\ Positions(m) \subseteq Nat \ {0}
  <2>1. \A b \in Nat : IsFiniteSet(1 .. b)
    BY FS_Interval
  <2> QED
    BY <1>2, <2>1
<1> HIDE DEF m
<1>4. /\ LastTasks(m) \subseteq Positions(m) /\ FirstTasks(m) \subseteq Positions(m)
      /\ \A j : Predecessors(m, j) \subseteq Positions(m) /\ Successors(m, j) \subseteq Positions(m)
  BY DEF LastTasks, FirstTasks, Predecessors, Successors
<1>5. IsFiniteSet(LastTasks(m)) /\ \A j : IsFiniteSet(Predecessors(m, j))
  BY <1>3, <1>4, FS_Subset
<1> QED
  BY <1>3, <1>4, <1>5 DEF m

(* Pointers from several steps of one progression to the same target.      *)
pointersFrom(k, Q, o) == {<<<<k, q>>, o>> : q \in Q}

LEMMA PointersFrom ==
  ASSUME NEW k, NEW o, NEW Q, IsFiniteSet(Q)
  PROVE  /\ IsFiniteSet(pointersFrom(k, Q, o))
         /\ Cardinality(pointersFrom(k, Q, o)) = Cardinality(Q)
<1> DEFINE T == pointersFrom(k, Q, o)
<1>1. [q \in Q |-> <<<<k, q>>, o>>] \in Bijection(Q, T)
  BY DEF pointersFrom, Bijection, Injection, IsInjective, Surjection
<1>2. ExistsBijection(Q, T)
  BY <1>1 DEF ExistsBijection
<1> QED
  BY <1>2, FS_Bijection

(* Model::decompose: what is allocated and what the counters become.       *)
LEMMA DecomposeAllocates ==
  ASSUME IInv, NEW i \in DOMAIN node, NEW d \in node[i].abs,
         NEW mi \in taskToMethods(htn, object[d].task), Decompose(i, d, mi)
  PROVE  LET n     == node[i]
             m     == htn.methods[mi]
             k     == made + 1
             n2    == node'[k]
             e     == object'[<<k, 0>>]
             first == {<<k, j>> : j \in FirstTasks(m)}
             N     == {<<k, 0>>} \cup newSteps(m, k)
         IN  /\ Allocates(n2, N)
             /\ pointersOf(n2) = n2.prim \cup n2.abs \cup {<<k, 0>>}
             /\ n2.prim \cup n2.abs \subseteq DOMAIN object \cup first
             /\ first \subseteq n2.prim \cup n2.abs
             /\ e.refs = (IF n.solution = NoSolution THEN {} ELSE {n.solution})
             /\ e.pointersToMe = 1
             /\ \A j \in Positions(m) :
                  LET x == object'[<<k, j>>]
                  IN  /\ x.refs = IF j \in LastTasks(m) THEN object[d].refs
                                  ELSE {<<k, q>> : q \in Successors(m, j)}
                      /\ x.pointersToMe = Cardinality(Predecessors(m, j)) +
                                            (IF j \in FirstTasks(m) THEN 1 ELSE 0)
             /\ \A o \in DOMAIN object :
                  object'[o].pointersToMe = counted(n2, n.solution, o) + inherited(m, d, o)
<1> DEFINE n     == node[i]
           m     == htn.methods[mi]
           k     == made + 1
           first == {<<k, j>> : j \in FirstTasks(m)}
           count == updateTaskCounterM(n, m)
           prim2 == n.prim \cup {t \in first : isPrimitive(htn, m.subs[t[2]])}
           abs2  == (n.abs \ {d}) \cup {t \in first : ~ isPrimitive(htn, m.subs[t[2]])}
           n2    == [n EXCEPT !.prim = @ \cup {t \in first : isPrimitive(htn, m.subs[t[2]])},
                              !.abs = (@ \ {d}) \cup {t \in first : ~ isPrimitive(htn, m.subs[t[2]])},
                              !.contained = count.tasks,
                              !.numContained = count.num,
                              !.solution = <<k, 0>>,
                              !.modificationDepth = @ + 1,
                              !.mixedModificationDepth = @ + 1]
           N     == {<<k, 0>>} \cup newSteps(m, k)
           e     == newSolutionStep(m.task, mi, d, n.state, n.solution)
           old(o) == [object[o] EXCEPT !.pointersToMe =
                        counted(n2, n.solution, o) + inherited(m, d, o)]
<1>1. /\ dropping = {} /\ dropping' = {} /\ made < MaxProgressions /\ made' = k /\ htn' = htn
      /\ node' = [j \in DOMAIN node \cup {k} |-> IF j = k THEN n2 ELSE node[j]]
      /\ object' = [o \in DOMAIN object \cup {<<k, 0>>} \cup newSteps(m, k) |->
                      IF o = <<k, 0>> THEN e
                      ELSE IF o \in newSteps(m, k) THEN methodStep(m, d, k, o[2])
                      ELSE old(o)]
  BY DEF Decompose
<1>2. /\ made \in Nat /\ k \in Nat /\ k # 0
      /\ \A o \in DOMAIN object : o \in Nat \X Nat /\ o[1] # k
  BY MemoryAssumption DEF IInv, NamesInUse, StepNames
<1>3. /\ Positions(m) \subseteq Nat \ {0}
      /\ \A j : /\ IsFiniteSet(Predecessors(m, j)) /\ Predecessors(m, j) \subseteq Positions(m)
                /\ Successors(m, j) \subseteq Positions(m)
      /\ IsFiniteSet(LastTasks(m)) /\ LastTasks(m) \subseteq Positions(m)
      /\ FirstTasks(m) \subseteq Positions(m)
  BY MethodFacts DEF IInv
<1>4. {"prim", "abs", "solution"} \subseteq DOMAIN n
  BY DEF IInv, HasFields
<1>5. /\ {"prim", "abs", "solution"} \subseteq DOMAIN n2
      /\ n2.prim = prim2 /\ n2.abs = abs2 /\ n2.solution = <<k, 0>>
  <2> HIDE DEF n, first, count, m, k
  <2> QED
    BY <1>4
<1>6. /\ n.prim \cup n.abs \subseteq DOMAIN object
      /\ n.solution # NoSolution => n.solution \in DOMAIN object
      /\ d \in DOMAIN object /\ object[d].refs \subseteq DOMAIN object
  BY HeapClosed
<1>7. /\ {"refs", "pointersToMe"} \subseteq DOMAIN e
      /\ e.refs = (IF n.solution = NoSolution THEN {} ELSE {n.solution}) /\ e.pointersToMe = 1
  BY DEF newSolutionStep
<1>8. ASSUME NEW j
      PROVE  LET x == methodStep(m, d, k, j)
             IN  /\ {"refs", "pointersToMe"} \subseteq DOMAIN x
                 /\ x.refs = IF j \in LastTasks(m) THEN object[d].refs
                             ELSE {<<k, q>> : q \in Successors(m, j)}
                 /\ x.pointersToMe = Cardinality(Predecessors(m, j)) +
                                       (IF j \in FirstTasks(m) THEN 1 ELSE 0)
  BY DEF methodStep, newPlanStep
<1> HIDE DEF n2, e, m, n
<1>9. ASSUME NEW o \in DOMAIN object
      PROVE  /\ {"refs", "pointersToMe"} \subseteq DOMAIN old(o)
             /\ old(o).refs = object[o].refs
             /\ old(o).pointersToMe = counted(n2, n.solution, o) + inherited(m, d, o)
  BY DEF IInv, HasFields
<1> HIDE DEF old
<1>10. /\ N \subseteq {k} \X Nat /\ <<k, 0>> \in N /\ N \cap DOMAIN object = {}
       /\ newSteps(m, k) \subseteq N /\ <<k, 0>> \notin newSteps(m, k)
       /\ \A j : <<k, j>> \in newSteps(m, k) <=> j \in Positions(m)
  BY <1>2, <1>3 DEF newSteps
<1>11. /\ DOMAIN object' = DOMAIN object \cup N
       /\ object'[<<k, 0>>] = e
       /\ \A j \in Positions(m) : object'[<<k, j>>] = methodStep(m, d, k, j)
       /\ \A o \in DOMAIN object : object'[o] = old(o)
  BY <1>1, <1>2, <1>10
<1>12. ASSUME NEW o \in newSteps(m, k)
       PROVE  \E j \in Positions(m) : o = <<k, j>>
  BY DEF newSteps
<1>13. Allocates(n2, N)
  <2>1. \A o \in DOMAIN object' : {"refs", "pointersToMe"} \subseteq DOMAIN object'[o]
    <3>1. SUFFICES ASSUME NEW o \in DOMAIN object'
                   PROVE  {"refs", "pointersToMe"} \subseteq DOMAIN object'[o]
      OBVIOUS
    <3>2. CASE o = <<k, 0>>
      BY <1>7, <1>11, <3>2
    <3>3. CASE o \in newSteps(m, k)
      <4>1. PICK j \in Positions(m) : o = <<k, j>>
        BY <1>12, <3>3
      <4>2. object'[o] = methodStep(m, d, k, j)
        BY <1>11, <4>1
      <4> QED
        BY <1>8, <4>2
    <3>4. CASE o \in DOMAIN object
      BY <1>9, <1>11, <3>4
    <3> QED
      BY <1>11, <3>1, <3>2, <3>3, <3>4
  <2>2. \A o \in DOMAIN object : object'[o].refs = object[o].refs
    BY <1>9, <1>11
  <2> QED
    BY <1>1, <1>5, <1>10, <1>11, <2>1, <2>2 DEF Allocates
<1>14. pointersOf(n2) = n2.prim \cup n2.abs \cup {<<k, 0>>}
  BY <1>2, <1>5 DEF pointersOf, NoSolution
<1>15. /\ n2.prim \cup n2.abs \subseteq DOMAIN object \cup first
       /\ first \subseteq n2.prim \cup n2.abs
       /\ first \subseteq newSteps(m, k)
       /\ \A j : <<k, j>> \in first <=> j \in FirstTasks(m)
  BY <1>3, <1>5, <1>6, <1>10 DEF n
<1> HIDE DEF prim2, abs2
<1>16. node'[k] = n2
  BY <1>1
<1>17. \A j \in Positions(m) :
         /\ object'[<<k, j>>].refs = IF j \in LastTasks(m) THEN object[d].refs
                                     ELSE {<<k, q>> : q \in Successors(m, j)}
         /\ object'[<<k, j>>].pointersToMe = Cardinality(Predecessors(m, j)) +
                                             (IF j \in FirstTasks(m) THEN 1 ELSE 0)
  BY <1>8, <1>11
<1>18. \A o \in DOMAIN object :
         object'[o].pointersToMe = counted(n2, n.solution, o) + inherited(m, d, o)
  BY <1>9, <1>11
<1> QED
  BY <1>7, <1>11, <1>13, <1>14, <1>15, <1>16, <1>17, <1>18 DEF m, n

(* Model::decompose.                                                       *)
LEMMA DecomposeIInv ==
  ASSUME IInv, NEW i \in DOMAIN node, NEW d \in node[i].abs,
         NEW mi \in taskToMethods(htn, object[d].task), Decompose(i, d, mi)
  PROVE  IInv'
<1> DEFINE n     == node[i]
           m     == htn.methods[mi]
           k     == made + 1
           first == {<<k, j>> : j \in FirstTasks(m)}
           n2    == node'[k]
           N     == {<<k, 0>>} \cup newSteps(m, k)
           e     == object'[<<k, 0>>]
<1>1. /\ Allocates(n2, N)
      /\ pointersOf(n2) = n2.prim \cup n2.abs \cup {<<k, 0>>}
      /\ n2.prim \cup n2.abs \subseteq DOMAIN object \cup first
      /\ first \subseteq n2.prim \cup n2.abs
      /\ e.refs = (IF n.solution = NoSolution THEN {} ELSE {n.solution})
      /\ e.pointersToMe = 1
      /\ \A j \in Positions(m) :
           LET x == object'[<<k, j>>]
           IN  /\ x.refs = IF j \in LastTasks(m) THEN object[d].refs
                           ELSE {<<k, q>> : q \in Successors(m, j)}
               /\ x.pointersToMe = Cardinality(Predecessors(m, j)) +
                                     (IF j \in FirstTasks(m) THEN 1 ELSE 0)
      /\ \A o \in DOMAIN object :
           object'[o].pointersToMe = counted(n2, n.solution, o) + inherited(m, d, o)
  BY DecomposeAllocates
<1>2. /\ made \in Nat /\ k \in Nat /\ k # 0
      /\ \A o \in DOMAIN object : o \in Nat \X Nat /\ o[1] # k
  BY MemoryAssumption DEF IInv, NamesInUse, StepNames
<1>3. /\ Positions(m) \subseteq Nat \ {0}
      /\ \A j : /\ IsFiniteSet(Predecessors(m, j)) /\ Predecessors(m, j) \subseteq Positions(m)
                /\ Successors(m, j) \subseteq Positions(m)
      /\ IsFiniteSet(LastTasks(m)) /\ LastTasks(m) \subseteq Positions(m)
      /\ FirstTasks(m) \subseteq Positions(m)
  BY MethodFacts DEF IInv
<1>4. /\ n.prim \cup n.abs \subseteq DOMAIN object
      /\ n.solution # NoSolution => n.solution \in DOMAIN object
      /\ d \in DOMAIN object /\ object[d].refs \subseteq DOMAIN object
  BY HeapClosed
<1> HIDE DEF n2, e, m, n
<1>5. /\ N \subseteq {k} \X Nat /\ <<k, 0>> \in N /\ N \cap DOMAIN object = {}
       /\ newSteps(m, k) \subseteq N /\ <<k, 0>> \notin newSteps(m, k)
       /\ \A j : <<k, j>> \in newSteps(m, k) <=> j \in Positions(m)
  BY <1>2, <1>3 DEF newSteps
<1>6. DOMAIN object' = DOMAIN object \cup N
  BY <1>1 DEF Allocates
<1>7. ASSUME NEW o \in newSteps(m, k)
       PROVE  \E j \in Positions(m) : o = <<k, j>>
  BY DEF newSteps
<1>8. first \subseteq newSteps(m, k) /\ \A j : <<k, j>> \in first <=> j \in FirstTasks(m)
  BY <1>3, <1>5
<1> HIDE DEF first
<1>9. pointersOf(n2) \subseteq DOMAIN object' /\ e.refs \subseteq DOMAIN object
  BY <1>4, <1>1, <1>5, <1>6, <1>8
<1>10. ASSUME NEW q \in N PROVE object'[q].refs \subseteq DOMAIN object'
  <2>1. CASE q = <<k, 0>>
    BY <1>6, <1>9, <2>1 DEF e
  <2>2. CASE q \in newSteps(m, k)
    <3>1. PICK j \in Positions(m) : q = <<k, j>>
      BY <1>7, <2>2
    <3>2. {<<k, x>> : x \in Successors(m, j)} \subseteq newSteps(m, k)
      BY <1>3 DEF newSteps
    <3>3. object'[q].refs = IF j \in LastTasks(m) THEN object[d].refs
                            ELSE {<<k, x>> : x \in Successors(m, j)}
      BY <1>1, <1>6, <3>1
    <3>4. object[d].refs \subseteq DOMAIN object' /\ newSteps(m, k) \subseteq DOMAIN object'
      BY <1>4, <1>5, <1>6
    <3> QED
      BY <3>2, <3>3, <3>4
  <2> QED
    BY <2>1, <2>2
<1>11. ASSUME NEW o, NEW p
       PROVE  p \in newPointers(n2, N, o) <=>
                \/ p = <<<<k>>, o>> /\ o \in pointersOf(n2)
                \/ p = <<<<k, 0>>, o>> /\ o \in e.refs
                \/ \E j \in LastTasks(m) : p = <<<<k, j>>, o>> /\ o \in object[d].refs
                \/ \E j \in Positions(m) \ LastTasks(m) :
                     p = <<<<k, j>>, o>> /\ \E x \in Successors(m, j) : o = <<k, x>>
  <2>1. <<k>> \notin N
    BY <1>5, NodesAreNoSteps
  <2>2. p \in newPointers(n2, N, o) <=>
          \/ p = <<<<k>>, o>> /\ o \in pointersOf(n2)
          \/ \E q \in N : p = <<q, o>> /\ o \in object'[q].refs
    BY <2>1 DEF newPointers
  <2>3. (\E q \in N : p = <<q, o>> /\ o \in object'[q].refs) <=>
          \/ p = <<<<k, 0>>, o>> /\ o \in e.refs
          \/ \E j \in Positions(m) : p = <<<<k, j>>, o>> /\ o \in object'[<<k, j>>].refs
    BY <1>5, <1>6, <1>7 DEF e
  <2>4. ASSUME NEW j \in Positions(m)
        PROVE  o \in object'[<<k, j>>].refs <=>
                 IF j \in LastTasks(m) THEN o \in object[d].refs
                 ELSE \E x \in Successors(m, j) : o = <<k, x>>
    <3>1. object'[<<k, j>>].refs =
            IF j \in LastTasks(m) THEN object[d].refs ELSE {<<k, q>> : q \in Successors(m, j)}
      BY <1>1, <1>6
    <3> QED
      BY <3>1
  <2>5. (\E j \in Positions(m) : p = <<<<k, j>>, o>> /\ o \in object'[<<k, j>>].refs) <=>
          \/ \E j \in LastTasks(m) : p = <<<<k, j>>, o>> /\ o \in object[d].refs
          \/ \E j \in Positions(m) \ LastTasks(m) :
               p = <<<<k, j>>, o>> /\ \E x \in Successors(m, j) : o = <<k, x>>
    BY <1>3, <2>4
  <2> QED
    BY <2>2, <2>3, <2>5
<1>12. ASSUME NEW o \in DOMAIN object'
       PROVE  /\ IsFiniteSet(newPointers(n2, N, o))
              /\ object'[o].pointersToMe = Cardinality(newPointers(n2, N, o)) +
                   (IF o \in N THEN 0 ELSE object[o].pointersToMe)
  <2>1. CASE o = <<k, 0>>
    <3>1. /\ o \notin DOMAIN object /\ o \notin newSteps(m, k) /\ o \in pointersOf(n2)
          /\ \A j, x : x \in Successors(m, j) => o # <<k, x>>
      BY <1>3, <1>5, <1>1, <2>1
    <3>2. newPointers(n2, N, o) = {<<<<k>>, o>>}
      <4>1. o \notin e.refs /\ o \notin object[d].refs
        BY <1>4, <1>9, <3>1
      <4>2. \A p : p \in newPointers(n2, N, o) <=> p = <<<<k>>, o>>
        BY <1>11, <3>1, <4>1
      <4> QED
        BY <4>2
    <3>3. /\ IsFiniteSet(newPointers(n2, N, o))
          /\ Cardinality(newPointers(n2, N, o)) = 1
      BY <3>2, FS_Singleton
    <3>4. object'[o].pointersToMe = 1 /\ o \in N
      BY <1>1, <1>6, <2>1 DEF e
    <3> QED
      BY <3>3, <3>4
  <2>2. CASE o \in newSteps(m, k)
    <3>1. PICK j \in Positions(m) : o = <<k, j>>
      BY <1>7, <2>2
    <3>2. /\ o \notin DOMAIN object /\ o # <<k, 0>> /\ o \in N
          /\ o \in pointersOf(n2) <=> j \in FirstTasks(m)
      BY <1>5, <1>1, <1>8, <2>2, <3>1
    <3>3. \A q \in Positions(m) : q \notin LastTasks(m) /\ j \in Successors(m, q)
                                    <=> q \in Predecessors(m, j)
      BY <3>1 DEF LastTasks, Successors, Predecessors
    <3>4. j \in FirstTasks(m) <=> Predecessors(m, j) = {}
      BY <3>1 DEF FirstTasks, Predecessors
    <3>5. object'[o].pointersToMe = Cardinality(Predecessors(m, j)) +
                                      (IF j \in FirstTasks(m) THEN 1 ELSE 0)
      BY <1>1, <1>6, <3>1
    <3>6. ASSUME NEW p
          PROVE  p \in newPointers(n2, N, o) <=>
                   \/ p = <<<<k>>, o>> /\ o \in pointersOf(n2)
                   \/ \E q \in Predecessors(m, j) : p = <<<<k, q>>, o>>
      <4>1. o \notin e.refs /\ o \notin object[d].refs
        BY <1>4, <1>9, <3>2
      <4>2. ASSUME NEW q \in Positions(m)
            PROVE  (\E x \in Successors(m, q) : o = <<k, x>>) <=> j \in Successors(m, q)
        BY <3>1
      <4>3. (\E q \in Positions(m) \ LastTasks(m) :
               p = <<<<k, q>>, o>> /\ \E x \in Successors(m, q) : o = <<k, x>>)
              <=> \E q \in Predecessors(m, j) : p = <<<<k, q>>, o>>
        BY <1>3, <3>3, <4>2
      <4> QED
        BY <1>11, <4>1, <4>3
    <3>7. CASE j \in FirstTasks(m)
      <4>1. newPointers(n2, N, o) = {<<<<k>>, o>>}
        <5>1. \A p : p \in newPointers(n2, N, o) <=> p = <<<<k>>, o>>
          BY <3>2, <3>4, <3>7, <3>6
        <5> QED
          BY <5>1
      <4>2. IsFiniteSet(newPointers(n2, N, o)) /\ Cardinality(newPointers(n2, N, o)) = 1
        BY <4>1, FS_Singleton
      <4>3. Cardinality(Predecessors(m, j)) = 0
        BY <3>4, <3>7, FS_EmptySet
      <4> QED
        BY <3>2, <3>5, <3>7, <4>2, <4>3
    <3>8. CASE j \notin FirstTasks(m)
      <4>1. newPointers(n2, N, o) = pointersFrom(k, Predecessors(m, j), o)
        <5>1. \A p : p \in newPointers(n2, N, o) <=>
                      \E q \in Predecessors(m, j) : p = <<<<k, q>>, o>>
          BY <3>2, <3>8, <3>6
        <5> QED
          BY <5>1 DEF pointersFrom
      <4>2. /\ IsFiniteSet(newPointers(n2, N, o))
            /\ Cardinality(newPointers(n2, N, o)) = Cardinality(Predecessors(m, j))
        BY <1>3, <4>1, PointersFrom
      <4>3. Cardinality(Predecessors(m, j)) \in Nat
        BY <1>3, FS_CardinalityType
      <4> QED
        BY <3>2, <3>5, <3>8, <4>2, <4>3
    <3> QED
      BY <3>7, <3>8
  <2>3. CASE o \in DOMAIN object
    <3> DEFINE x == <<<<k>>, o>>
               y == <<<<k, 0>>, o>>
               S == newPointers(n2, N, o) \cap {x, y}
               C == IF o \in object[d].refs THEN pointersFrom(k, LastTasks(m), o) ELSE {}
               A == o \in n2.prim \cup n2.abs
               B == o = n.solution
    <3>1. /\ o # NoSolution /\ o \notin N /\ o # <<k, 0>>
          /\ \A q : o # <<k, q>>
      BY <1>2, <1>5, <2>3 DEF IInv, NamesInUse
    <3>2. x # y /\ S \in SUBSET {x, y}
      BY NodesAreNoSteps
    <3>3. \A p : p \in newPointers(n2, N, o) <=> (p = x /\ A) \/ (p = y /\ B) \/ p \in C
      <4>1. o \in pointersOf(n2) <=> A
        BY <1>1, <3>1
      <4>2. o \in e.refs <=> B
        BY <1>1, <3>1
      <4>3. \A p : (\E j \in LastTasks(m) : p = <<<<k, j>>, o>> /\ o \in object[d].refs) <=> p \in C
        BY DEF pointersFrom
      <4> QED
        BY <1>11, <3>1, <4>1, <4>2, <4>3
    <3>4. x \notin C /\ y \notin C
      BY <1>3, NodesAreNoSteps DEF pointersFrom
    <3>5. newPointers(n2, N, o) = S \cup C /\ S \cap C = {} /\ (x \in S <=> A) /\ (y \in S <=> B)
      BY <3>2, <3>3, <3>4
    <3>6. IsFiniteSet(C) /\ Cardinality(C) = inherited(m, d, o)
      BY <1>3, PointersFrom, FS_EmptySet DEF inherited
    <3>7. object'[o].pointersToMe = object[o].pointersToMe + (IF A THEN 1 ELSE 0)
                                + (IF B THEN 1 ELSE 0) + inherited(m, d, o)
      BY <1>1, <2>3 DEF counted
    <3>8. object[o].pointersToMe \in Nat
      BY <2>3, FS_CardinalityType DEF IInv, Counted
    <3> HIDE DEF x, y, S, C, A, B
    <3>9. /\ IsFiniteSet(S)
          /\ Cardinality(S) = (IF x \in S THEN 1 ELSE 0) + (IF y \in S THEN 1 ELSE 0)
      BY <3>2, AtMostTwo
    <3>10. Cardinality(S) = (IF A THEN 1 ELSE 0) + (IF B THEN 1 ELSE 0)
      BY <3>5, <3>9
    <3>11. /\ IsFiniteSet(S \cup C)
           /\ Cardinality(S \cup C) = Cardinality(S) + Cardinality(C) - 0
      BY <3>5, <3>6, <3>9, FS_Union, FS_EmptySet
    <3>12. Cardinality(C) \in Nat
      BY <3>6, FS_CardinalityType
    <3> HIDE DEF N
    <3> QED
      BY <1>6, <2>3, <3>1, <3>5, <3>6, <3>7, <3>8, <3>10, <3>11, <3>12
  <2> QED
    BY <1>6, <2>1, <2>2, <2>3
<1> QED
  BY <1>1, <1>9, <1>10, <1>12, <1>6, AllocateIInv
-----------------------------------------------------------------------------
(* Pointers after a step are pairs when those of destructors are.          *)
LEMMA PairsAfter ==
  ASSUME \A p \in dropping' : p = <<p[1], p[2]>>, NEW p, p \in Pointers'
  PROVE  p = <<p[1], p[2]>>
<1>1. \A a, S : p \in {a} \X S => p = <<p[1], p[2]>>
  OBVIOUS
<1>2. CASE p \in UNION {{<<i>>} \X pointersOf(node'[i]) : i \in DOMAIN node'}
  BY <1>1, <1>2
<1>3. CASE p \in UNION {{o} \X object'[o].refs : o \in DOMAIN object'}
  BY <1>1, <1>3
<1>4. CASE p \in dropping'
  BY <1>4
<1> QED
  BY <1>2, <1>3, <1>4 DEF Pointers

(* delete: the node's pointers are now those of its running destructor.    *)
LEMMA DeleteIInv ==
  ASSUME IInv, NEW i \in DOMAIN node, Delete(i)
  PROVE  IInv'
<1>1. /\ dropping = {} /\ dropping' = {<<i>>} \X pointersOf(node[i])
      /\ DOMAIN node' = DOMAIN node \ {i} /\ \A j \in DOMAIN node' : node'[j] = node[j]
      /\ object' = object /\ htn' = htn /\ made' = made
  BY DEF Delete, Restrict
<1>2. \A p \in dropping' : p = <<p[1], p[2]>>
  <2>1. \A a, S : \A p \in {a} \X S : p = <<p[1], p[2]>>
    OBVIOUS
  <2> QED
    BY <1>1, <2>1
<1>3. ASSUME NEW q, NEW o PROVE <<q, o>> \in Pointers' <=> <<q, o>> \in Pointers
  <2>1. <<q, o>> \in dropping' <=> q = <<i>> /\ o \in pointersOf(node[i])
    BY <1>1
  <2>2. \A j : <<j>> = <<i>> => j = i
    OBVIOUS
  <2>3. (\E j \in DOMAIN node : q = <<j>> /\ o \in pointersOf(node[j])) <=>
          \/ \E j \in DOMAIN node' : q = <<j>> /\ o \in pointersOf(node'[j])
          \/ q = <<i>> /\ o \in pointersOf(node[i])
    BY <1>1, <2>2
  <2> QED
    BY <1>1, <2>1, <2>3, Membership, MembershipAfter
<1>4. Pointers' = Pointers
  <2>1. \A p : p \in Pointers' => p = <<p[1], p[2]>>
    BY <1>2, PairsAfter
  <2>2. \A p : p \in Pointers => p = <<p[1], p[2]>>
    BY PointersArePairs
  <2> QED
    BY <1>3, <2>1, <2>2
<1>5. \A o : PointersTo(o)' = PointersTo(o)
  BY <1>4 DEF PointersTo
<1>6. DroppingGone'
  <2>1. SUFFICES ASSUME NEW p \in dropping'
                 PROVE  /\ p[1] \notin DOMAIN object
                        /\ \A j \in DOMAIN node' : p[1] # <<j>>
    BY <1>1, <1>2 DEF DroppingGone
  <2>2. p[1] = <<i>>
    BY <1>1
  <2>3. <<i>> \notin Nat \X Nat
    BY NodesAreNoSteps
  <2>4. \A j : <<j>> = <<i>> => j = i
    OBVIOUS
  <2> QED
    BY <1>1, <2>2, <2>3, <2>4 DEF IInv, NamesInUse, StepNames
<1>7. NamesInUse' /\ HasFields' /\ htn' \in Problems
  BY <1>1 DEF IInv, NamesInUse, HasFields
<1>8. NothingDangles' /\ \A o \in DOMAIN object' : Counted(o)'
  BY <1>1, <1>4, <1>5 DEF IInv, NothingDangles, Counted
<1> QED
  BY <1>6, <1>7, <1>8 DEF IInv

(* A destructor lets go of one pointer.  When the counter reaches zero it  *)
(* was the only one, and the target's own pointers are taken over.         *)
LEMMA DropPointerIInv ==
  ASSUME IInv, NEW p \in dropping, DropPointer(p)
  PROVE  IInv'
<1> DEFINE o    == p[2]
           left == object[o].pointersToMe - 1
<1>1. /\ p \in Pointers /\ o \in DOMAIN object /\ p \in PointersTo(o)
      /\ p = <<p[1], o>> /\ p[1] \notin DOMAIN object /\ \A i \in DOMAIN node : p[1] # <<i>>
  BY DEF Pointers, PointersTo, IInv, NothingDangles, DroppingGone
<1>2. /\ node' = node /\ htn' = htn /\ made' = made
      /\ object' = IF left = 0 THEN Restrict(object, DOMAIN object \ {o})
                   ELSE [object EXCEPT ![o].pointersToMe = left]
      /\ dropping' = (dropping \ {p}) \cup (IF left = 0 THEN {o} \X object[o].refs ELSE {})
  BY DEF DropPointer
<1>3. /\ IsFiniteSet(PointersTo(o)) /\ object[o].pointersToMe = Cardinality(PointersTo(o))
      /\ {"refs", "pointersToMe"} \subseteq DOMAIN object[o]
  BY <1>1 DEF IInv, Counted, HasFields
<1>4. /\ Cardinality(PointersTo(o)) \in Nat
      /\ IsFiniteSet(PointersTo(o) \ {p})
      /\ Cardinality(PointersTo(o) \ {p}) = Cardinality(PointersTo(o)) - 1
  BY <1>1, <1>3, FS_CardinalityType, FS_RemoveElement
<1>5. /\ DOMAIN object' = IF left = 0 THEN DOMAIN object \ {o} ELSE DOMAIN object
      /\ \A x \in DOMAIN object' :
           /\ {"refs", "pointersToMe"} \subseteq DOMAIN object'[x]
           /\ object'[x].refs = object[x].refs
           /\ object'[x].pointersToMe = IF x = o THEN left ELSE object[x].pointersToMe
  <2>1. CASE left = 0
    BY <1>2, <2>1 DEF Restrict, IInv, HasFields
  <2>2. CASE left # 0
    <3>1. object' = [object EXCEPT ![o].pointersToMe = left]
      BY <1>2, <2>2
    <3> HIDE DEF left
    <3>2. \A x \in DOMAIN object : {"refs", "pointersToMe"} \subseteq DOMAIN object[x]
      BY DEF IInv, HasFields
    <3> QED
      BY <1>1, <2>2, <3>1, <3>2
  <2> QED
    BY <2>1, <2>2
<1>6. \A x \in dropping' : x = <<x[1], x[2]>>
  <2>1. \A a, S : \A x \in {a} \X S : x = <<x[1], x[2]>>
    OBVIOUS
  <2> QED
    BY <1>2, <2>1 DEF IInv, DroppingGone
<1>7. ASSUME NEW q, NEW t PROVE <<q, t>> \in Pointers' <=> <<q, t>> \in Pointers /\ <<q, t>> # p
  <2>1. <<q, t>> \in dropping' <=>
          \/ <<q, t>> \in dropping /\ <<q, t>> # p
          \/ left = 0 /\ q = o /\ t \in object[o].refs
    BY <1>2
  <2>2. (q \in DOMAIN object' /\ t \in object'[q].refs) \/ (left = 0 /\ q = o /\ t \in object[o].refs)
          <=> q \in DOMAIN object /\ t \in object[q].refs
    BY <1>1, <1>5
  <2>3. <<q, t>> = p => q \notin DOMAIN object /\ \A i \in DOMAIN node : q # <<i>>
    BY <1>1
  <2> HIDE DEF left
  <2> QED
    BY <1>2, <2>1, <2>2, <2>3, Membership, MembershipAfter
<1>8. Pointers' = Pointers \ {p}
  <2>1. \A x : x \in Pointers' => x = <<x[1], x[2]>>
    BY <1>6, PairsAfter
  <2>2. \A x : x \in Pointers => x = <<x[1], x[2]>>
    BY PointersArePairs
  <2> QED
    BY <1>7, <2>1, <2>2
<1>9. \A x : PointersTo(x)' = IF x = o THEN PointersTo(x) \ {p} ELSE PointersTo(x)
  BY <1>1, <1>8 DEF PointersTo
<1>10. left = 0 => PointersTo(o) \ {p} = {}
  BY <1>3, <1>4, FS_EmptySet
<1>11. NothingDangles'
  <2>1. SUFFICES ASSUME NEW x, x \in Pointers' PROVE x[2] \in DOMAIN object'
    BY DEF NothingDangles
  <2>2. x[2] \in DOMAIN object
    BY <1>8, <2>1 DEF IInv, NothingDangles
  <2>3. left = 0 => x[2] # o
    BY <1>8, <1>10, <2>1 DEF PointersTo
  <2> QED
    BY <1>5, <2>2, <2>3
<1>12. ASSUME NEW x \in DOMAIN object' PROVE Counted(x)'
  <2>1. CASE x = o
    BY <1>3, <1>4, <1>5, <1>9, <2>1 DEF Counted
  <2>2. CASE x # o
    BY <1>5, <1>9, <2>2 DEF Counted, IInv
  <2> QED
    BY <2>1, <2>2
<1>13. DroppingGone'
  <2>1. SUFFICES ASSUME NEW x \in dropping'
                 PROVE  /\ x[1] \notin DOMAIN object'
                        /\ \A j \in DOMAIN node : x[1] # <<j>>
    BY <1>2, <1>6 DEF DroppingGone
  <2>2. CASE x \in dropping
    BY <1>5, <2>2 DEF IInv, DroppingGone
  <2>3. CASE left = 0 /\ x \in {o} \X object[o].refs
    <3>1. x[1] = o /\ o \in Nat \X Nat
      BY <1>1, <2>3 DEF IInv, NamesInUse, StepNames
    <3> QED
      BY <1>5, <2>3, <3>1, NodesAreNoSteps
  <2> QED
    BY <1>2, <2>2, <2>3
<1>14. NamesInUse' /\ HasFields' /\ htn' \in Problems
  BY <1>2, <1>5 DEF IInv, NamesInUse, HasFields
<1> QED
  BY <1>11, <1>12, <1>13, <1>14 DEF IInv

-----------------------------------------------------------------------------
LEMMA StepIInv == ASSUME IInv, [Next]_vars PROVE IInv'
<1>1. ASSUME NEW i \in DOMAIN node, \E s \in node[i].prim : Apply(i, s) PROVE IInv'
  BY <1>1, ApplyIInv
<1>2. ASSUME NEW i \in DOMAIN node, NEW d \in node[i].abs,
             NEW mi \in taskToMethods(htn, object[d].task), Decompose(i, d, mi)
      PROVE  IInv'
  BY <1>2, DecomposeIInv
<1>3. ASSUME NEW i \in DOMAIN node, Delete(i) PROVE IInv'
  BY <1>3, DeleteIInv
<1>4. ASSUME NEW p \in dropping, DropPointer(p) PROVE IInv'
  BY <1>4, DropPointerIInv
<1>5. CASE UNCHANGED vars
  <2>1. Pointers' = Pointers
    BY <1>5 DEF vars, Pointers, pointersOf
  <2>2. \A o : PointersTo(o)' = PointersTo(o)
    BY <2>1 DEF PointersTo
  <2> QED
    BY <1>5, <2>1, <2>2 DEF vars, IInv, NamesInUse, HasFields, DroppingGone, NothingDangles, Counted
<1> QED
  BY <1>1, <1>2, <1>3, <1>4, <1>5 DEF Next

LEMMA Invariance == Spec => []IInv
<1>1. Init => IInv
  BY InitIInv
<1>2. IInv /\ [Next]_vars => IInv'
  BY StepIInv
<1> QED
  BY <1>1, <1>2, PTL DEF Spec

(* Names and counters of the heap are well typed, and no number of         *)
(* progressions is exceeded (Model.cpp:716-1240).                          *)
THEOREM TypeCorrect == Spec => []TypeOK
<1>1. IInv => TypeOK
  <2>1. ASSUME IInv, NEW o \in DOMAIN object PROVE object[o].pointersToMe \in Nat
    BY <2>1, FS_CardinalityType DEF IInv, Counted
  <2> QED
    BY <2>1 DEF IInv, NamesInUse, TypeOK
<1> QED
  BY <1>1, Invariance, PTL

(* The increments that apply, decompose and initializeMethod make by hand  *)
(* always fit the pointers they store (Model.cpp:716, 967, 1170).          *)
THEOREM ReferencesAreCounted == Spec => []CountsExact
<1>1. IInv => CountsExact
  BY DEF IInv, Counted, CountsExact
<1> QED
  BY <1>1, Invariance, PTL

(* No node, step or running destructor points to freed memory, in whatever *)
(* order nodes are deleted (ProgressionNetwork.cpp:27-103).                *)
THEOREM NoPointerDangles == Spec => []NothingDangles
<1>1. IInv => NothingDangles
  BY DEF IInv
<1> QED
  BY <1>1, Invariance, PTL

-----------------------------------------------------------------------------
(* The worklist loop of apply computes the least set that contains the     *)
(* steps it starts from and what its members point to.                     *)
ClosedSet(X) == \A o \in X : object[o].refs \subseteq X

LEMMA ReachableFromIsLeast ==
  ASSUME IsFiniteSet(DOMAIN object), ClosedSet(DOMAIN object), NEW Start \in SUBSET DOMAIN object
  PROVE  LET R == reachableFrom(Start)
         IN  /\ Start \subseteq R /\ R \subseteq DOMAIN object /\ ClosedSet(R)
             /\ \A X : Start \subseteq X /\ ClosedSet(X) => R \subseteq X
<1> DEFINE D == DOMAIN object
           c == Cardinality(D)
           step == [X \in SUBSET D |-> UNION {{s} \cup object[s].refs : s \in X}]
           done == CHOOSE f : f = [k \in Nat |->
                     IF k = 0 THEN Start ELSE UNION {{s} \cup object[s].refs : s \in f[k - 1]}]
<1>1. reachableFrom(Start) = done[c]
  BY DEF reachableFrom
<1>2. step \in [SUBSET D -> SUBSET D]
  BY DEF ClosedSet
<1>3. PICK g \in [Nat -> SUBSET D] : g[0] = Start /\ \A n \in Nat : g[n + 1] = step[g[n]]
  <2> HIDE DEF step, D
  <2>1. Start \in SUBSET D
    BY DEF D
  <2>2. \E g : IsIteration(g, SUBSET D, Start, step)
    BY <1>2, <2>1, Recursion
  <2> QED
    BY <2>2 DEF IsIteration
<1>4. ASSUME NEW n \in Nat PROVE g[n + 1] = UNION {{s} \cup object[s].refs : s \in g[n]}
  BY <1>3
<1>5. g = [k \in Nat |-> IF k = 0 THEN Start ELSE UNION {{s} \cup object[s].refs : s \in g[k - 1]}]
  <2>1. ASSUME NEW k \in Nat, k # 0
        PROVE  g[k] = UNION {{s} \cup object[s].refs : s \in g[k - 1]}
    <3>1. k - 1 \in Nat /\ (k - 1) + 1 = k
      BY <2>1
    <3> QED
      BY <1>4, <3>1
  <2> QED
    BY <1>3, <2>1
<1> HIDE DEF step
<1>6. done = [k \in Nat |->
                IF k = 0 THEN Start ELSE UNION {{s} \cup object[s].refs : s \in done[k - 1]}]
  BY <1>5
<1> HIDE DEF done
<1>7. \A n \in Nat : done[n] = g[n]
  <2> DEFINE S == {n \in Nat : done[n] = g[n]}
  <2>1. 0 \in S
    BY <1>3, <1>6
  <2>2. ASSUME NEW n \in Nat, n \in S PROVE n + 1 \in S
    <3>1. n + 1 \in Nat /\ n + 1 # 0 /\ (n + 1) - 1 = n
      OBVIOUS
    <3>2. done[n + 1] = UNION {{s} \cup object[s].refs : s \in done[n]}
      BY <1>6, <3>1
    <3>3. done[n] = g[n] /\ g[n + 1] = UNION {{s} \cup object[s].refs : s \in g[n]}
      BY <1>4, <2>2
    <3>4. done[n + 1] = g[n + 1]
      BY <3>2, <3>3
    <3> QED
      BY <3>4
  <2> HIDE DEF S
  <2>3. Nat \subseteq S
    BY <2>1, <2>2, Induction
  <2> QED
    BY <2>3 DEF S
<1>8. c \in Nat /\ g[c] = reachableFrom(Start)
  BY <1>1, <1>7, FS_CardinalityType
<1>9. \A n \in Nat : g[n] \subseteq g[n + 1]
  BY <1>4
<1>10. g[c + 1] = g[c]
  <2>1. \A n \in Nat : g[n + 1] = g[n] => g[n + 2] = g[n + 1]
    <3>1. \A n \in Nat : g[n + 2] = step[g[n + 1]] /\ g[n + 1] = step[g[n]]
      BY <1>3
    <3> QED
      BY <3>1
  <2> QED
    BY <1>9, <2>1, GrowthEnds
<1> HIDE DEF c
<1>11. \A n \in Nat : Start \subseteq g[n]
  <2> DEFINE S == {n \in Nat : Start \subseteq g[n]}
  <2>1. 0 \in S /\ \A n \in Nat : n \in S => n + 1 \in S
    BY <1>3, <1>9
  <2> HIDE DEF S
  <2>2. Nat \subseteq S
    BY <2>1, Induction
  <2> QED
    BY <2>2 DEF S
<1>12. ASSUME NEW X, Start \subseteq X, ClosedSet(X) PROVE g[c] \subseteq X
  <2> DEFINE S == {n \in Nat : g[n] \subseteq X}
  <2>1. 0 \in S
    BY <1>3, <1>12
  <2>2. ASSUME NEW n \in Nat, n \in S PROVE n + 1 \in S
    BY <1>4, <1>12, <2>2 DEF ClosedSet
  <2> HIDE DEF S
  <2>3. Nat \subseteq S
    BY <2>1, <2>2, Induction
  <2> QED
    BY <1>8, <2>3 DEF S
<1>13. ClosedSet(g[c])
  BY <1>4, <1>8, <1>10 DEF ClosedSet
<1> QED
  BY <1>8, <1>11, <1>12, <1>13

(* What no leak rests on: pointers have no cycles, and nothing is          *)
(* allocated that nothing points to.                                       *)
NoCycles(o, Objects) == \E s \in Objects : \A t \in Objects : s \notin o[t].refs

HeapAcyclic == \A T \in SUBSET DOMAIN object : T # {} => NoCycles(object, T)

Tidy ==
  /\ IsFiniteSet(DOMAIN object)
  /\ HeapAcyclic
  /\ \A o \in DOMAIN object : object[o].pointersToMe # 0

LEMMA NothingLeaksWhenTidy == ASSUME IInv, Tidy PROVE NothingLeaks
<1> DEFINE roots == UNION {pointersOf(node[i]) : i \in DOMAIN node}
           R     == reachableFrom(roots)
           lost  == DOMAIN object \ R
<1>1. ClosedSet(DOMAIN object)
  BY HeapClosed DEF ClosedSet
<1>2. roots \subseteq DOMAIN object
  BY HeapClosed DEF pointersOf
<1>3. roots \subseteq R /\ ClosedSet(R)
  BY <1>1, <1>2, ReachableFromIsLeast DEF Tidy
<1> HIDE DEF R, roots
<1>4. SUFFICES ASSUME dropping = {}, lost # {} PROVE FALSE
  BY DEF NothingLeaks, R, roots
<1>5. PICK s \in lost : \A t \in lost : s \notin object[t].refs
  BY <1>4 DEF Tidy, HeapAcyclic, NoCycles
<1>6. PICK p : p \in PointersTo(s)
  <2>1. IsFiniteSet(PointersTo(s)) /\ Cardinality(PointersTo(s)) # 0
    BY <1>5 DEF IInv, Counted, Tidy
  <2> QED
    BY <2>1, FS_EmptySet
<1>7. <<p[1], s>> \in Pointers
  BY <1>6, PointersArePairs DEF PointersTo
<1>8. CASE \E i \in DOMAIN node : p[1] = <<i>> /\ s \in pointersOf(node[i])
  BY <1>3, <1>5, <1>8 DEF roots
<1>9. CASE p[1] \in DOMAIN object /\ s \in object[p[1]].refs
  BY <1>3, <1>5, <1>9 DEF ClosedSet
<1> QED
  BY <1>4, <1>7, <1>8, <1>9, Membership

LEMMA InitTidy == ASSUME Init PROVE Tidy
<1>1. DOMAIN object = {<<0, 1>>} /\ object[<<0, 1>>] = newPlanStep(htn.initialTask, {}, 1)
  BY DEF Init
<1>2. object[<<0, 1>>].refs = {} /\ object[<<0, 1>>].pointersToMe = 1
  BY <1>1 DEF newPlanStep
<1>3. IsFiniteSet(DOMAIN object)
  BY <1>1, FS_Singleton
<1> QED
  BY <1>1, <1>2, <1>3 DEF Tidy, HeapAcyclic, NoCycles

(* Nothing old points to what is new.                                      *)
LEMMA AllocateTidy ==
  ASSUME IInv, Tidy, NEW n2, NEW N, Allocates(n2, N), IsFiniteSet(N),
         \A T \in SUBSET N : T # {} => NoCycles(object', T),
         \A o \in DOMAIN object' : object'[o].pointersToMe # 0
  PROVE  Tidy'
<1>1. DOMAIN object' = DOMAIN object \cup N /\ \A o \in DOMAIN object : object'[o].refs = object[o].refs
  BY DEF Allocates
<1>2. N \cap DOMAIN object = {}
  BY MemoryAssumption DEF IInv, NamesInUse, Allocates, StepNames
<1>3. \A o \in DOMAIN object : object[o].refs \subseteq DOMAIN object
  BY HeapClosed
<1>4. IsFiniteSet(DOMAIN object')
  BY <1>1, FS_Union DEF Tidy
<1>5. ASSUME NEW T \in SUBSET DOMAIN object', T # {} PROVE NoCycles(object', T)
  <2>1. CASE T \cap N = {}
    <3>1. T \in SUBSET DOMAIN object
      BY <1>1, <2>1
    <3>2. PICK s \in T : \A t \in T : s \notin object[t].refs
      BY <1>5, <3>1 DEF Tidy, HeapAcyclic, NoCycles
    <3> QED
      BY <1>1, <3>1, <3>2 DEF NoCycles
  <2>2. CASE T \cap N # {}
    <3>1. PICK s \in T \cap N : \A t \in T \cap N : s \notin object'[t].refs
      BY <2>2 DEF NoCycles
    <3>2. \A t \in T \ N : t \in DOMAIN object
      BY <1>1
    <3>3. \A t \in T \ N : s \notin object'[t].refs
      BY <1>1, <1>2, <1>3, <3>2
    <3> QED
      BY <3>1, <3>3 DEF NoCycles
  <2> QED
    BY <2>1, <2>2
<1> QED
  BY <1>4, <1>5 DEF Tidy, HeapAcyclic

LEMMA ApplyTidy ==
  ASSUME IInv, Tidy, NEW i \in DOMAIN node, NEW s \in node[i].prim, Apply(i, s)
  PROVE  Tidy'
<1> DEFINE k  == made + 1
           n2 == node'[k]
           e  == object'[<<k, 0>>]
           N  == {<<k, 0>>}
<1>1. /\ Allocates(n2, N) /\ e.refs \subseteq DOMAIN object /\ e.pointersToMe = 1
      /\ \A o \in DOMAIN object : object'[o].pointersToMe = counted(n2, node[i].solution, o)
  BY ApplyAllocates
<1>2. <<k, 0>> \notin DOMAIN object
  BY MemoryAssumption DEF IInv, NamesInUse
<1>3. IsFiniteSet(N)
  BY FS_Singleton
<1>4. ASSUME NEW T \in SUBSET N, T # {} PROVE NoCycles(object', T)
  BY <1>1, <1>2, <1>4 DEF NoCycles
<1>5. ASSUME NEW o \in DOMAIN object' PROVE object'[o].pointersToMe # 0
  <2>1. CASE o \in DOMAIN object
    <3>1. object[o].pointersToMe \in Nat \ {0}
      BY <2>1, FS_CardinalityType DEF IInv, Counted, Tidy
    <3> QED
      BY <1>1, <2>1, <3>1 DEF counted
  <2> QED
    BY <1>1, <2>1 DEF Allocates
<1> HIDE DEF n2, N
<1> QED
  BY <1>1, <1>3, <1>4, <1>5, AllocateTidy

(* The ordering of a method has no cycle, and nothing new points to the    *)
(* new solution step.                                                      *)
LEMMA DecomposeTidy ==
  ASSUME IInv, Tidy, NEW i \in DOMAIN node, NEW d \in node[i].abs,
         NEW mi \in taskToMethods(htn, object[d].task), Decompose(i, d, mi)
  PROVE  Tidy'
<1> DEFINE n     == node[i]
           m     == htn.methods[mi]
           k     == made + 1
           n2    == node'[k]
           N     == {<<k, 0>>} \cup newSteps(m, k)
           e     == object'[<<k, 0>>]
<1>1. /\ Allocates(n2, N)
      /\ e.refs = (IF n.solution = NoSolution THEN {} ELSE {n.solution})
      /\ e.pointersToMe = 1
      /\ \A j \in Positions(m) :
           LET x == object'[<<k, j>>]
           IN  /\ x.refs = IF j \in LastTasks(m) THEN object[d].refs
                           ELSE {<<k, q>> : q \in Successors(m, j)}
               /\ x.pointersToMe = Cardinality(Predecessors(m, j)) +
                                     (IF j \in FirstTasks(m) THEN 1 ELSE 0)
      /\ \A o \in DOMAIN object :
           object'[o].pointersToMe = counted(n2, n.solution, o) + inherited(m, d, o)
  BY ZenonT(60), DecomposeAllocates
<1>2. /\ made \in Nat /\ k \in Nat
      /\ \A o \in DOMAIN object : o \in Nat \X Nat /\ o[1] # k
  BY MemoryAssumption DEF IInv, NamesInUse, StepNames
<1>3. /\ Positions(m) \subseteq Nat \ {0} /\ IsFiniteSet(Positions(m))
      /\ \A j : IsFiniteSet(Predecessors(m, j)) /\ Successors(m, j) \subseteq Positions(m)
      /\ IsFiniteSet(LastTasks(m)) /\ LastTasks(m) \subseteq Positions(m)
  BY MethodFacts DEF IInv
<1>4. Acyclic(m)
  BY MemoryAssumption DEF IInv, IsProblem, IsMethod, taskToMethods
<1>5. /\ object[d].refs \subseteq DOMAIN object /\ e.refs \subseteq DOMAIN object
  BY <1>1, HeapClosed
<1> HIDE DEF n2, e, m, n
<1>6. IsFiniteSet(N)
  <2> DEFINE f == [j \in Positions(m) |-> <<k, j>>]
  <2>1. newSteps(m, k) = {f[j] : j \in Positions(m)}
    BY DEF newSteps
  <2> HIDE DEF f
  <2>2. IsFiniteSet({f[j] : j \in Positions(m)})
    BY <1>3, ImageIsFinite
  <2>3. IsFiniteSet({<<k, 0>>})
    BY FS_Singleton
  <2> QED
    BY <2>1, <2>2, <2>3, FS_Union
<1>7. ASSUME NEW T \in SUBSET N, T # {} PROVE NoCycles(object', T)
  <2> DEFINE P == {j \in Positions(m) : <<k, j>> \in T}
  <2>1. ASSUME NEW j \in Positions(m), NEW q, <<k, q>> \in object'[<<k, j>>].refs
        PROVE  q \in Successors(m, j)
    <3>1. \A q1, q2 : <<k, q1>> = <<k, q2>> => q1 = q2
      OBVIOUS
    <3>2. <<k, q>> \notin object[d].refs
      BY <1>2, <1>5
    <3>3. object'[<<k, j>>].refs = IF j \in LastTasks(m) THEN object[d].refs
                                   ELSE {<<k, x>> : x \in Successors(m, j)}
      BY <1>1
    <3> QED
      BY <2>1, <3>1, <3>2, <3>3
  <2>2. ASSUME NEW q PROVE <<k, q>> \notin e.refs
    BY <1>2, <1>5
  <2>3. CASE P = {}
    <3>1. T = {<<k, 0>>}
      BY <1>7, <2>3 DEF newSteps
    <3> QED
      BY <2>2, <3>1 DEF NoCycles, e
  <2>4. CASE P # {}
    <3>1. PICK j \in P : \A q \in P : <<q, j>> \notin m.ord
      BY <1>4, <2>4 DEF Acyclic
    <3>2. ASSUME NEW t \in T PROVE <<k, j>> \notin object'[t].refs
      <4>1. CASE t = <<k, 0>>
        BY <2>2, <4>1 DEF e
      <4>2. CASE t \in newSteps(m, k)
        <5>1. PICK q \in P : t = <<k, q>>
          BY <4>2 DEF newSteps
        <5>2. j \notin Successors(m, q)
          BY <3>1 DEF Successors
        <5> QED
          BY <2>1, <5>1, <5>2
      <4> QED
        BY <4>1, <4>2
    <3> QED
      BY <3>1, <3>2 DEF NoCycles
  <2> QED
    BY <2>3, <2>4
<1>8. ASSUME NEW o \in DOMAIN object' PROVE object'[o].pointersToMe # 0
  <2>1. CASE o \in DOMAIN object
    <3>1. object[o].pointersToMe \in Nat \ {0}
      BY <2>1, FS_CardinalityType DEF IInv, Counted, Tidy
    <3>2. inherited(m, d, o) \in Nat
      BY <1>3, FS_CardinalityType DEF inherited
    <3> QED
      BY <1>1, <2>1, <3>1, <3>2 DEF counted
  <2>2. CASE o = <<k, 0>>
    BY <1>1, <2>2 DEF e
  <2>3. CASE o \in newSteps(m, k)
    <3>1. PICK j \in Positions(m) : o = <<k, j>>
      BY <2>3 DEF newSteps
    <3>2. Cardinality(Predecessors(m, j)) \in Nat
      BY <1>3, FS_CardinalityType
    <3>3. j \notin FirstTasks(m) => Cardinality(Predecessors(m, j)) # 0
      <4>1. j \notin FirstTasks(m) => Predecessors(m, j) # {}
        BY DEF FirstTasks, Predecessors
      <4> QED
        BY <1>3, <4>1, FS_EmptySet
    <3>4. object'[<<k, j>>].pointersToMe = Cardinality(Predecessors(m, j)) +
                                             (IF j \in FirstTasks(m) THEN 1 ELSE 0)
      BY <1>1
    <3> QED
      BY <3>1, <3>2, <3>3, <3>4
  <2> QED
    BY <1>1, <2>1, <2>2, <2>3 DEF Allocates
<1> HIDE DEF N
<1> QED
  BY <1>1, <1>6, <1>7, <1>8, AllocateTidy

LEMMA DeleteTidy == ASSUME Tidy, NEW i \in DOMAIN node, Delete(i) PROVE Tidy'
  BY DEF Delete, Tidy, HeapAcyclic, NoCycles

LEMMA DropPointerTidy ==
  ASSUME IInv, Tidy, NEW p \in dropping, DropPointer(p)
  PROVE  Tidy'
<1> DEFINE o    == p[2]
           left == object[o].pointersToMe - 1
<1>1. object' = IF left = 0 THEN Restrict(object, DOMAIN object \ {o})
                ELSE [object EXCEPT ![o].pointersToMe = left]
  BY DEF DropPointer
<1>2. o \in DOMAIN object /\ \A x \in DOMAIN object : "pointersToMe" \in DOMAIN object[x]
  BY DEF Pointers, IInv, NothingDangles, HasFields
<1>3. /\ DOMAIN object' \subseteq DOMAIN object
      /\ \A x \in DOMAIN object' : /\ object'[x].refs = object[x].refs
                                   /\ object'[x].pointersToMe # 0
  <2>1. CASE left = 0
    BY <1>1, <2>1 DEF Restrict, Tidy
  <2>2. CASE left # 0
    <3>1. object' = [object EXCEPT ![o].pointersToMe = left]
      BY <1>1, <2>2
    <3> HIDE DEF left
    <3> QED
      BY <1>2, <2>2, <3>1 DEF Tidy
  <2> QED
    BY <2>1, <2>2
<1>4. IsFiniteSet(DOMAIN object')
  BY <1>3, FS_Subset DEF Tidy
<1> QED
  BY <1>3, <1>4 DEF Tidy, HeapAcyclic, NoCycles

LEMMA StepTidy == ASSUME IInv, Tidy, [Next]_vars PROVE Tidy'
<1>1. ASSUME NEW i \in DOMAIN node, \E s \in node[i].prim : Apply(i, s) PROVE Tidy'
  BY <1>1, ApplyTidy
<1>2. ASSUME NEW i \in DOMAIN node, NEW d \in node[i].abs,
             NEW mi \in taskToMethods(htn, object[d].task), Decompose(i, d, mi)
      PROVE  Tidy'
  BY <1>2, DecomposeTidy
<1>3. ASSUME NEW i \in DOMAIN node, Delete(i) PROVE Tidy'
  BY <1>3, DeleteTidy
<1>4. ASSUME NEW p \in dropping, DropPointer(p) PROVE Tidy'
  BY <1>4, DropPointerTidy
<1>5. CASE UNCHANGED vars
  BY <1>5 DEF vars, Tidy, HeapAcyclic, NoCycles
<1> QED
  BY <1>1, <1>2, <1>3, <1>4, <1>5 DEF Next

LEMMA AlwaysTidy == Spec => []Tidy
<1>1. Init => Tidy
  BY InitTidy
<1>2. IInv /\ Tidy /\ [Next]_vars => Tidy'
  BY StepTidy
<1> QED
  BY <1>1, <1>2, Invariance, PTL DEF Spec

(* Between two calls of the search nothing is allocated but what the nodes *)
(* in use reach: the destructors, which only ever look at the counters,    *)
(* free all that a deleted node alone reached                              *)
(* (ProgressionNetwork.cpp:27-103).                                        *)
THEOREM MemoryIsFreed == Spec => []NothingLeaks
<1>1. IInv /\ Tidy => NothingLeaks
  BY NothingLeaksWhenTidy
<1> QED
  BY <1>1, Invariance, AlwaysTidy, PTL

-----------------------------------------------------------------------------
(***************************************************************************)
(* The refinement.  What the code sees when it follows the pointers of a   *)
(* node is a value that is made once and never changes, though its steps   *)
(* are shared with other nodes and freed piece by piece.                   *)
(***************************************************************************)
(* Solution steps form chains: each points to at most one, an older one.   *)
Chained ==
  /\ \A i \in DOMAIN node : node[i].solution[2] = 0
  /\ \A o \in solutionSteps :
       object[o].refs = {} \/ \E q \in solutionSteps : q[1] < o[1] /\ object[o].refs = {q}

(* The fields of an object, and those of a node that never change.         *)
ObjectFields == {"task", "method", "step", "after", "refs", "pointersToMe"}

Fixed ==
  /\ \A i \in DOMAIN node : node[i].fValue = 0 /\ node[i].pushed = FALSE
                            /\ DOMAIN node[i] = NodeFields
  /\ \A o \in DOMAIN object : DOMAIN object[o] = ObjectFields

HeapInv == IInv /\ Tidy /\ Chained /\ Fixed

(* What HeapClosed, ReachableFromIsLeast and ChainEquation conclude, as    *)
(* state predicates, which hold in the next state too.                     *)
PointersStayInside ==
  /\ \A i \in DOMAIN node :
       /\ node[i].prim \cup node[i].abs \subseteq DOMAIN object
       /\ node[i].solution # NoSolution => node[i].solution \in solutionSteps
  /\ \A o \in DOMAIN object : object[o].refs \subseteq DOMAIN object

LeastClosed(R, Start) ==
  /\ Start \subseteq R /\ R \subseteq DOMAIN object /\ ClosedSet(R)
  /\ \A X : Start \subseteq X /\ ClosedSet(X) => R \subseteq X

SearchIsExact ==
  \A Start \in SUBSET DOMAIN object : LeastClosed(reachableFrom(Start), Start)

entryOf(o) == [step |-> object[o].step, instance |-> o[1], task |-> object[o].task,
               method |-> object[o].method, after |-> object[o].after]

ChainsFollowPrev ==
  /\ chain[NoSolution] = << >>
  /\ \A o \in solutionSteps :
       /\ o # NoSolution /\ o[1] \in Nat
       /\ chain[o] = Append(chain[prevOf(o)], entryOf(o))
       /\ \/ prevOf(o) = NoSolution /\ object[o].refs = {}
          \/ /\ prevOf(o) \in solutionSteps /\ prevOf(o)[1] < o[1]
             /\ object[o].refs = {prevOf(o)}

-----------------------------------------------------------------------------
LEMMA InsideLemma == HeapInv => PointersStayInside
<1> SUFFICES ASSUME IInv, Chained PROVE PointersStayInside
  BY DEF HeapInv
<1> QED
  BY HeapClosed DEF PointersStayInside, Chained, solutionSteps

LEMMA SearchLemma == HeapInv => SearchIsExact
<1> SUFFICES ASSUME IInv, Tidy, NEW Start \in SUBSET DOMAIN object
             PROVE  LeastClosed(reachableFrom(Start), Start)
  BY DEF HeapInv, SearchIsExact
<1>1. ClosedSet(DOMAIN object) /\ IsFiniteSet(DOMAIN object)
  BY HeapClosed DEF ClosedSet, Tidy
<1> QED
  BY <1>1, ReachableFromIsLeast DEF LeastClosed

LEMMA PrevIsOlder ==
  ASSUME IInv, Chained, NEW o \in solutionSteps
  PROVE  /\ o # NoSolution /\ o[1] \in Nat
         /\ \/ prevOf(o) = NoSolution /\ object[o].refs = {}
            \/ prevOf(o) \in solutionSteps /\ prevOf(o)[1] < o[1] /\ object[o].refs = {prevOf(o)}
<1>1. o # NoSolution /\ o[1] \in Nat
  BY DEF IInv, NamesInUse, solutionSteps, StepNames
<1>2. CASE object[o].refs = {}
  BY <1>1, <1>2 DEF prevOf
<1>3. ASSUME NEW q \in solutionSteps, q[1] < o[1], object[o].refs = {q} PROVE prevOf(o) = q
  BY <1>3 DEF prevOf
<1> QED
  BY <1>1, <1>2, <1>3 DEF Chained

(* The recursive definition of chain has a solution: it follows names that *)
(* get smaller.                                                            *)
LEMMA ChainEquation ==
  ASSUME IInv, Chained
  PROVE  /\ chain[NoSolution] = << >>
         /\ \A o \in solutionSteps : chain[o] = Append(chain[prevOf(o)], entryOf(o))
<1> DEFINE C == solutionSteps \cup {NoSolution}
           E == {entryOf(o) : o \in solutionSteps}
           W == Seq(E)
           rank == [o \in C |-> o[1]]
           step == [f \in [C -> W] |-> [o \in C |->
                     IF o = NoSolution THEN << >> ELSE Append(f[prevOf(o)], entryOf(o))]]
<1>1. rank \in [C -> Nat]
  BY PrevIsOlder DEF NoSolution
<1>2. ASSUME NEW o \in solutionSteps
      PROVE  prevOf(o) \in C /\ rank[prevOf(o)] < rank[o] /\ o # NoSolution
  <2>1. o[1] # 0
    BY DEF solutionSteps, IInv, NamesInUse, StepNames, NoSolution
  <2>2. prevOf(o) \in C /\ prevOf(o)[1] < o[1] /\ o # NoSolution
    BY <2>1, PrevIsOlder DEF NoSolution
  <2> QED
    BY <2>2
<1>3. step \in [[C -> W] -> [C -> W]]
  <2>1. ASSUME NEW f \in [C -> W], NEW o \in solutionSteps
        PROVE  Append(f[prevOf(o)], entryOf(o)) \in W
    <3>1. f[prevOf(o)] \in W /\ entryOf(o) \in E
      BY <1>2
    <3> HIDE DEF E
    <3> QED
      BY <3>1
  <2>2. << >> \in W
    OBVIOUS
  <2> HIDE DEF W
  <2> QED
    BY <2>1, <2>2
<1>4. << >> \in W
  OBVIOUS
<1>5. DependsOnLower(C, W, rank, step)
  <2> HIDE DEF rank, W
  <2> QED
    BY <1>2 DEF DependsOnLower
<1>6. \E f : f = [o \in C |-> IF o = NoSolution THEN << >> ELSE Append(f[prevOf(o)], entryOf(o))]
  <2> HIDE DEF C, W, rank, step
  <2>1. \E f : IsFixpoint(f, C, W, step)
    BY <1>1, <1>3, <1>4, <1>5, RecursionByRank
  <2> QED
    BY <2>1 DEF IsFixpoint, step
<1>7. chain = [o \in C |-> IF o = NoSolution THEN << >> ELSE Append(chain[prevOf(o)], entryOf(o))]
  BY <1>6 DEF chain, entryOf
<1> QED
  BY <1>2, <1>7

LEMMA ChainLemma == HeapInv => ChainsFollowPrev
  BY ChainEquation, PrevIsOlder DEF HeapInv, ChainsFollowPrev
-----------------------------------------------------------------------------
(* From one state to the next objects come and go, but those of both keep  *)
(* all but their counters.                                                 *)
SameContents ==
  \A o \in DOMAIN object \cap DOMAIN object' :
    /\ object'[o].refs = object[o].refs /\ object'[o].task = object[o].task
    /\ object'[o].method = object[o].method /\ object'[o].step = object[o].step
    /\ object'[o].after = object[o].after

LEMMA SearchFrame ==
  ASSUME SearchIsExact, SearchIsExact', SameContents,
         NEW CONSTANT Start, Start \subseteq DOMAIN object, Start \subseteq DOMAIN object',
         PointersStayInside, PointersStayInside'
  PROVE  reachableFrom(Start)' = reachableFrom(Start)
<1> DEFINE R == reachableFrom(Start)
           Q == reachableFrom(Start)'
<1>1. /\ Start \subseteq R /\ R \subseteq DOMAIN object
      /\ \A o \in R : object[o].refs \subseteq R
      /\ \A X : Start \subseteq X /\ (\A o \in X : object[o].refs \subseteq X) => R \subseteq X
  BY DEF SearchIsExact, LeastClosed, ClosedSet
<1>2. /\ Start \subseteq Q /\ Q \subseteq DOMAIN object'
      /\ \A o \in Q : object'[o].refs \subseteq Q
      /\ \A X : Start \subseteq X /\ (\A o \in X : object'[o].refs \subseteq X) => Q \subseteq X
  BY DEF SearchIsExact, LeastClosed, ClosedSet
<1> HIDE DEF R, Q
<1>3. /\ \A o \in DOMAIN object : object[o].refs \subseteq DOMAIN object
      /\ \A o \in DOMAIN object' : object'[o].refs \subseteq DOMAIN object'
  BY DEF PointersStayInside
<1>4. R \subseteq DOMAIN object'
  <2> DEFINE X == R \cap DOMAIN object'
  <2>1. Start \subseteq X /\ \A o \in X : object[o].refs \subseteq X
    BY <1>1, <1>3 DEF SameContents
  <2> HIDE DEF X
  <2>2. R \subseteq X
    BY <1>1, <2>1
  <2> QED
    BY <2>2 DEF X
<1>5. Q \subseteq DOMAIN object
  <2> DEFINE X == Q \cap DOMAIN object
  <2>1. Start \subseteq X /\ \A o \in X : object'[o].refs \subseteq X
    BY <1>2, <1>3 DEF SameContents
  <2> HIDE DEF X
  <2>2. Q \subseteq X
    BY <1>2, <2>1
  <2> QED
    BY <2>2 DEF X
<1>6. \A o \in R : object'[o].refs \subseteq R
  BY <1>1, <1>4 DEF SameContents
<1>7. \A o \in Q : object[o].refs \subseteq Q
  BY <1>2, <1>5 DEF SameContents
<1>8. Q \subseteq R
  BY <1>1, <1>2, <1>6
<1>9. R \subseteq Q
  BY <1>1, <1>2, <1>7
<1> QED
  BY <1>8, <1>9 DEF Q, R

LEMMA ChainFrame ==
  ASSUME ChainsFollowPrev, ChainsFollowPrev', SameContents,
         NEW CONSTANT o, o = NoSolution \/ (o \in solutionSteps /\ o \in solutionSteps')
  PROVE  chain'[o] = chain[o]
<1> DEFINE Both == solutionSteps \cap solutionSteps'
           S == {n \in Nat : \A q \in Both : q[1] < n => chain'[q] = chain[q]}
<1>1. ASSUME NEW q \in Both
      PROVE  /\ q[1] \in Nat
             /\ chain[q] = Append(chain[prevOf(q)], entryOf(q))
             /\ chain'[q] = Append(chain'[prevOf(q)'], entryOf(q)')
             /\ entryOf(q)' = entryOf(q)
             /\ prevOf(q)' = prevOf(q)
             /\ prevOf(q) = NoSolution \/ (prevOf(q) \in Both /\ prevOf(q)[1] < q[1])
  <2>1. q \in solutionSteps /\ q \in solutionSteps' /\ q \in DOMAIN object \cap DOMAIN object'
    BY DEF solutionSteps
  <2>2. /\ q[1] \in Nat
        /\ chain[q] = Append(chain[prevOf(q)], entryOf(q))
        /\ \/ prevOf(q) = NoSolution /\ object[q].refs = {}
           \/ /\ prevOf(q) \in solutionSteps /\ prevOf(q)[1] < q[1]
              /\ object[q].refs = {prevOf(q)}
    BY <2>1 DEF ChainsFollowPrev
  <2>3. /\ chain'[q] = Append(chain'[prevOf(q)'], entryOf(q)')
        /\ \/ prevOf(q)' = NoSolution /\ object'[q].refs = {}
           \/ /\ prevOf(q)' \in solutionSteps'
              /\ object'[q].refs = {prevOf(q)'}
    BY <2>1 DEF ChainsFollowPrev
  <2>4. object'[q].refs = object[q].refs /\ entryOf(q)' = entryOf(q)
    BY <2>1 DEF SameContents, entryOf
  <2>5. prevOf(q)' = prevOf(q)
    <3> DEFINE a == prevOf(q)
               b == prevOf(q)'
    <3>1. (a = NoSolution /\ object[q].refs = {}) \/ object[q].refs = {a}
      BY <2>2
    <3>2. (b = NoSolution /\ object[q].refs = {}) \/ object[q].refs = {b}
      BY <2>3, <2>4
    <3> HIDE DEF a, b
    <3>3. a = b
      BY <3>1, <3>2
    <3> QED
      BY <3>3 DEF a, b
  <2> QED
    BY <2>2, <2>3, <2>4, <2>5
<1>2. chain'[NoSolution] = chain[NoSolution]
  BY DEF ChainsFollowPrev
<1>3. 0 \in S
  BY <1>1
<1>4. ASSUME NEW n \in Nat, n \in S PROVE n + 1 \in S
  <2> SUFFICES ASSUME NEW q \in Both, q[1] < n + 1 PROVE chain'[q] = chain[q]
    OBVIOUS
  <2>1. chain'[prevOf(q)] = chain[prevOf(q)]
    <3>1. CASE prevOf(q) = NoSolution
      BY <1>2, <3>1
    <3>2. CASE prevOf(q) \in Both /\ prevOf(q)[1] < q[1]
      <4>1. prevOf(q)[1] < n
        <5>1. q[1] \in Nat /\ prevOf(q)[1] \in Nat
          BY <1>1, <3>2
        <5> QED
          BY <5>1, <3>2
      <4> QED
        BY <1>4, <3>2, <4>1
    <3> QED
      BY <1>1, <3>1, <3>2
  <2>2. /\ chain[q] = Append(chain[prevOf(q)], entryOf(q))
        /\ chain'[q] = Append(chain'[prevOf(q)'], entryOf(q)')
        /\ entryOf(q)' = entryOf(q) /\ prevOf(q)' = prevOf(q)
    BY <1>1
  <2>3. chain'[prevOf(q)'] = chain[prevOf(q)]
    BY <2>1, <2>2
  <2> QED
    BY <2>2, <2>3
<1> HIDE DEF S
<1>5. Nat \subseteq S
  BY <1>3, <1>4, Induction
<1>6. CASE o \in Both
  <2>1. o[1] \in Nat /\ o[1] < o[1] + 1 /\ o[1] + 1 \in Nat
    BY <1>1, <1>6
  <2> QED
    BY <1>5, <1>6, <2>1 DEF S
<1> QED
  BY <1>2, <1>6

(* A node that stays has the value it had.                                 *)
LEMMA ValueFrame ==
  ASSUME HeapInv, HeapInv', SameContents,
         NEW CONSTANT i, i \in DOMAIN node, i \in DOMAIN node', node'[i] = node[i]
  PROVE  valueOf(i)' = valueOf(i)
<1>1. /\ PointersStayInside /\ PointersStayInside'
      /\ SearchIsExact /\ SearchIsExact'
      /\ ChainsFollowPrev /\ ChainsFollowPrev'
  <2>1. HeapInv' => PointersStayInside' /\ SearchIsExact' /\ ChainsFollowPrev'
    BY InsideLemma, SearchLemma, ChainLemma, PTL
  <2> QED
    BY <2>1, InsideLemma, SearchLemma, ChainLemma
<1> DEFINE n == node[i]
           Start == n.prim \cup n.abs
<1>2. /\ Start \subseteq DOMAIN object /\ Start \subseteq DOMAIN object'
      /\ n.solution = NoSolution
         \/ (n.solution \in solutionSteps /\ n.solution \in solutionSteps')
  BY <1>1 DEF PointersStayInside
<1>3. \A X : X = Start => reachableFrom(X)' = reachableFrom(X)
  BY <1>1, <1>2, SearchFrame
<1>4. \A q : q = n.solution => chain'[q] = chain[q]
  BY <1>1, <1>2, ChainFrame
<1>5. reachableFrom(Start) \subseteq DOMAIN object \cap DOMAIN object'
  <2>1. \A X : X = Start => reachableFrom(X)' \subseteq DOMAIN object'
    BY <1>1, <1>2 DEF SearchIsExact, LeastClosed
  <2> QED
    BY <1>1, <1>2, <1>3, <2>1 DEF SearchIsExact, LeastClosed
<1>6. Start' = Start /\ node'[i] = n
  OBVIOUS
<1> DEFINE tasks == [s \in reachableFrom(Start) |-> object[s].task]
           succs == [s \in reachableFrom(Start) |-> object[s].refs]
           value == [n EXCEPT !.task = tasks, !.succ = succs, !.solution = chain[n.solution]]
<1>7. reachableFrom(Start)' = reachableFrom(Start)
  BY <1>3, <1>6
<1>8. tasks' = tasks /\ succs' = succs
  BY <1>5, <1>7 DEF SameContents
<1>9. chain'[n'.solution] = chain[n.solution]
  BY <1>4, <1>6
<1>10. valueOf(i) = value /\ valueOf(i)' = value'
  BY DEF valueOf
<1> HIDE DEF tasks, succs, Start
<1>11. value' = value
  BY <1>6, <1>8, <1>9
<1> QED
  BY <1>10, <1>11
-----------------------------------------------------------------------------
(* What one step does to the heap: old objects keep their contents, and    *)
(* the node made as number k ends its chain with the new solution step.    *)
ExtendsChain(i, k) ==
  /\ k = made + 1 /\ made' = k /\ htn' = htn /\ made < MaxProgressions
  /\ DOMAIN node' = DOMAIN node \cup {k} /\ k \notin DOMAIN node
  /\ \A j \in DOMAIN node : node'[j] = node[j]
  /\ DOMAIN node'[k] = NodeFields
  /\ node'[k].solution = <<k, 0>> /\ node'[k].fValue = 0 /\ node'[k].pushed = FALSE
  /\ DOMAIN object \cup {<<k, 0>>} \subseteq DOMAIN object'
  /\ object'[<<k, 0>>].refs = (IF node[i].solution = NoSolution THEN {} ELSE {node[i].solution})
  /\ \A o \in DOMAIN object' \ DOMAIN object :
       o # <<k, 0>> => o[2] # 0
  /\ SameContents

LEMMA ChainExtended ==
  ASSUME HeapInv, IInv', NEW i \in DOMAIN node, NEW k, ExtendsChain(i, k)
  PROVE  Chained'
<1>1. /\ made \in Nat /\ k \in Nat
      /\ \A o \in DOMAIN object : o[1] <= made /\ o[1] \in Nat
  BY MemoryAssumption DEF HeapInv, IInv, NamesInUse, StepNames, ExtendsChain
<1>2. ASSUME NEW j \in DOMAIN node' PROVE node'[j].solution[2] = 0
  BY DEF ExtendsChain, HeapInv, Chained
<1>3. solutionSteps' = solutionSteps \cup {<<k, 0>>}
  <2>1. /\ DOMAIN object \cup {<<k, 0>>} \subseteq DOMAIN object'
        /\ \A o \in DOMAIN object' \ DOMAIN object : o # <<k, 0>> => o[2] # 0
    BY DEF ExtendsChain
  <2>2. <<k, 0>>[2] = 0
    OBVIOUS
  <2> QED
    BY <2>1, <2>2 DEF solutionSteps
<1>4. ASSUME NEW o \in solutionSteps
      PROVE  object'[o].refs = {} \/ \E q \in solutionSteps' : q[1] < o[1] /\ object'[o].refs = {q}
  <2>1. o \in DOMAIN object \cap DOMAIN object'
    BY DEF solutionSteps, ExtendsChain
  <2>2. object'[o].refs = object[o].refs
    BY <2>1 DEF ExtendsChain, SameContents
  <2> QED
    BY <1>3, <2>2 DEF HeapInv, Chained
<1>5. LET e == object'[<<k, 0>>]
      IN  e.refs = {} \/ \E q \in solutionSteps' : q[1] < <<k, 0>>[1] /\ e.refs = {q}
  <2> DEFINE q == node[i].solution
  <2>1. CASE q = NoSolution
    BY <2>1 DEF ExtendsChain
  <2>2. CASE q # NoSolution
    <3>1. q \in solutionSteps
      BY <2>2, InsideLemma DEF PointersStayInside
    <3>2. q[1] < k
      BY <1>1, <3>1 DEF solutionSteps, ExtendsChain
    <3> QED
      BY <1>3, <2>2, <3>1, <3>2 DEF ExtendsChain
  <2> QED
    BY <2>1, <2>2
<1> QED
  BY <1>2, <1>3, <1>4, <1>5 DEF Chained

LEMMA ApplyExtends ==
  ASSUME HeapInv, NEW i \in DOMAIN node, NEW s \in node[i].prim, Apply(i, s)
  PROVE  LET n  == node[i]
             k  == made + 1
             a  == object[s].task
             after == (n.state \ htn.del[a]) \cup htn.add[a]
         IN  /\ ExtendsChain(i, k) /\ Fixed'
             /\ DOMAIN object' = DOMAIN object \cup {<<k, 0>>}
             /\ object'[<<k, 0>>] = newSolutionStep(a, 0, s, after, n.solution)
<1> DEFINE n  == node[i]
           k  == made + 1
           o2 == <<k, 0>>
           a  == object[s].task
           first == potentiallyFirstSteps(n, s)
           count == updateTaskCounterA(n, a)
           after == (n.state \ htn.del[a]) \cup htn.add[a]
           n2    == [n EXCEPT !.state = after,
                         !.prim = (@ \ {s}) \cup {t \in first : isPrimitive(htn, object[t].task)},
                         !.abs = @ \cup {t \in first : ~ isPrimitive(htn, object[t].task)},
                         !.contained = count.tasks,
                         !.numContained = count.num,
                         !.solution = <<k, 0>>,
                         !.actionCosts = @ + htn.cost[a],
                         !.modificationDepth = @ + 1,
                         !.mixedModificationDepth = @ + htn.cost[a]]
           e == newSolutionStep(a, 0, s, after, n.solution)
<1>1. /\ node' = [j \in DOMAIN node \cup {k} |-> IF j = k THEN n2 ELSE node[j]]
      /\ object' = [o \in DOMAIN object \cup {o2} |->
                      IF o = o2 THEN e
                      ELSE [object[o] EXCEPT !.pointersToMe = counted(n2, n.solution, o)]]
      /\ made' = k /\ htn' = htn /\ made < MaxProgressions
  BY DEF Apply
<1>2. /\ made \in Nat /\ k \notin DOMAIN node /\ o2 \notin DOMAIN object
      /\ \A o \in DOMAIN object : DOMAIN object[o] = ObjectFields
      /\ \A j \in DOMAIN node : /\ DOMAIN node[j] = NodeFields
                                /\ node[j].fValue = 0 /\ node[j].pushed = FALSE
  BY MemoryAssumption DEF HeapInv, IInv, NamesInUse, StepNames, Fixed
<1>3. /\ DOMAIN n2 = NodeFields /\ n2.solution = o2
      /\ n2.fValue = 0 /\ n2.pushed = FALSE
  BY <1>2 DEF NodeFields
<1>4. /\ DOMAIN e = ObjectFields
      /\ e.refs = (IF n.solution = NoSolution THEN {} ELSE {n.solution})
  BY DEF newSolutionStep, ObjectFields
<1> HIDE DEF n2, e
<1>5. ASSUME NEW o \in DOMAIN object
      PROVE  /\ object'[o] = [object[o] EXCEPT !.pointersToMe = counted(n2, n.solution, o)]
             /\ DOMAIN object'[o] = ObjectFields
             /\ object'[o].refs = object[o].refs /\ object'[o].task = object[o].task
             /\ object'[o].method = object[o].method /\ object'[o].step = object[o].step
             /\ object'[o].after = object[o].after
  <2>1. object'[o] = [object[o] EXCEPT !.pointersToMe = counted(n2, n.solution, o)]
    BY <1>1, <1>2
  <2> QED
    BY <1>2, <2>1
<1>6. SameContents
  BY <1>5 DEF SameContents
<1>7. ExtendsChain(i, k)
  <2>1. object'[o2] = e /\ DOMAIN object' = DOMAIN object \cup {o2}
    BY <1>1
  <2> QED
    BY <2>1, <1>1, <1>2, <1>3, <1>4, <1>6 DEF ExtendsChain
<1>8. Fixed'
  BY <1>1, <1>2, <1>3, <1>4, <1>5 DEF Fixed
<1> QED
  BY <1>1, <1>7, <1>8 DEF e

LEMMA DecomposeExtends ==
  ASSUME HeapInv, NEW i \in DOMAIN node, NEW d \in node[i].abs,
         NEW mi \in taskToMethods(htn, object[d].task), Decompose(i, d, mi)
  PROVE  LET n  == node[i]
             m  == htn.methods[mi]
             k  == made + 1
         IN  /\ ExtendsChain(i, k) /\ Fixed'
             /\ DOMAIN object' = DOMAIN object \cup {<<k, 0>>} \cup newSteps(m, k)
             /\ object'[<<k, 0>>] = newSolutionStep(m.task, mi, d, n.state, n.solution)
             /\ \A j \in Positions(m) : object'[<<k, j>>] = methodStep(m, d, k, j)
<1> DEFINE n     == node[i]
           m     == htn.methods[mi]
           k     == made + 1
           o2    == <<k, 0>>
           first == {<<k, j>> : j \in FirstTasks(m)}
           count == updateTaskCounterM(n, m)
           n2    == [n EXCEPT !.prim = @ \cup {t \in first : isPrimitive(htn, m.subs[t[2]])},
                         !.abs = (@ \ {d}) \cup {t \in first : ~ isPrimitive(htn, m.subs[t[2]])},
                         !.contained = count.tasks,
                         !.numContained = count.num,
                         !.solution = <<k, 0>>,
                         !.modificationDepth = @ + 1,
                         !.mixedModificationDepth = @ + 1]
           e     == newSolutionStep(m.task, mi, d, n.state, n.solution)
           new   == newSteps(m, k)
<1>1. /\ node' = [j \in DOMAIN node \cup {k} |-> IF j = k THEN n2 ELSE node[j]]
      /\ object' = [o \in DOMAIN object \cup {o2} \cup new |->
                      IF o = o2 THEN e
                      ELSE IF o \in new THEN methodStep(m, d, k, o[2])
                      ELSE [object[o] EXCEPT !.pointersToMe =
                              counted(n2, n.solution, o) + inherited(m, d, o)]]
      /\ made' = k /\ htn' = htn /\ made < MaxProgressions
  BY DEF Decompose
<1>2. /\ made \in Nat /\ k \notin DOMAIN node
      /\ \A o \in DOMAIN object : o[1] # k /\ DOMAIN object[o] = ObjectFields
      /\ \A j \in DOMAIN node : /\ DOMAIN node[j] = NodeFields
                                /\ node[j].fValue = 0 /\ node[j].pushed = FALSE
  BY MemoryAssumption DEF HeapInv, IInv, NamesInUse, StepNames, Fixed
<1>3. /\ DOMAIN n2 = NodeFields /\ n2.solution = o2
      /\ n2.fValue = 0 /\ n2.pushed = FALSE
  BY <1>2 DEF NodeFields
<1>4. /\ DOMAIN e = ObjectFields
      /\ e.refs = (IF n.solution = NoSolution THEN {} ELSE {n.solution})
      /\ \A j : DOMAIN methodStep(m, d, k, j) = ObjectFields
  BY DEF newSolutionStep, methodStep, newPlanStep, ObjectFields
<1>5. Positions(m) \subseteq Nat \ {0}
  BY MethodFacts DEF HeapInv, IInv
<1> HIDE DEF n2, e, m
<1>6. \A o \in new : o[1] = k /\ o[2] \in Positions(m) /\ o = <<k, o[2]>> /\ o[2] # 0
  BY <1>5 DEF newSteps
<1>7. /\ \A o \in new : o # o2 /\ o \notin DOMAIN object
      /\ o2 \notin DOMAIN object
  BY <1>2, <1>6
<1>8. ASSUME NEW o \in DOMAIN object
      PROVE  /\ DOMAIN object'[o] = ObjectFields
             /\ object'[o].refs = object[o].refs /\ object'[o].task = object[o].task
             /\ object'[o].method = object[o].method /\ object'[o].step = object[o].step
             /\ object'[o].after = object[o].after
  <2>1. object'[o] = [object[o] EXCEPT !.pointersToMe =
                        counted(n2, n.solution, o) + inherited(m, d, o)]
    BY <1>1, <1>7
  <2> QED
    BY <1>2, <2>1
<1>9. SameContents
  BY <1>8 DEF SameContents
<1>10. /\ object'[o2] = e /\ DOMAIN object' = DOMAIN object \cup {o2} \cup new
       /\ \A j \in Positions(m) : object'[<<k, j>>] = methodStep(m, d, k, j)
  <2>1. \A j \in Positions(m) : <<k, j>> \in new
    BY DEF newSteps
  <2> QED
    BY <1>1, <1>6, <1>7, <2>1
<1>11. ExtendsChain(i, k)
  BY <1>1, <1>2, <1>3, <1>4, <1>6, <1>9, <1>10 DEF ExtendsChain
<1>12. Fixed'
  <2>1. ASSUME NEW o \in DOMAIN object' PROVE DOMAIN object'[o] = ObjectFields
    BY <1>4, <1>6, <1>8, <1>10
  <2> QED
    BY <1>1, <1>2, <1>3, <2>1 DEF Fixed
<1> QED
  BY <1>10, <1>11, <1>12 DEF e, m
LEMMA DeleteKeeps ==
  ASSUME HeapInv, NEW i \in DOMAIN node, Delete(i)
  PROVE  /\ Chained' /\ Fixed' /\ SameContents
         /\ DOMAIN node' = DOMAIN node \ {i} /\ \A j \in DOMAIN node' : node'[j] = node[j]
<1>1. /\ DOMAIN node' = DOMAIN node \ {i} /\ \A j \in DOMAIN node' : node'[j] = node[j]
      /\ object' = object
  BY DEF Delete, Restrict
<1>2. solutionSteps' = solutionSteps
  BY <1>1 DEF solutionSteps
<1> QED
  BY <1>1, <1>2 DEF HeapInv, Chained, Fixed, SameContents

LEMMA DropPointerKeeps ==
  ASSUME HeapInv, IInv', NEW p \in dropping, DropPointer(p)
  PROVE  Chained' /\ Fixed' /\ SameContents
<1> DEFINE o    == p[2]
           left == object[o].pointersToMe - 1
<1>1. /\ object' = IF left = 0 THEN Restrict(object, DOMAIN object \ {o})
                   ELSE [object EXCEPT ![o].pointersToMe = left]
      /\ node' = node
  BY DEF DropPointer
<1>2. \A x \in DOMAIN object : DOMAIN object[x] = ObjectFields
  BY DEF HeapInv, Fixed
<1> HIDE DEF left
<1>3. /\ DOMAIN object' \subseteq DOMAIN object
      /\ \A x \in DOMAIN object' :
           \/ object'[x] = object[x]
           \/ object'[x] = [object[x] EXCEPT !.pointersToMe = left]
  <2>1. CASE left = 0
    BY <1>1, <2>1 DEF Restrict
  <2>2. CASE left # 0
    BY <1>1, <2>2
  <2> QED
    BY <2>1, <2>2
<1>4. ASSUME NEW x \in DOMAIN object'
      PROVE  /\ DOMAIN object'[x] = ObjectFields
             /\ object'[x].refs = object[x].refs /\ object'[x].task = object[x].task
             /\ object'[x].method = object[x].method /\ object'[x].step = object[x].step
             /\ object'[x].after = object[x].after
  <2>1. CASE object'[x] = object[x]
    BY <1>2, <1>3, <2>1
  <2>2. CASE object'[x] = [object[x] EXCEPT !.pointersToMe = left]
    BY <1>2, <1>3, <2>2
  <2> QED
    BY <1>3, <2>1, <2>2
<1>5. SameContents
  BY <1>4 DEF SameContents
<1>6. Fixed'
  BY <1>1, <1>4 DEF HeapInv, Fixed
<1>7. Chained'
  <2>1. \A q \in solutionSteps' : object'[q].refs \subseteq DOMAIN object'
    <3>1. IInv' => NothingDangles'
      BY DEF IInv
    <3>2. ASSUME NEW q \in DOMAIN object', NEW r \in object'[q].refs PROVE r \in DOMAIN object'
      <4>1. <<q, r>> \in Pointers'
        BY MembershipAfter
      <4> QED
        BY <3>1, <4>1 DEF NothingDangles
    <3> QED
      BY <3>2 DEF solutionSteps
  <2>2. solutionSteps' = solutionSteps \cap DOMAIN object'
    BY <1>3 DEF solutionSteps
  <2>3. ASSUME NEW q \in solutionSteps'
        PROVE  object'[q].refs = {} \/ \E r \in solutionSteps' : r[1] < q[1] /\ object'[q].refs = {r}
    <3>1. q \in solutionSteps /\ object'[q].refs = object[q].refs
      BY <1>4, <2>2
    <3> QED
      BY <2>1, <2>2, <3>1 DEF HeapInv, Chained
  <2> QED
    BY <1>1, <2>3 DEF HeapInv, Chained
<1> QED
  BY <1>5, <1>6, <1>7

LEMMA StepHeapInv ==
  ASSUME HeapInv, [Next]_vars
  PROVE  HeapInv' /\ SameContents
<1>1. IInv' /\ Tidy'
  BY StepIInv, StepTidy DEF HeapInv
<1>2. ASSUME NEW i \in DOMAIN node, NEW s \in node[i].prim, Apply(i, s)
      PROVE  Chained' /\ Fixed' /\ SameContents
  <2>1. ExtendsChain(i, made + 1) /\ Fixed'
    BY <1>2, ApplyExtends
  <2> QED
    BY <1>1, <2>1, ChainExtended DEF ExtendsChain
<1>3. ASSUME NEW i \in DOMAIN node, NEW d \in node[i].abs,
             NEW mi \in taskToMethods(htn, object[d].task), Decompose(i, d, mi)
      PROVE  Chained' /\ Fixed' /\ SameContents
  <2>1. ExtendsChain(i, made + 1) /\ Fixed'
    BY <1>3, DecomposeExtends
  <2> QED
    BY <1>1, <2>1, ChainExtended DEF ExtendsChain
<1>4. ASSUME NEW i \in DOMAIN node, Delete(i) PROVE Chained' /\ Fixed' /\ SameContents
  BY <1>4, DeleteKeeps
<1>5. ASSUME NEW p \in dropping, DropPointer(p) PROVE Chained' /\ Fixed' /\ SameContents
  BY <1>1, <1>5, DropPointerKeeps
<1>6. ASSUME UNCHANGED vars PROVE Chained' /\ Fixed' /\ SameContents
  <2>1. node' = node /\ object' = object /\ solutionSteps' = solutionSteps
    BY <1>6 DEF vars, solutionSteps
  <2> QED
    BY <2>1 DEF HeapInv, Chained, Fixed, SameContents
<1>7. Chained' /\ Fixed' /\ SameContents
  BY <1>2, <1>3, <1>4, <1>5, <1>6 DEF Next
<1> QED
  BY <1>1, <1>7 DEF HeapInv

LEMMA InitHeapInv == ASSUME Init PROVE HeapInv
<1>1. /\ DOMAIN node = {0} /\ DOMAIN object = {<<0, 1>>}
      /\ node[0] = [prepareTNi(htn) EXCEPT !.task = << >>, !.succ = << >>,
                                           !.solution = NoSolution]
      /\ object[<<0, 1>>] = newPlanStep(htn.initialTask, {}, 1)
  BY DEF Init
<1>2. /\ DOMAIN node[0] = NodeFields /\ node[0].solution = NoSolution
      /\ node[0].fValue = 0 /\ node[0].pushed = FALSE
  BY <1>1 DEF prepareTNi, NodeFields
<1>3. DOMAIN object[<<0, 1>>] = ObjectFields
  BY <1>1 DEF newPlanStep, ObjectFields
<1>4. solutionSteps = {} /\ NoSolution[2] = 0
  BY <1>1 DEF solutionSteps, NoSolution
<1> QED
  BY <1>1, <1>2, <1>3, <1>4, InitIInv, InitTidy DEF HeapInv, Chained, Fixed

-----------------------------------------------------------------------------
(* A well-formed network w whose steps are on the heap with their tasks    *)
(* and successors is all that its first steps reach: whatever else they    *)
(* reached would have to precede itself.                                   *)
LEMMA WholeNetwork ==
  HeapInv => \A h, w :
    WellFormed(h, w) /\ Steps(w) \subseteq DOMAIN object
      /\ (\A t \in Steps(w) : object[t].refs = w.succ[t])
    => reachableFrom(Unconstraint(w)) = Steps(w)
<1> SUFFICES ASSUME HeapInv, NEW h, NEW w, WellFormed(h, w), Steps(w) \subseteq DOMAIN object,
                    \A t \in Steps(w) : object[t].refs = w.succ[t]
             PROVE  reachableFrom(Unconstraint(w)) = Steps(w)
  OBVIOUS
<1> DEFINE U == Unconstraint(w)
           R == reachableFrom(U)
<1>1. /\ w.succ \in [Steps(w) -> SUBSET Steps(w)]
      /\ U = {s \in Steps(w) : \A t \in Steps(w) : s \notin w.succ[t]}
      /\ \A X \in (SUBSET Steps(w)) \ {{}} : \E x \in X : \A y \in X : x \notin w.succ[y]
  BY DEF WellFormed, NodeType, FirstSteps, AcyclicNetwork
<1>2. /\ U \subseteq R
      /\ \A o \in R : object[o].refs \subseteq R
      /\ \A X : U \subseteq X /\ (\A o \in X : object[o].refs \subseteq X) => R \subseteq X
  <2>1. U \in SUBSET DOMAIN object
    BY <1>1
  <2> QED
    BY <2>1, SearchLemma DEF SearchIsExact, LeastClosed, ClosedSet
<1> HIDE DEF R, U
<1>3. R \subseteq Steps(w)
  BY <1>1, <1>2
<1>4. Steps(w) \subseteq R
  <2> DEFINE X == Steps(w) \ R
  <2>1. SUFFICES ASSUME X # {} PROVE FALSE
    OBVIOUS
  <2>2. PICK x \in X : \A y \in X : x \notin w.succ[y]
    BY <1>1, <2>1
  <2>3. PICK t \in Steps(w) : x \in w.succ[t]
    BY <1>1, <1>2, <2>2
  <2> QED
    BY <1>2, <2>2, <2>3
<1> QED
  BY <1>3, <1>4 DEF R, U

(* A node that agrees with w, on a heap that holds the steps and the chain *)
(* of w, has the value w.                                                  *)
Holds(w, n) ==
  /\ w = [f \in NodeFields |-> w[f]]
  /\ \A f \in NodeFields \ {"task", "succ", "solution"} : n[f] = w[f]
  /\ w.task = [t \in Steps(w) |-> object[t].task] /\ w.succ = [t \in Steps(w) |-> object[t].refs]
  /\ Steps(w) \subseteq DOMAIN object
  /\ chain[n.solution] = w.solution

NetworksAreValues ==
  \A h, w : \A i \in DOMAIN node : WellFormed(h, w) /\ Holds(w, node[i]) => valueOf(i) = w

LEMMA ValueIs == HeapInv => NetworksAreValues
<1> SUFFICES ASSUME HeapInv, NEW h, NEW w, NEW i \in DOMAIN node,
                    WellFormed(h, w), Holds(w, node[i])
             PROVE  valueOf(i) = w
  BY DEF NetworksAreValues
<1> DEFINE n == node[i]
<1>1. n.prim \cup n.abs = Unconstraint(w)
  BY DEF Holds, Unconstraint, NodeFields
<1>2. reachableFrom(n.prim \cup n.abs) = Steps(w)
  <2>1. \A t \in Steps(w) : object[t].refs = w.succ[t]
    BY DEF Holds
  <2>2. Steps(w) \subseteq DOMAIN object
    BY DEF Holds
  <2> QED
    BY <1>1, <2>1, <2>2, WholeNetwork
<1>3. valueOf(i) = [n EXCEPT !.task = w.task, !.succ = w.succ, !.solution = w.solution]
  BY <1>2 DEF Holds, valueOf
<1>4. DOMAIN n = NodeFields
  BY DEF HeapInv, Fixed
<1>5. ASSUME NEW f \in NodeFields PROVE valueOf(i)[f] = w[f]
  BY <1>3, <1>4 DEF Holds
<1>6. valueOf(i) = [f \in NodeFields |-> valueOf(i)[f]]
  BY <1>3, <1>4
<1> QED
  BY <1>5, <1>6 DEF Holds
-----------------------------------------------------------------------------
ValueInv == \A i \in DOMAIN node : NodeInv(htn, valueOf(i), made + 1)

LEMMA ValueFacts ==
  ASSUME HeapInv, NEW i \in DOMAIN node
  PROVE  LET n == node[i]
             v == valueOf(i)
             R == reachableFrom(n.prim \cup n.abs)
         IN  /\ \A f \in NodeFields \ {"task", "succ", "solution"} : v[f] = n[f]
             /\ v.task = [t \in R |-> object[t].task] /\ v.succ = [t \in R |-> object[t].refs]
             /\ v.solution = chain[n.solution]
             /\ Steps(v) = R /\ R \subseteq DOMAIN object
             /\ n.prim \cup n.abs \subseteq R
             /\ \A t \in R : object[t].refs \subseteq R
<1> DEFINE n == node[i]
           R == reachableFrom(n.prim \cup n.abs)
           tasks == [t \in R |-> object[t].task]
           succs == [t \in R |-> object[t].refs]
<1>1. n.prim \cup n.abs \subseteq DOMAIN object
  BY InsideLemma DEF PointersStayInside
<1>2. LeastClosed(R, n.prim \cup n.abs)
  BY <1>1, SearchLemma DEF SearchIsExact
<1>3. DOMAIN n = NodeFields
  BY DEF HeapInv, Fixed
<1>4. valueOf(i) = [n EXCEPT !.task = tasks, !.succ = succs, !.solution = chain[n.solution]]
  BY DEF valueOf
<1> HIDE DEF tasks, succs
<1>5. /\ \A f \in NodeFields \ {"task", "succ", "solution"} : valueOf(i)[f] = n[f]
      /\ valueOf(i).task = tasks /\ valueOf(i).succ = succs
      /\ valueOf(i).solution = chain[n.solution]
  BY <1>3, <1>4 DEF NodeFields
<1> QED
  BY <1>2, <1>5 DEF LeastClosed, ClosedSet, Steps, tasks, succs

(* The search of apply in the heap finds what the value's does.            *)
LEMMA SameFirstSteps ==
  ASSUME HeapInv, NEW i \in DOMAIN node, NEW s \in Unconstraint(node[i])
  PROVE  potentiallyFirstSteps(node[i], s) = potentiallyFirst(valueOf(i), s)
<1> DEFINE n == node[i]
           v == valueOf(i)
           R == reachableFrom(n.prim \cup n.abs)
           Others == (Unconstraint(n) \ {s}) \cup object[s].refs
           P == UNION {object[t].refs : t \in Others}
<1>1. /\ v.prim = n.prim /\ v.abs = n.abs
      /\ v.succ = [t \in R |-> object[t].refs] /\ R \subseteq DOMAIN object
      /\ Unconstraint(n) \subseteq R /\ \A t \in R : object[t].refs \subseteq R
  BY ValueFacts DEF NodeFields, Unconstraint
<1> HIDE DEF n, v, R
<1>2. s \in R /\ Others \subseteq R /\ P \subseteq R /\ v.succ[s] = object[s].refs
  BY <1>1 DEF n
<1>3. Unconstraint(v) = Unconstraint(n)
  BY <1>1 DEF Unconstraint
<1>4. P = UNION {v.succ[t] : t \in (Unconstraint(v) \ {s}) \cup v.succ[s]}
  <2>1. Others = (Unconstraint(v) \ {s}) \cup v.succ[s]
    BY <1>2, <1>3
  <2>2. \A t \in Others : v.succ[t] = object[t].refs
    BY <1>1, <1>2
  <2> HIDE DEF Others
  <2>3. P = UNION {v.succ[t] : t \in Others}
    BY <2>2
  <2> QED
    BY <2>1, <2>3
<1>5. LeastClosed(reachableFrom(P), P)
  BY <1>1, <1>2, SearchLemma DEF SearchIsExact
<1> HIDE DEF P, Others
<1>6. Reachable(v.succ, P) \subseteq reachableFrom(P)
  <2> DEFINE X == reachableFrom(P)
  <2>1. X \subseteq R /\ P \subseteq X
    BY <1>1, <1>2, <1>5 DEF LeastClosed, ClosedSet
  <2>2. X \in SUBSET DOMAIN v.succ /\ \A t \in X : v.succ[t] \subseteq X
    BY <1>1, <1>5, <2>1 DEF LeastClosed, ClosedSet
  <2> HIDE DEF X
  <2>3. Reachable(v.succ, P) \subseteq X
    BY <2>1, <2>2, ReachableInClosed
  <2> QED
    BY <2>3 DEF X
<1>7. reachableFrom(P) \subseteq Reachable(v.succ, P)
  <2> DEFINE X == Reachable(v.succ, P)
  <2>1. P \in SUBSET DOMAIN v.succ /\ \A t \in DOMAIN v.succ : v.succ[t] \subseteq DOMAIN v.succ
    BY <1>1, <1>2
  <2>2. P \subseteq X /\ \A t \in X : v.succ[t] \subseteq X
    BY <2>1, StartIsReachable, SuccessorIsReachable
  <2>3. X \subseteq R
    BY <1>1 DEF Reachable
  <2> HIDE DEF X
  <2>4. ClosedSet(X)
    BY <1>1, <2>2, <2>3 DEF ClosedSet
  <2>5. reachableFrom(P) \subseteq X
    BY <1>5, <2>2, <2>4 DEF LeastClosed
  <2> QED
    BY <2>5 DEF X
<1>8. reachableFrom(P) = Reachable(v.succ, P)
  BY <1>6, <1>7
<1>9. potentiallyFirstSteps(n, s) = object[s].refs \ reachableFrom(P)
  BY DEF potentiallyFirstSteps, P, Others
<1>10. potentiallyFirst(v, s) = v.succ[s] \ Reachable(v.succ, P)
  BY <1>4 DEF potentiallyFirst
<1> QED
  BY <1>2, <1>8, <1>9, <1>10 DEF n, v

(* The new node's chain is its parent's, with the new solution step.       *)
LEMMA ChainGrows ==
  ASSUME HeapInv, HeapInv', NEW CONSTANT i, i \in DOMAIN node,
         NEW CONSTANT k, ExtendsChain(i, k)
  PROVE  LET e == object'[<<k, 0>>]
         IN  chain'[<<k, 0>>] =
               Append(chain[node[i].solution],
                      [step |-> e.step, instance |-> k, task |-> e.task,
                       method |-> e.method, after |-> e.after])
<1> DEFINE o2 == <<k, 0>>
           q  == node[i].solution
<1>1. ChainsFollowPrev /\ ChainsFollowPrev'
  <2>1. HeapInv' => ChainsFollowPrev'
    BY ChainLemma, PTL
  <2> QED
    BY <2>1, ChainLemma
<1>2. o2 \in solutionSteps' /\ o2[1] = k
  BY DEF ExtendsChain, solutionSteps
<1>3. /\ chain'[o2] = Append(chain'[prevOf(o2)'], entryOf(o2)')
      /\ \/ prevOf(o2)' = NoSolution /\ object'[o2].refs = {}
         \/ object'[o2].refs = {prevOf(o2)'}
  BY <1>1, <1>2 DEF ChainsFollowPrev
<1>4. object'[o2].refs = (IF q = NoSolution THEN {} ELSE {q})
  BY DEF ExtendsChain
<1>5. prevOf(o2)' = q
  <2> DEFINE p == prevOf(o2)'
  <2>1. (p = NoSolution /\ object'[o2].refs = {}) \/ object'[o2].refs = {p}
    BY <1>3
  <2> HIDE DEF p
  <2>2. p = q
    BY <2>1, <1>4
  <2> QED
    BY <2>2 DEF p
<1>6. chain'[q] = chain[q]
  <2>1. q = NoSolution \/ (q \in solutionSteps /\ q \in solutionSteps')
    <3>1. q # NoSolution => q \in solutionSteps
      BY InsideLemma DEF PointersStayInside
    <3> QED
      BY <3>1 DEF solutionSteps, ExtendsChain
  <2>2. \A x : x = q => chain'[x] = chain[x]
    BY <1>1, <2>1, ChainFrame DEF ExtendsChain
  <2> QED
    BY <2>2
<1>7. entryOf(o2)' = [step |-> object'[o2].step, instance |-> k, task |-> object'[o2].task,
                      method |-> object'[o2].method, after |-> object'[o2].after]
  BY <1>2 DEF entryOf
<1>8. chain'[o2] = Append(chain'[q], entryOf(o2)')
  BY <1>3, <1>5
<1> QED
  BY <1>6, <1>7, <1>8

(* Node k is the network w, whose chain is that of node i and one more.    *)
NewlyHolds(w, i, k) ==
  /\ w = [f \in NodeFields |-> w[f]]
  /\ \A f \in NodeFields \ {"task", "succ", "solution"} : node'[k][f] = w[f]
  /\ Steps(w) \subseteq DOMAIN object'
  /\ \A t \in Steps(w) : w.task[t] = object'[t].task /\ w.succ[t] = object'[t].refs
  /\ LET e == object'[<<k, 0>>]
     IN  w.solution = Append(chain[node[i].solution],
                             [step |-> e.step, instance |-> k, task |-> e.task,
                              method |-> e.method, after |-> e.after])

LEMMA NewNode ==
  ASSUME HeapInv, HeapInv', NEW CONSTANT i, i \in DOMAIN node,
         NEW CONSTANT k, ExtendsChain(i, k),
         NEW h, NEW w, WellFormed(h, w), NewlyHolds(w, i, k)
  PROVE  valueOf(k)' = w
<1>1. w.task = [t \in Steps(w) |-> object'[t].task] /\ w.succ = [t \in Steps(w) |-> object'[t].refs]
  BY DEF WellFormed, NodeType, NewlyHolds
<1>2. chain'[<<k, 0>>] = w.solution
  BY ChainGrows DEF NewlyHolds
<1>3. chain'[node'[k].solution] = w.solution /\ k \in DOMAIN node'
  BY <1>2 DEF ExtendsChain
<1>4. NetworksAreValues'
  <2>1. HeapInv' => NetworksAreValues'
    BY ValueIs, PTL
  <2> QED
    BY <2>1
<1>5. Holds(w, node[k])'
  BY <1>1, <1>3 DEF Holds, NewlyHolds
<1> QED
  BY <1>3, <1>4, <1>5 DEF NetworksAreValues

(* Model::apply makes the node that applyStep describes.                   *)
LEMMA ApplyValue ==
  ASSUME HeapInv, HeapInv', ValueInv,
         NEW CONSTANT i, i \in DOMAIN node, NEW s \in node[i].prim, Apply(i, s)
  PROVE  /\ s \in applicableSteps(htn, valueOf(i))
         /\ \A j : j = made + 1 => valueOf(j)' = applyStep(htn, valueOf(i), s, j)
<1> DEFINE n  == node[i]
           v  == valueOf(i)
           R  == reachableFrom(n.prim \cup n.abs)
           k  == made + 1
           a  == object[s].task
           after == (n.state \ htn.del[a]) \cup htn.add[a]
           w  == applyStep(htn, v, s, k)
<1>1. /\ \A f \in NodeFields \ {"task", "succ", "solution"} : v[f] = n[f]
      /\ v.task = [t \in R |-> object[t].task] /\ v.succ = [t \in R |-> object[t].refs]
      /\ v.solution = chain[n.solution]
      /\ Steps(v) = R /\ R \subseteq DOMAIN object
      /\ n.prim \cup n.abs \subseteq R
  BY ValueFacts
<1>2. NodeInv(htn, v, k) /\ k \in Nat /\ IsProblem(htn)
  BY MemoryAssumption DEF ValueInv, HeapInv, IInv, NamesInUse
<1>3. /\ v.state = n.state /\ v.prim = n.prim /\ v.abs = n.abs
      /\ v.contained = n.contained /\ v.numContained = n.numContained
      /\ v.actionCosts = n.actionCosts /\ v.modificationDepth = n.modificationDepth
      /\ v.mixedModificationDepth = n.mixedModificationDepth
  BY <1>1 DEF NodeFields
<1>4. s \in R /\ v.task[s] = a /\ v.prim = n.prim
  BY <1>1, <1>3
<1>5. s \in applicableSteps(htn, v)
  BY <1>3, <1>4 DEF Apply, applicableSteps, isApplicable
<1>6. WellFormed(htn, w)
  BY SMTT(40), <1>2, <1>5, AppliedNode DEF NodeInv
<1>7. LET n2 == node'[k]
          first == potentiallyFirst(v, s)
          count == updateTaskCounterA(v, a)
      IN  /\ n2.state = after
          /\ n2.prim = (n.prim \ {s}) \cup {t \in first : isPrimitive(htn, object[t].task)}
          /\ n2.abs = n.abs \cup {t \in first : ~ isPrimitive(htn, object[t].task)}
          /\ n2.contained = count.tasks /\ n2.numContained = count.num
          /\ n2.solution = <<k, 0>> /\ n2.actionCosts = n.actionCosts + htn.cost[a]
          /\ n2.modificationDepth = n.modificationDepth + 1
          /\ n2.mixedModificationDepth = n.mixedModificationDepth + htn.cost[a]
          /\ n2.fValue = 0 /\ n2.pushed = FALSE
  <2>1. potentiallyFirstSteps(n, s) = potentiallyFirst(v, s)
    BY SameFirstSteps DEF Unconstraint
  <2>2. updateTaskCounterA(n, a) = updateTaskCounterA(v, a)
    BY <1>3 DEF updateTaskCounterA
  <2>3. DOMAIN n = NodeFields /\ n.fValue = 0 /\ n.pushed = FALSE
    BY DEF HeapInv, Fixed
  <2> HIDE DEF v
  <2> QED
    BY <2>1, <2>2, <2>3 DEF Apply, NodeFields
<1>8. /\ ExtendsChain(i, k) /\ DOMAIN object' = DOMAIN object \cup {<<k, 0>>}
      /\ object'[<<k, 0>>] = newSolutionStep(a, 0, s, after, n.solution)
  BY SMTT(40), ApplyExtends
<1>9. /\ w = [f \in NodeFields |-> w[f]]
      /\ Steps(w) = R \ {s}
      /\ \A t \in R \ {s} : w.task[t] = v.task[t] /\ w.succ[t] = v.succ[t]
      /\ w.solution = Append(v.solution, [step |-> s, instance |-> k, task |-> v.task[s],
                                          method |-> 0, after |-> w.state])
      /\ w.state = after
  BY <1>1, <1>3, <1>4 DEF applyStep, NodeFields, Steps, Restrict
<1>10. \A f \in NodeFields \ {"task", "succ", "solution"} : node'[k][f] = w[f]
  <2> DEFINE first == potentiallyFirst(v, s)
             count == updateTaskCounterA(v, a)
  <2>1. first \subseteq R
    BY <1>1, <1>4, <1>2 DEF potentiallyFirst, NodeInv, WellFormed, NodeType
  <2>2. /\ {t \in first : isPrimitive(htn, object[t].task)} =
             {t \in first : isPrimitive(htn, v.task[t])}
        /\ {t \in first : ~ isPrimitive(htn, object[t].task)} =
             {t \in first : ~ isPrimitive(htn, v.task[t])}
    BY <1>1, <2>1
  <2>3. /\ w.prim = (v.prim \ {s}) \cup {t \in first : isPrimitive(htn, v.task[t])}
        /\ w.abs = v.abs \cup {t \in first : ~ isPrimitive(htn, v.task[t])}
        /\ w.contained = count.tasks /\ w.numContained = count.num
        /\ w.actionCosts = v.actionCosts + htn.cost[a]
        /\ w.modificationDepth = v.modificationDepth + 1
        /\ w.mixedModificationDepth = v.mixedModificationDepth + htn.cost[a]
        /\ w.fValue = 0 /\ w.pushed = FALSE
    BY <1>4 DEF applyStep
  <2> HIDE DEF w, v, first, count
  <2>4. node'[k].prim = w.prim
    BY <1>3, <1>7, <2>2, <2>3 DEF first
  <2>5. node'[k].abs = w.abs
    BY <1>3, <1>7, <2>2, <2>3 DEF first
  <2> HIDE DEF n, a, after, k
  <2>6. node'[k].state = w.state
    BY <1>7, <1>9
  <2>7. node'[k].contained = w.contained /\ node'[k].numContained = w.numContained
    BY <1>7, <2>3 DEF count
  <2>8. /\ node'[k].actionCosts = w.actionCosts
        /\ node'[k].modificationDepth = w.modificationDepth
        /\ node'[k].mixedModificationDepth = w.mixedModificationDepth
    BY <1>3, <1>7, <2>3
  <2>9. node'[k].fValue = w.fValue /\ node'[k].pushed = w.pushed
    BY <1>7, <2>3
  <2> QED
    BY <2>4, <2>5, <2>6, <2>7, <2>8, <2>9 DEF NodeFields
<1> HIDE DEF w, v, R
<1>11. ASSUME NEW t \in Steps(w)
       PROVE  /\ t \in DOMAIN object'
              /\ w.task[t] = object'[t].task /\ w.succ[t] = object'[t].refs
  <2>1. t \in R /\ t \in DOMAIN object \cap DOMAIN object'
    BY <1>1, <1>8, <1>9
  <2>2. object'[t].task = object[t].task /\ object'[t].refs = object[t].refs
    BY <1>8, <2>1 DEF ExtendsChain, SameContents
  <2>3. w.task[t] = v.task[t] /\ w.succ[t] = v.succ[t]
    BY <1>9
  <2> QED
    BY <1>1, <2>1, <2>2, <2>3
<1>12. w.solution = LET e == object'[<<k, 0>>]
                    IN  Append(chain[n.solution],
                               [step |-> e.step, instance |-> k, task |-> e.task,
                                method |-> e.method, after |-> e.after])
  <2> DEFINE e == object'[<<k, 0>>]
  <2>1. e.step = s /\ e.task = a /\ e.method = 0 /\ e.after = after
    BY <1>8 DEF newSolutionStep
  <2> HIDE DEF e, after, a
  <2>2. w.solution = Append(chain[n.solution], [step |-> e.step, instance |-> k, task |-> e.task,
                                                method |-> e.method, after |-> e.after])
    BY <1>1, <1>4, <1>9, <2>1
  <2> QED
    BY <2>2 DEF e
<1>13. NewlyHolds(w, i, k)
  <2> HIDE DEF k
  <2> QED
    BY <1>9, <1>10, <1>11, <1>12 DEF NewlyHolds
<1>14. ASSUME NEW j, j = k PROVE valueOf(j)' = w
  <2>1. ExtendsChain(i, j) /\ NewlyHolds(w, i, j)
    BY <1>8, <1>13, <1>14
  <2> QED
    BY <1>6, <2>1, NewNode
<1> QED
  BY <1>5, <1>14 DEF v, w

(* Model::decompose makes the node that decomposeStep describes.           *)
LEMMA DecomposeValue ==
  ASSUME HeapInv, HeapInv', ValueInv,
         NEW CONSTANT i, i \in DOMAIN node, NEW d \in node[i].abs,
         NEW mi \in taskToMethods(htn, object[d].task), Decompose(i, d, mi)
  PROVE  /\ d \in valueOf(i).abs /\ mi \in taskToMethods(htn, valueOf(i).task[d])
         /\ \A j : j = made + 1 => valueOf(j)' = decomposeStep(htn, valueOf(i), d, mi, j)
<1> DEFINE n  == node[i]
           v  == valueOf(i)
           m  == htn.methods[mi]
           R  == reachableFrom(n.prim \cup n.abs)
           k  == made + 1
           new == newSteps(m, k)
           first == {<<k, j>> : j \in FirstTasks(m)}
           count == updateTaskCounterM(v, m)
           w  == decomposeStep(htn, v, d, mi, k)
<1>1. /\ \A f \in NodeFields \ {"task", "succ", "solution"} : v[f] = n[f]
      /\ v.task = [t \in R |-> object[t].task] /\ v.succ = [t \in R |-> object[t].refs]
      /\ v.solution = chain[n.solution]
      /\ Steps(v) = R /\ R \subseteq DOMAIN object
      /\ n.prim \cup n.abs \subseteq R
  BY ValueFacts
<1>2. NodeInv(htn, v, k) /\ k \in Nat /\ IsProblem(htn)
  BY MemoryAssumption DEF ValueInv, HeapInv, IInv, NamesInUse
<1>3. /\ v.state = n.state /\ v.prim = n.prim /\ v.abs = n.abs
      /\ v.contained = n.contained /\ v.numContained = n.numContained
      /\ v.actionCosts = n.actionCosts /\ v.modificationDepth = n.modificationDepth
      /\ v.mixedModificationDepth = n.mixedModificationDepth
  BY <1>1 DEF NodeFields
<1>4. /\ d \in R /\ v.task[d] = object[d].task /\ v.succ[d] = object[d].refs
      /\ d \in v.abs /\ mi \in taskToMethods(htn, v.task[d])
  BY <1>1, <1>3
<1>5. WellFormed(htn, w)
  BY <1>2, <1>4, DecomposedNode DEF NodeInv
<1>6. LET n2 == node'[k]
      IN  /\ n2.state = n.state
          /\ n2.prim = n.prim \cup {t \in first : isPrimitive(htn, m.subs[t[2]])}
          /\ n2.abs = (n.abs \ {d}) \cup {t \in first : ~ isPrimitive(htn, m.subs[t[2]])}
          /\ n2.contained = count.tasks /\ n2.numContained = count.num
          /\ n2.actionCosts = n.actionCosts
          /\ n2.modificationDepth = n.modificationDepth + 1
          /\ n2.mixedModificationDepth = n.mixedModificationDepth + 1
          /\ n2.fValue = 0 /\ n2.pushed = FALSE
  <2>1. updateTaskCounterM(n, m) = updateTaskCounterM(v, m)
    BY <1>3 DEF updateTaskCounterM
  <2>2. DOMAIN n = NodeFields /\ n.fValue = 0 /\ n.pushed = FALSE
    BY DEF HeapInv, Fixed
  <2> HIDE DEF v
  <2> QED
    BY <2>1, <2>2 DEF Decompose, NodeFields
<1>7. /\ ExtendsChain(i, k)
      /\ DOMAIN object' = DOMAIN object \cup {<<k, 0>>} \cup new
      /\ object'[<<k, 0>>] = newSolutionStep(m.task, mi, d, n.state, n.solution)
      /\ \A j \in Positions(m) : object'[<<k, j>>] = methodStep(m, d, k, j)
  BY SMTT(40), DecomposeExtends
<1>8. /\ w = [f \in NodeFields |-> w[f]]
      /\ w.task = [t \in (R \ {d}) \cup new |-> IF t \in new THEN m.subs[t[2]] ELSE v.task[t]]
      /\ w.succ = [t \in (R \ {d}) \cup new |->
                     IF t \in new THEN newSuccessors(v, d, m, t) ELSE v.succ[t]]
      /\ w.solution = Append(v.solution, [step |-> d, instance |-> k, task |-> m.task,
                                          method |-> mi, after |-> v.state])
  BY <1>1 DEF decomposeStep, NodeFields
<1>9. \A f \in NodeFields \ {"task", "succ", "solution"} : node'[k][f] = w[f]
  <2>1. /\ w.state = v.state
        /\ w.prim = v.prim \cup {t \in first : isPrimitive(htn, m.subs[t[2]])}
        /\ w.abs = (v.abs \ {d}) \cup {t \in first : ~ isPrimitive(htn, m.subs[t[2]])}
        /\ w.contained = count.tasks /\ w.numContained = count.num
        /\ w.actionCosts = v.actionCosts
        /\ w.modificationDepth = v.modificationDepth + 1
        /\ w.mixedModificationDepth = v.mixedModificationDepth + 1
        /\ w.fValue = 0 /\ w.pushed = FALSE
    BY DEF decomposeStep
  <2> HIDE DEF w, v, first, count, n, m, k
  <2>2. node'[k].prim = w.prim /\ node'[k].abs = w.abs
    BY <1>3, <1>6, <2>1
  <2>3. node'[k].state = w.state /\ node'[k].actionCosts = w.actionCosts
    BY <1>3, <1>6, <2>1
  <2>4. node'[k].contained = w.contained /\ node'[k].numContained = w.numContained
    BY <1>6, <2>1
  <2>5. /\ node'[k].modificationDepth = w.modificationDepth
        /\ node'[k].mixedModificationDepth = w.mixedModificationDepth
    BY <1>3, <1>6, <2>1
  <2>6. node'[k].fValue = w.fValue /\ node'[k].pushed = w.pushed
    BY <1>6, <2>1
  <2> QED
    BY <2>2, <2>3, <2>4, <2>5, <2>6 DEF NodeFields
<1> HIDE DEF w, v, R, m, first, count
<1>10. Steps(w) = (R \ {d}) \cup new
  BY <1>8 DEF Steps
<1>11. ASSUME NEW t \in new
       PROVE  /\ t \in DOMAIN object'
              /\ w.task[t] = object'[t].task /\ w.succ[t] = object'[t].refs
  <2>1. PICK j \in Positions(m) : t = <<k, j>>
    BY DEF newSteps
  <2>2. t[1] = k /\ t[2] = j
    BY <2>1
  <2>3. /\ object'[t].task = m.subs[j]
        /\ object'[t].refs = IF j \in LastTasks(m) THEN object[d].refs
                             ELSE {<<k, q>> : q \in Successors(m, j)}
    <3>1. object'[t] = methodStep(m, d, k, j)
      BY <1>7, <2>1
    <3> QED
      BY <3>1 DEF methodStep, newPlanStep
  <2>4. w.task[t] = m.subs[j] /\ w.succ[t] = newSuccessors(v, d, m, t)
    BY <1>8, <2>2
  <2>5. newSuccessors(v, d, m, t) = {<<k, q>> : q \in Successors(m, j)}
                                      \cup (IF j \in LastTasks(m) THEN object[d].refs ELSE {})
    BY <1>4, <2>2 DEF newSuccessors
  <2>6. j \in LastTasks(m) => Successors(m, j) = {}
    BY DEF LastTasks, Successors
  <2>7. w.succ[t] = object'[t].refs
    BY <2>3, <2>4, <2>5, <2>6
  <2> QED
    BY <1>7, <2>3, <2>4, <2>7
<1>12. ASSUME NEW t \in R \ {d}
       PROVE  /\ t \in DOMAIN object'
              /\ w.task[t] = object'[t].task /\ w.succ[t] = object'[t].refs
  <2>1. t \in DOMAIN object /\ t \in DOMAIN object'
    BY <1>1, <1>7
  <2>2. object'[t].task = object[t].task /\ object'[t].refs = object[t].refs
    BY <1>7, <2>1 DEF ExtendsChain, SameContents
  <2>3. t \notin new
    <3>1. t[1] <= made /\ made \in Nat
      BY <2>1, MemoryAssumption DEF HeapInv, IInv, NamesInUse
    <3>2. t[1] \in Nat
      BY <2>1 DEF HeapInv, IInv, NamesInUse, StepNames
    <3> QED
      BY <3>1, <3>2 DEF newSteps
  <2>4. w.task[t] = v.task[t] /\ w.succ[t] = v.succ[t]
    BY <1>8, <2>3
  <2> QED
    BY <1>1, <2>1, <2>2, <2>4
<1>13. w.solution = LET e == object'[<<k, 0>>]
                    IN  Append(chain[n.solution],
                               [step |-> e.step, instance |-> k, task |-> e.task,
                                method |-> e.method, after |-> e.after])
  <2> DEFINE e == object'[<<k, 0>>]
  <2>1. e.step = d /\ e.task = m.task /\ e.method = mi /\ e.after = n.state
    BY <1>7 DEF newSolutionStep
  <2> HIDE DEF e
  <2>2. w.solution = Append(chain[n.solution], [step |-> e.step, instance |-> k, task |-> e.task,
                                                method |-> e.method, after |-> e.after])
    BY <1>1, <1>3, <1>8, <2>1
  <2> QED
    BY <2>2 DEF e
<1>14. NewlyHolds(w, i, k)
  <2>1. \A t \in Steps(w) : /\ t \in DOMAIN object'
                            /\ w.task[t] = object'[t].task /\ w.succ[t] = object'[t].refs
    BY <1>10, <1>11, <1>12
  <2> HIDE DEF k
  <2> QED
    BY <1>8, <1>9, <1>13, <2>1 DEF NewlyHolds
<1>15. ASSUME NEW j, j = k PROVE valueOf(j)' = w
  <2>1. ExtendsChain(i, j) /\ NewlyHolds(w, i, j)
    BY <1>7, <1>14, <1>15
  <2> QED
    BY <1>5, <2>1, NewNode
<1> QED
  BY <1>4, <1>15 DEF v, w

-----------------------------------------------------------------------------
value == [i \in DOMAIN node |-> valueOf(i)]

(* A step that makes node k from w, and keeps the values of the others.    *)
LEMMA MakesValue ==
  ASSUME HeapInv, HeapInv', ValueInv, SameContents, NEW CONSTANT i, i \in DOMAIN node,
         NEW CONSTANT k, ExtendsChain(i, k), NEW w, valueOf(k)' = w, NodeInv(htn, w, k + 1)
  PROVE  Values!NewValue(w) /\ ValueInv'
<1>1. /\ k = made + 1 /\ made' = k /\ htn' = htn /\ made < MaxProgressions
      /\ DOMAIN node' = DOMAIN node \cup {k} /\ k \notin DOMAIN node
      /\ \A j \in DOMAIN node : node'[j] = node[j]
      /\ made \in Nat
  BY MemoryAssumption DEF ExtendsChain, HeapInv, IInv, NamesInUse
<1>2. ASSUME NEW CONSTANT j, j \in DOMAIN node PROVE valueOf(j)' = valueOf(j)
  BY <1>1, <1>2, ValueFrame
<1>3. value' = [j \in DOMAIN node \cup {k} |-> IF j = k THEN w ELSE valueOf(j)]
  <2>1. value' = [j \in DOMAIN node' |-> valueOf(j)']
    BY DEF value
  <2>2. \A j \in DOMAIN node' : valueOf(j)' = IF j = k THEN w ELSE valueOf(j)
    BY <1>1, <1>2
  <2> QED
    BY <1>1, <2>1, <2>2
<1>4. Values!NewValue(w)
  <2>1. DOMAIN value = DOMAIN node /\ \A j \in DOMAIN node : value[j] = valueOf(j)
    BY DEF value
  <2>2. /\ DOMAIN value' = DOMAIN value \cup {made + 1}
        /\ value'[made + 1] = w
        /\ \A j \in DOMAIN value : value'[j] = value[j]
    BY <1>1, <1>3, <2>1
  <2>3. Restrict(value', DOMAIN value) = value
    BY <2>2 DEF Restrict, value
  <2> QED
    BY <1>1, <2>2, <2>3 DEF Values!NewValue, Values!Restrict, Restrict, value
<1>5. ValueInv'
  <2>1. ASSUME NEW j \in DOMAIN node' PROVE NodeInv(htn, valueOf(j)', k + 1)
    <3>1. CASE j = k
      BY <3>1
    <3>2. CASE j \in DOMAIN node
      <4>1. NodeInv(htn, valueOf(j), k)
        BY <1>1, <3>2 DEF ValueInv
      <4> QED
        BY <1>1, <1>2, <3>2, <4>1, OlderNode
    <3> QED
      BY <1>1, <3>1, <3>2
  <2> QED
    BY <1>1, <2>1 DEF ValueInv
<1> QED
  BY <1>4, <1>5

(* NodeValues speaks of the same two progression steps.                    *)
LEMMA SameSteps ==
  /\ \A h, n : Values!applicableSteps(h, n) = applicableSteps(h, n)
  /\ \A h, t : Values!taskToMethods(h, t) = taskToMethods(h, t)
  /\ \A h, n, s, k : Values!applyStep(h, n, s, k) = applyStep(h, n, s, k)
  /\ \A h, n, s, mi, k : Values!decomposeStep(h, n, s, mi, k) = decomposeStep(h, n, s, mi, k)
<1>1. \A h, n : Values!applicableSteps(h, n) = applicableSteps(h, n)
  BY DEF isApplicable, applicableSteps, Values!isApplicable, Values!applicableSteps
<1>2. \A h, t : Values!taskToMethods(h, t) = taskToMethods(h, t)
  BY DEF taskToMethods, Methods, Values!taskToMethods, Values!Methods
<1>3. ASSUME NEW h, NEW n, NEW s, NEW k
      PROVE  Values!applyStep(h, n, s, k) = applyStep(h, n, s, k)
  BY DEF applyStep, Restrict, updateTaskCounterA, potentiallyFirst, Unconstraint, Reachable,
         isPrimitive, Steps, Values!applyStep, Values!Restrict, Values!updateTaskCounterA,
         Values!potentiallyFirst, Values!Unconstraint, Values!Reachable, Values!isPrimitive,
         Values!Steps
<1>4. /\ \A m, k : Values!newSteps(m, k) = newSteps(m, k)
      /\ \A m : Values!FirstTasks(m) = FirstTasks(m)
      /\ \A h, t : Values!isPrimitive(h, t) = isPrimitive(h, t)
      /\ \A n : Values!Steps(n) = Steps(n)
  BY DEF newSteps, FirstTasks, isPrimitive, Steps, Positions, Values!newSteps,
         Values!FirstTasks, Values!isPrimitive, Values!Steps, Values!Positions
<1>5. \A n, m : Values!updateTaskCounterM(n, m) = updateTaskCounterM(n, m)
  <2>1. \A S : Values!Cardinality(S) = Cardinality(S)
    BY DEF Cardinality, Values!Cardinality
  <2>2. /\ \A m : Values!distinctSubtasks(m) = distinctSubtasks(m)
        /\ \A m, t : Values!subtaskCount(m, t) = subtaskCount(m, t)
    BY <2>1 DEF distinctSubtasks, subtaskCount, Positions, Values!distinctSubtasks,
                Values!subtaskCount, Values!Positions
  <2> SUFFICES ASSUME NEW n, NEW m
               PROVE  Values!updateTaskCounterM(n, m) = updateTaskCounterM(n, m)
    OBVIOUS
  <2> DEFINE old        == n.contained
             gone(D)    == old[m.task] = 1 /\ m.task \notin D
             kept(D)    == IF gone(D) THEN DOMAIN old \ {m.task} ELSE DOMAIN old
             ours(D)    == [t \in kept(D) \cup D |->
                              (IF t \in kept(D) THEN old[t] ELSE 0) + subtaskCount(m, t)]
             theirs(D)  == [t \in kept(D) \cup D |->
                              (IF t \in kept(D) THEN old[t] ELSE 0) + Values!subtaskCount(m, t)]
             result(D, f, c) ==
               [ tasks |-> IF gone(D) THEN f ELSE [f EXCEPT ![m.task] = @ - 1],
                 num   |-> n.numContained + c - (IF gone(D) THEN 1 ELSE 0) ]
             fresh(D)   == D \ DOMAIN old
             D1         == distinctSubtasks(m)
             D2         == Values!distinctSubtasks(m)
  <2>3. updateTaskCounterM(n, m) = result(D1, ours(D1), Cardinality(fresh(D1)))
    BY DEF updateTaskCounterM
  <2>4. Values!updateTaskCounterM(n, m) =
          result(D2, theirs(D2), Values!Cardinality(fresh(D2)))
    BY DEF Values!updateTaskCounterM
  <2>5. theirs(D1) = ours(D1)
    BY <2>2
  <2>6. Values!Cardinality(fresh(D1)) = Cardinality(fresh(D1))
    BY <2>1
  <2>7. D2 = D1
    BY <2>2
  <2> HIDE DEF result, ours, theirs, fresh, D1, D2
  <2> QED
    BY <2>3, <2>4, <2>5, <2>6, <2>7
<1>6. \A n, d, m, s : Values!newSuccessors(n, d, m, s) = newSuccessors(n, d, m, s)
  BY DEF newSuccessors, Successors, LastTasks, Positions, Values!newSuccessors,
         Values!Successors, Values!LastTasks, Values!Positions
<1>7. ASSUME NEW h, NEW n, NEW s, NEW mi, NEW k
      PROVE  Values!decomposeStep(h, n, s, mi, k) = decomposeStep(h, n, s, mi, k)
  BY <1>4, <1>5, <1>6 DEF decomposeStep, Values!decomposeStep
<1> QED
  BY <1>1, <1>2, <1>3, <1>7

LEMMA StepRefines ==
  ASSUME HeapInv, ValueInv, [Next]_vars
  PROVE  HeapInv' /\ ValueInv' /\ [Values!Next]_<<htn, value, made>>
<1>1. HeapInv' /\ SameContents
  BY StepHeapInv
<1>2. made \in Nat /\ IsProblem(htn)
  BY MemoryAssumption DEF HeapInv, IInv, NamesInUse
<1>3. ASSUME NEW i \in DOMAIN node, NEW s \in node[i].prim, Apply(i, s)
      PROVE  ValueInv' /\ Values!Next
  <2> DEFINE v == valueOf(i)
  <2>1. s \in applicableSteps(htn, v)
    BY <1>1, <1>3, ApplyValue
  <2>2. ASSUME NEW k, k = made + 1
        PROVE  Values!NewValue(applyStep(htn, v, s, k)) /\ ValueInv'
    <3>1. valueOf(k)' = applyStep(htn, v, s, k)
      BY <1>1, <1>3, <2>2, ApplyValue
    <3>2. ExtendsChain(i, k)
      BY <1>3, <2>2, ApplyExtends
    <3>3. NodeInv(htn, applyStep(htn, v, s, k), k + 1)
      BY <1>2, <2>1, <2>2, AppliedNode DEF ValueInv
    <3> QED
      BY <1>1, <3>1, <3>2, <3>3, MakesValue
  <2>3. \E t \in applicableSteps(htn, v) : Values!NewValue(applyStep(htn, v, t, made + 1))
    BY <2>1, <2>2
  <2>4. Values!Apply(v)
    BY <2>3, SameSteps DEF Values!Apply
  <2>5. i \in DOMAIN value /\ value[i] = v
    BY DEF value
  <2> HIDE DEF v
  <2> QED
    BY <2>2, <2>4, <2>5 DEF Values!Next, Values!Progress, value
<1>4. ASSUME NEW i \in DOMAIN node, NEW d \in node[i].abs,
             NEW mi \in taskToMethods(htn, object[d].task), Decompose(i, d, mi)
      PROVE  ValueInv' /\ Values!Next
  <2> DEFINE v == valueOf(i)
  <2>1. d \in v.abs /\ mi \in taskToMethods(htn, v.task[d])
    BY <1>1, <1>4, DecomposeValue
  <2>2. ASSUME NEW k, k = made + 1
        PROVE  Values!NewValue(decomposeStep(htn, v, d, mi, k)) /\ ValueInv'
    <3>1. valueOf(k)' = decomposeStep(htn, v, d, mi, k)
      BY <1>1, <1>4, <2>2, DecomposeValue
    <3>2. ExtendsChain(i, k)
      BY <1>4, <2>2, DecomposeExtends
    <3>3. NodeInv(htn, decomposeStep(htn, v, d, mi, k), k + 1)
      BY <1>2, <2>1, <2>2, DecomposedNode DEF ValueInv
    <3> QED
      BY <1>1, <3>1, <3>2, <3>3, MakesValue
  <2>3. \E e \in v.abs : \E x \in taskToMethods(htn, v.task[e]) :
          Values!NewValue(decomposeStep(htn, v, e, x, made + 1))
    BY <2>1, <2>2
  <2>4. Values!Decompose(v)
    BY <2>3, SameSteps DEF Values!Decompose
  <2>5. i \in DOMAIN value /\ value[i] = v
    BY DEF value
  <2> HIDE DEF v
  <2> QED
    BY <2>2, <2>4, <2>5 DEF Values!Next, Values!Progress, value
<1>5. ASSUME htn' = htn, made' = made, DOMAIN node' \subseteq DOMAIN node,
             \A j \in DOMAIN node' : node'[j] = node[j]
      PROVE  ValueInv' /\ value' = [j \in DOMAIN node' |-> value[j]]
  <2>1. ASSUME NEW CONSTANT j, j \in DOMAIN node' PROVE valueOf(j)' = valueOf(j)
    BY <1>1, <1>5, <2>1, ValueFrame
  <2>2. ValueInv'
    BY <1>5, <2>1 DEF ValueInv
  <2>3. value' = [j \in DOMAIN node' |-> valueOf(j)']
    BY DEF value
  <2>4. \A j \in DOMAIN node' : value[j] = valueOf(j)
    BY <1>5 DEF value
  <2> QED
    BY <2>1, <2>2, <2>3, <2>4
<1>6. ASSUME NEW i \in DOMAIN node, Delete(i) PROVE ValueInv' /\ Values!Next
  <2>1. /\ DOMAIN node' = DOMAIN node \ {i} /\ \A j \in DOMAIN node' : node'[j] = node[j]
        /\ htn' = htn /\ made' = made
    BY <1>6, DeleteKeeps DEF Delete
  <2>2. ValueInv' /\ value' = [j \in DOMAIN node' |-> value[j]]
    BY <1>5, <2>1
  <2>3. DOMAIN value = DOMAIN node
    BY DEF value
  <2>4. value' = Restrict(value, DOMAIN value \ {i})
    BY <2>1, <2>2, <2>3 DEF Restrict
  <2> QED
    BY <2>1, <2>2, <2>3, <2>4 DEF Values!Next, Values!Delete, Values!Restrict, Restrict, value
<1>7. ASSUME UNCHANGED <<htn, node, made>>
      PROVE  ValueInv' /\ UNCHANGED <<htn, value, made>>
  <2>1. ValueInv' /\ value' = [j \in DOMAIN node |-> value[j]]
    BY <1>5, <1>7
  <2>2. value = [j \in DOMAIN node |-> value[j]]
    BY DEF value
  <2> QED
    BY <1>7, <2>1, <2>2
<1>8. ASSUME NEW p \in dropping, DropPointer(p) PROVE UNCHANGED <<htn, node, made>>
  BY <1>8 DEF DropPointer
<1>9. UNCHANGED vars => UNCHANGED <<htn, node, made>>
  BY DEF vars
<1> HIDE DEF value
<1> QED
  BY <1>1, <1>3, <1>4, <1>6, <1>7, <1>8, <1>9 DEF Next

(* The initial node is prepareTNi's.                                       *)
LEMMA InitRefines == ASSUME Init PROVE HeapInv /\ ValueInv /\ Values!Init
<1> DEFINE w == prepareTNi(htn)
           o == <<0, 1>>
<1>1. /\ HeapInv /\ IsProblem(htn) /\ NodeInv(htn, w, 1)
  BY InitHeapInv, InitialNode, MemoryAssumption DEF Init
<1>2. /\ DOMAIN node = {0} /\ DOMAIN object = {o} /\ made = 0
      /\ node[0] = [w EXCEPT !.task = << >>, !.succ = << >>, !.solution = NoSolution]
      /\ object[o] = newPlanStep(htn.initialTask, {}, 1)
  BY DEF Init
<1>3. /\ w = [f \in NodeFields |-> w[f]]
      /\ w.task = [s \in {o} |-> htn.initialTask] /\ w.succ = [s \in {o} |-> {}]
      /\ w.solution = << >> /\ Steps(w) = {o}
  BY DEF prepareTNi, NodeFields, Steps
<1>4. object[o].task = htn.initialTask /\ object[o].refs = {}
  BY <1>2 DEF newPlanStep
<1> HIDE DEF w
<1>5. Holds(w, node[0])
  <2>1. \A f \in NodeFields \ {"task", "succ", "solution"} : node[0][f] = w[f]
    BY <1>2, <1>3
  <2>2. chain[node[0].solution] = w.solution
    <3>1. node[0].solution = NoSolution
      BY <1>2, <1>3 DEF NodeFields
    <3> QED
      BY <1>1, <1>3, <3>1, ChainLemma DEF ChainsFollowPrev
  <2> QED
    BY <1>2, <1>3, <1>4, <2>1, <2>2 DEF Holds
<1>6. valueOf(0) = w
  BY <1>1, <1>2, <1>5, ValueIs DEF NetworksAreValues, NodeInv
<1>7. value = [i \in {0} |-> w]
  BY <1>2, <1>6 DEF value
<1>8. ValueInv
  BY <1>1, <1>2, <1>6 DEF ValueInv
<1>9. Values!prepareTNi(htn) = w
  BY DEF Values!prepareTNi, prepareTNi, w
<1> QED
  BY <1>1, <1>2, <1>7, <1>8, <1>9 DEF Values!Init, Init, value

(* Whatever the search makes, deletes and makes again, a node is the value *)
(* that apply and decompose of ProgressionSearch's model give it, and      *)
(* stays it until it is deleted: sharing and freeing are invisible         *)
(* (Model::apply, Model::decompose, searchNode::~searchNode).              *)
THEOREM Refinement == Spec => ImplementsValues
<1>1. Init => HeapInv /\ ValueInv /\ Values!Init
  BY InitRefines
<1>2. HeapInv /\ ValueInv /\ [Next]_vars
        => HeapInv' /\ ValueInv' /\ [Values!Next]_<<htn, value, made>>
  BY StepRefines
<1> QED
  BY <1>1, <1>2, PTL DEF ImplementsValues, Values!Spec, Spec, value
=============================================================================
