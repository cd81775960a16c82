----------------------- MODULE ProgressionNetworkProofs -----------------------
(***************************************************************************)
(* Lemmas about the two progression steps of ProgressionNetwork: what they *)
(* preserve of a search node, for every problem, node and method.          *)
(***************************************************************************)
EXTENDS PlanValidity, TaskSequences, RelaxedComposition, IterationProofs, SequenceTheorems

(* No cycle: every set of steps has one that none of the others precedes.  *)
AcyclicNetwork(n) ==
  \A X \in (SUBSET Steps(n)) \ {{}} : \E x \in X : \A y \in X : x \notin n.succ[y]

(* The names of the steps are older than progression step k.               *)
NamedBefore(n, k) == \A s \in Steps(n) : s[1] < k

(* What makes a node's network well formed.                                *)
WellFormed(h, n) ==
  /\ NodeType(h, n)
  /\ Unconstraint(n) = FirstSteps(n)
  /\ AcyclicNetwork(n)

(* A set that contains Start and is closed under successors contains all   *)
(* that is reachable (the depth-first search of Model::apply).             *)
LEMMA ReachableInClosed ==
  ASSUME NEW succ, NEW Start, NEW X \in SUBSET DOMAIN succ,
         Start \subseteq X, \A t \in X : succ[t] \subseteq X
  PROVE  Reachable(succ, Start) \subseteq X
BY DEF Reachable

(* The search reaches the steps it starts from.                            *)
LEMMA StartIsReachable ==
  ASSUME NEW succ, NEW Start \in SUBSET DOMAIN succ
  PROVE  Start \subseteq Reachable(succ, Start)
BY DEF Reachable

(* The search reaches the successors of every step it reaches.             *)
LEMMA SuccessorIsReachable ==
  ASSUME NEW succ, NEW Start,
         \A t \in DOMAIN succ : succ[t] \subseteq DOMAIN succ,
         NEW t \in Reachable(succ, Start)
  PROVE  succ[t] \subseteq Reachable(succ, Start)
BY DEF Reachable

(* Methods are numbered from 1.                                            *)
LEMMA MethodsAreNumbered ==
  ASSUME NEW h, IsProblem(h)
  PROVE  /\ Cardinality(Methods(h)) \in Nat /\ Methods(h) = 1 .. Cardinality(Methods(h))
         /\ IsFiniteSet(Methods(h)) /\ h.numActions \in Nat
         /\ \A mi \in Methods(h) : mi \in Nat /\ mi # 0
<1>1. IsFiniteSet(Methods(h)) /\ h.numActions \in Nat
      /\ Methods(h) = 1 .. Cardinality(Methods(h))
  BY DEF IsProblem
<1>2. Cardinality(Methods(h)) \in Nat
  BY <1>1, FS_CardinalityType
<1> QED
  BY <1>1, <1>2

(* prepareTNi.                                                             *)
LEMMA InitialWellFormed ==
  ASSUME NEW h, IsProblem(h)
  PROVE  WellFormed(h, prepareTNi(h)) /\ NamedBefore(prepareTNi(h), 1)
<1> DEFINE n == prepareTNi(h)
           o == <<0, 1>>
<1>1. n.task = [s \in {o} |-> h.initialTask] /\ Steps(n) = {o}
  BY DEF prepareTNi, Steps
<1>2. n.succ = [s \in {o} |-> {}] /\ n.prim = {} /\ n.abs = {o}
  BY DEF prepareTNi
<1>3. h.initialTask \in Tasks(h) /\ ~ isPrimitive(h, h.initialTask)
  BY DEF IsProblem, Tasks, Actions, isPrimitive
<1>4. n.state \subseteq Facts(h) /\ n.solution \in Seq(SolutionSteps(h))
  BY DEF prepareTNi, Facts
<1>5. /\ n.actionCosts \in Nat /\ n.modificationDepth \in Nat
      /\ n.mixedModificationDepth \in Nat /\ n.fValue \in Int /\ n.pushed \in BOOLEAN
  BY DEF prepareTNi
<1>6. o \in StepNames
  BY DEF StepNames
<1>7. NodeType(h, n)
  <2>1. DOMAIN n = NodeFields
    BY DEF prepareTNi, NodeFields
  <2> QED
    BY <2>1, <1>1, <1>2, <1>3, <1>4, <1>5, <1>6 DEF NodeType
<1>8. Unconstraint(n) = FirstSteps(n)
  BY <1>1, <1>2 DEF Unconstraint, FirstSteps
<1>9. AcyclicNetwork(n)
  BY <1>1, <1>2 DEF AcyclicNetwork
<1>10. NamedBefore(n, 1)
  BY <1>1 DEF NamedBefore
<1> QED
  BY <1>7, <1>8, <1>9, <1>10 DEF WellFormed

(* Every step but an unconstrained one, s, is another unconstrained step,  *)
(* a successor of s, or reachable from these: what is left over would have *)
(* a step nothing precedes.                                                *)
LEMMA CoveredByOthers ==
  ASSUME NEW h, NEW n, WellFormed(h, n), NEW s \in Unconstraint(n),
         NEW P, P = UNION {n.succ[t] : t \in (Unconstraint(n) \ {s}) \cup n.succ[s]}
  PROVE  Steps(n) \ {s} \subseteq
           (Unconstraint(n) \ {s}) \cup n.succ[s] \cup Reachable(n.succ, P)
<1> DEFINE R == Reachable(n.succ, P)
           Z == (Unconstraint(n) \ {s}) \cup n.succ[s] \cup R
           X == Steps(n) \ ({s} \cup Z)
<1>1. /\ n.succ \in [Steps(n) -> SUBSET Steps(n)]
      /\ Unconstraint(n) = FirstSteps(n)
      /\ s \in Steps(n)
  BY DEF WellFormed, NodeType, FirstSteps
<1>2. P \in SUBSET Steps(n) /\ DOMAIN n.succ = Steps(n)
  BY <1>1 DEF FirstSteps
<1>3. P \subseteq R
  BY <1>2, StartIsReachable
<1>4. \A t \in R : t \in Steps(n) /\ n.succ[t] \subseteq R
  <2>1. \A t \in DOMAIN n.succ : n.succ[t] \subseteq DOMAIN n.succ
    BY <1>1
  <2>2. \A t \in R : n.succ[t] \subseteq R
    BY <2>1, SuccessorIsReachable
  <2>3. R \subseteq Steps(n)
    BY <1>2 DEF Reachable
  <2> QED
    BY <2>2, <2>3
<1>5. ASSUME X # {} PROVE FALSE
  <2>1. PICK x \in X : \A y \in X : x \notin n.succ[y]
    <3>1. X \in (SUBSET Steps(n)) \ {{}}
      BY <1>5
    <3>2. AcyclicNetwork(n)
      BY DEF WellFormed
    <3> HIDE DEF X
    <3> QED
      BY <3>1, <3>2 DEF AcyclicNetwork
  <2>2. x \in Steps(n) /\ x \notin FirstSteps(n)
    BY <1>1, <2>1
  <2>3. PICK p \in Steps(n) : x \in n.succ[p]
    BY <2>2 DEF FirstSteps
  <2>4. p \in {s} \cup Z
    BY <2>1, <2>3
  <2>5. CASE p = s
    BY <2>1, <2>3, <2>5
  <2>6. CASE p \in (Unconstraint(n) \ {s}) \cup n.succ[s]
    <3>1. x \in P
      BY <2>3, <2>6
    <3> QED
      BY <3>1, <1>3, <2>1
  <2>7. CASE p \in R
    BY <2>1, <2>3, <2>7, <1>4
  <2> QED
    BY <2>4, <2>5, <2>6, <2>7
<1> QED
  BY <1>5

(* potentiallyFirst finds exactly the steps that become first when s goes. *)
LEMMA PotentiallyFirstExact ==
  ASSUME NEW h, NEW n, WellFormed(h, n), NEW s \in Unconstraint(n)
  PROVE  (Unconstraint(n) \ {s}) \cup potentiallyFirst(n, s) =
           {x \in Steps(n) \ {s} : \A t \in Steps(n) \ {s} : x \notin n.succ[t]}
<1> DEFINE U == Unconstraint(n)
           P == UNION {n.succ[t] : t \in (U \ {s}) \cup n.succ[s]}
           R == Reachable(n.succ, P)
           First == {x \in Steps(n) \ {s} : \A t \in Steps(n) \ {s} : x \notin n.succ[t]}
<1>1. /\ n.succ \in [Steps(n) -> SUBSET Steps(n)]
      /\ DOMAIN n.succ = Steps(n)
      /\ U = FirstSteps(n)
      /\ U \subseteq Steps(n)
      /\ s \in Steps(n)
      /\ \A t \in Steps(n) : s \notin n.succ[t]
  BY DEF WellFormed, NodeType, FirstSteps
<1>2. potentiallyFirst(n, s) = n.succ[s] \ R
  BY DEF potentiallyFirst
<1>3. P \subseteq R
  BY <1>1, StartIsReachable
<1>4. \A t \in R : n.succ[t] \subseteq R
  BY <1>1, SuccessorIsReachable
<1>5. Steps(n) \ {s} \subseteq (U \ {s}) \cup n.succ[s] \cup R
  BY CoveredByOthers
<1>6. U \ {s} \subseteq First
  BY <1>1 DEF FirstSteps
<1>7. n.succ[s] \ R \subseteq First
  <2> SUFFICES ASSUME NEW x \in n.succ[s] \ R, NEW t \in Steps(n) \ {s}, x \in n.succ[t]
               PROVE  FALSE
    BY <1>1
  <2>1. CASE t \in (U \ {s}) \cup n.succ[s]
    BY <2>1, <1>3
  <2>2. CASE t \in R
    BY <2>2, <1>4
  <2> QED
    BY <2>1, <2>2, <1>5
<1>8. First \subseteq (U \ {s}) \cup (n.succ[s] \ R)
  <2> SUFFICES ASSUME NEW x \in First, x \notin U
               PROVE  x \in n.succ[s] /\ x \notin R
    OBVIOUS
  <2>1. x \in n.succ[s]
    BY <1>1 DEF FirstSteps
  <2> DEFINE W == Steps(n) \ {s, x}
  <2>2. P \subseteq W
    BY <1>1
  <2>3. \A t \in W : n.succ[t] \subseteq W
    BY <1>1
  <2>4. R \subseteq W
    <3>1. W \in SUBSET DOMAIN n.succ
      BY <1>1
    <3> HIDE DEF W, P
    <3> QED
      BY <3>1, <2>2, <2>3, ReachableInClosed
  <2> QED
    BY <2>1, <2>4
<1> QED
  BY <1>2, <1>6, <1>7, <1>8

(* Model::apply, up to its automatic progressions, preserves all this.     *)
LEMMA ApplyWellFormed ==
  ASSUME NEW h, IsProblem(h), NEW n, WellFormed(h, n), NEW s \in n.prim, NEW k \in Nat
  PROVE  /\ WellFormed(h, applyStep(h, n, s, k))
         /\ NamedBefore(n, k) => NamedBefore(applyStep(h, n, s, k), k)
<1> DEFINE n2 == applyStep(h, n, s, k)
           first == potentiallyFirst(n, s)
           rest == Steps(n) \ {s}
<1> USE DEF Restrict
<1>1. /\ n.task \in [Steps(n) -> Tasks(h)] /\ Steps(n) \subseteq StepNames
      /\ n.succ \in [Steps(n) -> SUBSET Steps(n)]
      /\ n.prim \subseteq {t \in Steps(n) : isPrimitive(h, n.task[t])}
      /\ n.abs \subseteq {t \in Steps(n) : ~ isPrimitive(h, n.task[t])}
  BY DEF WellFormed, NodeType
<1>2. s \in Steps(n) /\ s \in Unconstraint(n) /\ s \notin n.abs
  BY <1>1 DEF Unconstraint
<1>3. n2.task = [t \in rest |-> n.task[t]] /\ n2.succ = [t \in rest |-> n.succ[t]]
  BY DEF applyStep
<1>4. Steps(n2) = rest
  BY <1>3 DEF Steps
<1>5. /\ n2.prim = (n.prim \ {s}) \cup {t \in first : isPrimitive(h, n.task[t])}
      /\ n2.abs = n.abs \cup {t \in first : ~ isPrimitive(h, n.task[t])}
  BY DEF applyStep
<1>6. (Unconstraint(n) \ {s}) \cup first = {x \in rest : \A t \in rest : x \notin n.succ[t]}
  BY <1>2, PotentiallyFirstExact
<1>7. first \subseteq rest
  BY <1>6
<1>8. \A t \in rest : n.succ[t] \subseteq rest
  BY <1>1, <1>2 DEF WellFormed, FirstSteps
<1>9. n.task[s] \in Actions(h)
  BY <1>1 DEF isPrimitive, Tasks, Actions, IsProblem
<1>10. /\ n2.state = (n.state \ h.del[n.task[s]]) \cup h.add[n.task[s]]
       /\ n2.solution = Append(n.solution, [step |-> s, instance |-> k, task |-> n.task[s],
                                            method |-> 0, after |-> n2.state])
  BY DEF applyStep
<1>11. n2.state \subseteq Facts(h)
  BY <1>9, <1>10 DEF WellFormed, NodeType, Facts
<1>12. n2.solution \in Seq(SolutionSteps(h))
  <2> DEFINE e == [step |-> s, instance |-> k, task |-> n.task[s], method |-> 0,
                   after |-> n2.state]
  <2>1. e \in SolutionSteps(h)
    BY <1>1, <1>2, <1>11 DEF SolutionSteps
  <2>2. n.solution \in Seq(SolutionSteps(h))
    BY DEF WellFormed, NodeType
  <2> HIDE DEF e
  <2> QED
    BY <2>1, <2>2, <1>10 DEF e
<1>13. /\ n2.actionCosts \in Nat /\ n2.modificationDepth \in Nat
       /\ n2.mixedModificationDepth \in Nat /\ n2.fValue \in Int /\ n2.pushed \in BOOLEAN
  <2>1. h.cost[n.task[s]] \in Nat
    BY <1>9 DEF IsProblem
  <2> QED
    BY <2>1 DEF WellFormed, NodeType, applyStep
<1>14. NodeType(h, n2)
  <2>1. n2.task \in [rest -> Tasks(h)] /\ n2.succ \in [rest -> SUBSET rest]
    BY <1>1, <1>3, <1>8
  <2>2. n2.prim \subseteq {t \in rest : isPrimitive(h, n2.task[t])}
    BY <1>1, <1>3, <1>5, <1>7
  <2>3. n2.abs \subseteq {t \in rest : ~ isPrimitive(h, n2.task[t])}
    BY <1>1, <1>2, <1>3, <1>5, <1>7
  <2>4. DOMAIN n2 = NodeFields
    BY DEF applyStep, NodeFields
  <2> HIDE DEF n2
  <2> QED
    BY <2>1, <2>2, <2>3, <2>4, <1>1, <1>4, <1>11, <1>12, <1>13 DEF NodeType
<1>15. Unconstraint(n2) = FirstSteps(n2)
  <2>1. Unconstraint(n2) = (Unconstraint(n) \ {s}) \cup first
    BY <1>2, <1>5 DEF Unconstraint
  <2>2. FirstSteps(n2) = {x \in rest : \A t \in rest : x \notin n.succ[t]}
    BY <1>3, <1>4 DEF FirstSteps
  <2> QED
    BY <2>1, <2>2, <1>6
<1>16. AcyclicNetwork(n2)
  <2> SUFFICES ASSUME NEW X \in (SUBSET rest) \ {{}}
               PROVE  \E x \in X : \A y \in X : x \notin n.succ[y]
    BY <1>3, <1>4 DEF AcyclicNetwork
  <2>1. X \in (SUBSET Steps(n)) \ {{}}
    OBVIOUS
  <2> QED
    BY <2>1 DEF WellFormed, AcyclicNetwork
<1>17. NamedBefore(n, k) => NamedBefore(n2, k)
  BY <1>4 DEF NamedBefore
<1> QED
  BY <1>14, <1>15, <1>16, <1>17 DEF WellFormed

(* Model::decompose, up to its automatic progressions, preserves it too,   *)
(* and the new steps have the names of the k-th progression step.          *)
LEMMA DecomposeWellFormed ==
  ASSUME NEW h, IsProblem(h), NEW n, WellFormed(h, n), NEW d \in n.abs,
         NEW mi \in taskToMethods(h, n.task[d]), NEW k \in Nat, NamedBefore(n, k)
  PROVE  /\ WellFormed(h, decomposeStep(h, n, d, mi, k))
         /\ NamedBefore(decomposeStep(h, n, d, mi, k), k + 1)
<1> DEFINE n2 == decomposeStep(h, n, d, mi, k)
           m == h.methods[mi]
           rest == Steps(n) \ {d}
           new == newSteps(m, k)
           first == {<<k, i>> : i \in FirstTasks(m)}
<1>1. /\ n.task \in [Steps(n) -> Tasks(h)] /\ Steps(n) \subseteq StepNames
      /\ n.succ \in [Steps(n) -> SUBSET Steps(n)]
      /\ n.prim \subseteq {t \in Steps(n) : isPrimitive(h, n.task[t])}
      /\ n.abs \subseteq {t \in Steps(n) : ~ isPrimitive(h, n.task[t])}
      /\ Unconstraint(n) = FirstSteps(n)
  BY DEF WellFormed, NodeType
<1>2. d \in Steps(n) /\ d \in Unconstraint(n) /\ d \notin n.prim
  BY <1>1 DEF Unconstraint
<1>3. IsMethod(h, m) /\ m.task = n.task[d] /\ mi \in Nat
  BY MethodsAreNumbered DEF taskToMethods, IsProblem
<1>4. /\ Positions(m) \subseteq Nat /\ Positions(m) # {}
      /\ \A i \in Positions(m) : m.subs[i] \in Tasks(h)
  <2> DEFINE q == m.subs
  <2>1. q \in Seq(Tasks(h)) /\ q # << >> /\ Positions(m) = DOMAIN q
    BY <1>3 DEF IsMethod, Positions
  <2> HIDE DEF m, q
  <2>2. DOMAIN q = 1 .. Len(q) /\ Len(q) \in Nat /\ \A i \in 1 .. Len(q) : q[i] \in Tasks(h)
    BY <2>1
  <2>3. Len(q) # 0
    BY <2>1, EmptySeq
  <2>4. 1 \in DOMAIN q /\ \A i \in DOMAIN q : i \in Nat
    BY <2>2, <2>3
  <2> QED
    BY <2>1, <2>2, <2>4 DEF q
<1>5. new \cap Steps(n) = {} /\ new \subseteq StepNames
  BY <1>4 DEF newSteps, NamedBefore, StepNames
<1>6. \A s \in new : s[1] = k /\ s[2] \in Positions(m) /\ s = <<k, s[2]>>
  BY DEF newSteps
<1>7. /\ n2.task = [s \in rest \cup new |-> IF s \in new THEN m.subs[s[2]] ELSE n.task[s]]
      /\ n2.succ = [s \in rest \cup new |-> IF s \in new THEN newSuccessors(n, d, m, s)
                                            ELSE n.succ[s]]
  BY DEF decomposeStep
<1>8. Steps(n2) = rest \cup new
  BY <1>7 DEF Steps
<1>9. /\ n2.prim = n.prim \cup {s \in first : isPrimitive(h, m.subs[s[2]])}
      /\ n2.abs = (n.abs \ {d}) \cup {s \in first : ~ isPrimitive(h, m.subs[s[2]])}
  BY DEF decomposeStep
<1>10. \A t \in Steps(n) : d \notin n.succ[t]
  BY <1>1, <1>2 DEF FirstSteps
<1>11. first \subseteq new
  BY DEF newSteps, FirstTasks
<1>12. \A s \in new : newSuccessors(n, d, m, s) \subseteq rest \cup new
  <2> SUFFICES ASSUME NEW s \in new PROVE newSuccessors(n, d, m, s) \subseteq rest \cup new
    OBVIOUS
  <2>1. {<<s[1], j>> : j \in Successors(m, s[2])} \subseteq new
    BY <1>6 DEF newSteps, Successors
  <2>2. n.succ[d] \subseteq rest
    BY <1>1, <1>2, <1>10
  <2> QED
    BY <2>1, <2>2 DEF newSuccessors
<1> HIDE DEF m, new, first
<1>13. NodeType(h, n2)
  <2>1. n2.task \in [rest \cup new -> Tasks(h)]
    BY <1>1, <1>4, <1>6, <1>7
  <2>2. n2.succ \in [rest \cup new -> SUBSET (rest \cup new)]
    BY <1>1, <1>7, <1>10, <1>12
  <2>3. n2.prim \subseteq {s \in rest \cup new : isPrimitive(h, n2.task[s])}
    BY <1>1, <1>2, <1>5, <1>7, <1>9, <1>11
  <2>4. n2.abs \subseteq {s \in rest \cup new : ~ isPrimitive(h, n2.task[s])}
    BY <1>1, <1>2, <1>5, <1>7, <1>9, <1>11
  <2>5. n2.state \subseteq Facts(h) /\ n2.solution \in Seq(SolutionSteps(h))
    <3> DEFINE e == [step |-> d, instance |-> k, task |-> m.task, method |-> mi,
                     after |-> n.state]
    <3>1. n2.state = n.state /\ n2.solution = Append(n.solution, e)
      BY DEF decomposeStep, m
    <3>2. n.state \subseteq Facts(h) /\ n.solution \in Seq(SolutionSteps(h))
      BY DEF WellFormed, NodeType
    <3>3. e \in SolutionSteps(h)
      BY <3>2, <1>1, <1>2, <1>3 DEF SolutionSteps
    <3> HIDE DEF e
    <3> QED
      BY <3>1, <3>2, <3>3
  <2>6. /\ n2.actionCosts \in Nat /\ n2.modificationDepth \in Nat
        /\ n2.mixedModificationDepth \in Nat /\ n2.fValue \in Int /\ n2.pushed \in BOOLEAN
    BY DEF WellFormed, NodeType, decomposeStep
  <2>7. DOMAIN n2 = NodeFields
    BY DEF decomposeStep, NodeFields
  <2> HIDE DEF n2
  <2> QED
    BY <2>1, <2>2, <2>3, <2>4, <2>5, <2>6, <2>7, <1>1, <1>5, <1>8 DEF NodeType
<1>14. Unconstraint(n2) = FirstSteps(n2)
  <2>1. Unconstraint(n2) = (Unconstraint(n) \ {d}) \cup first
    BY <1>2, <1>9 DEF Unconstraint
  <2>2. ASSUME NEW x \in new
        PROVE  x \in FirstSteps(n2) <=> x \in first
    <3>1. \A t \in rest : x \notin n2.succ[t]
      BY <1>1, <1>5, <1>7
    <3>2. \A t \in new : x \in n2.succ[t] <=> <<t[2], x[2]>> \in m.ord
      <4> SUFFICES ASSUME NEW t \in new
                   PROVE  x \in newSuccessors(n, d, m, t) <=> <<t[2], x[2]>> \in m.ord
        BY <1>7
      <4>1. x \notin n.succ[d]
        BY <1>1, <1>2, <1>5
      <4>2. x \in {<<t[1], j>> : j \in Successors(m, t[2])} <=> x[2] \in Successors(m, t[2])
        BY <1>6
      <4> QED
        BY <4>1, <4>2, <1>6 DEF newSuccessors, Successors
    <3>3. x \in first <=> \A i \in Positions(m) : <<i, x[2]>> \notin m.ord
      BY <1>6 DEF first, FirstTasks
    <3>4. \A i \in Positions(m) : <<k, i>> \in new /\ <<k, i>>[2] = i
      BY DEF new, newSteps
    <3> QED
      BY <3>1, <3>2, <3>3, <3>4, <1>6, <1>8 DEF FirstSteps
  <2>3. ASSUME NEW x \in rest
        PROVE  x \in FirstSteps(n2) <=> x \in Unconstraint(n)
    <3>1. \A t \in rest : x \in n2.succ[t] <=> x \in n.succ[t]
      BY <1>1, <1>5, <1>7
    <3>2. \A t \in new : x \in n2.succ[t] <=> t[2] \in LastTasks(m) /\ x \in n.succ[d]
      <4> SUFFICES ASSUME NEW t \in new
                   PROVE  x \in newSuccessors(n, d, m, t)
                            <=> t[2] \in LastTasks(m) /\ x \in n.succ[d]
        BY <1>7
      <4>1. {<<t[1], j>> : j \in Successors(m, t[2])} \subseteq new
        BY <1>6 DEF new, newSteps, Successors
      <4>2. x \notin new
        BY <1>5
      <4> QED
        BY <4>1, <4>2 DEF newSuccessors
    <3>3. \E t \in new : t[2] \in LastTasks(m)
      <4>1. Positions(m) \in (SUBSET Positions(m)) \ {{}}
        BY <1>4
      <4>2. \E i \in Positions(m) : \A j \in Positions(m) : <<i, j>> \notin m.ord
        BY <4>1, <1>3 DEF IsMethod, Acyclic
      <4>3. PICK i \in LastTasks(m) : TRUE
        BY <4>2 DEF LastTasks
      <4>4. <<k, i>> \in new /\ <<k, i>>[2] = i
        BY <4>3 DEF new, newSteps, LastTasks
      <4> QED
        BY <4>3, <4>4
    <3>4. (\A t \in Steps(n2) : x \notin n2.succ[t]) <=> \A t \in Steps(n) : x \notin n.succ[t]
      BY <3>1, <3>2, <3>3, <1>2, <1>8
    <3> QED
      BY <3>4, <1>1, <1>8 DEF FirstSteps
  <2>4. FirstSteps(n2) \subseteq rest \cup new
    BY <1>8 DEF FirstSteps
  <2>5. Unconstraint(n) \subseteq Steps(n)
    BY <1>1 DEF FirstSteps
  <2> QED
    BY <2>1, <2>2, <2>3, <2>4, <2>5, <1>2, <1>5, <1>11
<1>15. AcyclicNetwork(n2)
  <2> SUFFICES ASSUME NEW X \in (SUBSET (rest \cup new)) \ {{}}
               PROVE  \E x \in X : \A y \in X : x \notin n2.succ[y]
    BY <1>8 DEF AcyclicNetwork
  <2>1. CASE X \cap new = {}
    <3>1. X \in (SUBSET Steps(n)) \ {{}}
      BY <2>1
    <3>2. PICK x \in X : \A y \in X : x \notin n.succ[y]
      BY <3>1 DEF WellFormed, AcyclicNetwork
    <3> QED
      BY <3>2, <2>1, <1>7
  <2>2. CASE X \cap new # {}
    <3> DEFINE I == {i \in Positions(m) : <<k, i>> \in X}
    <3>1. I \in (SUBSET Positions(m)) \ {{}}
      BY <2>2, <1>6
    <3>2. PICK i \in I : \A j \in I : <<j, i>> \notin m.ord
      BY <3>1, <1>3 DEF IsMethod, Acyclic
    <3>3. <<k, i>> \in X /\ <<k, i>> \in new
      BY <3>2 DEF new, newSteps
    <3>4. ASSUME NEW y \in X, <<k, i>> \in n2.succ[y]
          PROVE  FALSE
      <4>1. CASE y \in new
        <5>1. <<k, i>> \in newSuccessors(n, d, m, y)
          BY <4>1, <3>4, <1>7
        <5>2. <<k, i>> \notin n.succ[d]
          BY <3>3, <1>1, <1>2, <1>5
        <5>3. <<y[2], i>> \in m.ord
          BY <5>1, <5>2 DEF newSuccessors, Successors
        <5>4. y[2] \in I
          BY <4>1, <1>6
        <5> QED
          BY <5>3, <5>4, <3>2
      <4>2. CASE y \notin new
        BY <4>2, <3>3, <3>4, <1>1, <1>5, <1>7
      <4> QED
        BY <4>1, <4>2
    <3> QED
      BY <3>3, <3>4
  <2> QED
    BY <2>1, <2>2
<1>16. NamedBefore(n2, k + 1)
  <2>1. \A s \in rest : s[1] < k /\ s[1] \in Nat
    BY <1>1 DEF NamedBefore, StepNames
  <2> QED
    BY <2>1, <1>6, <1>8 DEF NamedBefore
<1> QED
  BY <1>13, <1>14, <1>15, <1>16 DEF WellFormed

-----------------------------------------------------------------------------
(* Appending a step that executes in the node's state keeps the chain one  *)
(* that executes.                                                          *)
LEMMA AppendExecutes ==
  ASSUME NEW h, NEW n, n.solution \in Seq(SolutionSteps(h)), ChainExecutes(h, n),
         NEW e \in SolutionSteps(h), StepExecutes(h, e, n.state),
         NEW n2, n2.solution = Append(n.solution, e), n2.state = e.after
  PROVE  ChainExecutes(h, n2)
<1> DEFINE S == n.solution
           S2 == n2.solution
           L == Len(n.solution)
<1>1. /\ L \in Nat /\ Len(S2) = L + 1
      /\ S2[L + 1] = e
      /\ \A i \in 1 .. L : S2[i] = S[i]
  OBVIOUS
<1>2. \A i \in 1 .. (L + 1) : stateBefore(h, S2, i) = stateBefore(h, S, i)
  <2> SUFFICES ASSUME NEW i \in 1 .. (L + 1), i # 1
               PROVE  S2[i - 1] = S[i - 1]
    BY DEF stateBefore
  <2>1. i - 1 \in 1 .. L
    BY <1>1
  <2> QED
    BY <2>1, <1>1
<1>3. stateBefore(h, S, L + 1) = n.state
  BY DEF ChainExecutes
<1>4. stateBefore(h, S2, L + 2) = e.after
  <2>1. L + 2 # 1 /\ (L + 2) - 1 = L + 1
    BY <1>1
  <2> QED
    BY <2>1, <1>1 DEF stateBefore
<1>5. ASSUME NEW i \in 1 .. (L + 1)
      PROVE  StepExecutes(h, S2[i], stateBefore(h, S2, i))
  <2>1. CASE i = L + 1
    BY <2>1, <1>1, <1>2, <1>3
  <2>2. CASE i # L + 1
    <3>1. i \in 1 .. L
      BY <2>2, <1>1
    <3>2. StepExecutes(h, S[i], stateBefore(h, S, i))
      BY <3>1 DEF ChainExecutes
    <3> QED
      BY <3>1, <3>2, <1>1, <1>2
  <2> QED
    BY <2>1, <2>2
<1>6. Len(S2) + 1 = L + 2
  BY <1>1
<1> QED
  BY <1>1, <1>4, <1>5, <1>6 DEF ChainExecutes

(* All that is kept of a node: its network is well formed, its steps are   *)
(* older than progression step k, and its chain executes.                  *)
NodeInv(h, n, k) == WellFormed(h, n) /\ NamedBefore(n, k) /\ ChainExecutes(h, n)

(* The node prepareTNi builds is such a node.                              *)
LEMMA InitialNode ==
  ASSUME NEW h, IsProblem(h)
  PROVE  NodeInv(h, prepareTNi(h), 1)
<1>1. ChainExecutes(h, prepareTNi(h))
  BY DEF ChainExecutes, stateBefore, prepareTNi
<1> QED
  BY <1>1, InitialWellFormed DEF NodeInv

(* It stays one when later progression steps are made.                     *)
LEMMA OlderNode ==
  ASSUME NEW h, NEW n, NEW k \in Nat, NodeInv(h, n, k)
  PROVE  NodeInv(h, n, k + 1)
<1>1. \A s \in Steps(n) : s[1] \in Nat
  BY DEF NodeInv, WellFormed, NodeType, StepNames
<1> QED
  BY <1>1 DEF NodeInv, NamedBefore

(* Applying an unconstrained action whose precondition holds makes one.    *)
LEMMA AppliedNode ==
  ASSUME NEW h, IsProblem(h), NEW n, NEW k \in Nat, NodeInv(h, n, k),
         NEW s \in applicableSteps(h, n)
  PROVE  NodeInv(h, applyStep(h, n, s, k), k + 1)
<1> DEFINE n2 == applyStep(h, n, s, k)
           a == n.task[s]
           e == [step |-> s, instance |-> k, task |-> a, method |-> 0, after |-> n2.state]
<1>1. s \in n.prim /\ h.prec[a] \subseteq n.state
  BY DEF applicableSteps, isApplicable
<1>2. /\ n.task \in [Steps(n) -> Tasks(h)] /\ Steps(n) \subseteq StepNames
      /\ s \in Steps(n) /\ isPrimitive(h, a)
      /\ n.solution \in Seq(SolutionSteps(h))
  BY <1>1 DEF NodeInv, WellFormed, NodeType
<1>3. a \in Actions(h)
  BY <1>2 DEF isPrimitive, Tasks, Actions, IsProblem
<1>4. WellFormed(h, n2) /\ NamedBefore(n2, k)
  BY <1>1, ApplyWellFormed DEF NodeInv
<1>5. /\ n2.solution = Append(n.solution, e)
      /\ n2.state = (n.state \ h.del[a]) \cup h.add[a]
  BY DEF applyStep
<1>6. e \in SolutionSteps(h)
  <2>1. n2.state \subseteq Facts(h)
    BY <1>4 DEF WellFormed, NodeType
  <2> QED
    BY <2>1, <1>2 DEF SolutionSteps
<1>7. StepExecutes(h, e, n.state)
  BY <1>1, <1>3, <1>5 DEF StepExecutes
<1>8. ChainExecutes(h, n2)
  <2>1. ChainExecutes(h, n) /\ n2.state = e.after
    BY DEF NodeInv
  <2> HIDE DEF n2, e
  <2> QED
    BY <2>1, <1>2, <1>5, <1>6, <1>7, AppendExecutes
<1>9. NodeInv(h, n2, k)
  BY <1>4, <1>8 DEF NodeInv
<1> QED
  BY <1>9, OlderNode

(* Decomposing an unconstrained abstract step makes one.                   *)
LEMMA DecomposedNode ==
  ASSUME NEW h, IsProblem(h), NEW n, NEW k \in Nat, NodeInv(h, n, k),
         NEW d \in n.abs, NEW mi \in taskToMethods(h, n.task[d])
  PROVE  NodeInv(h, decomposeStep(h, n, d, mi, k), k + 1)
<1> DEFINE n2 == decomposeStep(h, n, d, mi, k)
           e == [step |-> d, instance |-> k, task |-> h.methods[mi].task, method |-> mi,
                 after |-> n.state]
<1>1. /\ n.task \in [Steps(n) -> Tasks(h)] /\ Steps(n) \subseteq StepNames
      /\ d \in Steps(n) /\ n.state \subseteq Facts(h)
      /\ n.solution \in Seq(SolutionSteps(h))
  BY DEF NodeInv, WellFormed, NodeType
<1>2. mi \in Nat /\ mi # 0 /\ h.methods[mi].task = n.task[d]
  BY MethodsAreNumbered DEF taskToMethods, IsProblem
<1>3. WellFormed(h, n2) /\ NamedBefore(n2, k + 1)
  BY DecomposeWellFormed DEF NodeInv
<1>4. n2.solution = Append(n.solution, e) /\ n2.state = n.state
  BY DEF decomposeStep
<1>5. e \in SolutionSteps(h)
  BY <1>1, <1>2 DEF SolutionSteps
<1>6. StepExecutes(h, e, n.state)
  BY <1>2 DEF StepExecutes
<1>7. ChainExecutes(h, n2)
  <2>1. ChainExecutes(h, n) /\ n2.state = e.after
    BY <1>4 DEF NodeInv
  <2> HIDE DEF n2, e
  <2> QED
    BY <2>1, <1>1, <1>4, <1>5, <1>6, AppendExecutes
<1> QED
  BY <1>3, <1>7 DEF NodeInv
-----------------------------------------------------------------------------
(***************************************************************************)
(* The task counters.                                                      *)
(***************************************************************************)
Occurrences(n, t) == {s \in Steps(n) : n.task[s] = t}

TasksOf(n) == {n.task[s] : s \in Steps(n)}

(* The counters count the tasks of the network, and their arrays are as    *)
(* long as was computed before they were filled.                           *)
TaskCountsExact(n) ==
  /\ IsFiniteSet(Steps(n))
  /\ DOMAIN n.contained = TasksOf(n)
  /\ \A t \in TasksOf(n) : n.contained[t] = Cardinality(Occurrences(n, t))
  /\ n.numContained = Cardinality(TasksOf(n))

(* A task of the network occurs, and every other one occurs nowhere.       *)
LEMMA OccurrencesFinite ==
  ASSUME NEW n, IsFiniteSet(Steps(n)), NEW t
  PROVE  /\ IsFiniteSet(Occurrences(n, t)) /\ Cardinality(Occurrences(n, t)) \in Nat
         /\ Cardinality(Occurrences(n, t)) = 0 <=> t \notin TasksOf(n)
<1>1. IsFiniteSet(Occurrences(n, t))
  BY FS_Subset DEF Occurrences
<1>2. Occurrences(n, t) = {} <=> t \notin TasksOf(n)
  BY DEF Occurrences, TasksOf
<1> QED
  BY <1>1, <1>2, FS_CardinalityType, FS_EmptySet

(* A finite network has finitely many tasks.                               *)
LEMMA TasksFinite ==
  ASSUME NEW n, IsFiniteSet(Steps(n))
  PROVE  IsFiniteSet(TasksOf(n))
<1> DEFINE f == [s \in Steps(n) |-> n.task[s]]
<1>1. f \in Surjection(Steps(n), TasksOf(n))
  BY DEF Surjection, TasksOf
<1> QED
  BY <1>1, FS_Surjection

(* prepareTNi counts the one task it makes.                                *)
LEMMA InitialCounts ==
  ASSUME NEW h
  PROVE  TaskCountsExact(prepareTNi(h))
<1> DEFINE n == prepareTNi(h)
<1>1. Steps(n) = {<<0, 1>>} /\ n.task[<<0, 1>>] = h.initialTask
  BY DEF prepareTNi, Steps
<1>2. TasksOf(n) = {h.initialTask} /\ Occurrences(n, h.initialTask) = {<<0, 1>>}
  BY <1>1 DEF TasksOf, Occurrences
<1>3. /\ n.contained = [t \in {h.initialTask} |-> 1] /\ n.numContained = 1
  BY DEF prepareTNi
<1> HIDE DEF n
<1>4. /\ IsFiniteSet(Steps(n)) /\ Cardinality(TasksOf(n)) = 1
      /\ Cardinality(Occurrences(n, h.initialTask)) = 1
  BY <1>1, <1>2, FS_Singleton
<1>5. TaskCountsExact(n)
  BY <1>2, <1>3, <1>4 DEF TaskCountsExact
<1> QED
  BY <1>5 DEF n

(* updateTaskCounterA counts the network without the step that is applied. *)
LEMMA ApplyCounts ==
  ASSUME NEW h, NEW n, TaskCountsExact(n), NEW s \in Steps(n), NEW k
  PROVE  TaskCountsExact(applyStep(h, n, s, k))
<1> DEFINE n2 == applyStep(h, n, s, k)
           a == n.task[s]
           c == n.contained
<1> SUFFICES TaskCountsExact(n2)
  OBVIOUS
<1>1. n2.task = Restrict(n.task, Steps(n) \ {s})
  BY DEF applyStep
<1>2. /\ n2.contained = IF c[a] = 1 THEN Restrict(c, DOMAIN c \ {a}) ELSE [c EXCEPT ![a] = @ - 1]
      /\ n2.numContained = IF c[a] = 1 THEN n.numContained - 1 ELSE n.numContained
  BY DEF applyStep, updateTaskCounterA
<1> HIDE DEF n2
<1>3. Steps(n2) = Steps(n) \ {s} /\ \A x \in Steps(n2) : n2.task[x] = n.task[x]
  BY <1>1 DEF Steps, Restrict
<1>4. IsFiniteSet(Steps(n)) /\ IsFiniteSet(Steps(n2))
  BY <1>3, FS_Subset DEF TaskCountsExact
<1>5. /\ Occurrences(n2, a) = Occurrences(n, a) \ {s} /\ s \in Occurrences(n, a)
      /\ \A t : t # a => Occurrences(n2, t) = Occurrences(n, t)
  BY <1>3 DEF Occurrences
<1>6. /\ DOMAIN c = TasksOf(n) /\ a \in TasksOf(n)
      /\ \A t \in TasksOf(n) : c[t] = Cardinality(Occurrences(n, t))
      /\ n.numContained = Cardinality(TasksOf(n))
  BY DEF TaskCountsExact, TasksOf
<1>7. /\ c[a] \in Nat /\ Cardinality(Occurrences(n2, a)) = c[a] - 1
  <2> DEFINE O == Occurrences(n, a)
  <2>1. IsFiniteSet(O) /\ Cardinality(O) \in Nat /\ s \in O /\ c[a] = Cardinality(O)
    BY <1>4, <1>5, <1>6, OccurrencesFinite
  <2> HIDE DEF O
  <2>2. Cardinality(O \ {s}) = Cardinality(O) - 1
    BY <2>1, FS_RemoveElement
  <2>3. Occurrences(n2, a) = O \ {s}
    BY <1>5 DEF O
  <2> QED
    BY <2>1, <2>2, <2>3
<1>8. \A t : t # a => (t \in TasksOf(n2) <=> t \in TasksOf(n))
  BY <1>3 DEF TasksOf
<1>9. a \notin TasksOf(n2) <=> c[a] = 1
  <2>1. a \notin TasksOf(n2) <=> Cardinality(Occurrences(n2, a)) = 0
    BY <1>4, OccurrencesFinite
  <2> QED
    BY <2>1, <1>7
<1>10. IsFiniteSet(TasksOf(n))
  BY <1>4, TasksFinite
<1>11. CASE c[a] = 1
  <2>1. TasksOf(n2) = TasksOf(n) \ {a}
    BY <1>6, <1>8, <1>9, <1>11
  <2>2. Cardinality(TasksOf(n2)) = Cardinality(TasksOf(n)) - 1
    BY <2>1, <1>6, <1>10, FS_RemoveElement
  <2>3. n2.contained = Restrict(c, DOMAIN c \ {a}) /\ n2.numContained = n.numContained - 1
    BY <1>2, <1>11
  <2>4. DOMAIN n2.contained = TasksOf(n2) /\ \A t \in TasksOf(n2) : n2.contained[t] = c[t]
    BY <2>1, <2>3, <1>6 DEF Restrict
  <2> QED
    BY <2>1, <2>2, <2>3, <2>4, <1>4, <1>5, <1>6 DEF TaskCountsExact
<1>12. CASE c[a] # 1
  <2>1. TasksOf(n2) = TasksOf(n)
    BY <1>6, <1>8, <1>9, <1>12
  <2>2. n2.contained = [c EXCEPT ![a] = @ - 1] /\ n2.numContained = n.numContained
    BY <1>2, <1>12
  <2>3. /\ DOMAIN n2.contained = TasksOf(n2) /\ n2.contained[a] = c[a] - 1
        /\ \A t \in TasksOf(n2) : t # a => n2.contained[t] = c[t]
    BY <2>1, <2>2, <1>6
  <2>4. ASSUME NEW t \in TasksOf(n2) PROVE n2.contained[t] = Cardinality(Occurrences(n2, t))
    <3>1. CASE t = a
      BY <3>1, <2>3, <1>7
    <3>2. CASE t # a
      BY <3>2, <2>1, <2>3, <1>5, <1>6
    <3> QED
      BY <3>1, <3>2
  <2> QED
    BY <2>1, <2>2, <2>3, <2>4, <1>4, <1>6 DEF TaskCountsExact
<1> QED
  BY <1>11, <1>12
(* The new steps of method m that have task t.                             *)
NewOccurrences(m, k, t) == {s \in newSteps(m, k) : m.subs[s[2]] = t}

(* There are as many of them as positions of m with that subtask, and      *)
(* finitely many.                                                          *)
LEMMA NewStepsCounted ==
  ASSUME NEW h, NEW m, IsMethod(h, m), NEW k
  PROVE  /\ IsFiniteSet(Positions(m)) /\ IsFiniteSet(newSteps(m, k))
         /\ \A t : /\ IsFiniteSet(NewOccurrences(m, k, t))
                   /\ subtaskCount(m, t) = Cardinality(NewOccurrences(m, k, t))
                   /\ subtaskCount(m, t) \in Nat
                   /\ subtaskCount(m, t) = 0 <=> t \notin distinctSubtasks(m)
<1>1. IsFiniteSet(Positions(m))
  <2> DEFINE q == m.subs
  <2>1. q \in Seq(Tasks(h)) /\ Positions(m) = DOMAIN q
    BY DEF IsMethod, Positions
  <2> HIDE DEF q
  <2>2. Positions(m) = 1 .. Len(q) /\ Len(q) \in Nat
    BY <2>1
  <2> QED
    BY <2>2, FS_Interval
<1>2. IsFiniteSet(newSteps(m, k))
  <2> DEFINE f == [i \in Positions(m) |-> <<k, i>>]
  <2>1. f \in Surjection(Positions(m), newSteps(m, k))
    BY DEF Surjection, newSteps
  <2> QED
    BY <1>1, <2>1, FS_Surjection
<1>3. ASSUME NEW t
      PROVE  /\ IsFiniteSet(NewOccurrences(m, k, t))
             /\ subtaskCount(m, t) = Cardinality(NewOccurrences(m, k, t))
             /\ subtaskCount(m, t) \in Nat
             /\ subtaskCount(m, t) = 0 <=> t \notin distinctSubtasks(m)
  <2> DEFINE S == {i \in Positions(m) : m.subs[i] = t}
             T == NewOccurrences(m, k, t)
             f == [i \in S |-> <<k, i>>]
  <2>1. IsFiniteSet(S)
    BY <1>1, FS_Subset
  <2>2. f \in Bijection(S, T)
    <3>1. f \in [S -> T] /\ \A x \in T : \E i \in S : f[i] = x
      BY DEF NewOccurrences, newSteps
    <3>2. \A i, j \in S : f[i] = f[j] => i = j
      OBVIOUS
    <3> HIDE DEF f, S, T
    <3> QED
      BY <3>1, <3>2 DEF Bijection, Injection, Surjection, IsInjective
  <2>3. IsFiniteSet(T) /\ Cardinality(T) = Cardinality(S)
    <3> HIDE DEF f, S, T
    <3> QED
      BY <2>1, <2>2, FS_Bijection DEF ExistsBijection
  <2>4. S = {} <=> t \notin distinctSubtasks(m)
    BY DEF distinctSubtasks
  <2>5. Cardinality(S) \in Nat /\ (Cardinality(S) = 0 <=> S = {})
    <3> HIDE DEF S
    <3> QED
      BY <2>1, FS_CardinalityType, FS_EmptySet
  <2> QED
    BY <2>3, <2>4, <2>5 DEF subtaskCount
<1> QED
  BY <1>1, <1>2, <1>3

(* updateTaskCounterM counts the network in which the new steps of the     *)
(* method stand for the decomposed one.                                    *)
LEMMA DecomposeCounts ==
  ASSUME NEW h, IsProblem(h), NEW n, TaskCountsExact(n), NEW k, NamedBefore(n, k),
         n.task \in [Steps(n) -> Tasks(h)], k \in Nat, NEW d \in Steps(n),
         NEW mi \in taskToMethods(h, n.task[d])
  PROVE  TaskCountsExact(decomposeStep(h, n, d, mi, k))
<1> DEFINE n2 == decomposeStep(h, n, d, mi, k)
           m == h.methods[mi]
           new == newSteps(m, k)
           rest == Steps(n) \ {d}
           a == n.task[d]
           c == n.contained
           D == distinctSubtasks(m)
           N(t) == NewOccurrences(m, k, t)
           removeAbs == c[a] = 1 /\ a \notin D
           kept == IF removeAbs THEN DOMAIN c \ {a} ELSE DOMAIN c
           merged == [t \in kept \cup D |-> (IF t \in kept THEN c[t] ELSE 0) + subtaskCount(m, t)]
<1> SUFFICES TaskCountsExact(n2)
  OBVIOUS
<1>1. m.task = a /\ IsMethod(h, m)
  BY DEF taskToMethods, IsProblem
<1>2. n2.task = [s \in rest \cup new |-> IF s \in new THEN m.subs[s[2]] ELSE n.task[s]]
  BY DEF decomposeStep
<1>3. /\ n2.contained = IF removeAbs THEN merged ELSE [merged EXCEPT ![a] = @ - 1]
      /\ n2.numContained = n.numContained + Cardinality(D \ DOMAIN c) - (IF removeAbs THEN 1 ELSE 0)
  BY <1>1 DEF decomposeStep, updateTaskCounterM
<1>4. new \cap Steps(n) = {}
  BY DEF newSteps, NamedBefore
<1>5. /\ IsFiniteSet(new) /\ IsFiniteSet(D)
      /\ \A t : /\ IsFiniteSet(N(t)) /\ subtaskCount(m, t) = Cardinality(N(t))
                /\ subtaskCount(m, t) \in Nat
                /\ subtaskCount(m, t) = 0 <=> t \notin D
  <2>1. IsFiniteSet(Positions(m))
    BY <1>1, NewStepsCounted
  <2>2. IsFiniteSet(D)
    <3> DEFINE f == [i \in Positions(m) |-> m.subs[i]]
    <3>1. f \in Surjection(Positions(m), D)
      BY DEF Surjection, distinctSubtasks
    <3> QED
      BY <2>1, <3>1, FS_Surjection
  <2> QED
    BY <1>1, <2>2, NewStepsCounted
<1>6. /\ DOMAIN c = TasksOf(n) /\ a \in TasksOf(n) /\ IsFiniteSet(Steps(n))
      /\ \A t \in TasksOf(n) : c[t] = Cardinality(Occurrences(n, t))
      /\ n.numContained = Cardinality(TasksOf(n))
  BY DEF TaskCountsExact, TasksOf
<1> HIDE DEF n2, m
<1>7. Steps(n2) = rest \cup new /\ IsFiniteSet(Steps(n2))
  <2>1. Steps(n2) = rest \cup new
    BY <1>2 DEF Steps
  <2>2. IsFiniteSet(rest)
    BY <1>6, FS_RemoveElement
  <2>3. IsFiniteSet(new)
    BY <1>5
  <2> HIDE DEF rest, new
  <2> QED
    BY <2>1, <2>2, <2>3, FS_Union
<1>8. ASSUME NEW t
      PROVE  /\ IsFiniteSet(Occurrences(n, t)) /\ Cardinality(Occurrences(n, t)) \in Nat
             /\ Cardinality(Occurrences(n2, t)) =
                  Cardinality(Occurrences(n, t) \ {d}) + subtaskCount(m, t)
             /\ Cardinality(Occurrences(n2, t)) \in Nat
  <2>1. Occurrences(n2, t) = (Occurrences(n, t) \ {d}) \cup N(t)
    BY <1>2, <1>4, <1>7 DEF Occurrences, NewOccurrences
  <2>2. (Occurrences(n, t) \ {d}) \cap N(t) = {}
    BY <1>4 DEF Occurrences, NewOccurrences
  <2> DEFINE O == Occurrences(n, t)
             M == N(t)
             R == O \ {d}
  <2>3. IsFiniteSet(O) /\ Cardinality(O) \in Nat
    BY <1>6, OccurrencesFinite
  <2>4. IsFiniteSet(M) /\ Cardinality(M) \in Nat /\ subtaskCount(m, t) = Cardinality(M)
    BY <1>5
  <2>5. Occurrences(n2, t) = R \cup M /\ R \cap M = {}
    BY <2>1, <2>2
  <2> HIDE DEF O, M
  <2>6. IsFiniteSet(R) /\ Cardinality(R) \in Nat
    BY <2>3, FS_RemoveElement, FS_CardinalityType
  <2> HIDE DEF R
  <2>7. Cardinality(R \cup M) = Cardinality(R) + Cardinality(M) - Cardinality({})
    BY <2>4, <2>5, <2>6, FS_Union
  <2>8. Cardinality({}) = 0
    BY FS_EmptySet
  <2> QED
    BY <2>3, <2>4, <2>5, <2>6, <2>7, <2>8 DEF O, R
<1>9. /\ c[a] \in Nat \ {0}
      /\ Cardinality(Occurrences(n2, a)) = (c[a] - 1) + subtaskCount(m, a)
  <2> DEFINE O == Occurrences(n, a)
  <2>1. /\ IsFiniteSet(O) /\ Cardinality(O) \in Nat /\ d \in O /\ c[a] = Cardinality(O)
        /\ Cardinality(O) # 0
    BY <1>6, OccurrencesFinite DEF Occurrences
  <2>2. Cardinality(Occurrences(n2, a)) = Cardinality(O \ {d}) + subtaskCount(m, a)
    BY <1>8
  <2> HIDE DEF O
  <2>3. Cardinality(O \ {d}) = Cardinality(O) - 1
    BY <2>1, FS_RemoveElement
  <2> QED
    BY <2>1, <2>2, <2>3
<1>10. ASSUME NEW t, t # a
       PROVE  /\ t \in TasksOf(n) => /\ c[t] \in Nat \ {0}
                                     /\ Cardinality(Occurrences(n2, t)) = c[t] + subtaskCount(m, t)
              /\ t \notin TasksOf(n) => Cardinality(Occurrences(n2, t)) = subtaskCount(m, t)
  <2>1. Occurrences(n, t) \ {d} = Occurrences(n, t)
    BY <1>10 DEF Occurrences
  <2>2. Cardinality(Occurrences(n, t)) = 0 <=> t \notin TasksOf(n)
    BY <1>6, OccurrencesFinite
  <2>3. subtaskCount(m, t) \in Nat
    BY <1>5
  <2> QED
    BY <2>1, <2>2, <2>3, <1>6, <1>8
<1>11. TasksOf(n2) = kept \cup D
  <2> SUFFICES ASSUME NEW t PROVE t \in TasksOf(n2) <=> t \in kept \cup D
    OBVIOUS
  <2>1. t \notin TasksOf(n2) <=> Cardinality(Occurrences(n2, t)) = 0
    BY <1>7, OccurrencesFinite
  <2>2. subtaskCount(m, t) \in Nat /\ (subtaskCount(m, t) = 0 <=> t \notin D)
    BY <1>5
  <2>3. CASE t = a
    <3> DEFINE x == c[a]
               y == subtaskCount(m, a)
               z == Cardinality(Occurrences(n2, a))
    <3>1. x \in Nat \ {0} /\ y \in Nat /\ z = (x - 1) + y
      BY <2>2, <2>3, <1>9
    <3>2. z = 0 <=> x = 1 /\ y = 0
      <4> HIDE DEF x, y, z
      <4> QED
        BY <3>1
    <3>3. t \notin TasksOf(n2) <=> c[a] = 1 /\ a \notin D
      BY <2>1, <2>2, <2>3, <3>2
    <3> QED
      BY <2>3, <3>3, <1>6
  <2>4. CASE t # a
    <3>1. t \notin TasksOf(n2) <=> t \notin TasksOf(n) /\ t \notin D
      BY <2>1, <2>2, <2>4, <1>10
    <3>2. t \in kept <=> t \in TasksOf(n)
      BY <2>4, <1>6
    <3> QED
      BY <3>1, <3>2
  <2> QED
    BY <2>3, <2>4
<1>12. DOMAIN n2.contained = TasksOf(n2)
  BY <1>3, <1>11
<1>13. ASSUME NEW t \in TasksOf(n2) PROVE n2.contained[t] = Cardinality(Occurrences(n2, t))
  <2>1. merged[t] = (IF t \in kept THEN c[t] ELSE 0) + subtaskCount(m, t)
    BY <1>11
  <2>2. subtaskCount(m, t) \in Nat /\ (subtaskCount(m, t) = 0 <=> t \notin D)
    BY <1>5
  <2>3. CASE t = a
    <3>1. ~ removeAbs
      BY <2>3, <1>11
    <3>2. n2.contained[t] = merged[t] - 1 /\ t \in kept
      BY <3>1, <2>3, <1>3, <1>6, <1>11
    <3> DEFINE x == c[a]
               y == subtaskCount(m, a)
               z == Cardinality(Occurrences(n2, a))
    <3>3. x \in Nat \ {0} /\ y \in Nat /\ z = (x - 1) + y
      BY <2>2, <2>3, <1>9
    <3>4. n2.contained[t] = (x + y) - 1
      BY <3>2, <2>1, <2>3
    <3>5. n2.contained[t] = z
      <4> HIDE DEF x, y, z
      <4> QED
        BY <3>3, <3>4
    <3> QED
      BY <3>5, <2>3
  <2>4. CASE t # a
    <3> DEFINE x == c[t]
               y == subtaskCount(m, t)
               z == Cardinality(Occurrences(n2, t))
    <3>1. n2.contained[t] = merged[t] /\ (t \in kept <=> t \in TasksOf(n))
      BY <2>4, <1>3, <1>6, <1>11
    <3>2. n2.contained[t] = (IF t \in TasksOf(n) THEN x ELSE 0) + y
      BY <3>1, <2>1
    <3>3. t \in TasksOf(n) => x \in Nat /\ z = x + y
      BY <2>4, <1>10
    <3>4. t \notin TasksOf(n) => z = y
      BY <2>4, <1>10
    <3>5. n2.contained[t] = z
      <4> HIDE DEF x, y, z
      <4> QED
        BY <2>2, <3>2, <3>3, <3>4 DEF y
    <3> QED
      BY <3>5
  <2> QED
    BY <2>3, <2>4
<1>14. n2.numContained = Cardinality(TasksOf(n2))
  <2> DEFINE T == TasksOf(n)
             X == D \ T
  <2>1. IsFiniteSet(T) /\ IsFiniteSet(X) /\ a \in T
    BY <1>5, <1>6, TasksFinite, FS_Difference
  <2>2. n2.numContained = Cardinality(T) + Cardinality(X) - (IF removeAbs THEN 1 ELSE 0)
    BY <1>3, <1>6
  <2>3. TasksOf(n2) = (IF removeAbs THEN T \ {a} ELSE T) \cup X
    BY <1>6, <1>11
  <2>4. X \cap T = {}
    OBVIOUS
  <2> HIDE DEF T, X, removeAbs
  <2>5. Cardinality({}) = 0 /\ Cardinality(T) \in Nat /\ Cardinality(X) \in Nat
    BY <2>1, FS_EmptySet, FS_CardinalityType
  <2>6. CASE removeAbs
    <3>1. IsFiniteSet(T \ {a}) /\ Cardinality(T \ {a}) = Cardinality(T) - 1
      BY <2>1, FS_RemoveElement
    <3>2. (T \ {a}) \cap X = {}
      BY <2>4
    <3>3. Cardinality((T \ {a}) \cup X) = Cardinality(T \ {a}) + Cardinality(X) - Cardinality({})
      BY <3>1, <3>2, <2>1, FS_Union
    <3>4. TasksOf(n2) = (T \ {a}) \cup X /\ n2.numContained = Cardinality(T) + Cardinality(X) - 1
      BY <2>2, <2>3, <2>6
    <3> QED
      BY <3>1, <3>3, <3>4, <2>5
  <2>7. CASE ~ removeAbs
    <3>1. T \cap X = {}
      BY <2>4
    <3>2. Cardinality(T \cup X) = Cardinality(T) + Cardinality(X) - Cardinality({})
      BY <3>1, <2>1, FS_Union
    <3>3. TasksOf(n2) = T \cup X /\ n2.numContained = Cardinality(T) + Cardinality(X) - 0
      BY <2>2, <2>3, <2>7
    <3> QED
      BY <3>2, <3>3, <2>5
  <2> QED
    BY <2>6, <2>7
<1> QED
  BY <1>6, <1>7, <1>12, <1>13, <1>14 DEF TaskCountsExact
-----------------------------------------------------------------------------
(***************************************************************************)
(* The chain of a node as the plan so far.  The tree that the              *)
(* decompositions of the chain make has two kinds of steps that are not    *)
(* decomposed, its leaves: the steps still in the network, and the actions *)
(* of the chain.                                                           *)
(***************************************************************************)
decomposed(sol) == {sol[i].step : i \in decompositions(sol)}

leaves(h, sol) == treeSteps(h, sol) \ decomposed(sol)

(* Every step of the tree is in the chain, once, or in the network; the    *)
(* names of new steps are new.                                             *)
PlanNames(h, n, k) ==
  /\ \A i \in decompositions(n.solution) : n.solution[i].instance \in 1 .. k - 1
  /\ namesDistinct(n.solution)
  /\ stepsOf(n.solution) \cap Steps(n) = {}
  /\ stepsOf(n.solution) \cup Steps(n) = treeSteps(h, n.solution)

(* A step is progressed after the step it stems from.                      *)
ParentsFirst(h, sol) ==
  \A i \in decompositions(sol), j \in DOMAIN sol :
    sol[j].step \in childrenOf(h, sol[i]) => i < j

(* The steps of the network, too, have the tasks they should have.         *)
isOpenTask(n, s, t) == s \in Steps(n) => n.task[s] = t

PlanTasks(h, n) ==
  /\ tasksFit(h, n.solution)
  /\ isOpenTask(n, rootStep, h.initialTask)
  /\ \A i \in decompositions(n.solution) :
       LET e == n.solution[i]
       IN  \A p \in Positions(h.methods[e.method]) :
             isOpenTask(n, <<e.instance, p>>, h.methods[e.method].subs[p])

(* Leaf a comes before leaf b whatever the search does: the network orders *)
(* them, or a has left it and b has not, or a left it first.               *)
leftBefore(sol, a, b) ==
  \E i, j \in DOMAIN sol : sol[i].step = a /\ sol[j].step = b /\ i < j

before(n, a, b) ==
  \/ a \in Steps(n) /\ b \in Steps(n) /\ b \in Reachable(n.succ, n.succ[a])
  \/ a \notin Steps(n) /\ b \in Steps(n)
  \/ a \notin Steps(n) /\ b \notin Steps(n) /\ leftBefore(n.solution, a, b)

LeavesOrdered(h, n) ==
  \A i \in decompositions(n.solution) :
    LET e == n.solution[i]
    IN  \A p \in h.methods[e.method].ord :
          \A a, b \in leaves(h, n.solution) :
            /\ a \in under(h, n.solution, <<e.instance, p[1]>>)
            /\ b \in under(h, n.solution, <<e.instance, p[2]>>)
            => before(n, a, b)

PlanInv(h, n, k) ==
  /\ PlanNames(h, n, k)
  /\ ParentsFirst(h, n.solution)
  /\ PlanTasks(h, n)
  /\ LeavesOrdered(h, n)

(* Appending to the chain.                                                 *)
IsLonger(longer, sol, e) ==
  /\ Len(sol) \in Nat /\ DOMAIN sol = 1 .. Len(sol)
  /\ DOMAIN longer = DOMAIN sol \cup {Len(sol) + 1}
  /\ \A i \in DOMAIN sol : i \in Nat /\ i < Len(sol) + 1 /\ longer[i] = sol[i]
  /\ longer[Len(sol) + 1] = e
  /\ decompositions(longer) =
       decompositions(sol) \cup (IF e.method # 0 THEN {Len(sol) + 1} ELSE {})
  /\ stepsOf(longer) = stepsOf(sol) \cup {e.step}

LEMMA ChainAppended ==
  ASSUME NEW h, NEW sol \in Seq(SolutionSteps(h)), NEW e \in SolutionSteps(h),
         NEW longer, longer = Append(sol, e)
  PROVE  IsLonger(longer, sol, e)
<1>1. /\ Len(sol) \in Nat /\ DOMAIN sol = 1 .. Len(sol) /\ Len(longer) = Len(sol) + 1
      /\ DOMAIN longer = 1 .. Len(sol) + 1
      /\ \A i \in 1 .. Len(sol) : longer[i] = sol[i]
      /\ longer[Len(sol) + 1] = e
  OBVIOUS
<1>2. /\ DOMAIN longer = DOMAIN sol \cup {Len(sol) + 1}
      /\ \A i \in DOMAIN sol : i \in Nat /\ i < Len(sol) + 1 /\ longer[i] = sol[i]
  BY <1>1
<1>3. decompositions(longer) =
        decompositions(sol) \cup (IF e.method # 0 THEN {Len(sol) + 1} ELSE {})
  BY <1>1, <1>2 DEF decompositions
<1>4. stepsOf(longer) = stepsOf(sol) \cup {e.step}
  BY <1>1, <1>2 DEF stepsOf
<1> QED
  BY <1>1, <1>2, <1>3, <1>4 DEF IsLonger

(* An action in the chain leaves the tree as it is.                        *)
LEMMA TreeAfterAction ==
  ASSUME NEW h, NEW sol \in Seq(SolutionSteps(h)), NEW e \in SolutionSteps(h), e.method = 0,
         NEW longer, longer = Append(sol, e)
  PROVE  /\ decompositions(longer) = decompositions(sol)
         /\ treeSteps(h, longer) = treeSteps(h, sol)
         /\ tree(h, longer) = tree(h, sol)
         /\ leaves(h, longer) = leaves(h, sol)
<1>1. /\ decompositions(longer) = decompositions(sol)
      /\ \A i \in decompositions(sol) : longer[i] = sol[i]
  BY ChainAppended DEF IsLonger, decompositions
<1>2. treeSteps(h, longer) = treeSteps(h, sol)
  BY <1>1 DEF treeSteps
<1>3. \A s : /\ decompositionsOf(longer, s) = decompositionsOf(sol, s)
             /\ \A i \in decompositionsOf(sol, s) : longer[i] = sol[i]
  BY <1>1 DEF decompositionsOf
<1>4. \A s : UNION {childrenOf(h, longer[i]) : i \in decompositionsOf(longer, s)} =
             UNION {childrenOf(h, sol[i]) : i \in decompositionsOf(sol, s)}
  BY <1>3
<1>5. tree(h, longer) = tree(h, sol)
  BY <1>2, <1>4 DEF tree
<1>6. leaves(h, longer) = leaves(h, sol)
  BY <1>1, <1>2 DEF leaves, decomposed
<1> QED
  BY <1>1, <1>2, <1>5, <1>6

(* Network n2 has the steps of n but s, with the same successors.  What a  *)
(* step reaches in n without passing s, any set that holds its successors  *)
(* and is closed in n2 contains.                                           *)
closedUnder(succ, X) == \A t \in X : succ[t] \subseteq X

KeepsAllBut(n, n2, s) ==
  /\ Steps(n) \ {s} \subseteq Steps(n2)
  /\ \A t \in Steps(n) \ {s} : n2.succ[t] = n.succ[t]

LEMMA ReachableWithoutFirst ==
  ASSUME NEW h, NEW n, WellFormed(h, n), NEW s \in FirstSteps(n), NEW a \in Steps(n),
         NEW n2, KeepsAllBut(n, n2, s),
         NEW X, closedUnder(n2.succ, X), n.succ[a] \subseteq X
  PROVE  Reachable(n.succ, n.succ[a]) \subseteq X \ {s}
<1> DEFINE Y == (X \cap Steps(n)) \ {s}
<1>1. n.succ \in [Steps(n) -> SUBSET Steps(n)] /\ \A t \in Steps(n) : s \notin n.succ[t]
  BY DEF WellFormed, NodeType, FirstSteps
<1>2. Y \in SUBSET DOMAIN n.succ /\ n.succ[a] \subseteq Y
  BY <1>1
<1>3. \A t \in Y : n.succ[t] \subseteq Y
  BY <1>1 DEF KeepsAllBut, closedUnder
<1> HIDE DEF Y
<1>4. Reachable(n.succ, n.succ[a]) \subseteq Y
  BY <1>2, <1>3, ReachableInClosed
<1> QED
  BY <1>4 DEF Y

(* Taking the unconstrained action s out of the network: no leaf that is   *)
(* still there comes before it, and all others keep their order.           *)
LEMMA ApplyKeepsBefore ==
  ASSUME NEW h, NEW n, WellFormed(h, n), NEW s \in FirstSteps(n),
         NEW n2, Steps(n2) = Steps(n) \ {s}, KeepsAllBut(n, n2, s),
         n2.succ \in [Steps(n2) -> SUBSET Steps(n2)],
         n.solution \in Seq(SolutionSteps(h)), NEW e \in SolutionSteps(h), e.step = s,
         n2.solution = Append(n.solution, e),
         NEW a, NEW b, before(n, a, b),
         a \in Steps(n) \cup stepsOf(n.solution), b \in Steps(n) \cup stepsOf(n.solution)
  PROVE  before(n2, a, b)
<1> DEFINE sol == n.solution
<1>1. /\ Len(sol) \in Nat
      /\ DOMAIN n2.solution = DOMAIN sol \cup {Len(sol) + 1}
      /\ \A i \in DOMAIN sol : i < Len(sol) + 1 /\ n2.solution[i] = sol[i]
      /\ n2.solution[Len(sol) + 1] = e
  BY ChainAppended DEF IsLonger
<1>2. s \in Steps(n)
  BY DEF FirstSteps
<1>3. CASE a \in Steps(n) /\ b \in Steps(n)
  <2>1. b \in Reachable(n.succ, n.succ[a])
    BY <1>3 DEF before
  <2>2. ASSUME NEW X, closedUnder(n2.succ, X), n.succ[a] \subseteq X
        PROVE  b \in X \ {s}
    BY <1>3, <2>1, <2>2, ReachableWithoutFirst
  <2>3. n.succ[a] \subseteq Steps(n2) /\ closedUnder(n2.succ, Steps(n2))
    BY <1>3 DEF WellFormed, NodeType, FirstSteps, closedUnder
  <2>4. b \in Steps(n2)
    BY <2>2, <2>3
  <2>5. CASE a = s
    BY <1>2, <2>4, <2>5 DEF before
  <2>6. CASE a # s
    <3>1. a \in Steps(n2) /\ n2.succ[a] = n.succ[a] /\ DOMAIN n2.succ = Steps(n2)
      BY <1>3, <2>6 DEF KeepsAllBut
    <3>2. b \in Reachable(n2.succ, n2.succ[a])
      BY <2>2, <2>4, <3>1 DEF Reachable, closedUnder
    <3> QED
      BY <2>4, <3>1, <3>2 DEF before
  <2> QED
    BY <2>5, <2>6
<1>4. CASE a \notin Steps(n) /\ b \in Steps(n)
  <2>1. CASE b = s
    <3>1. PICK i \in DOMAIN sol : sol[i].step = a
      BY <1>4 DEF stepsOf
    <3>2. leftBefore(n2.solution, a, b)
      <4>1. /\ i \in DOMAIN n2.solution /\ n2.solution[i].step = a
            /\ Len(sol) + 1 \in DOMAIN n2.solution /\ n2.solution[Len(sol) + 1].step = b
            /\ i < Len(sol) + 1
        BY <1>1, <2>1, <3>1
      <4> QED
        BY <4>1 DEF leftBefore
    <3> QED
      BY <1>4, <2>1, <3>2 DEF before
  <2>2. CASE b # s
    BY <1>4, <2>2 DEF before
  <2> QED
    BY <2>1, <2>2
<1>5. CASE a \notin Steps(n) /\ b \notin Steps(n)
  <2>1. PICK i, j \in DOMAIN sol : sol[i].step = a /\ sol[j].step = b /\ i < j
    BY <1>5 DEF before, leftBefore
  <2>2. leftBefore(n2.solution, a, b)
    BY <1>1, <2>1 DEF leftBefore
  <2> QED
    BY <1>5, <2>2 DEF before
<1>6. CASE a \in Steps(n) /\ b \notin Steps(n)
  BY <1>6 DEF before
<1> QED
  BY <1>3, <1>4, <1>5, <1>6

(* Model::apply keeps the plan so far sound.                               *)
LEMMA ApplyPlan ==
  ASSUME NEW h, IsProblem(h), NEW n, NEW k \in Nat, NodeInv(h, n, k), PlanInv(h, n, k),
         NEW s \in applicableSteps(h, n)
  PROVE  PlanInv(h, applyStep(h, n, s, k), k + 1)
<1> DEFINE n2 == applyStep(h, n, s, k)
           sol == n.solution
           e == [step |-> s, instance |-> k, task |-> n.task[s], method |-> 0, after |-> n2.state]
           decs == decompositions(sol)
<1>1. /\ s \in n.prim /\ s \in Steps(n) /\ s \in FirstSteps(n)
      /\ n.task \in [Steps(n) -> Tasks(h)]
      /\ WellFormed(h, n)
  BY DEF applicableSteps, NodeInv, WellFormed, NodeType, Unconstraint
<1>2. WellFormed(h, n2) /\ n2.solution \in Seq(SolutionSteps(h)) /\ sol \in Seq(SolutionSteps(h))
  <2>1. WellFormed(h, n2)
    BY <1>1, ApplyWellFormed
  <2> HIDE DEF n2
  <2> QED
    BY <1>1, <2>1 DEF WellFormed, NodeType
<1>3. /\ n2.task = Restrict(n.task, Steps(n) \ {s}) /\ n2.succ = Restrict(n.succ, Steps(n) \ {s})
      /\ n2.solution = Append(sol, e)
  BY DEF applyStep
<1>4. /\ Steps(n2) = Steps(n) \ {s}
      /\ \A t \in Steps(n) \ {s} : n2.task[t] = n.task[t] /\ n2.succ[t] = n.succ[t]
      /\ KeepsAllBut(n, n2, s)
  BY <1>3 DEF Restrict, Steps, KeepsAllBut
<1>5. n2.succ \in [Steps(n2) -> SUBSET Steps(n2)]
  BY <1>2 DEF WellFormed, NodeType
<1>6. e \in SolutionSteps(h) /\ e.step = s /\ e.method = 0 /\ e.task = n.task[s]
  <2>1. n2.state \subseteq Facts(h) /\ Steps(n) \subseteq StepNames
    BY <1>1, <1>2 DEF WellFormed, NodeType
  <2> HIDE DEF n2
  <2> QED
    BY <1>1, <2>1 DEF SolutionSteps
<1> HIDE DEF n2, e, sol, decs
<1>7. /\ Len(sol) \in Nat
      /\ DOMAIN n2.solution = DOMAIN sol \cup {Len(sol) + 1}
      /\ \A i \in DOMAIN sol : i \in Nat /\ i < Len(sol) + 1 /\ n2.solution[i] = sol[i]
      /\ n2.solution[Len(sol) + 1] = e
      /\ stepsOf(n2.solution) = stepsOf(sol) \cup {s}
  <2>1. IsLonger(n2.solution, sol, e)
    BY <1>2, <1>3, <1>6, ChainAppended
  <2> QED
    BY <1>6, <2>1 DEF IsLonger
<1>8. /\ decompositions(n2.solution) = decs
      /\ treeSteps(h, n2.solution) = treeSteps(h, sol)
      /\ tree(h, n2.solution) = tree(h, sol)
      /\ leaves(h, n2.solution) = leaves(h, sol)
  BY <1>2, <1>3, <1>6, TreeAfterAction DEF decs
<1>9. decs \subseteq DOMAIN sol /\ \A i \in decs : n2.solution[i] = sol[i]
  BY <1>7 DEF decs, decompositions
<1>10. /\ stepsOf(sol) \cap Steps(n) = {} /\ namesDistinct(sol)
       /\ stepsOf(sol) \cup Steps(n) = treeSteps(h, sol)
       /\ \A i \in decs : sol[i].instance \in 1 .. k - 1
  BY DEF PlanInv, PlanNames, sol, decs
<1>11. PlanNames(h, n2, k + 1)
  <2>1. \A i \in decs : n2.solution[i].instance \in 1 .. (k + 1) - 1
    BY <1>9, <1>10
  <2>2. /\ stepsOf(n2.solution) \cap Steps(n2) = {}
        /\ stepsOf(n2.solution) \cup Steps(n2) = treeSteps(h, n2.solution)
    BY <1>1, <1>4, <1>7, <1>8, <1>10
  <2>3. \A i \in DOMAIN sol : sol[i].step # s
    BY <1>1, <1>10 DEF stepsOf
  <2>4. \A i, j \in DOMAIN n2.solution : n2.solution[i].step = n2.solution[j].step => i = j
    BY <1>6, <1>7, <1>10, <2>3 DEF namesDistinct
  <2>5. \A i, j \in decs : n2.solution[i].instance = n2.solution[j].instance => i = j
    BY <1>9, <1>10 DEF namesDistinct, decs
  <2>6. namesDistinct(n2.solution)
    BY <1>8, <2>4, <2>5 DEF namesDistinct
  <2> QED
    BY <1>8, <2>1, <2>2, <2>6 DEF PlanNames
<1>12. ParentsFirst(h, n2.solution)
  <2>1. ParentsFirst(h, sol)
    BY DEF PlanInv, sol
  <2> QED
    BY <1>7, <1>8, <1>9, <2>1 DEF ParentsFirst, decs
<1>13. PlanTasks(h, n2)
  <2>0. PlanTasks(h, n)
    BY DEF PlanInv
  <2>1. \A t, x : hasTask(sol, x, t) /\ isOpenTask(n, x, t)
                    => hasTask(n2.solution, x, t) /\ isOpenTask(n2, x, t)
    BY <1>1, <1>4, <1>6, <1>7 DEF hasTask, isOpenTask
  <2>2. hasTask(sol, rootStep, h.initialTask) /\ isOpenTask(n, rootStep, h.initialTask)
    BY <2>0 DEF PlanTasks, tasksFit, sol
  <2>3. ASSUME NEW i \in decs
        PROVE  /\ sol[i].method \in taskToMethods(h, sol[i].task)
               /\ \A p \in Positions(h.methods[sol[i].method]) :
                    /\ hasTask(sol, <<sol[i].instance, p>>, h.methods[sol[i].method].subs[p])
                    /\ isOpenTask(n, <<sol[i].instance, p>>, h.methods[sol[i].method].subs[p])
    BY <2>0 DEF PlanTasks, tasksFit, sol, decs
  <2>4. tasksFit(h, n2.solution)
    BY <1>8, <1>9, <2>1, <2>2, <2>3 DEF tasksFit
  <2>5. \A i \in decs : \A p \in Positions(h.methods[sol[i].method]) :
          isOpenTask(n2, <<sol[i].instance, p>>, h.methods[sol[i].method].subs[p])
    BY <2>1, <2>3
  <2> QED
    BY <1>8, <1>9, <2>1, <2>2, <2>4, <2>5 DEF PlanTasks
<1>14. LeavesOrdered(h, n2)
  <2>1. \A x : under(h, n2.solution, x) = under(h, sol, x)
    BY <1>8 DEF under
  <2>2. \A x \in leaves(h, sol) : x \in Steps(n) \cup stepsOf(sol)
    BY <1>10 DEF leaves
  <2>3. ASSUME NEW a, NEW b, before(n, a, b), a \in leaves(h, sol), b \in leaves(h, sol)
        PROVE  before(n2, a, b)
    BY <1>1, <1>2, <1>3, <1>4, <1>5, <1>6, <2>2, <2>3, ApplyKeepsBefore DEF sol
  <2>4. ASSUME NEW i \in decs, NEW p \in h.methods[sol[i].method].ord,
               NEW a \in leaves(h, sol), NEW b \in leaves(h, sol),
               a \in under(h, sol, <<sol[i].instance, p[1]>>),
               b \in under(h, sol, <<sol[i].instance, p[2]>>)
        PROVE  before(n2, a, b)
    <3>1. LeavesOrdered(h, n)
      BY DEF PlanInv
    <3>2. before(n, a, b)
      BY <2>4, <3>1 DEF LeavesOrdered, sol, decs
    <3> QED
      BY <2>3, <3>2
  <2> QED
    BY <1>8, <1>9, <2>1, <2>4 DEF LeavesOrdered
<1> QED
  BY <1>11, <1>12, <1>13, <1>14 DEF PlanInv, n2

(* A decomposition makes a leaf an inner step whose children are leaves.   *)
TreeGrew(h, sol, longer, e) ==
  LET new == childrenOf(h, e)
  IN  /\ treeSteps(h, longer) = treeSteps(h, sol) \cup new
      /\ leaves(h, longer) = (leaves(h, sol) \ {e.step}) \cup new
      /\ DOMAIN tree(h, longer) = treeSteps(h, longer)
      /\ tree(h, longer)[e.step] = new
      /\ \A s \in new : tree(h, longer)[s] = {}
      /\ \A s \in treeSteps(h, sol) \ {e.step} : tree(h, longer)[s] = tree(h, sol)[s]

LEMMA TreeAfterDecomposition ==
  ASSUME NEW h, NEW sol \in Seq(SolutionSteps(h)), NEW e \in SolutionSteps(h), e.method # 0,
         NEW longer, longer = Append(sol, e),
         stepsOf(sol) \subseteq treeSteps(h, sol),
         e.step \in treeSteps(h, sol) \ stepsOf(sol),
         childrenOf(h, e) \cap treeSteps(h, sol) = {}
  PROVE  TreeGrew(h, sol, longer, e)
<1> DEFINE new == childrenOf(h, e)
           last == Len(sol) + 1
<1>1. /\ decompositions(longer) = decompositions(sol) \cup {last}
      /\ longer[last] = e
      /\ \A i \in decompositions(sol) : longer[i] = sol[i] /\ i \in DOMAIN sol
  BY ChainAppended DEF IsLonger, decompositions
<1> HIDE DEF last, new
<1>2. treeSteps(h, longer) = treeSteps(h, sol) \cup new
  <2>1. \A x : (\E i \in decompositions(longer) : x \in childrenOf(h, longer[i]))
                <=> (\E i \in decompositions(sol) : x \in childrenOf(h, sol[i])) \/ x \in new
    BY <1>1 DEF new
  <2>2. \A x, S : x \in treeSteps(h, S)
                   <=> x = rootStep \/ \E i \in decompositions(S) : x \in childrenOf(h, S[i])
    BY DEF treeSteps
  <2> QED
    BY <2>1, <2>2
<1>3. /\ decompositionsOf(longer, e.step) = {last}
      /\ \A s : s # e.step => decompositionsOf(longer, s) = decompositionsOf(sol, s)
  BY <1>1 DEF decompositionsOf, stepsOf
<1>4. DOMAIN tree(h, longer) = treeSteps(h, longer) /\ DOMAIN tree(h, sol) = treeSteps(h, sol)
  BY DEF tree
<1>5. tree(h, longer)[e.step] = new
  <2>1. UNION {childrenOf(h, longer[i]) : i \in {last}} = new
    BY <1>1 DEF new
  <2> QED
    BY <1>2, <1>3, <2>1 DEF tree
<1>6. ASSUME NEW s \in new PROVE tree(h, longer)[s] = {}
  <2>1. s # e.step /\ s \notin stepsOf(sol)
    BY DEF new
  <2>2. decompositionsOf(longer, s) = {}
    BY <1>3, <2>1 DEF decompositionsOf, decompositions, stepsOf
  <2> QED
    BY <1>2, <2>2 DEF tree
<1>7. ASSUME NEW s \in treeSteps(h, sol) \ {e.step} PROVE tree(h, longer)[s] = tree(h, sol)[s]
  <2>1. decompositionsOf(longer, s) = decompositionsOf(sol, s)
    BY <1>3
  <2>2. \A i \in decompositionsOf(sol, s) : longer[i] = sol[i]
    BY <1>1 DEF decompositionsOf
  <2>3. UNION {childrenOf(h, longer[i]) : i \in decompositionsOf(longer, s)} =
        UNION {childrenOf(h, sol[i]) : i \in decompositionsOf(sol, s)}
    BY <2>1, <2>2
  <2> QED
    BY <1>2, <2>3 DEF tree
<1>8. leaves(h, longer) = (leaves(h, sol) \ {e.step}) \cup new
  <2>1. decomposed(longer) = decomposed(sol) \cup {e.step}
    <3>1. \A x : (\E i \in decompositions(longer) : x = longer[i].step)
                  <=> (\E i \in decompositions(sol) : x = sol[i].step) \/ x = e.step
      BY <1>1
    <3>2. ASSUME NEW x PROVE x \in decomposed(longer) <=> x \in decomposed(sol) \/ x = e.step
      <4>1. x \in decomposed(longer) <=> \E i \in decompositions(longer) : x = longer[i].step
        BY DEF decomposed
      <4>2. x \in decomposed(sol) <=> \E i \in decompositions(sol) : x = sol[i].step
        BY DEF decomposed
      <4> QED
        BY <3>1, <4>1, <4>2
    <3> QED
      BY <3>2
  <2>2. decomposed(sol) \subseteq treeSteps(h, sol)
    BY <1>1 DEF stepsOf, decomposed
  <2> QED
    BY <1>2, <2>1, <2>2 DEF leaves, new
<1> QED
  BY <1>2, <1>4, <1>5, <1>6, <1>7, <1>8 DEF TreeGrew, new

(* The tree of a chain stays within its steps.                             *)
LEMMA TreeIsGraph ==
  ASSUME NEW h, NEW sol
  PROVE  /\ DOMAIN tree(h, sol) = treeSteps(h, sol)
         /\ \A s \in treeSteps(h, sol) : tree(h, sol)[s] \subseteq treeSteps(h, sol)
BY DEF tree, treeSteps, decompositionsOf

(* So what is under an older step grows by the new steps at most, and only *)
(* where the decomposed step was; under a new step is only itself.         *)
LEMMA UnderAfterDecomposition ==
  ASSUME NEW h, NEW sol, NEW longer, NEW e, TreeGrew(h, sol, longer, e),
         childrenOf(h, e) \cap treeSteps(h, sol) = {}, e.step \in treeSteps(h, sol),
         NEW s \in treeSteps(h, longer)
  PROVE  /\ s \in treeSteps(h, sol) =>
              under(h, longer, s) \subseteq
                under(h, sol, s) \cup (IF e.step \in under(h, sol, s)
                                       THEN childrenOf(h, e) ELSE {})
         /\ s \in childrenOf(h, e) => under(h, longer, s) \subseteq {s}
<1> DEFINE old == under(h, sol, s)
           new == childrenOf(h, e)
           wider == old \cup (IF e.step \in old THEN new ELSE {})
<1>1. ASSUME s \in treeSteps(h, sol) PROVE under(h, longer, s) \subseteq wider
  <2>1. old \subseteq treeSteps(h, sol) /\ s \in old
    BY <1>1, TreeIsGraph, StartIsReachable DEF under, Reachable
  <2>2. \A t \in old : tree(h, sol)[t] \subseteq old
    BY TreeIsGraph, SuccessorIsReachable DEF under
  <2>3. wider \in SUBSET DOMAIN tree(h, longer)
    BY <2>1 DEF TreeGrew
  <2>4. ASSUME NEW t \in wider PROVE tree(h, longer)[t] \subseteq wider
    <3>1. CASE t = e.step
      BY <2>1, <2>4, <3>1 DEF TreeGrew
    <3>2. CASE t \in new
      BY <3>2 DEF TreeGrew
    <3>3. CASE t \in old \ {e.step}
      BY <2>1, <2>2, <3>3 DEF TreeGrew
    <3> QED
      BY <2>4, <3>1, <3>2, <3>3
  <2> HIDE DEF wider
  <2>5. s \in wider
    BY <2>1 DEF wider
  <2> QED
    BY <2>3, <2>4, <2>5, ReachableInClosed DEF under
<1>2. ASSUME s \in new PROVE under(h, longer, s) \subseteq {s}
  <2>1. {s} \in SUBSET DOMAIN tree(h, longer) /\ tree(h, longer)[s] = {}
    BY <1>2 DEF TreeGrew
  <2> QED
    BY <2>1, ReachableInClosed DEF under
<1> QED
  BY <1>1, <1>2

(* Network n2 is n with the unconstrained step d replaced by method m.     *)
ReplacesStep(n, n2, d, m, k) ==
  /\ Steps(n2) = (Steps(n) \ {d}) \cup newSteps(m, k)
  /\ KeepsAllBut(n, n2, d)
  /\ n2.succ \in [Steps(n2) -> SUBSET Steps(n2)]
  /\ \A i \in Positions(m) : n2.succ[<<k, i>>] = newSuccessors(n, d, m, <<k, i>>)

(* From every new step the depth-first search reaches what it reached from *)
(* the decomposed one: along the method's ordering it comes to a last      *)
(* task, to which initializeMethod appends the old successors.             *)
LEMMA NewStepsReachOld ==
  ASSUME NEW n, NEW n2, NEW d, NEW m, NEW k, ReplacesStep(n, n2, d, m, k), Acyclic(m),
         NEW i \in Positions(m), NEW X, closedUnder(n2.succ, X), n2.succ[<<k, i>>] \subseteq X
  PROVE  n.succ[d] \subseteq X
<1>1. \A j \in Positions(m) :
        /\ \A q \in Successors(m, j) : <<k, q>> \in n2.succ[<<k, j>>]
        /\ j \in LastTasks(m) => n.succ[d] \subseteq n2.succ[<<k, j>>]
  BY DEF ReplacesStep, newSuccessors
<1>2. CASE i \in LastTasks(m)
  BY <1>1, <1>2
<1>3. CASE i \notin LastTasks(m)
  <2> DEFINE Y == {j \in Positions(m) : <<k, j>> \in X}
  <2>1. Y # {} /\ Y \in SUBSET Positions(m)
    BY <1>1, <1>3 DEF LastTasks, Successors
  <2>2. PICK j \in Y : \A q \in Y : <<j, q>> \notin m.ord
    BY <2>1 DEF Acyclic
  <2>3. n2.succ[<<k, j>>] \subseteq X
    BY <2>2 DEF closedUnder
  <2>4. \A q \in Successors(m, j) : q \in Y
    BY <1>1, <2>2, <2>3 DEF Successors
  <2>5. j \in LastTasks(m)
    BY <2>2, <2>4 DEF LastTasks, Successors
  <2> QED
    BY <1>1, <2>2, <2>3, <2>5
<1> QED
  BY <1>2, <1>3

(* Leaf y of the plan so far is x, or a child of x if x is decomposed.     *)
standsFor(y, x, d, new) == IF x = d THEN y \in new ELSE y = x

LEMMA DecomposeKeepsBefore ==
  ASSUME NEW h, NEW n, WellFormed(h, n), NEW d \in FirstSteps(n), NEW m, Acyclic(m),
         NEW k, NEW n2, ReplacesStep(n, n2, d, m, k),
         newSteps(m, k) \cap stepsOf(n.solution) = {},
         n.solution \in Seq(SolutionSteps(h)), NEW e \in SolutionSteps(h),
         n2.solution = Append(n.solution, e),
         NEW x \in Steps(n) \cup stepsOf(n.solution), NEW y \in Steps(n) \cup stepsOf(n.solution),
         before(n, x, y),
         NEW a, standsFor(a, x, d, newSteps(m, k)), NEW b, standsFor(b, y, d, newSteps(m, k))
  PROVE  before(n2, a, b)
<1> DEFINE new == newSteps(m, k)
<1>1. /\ d \in Steps(n) /\ Steps(n2) = (Steps(n) \ {d}) \cup new
      /\ x \in Steps(n) => a \in Steps(n2)
      /\ y \in Steps(n) => b \in Steps(n2)
      /\ x \notin Steps(n) => a = x /\ a \notin Steps(n2)
      /\ y \notin Steps(n) => b = y /\ b \notin Steps(n2)
  BY DEF ReplacesStep, standsFor, FirstSteps
<1>2. CASE x \in Steps(n) /\ y \in Steps(n)
  <2>1. y \in Reachable(n.succ, n.succ[x])
    BY <1>2 DEF before
  <2>2. ASSUME NEW X, closedUnder(n2.succ, X), n2.succ[a] \subseteq X
        PROVE  y \in X \ {d}
    <3>1. n.succ[x] \subseteq X
      <4>1. CASE x = d
        <5>1. PICK i \in Positions(m) : a = <<k, i>>
          BY <4>1 DEF standsFor, newSteps
        <5> QED
          BY <2>2, <4>1, <5>1, NewStepsReachOld
      <4>2. CASE x # d
        BY <1>2, <2>2, <4>2 DEF standsFor, ReplacesStep, KeepsAllBut
      <4> QED
        BY <4>1, <4>2
    <3>2. KeepsAllBut(n, n2, d)
      BY DEF ReplacesStep
    <3> QED
      BY <1>2, <2>1, <2>2, <3>1, <3>2, ReachableWithoutFirst
  <2>3. /\ n2.succ[a] \subseteq Steps(n2) /\ closedUnder(n2.succ, Steps(n2))
        /\ DOMAIN n2.succ = Steps(n2)
    BY <1>1, <1>2 DEF ReplacesStep, closedUnder
  <2>4. y \in Steps(n2) /\ y # d
    BY <2>2, <2>3
  <2>5. b = y
    BY <2>4 DEF standsFor
  <2>6. y \in Reachable(n2.succ, n2.succ[a])
    BY <2>2, <2>3, <2>4 DEF Reachable, closedUnder
  <2> QED
    BY <1>1, <1>2, <2>5, <2>6 DEF before
<1>3. CASE x \notin Steps(n) /\ y \in Steps(n)
  BY <1>1, <1>3 DEF before
<1>4. CASE x \notin Steps(n) /\ y \notin Steps(n)
  <2>1. PICK i, j \in DOMAIN n.solution :
          n.solution[i].step = x /\ n.solution[j].step = y /\ i < j
    BY <1>4 DEF before, leftBefore
  <2>2. IsLonger(n2.solution, n.solution, e)
    BY ChainAppended
  <2>3. leftBefore(n2.solution, x, y)
    BY <2>1, <2>2 DEF leftBefore, IsLonger
  <2> QED
    BY <1>1, <1>4, <2>3 DEF before
<1>5. CASE x \in Steps(n) /\ y \notin Steps(n)
  BY <1>5 DEF before
<1> QED
  BY <1>2, <1>3, <1>4, <1>5

(* The network decomposeStep makes.                                        *)
LEMMA DecomposeReplaces ==
  ASSUME NEW h, IsProblem(h), NEW n, NEW k \in Nat, NodeInv(h, n, k),
         NEW d \in n.abs, NEW mi \in taskToMethods(h, n.task[d])
  PROVE  LET m  == h.methods[mi]
             n2 == decomposeStep(h, n, d, mi, k)
             e  == [step |-> d, instance |-> k, task |-> m.task, method |-> mi, after |-> n.state]
         IN  /\ ReplacesStep(n, n2, d, m, k) /\ Acyclic(m)
             /\ m.task = n.task[d] /\ mi # 0
             /\ \A t \in Steps(n) \ {d} : n2.task[t] = n.task[t]
             /\ \A i \in Positions(m) : n2.task[<<k, i>>] = m.subs[i]
             /\ n2.solution = Append(n.solution, e)
             /\ e \in SolutionSteps(h) /\ n.solution \in Seq(SolutionSteps(h))
<1> DEFINE m  == h.methods[mi]
           n2 == decomposeStep(h, n, d, mi, k)
           e  == [step |-> d, instance |-> k, task |-> m.task, method |-> mi, after |-> n.state]
           new == newSteps(m, k)
           all == (Steps(n) \ {d}) \cup new
<1>1. /\ n.task \in [Steps(n) -> Tasks(h)] /\ Steps(n) \subseteq StepNames
      /\ d \in Steps(n) /\ n.state \subseteq Facts(h)
      /\ n.solution \in Seq(SolutionSteps(h))
      /\ WellFormed(h, n)
  BY DEF NodeInv, WellFormed, NodeType
<1>2. mi \in Nat /\ mi # 0 /\ m.task = n.task[d] /\ Acyclic(m) /\ IsMethod(h, m)
  BY MethodsAreNumbered DEF taskToMethods, IsProblem, IsMethod
<1>3. WellFormed(h, n2)
  BY <1>1, DecomposeWellFormed DEF NodeInv
<1>4. new \cap Steps(n) = {}
  BY <1>1 DEF newSteps, NodeInv, NamedBefore
<1>5. /\ n2.task = [s \in all |-> IF s \in new THEN m.subs[s[2]] ELSE n.task[s]]
      /\ n2.succ = [s \in all |-> IF s \in new THEN newSuccessors(n, d, m, s) ELSE n.succ[s]]
      /\ n2.solution = Append(n.solution, e)
  BY DEF decomposeStep
<1>6. Steps(n2) = all
  BY <1>5 DEF Steps
<1> HIDE DEF m, n2, e
<1>7. n2.succ \in [Steps(n2) -> SUBSET Steps(n2)]
  BY <1>3 DEF WellFormed, NodeType
<1>8. \A i \in Positions(m) : <<k, i>> \in new /\ <<k, i>>[2] = i
  BY DEF newSteps
<1> HIDE DEF new
<1>9. /\ \A i \in Positions(m) : n2.succ[<<k, i>>] = newSuccessors(n, d, m, <<k, i>>)
      /\ \A i \in Positions(m) : n2.task[<<k, i>>] = m.subs[i]
  BY <1>5, <1>8
<1>10. \A t \in Steps(n) \ {d} : n2.task[t] = n.task[t] /\ n2.succ[t] = n.succ[t] /\ t \in all
  BY <1>4, <1>5
<1>11. ReplacesStep(n, n2, d, m, k)
  BY <1>6, <1>7, <1>9, <1>10 DEF ReplacesStep, KeepsAllBut, new
<1>12. e \in SolutionSteps(h)
  BY <1>1, <1>2 DEF SolutionSteps, e
<1> QED
  BY <1>1, <1>2, <1>5, <1>9, <1>10, <1>11, <1>12 DEF m, n2, e

(* Model::decompose keeps the plan so far sound.                           *)
LEMMA DecomposePlan ==
  ASSUME NEW h, IsProblem(h), NEW n, NEW k \in Nat, k > 0, NodeInv(h, n, k), PlanInv(h, n, k),
         NEW d \in n.abs, NEW mi \in taskToMethods(h, n.task[d])
  PROVE  PlanInv(h, decomposeStep(h, n, d, mi, k), k + 1)
<1> DEFINE n2 == decomposeStep(h, n, d, mi, k)
           m == h.methods[mi]
           sol == n.solution
           longer == n2.solution
           e == [step |-> d, instance |-> k, task |-> m.task, method |-> mi, after |-> n.state]
           decs == decompositions(sol)
           new == newSteps(m, k)
           last == Len(sol) + 1
<1>1. /\ d \in Steps(n) /\ d \in FirstSteps(n) /\ WellFormed(h, n)
  BY DEF NodeInv, WellFormed, NodeType, Unconstraint
<1>2. /\ ReplacesStep(n, n2, d, m, k) /\ Acyclic(m)
      /\ m.task = n.task[d] /\ mi # 0
      /\ \A t \in Steps(n) \ {d} : n2.task[t] = n.task[t]
      /\ \A i \in Positions(m) : n2.task[<<k, i>>] = m.subs[i]
      /\ longer = Append(sol, e)
      /\ e \in SolutionSteps(h) /\ sol \in Seq(SolutionSteps(h))
  BY DecomposeReplaces
<1>3. /\ e.step = d /\ e.method = mi /\ e.instance = k /\ e.task = m.task
      /\ h.methods[e.method] = m /\ childrenOf(h, e) = new
      /\ mi \in Methods(h) /\ m.ord \subseteq Positions(m) \X Positions(m)
  BY DEF childrenOf, newSteps, taskToMethods, IsProblem, IsMethod
<1> HIDE DEF n2, e, m, sol, decs, last, longer
<1>4. IsLonger(longer, sol, e)
  BY <1>2, ChainAppended
<1>5. /\ last \in Nat /\ DOMAIN longer = DOMAIN sol \cup {last}
      /\ \A i \in DOMAIN sol : i < last /\ longer[i] = sol[i]
      /\ longer[last] = e /\ last \notin DOMAIN sol
      /\ decompositions(longer) = decs \cup {last}
      /\ stepsOf(longer) = stepsOf(sol) \cup {d}
      /\ decs \subseteq DOMAIN sol
  BY <1>2, <1>3, <1>4 DEF IsLonger, last, decs, decompositions
<1>6. /\ stepsOf(sol) \cap Steps(n) = {} /\ namesDistinct(sol)
      /\ stepsOf(sol) \cup Steps(n) = treeSteps(h, sol)
      /\ \A i \in decs : sol[i].instance \in 1 .. k - 1
  BY DEF PlanInv, PlanNames, sol, decs
<1>7. new \cap treeSteps(h, sol) = {}
  <2>1. rootStep \notin new
    BY DEF rootStep, newSteps
  <2>2. \A i \in decs : childrenOf(h, sol[i]) \cap new = {}
    BY <1>6 DEF childrenOf, newSteps
  <2> QED
    BY <2>1, <2>2 DEF treeSteps, decs
<1>8. /\ Steps(n2) = (Steps(n) \ {d}) \cup new
      /\ \A i \in Positions(m) : <<k, i>> \in new
  BY <1>2 DEF ReplacesStep, newSteps
<1>9. TreeGrew(h, sol, longer, e)
  BY <1>1, <1>2, <1>3, <1>6, <1>7, TreeAfterDecomposition
<1>10. /\ treeSteps(h, longer) = treeSteps(h, sol) \cup new
       /\ leaves(h, longer) = (leaves(h, sol) \ {d}) \cup new
  BY <1>3, <1>9 DEF TreeGrew
<1> HIDE DEF new
<1>11. PlanNames(h, n2, k + 1)
  <2>1. \A i \in decs \cup {last} : longer[i].instance \in 1 .. (k + 1) - 1
    BY <1>3, <1>5, <1>6
  <2>2. /\ stepsOf(longer) \cap Steps(n2) = {}
        /\ stepsOf(longer) \cup Steps(n2) = treeSteps(h, longer)
    BY <1>1, <1>5, <1>6, <1>7, <1>8, <1>10
  <2>3. \A i \in DOMAIN sol : sol[i].step # d
    BY <1>1, <1>6 DEF stepsOf
  <2>4. \A i, j \in DOMAIN longer : longer[i].step = longer[j].step => i = j
    BY <1>3, <1>5, <1>6, <2>3 DEF namesDistinct
  <2>5. \A i \in decs : sol[i].instance # k
    BY <1>6
  <2>6. \A i, j \in decs \cup {last} : longer[i].instance = longer[j].instance => i = j
    BY <1>3, <1>5, <1>6, <2>5 DEF namesDistinct, decs
  <2>7. namesDistinct(longer)
    BY <1>5, <2>4, <2>6 DEF namesDistinct
  <2> QED
    BY <1>5, <2>1, <2>2, <2>7 DEF PlanNames, longer
<1>12. ParentsFirst(h, longer)
  <2>1. ParentsFirst(h, sol)
    BY DEF PlanInv, sol
  <2>2. \A j \in DOMAIN longer : longer[j].step \in treeSteps(h, sol)
    BY <1>1, <1>3, <1>5, <1>6 DEF stepsOf
  <2>3. ASSUME NEW i \in decs \cup {last}, NEW j \in DOMAIN sol \cup {last},
               longer[j].step \in childrenOf(h, longer[i])
        PROVE  i < j
    <3>1. CASE i = last
      BY <1>3, <1>5, <1>7, <2>2, <2>3, <3>1
    <3>2. CASE i \in decs /\ j = last
      BY <1>5, <3>2
    <3>3. CASE i \in decs /\ j \in DOMAIN sol
      BY <1>5, <2>1, <2>3, <3>3 DEF ParentsFirst, decs
    <3> QED
      BY <2>3, <3>1, <3>2, <3>3
  <2> QED
    BY <1>5, <2>3 DEF ParentsFirst
<1>13. PlanTasks(h, n2)
  <2>0. PlanTasks(h, n)
    BY DEF PlanInv
  <2>1. \A t : \A x \in treeSteps(h, sol) :
          hasTask(sol, x, t) /\ isOpenTask(n, x, t)
            => hasTask(longer, x, t) /\ isOpenTask(n2, x, t)
    BY <1>1, <1>2, <1>3, <1>5, <1>7, <1>8 DEF hasTask, isOpenTask
  <2>2. hasTask(sol, rootStep, h.initialTask) /\ isOpenTask(n, rootStep, h.initialTask)
    BY <2>0 DEF PlanTasks, tasksFit, sol
  <2>3. ASSUME NEW i \in decs
        PROVE  /\ sol[i].method \in taskToMethods(h, sol[i].task)
               /\ \A p \in Positions(h.methods[sol[i].method]) :
                    /\ hasTask(sol, <<sol[i].instance, p>>, h.methods[sol[i].method].subs[p])
                    /\ isOpenTask(n, <<sol[i].instance, p>>, h.methods[sol[i].method].subs[p])
                    /\ <<sol[i].instance, p>> \in treeSteps(h, sol)
    <3> DEFINE f == h.methods[sol[i].method]
    <3>1. /\ sol[i].method \in taskToMethods(h, sol[i].task)
          /\ \A p \in Positions(f) : hasTask(sol, <<sol[i].instance, p>>, f.subs[p])
      BY <2>0 DEF PlanTasks, tasksFit, sol, decs
    <3>2. \A p \in Positions(f) : isOpenTask(n, <<sol[i].instance, p>>, f.subs[p])
      BY <2>0 DEF PlanTasks, sol, decs
    <3>3. \A p \in Positions(f) : <<sol[i].instance, p>> \in childrenOf(h, sol[i])
      BY DEF childrenOf
    <3>4. childrenOf(h, sol[i]) \subseteq treeSteps(h, sol)
      BY DEF treeSteps, decs
    <3> QED
      BY <3>1, <3>2, <3>3, <3>4
  <2>4. rootStep \in treeSteps(h, sol)
    BY DEF treeSteps
  <2>5. \A j \in DOMAIN longer : longer[j].step \notin new
    BY <1>1, <1>3, <1>5, <1>6, <1>7 DEF stepsOf
  <2>6. \A p \in Positions(m) :
          hasTask(longer, <<k, p>>, m.subs[p]) /\ isOpenTask(n2, <<k, p>>, m.subs[p])
    BY <1>2, <1>8, <2>5 DEF hasTask, isOpenTask
  <2>7. e.method \in taskToMethods(h, e.task)
    BY <1>3 DEF taskToMethods, m
  <2>8. ASSUME NEW i \in decs \cup {last}
        PROVE  /\ longer[i].method \in taskToMethods(h, longer[i].task)
               /\ \A p \in Positions(h.methods[longer[i].method]) :
                    /\ hasTask(longer, <<longer[i].instance, p>>,
                               h.methods[longer[i].method].subs[p])
                    /\ isOpenTask(n2, <<longer[i].instance, p>>,
                                  h.methods[longer[i].method].subs[p])
    <3>1. CASE i = last
      BY <1>3, <1>5, <2>6, <2>7, <3>1
    <3>2. CASE i \in decs
      BY <1>5, <2>1, <2>3, <3>2
    <3> QED
      BY <3>1, <3>2
  <2>9. hasTask(longer, rootStep, h.initialTask) /\ isOpenTask(n2, rootStep, h.initialTask)
    BY <2>1, <2>2, <2>4
  <2>10. tasksFit(h, longer)
    BY <1>5, <2>8, <2>9 DEF tasksFit
  <2> QED
    BY <1>5, <2>8, <2>9, <2>10 DEF PlanTasks, longer
<1>14. LeavesOrdered(h, n2)
  <2>1. \A x \in leaves(h, sol) : x \in Steps(n) \cup stepsOf(sol)
    BY <1>6 DEF leaves
  <2>2. new \cap stepsOf(sol) = {}
    BY <1>6, <1>7
  <2>3. ASSUME NEW i \in decs, NEW p \in h.methods[sol[i].method].ord,
               NEW a \in leaves(h, longer), NEW b \in leaves(h, longer),
               a \in under(h, longer, <<sol[i].instance, p[1]>>),
               b \in under(h, longer, <<sol[i].instance, p[2]>>)
        PROVE  before(n2, a, b)
    <3>1. h.methods[sol[i].method].ord \subseteq
            Positions(h.methods[sol[i].method]) \X Positions(h.methods[sol[i].method])
      <4>1. sol[i].method \in Methods(h)
        BY DEF PlanInv, PlanTasks, tasksFit, taskToMethods, sol, decs
      <4> QED
        BY <4>1 DEF IsProblem, IsMethod
    <3>2. \A q \in Positions(h.methods[sol[i].method]) :
             <<sol[i].instance, q>> \in treeSteps(h, sol)
      BY DEF treeSteps, childrenOf, decs
    <3>3. ASSUME NEW s \in treeSteps(h, sol), NEW z \in leaves(h, longer), z \in under(h, longer, s)
          PROVE  \E x \in leaves(h, sol) : x \in under(h, sol, s) /\ standsFor(z, x, d, new)
      <4>1. z \in under(h, sol, s) \cup (IF d \in under(h, sol, s) THEN new ELSE {})
        BY <1>1, <1>3, <1>6, <1>7, <1>9, <1>10, <3>3, UnderAfterDecomposition
      <4>2. CASE z \in new
        <5>1. under(h, sol, s) \subseteq treeSteps(h, sol)
          BY TreeIsGraph DEF under, Reachable
        <5>2. d \in under(h, sol, s)
          BY <1>7, <4>1, <4>2, <5>1
        <5>3. d \in leaves(h, sol)
          <6>1. decomposed(sol) \subseteq stepsOf(sol)
            BY DEF decomposed, decompositions, stepsOf
          <6> QED
            BY <1>1, <1>6, <6>1 DEF leaves
        <5> QED
          BY <4>2, <5>2, <5>3 DEF standsFor
      <4>3. CASE z \notin new
        BY <1>10, <3>3, <4>1, <4>3 DEF standsFor
      <4> QED
        BY <4>2, <4>3
    <3>4. PICK x \in leaves(h, sol) :
            x \in under(h, sol, <<sol[i].instance, p[1]>>) /\ standsFor(a, x, d, new)
      BY <2>3, <3>1, <3>2, <3>3
    <3>5. PICK y \in leaves(h, sol) :
            y \in under(h, sol, <<sol[i].instance, p[2]>>) /\ standsFor(b, y, d, new)
      BY <2>3, <3>1, <3>2, <3>3
    <3>6. before(n, x, y)
      BY <3>4, <3>5 DEF PlanInv, LeavesOrdered, sol, decs
    <3> QED
      BY <1>1, <1>2, <2>1, <2>2, <3>4, <3>5, <3>6, DecomposeKeepsBefore DEF new, sol, longer
  <2>4. ASSUME NEW p \in m.ord,
               NEW a \in under(h, longer, <<k, p[1]>>), NEW b \in under(h, longer, <<k, p[2]>>)
        PROVE  before(n2, a, b)
    <3>1. /\ p[1] \in Positions(m) /\ p[2] \in Positions(m) /\ p = <<p[1], p[2]>>
          /\ <<k, p[1]>> \in new /\ <<k, p[2]>> \in new
      BY <1>3, <1>8
    <3>2. \A s \in new : under(h, longer, s) \subseteq {s}
      BY <1>1, <1>3, <1>6, <1>7, <1>9, <1>10, UnderAfterDecomposition
    <3>3. a = <<k, p[1]>> /\ b = <<k, p[2]>>
      BY <2>4, <3>1, <3>2
    <3>4. b \in n2.succ[a] /\ a \in Steps(n2) /\ b \in Steps(n2)
      <4>1. p[2] \in Successors(m, p[1])
        BY <3>1 DEF Successors
      <4>2. <<k, p[2]>> \in newSuccessors(n, d, m, <<k, p[1]>>)
        BY <4>1 DEF newSuccessors
      <4>3. n2.succ[<<k, p[1]>>] = newSuccessors(n, d, m, <<k, p[1]>>)
        BY <1>2, <3>1 DEF ReplacesStep
      <4> QED
        BY <1>8, <3>1, <3>3, <4>2, <4>3
    <3>5. n2.succ[a] \subseteq Reachable(n2.succ, n2.succ[a])
      BY <1>2, <3>4, StartIsReachable DEF ReplacesStep
    <3> QED
      BY <3>4, <3>5 DEF before
  <2> QED
    BY <1>3, <1>5, <2>3, <2>4 DEF LeavesOrdered, longer
<1> QED
  BY <1>11, <1>12, <1>13, <1>14 DEF PlanInv, n2, longer

(* prepareTNi: the plan so far is the initial task.                        *)
LEMMA InitialPlan ==
  ASSUME NEW h
  PROVE  PlanInv(h, prepareTNi(h), 1)
<1> DEFINE n == prepareTNi(h)
<1>1. /\ n.solution = << >> /\ Steps(n) = {rootStep} /\ n.task[rootStep] = h.initialTask
  BY DEF prepareTNi, Steps, rootStep
<1> HIDE DEF n
<1>2. DOMAIN n.solution = {} /\ decompositions(n.solution) = {} /\ stepsOf(n.solution) = {}
  BY <1>1 DEF decompositions, stepsOf
<1>3. treeSteps(h, n.solution) = {rootStep}
  BY <1>2 DEF treeSteps
<1>4. PlanNames(h, n, 1)
  BY <1>1, <1>2, <1>3 DEF PlanNames, namesDistinct
<1>5. PlanTasks(h, n)
  BY <1>1, <1>2 DEF PlanTasks, tasksFit, hasTask, isOpenTask
<1>6. ParentsFirst(h, n.solution) /\ LeavesOrdered(h, n)
  BY <1>2 DEF ParentsFirst, LeavesOrdered
<1> QED
  BY <1>4, <1>5, <1>6 DEF PlanInv, n

(* Later progression steps, and push, change nothing of it.                *)
LEMMA OlderPlan ==
  ASSUME NEW h, NEW n, NEW k \in Nat, PlanInv(h, n, k)
  PROVE  PlanInv(h, n, k + 1)
<1>1. \A i \in decompositions(n.solution) : n.solution[i].instance \in 1 .. (k + 1) - 1
  BY DEF PlanInv, PlanNames
<1> QED
  BY <1>1 DEF PlanInv, PlanNames

LEMMA SamePlan ==
  ASSUME NEW h, NEW n, NEW k, PlanInv(h, n, k), NEW p,
         p.task = n.task, p.succ = n.succ, p.solution = n.solution
  PROVE  PlanInv(h, p, k)
<1>1. Steps(p) = Steps(n)
  BY DEF Steps
<1>2. \A a, b : before(n, a, b) => before(p, a, b)
  BY <1>1 DEF before
<1>3. PlanNames(h, p, k) /\ PlanTasks(h, p)
  <2>1. PlanNames(h, p, k)
    BY <1>1 DEF PlanInv, PlanNames
  <2>2. \A s, t : isOpenTask(p, s, t) <=> isOpenTask(n, s, t)
    BY <1>1 DEF isOpenTask
  <2>3. PlanTasks(h, p)
    BY <2>2 DEF PlanInv, PlanTasks
  <2> QED
    BY <2>1, <2>3
<1>4. LeavesOrdered(h, p)
  BY <1>2 DEF PlanInv, LeavesOrdered
<1> QED
  BY <1>3, <1>4 DEF PlanInv

-----------------------------------------------------------------------------
(***************************************************************************)
(* The chain of a goal node is a plan.                                     *)
(***************************************************************************)
(* The state the chain leads to, computed from the problem, is the state   *)
(* the chain records.                                                      *)
LEMMA StateIsRecorded ==
  ASSUME NEW h, NEW n, n.solution \in Seq(SolutionSteps(h)), ChainExecutes(h, n)
  PROVE  \A i \in 0 .. Len(n.solution) :
           stateAfter(h, n.solution, i) = stateBefore(h, n.solution, i + 1)
<1> DEFINE sol == n.solution
           D == 0 .. Len(sol)
           next(f, j) == IF j = 0 THEN h.s0
                         ELSE IF sol[j].method # 0 THEN f[j - 1]
                         ELSE (f[j - 1] \ h.del[sol[j].task]) \cup h.add[sol[j].task]
           all(f) == [j \in D |-> IF j = 0 THEN h.s0
                         ELSE IF sol[j].method # 0 THEN f[j - 1]
                         ELSE (f[j - 1] \ h.del[sol[j].task]) \cup h.add[sol[j].task]]
           it == CHOOSE f : f = all(f)
           rec == [j \in D |-> stateBefore(h, sol, j + 1)]
<1>1. \A i : stateAfter(h, sol, i) = it[i]
  BY DEF stateAfter
<1>2. Len(sol) \in Nat /\ DOMAIN sol = 1 .. Len(sol)
  OBVIOUS
<1>3. ASSUME NEW j \in D PROVE rec[j] = next(rec, j)
  <2>1. CASE j = 0
    BY <2>1 DEF stateBefore
  <2>2. CASE j # 0
    <3>1. j \in 1 .. Len(sol) /\ j - 1 \in D /\ j + 1 # 1 /\ (j + 1) - 1 = j /\ (j - 1) + 1 = j
      BY <1>2, <2>2
    <3>2. StepExecutes(h, sol[j], stateBefore(h, sol, j))
      BY <3>1 DEF ChainExecutes
    <3>3. rec[j] = sol[j].after /\ rec[j - 1] = stateBefore(h, sol, j)
      BY <3>1 DEF stateBefore
    <3> QED
      BY <2>2, <3>2, <3>3 DEF StepExecutes
  <2> QED
    BY <2>1, <2>2
<1>4. rec = all(rec)
  <2>1. rec = [j \in D |-> rec[j]]
    OBVIOUS
  <2> HIDE DEF rec, D
  <2> QED
    BY <1>3, <2>1
<1>5. it = all(it)
  <2> HIDE DEF all, rec
  <2> QED
    BY <1>4
<1>6. ASSUME NEW j \in D PROVE it[j] = rec[j]
  <2> DEFINE S == {i \in Nat : i \in D => it[i] = rec[i]}
  <2>0. \A i \in D : it[i] = next(it, i)
    <3> HIDE DEF it, D
    <3> QED
      BY <1>5
  <2> HIDE DEF it, rec
  <2>1. 0 \in S
    BY <1>2, <1>3, <2>0
  <2>2. ASSUME NEW i \in Nat, i \in S PROVE i + 1 \in S
    <3>1. SUFFICES ASSUME i + 1 \in D PROVE it[i + 1] = rec[i + 1]
      OBVIOUS
    <3>2. i \in D /\ it[i] = rec[i] /\ (i + 1) - 1 = i /\ i + 1 # 0
      BY <1>2, <2>2, <3>1
    <3>3. next(it, i + 1) = next(rec, i + 1)
      BY <3>2
    <3> HIDE DEF next, D
    <3>4. it[i + 1] = next(it, i + 1) /\ rec[i + 1] = next(rec, i + 1)
      BY <1>3, <2>0, <3>1
    <3> QED
      BY <3>3, <3>4
  <2> HIDE DEF S
  <2>3. Nat \subseteq S
    BY <2>1, <2>2, Induction
  <2>4. j \in Nat
    BY <1>2
  <2> QED
    BY <2>3, <2>4 DEF S
<1> HIDE DEF it, rec
<1> QED
  BY <1>1, <1>6 DEF rec

(* A goal node has no step left: a step left would have a first one.       *)
LEMMA GoalIsEmpty ==
  ASSUME NEW h, NEW n, WellFormed(h, n), isGoal(h, n)
  PROVE  Steps(n) = {}
<1> SUFFICES ASSUME Steps(n) # {} PROVE FALSE
  OBVIOUS
<1>1. Steps(n) \in (SUBSET Steps(n)) \ {{}}
  OBVIOUS
<1>2. PICK x \in Steps(n) : \A y \in Steps(n) : x \notin n.succ[y]
  BY <1>1 DEF WellFormed, AcyclicNetwork
<1> QED
  BY <1>2 DEF WellFormed, FirstSteps, Unconstraint, isGoal

(* Every step of the chain is under the initial task: the first one that   *)
(* were not would stem from one that is.                                   *)
LEMMA ChainIsTree ==
  ASSUME NEW h, NEW sol, sol \in Seq(SolutionSteps(h)),
         ParentsFirst(h, sol), stepsOf(sol) = treeSteps(h, sol)
  PROVE  treeSteps(h, sol) \subseteq under(h, sol, rootStep)
<1> DEFINE R == under(h, sol, rootStep)
           T == {j \in DOMAIN sol : sol[j].step \notin R}
<1>1. DOMAIN sol = 1 .. Len(sol) /\ T \in SUBSET Nat
  OBVIOUS
<1>2. rootStep \in R /\ R \subseteq treeSteps(h, sol)
  <2>1. {rootStep} \in SUBSET DOMAIN tree(h, sol)
    BY TreeIsGraph DEF treeSteps
  <2> QED
    BY <2>1, TreeIsGraph, StartIsReachable DEF under, Reachable
<1>3. \A t \in R : tree(h, sol)[t] \subseteq R
  BY TreeIsGraph, SuccessorIsReachable DEF under
<1> HIDE DEF R
<1>4. ASSUME T # {} PROVE FALSE
  <2>1. PICK j \in T : \A i \in T : j <= i
    <3> HIDE DEF T
    <3> QED
      BY <1>1, <1>4, LeastElement
  <2>2. sol[j].step \in treeSteps(h, sol) \ {rootStep}
    BY <1>2, <2>1 DEF stepsOf
  <2>3. PICK i \in decompositions(sol) : sol[j].step \in childrenOf(h, sol[i])
    BY <2>2 DEF treeSteps
  <2>4. i < j /\ i \in DOMAIN sol
    BY <2>1, <2>3 DEF ParentsFirst, decompositions
  <2>5. i \notin T
    BY <1>1, <2>1, <2>4
  <2>6. sol[i].step \in R
    BY <2>4, <2>5
  <2>7. childrenOf(h, sol[i]) \subseteq tree(h, sol)[sol[i].step]
    <3>1. i \in decompositionsOf(sol, sol[i].step) /\ sol[i].step \in treeSteps(h, sol)
      BY <1>2, <2>3, <2>6 DEF decompositionsOf
    <3> QED
      BY <3>1 DEF tree
  <2> QED
    BY <1>3, <2>1, <2>3, <2>6, <2>7
<1> QED
  BY <1>4 DEF stepsOf, R

LEMMA GoalPlan ==
  ASSUME NEW h, NEW n, NEW k \in Nat, NodeInv(h, n, k), PlanInv(h, n, k), isGoal(h, n)
  PROVE  ValidPlan(h, n.solution)
<1> DEFINE sol == n.solution
<1>1. Steps(n) = {} /\ sol \in Seq(SolutionSteps(h)) /\ h.goal \subseteq n.state
  BY GoalIsEmpty DEF NodeInv, WellFormed, NodeType, isGoal
<1>2. Len(sol) \in Nat /\ DOMAIN sol = 1 .. Len(sol)
  BY <1>1
<1> HIDE DEF sol
<1>3. stepsOf(sol) = treeSteps(h, sol) /\ namesDistinct(sol)
  BY <1>1 DEF PlanInv, PlanNames, sol
<1>4. treeComplete(h, sol)
  <2>1. treeSteps(h, sol) \subseteq under(h, sol, rootStep)
    BY <1>1, <1>3, ChainIsTree DEF PlanInv, sol
  <2>2. ASSUME NEW i \in decompositions(sol)
        PROVE  rootStep \notin childrenOf(h, sol[i])
    <3>1. sol[i].instance # 0
      BY DEF PlanInv, PlanNames, sol
    <3> QED
      BY <3>1 DEF childrenOf, rootStep
  <2> QED
    BY <1>3, <2>1, <2>2 DEF PlanInv, PlanTasks, treeComplete, sol
<1>5. orderRespected(h, sol)
  <2>1. ASSUME NEW s, NEW j \in actionsUnder(h, sol, s)
        PROVE  /\ j \in DOMAIN sol /\ sol[j].step \in leaves(h, sol)
               /\ sol[j].step \in under(h, sol, s)
    <3>1. j \in DOMAIN sol \ decompositions(sol) /\ sol[j].step \in under(h, sol, s)
      BY DEF actionsUnder
    <3>2. sol[j].step \in treeSteps(h, sol)
      BY <1>3, <3>1 DEF stepsOf
    <3>3. sol[j].step \notin decomposed(sol)
      BY <1>3, <3>1 DEF decomposed, decompositions, namesDistinct
    <3> QED
      BY <3>1, <3>2, <3>3 DEF leaves
  <2>2. ASSUME NEW i \in decompositions(sol), NEW p \in h.methods[sol[i].method].ord,
               NEW a \in actionsUnder(h, sol, <<sol[i].instance, p[1]>>),
               NEW b \in actionsUnder(h, sol, <<sol[i].instance, p[2]>>)
        PROVE  a < b
    <3>1. before(n, sol[a].step, sol[b].step)
      BY <2>1 DEF PlanInv, LeavesOrdered, sol
    <3>2. PICK c, e \in DOMAIN sol : sol[c].step = sol[a].step /\ sol[e].step = sol[b].step /\ c < e
      BY <1>1, <3>1 DEF before, leftBefore, sol
    <3>3. c = a /\ e = b
      BY <1>3, <2>1, <3>2 DEF namesDistinct
    <3> QED
      BY <3>2, <3>3
  <2> QED
    BY <2>2 DEF orderRespected
<1>6. executes(h, sol)
  <2>1. \A i \in 0 .. Len(sol) : stateAfter(h, sol, i) = stateBefore(h, sol, i + 1)
    BY <1>1, StateIsRecorded DEF NodeInv, sol
  <2>2. stateAfter(h, sol, Len(sol)) = n.state
    BY <1>2, <2>1 DEF NodeInv, ChainExecutes, sol
  <2>3. ASSUME NEW i \in DOMAIN sol \ decompositions(sol)
        PROVE  sol[i].task \in Actions(h) /\ h.prec[sol[i].task] \subseteq stateAfter(h, sol, i - 1)
    <3>1. i \in 1 .. Len(sol) /\ i - 1 \in 0 .. Len(sol) /\ (i - 1) + 1 = i /\ sol[i].method = 0
      BY <1>2 DEF decompositions
    <3>2. StepExecutes(h, sol[i], stateBefore(h, sol, i))
      BY <3>1 DEF NodeInv, ChainExecutes, sol
    <3>3. stateAfter(h, sol, i - 1) = stateBefore(h, sol, i)
      BY <2>1, <3>1
    <3> QED
      BY <3>1, <3>2, <3>3 DEF StepExecutes
  <2> QED
    BY <1>1, <2>2, <2>3 DEF executes
<1> QED
  BY <1>4, <1>5, <1>6 DEF ValidPlan, sol
-----------------------------------------------------------------------------
(***************************************************************************)
(* Totally ordered problems: networks are chains.                          *)
(***************************************************************************)
Injective(e) == \A i, j \in DOMAIN e : e[i] = e[j] => i = j

(* Sequence e of length l lists the elements of D, each followed by its    *)
(* successor.                                                              *)
ListOf(D, succ, e, l) ==
  /\ l \in Nat /\ e \in [1 .. l -> D]
  /\ \A x \in D : \E i \in 1 .. l : e[i] = x
  /\ \A i, j \in 1 .. l : e[i] = e[j] => i = j
  /\ \A i \in 1 .. l : i # l => succ[e[i]] = {e[i + 1]}
  /\ l # 0 => succ[e[l]] = {}

(* A set of at most one element, and of exactly one.                       *)
LEMMA AtMostOne ==
  ASSUME NEW S, IsFiniteSet(S), Cardinality(S) <= 1, NEW x \in S, NEW y \in S
  PROVE  x = y
<1>1. Cardinality(S) \in Nat /\ Cardinality(S) # 0
  BY FS_CardinalityType, FS_EmptySet
<1>2. \E z : S = {z}
  BY <1>1, FS_Singleton
<1> QED
  BY <1>2

LEMMA OneElement ==
  ASSUME NEW S, Cardinality(S) = 1, IsFiniteSet(S)
  PROVE  \E x : S = {x}
BY FS_Singleton

(* In a method of a totally ordered problem all positions but one have one *)
(* successor, and all but one have one predecessor.                        *)
OneEach(D, next, z) ==
  /\ z \in D /\ next[z] = {}
  /\ \A i \in D \ {z} : \E j \in D : next[i] = {j}

succOf(m) == [i \in Positions(m) |-> Successors(m, i)]
predOf(m) == [i \in Positions(m) |-> Predecessors(m, i)]

LEMMA Neighbours ==
  ASSUME NEW h, NEW m, IsMethod(h, m), ~ notAChain(m)
  PROVE  /\ IsFiniteSet(Positions(m)) /\ Positions(m) # {}
         /\ \E z : OneEach(Positions(m), succOf(m), z)
         /\ \E a : OneEach(Positions(m), predOf(m), a)
<1> DEFINE D == Positions(m)
           S == {i \in D : Cardinality(Successors(m, i)) # 1}
           P == {i \in D : Cardinality(Predecessors(m, i)) # 1}
<1>1. IsFiniteSet(D) /\ D # {}
  <2>1. m.subs \in Seq(Tasks(h)) /\ m.subs # << >>
    BY DEF IsMethod
  <2>2. D = 1 .. Len(m.subs) /\ Len(m.subs) \in Nat /\ Len(m.subs) # 0
    BY <2>1 DEF Positions
  <2>3. 1 \in Int /\ Len(m.subs) \in Int /\ 1 \in 1 .. Len(m.subs)
    BY <2>2
  <2>4. IsFiniteSet(1 .. Len(m.subs))
    BY <2>3, FS_Interval
  <2> QED
    BY <2>2, <2>3, <2>4
<1>2. IsFiniteSet(S) /\ IsFiniteSet(P) /\ Cardinality(S) <= 1 /\ Cardinality(P) <= 1
  <2>1. IsFiniteSet(S) /\ IsFiniteSet(P)
    BY <1>1, FS_Subset
  <2>2. Cardinality(S) \in Nat /\ Cardinality(P) \in Nat
    BY <2>1, FS_CardinalityType
  <2> QED
    BY <2>1, <2>2 DEF notAChain, notOneSuccessor, notOnePredecessor
<1>3. /\ \E z \in D : Successors(m, z) = {}
      /\ \E a \in D : Predecessors(m, a) = {}
  <2>1. D \in (SUBSET D) \ {{}}
    BY <1>1
  <2>2. /\ \E i \in D : \A j \in D : <<j, i>> \notin m.ord
        /\ \E i \in D : \A j \in D : <<i, j>> \notin m.ord
    BY <2>1 DEF IsMethod, Acyclic
  <2> QED
    BY <2>2 DEF Successors, Predecessors
<1>4. \A i \in D : /\ IsFiniteSet(Successors(m, i)) /\ Successors(m, i) \subseteq D
                   /\ IsFiniteSet(Predecessors(m, i)) /\ Predecessors(m, i) \subseteq D
  <2>1. \A i \in D : Successors(m, i) \subseteq D /\ Predecessors(m, i) \subseteq D
    BY DEF Successors, Predecessors
  <2> QED
    BY <1>1, <2>1, FS_Subset
<1>5. Cardinality({}) = 0
  BY FS_EmptySet
<1>6. PICK z \in D : Successors(m, z) = {}
  BY <1>3
<1>7. PICK a \in D : Predecessors(m, a) = {}
  BY <1>3
<1>8. ASSUME NEW i \in D \ {z} PROVE \E j \in D : Successors(m, i) = {j}
  <2>1. z \in S
    BY <1>5, <1>6
  <2>2. i \notin S
    BY <1>2, <2>1, AtMostOne
  <2>3. PICK j : Successors(m, i) = {j}
    BY <1>4, <2>2, OneElement
  <2> QED
    BY <1>4, <2>3
<1>9. ASSUME NEW i \in D \ {a} PROVE \E j \in D : Predecessors(m, i) = {j}
  <2>1. a \in P
    BY <1>5, <1>7
  <2>2. i \notin P
    BY <1>2, <2>1, AtMostOne
  <2>3. PICK j : Predecessors(m, i) = {j}
    BY <1>4, <2>2, OneElement
  <2> QED
    BY <1>4, <2>3
<1>10. OneEach(D, succOf(m), z)
  BY <1>6, <1>8 DEF OneEach, succOf
<1>11. OneEach(D, predOf(m), a)
  BY <1>7, <1>9 DEF OneEach, predOf
<1> QED
  BY <1>1, <1>10, <1>11

(* A chain of k positions, from the one without predecessors.              *)
ChainOf(m, k, e) ==
  /\ e \in [1 .. k -> Positions(m)] /\ Injective(e)
  /\ predOf(m)[e[1]] = {}
  /\ \A i \in 1 .. k - 1 : succOf(m)[e[i]] = {e[i + 1]}

LEMMA Opposite ==
  ASSUME NEW m, NEW i \in Positions(m), NEW j \in Positions(m)
  PROVE  j \in succOf(m)[i] <=> i \in predOf(m)[j]
BY DEF succOf, predOf, Successors, Predecessors

(* A chain that does not end in the position without successors goes on.   *)
LEMMA LongerChain ==
  ASSUME NEW m, NEW a, NEW z,
         OneEach(Positions(m), succOf(m), z), OneEach(Positions(m), predOf(m), a),
         NEW k \in Nat \ {0}, NEW e, ChainOf(m, k, e), e[k] # z
  PROVE  \E e2 : ChainOf(m, k + 1, e2)
<1> DEFINE D == Positions(m)
<1>1. /\ e \in [1 .. k -> D] /\ Injective(e) /\ predOf(m)[e[1]] = {}
      /\ \A i \in 1 .. k - 1 : succOf(m)[e[i]] = {e[i + 1]}
  BY DEF ChainOf
<1>2. k \in 1 .. k /\ 1 \in 1 .. k /\ e[k] \in D
  BY <1>1
<1>3. PICK y \in D : succOf(m)[e[k]] = {y}
  BY <1>2 DEF OneEach
<1>4. e[k] \in predOf(m)[y]
  BY <1>2, <1>3, Opposite
<1>5. PICK p : predOf(m)[y] = {p}
  BY <1>4 DEF OneEach
<1>6. ASSUME NEW j \in 1 .. k, e[j] = y PROVE FALSE
  <2>1. j # 1
    BY <1>1, <1>4, <1>6
  <2>2. j - 1 \in 1 .. k - 1 /\ j - 1 \in 1 .. k /\ (j - 1) + 1 = j
    BY <2>1
  <2>3. succOf(m)[e[j - 1]] = {y} /\ e[j - 1] \in D
    BY <1>1, <1>6, <2>2
  <2>4. e[j - 1] \in predOf(m)[y]
    BY <2>3, Opposite
  <2>5. e[j - 1] = e[k]
    BY <1>4, <1>5, <2>4
  <2>6. j - 1 = k
    BY <1>1, <1>2, <2>2, <2>5 DEF Injective
  <2> QED
    BY <2>2, <2>6
<1> DEFINE e2 == [i \in 1 .. k + 1 |-> IF i = k + 1 THEN y ELSE e[i]]
<1>7. /\ e2 \in [1 .. k + 1 -> D] /\ DOMAIN e2 = 1 .. k + 1 /\ e2[k + 1] = y
      /\ \A i \in 1 .. k : e2[i] = e[i] /\ i \in 1 .. k + 1
  BY <1>1
<1>8. \A i \in 1 .. k + 1 : i = k + 1 \/ i \in 1 .. k
  OBVIOUS
<1> HIDE DEF e2
<1>9. Injective(e2)
  <2> SUFFICES ASSUME NEW i \in 1 .. k + 1, NEW j \in 1 .. k + 1, e2[i] = e2[j] PROVE i = j
    BY <1>7 DEF Injective
  <2>1. CASE i \in 1 .. k /\ j \in 1 .. k
    BY <1>1, <1>7, <2>1 DEF Injective
  <2> QED
    BY <1>6, <1>7, <1>8, <2>1
<1>10. \A i \in 1 .. k : succOf(m)[e2[i]] = {e2[i + 1]}
  <2> TAKE i \in 1 .. k
  <2>1. CASE i = k
    BY <1>3, <1>7, <2>1
  <2>2. CASE i # k
    <3>1. i \in 1 .. k - 1 /\ i + 1 \in 1 .. k
      BY <2>2
    <3> QED
      BY <1>1, <1>7, <3>1
  <2> QED
    BY <2>1, <2>2
<1>11. ChainOf(m, k + 1, e2)
  <2>1. (k + 1) - 1 = k
    OBVIOUS
  <2> QED
    BY <1>1, <1>2, <1>7, <1>9, <1>10, <2>1 DEF ChainOf
<1> QED
  BY <1>11

(* Some chain ends there.                                                  *)
LEMMA ChainEnds ==
  ASSUME NEW m, NEW a, NEW z, IsFiniteSet(Positions(m)),
         OneEach(Positions(m), succOf(m), z), OneEach(Positions(m), predOf(m), a)
  PROVE  \E k \in Nat \ {0} : \E e : ChainOf(m, k, e) /\ e[k] = z
<1> SUFFICES ASSUME \A k \in Nat \ {0} : \A e : ChainOf(m, k, e) => e[k] # z PROVE FALSE
  OBVIOUS
<1> DEFINE S == {k \in Nat : \E e : ChainOf(m, k + 1, e)}
<1>1. 0 \in S
  <2> DEFINE e == [i \in 1 .. 1 |-> a]
  <2>1. e \in [1 .. 1 -> Positions(m)] /\ e[1] = a /\ DOMAIN e = 1 .. 1
    BY DEF OneEach
  <2>2. \A i \in 1 .. 1 : i = 1
    OBVIOUS
  <2> HIDE DEF e
  <2>3. ChainOf(m, 1, e)
    BY <2>1, <2>2 DEF ChainOf, Injective, OneEach
  <2>4. 0 + 1 = 1
    OBVIOUS
  <2> QED
    BY <2>3, <2>4
<1>2. ASSUME NEW k \in Nat, k \in S PROVE k + 1 \in S
  <2>1. PICK e : ChainOf(m, k + 1, e)
    BY <1>2
  <2>2. k + 1 \in Nat \ {0}
    OBVIOUS
  <2>3. \E e2 : ChainOf(m, (k + 1) + 1, e2)
    BY <2>1, <2>2, LongerChain
  <2> QED
    BY <2>3
<1> HIDE DEF S
<1>3. Nat \subseteq S
  BY <1>1, <1>2, Induction
<1> DEFINE N == Cardinality(Positions(m))
<1>4. N \in Nat
  BY FS_CardinalityType
<1>5. PICK e : ChainOf(m, N + 1, e)
  BY <1>3, <1>4 DEF S
<1> HIDE DEF N
<1>6. N + 1 \in Int /\ 1 \in Int /\ ~ (1 > N + 1) /\ N + 1 - 1 + 1 = N + 1 /\ N < N + 1
  BY <1>4
<1>7. IsFiniteSet(1 .. N + 1) /\ Cardinality(1 .. N + 1) = N + 1
  BY <1>6, FS_Interval
<1>8. e \in [1 .. N + 1 -> Positions(m)] /\ Injective(e)
  BY <1>5 DEF ChainOf
<1>9. N < Cardinality(1 .. N + 1)
  BY <1>6, <1>7
<1>10. \E x, y \in 1 .. N + 1 : x # y /\ e[x] = e[y]
  BY <1>7, <1>8, <1>9, FS_PigeonHole DEF N
<1> QED
  BY <1>8, <1>10 DEF Injective

(* The positions of a method of a totally ordered problem are a list.      *)
LEMMA MethodIsListed ==
  ASSUME NEW h, NEW m, IsMethod(h, m), ~ notAChain(m)
  PROVE  \E c : \E l \in Nat \ {0} : ListOf(Positions(m), succOf(m), c, l)
<1> DEFINE D == Positions(m)
<1>1. PICK a : OneEach(D, predOf(m), a)
  BY Neighbours
<1>2. PICK z : OneEach(D, succOf(m), z)
  BY Neighbours
<1>0. PICK k \in Nat \ {0} : \E e : ChainOf(m, k, e) /\ e[k] = z
  BY <1>1, <1>2, Neighbours, ChainEnds
<1>3. PICK e : ChainOf(m, k, e) /\ e[k] = z
  BY <1>0
<1>4. /\ e \in [1 .. k -> D] /\ Injective(e) /\ predOf(m)[e[1]] = {}
      /\ \A i \in 1 .. k - 1 : succOf(m)[e[i]] = {e[i + 1]}
  BY <1>3 DEF ChainOf
<1>5. e \in Seq(D) /\ DOMAIN e = 1 .. k /\ Len(e) = k /\ 1 \in 1 .. k
  BY <1>4
<1> DEFINE R == {e[i] : i \in 1 .. k}
<1>6. ASSUME NEW j \in R, NEW x \in succOf(m)[j] PROVE x \in R
  <2>1. PICK i \in 1 .. k : j = e[i]
    BY <1>6
  <2>2. i # k
    BY <1>2, <1>3, <1>6, <2>1 DEF OneEach
  <2>3. i \in 1 .. k - 1 /\ i + 1 \in 1 .. k
    BY <2>2
  <2>4. x = e[i + 1]
    BY <1>4, <1>6, <2>1, <2>3
  <2> QED
    BY <2>3, <2>4
<1>7. D \subseteq R
  <2> SUFFICES ASSUME D \ R # {} PROVE FALSE
    OBVIOUS
  <2>1. D \ R \in (SUBSET D) \ {{}}
    OBVIOUS
  <2>2. PICK x \in D \ R : \A j \in D \ R : <<j, x>> \notin m.ord
    BY <2>1 DEF IsMethod, Acyclic
  <2>3. x # a
    <3>1. ASSUME x = a PROVE FALSE
      <4>1. e[1] \in D /\ e[1] \in R
        BY <1>4, <1>5
      <4>2. e[1] = a
        BY <1>1, <1>4, <4>1 DEF OneEach
      <4> QED
        BY <3>1, <4>1, <4>2
    <3> QED
      BY <3>1
  <2>4. PICK j \in D : predOf(m)[x] = {j}
    BY <1>1, <2>3 DEF OneEach
  <2>5. j \in R
    BY <2>2, <2>4 DEF predOf, Predecessors
  <2>6. x \in succOf(m)[j]
    BY <2>4, Opposite
  <2> QED
    BY <1>6, <2>5, <2>6
<1>8. succOf(m)[e[k]] = {}
  BY <1>2, <1>3 DEF OneEach
<1>9. \A x \in D : \E i \in 1 .. k : e[i] = x
  BY <1>7
<1>10. \A i \in 1 .. k : i # k => i \in 1 .. k - 1
  OBVIOUS
<1>11. \A i, j \in 1 .. k : e[i] = e[j] => i = j
  BY <1>4 DEF Injective
<1>12. ListOf(D, succOf(m), e, k)
  BY <1>4, <1>8, <1>9, <1>10, <1>11 DEF ListOf
<1> QED
  BY <1>12

(* The node's steps are a list.                                            *)
ListedBy(n, e, l) == ListOf(Steps(n), n.succ, e, l)

(* Its first step is the only one that is unconstrained.                   *)
LEMMA FirstOfList ==
  ASSUME NEW h, NEW n, WellFormed(h, n), NEW e, NEW l, ListedBy(n, e, l)
  PROVE  /\ \A s \in Unconstraint(n) : l # 0 /\ s = e[1]
         /\ l # 0 => e[1] \in Unconstraint(n)
<1>1. Unconstraint(n) = FirstSteps(n)
  BY DEF WellFormed
<1>2. /\ l \in Nat /\ \A i \in 1 .. l : e[i] \in Steps(n)
      /\ \A x \in Steps(n) : \E i \in 1 .. l : e[i] = x
      /\ \A i, j \in 1 .. l : e[i] = e[j] => i = j
      /\ \A i \in 1 .. l : i # l => n.succ[e[i]] = {e[i + 1]} /\ i + 1 \in 1 .. l
      /\ l # 0 => n.succ[e[l]] = {} /\ 1 \in 1 .. l
  BY DEF ListedBy, ListOf
<1>3. ASSUME NEW s \in Unconstraint(n) PROVE l # 0 /\ s = e[1]
  <2>1. s \in Steps(n) /\ \A t \in Steps(n) : s \notin n.succ[t]
    BY <1>1 DEF FirstSteps
  <2>2. PICK i \in 1 .. l : e[i] = s
    BY <1>2, <2>1
  <2>3. i = 1
    <3>1. ASSUME i # 1 PROVE FALSE
      <4>1. i - 1 \in 1 .. l /\ i - 1 # l /\ (i - 1) + 1 = i
        BY <1>2, <3>1
      <4>2. n.succ[e[i - 1]] = {s} /\ e[i - 1] \in Steps(n)
        BY <1>2, <2>2, <4>1
      <4> QED
        BY <2>1, <4>2
    <3> QED
      BY <3>1
  <2> QED
    BY <1>2, <2>2, <2>3
<1>4. ASSUME l # 0 PROVE e[1] \in Unconstraint(n)
  <2>1. 1 \in 1 .. l /\ e[1] \in Steps(n)
    BY <1>2, <1>4
  <2>2. ASSUME NEW t \in Steps(n), e[1] \in n.succ[t] PROVE FALSE
    <3>1. PICK i \in 1 .. l : e[i] = t
      BY <1>2
    <3>2. i # l
      BY <1>2, <1>4, <2>2, <3>1
    <3>3. e[1] = e[i + 1] /\ i + 1 \in 1 .. l
      BY <1>2, <2>2, <3>1, <3>2
    <3>4. i + 1 = 1
      BY <1>2, <2>1, <3>3
    <3> QED
      BY <3>4
  <2> QED
    BY <1>1, <2>1, <2>2 DEF FirstSteps
<1> QED
  BY <1>3, <1>4

(* prepareTNi.                                                             *)
LEMMA InitialListed == \A h : \E e, l : ListedBy(prepareTNi(h), e, l)
<1> SUFFICES ASSUME NEW h PROVE \E e, l : ListedBy(prepareTNi(h), e, l)
  OBVIOUS
<1> DEFINE o == <<0, 1>>
           e == [i \in 1 .. 1 |-> o]
           D == Steps(prepareTNi(h))
           succ == prepareTNi(h).succ
<1>1. D = {o} /\ succ = [s \in {o} |-> {}]
  BY DEF prepareTNi, Steps
<1>2. e \in [1 .. 1 -> D] /\ e[1] = o /\ \A i \in 1 .. 1 : i = 1
  BY <1>1
<1> HIDE DEF e, o, D, succ
<1>3. ListOf(D, succ, e, 1)
  <2>1. /\ \A x \in D : \E i \in 1 .. 1 : e[i] = x
        /\ \A i, j \in 1 .. 1 : e[i] = e[j] => i = j
        /\ \A i \in 1 .. 1 : i # 1 => succ[e[i]] = {e[i + 1]}
        /\ 1 # 0 => succ[e[1]] = {}
    BY <1>1, <1>2
  <2> QED
    BY <1>2, <2>1 DEF ListOf
<1> QED
  BY <1>3 DEF ListedBy, D, succ

(* apply takes the first step off the list.                                *)
LEMMA ApplyListed ==
  ASSUME NEW h, NEW n, WellFormed(h, n), NEW e, NEW l, ListedBy(n, e, l),
         NEW s \in n.prim, NEW k
  PROVE  \E e2, l2 : ListedBy(applyStep(h, n, s, k), e2, l2)
<1> DEFINE n2 == applyStep(h, n, s, k)
<1>1. /\ l \in Nat /\ \A i \in 1 .. l : e[i] \in Steps(n)
      /\ \A x \in Steps(n) : \E i \in 1 .. l : e[i] = x
      /\ \A i, j \in 1 .. l : e[i] = e[j] => i = j
      /\ \A i \in 1 .. l : i # l => n.succ[e[i]] = {e[i + 1]} /\ i + 1 \in 1 .. l
      /\ l # 0 => n.succ[e[l]] = {} /\ 1 \in 1 .. l
  BY DEF ListedBy, ListOf
<1>2. l # 0 /\ s = e[1]
  BY FirstOfList DEF Unconstraint
<1>3. /\ n2.task = Restrict(n.task, Steps(n) \ {s})
      /\ n2.succ = Restrict(n.succ, Steps(n) \ {s})
  BY DEF applyStep
<1> HIDE DEF n2
<1>4. /\ Steps(n2) = Steps(n) \ {s}
      /\ \A x \in Steps(n2) : n2.succ[x] = n.succ[x]
  BY <1>3 DEF Restrict, Steps
<1> DEFINE D == Steps(n2)
           succ == n2.succ
           r == l - 1
           e2 == [i \in 1 .. r |-> e[i + 1]]
<1>5. r \in Nat /\ \A i \in 1 .. r : i + 1 \in 1 .. l /\ i + 1 # 1
  BY <1>1, <1>2
<1>6. \A i \in 1 .. r : e2[i] = e[i + 1] /\ e[i + 1] \in D
  BY <1>1, <1>2, <1>4, <1>5
<1>7. e2 \in [1 .. r -> D]
  BY <1>6
<1>8. \A x \in D : \E i \in 1 .. r : e2[i] = x
  <2> TAKE x \in D
  <2>1. PICK i \in 1 .. l : e[i] = x
    BY <1>1, <1>4
  <2>2. i # 1
    BY <1>2, <1>4, <2>1
  <2>3. i - 1 \in 1 .. r /\ (i - 1) + 1 = i
    BY <1>1, <2>2
  <2> QED
    BY <1>6, <2>1, <2>3
<1>9. \A i, j \in 1 .. r : e2[i] = e2[j] => i = j
  <2> TAKE i, j \in 1 .. r
  <2>1. e[i + 1] = e[j + 1] => i + 1 = j + 1
    BY <1>1, <1>5
  <2> QED
    BY <1>6, <2>1
<1>10. \A i \in 1 .. r : i # r => succ[e2[i]] = {e2[i + 1]}
  <2> SUFFICES ASSUME NEW i \in 1 .. r, i # r PROVE succ[e2[i]] = {e2[i + 1]}
    OBVIOUS
  <2>1. i + 1 \in 1 .. l /\ i + 1 # l /\ i + 1 \in 1 .. r
    BY <1>1, <1>5
  <2> QED
    BY <1>1, <1>4, <1>6, <2>1
<1>11. r # 0 => succ[e2[r]] = {}
  <2> SUFFICES ASSUME r # 0 PROVE succ[e2[r]] = {}
    OBVIOUS
  <2>1. r \in 1 .. r /\ r + 1 = l
    BY <1>1, <1>5
  <2> QED
    BY <1>1, <1>2, <1>4, <1>6, <2>1
<1> HIDE DEF D, succ, r, e2
<1>12. ListOf(D, succ, e2, r)
  BY <1>5, <1>7, <1>8, <1>9, <1>10, <1>11 DEF ListOf
<1> QED
  BY <1>12 DEF ListedBy, D, succ, n2

(* decompose puts the list of the method in the place of the first step.   *)
LEMMA DecomposeListed ==
  ASSUME NEW h, NEW n, WellFormed(h, n), NEW e, NEW l, ListedBy(n, e, l),
         NEW d \in n.abs, NEW mi, NEW k \in Nat, NamedBefore(n, k),
         NEW c, NEW q \in Nat \ {0}, ListOf(Positions(h.methods[mi]), succOf(h.methods[mi]), c, q)
  PROVE  \E e2, l2 : ListedBy(decomposeStep(h, n, d, mi, k), e2, l2)
<1> DEFINE n2 == decomposeStep(h, n, d, mi, k)
           m == h.methods[mi]
           P == Positions(m)
           new == newSteps(m, k)
           rest == Steps(n) \ {d}
           below(x) == {<<k, j>> : j \in succOf(m)[x]} \cup
                         (IF succOf(m)[x] = {} THEN n.succ[d] ELSE {})
<1>1. /\ l \in Nat /\ \A i \in 1 .. l : e[i] \in Steps(n)
      /\ \A x \in Steps(n) : \E i \in 1 .. l : e[i] = x
      /\ \A i, j \in 1 .. l : e[i] = e[j] => i = j
      /\ \A i \in 1 .. l : i # l => n.succ[e[i]] = {e[i + 1]} /\ i + 1 \in 1 .. l
      /\ l # 0 => n.succ[e[l]] = {} /\ 1 \in 1 .. l
  BY DEF ListedBy, ListOf
<1>2. l # 0 /\ d = e[1]
  BY FirstOfList DEF Unconstraint
<1>3. /\ q \in Nat \ {0} /\ \A i \in 1 .. q : c[i] \in P
      /\ \A x \in P : \E i \in 1 .. q : c[i] = x
      /\ \A i, j \in 1 .. q : c[i] = c[j] => i = j
      /\ \A i \in 1 .. q : i # q => succOf(m)[c[i]] = {c[i + 1]}
      /\ succOf(m)[c[q]] = {}
  BY DEF ListOf
<1>4. /\ n2.task = [s \in rest \cup new |-> IF s \in new THEN m.subs[s[2]] ELSE n.task[s]]
      /\ n2.succ = [s \in rest \cup new |-> IF s \in new THEN newSuccessors(n, d, m, s)
                                            ELSE n.succ[s]]
  BY DEF decomposeStep
<1>5. \A x \in P : <<k, x>> \in new
  BY DEF newSteps
<1>6. \A s \in new : \E x \in P : s = <<k, x>>
  BY DEF newSteps
<1>7. \A s \in rest : s \notin new
  <2> SUFFICES ASSUME NEW s \in rest, s \in new PROVE FALSE
    OBVIOUS
  <2>1. s[1] = k
    BY <1>6
  <2>2. s[1] < k
    BY DEF NamedBefore
  <2> QED
    BY <2>1, <2>2
<1>8. \A x \in P : newSuccessors(n, d, m, <<k, x>>) = below(x)
  <2> TAKE x \in P
  <2>1. <<k, x>>[1] = k /\ <<k, x>>[2] = x
    OBVIOUS
  <2>2. succOf(m)[x] = Successors(m, x)
    BY DEF succOf
  <2>3. x \in LastTasks(m) <=> Successors(m, x) = {}
    BY DEF LastTasks, Successors
  <2> QED
    BY <2>1, <2>2, <2>3 DEF newSuccessors
<1> HIDE DEF n2, m, P, new, below
<1>9. /\ Steps(n2) = rest \cup new
      /\ \A s \in rest : n2.succ[s] = n.succ[s]
      /\ \A s \in new : n2.succ[s] = newSuccessors(n, d, m, s)
  BY <1>4, <1>7 DEF Steps
<1> DEFINE D == Steps(n2)
           succ == n2.succ
           r == q + l - 1
           e2 == [i \in 1 .. r |-> IF i <= q THEN <<k, c[i]>> ELSE e[(i - q) + 1]]
<1>10. r \in Nat /\ r # 0
  BY <1>1, <1>2
<1>11. \A i \in 1 .. r : \/ i \in 1 .. q
                         \/ ~ (i <= q) /\ (i - q) + 1 \in 1 .. l /\ (i - q) + 1 # 1
  BY <1>1, <1>2
<1>12. \A i \in 1 .. q : i \in 1 .. r /\ e2[i] = <<k, c[i]>> /\ e2[i] \in new
  <2> TAKE i \in 1 .. q
  <2>1. i \in 1 .. r /\ i <= q
    BY <1>1, <1>2
  <2> QED
    BY <1>3, <1>5, <2>1
<1>13. \A i \in 1 .. r : i \notin 1 .. q => e2[i] = e[(i - q) + 1] /\ e2[i] \in rest
  <2> SUFFICES ASSUME NEW i \in 1 .. r, i \notin 1 .. q
               PROVE  e2[i] = e[(i - q) + 1] /\ e2[i] \in rest
    OBVIOUS
  <2>1. ~ (i <= q) /\ (i - q) + 1 \in 1 .. l /\ (i - q) + 1 # 1
    BY <1>11
  <2>2. e[(i - q) + 1] # e[1] /\ e[(i - q) + 1] \in Steps(n)
    BY <1>1, <1>2, <2>1
  <2> QED
    BY <1>2, <2>1, <2>2
<1> HIDE DEF e2, rest
<1>14. e2 \in [1 .. r -> D]
  <2>1. \A i \in 1 .. r : e2[i] \in D
    BY <1>9, <1>12, <1>13
  <2> QED
    BY <2>1 DEF e2
<1>15. \A x \in D : \E i \in 1 .. r : e2[i] = x
  <2> TAKE x \in D
  <2>1. CASE x \in new
    <3>1. PICK y \in P : x = <<k, y>>
      BY <1>6, <2>1
    <3>2. PICK i \in 1 .. q : c[i] = y
      BY <1>3
    <3> QED
      BY <1>12, <3>1, <3>2
  <2>2. CASE x \in rest
    <3>1. PICK i \in 1 .. l : e[i] = x
      BY <1>1, <2>2 DEF rest
    <3>2. i # 1
      BY <1>2, <2>2, <3>1 DEF rest
    <3>3. /\ (i + q) - 1 \in 1 .. r /\ (i + q) - 1 \notin 1 .. q
          /\ (((i + q) - 1) - q) + 1 = i
      BY <1>1, <3>2
    <3> QED
      BY <1>13, <3>1, <3>3
  <2> QED
    BY <1>9, <2>1, <2>2
<1>16. \A i, j \in 1 .. r : e2[i] = e2[j] => i = j
  <2> SUFFICES ASSUME NEW i \in 1 .. r, NEW j \in 1 .. r, e2[i] = e2[j] PROVE i = j
    OBVIOUS
  <2>1. CASE i \in 1 .. q /\ j \in 1 .. q
    <3>1. <<k, c[i]>> = <<k, c[j]>>
      BY <1>12, <2>1
    <3>2. c[i] = c[j]
      BY <3>1
    <3> QED
      BY <1>3, <2>1, <3>2
  <2>2. CASE i \notin 1 .. q /\ j \notin 1 .. q
    <3>1. e[(i - q) + 1] = e[(j - q) + 1]
      BY <1>13, <2>2
    <3>2. (i - q) + 1 = (j - q) + 1
      BY <1>1, <1>11, <2>2, <3>1
    <3> QED
      BY <3>2
  <2>3. (i \in 1 .. q /\ j \notin 1 .. q) \/ (i \notin 1 .. q /\ j \in 1 .. q) => FALSE
    BY <1>7, <1>12, <1>13
  <2> QED
    BY <2>1, <2>2, <2>3
<1>17. \A i \in 1 .. q : succ[e2[i]] = below(c[i])
  <2> TAKE i \in 1 .. q
  <2>1. c[i] \in P /\ e2[i] = <<k, c[i]>> /\ e2[i] \in new
    BY <1>3, <1>12
  <2>2. n2.succ[e2[i]] = newSuccessors(n, d, m, e2[i])
    BY <1>9, <2>1
  <2> QED
    BY <1>8, <2>1, <2>2
<1>18. \A i \in 1 .. r : i \notin 1 .. q => succ[e2[i]] = n.succ[e[(i - q) + 1]]
  BY <1>9, <1>13
<1>19. \A i \in 1 .. q : i # q => succ[e2[i]] = {<<k, c[i + 1]>>} /\ i + 1 \in 1 .. q
  <2> SUFFICES ASSUME NEW i \in 1 .. q, i # q
               PROVE  succ[e2[i]] = {<<k, c[i + 1]>>} /\ i + 1 \in 1 .. q
    OBVIOUS
  <2>1. succOf(m)[c[i]] = {c[i + 1]} /\ i + 1 \in 1 .. q
    BY <1>3
  <2>2. {<<k, j>> : j \in {c[i + 1]}} = {<<k, c[i + 1]>>}
    OBVIOUS
  <2>3. below(c[i]) = {<<k, c[i + 1]>>}
    BY <2>1, <2>2 DEF below
  <2> QED
    BY <1>17, <2>1, <2>3
<1>20. succ[e2[q]] = n.succ[e[1]]
  <2>1. q \in 1 .. q
    BY <1>3
  <2>2. below(c[q]) = n.succ[d]
    BY <1>3 DEF below
  <2> QED
    BY <1>2, <1>17, <2>1, <2>2
<1>21. \A i \in 1 .. r : i # r => succ[e2[i]] = {e2[i + 1]}
  <2> SUFFICES ASSUME NEW i \in 1 .. r, i # r PROVE succ[e2[i]] = {e2[i + 1]}
    OBVIOUS
  <2>1. CASE i \in 1 .. q /\ i # q
    BY <1>12, <1>19, <2>1
  <2>2. CASE i = q
    <3>1. 1 # l /\ q + 1 \in 1 .. r /\ q + 1 \notin 1 .. q /\ ((q + 1) - q) + 1 = 1 + 1
      BY <1>1, <1>2, <2>2
    <3>2. n.succ[e[1]] = {e[1 + 1]}
      BY <1>1, <1>2, <3>1
    <3>3. e2[q + 1] = e[1 + 1]
      BY <1>13, <3>1
    <3> QED
      BY <1>20, <2>2, <3>2, <3>3
  <2>3. CASE i \notin 1 .. q
    <3>1. (i - q) + 1 \in 1 .. l /\ (i - q) + 1 # l
      BY <1>11, <2>3
    <3>2. i + 1 \in 1 .. r /\ i + 1 \notin 1 .. q /\ ((i + 1) - q) + 1 = ((i - q) + 1) + 1
      BY <1>1, <1>10, <2>3
    <3>3. n.succ[e[(i - q) + 1]] = {e[((i - q) + 1) + 1]}
      BY <1>1, <3>1
    <3> QED
      BY <1>13, <1>18, <2>3, <3>2, <3>3
  <2> QED
    BY <2>1, <2>2, <2>3
<1>22. succ[e2[r]] = {}
  <2>1. r \in 1 .. r
    BY <1>10
  <2>2. CASE l = 1
    <3>1. r = q
      BY <2>2
    <3> QED
      BY <1>1, <1>20, <2>2, <3>1
  <2>3. CASE l # 1
    <3>1. r \notin 1 .. q /\ (r - q) + 1 = l
      BY <1>1, <1>2, <2>3
    <3> QED
      BY <1>1, <1>2, <1>18, <2>1, <3>1
  <2> QED
    BY <2>2, <2>3
<1> HIDE DEF D, succ, r
<1>23. ListOf(D, succ, e2, r)
  BY <1>10, <1>14, <1>15, <1>16, <1>21, <1>22 DEF ListOf
<1> QED
  BY <1>23 DEF ListedBy, D, succ, n2

-----------------------------------------------------------------------------
(* The tasks of the last j steps of the list.                              *)
lastSteps(e, l, j) == {e[i] : i \in (l - j) + 1 .. l}
lastTasks(n, e, l, j) == [i \in 1 .. j |-> n.task[e[(l - j) + i]]]

LEMMA OneMoreTask ==
  ASSUME NEW h, NEW n, NodeType(h, n), NEW e, NEW l, ListedBy(n, e, l), NEW j \in Nat, j < l
  PROVE  /\ l - j \in 1 .. l /\ e[l - j] \in Steps(n)
         /\ lastTasks(n, e, l, j) \in Seq(Tasks(h))
         /\ lastTasks(n, e, l, j + 1) = <<n.task[e[l - j]]>> \o lastTasks(n, e, l, j)
         /\ lastSteps(e, l, j + 1) = lastSteps(e, l, j) \cup {e[l - j]}
         /\ e[l - j] \notin lastSteps(e, l, j)
         /\ lastSteps(e, l, j + 1) \subseteq Steps(n)
<1>1. /\ l \in Nat /\ \A i \in 1 .. l : e[i] \in Steps(n)
      /\ \A x, y \in 1 .. l : e[x] = e[y] => x = y
      /\ n.task \in [Steps(n) -> Tasks(h)]
  BY DEF ListedBy, ListOf, NodeType
<1>2. l - j \in 1 .. l /\ e[l - j] \in Steps(n)
  BY <1>1
<1>3. \A i \in 1 .. j : (l - j) + i \in 1 .. l /\ n.task[e[(l - j) + i]] \in Tasks(h)
  BY <1>1
<1> DEFINE q == lastTasks(n, e, l, j)
           a == n.task[e[l - j]]
           p == lastTasks(n, e, l, j + 1)
<1>4. q \in [1 .. j -> Tasks(h)] /\ \A i \in 1 .. j : q[i] = n.task[e[(l - j) + i]]
  BY <1>3 DEF lastTasks
<1>5. p = [i \in 1 .. j + 1 |-> n.task[e[(l - (j + 1)) + i]]]
  BY DEF lastTasks
<1>6. a \in Tasks(h)
  BY <1>1, <1>2
<1> HIDE DEF q, a, p
<1>7. q \in Seq(Tasks(h)) /\ Len(q) = j
  BY <1>4
<1>8. p = <<a>> \o q
  <2>1. /\ <<a>> \in Seq(Tasks(h)) /\ Len(<<a>>) = 1 /\ <<a>>[1] = a
    BY <1>6
  <2>2. /\ <<a>> \o q \in Seq(Tasks(h)) /\ Len(<<a>> \o q) = j + 1
        /\ (<<a>> \o q)[1] = a
        /\ \A i \in 1 .. j + 1 : i # 1 => (<<a>> \o q)[i] = q[i - 1]
    BY <1>7, <2>1
  <2>3. DOMAIN (<<a>> \o q) = 1 .. j + 1
    BY <2>2
  <2>4. ASSUME NEW i \in 1 .. j + 1 PROVE p[i] = (<<a>> \o q)[i]
    <3>1. p[i] = n.task[e[(l - (j + 1)) + i]]
      BY <1>5
    <3>2. CASE i = 1
      <4>1. (l - (j + 1)) + 1 = l - j
        BY <1>1
      <4> QED
        BY <2>2, <3>1, <3>2, <4>1 DEF a
    <3>3. CASE i # 1
      <4>1. i - 1 \in 1 .. j /\ (l - (j + 1)) + i = (l - j) + (i - 1)
        BY <1>1, <3>3
      <4> QED
        BY <1>4, <2>2, <3>1, <3>3, <4>1
    <3> QED
      BY <3>2, <3>3
  <2>5. DOMAIN p = 1 .. j + 1
    BY <1>5
  <2>6. p = [i \in 1 .. j + 1 |-> p[i]] /\ <<a>> \o q = [i \in 1 .. j + 1 |-> (<<a>> \o q)[i]]
    BY <1>5, <2>2, <2>3
  <2> QED
    BY <2>4, <2>6
<1>9. lastSteps(e, l, j + 1) = lastSteps(e, l, j) \cup {e[l - j]}
  <2>1. \A i \in (l - (j + 1)) + 1 .. l : i = l - j \/ i \in (l - j) + 1 .. l
    BY <1>1
  <2>2. /\ \A i \in (l - j) + 1 .. l : i \in (l - (j + 1)) + 1 .. l
        /\ l - j \in (l - (j + 1)) + 1 .. l
    BY <1>1
  <2> QED
    BY <2>1, <2>2 DEF lastSteps
<1>10. e[l - j] \notin lastSteps(e, l, j)
  <2> SUFFICES ASSUME NEW i \in (l - j) + 1 .. l, e[l - j] = e[i] PROVE FALSE
    BY DEF lastSteps
  <2>1. i \in 1 .. l /\ i # l - j
    BY <1>1
  <2> QED
    BY <1>1, <1>2, <2>1
<1>11. lastSteps(e, l, j + 1) \subseteq Steps(n)
  <2>1. \A i \in (l - (j + 1)) + 1 .. l : i \in 1 .. l
    BY <1>1
  <2> QED
    BY <1>1, <2>1 DEF lastSteps
<1> QED
  BY <1>2, <1>7, <1>8, <1>9, <1>10, <1>11 DEF q, a, p

LEMMA AllSteps ==
  ASSUME NEW n, NEW e, NEW l, ListedBy(n, e, l)
  PROVE  /\ lastSteps(e, l, 0) = {} /\ lastTasks(n, e, l, 0) = << >>
         /\ lastSteps(e, l, l) = Steps(n)
<1>1. l \in Nat /\ (l - 0) + 1 .. l = {} /\ (l - l) + 1 .. l = 1 .. l /\ 1 .. 0 = {}
  BY DEF ListedBy, ListOf
<1>2. lastSteps(e, l, 0) = {}
  BY <1>1 DEF lastSteps
<1>3. lastSteps(e, l, l) = Steps(n)
  BY <1>1 DEF lastSteps, ListedBy, ListOf
<1>4. lastTasks(n, e, l, 0) = << >>
  BY <1>1 DEF lastTasks
<1> QED
  BY <1>2, <1>3, <1>4

(* A rank of the steps of a list: how many follow.                         *)
LEMMA Followers ==
  ASSUME NEW n, NEW e, NEW l, ListedBy(n, e, l)
  PROVE  \E rank \in [Steps(n) -> Nat] : \A i \in 1 .. l : rank[e[i]] = l - i
<1>1. /\ l \in Nat /\ \A i \in 1 .. l : e[i] \in Steps(n)
      /\ \A x \in Steps(n) : \E i \in 1 .. l : e[i] = x
      /\ \A i, j \in 1 .. l : e[i] = e[j] => i = j
  BY DEF ListedBy, ListOf
<1> DEFINE at(x) == CHOOSE i \in 1 .. l : e[i] = x
           rank == [x \in Steps(n) |-> l - at(x)]
<1>2. \A x \in Steps(n) : at(x) \in 1 .. l /\ e[at(x)] = x
  BY <1>1
<1> HIDE DEF at
<1>3. \A i \in 1 .. l : at(e[i]) = i
  BY <1>1, <1>2
<1>4. \A x \in Steps(n) : l - at(x) \in Nat
  BY <1>1, <1>2
<1>5. rank \in [Steps(n) -> Nat] /\ \A i \in 1 .. l : rank[e[i]] = l - i
  BY <1>1, <1>3, <1>4
<1> QED
  BY <1>5

firstOf(S) == CHOOSE t \in S : \A u \in S : t[2] <= u[2]

chainStep(n, f, x) ==
  IF n.succ[x] = {} THEN <<n.task[x]>> ELSE <<n.task[x]>> \o f[firstOf(n.succ[x])]

IsChain(n, f) == f = [x \in Steps(n) |-> chainStep(n, f, x)]

LEMMA NextInList ==
  ASSUME NEW h, NEW n, NodeType(h, n), NEW e, NEW l, ListedBy(n, e, l), NEW i \in 1 .. l
  PROVE  /\ i = l => n.succ[e[i]] = {}
         /\ i # l => /\ n.succ[e[i]] # {} /\ firstOf(n.succ[e[i]]) = e[i + 1]
                     /\ i + 1 \in 1 .. l
<1>1. /\ l \in Nat /\ \A j \in 1 .. l : e[j] \in Steps(n)
      /\ \A j \in 1 .. l : j # l => n.succ[e[j]] = {e[j + 1]}
      /\ l # 0 => n.succ[e[l]] = {}
      /\ Steps(n) \subseteq StepNames
  BY DEF ListedBy, ListOf, NodeType
<1>2. i # l => i + 1 \in 1 .. l /\ e[i + 1] \in Steps(n)
  BY <1>1
<1>3. \A s \in Steps(n) : s[2] \in Nat
  BY <1>1 DEF StepNames
<1>4. i # l => e[i + 1][2] <= e[i + 1][2]
  BY <1>2, <1>3
<1>5. i # l => firstOf({e[i + 1]}) = e[i + 1]
  BY <1>4 DEF firstOf
<1>6. i = l => l # 0 /\ n.succ[e[i]] = {}
  BY <1>1
<1>7. i # l => n.succ[e[i]] = {e[i + 1]}
  BY <1>1
<1> QED
  BY <1>2, <1>5, <1>6, <1>7

LEMMA ChainExists ==
  ASSUME NEW h, NEW n, NodeType(h, n), NEW e, NEW l, ListedBy(n, e, l)
  PROVE  \E f : IsChain(n, f)
<1>1. PICK rank \in [Steps(n) -> Nat] : \A i \in 1 .. l : rank[e[i]] = l - i
  BY Followers
<1> DEFINE C == Steps(n)
           W == Seq(Tasks(h))
           step == [f \in [C -> W] |-> [x \in C |-> chainStep(n, f, x)]]
<1>2. /\ l \in Nat /\ \A i \in 1 .. l : e[i] \in C
      /\ \A x \in C : \E i \in 1 .. l : e[i] = x
      /\ n.task \in [C -> Tasks(h)]
  BY DEF ListedBy, ListOf, NodeType
<1>3. ASSUME NEW x \in C, n.succ[x] # {}
      PROVE  firstOf(n.succ[x]) \in C /\ rank[firstOf(n.succ[x])] < rank[x]
  <2>1. PICK i \in 1 .. l : e[i] = x
    BY <1>2
  <2>2. i # l /\ firstOf(n.succ[x]) = e[i + 1] /\ i + 1 \in 1 .. l
    BY <1>3, <2>1, NextInList
  <2> QED
    BY <1>1, <1>2, <2>1, <2>2
<1>4. step \in [[C -> W] -> [C -> W]]
  <2> SUFFICES ASSUME NEW f \in [C -> W], NEW x \in C PROVE chainStep(n, f, x) \in W
    OBVIOUS
  <2>1. <<n.task[x]>> \in W
    BY <1>2
  <2>2. CASE n.succ[x] = {}
    BY <2>1, <2>2 DEF chainStep
  <2>3. CASE n.succ[x] # {}
    <3>1. f[firstOf(n.succ[x])] \in W
      BY <1>3, <2>3
    <3>2. <<n.task[x]>> \o f[firstOf(n.succ[x])] \in W
      BY <2>1, <3>1
    <3> QED
      BY <2>3, <3>2 DEF chainStep
  <2> QED
    BY <2>2, <2>3
<1>5. << >> \in W
  OBVIOUS
<1>6. DependsOnLower(C, W, rank, step)
  <2> SUFFICES ASSUME NEW f \in [C -> W], NEW g \in [C -> W], NEW x \in C,
                      \A y \in C : rank[y] < rank[x] => f[y] = g[y]
               PROVE  step[f][x] = step[g][x]
    <3> HIDE DEF step
    <3> QED
      BY DEF DependsOnLower
  <2> SUFFICES chainStep(n, f, x) = chainStep(n, g, x)
    OBVIOUS
  <2>1. CASE n.succ[x] = {}
    BY <2>1 DEF chainStep
  <2>2. CASE n.succ[x] # {}
    <3>1. f[firstOf(n.succ[x])] = g[firstOf(n.succ[x])]
      BY <1>3, <2>2
    <3> QED
      BY <2>2, <3>1 DEF chainStep
  <2> QED
    BY <2>1, <2>2
<1> HIDE DEF C, W, step
<1>7. \E f : IsFixpoint(f, C, W, step)
  BY <1>1, <1>4, <1>5, <1>6, RecursionByRank DEF C
<1> QED
  BY <1>7 DEF IsFixpoint, IsChain, step, C

(* to_dfs gives the tasks of the whole list.                               *)
LEMMA ToDfsOfList ==
  ASSUME NEW h, NEW n, NodeType(h, n), NEW e, NEW l, ListedBy(n, e, l), l # 0
  PROVE  to_dfs(n, e[1]) = lastTasks(n, e, l, l)
<1> DEFINE chain == CHOOSE f : IsChain(n, f)
<1>1. to_dfs(n, e[1]) = chain[e[1]]
  BY DEF to_dfs, IsChain, chainStep, firstOf
<1>2. IsChain(n, chain)
  BY ChainExists
<1> HIDE DEF chain
<1>3. \A x \in Steps(n) : chain[x] = chainStep(n, chain, x)
  BY <1>2 DEF IsChain
<1>4. l \in Nat /\ \A i \in 1 .. l : e[i] \in Steps(n)
  BY DEF ListedBy, ListOf
<1> DEFINE S == {j \in Nat : j < l => chain[e[l - j]] = lastTasks(n, e, l, j + 1)}
<1>5. 0 \in S
  <2>1. 0 < l /\ l - 0 = l /\ l \in 1 .. l /\ 0 + 1 = 1
    BY <1>4
  <2>2. lastTasks(n, e, l, 1) = <<n.task[e[l]]>> \o << >>
    <3>1. lastTasks(n, e, l, 0 + 1) = <<n.task[e[l - 0]]>> \o lastTasks(n, e, l, 0)
      BY <2>1, OneMoreTask
    <3> QED
      BY <2>1, <3>1, AllSteps
  <2>3. n.succ[e[l]] = {} /\ n.task[e[l]] \in Tasks(h)
    BY <1>4, <2>1, NextInList DEF NodeType
  <2>4. <<n.task[e[l]]>> \o << >> = <<n.task[e[l]]>>
    BY <2>3
  <2>5. chain[e[l]] = <<n.task[e[l]]>>
    BY <1>3, <1>4, <2>1, <2>3 DEF chainStep
  <2> QED
    BY <2>1, <2>2, <2>4, <2>5
<1>6. ASSUME NEW j \in Nat, j \in S PROVE j + 1 \in S
  <2> SUFFICES ASSUME j + 1 < l PROVE chain[e[l - (j + 1)]] = lastTasks(n, e, l, (j + 1) + 1)
    OBVIOUS
  <2>1. /\ j + 1 \in Nat /\ l - (j + 1) \in 1 .. l /\ l - (j + 1) # l
        /\ (l - (j + 1)) + 1 = l - j /\ j < l
    BY <1>4
  <2>2. chain[e[l - j]] = lastTasks(n, e, l, j + 1)
    BY <1>6, <2>1
  <2> DEFINE x == e[l - (j + 1)]
  <2>3. n.succ[x] # {} /\ firstOf(n.succ[x]) = e[l - j]
    BY <2>1, NextInList
  <2>4. chain[x] = <<n.task[x]>> \o chain[e[l - j]]
    BY <1>3, <1>4, <2>1, <2>3 DEF chainStep
  <2>5. lastTasks(n, e, l, (j + 1) + 1) = <<n.task[x]>> \o lastTasks(n, e, l, j + 1)
    BY <2>1, OneMoreTask
  <2> QED
    BY <2>2, <2>4, <2>5
<1> HIDE DEF S
<1>7. l - 1 \in S
  <2>1. l - 1 \in Nat
    BY <1>4
  <2> QED
    BY <1>5, <1>6, <2>1, Induction
<1>8. l - 1 < l /\ l - (l - 1) = 1 /\ (l - 1) + 1 = l
  BY <1>4
<1> QED
  BY <1>1, <1>7, <1>8 DEF S

(* topSort: of the steps that remain the first is the only open one.       *)
LEMMA SmallestOpenOfList ==
  ASSUME NEW h, NEW n, NodeType(h, n), NEW e, NEW l, ListedBy(n, e, l), NEW j \in Nat, j < l
  PROVE  smallestOpen(n, lastSteps(e, l, j + 1)) = {e[l - j]}
<1> DEFINE R == lastSteps(e, l, j + 1)
           open == {s \in R : \A t \in R : s \notin n.succ[t]}
<1>1. /\ l \in Nat /\ \A i \in 1 .. l : e[i] \in Steps(n)
      /\ \A x, y \in 1 .. l : e[x] = e[y] => x = y
      /\ \A i \in 1 .. l : i # l => n.succ[e[i]] = {e[i + 1]} /\ i + 1 \in 1 .. l
      /\ l # 0 => n.succ[e[l]] = {}
      /\ n.task \in [Steps(n) -> Tasks(h)]
  BY DEF ListedBy, ListOf, NodeType
<1>2. /\ \A i \in l - j .. l : i \in 1 .. l /\ e[i] \in R
      /\ \A s \in R : \E i \in l - j .. l : s = e[i]
      /\ l - j \in l - j .. l
  <2>1. (l - (j + 1)) + 1 = l - j /\ 1 <= l - j /\ l - j <= l
    BY <1>1
  <2>2. R = {e[i] : i \in l - j .. l}
    BY <2>1 DEF lastSteps
  <2> QED
    BY <1>1, <2>1, <2>2
<1> HIDE DEF R
<1>3. e[l - j] \in open
  <2> SUFFICES ASSUME NEW t \in R, e[l - j] \in n.succ[t] PROVE FALSE
    BY <1>2
  <2>1. PICK i \in l - j .. l : t = e[i]
    BY <1>2
  <2>2. i # l
    BY <1>1, <1>2, <2>1
  <2>3. e[l - j] = e[i + 1] /\ i + 1 \in 1 .. l /\ l - j \in 1 .. l
    BY <1>1, <1>2, <2>1, <2>2
  <2>4. l - j = i + 1
    BY <1>1, <2>3
  <2> QED
    BY <1>1, <2>4
<1>4. ASSUME NEW s \in open PROVE s = e[l - j]
  <2>1. s \in R /\ \A t \in R : s \notin n.succ[t]
    BY <1>4
  <2>2. PICK i \in l - j .. l : s = e[i]
    BY <1>2, <2>1
  <2>3. CASE i = l - j
    BY <2>2, <2>3
  <2>4. CASE i # l - j
    <3>1. i - 1 \in l - j .. l /\ i - 1 # l /\ (i - 1) + 1 = i
      BY <1>1, <2>4
    <3>2. e[i - 1] \in R /\ s \in n.succ[e[i - 1]]
      BY <1>1, <1>2, <2>2, <3>1
    <3> QED
      BY <2>1, <3>2
  <2> QED
    BY <2>3, <2>4
<1>5. open = {e[l - j]}
  BY <1>3, <1>4
<1>6. n.task[e[l - j]] <= n.task[e[l - j]]
  <2>1. n.task[e[l - j]] \in Tasks(h)
    BY <1>1, <1>2
  <2> QED
    BY <2>1 DEF Tasks
<1>7. smallestOpen(n, R) = {s \in open : \A t \in open : n.task[s] <= n.task[t]}
  BY DEF smallestOpen
<1> HIDE DEF open
<1> QED
  BY <1>5, <1>6, <1>7 DEF R

headed(n, s, Q) == {<<n.task[s]>> \o q : q \in Q}

sortStep(n, f, rest) ==
  IF rest = {} THEN {<< >>} ELSE UNION {headed(n, s, f[rest \ {s}]) : s \in smallestOpen(n, rest)}

IsSorts(n, f) == f = [rest \in SUBSET Steps(n) |-> sortStep(n, f, rest)]

LEMMA SortsExist ==
  ASSUME NEW h, NEW n, NodeType(h, n), IsFiniteSet(Steps(n))
  PROVE  \E f : IsSorts(n, f)
<1> DEFINE C == SUBSET Steps(n)
           W == SUBSET Seq(Tasks(h))
           rank == [R \in C |-> Cardinality(R)]
           step == [f \in [C -> W] |-> [R \in C |-> sortStep(n, f, R)]]
<1>1. rank \in [C -> Nat]
  BY FS_Subset, FS_CardinalityType
<1>2. ASSUME NEW R \in C, NEW s \in smallestOpen(n, R)
      PROVE  /\ s \in R /\ R \ {s} \in C /\ rank[R \ {s}] < rank[R]
             /\ <<n.task[s]>> \in Seq(Tasks(h))
  <2>1. s \in R /\ R \ {s} \in C
    BY DEF smallestOpen
  <2>2. IsFiniteSet(R)
    BY FS_Subset
  <2>3. Cardinality(R \ {s}) = Cardinality(R) - 1 /\ Cardinality(R) \in Nat
    BY <2>1, <2>2, FS_RemoveElement, FS_CardinalityType
  <2>4. n.task[s] \in Tasks(h)
    BY <2>1 DEF NodeType
  <2>5. <<n.task[s]>> \in Seq(Tasks(h))
    BY <2>4
  <2> QED
    BY <2>1, <2>3, <2>5
<1>3. step \in [[C -> W] -> [C -> W]]
  <2> SUFFICES ASSUME NEW f \in [C -> W], NEW R \in C PROVE sortStep(n, f, R) \in W
    OBVIOUS
  <2>1. << >> \in Seq(Tasks(h))
    OBVIOUS
  <2>2. ASSUME NEW s \in smallestOpen(n, R), NEW q \in f[R \ {s}]
        PROVE  <<n.task[s]>> \o q \in Seq(Tasks(h))
    <3>1. f[R \ {s}] \in W
      BY <1>2
    <3>2. q \in Seq(Tasks(h)) /\ <<n.task[s]>> \in Seq(Tasks(h))
      BY <1>2, <2>2, <3>1
    <3> QED
      BY <3>2
  <2>3. \A s \in smallestOpen(n, R) : headed(n, s, f[R \ {s}]) \subseteq Seq(Tasks(h))
    BY <2>2 DEF headed
  <2>4. CASE R = {}
    BY <2>1, <2>4 DEF sortStep
  <2>5. CASE R # {}
    <3>1. UNION {headed(n, s, f[R \ {s}]) : s \in smallestOpen(n, R)} \subseteq Seq(Tasks(h))
      BY <2>3
    <3> QED
      BY <2>5, <3>1 DEF sortStep
  <2> QED
    BY <2>4, <2>5
<1>4. {} \in W
  OBVIOUS
<1>5. DependsOnLower(C, W, rank, step)
  <2> SUFFICES ASSUME NEW f \in [C -> W], NEW g \in [C -> W], NEW R \in C,
                      \A Y \in C : rank[Y] < rank[R] => f[Y] = g[Y]
               PROVE  sortStep(n, f, R) = sortStep(n, g, R)
    BY DEF DependsOnLower
  <2>1. \A s \in smallestOpen(n, R) : f[R \ {s}] = g[R \ {s}]
    BY <1>2
  <2>2. {headed(n, s, f[R \ {s}]) : s \in smallestOpen(n, R)}
          = {headed(n, s, g[R \ {s}]) : s \in smallestOpen(n, R)}
    BY <2>1
  <2> QED
    BY <2>2 DEF sortStep
<1> HIDE DEF C, W, step, rank
<1>6. \E f : IsFixpoint(f, C, W, step)
  BY <1>1, <1>3, <1>4, <1>5, RecursionByRank
<1> QED
  BY <1>6 DEF IsFixpoint, IsSorts, step, C

LEMMA TopSortsOfList ==
  ASSUME NEW h, NEW n, NodeType(h, n), IsFiniteSet(Steps(n)), NEW e, NEW l, ListedBy(n, e, l)
  PROVE  topSorts(n) = {lastTasks(n, e, l, l)}
<1> DEFINE sorts == CHOOSE f : IsSorts(n, f)
<1>1. topSorts(n) = sorts[Steps(n)]
  BY DEF topSorts, IsSorts, sortStep, headed
<1>2. IsSorts(n, sorts)
  BY SortsExist
<1> HIDE DEF sorts
<1>3. \A R \in SUBSET Steps(n) : sorts[R] = sortStep(n, sorts, R)
  BY <1>2 DEF IsSorts
<1>4. l \in Nat
  BY DEF ListedBy, ListOf
<1> DEFINE S == {j \in Nat : j <= l => sorts[lastSteps(e, l, j)] = {lastTasks(n, e, l, j)}}
<1>5. 0 \in S
  <2>1. lastSteps(e, l, 0) = {} /\ lastTasks(n, e, l, 0) = << >>
    BY AllSteps
  <2>2. sorts[{}] = {<< >>}
    BY <1>3 DEF sortStep
  <2> QED
    BY <2>1, <2>2
<1>6. ASSUME NEW j \in Nat, j \in S PROVE j + 1 \in S
  <2> SUFFICES ASSUME j + 1 <= l
               PROVE  sorts[lastSteps(e, l, j + 1)] = {lastTasks(n, e, l, j + 1)}
    OBVIOUS
  <2> DEFINE R == lastSteps(e, l, j + 1)
             s == e[l - j]
             q == lastTasks(n, e, l, j)
  <2>1. j < l /\ j <= l
    BY <1>4
  <2>2. /\ R = lastSteps(e, l, j) \cup {s} /\ s \notin lastSteps(e, l, j)
        /\ R \subseteq Steps(n)
        /\ lastTasks(n, e, l, j + 1) = <<n.task[s]>> \o q
    BY <2>1, OneMoreTask
  <2>3. R # {} /\ R \ {s} = lastSteps(e, l, j)
    BY <2>2
  <2>4. smallestOpen(n, R) = {s}
    BY <2>1, SmallestOpenOfList
  <2>5. sorts[R \ {s}] = {q}
    BY <1>6, <2>1, <2>3
  <2>6. sorts[R] = UNION {headed(n, x, sorts[R \ {x}]) : x \in smallestOpen(n, R)}
    BY <1>3, <2>2, <2>3 DEF sortStep
  <2> HIDE DEF R, s, q
  <2>7. sorts[R] = headed(n, s, sorts[R \ {s}])
    BY <2>4, <2>6
  <2>8. sorts[R] = {<<n.task[s]>> \o q}
    BY <2>5, <2>7 DEF headed
  <2> QED
    BY <2>2, <2>8 DEF R
<1> HIDE DEF S
<1>7. l \in S
  BY <1>4, <1>5, <1>6, Induction
<1> QED
  BY <1>1, <1>4, <1>7, AllSteps DEF S

-----------------------------------------------------------------------------
(***************************************************************************)
(* What makes a node of a totally ordered problem, and that progression    *)
(* makes no others.                                                        *)
(***************************************************************************)
SequentialNode(h, n) ==
  WellFormed(h, n) /\ TaskCountsExact(n) /\ \E e, l : ListedBy(n, e, l)

LEMMA InitialSequential ==
  ASSUME NEW h, IsProblem(h)
  PROVE  SequentialNode(h, prepareTNi(h))
BY InitialWellFormed, InitialCounts, InitialListed DEF SequentialNode

LEMMA ApplySequential ==
  ASSUME NEW h, IsProblem(h), NEW n, SequentialNode(h, n), NEW s \in n.prim, NEW k \in Nat
  PROVE  SequentialNode(h, applyStep(h, n, s, k))
<1>1. WellFormed(h, n) /\ TaskCountsExact(n) /\ s \in Steps(n)
  BY DEF SequentialNode, WellFormed, NodeType
<1>2. PICK e, l : ListedBy(n, e, l)
  BY DEF SequentialNode
<1>3. WellFormed(h, applyStep(h, n, s, k))
  BY <1>1, ApplyWellFormed
<1>4. TaskCountsExact(applyStep(h, n, s, k))
  BY <1>1, ApplyCounts
<1>5. \E e2, l2 : ListedBy(applyStep(h, n, s, k), e2, l2)
  BY <1>1, <1>2, ApplyListed
<1> QED
  BY <1>3, <1>4, <1>5 DEF SequentialNode

LEMMA DecomposeSequential ==
  ASSUME NEW h, IsProblem(h), isTotallyOrdered(h), NEW n, SequentialNode(h, n), NEW d \in n.abs,
         NEW mi \in taskToMethods(h, n.task[d]), NEW k \in Nat, NamedBefore(n, k)
  PROVE  SequentialNode(h, decomposeStep(h, n, d, mi, k))
<1>1. /\ WellFormed(h, n) /\ TaskCountsExact(n) /\ d \in Steps(n)
      /\ n.task \in [Steps(n) -> Tasks(h)]
  BY DEF SequentialNode, WellFormed, NodeType
<1>2. PICK e, l : ListedBy(n, e, l)
  BY DEF SequentialNode
<1>3. IsMethod(h, h.methods[mi]) /\ ~ notAChain(h.methods[mi])
  BY DEF taskToMethods, IsProblem, isTotallyOrdered
<1>4. PICK c : \E q \in Nat \ {0} : ListOf(Positions(h.methods[mi]), succOf(h.methods[mi]), c, q)
  BY <1>3, MethodIsListed
<1>5. PICK q \in Nat \ {0} : ListOf(Positions(h.methods[mi]), succOf(h.methods[mi]), c, q)
  BY <1>4
<1>6. WellFormed(h, decomposeStep(h, n, d, mi, k))
  BY <1>1, DecomposeWellFormed
<1>7. TaskCountsExact(decomposeStep(h, n, d, mi, k))
  BY <1>1, DecomposeCounts
<1>8. \E e2, l2 : ListedBy(decomposeStep(h, n, d, mi, k), e2, l2)
  BY <1>1, <1>2, <1>5, DecomposeListed
<1> QED
  BY <1>6, <1>7, <1>8 DEF SequentialNode

(* Keys of such nodes tell their sequences of tasks apart.                 *)
LEMMA SequencesOfList ==
  ASSUME NEW h, NEW n, SequentialNode(h, n), NEW e, NEW l, ListedBy(n, e, l)
  PROVE  DOMAIN sequences(n) = IF l = 0 THEN {} ELSE {lastTasks(n, e, l, l)}
<1>1. WellFormed(h, n) /\ NodeType(h, n)
  BY DEF SequentialNode, WellFormed
<1>2. DOMAIN sequences(n) = {to_dfs(n, s) : s \in Unconstraint(n)}
  BY DEF sequences
<1>3. CASE l = 0
  <2>1. Unconstraint(n) = {}
    BY <1>1, <1>3, FirstOfList
  <2> QED
    BY <1>2, <1>3, <2>1
<1>4. CASE l # 0
  <2>1. Unconstraint(n) = {e[1]}
    BY <1>1, <1>4, FirstOfList
  <2>2. to_dfs(n, e[1]) = lastTasks(n, e, l, l)
    BY <1>1, <1>4, ToDfsOfList
  <2> QED
    BY <1>2, <1>4, <2>1, <2>2
<1> QED
  BY <1>3, <1>4

LEMMA KeyIsSequence ==
  ASSUME NEW h, NEW c, NEW n, SequentialNode(h, n), NEW e, NEW l, ListedBy(n, e, l),
         NEW o, SequentialNode(h, o), NEW e2, NEW l2, ListedBy(o, e2, l2),
         sequenceKeys(h, c, n) \cap sequenceKeys(h, c, o) # {}
  PROVE  lastTasks(n, e, l, l) = lastTasks(o, e2, l2, l2)
<1>1. CASE c.parallelSequences /\ isParallelSequences(h)
  <2>1. sequenceKeys(h, c, n) = {<<sequences(n)>>} /\ sequenceKeys(h, c, o) = {<<sequences(o)>>}
    BY <1>1 DEF sequenceKeys
  <2>2. <<sequences(n)>> = <<sequences(o)>>
    BY <2>1
  <2>3. sequences(n) = sequences(o)
    BY <2>2
  <2>4. /\ DOMAIN sequences(n) = IF l = 0 THEN {} ELSE {lastTasks(n, e, l, l)}
        /\ DOMAIN sequences(o) = IF l2 = 0 THEN {} ELSE {lastTasks(o, e2, l2, l2)}
    BY SequencesOfList
  <2>5. CASE l = 0
    <3>1. l2 = 0
      BY <2>3, <2>4, <2>5
    <3> QED
      BY <2>5, <3>1, AllSteps
  <2>6. CASE l # 0
    <3>1. l2 # 0
      BY <2>3, <2>4, <2>6
    <3>2. {lastTasks(n, e, l, l)} = {lastTasks(o, e2, l2, l2)}
      BY <2>3, <2>4, <2>6, <3>1
    <3> QED
      BY <3>2
  <2> QED
    BY <2>5, <2>6
<1>2. CASE ~ (c.parallelSequences /\ isParallelSequences(h))
  <2>1. /\ NodeType(h, n) /\ IsFiniteSet(Steps(n))
        /\ NodeType(h, o) /\ IsFiniteSet(Steps(o))
    BY DEF SequentialNode, WellFormed, TaskCountsExact
  <2>2. topSorts(n) = {lastTasks(n, e, l, l)} /\ topSorts(o) = {lastTasks(o, e2, l2, l2)}
    BY <2>1, TopSortsOfList
  <2>3. sequenceKeys(h, c, n) = {<<q>> : q \in topSorts(n)}
        /\ sequenceKeys(h, c, o) = {<<q>> : q \in topSorts(o)}
    BY <1>2 DEF sequenceKeys
  <2>4. <<lastTasks(n, e, l, l)>> = <<lastTasks(o, e2, l2, l2)>>
    BY <2>2, <2>3
  <2> QED
    BY <2>4
<1> QED
  BY <1>1, <1>2

(* Equal sequences mean isomorphic networks.                               *)
SameOrder(n, o, f) ==
  /\ f \in [Steps(n) -> Steps(o)] /\ IsInjective(f)
  /\ \A s \in Steps(n) : n.task[s] = o.task[f[s]] /\ {f[t] : t \in n.succ[s]} = o.succ[f[s]]

LEMMA ListedAlike ==
  ASSUME NEW n, NEW e, NEW l, ListedBy(n, e, l), NEW o, NEW e2, NEW l2, ListedBy(o, e2, l2),
         lastTasks(n, e, l, l) = lastTasks(o, e2, l2, l2)
  PROVE  \E f : SameOrder(n, o, f)
<1>1. /\ l \in Nat /\ \A i \in 1 .. l : e[i] \in Steps(n)
      /\ \A x \in Steps(n) : \E i \in 1 .. l : e[i] = x
      /\ \A x, y \in 1 .. l : e[x] = e[y] => x = y
      /\ \A i \in 1 .. l : i # l => n.succ[e[i]] = {e[i + 1]} /\ i + 1 \in 1 .. l
      /\ l # 0 => n.succ[e[l]] = {}
  BY DEF ListedBy, ListOf
<1>2. /\ l2 \in Nat /\ \A i \in 1 .. l2 : e2[i] \in Steps(o)
      /\ \A x, y \in 1 .. l2 : e2[x] = e2[y] => x = y
      /\ \A i \in 1 .. l2 : i # l2 => o.succ[e2[i]] = {e2[i + 1]}
      /\ l2 # 0 => o.succ[e2[l2]] = {}
  BY DEF ListedBy, ListOf
<1>3. /\ DOMAIN lastTasks(n, e, l, l) = 1 .. l /\ DOMAIN lastTasks(o, e2, l2, l2) = 1 .. l2
      /\ \A i \in 1 .. l : lastTasks(n, e, l, l)[i] = n.task[e[(l - l) + i]]
      /\ \A i \in 1 .. l2 : lastTasks(o, e2, l2, l2)[i] = o.task[e2[(l2 - l2) + i]]
  BY DEF lastTasks
<1>4. l2 = l
  BY <1>1, <1>2, <1>3
<1>5. \A i \in 1 .. l : n.task[e[i]] = o.task[e2[i]]
  <2> TAKE i \in 1 .. l
  <2>1. (l - l) + i = i
    BY <1>1
  <2> QED
    BY <1>3, <1>4, <2>1
<1> DEFINE at(x) == CHOOSE i \in 1 .. l : e[i] = x
           f == [x \in Steps(n) |-> e2[at(x)]]
<1>6. \A x \in Steps(n) : at(x) \in 1 .. l /\ e[at(x)] = x
  BY <1>1
<1> HIDE DEF at
<1>7. \A i \in 1 .. l : f[e[i]] = e2[i]
  BY <1>1, <1>6
<1>8. f \in [Steps(n) -> Steps(o)] /\ \A x \in Steps(n) : f[x] = e2[at(x)]
  BY <1>2, <1>4, <1>6
<1> HIDE DEF f
<1>9. IsInjective(f)
  <2> SUFFICES ASSUME NEW x \in Steps(n), NEW y \in Steps(n), f[x] = f[y] PROVE x = y
    BY <1>8 DEF IsInjective
  <2>1. at(x) = at(y)
    BY <1>2, <1>4, <1>6, <1>8
  <2> QED
    BY <1>6, <2>1
<1>10. ASSUME NEW s \in Steps(n)
       PROVE  n.task[s] = o.task[f[s]] /\ {f[t] : t \in n.succ[s]} = o.succ[f[s]]
  <2>1. PICK i \in 1 .. l : e[i] = s
    BY <1>1
  <2>2. f[s] = e2[i]
    BY <1>7, <2>1
  <2>3. CASE i = l
    <3>1. l # 0 /\ n.succ[s] = {} /\ o.succ[f[s]] = {}
      BY <1>1, <1>2, <1>4, <2>1, <2>2, <2>3
    <3> QED
      BY <1>5, <2>1, <2>2, <3>1
  <2>4. CASE i # l
    <3>1. n.succ[s] = {e[i + 1]} /\ i + 1 \in 1 .. l /\ o.succ[f[s]] = {e2[i + 1]}
      BY <1>1, <1>2, <1>4, <2>1, <2>2, <2>4
    <3>2. f[e[i + 1]] = e2[i + 1]
      BY <1>7, <3>1
    <3> QED
      BY <1>5, <2>1, <2>2, <3>1, <3>2
  <2> QED
    BY <2>3, <2>4
<1> QED
  BY <1>8, <1>9, <1>10 DEF SameOrder

LEMMA SameSize ==
  ASSUME NEW n, NEW e, NEW l, ListedBy(n, e, l)
  PROVE  Cardinality(Steps(n)) = l
<1>1. /\ l \in Nat /\ e \in [1 .. l -> Steps(n)]
      /\ \A x \in Steps(n) : \E i \in 1 .. l : e[i] = x
      /\ \A x, y \in 1 .. l : e[x] = e[y] => x = y
  BY DEF ListedBy, ListOf
<1>2. e \in Bijection(1 .. l, Steps(n))
  BY <1>1 DEF Bijection, Injection, Surjection, IsInjective
<1>3. ExistsBijection(1 .. l, Steps(n))
  BY <1>2 DEF ExistsBijection
<1>4. IsFiniteSet(1 .. l) /\ Cardinality(1 .. l) = l
  BY <1>1, FS_Interval
<1> QED
  BY <1>3, <1>4, FS_Bijection
-----------------------------------------------------------------------------
(***************************************************************************)
(* The nodes that progression makes.                                       *)
(***************************************************************************)
SearchNodes(h) ==
  [ state : SUBSET Facts(h),
    task  : UNION {[S -> Tasks(h)] : S \in SUBSET StepNames},
    succ  : UNION {[S -> SUBSET StepNames] : S \in SUBSET StepNames},
    prim  : SUBSET StepNames, abs : SUBSET StepNames,
    contained : UNION {[T -> Nat] : T \in SUBSET Tasks(h)}, numContained : Nat,
    solution : Seq(SolutionSteps(h)),
    actionCosts : Nat, modificationDepth : Nat, mixedModificationDepth : Nat,
    fValue : Int, pushed : BOOLEAN ]

countedNodes(h) == {n \in SearchNodes(h) : WellFormed(h, n) /\ TaskCountsExact(n)}

(* The fields of a well-formed node with exact counters are in these sets. *)
LEMMA FieldTypes ==
  ASSUME NEW h, NEW n, NodeType(h, n), TaskCountsExact(n),
         n.contained = [t \in DOMAIN n.contained |-> n.contained[t]]
  PROVE  /\ n.state \in SUBSET Facts(h)
         /\ n.task \in UNION {[S -> Tasks(h)] : S \in SUBSET StepNames}
         /\ n.succ \in UNION {[S -> SUBSET StepNames] : S \in SUBSET StepNames}
         /\ n.prim \in SUBSET StepNames /\ n.abs \in SUBSET StepNames
         /\ n.contained \in UNION {[T -> Nat] : T \in SUBSET Tasks(h)} /\ n.numContained \in Nat
         /\ n.solution \in Seq(SolutionSteps(h))
         /\ n.actionCosts \in Nat /\ n.modificationDepth \in Nat
         /\ n.mixedModificationDepth \in Nat /\ n.fValue \in Int /\ n.pushed \in BOOLEAN
<1>1. /\ Steps(n) \subseteq StepNames /\ n.task \in [Steps(n) -> Tasks(h)]
      /\ n.succ \in [Steps(n) -> SUBSET Steps(n)]
      /\ n.prim \subseteq Steps(n) /\ n.abs \subseteq Steps(n)
  BY DEF NodeType
<1>2. n.succ \in [Steps(n) -> SUBSET StepNames]
  BY <1>1
<1>3. IsFiniteSet(Steps(n)) /\ DOMAIN n.contained = TasksOf(n)
  BY DEF TaskCountsExact
<1>4. TasksOf(n) \subseteq Tasks(h)
  BY <1>1 DEF TasksOf
<1>5. \A t \in TasksOf(n) : n.contained[t] \in Nat
  BY <1>3, OccurrencesFinite DEF TaskCountsExact
<1>6. n.contained \in [TasksOf(n) -> Nat]
  BY <1>3, <1>5
<1>7. n.numContained \in Nat
  BY <1>3, TasksFinite, FS_CardinalityType DEF TaskCountsExact
<1> QED
  BY <1>1, <1>2, <1>4, <1>6, <1>7 DEF NodeType

LEMMA InitialCounted ==
  ASSUME NEW h, IsProblem(h)
  PROVE  prepareTNi(h) \in countedNodes(h)
<1> DEFINE n == prepareTNi(h)
<1>1. WellFormed(h, n) /\ TaskCountsExact(n)
  BY InitialWellFormed, InitialCounts
<1>2. NodeType(h, n) /\ TaskCountsExact(n)
  BY <1>1 DEF WellFormed
<1>3. n.contained = [t \in DOMAIN n.contained |-> n.contained[t]]
  BY DEF prepareTNi
<1>4. n \in SearchNodes(h)
  BY <1>2, <1>3, FieldTypes DEF SearchNodes, prepareTNi
<1> QED
  BY <1>1, <1>4 DEF countedNodes

LEMMA ApplyCounted ==
  ASSUME NEW h, IsProblem(h), NEW n \in countedNodes(h), NEW s \in n.prim, NEW k \in Nat
  PROVE  applyStep(h, n, s, k) \in countedNodes(h)
<1> DEFINE n2 == applyStep(h, n, s, k)
<1>1. WellFormed(h, n) /\ TaskCountsExact(n) /\ s \in Steps(n)
  BY DEF countedNodes, WellFormed, NodeType
<1>2. WellFormed(h, n2) /\ TaskCountsExact(n2)
  BY <1>1, ApplyWellFormed, ApplyCounts
<1>3. NodeType(h, n2)
  BY <1>2 DEF WellFormed
<1>4. n2.contained = [t \in DOMAIN n2.contained |-> n2.contained[t]]
  BY DEF applyStep, updateTaskCounterA, Restrict
<1>5. n2 \in SearchNodes(h)
  BY <1>2, <1>3, <1>4, FieldTypes DEF SearchNodes, applyStep
<1> QED
  BY <1>2, <1>5 DEF countedNodes

LEMMA DecomposeCounted ==
  ASSUME NEW h, IsProblem(h), NEW n \in countedNodes(h), NEW d \in n.abs,
         NEW mi \in taskToMethods(h, n.task[d]), NEW k \in Nat, NamedBefore(n, k)
  PROVE  decomposeStep(h, n, d, mi, k) \in countedNodes(h)
<1> DEFINE n2 == decomposeStep(h, n, d, mi, k)
<1>1. /\ WellFormed(h, n) /\ TaskCountsExact(n) /\ d \in Steps(n)
      /\ n.task \in [Steps(n) -> Tasks(h)]
  BY DEF countedNodes, WellFormed, NodeType
<1>2. WellFormed(h, n2) /\ TaskCountsExact(n2)
  BY <1>1, DecomposeWellFormed, DecomposeCounts
<1>3. NodeType(h, n2)
  BY <1>2 DEF WellFormed
<1>4. n2.contained = [t \in DOMAIN n2.contained |-> n2.contained[t]]
  <2> DEFINE m         == h.methods[mi]
             old       == n.contained
             removeAbs == old[m.task] = 1 /\ m.task \notin distinctSubtasks(m)
             kept      == IF removeAbs THEN DOMAIN old \ {m.task} ELSE DOMAIN old
             merged    == [t \in kept \cup distinctSubtasks(m) |->
                             (IF t \in kept THEN old[t] ELSE 0) + subtaskCount(m, t)]
  <2>1. n2.contained = IF removeAbs THEN merged ELSE [merged EXCEPT ![m.task] = @ - 1]
    BY DEF decomposeStep, updateTaskCounterM
  <2>2. merged = [t \in DOMAIN merged |-> merged[t]]
    OBVIOUS
  <2>3. \A f, x, v : [f EXCEPT ![x] = v] =
                       [t \in DOMAIN [f EXCEPT ![x] = v] |-> [f EXCEPT ![x] = v][t]]
    OBVIOUS
  <2> HIDE DEF n2, merged, removeAbs, m
  <2> QED
    BY <2>1, <2>2, <2>3
<1>5. n2 \in SearchNodes(h)
  BY <1>2, <1>3, <1>4, FieldTypes DEF SearchNodes, decomposeStep
<1> QED
  BY <1>2, <1>5 DEF countedNodes

withValue(n, v) == [n EXCEPT !.fValue = v, !.pushed = TRUE]

LEMMA PushCounted ==
  ASSUME NEW h, NEW n \in countedNodes(h), NEW v \in Int
  PROVE  LET p == withValue(n, v)
         IN  /\ p.state = n.state /\ p.task = n.task /\ p.succ = n.succ
             /\ p.actionCosts = n.actionCosts
             /\ Steps(p) = Steps(n)
             /\ p \in countedNodes(h)
<1> DEFINE p == withValue(n, v)
<1>1. p \in SearchNodes(h) /\ n \in SearchNodes(h)
  BY DEF countedNodes, SearchNodes, withValue
<1>2. /\ p.state = n.state /\ p.task = n.task /\ p.succ = n.succ /\ p.prim = n.prim
      /\ p.abs = n.abs /\ p.contained = n.contained /\ p.numContained = n.numContained
      /\ p.solution = n.solution /\ p.actionCosts = n.actionCosts
      /\ p.modificationDepth = n.modificationDepth
      /\ p.mixedModificationDepth = n.mixedModificationDepth
      /\ p.fValue \in Int /\ p.pushed \in BOOLEAN /\ DOMAIN p = DOMAIN n
  BY <1>1 DEF SearchNodes, withValue
<1> HIDE DEF p
<1>3. Steps(p) = Steps(n) /\ Unconstraint(p) = Unconstraint(n) /\ FirstSteps(p) = FirstSteps(n)
  BY <1>2 DEF Steps, Unconstraint, FirstSteps
<1>4. WellFormed(h, n) /\ TaskCountsExact(n)
  BY DEF countedNodes
<1>5. NodeType(h, p)
  BY <1>2, <1>3, <1>4 DEF WellFormed, NodeType
<1>6. WellFormed(h, p)
  BY <1>2, <1>3, <1>4, <1>5 DEF WellFormed, AcyclicNetwork
<1>7. TaskCountsExact(p)
  <2>1. TasksOf(p) = TasksOf(n) /\ \A t : Occurrences(p, t) = Occurrences(n, t)
    BY <1>2, <1>3 DEF TasksOf, Occurrences
  <2> QED
    BY <1>2, <1>3, <1>4, <2>1 DEF TaskCountsExact
<1> QED
  BY <1>1, <1>2, <1>3, <1>6, <1>7 DEF countedNodes, p

LEMMA ObtainedIsCounted ==
  ASSUME NEW h, IsProblem(h), NEW n, obtained(h, n)
  PROVE  n \in countedNodes(h)
<1> DEFINE X == countedNodes(h)
<1>1. ASSUME NEW o \in X, NEW s \in applicableSteps(h, o), NEW k \in Nat
      PROVE  applyStep(h, o, s, k) \in X
  BY ApplyCounted DEF applicableSteps
<1>2. ASSUME NEW o \in X, NEW d \in o.abs, NEW mi \in taskToMethods(h, o.task[d]), NEW k \in Nat,
             \A t \in Steps(o) : t[1] < k
      PROVE  decomposeStep(h, o, d, mi, k) \in X
  BY <1>2, DecomposeCounted DEF NamedBefore
<1>3. ASSUME NEW o \in X, NEW v \in Int PROVE [o EXCEPT !.fValue = v, !.pushed = TRUE] \in X
  BY PushCounted DEF withValue
<1>4. prepareTNi(h) \in X
  BY InitialCounted
<1> HIDE DEF X
<1>5. progressionClosed(h, X)
  BY <1>1, <1>2, <1>3 DEF progressionClosed
<1> QED
  BY <1>4, <1>5 DEF obtained, leadsTo, X
-----------------------------------------------------------------------------
(***************************************************************************)
(* Sets that grow by rules.                                                *)
(***************************************************************************)
ClosedUnderRules(rules, C) == \A r \in rules : r.pre \subseteq C => r.add \subseteq C

(* The rounds of closure are the members of a sequence of growing sets.    *)
LEMMA RoundsOfClosure ==
  ASSUME NEW rules, IsFiniteSet(rules), NEW X
  PROVE  \E g : IsIteration(g, SUBSET (X \cup UNION {r.add : r \in rules}), X,
                  [Y \in SUBSET (X \cup UNION {r.add : r \in rules}) |-> grown(rules, Y)])
                /\ closure(rules, X) = g[Cardinality(rules)]
<1> DEFINE D == X \cup UNION {r.add : r \in rules}
           step == [Y \in SUBSET D |-> grown(rules, Y)]
           N == Cardinality(rules)
           body(f) == [round \in 0 .. N |->
                         IF round = 0 THEN X ELSE UNION {grown(rules, Y) : Y \in {f[round - 1]}}]
           after == CHOOSE f : f = body(f)
<1>1. N \in Nat
  BY FS_CardinalityType
<1>2. X \in SUBSET D /\ step \in [SUBSET D -> SUBSET D]
  BY DEF grown
<1>3. PICK g : IsIteration(g, SUBSET D, X, step)
  <2> HIDE DEF D, step
  <2> QED
    BY <1>2, Recursion
<1>4. \A Z : UNION {grown(rules, Y) : Y \in {Z}} = grown(rules, Z)
  OBVIOUS
<1>5. \A i \in Nat : g[i] \in SUBSET D /\ g[i + 1] = grown(rules, g[i])
  BY <1>3 DEF IsIteration
<1>6. \E f : f = body(f)
  <2> DEFINE f == [i \in 0 .. N |-> g[i]]
  <2>1. ASSUME NEW i \in 0 .. N PROVE f[i] = body(f)[i]
    <3>1. CASE i = 0
      BY <1>3, <3>1 DEF IsIteration
    <3>2. CASE i # 0
      <4>1. i - 1 \in Nat /\ i - 1 \in 0 .. N /\ (i - 1) + 1 = i
        BY <1>1, <3>2
      <4>2. g[i] = grown(rules, g[i - 1])
        BY <1>5, <4>1
      <4>3. body(f)[i] = grown(rules, f[i - 1])
        BY <1>4, <3>2
      <4> QED
        BY <4>1, <4>2, <4>3
    <3> QED
      BY <3>1, <3>2
  <2>2. f = [i \in 0 .. N |-> f[i]] /\ body(f) = [i \in 0 .. N |-> body(f)[i]]
    OBVIOUS
  <2>3. f = body(f)
    <3> HIDE DEF f, body
    <3> QED
      BY <2>1, <2>2
  <2> QED
    BY <2>3
<1>7. after = body(after)
  <2> HIDE DEF body
  <2> QED
    BY <1>6
<1>8. closure(rules, X) = after[N]
  BY DEF closure
<1> HIDE DEF after
<1>9. after[N] = g[N]
  <2> DEFINE S == {i \in Nat : i <= N => after[i] = g[i]}
  <2>1. 0 \in S
    <3>1. after[0] = X
      BY <1>1, <1>7
    <3> QED
      BY <1>3, <3>1 DEF IsIteration
  <2>2. ASSUME NEW i \in Nat, i \in S PROVE i + 1 \in S
    <3>1. SUFFICES ASSUME i + 1 <= N PROVE after[i + 1] = g[i + 1]
      OBVIOUS
    <3>2. i + 1 \in 0 .. N /\ i + 1 # 0 /\ (i + 1) - 1 = i /\ after[i] = g[i]
      BY <1>1, <2>2, <3>1
    <3>3. after[i + 1] = grown(rules, after[i])
      BY <1>4, <1>7, <3>2
    <3> QED
      BY <1>5, <3>2, <3>3
  <2> HIDE DEF S
  <2>3. Nat \subseteq S
    BY <2>1, <2>2, Induction
  <2> QED
    BY <1>1, <2>3 DEF S
<1> QED
  BY <1>3, <1>8, <1>9

(* As many rounds as there are rules are enough.                           *)
LEMMA ClosureIsClosed ==
  ASSUME NEW rules, IsFiniteSet(rules), NEW X
  PROVE  X \subseteq closure(rules, X) /\ ClosedUnderRules(rules, closure(rules, X))
<1> DEFINE D == X \cup UNION {r.add : r \in rules}
           N == Cardinality(rules)
<1>1. PICK g : IsIteration(g, SUBSET D, X, [Y \in SUBSET D |-> grown(rules, Y)])
               /\ closure(rules, X) = g[N]
  BY RoundsOfClosure
<1>2. /\ g[0] = X
      /\ \A i \in Nat : g[i] \subseteq D /\ g[i + 1] = grown(rules, g[i])
  BY <1>1 DEF IsIteration
<1> HIDE DEF D
<1>3. N \in Nat
  BY FS_CardinalityType
<1>4. \A i \in Nat : g[i] \subseteq g[i + 1]
  BY <1>2 DEF grown
<1>5. X \subseteq g[N]
  <2> DEFINE S == {i \in Nat : X \subseteq g[i]}
  <2>1. 0 \in S
    BY <1>2
  <2>2. \A i \in Nat : i \in S => i + 1 \in S
    BY <1>4
  <2> HIDE DEF S
  <2>3. Nat \subseteq S
    BY <2>1, <2>2, Induction
  <2> QED
    BY <1>3, <2>3 DEF S
<1> DEFINE done == [i \in Nat |-> {r \in rules : r.add \subseteq g[i]}]
<1>6. /\ done \in [Nat -> SUBSET rules]
      /\ \A i \in Nat : \A r : r \in done[i] <=> r \in rules /\ r.add \subseteq g[i]
  OBVIOUS
<1> HIDE DEF done
<1>7. ASSUME NEW i \in Nat PROVE done[i] \subseteq done[i + 1]
  <2>1. i + 1 \in Nat /\ g[i] \subseteq g[i + 1]
    BY <1>4
  <2> QED
    BY <1>6, <2>1
<1>8. ASSUME NEW i \in Nat, NEW r \in rules, r.pre \subseteq g[i] PROVE r \in done[i + 1]
  <2>1. r.add \subseteq grown(rules, g[i])
    BY <1>8 DEF grown
  <2>2. i + 1 \in Nat
    OBVIOUS
  <2> QED
    BY <1>2, <1>6, <2>1, <2>2
<1>9. ASSUME NEW i \in Nat, done[i + 1] = done[i] PROVE done[i + 2] = done[i + 1]
  <2>1. grown(rules, g[i]) \subseteq g[i]
    <3>1. \A r \in rules : r.pre \subseteq g[i] => r.add \subseteq g[i]
      BY <1>6, <1>8, <1>9
    <3> QED
      BY <3>1 DEF grown
  <2>2. g[i + 1] = g[i]
    BY <1>2, <1>4, <2>1
  <2>3. g[i + 2] = g[i + 1]
    <3>1. i + 1 \in Nat /\ (i + 1) + 1 = i + 2
      OBVIOUS
    <3>2. g[i + 2] = grown(rules, g[i + 1])
      BY <1>2, <3>1
    <3> QED
      BY <1>2, <2>2, <3>2
  <2>4. i + 1 \in Nat /\ i + 2 \in Nat
    OBVIOUS
  <2>5. \A r : r \in done[i + 2] <=> r \in done[i + 1]
    BY <1>6, <2>3, <2>4
  <2> QED
    BY <1>6, <2>4, <2>5
<1>10. done[N + 1] = done[N]
  BY <1>6, <1>7, <1>9, GrowthEnds
<1>11. ASSUME NEW r \in rules, r.pre \subseteq g[N] PROVE r.add \subseteq g[N]
  BY <1>3, <1>6, <1>8, <1>10, <1>11
<1> QED
  BY <1>1, <1>5, <1>11 DEF ClosedUnderRules

(* It contains no more than any closed set with X.                         *)
LEMMA ClosureIsLeast ==
  ASSUME NEW rules, IsFiniteSet(rules), NEW X, NEW C, X \subseteq C, ClosedUnderRules(rules, C)
  PROVE  closure(rules, X) \subseteq C
<1> DEFINE D == X \cup UNION {r.add : r \in rules}
           N == Cardinality(rules)
<1>1. PICK g : IsIteration(g, SUBSET D, X, [Y \in SUBSET D |-> grown(rules, Y)])
               /\ closure(rules, X) = g[N]
  BY RoundsOfClosure
<1>2. /\ g[0] = X
      /\ \A i \in Nat : g[i] \subseteq D /\ g[i + 1] = grown(rules, g[i])
  BY <1>1 DEF IsIteration
<1> HIDE DEF D
<1> DEFINE S == {i \in Nat : g[i] \subseteq C}
<1>3. 0 \in S
  BY <1>2
<1>4. ASSUME NEW i \in Nat, i \in S PROVE i + 1 \in S
  <2>1. grown(rules, g[i]) \subseteq C
    BY <1>4 DEF grown, ClosedUnderRules
  <2> QED
    BY <1>2, <2>1
<1> HIDE DEF S
<1>5. Nat \subseteq S
  BY <1>3, <1>4, Induction
<1>6. N \in Nat
  BY FS_CardinalityType
<1> QED
  BY <1>1, <1>5, <1>6 DEF S

(* A list of a set has its members.                                        *)
LEMMA ListOfSet ==
  ASSUME NEW S, IsFiniteSet(S)
  PROVE  SetToSeq(S) \in Seq(S) /\ ToSet(SetToSeq(S)) = S
<1> DEFINE N == Cardinality(S)
           l == SetToSeq(S)
<1>1. N \in Nat /\ ExistsBijection(1 .. N, S)
  BY FS_CardinalityType
<1>2. PICK b \in Bijection(1 .. N, S) : TRUE
  BY <1>1 DEF ExistsBijection
<1>3. b \in [1 .. N -> S] /\ IsInjective(b)
  BY <1>2 DEF Bijection, Injection
<1>4. l \in [1 .. N -> S] /\ IsInjective(l)
  BY <1>3 DEF SetToSeq
<1> HIDE DEF l
<1>5. l \in Injection(1 .. N, S)
  BY <1>4 DEF Injection
<1>6. Cardinality(1 .. N) = N /\ IsFiniteSet(1 .. N)
  BY <1>1, FS_Interval
<1>7. l \in Surjection(1 .. N, S)
  BY <1>5, <1>6, FS_Injection
<1>8. l \in Seq(S)
  BY <1>1, <1>4
<1>9. ToSet(l) = S
  BY <1>4, <1>7 DEF ToSet, Surjection
<1> QED
  BY <1>8, <1>9 DEF l

LEMMA OneMoreInList ==
  ASSUME NEW T, NEW l \in Seq(T), NEW x
  PROVE  ToSet(l \o <<x>>) = ToSet(l) \cup {x}
<1>1. /\ Len(l) \in Nat /\ DOMAIN l = 1 .. Len(l)
      /\ DOMAIN (l \o <<x>>) = 1 .. Len(l) + 1
      /\ \A i \in 1 .. Len(l) : (l \o <<x>>)[i] = l[i]
      /\ (l \o <<x>>)[Len(l) + 1] = x
  OBVIOUS
<1>2. 1 .. Len(l) + 1 = (1 .. Len(l)) \cup {Len(l) + 1}
  BY <1>1
<1> QED
  BY <1>1, <1>2 DEF ToSet
-----------------------------------------------------------------------------
(***************************************************************************)
(* The relaxed composition.                                                *)
(***************************************************************************)
LEMMA SubtasksFinite ==
  ASSUME NEW h, IsProblem(h), NEW mi \in Methods(h)
  PROVE  /\ IsFiniteSet(distinctSubtasks(h.methods[mi]))
         /\ distinctSubtasks(h.methods[mi]) \subseteq Tasks(h)
<1> DEFINE m == h.methods[mi]
<1>1. m.subs \in Seq(Tasks(h))
  BY DEF IsProblem, IsMethod
<1>2. IsFiniteSet(Positions(m))
  <2>1. Len(m.subs) \in Nat /\ Positions(m) = 1 .. Len(m.subs)
    BY <1>1 DEF Positions
  <2> QED
    BY <2>1, FS_Interval
<1>3. distinctSubtasks(m) = {m.subs[i] : i \in Positions(m)}
  BY DEF distinctSubtasks
<1>4. IsFiniteSet({m.subs[i] : i \in Positions(m)})
  <2> DEFINE f == m.subs
  <2> HIDE DEF f
  <2>1. IsFiniteSet({f[i] : i \in Positions(m)})
    BY <1>2, ImageIsFinite
  <2> QED
    BY <2>1 DEF f
<1>5. \A i \in Positions(m) : m.subs[i] \in Tasks(h)
  BY <1>1 DEF Positions
<1> QED
  BY <1>3, <1>4, <1>5

(* The tasks below a task: itself and with a task the subtasks of its      *)
(* methods; the tasks below one of them are below it.                      *)
LEMMA TasksBelow ==
  ASSUME NEW h, IsProblem(h), NEW t
  PROVE  /\ t \in reachableTasks(h, t)
         /\ \A mi \in Methods(h) : h.methods[mi].task \in reachableTasks(h, t)
              => distinctSubtasks(h.methods[mi]) \subseteq reachableTasks(h, t)
         /\ \A u \in reachableTasks(h, t) : reachableTasks(h, u) \subseteq reachableTasks(h, t)
<1> DEFINE rules == decompositionRules(h)
           rule(mi) == [pre |-> {h.methods[mi].task}, add |-> distinctSubtasks(h.methods[mi])]
           C == closure(rules, {t})
<1>1. IsFiniteSet(rules)
  <2> DEFINE f == [mi \in Methods(h) |-> rule(mi)]
  <2>1. {f[mi] : mi \in Methods(h)} = rules
    BY DEF decompositionRules
  <2>2. IsFiniteSet(Methods(h))
    BY MethodsAreNumbered
  <2> HIDE DEF f
  <2>3. IsFiniteSet({f[mi] : mi \in Methods(h)})
    BY <2>2, ImageIsFinite
  <2> QED
    BY <2>1, <2>3
<1>2. \A u : reachableTasks(h, u) = closure(rules, {u})
  BY DEF reachableTasks
<1>3. {t} \subseteq C /\ ClosedUnderRules(rules, C)
  <2> HIDE DEF rules
  <2> QED
    BY <1>1, ClosureIsClosed
<1>4. ASSUME NEW mi \in Methods(h), h.methods[mi].task \in C
      PROVE  distinctSubtasks(h.methods[mi]) \subseteq C
  <2>1. rule(mi) \in rules
    BY DEF decompositionRules
  <2>2. rule(mi).pre \subseteq C
    BY <1>4
  <2>3. rule(mi).add \subseteq C
    <3> HIDE DEF rules, rule, C
    <3> QED
      BY <1>3, <2>1, <2>2 DEF ClosedUnderRules
  <2> QED
    BY <2>3
<1>5. ASSUME NEW u \in C PROVE closure(rules, {u}) \subseteq C
  <2>1. {u} \subseteq C
    BY <1>5
  <2> HIDE DEF rules, C
  <2> QED
    BY <1>1, <1>3, <2>1, ClosureIsLeast
<1>6. reachableTasks(h, t) = C /\ t \in C
  BY <1>2, <1>3
<1> HIDE DEF rules, C
<1>7. \A u \in C : reachableTasks(h, u) \subseteq C
  BY <1>2, <1>5
<1> QED
  BY <1>4, <1>6, <1>7

(* The premises and results of the rules of the relaxed composition.       *)
LEMMA RulesOfRC ==
  ASSUME NEW h, IsProblem(h)
  PROVE  /\ IsFiniteSet(rcActions(h))
         /\ \A a \in Actions(h) :
              /\ a \in rcActions(h)
              /\ ToSet(rcPrec(h, a)) = {fact(f) : f \in h.prec[a]} \cup {t2tdr(a)}
              /\ rcAdd(h, a) = {fact(f) : f \in h.add[a]} \cup {t2bur(a)}
         /\ \A mi \in Methods(h) :
              LET o == methodAction(h, mi)
              IN  /\ o \in rcActions(h) /\ ~ (o < h.numActions)
                  /\ ToSet(rcPrec(h, o)) = {t2bur(t) : t \in distinctSubtasks(h.methods[mi])}
                  /\ rcAdd(h, o) = {t2bur(h.methods[mi].task)}
<1> DEFINE M == Cardinality(Methods(h))
<1>1. M \in Nat /\ Methods(h) = 1 .. M /\ IsFiniteSet(Methods(h)) /\ h.numActions \in Nat
  BY MethodsAreNumbered
<1>2. rcActions(h) = 0 .. (h.numActions + M - 1)
  BY DEF rcActions
<1>3. IsFiniteSet(rcActions(h))
  BY <1>1, <1>2, FS_Interval
<1>4. ASSUME NEW a \in Actions(h)
      PROVE  /\ a \in rcActions(h)
             /\ ToSet(rcPrec(h, a)) = {fact(f) : f \in h.prec[a]} \cup {t2tdr(a)}
             /\ rcAdd(h, a) = {fact(f) : f \in h.add[a]} \cup {t2bur(a)}
  <2> DEFINE F == {fact(f) : f \in h.prec[a]}
  <2>1. a \in rcActions(h) /\ a < h.numActions
    BY <1>1, <1>2 DEF Actions
  <2>2. IsFiniteSet(F)
    <3> DEFINE g == [f \in h.prec[a] |-> fact(f)]
    <3>1. F = {g[f] : f \in h.prec[a]}
      OBVIOUS
    <3>2. IsFiniteSet(h.prec[a])
      BY DEF IsProblem
    <3> HIDE DEF g
    <3> QED
      BY <3>1, <3>2, ImageIsFinite
  <2>3. rcPrec(h, a) = SetToSeq(F) \o <<t2tdr(a)>>
    BY <2>1 DEF rcPrec
  <2> HIDE DEF F
  <2>4. ToSet(rcPrec(h, a)) = F \cup {t2tdr(a)}
    BY <2>2, <2>3, ListOfSet, OneMoreInList
  <2>5. rcAdd(h, a) = {fact(f) : f \in h.add[a]} \cup {t2bur(a)}
    BY <2>1 DEF rcAdd
  <2> QED
    BY <2>1, <2>4, <2>5 DEF F
<1>5. ASSUME NEW mi \in Methods(h)
      PROVE  LET o == methodAction(h, mi)
             IN  /\ o \in rcActions(h) /\ ~ (o < h.numActions)
                 /\ ToSet(rcPrec(h, o)) = {t2bur(t) : t \in distinctSubtasks(h.methods[mi])}
                 /\ rcAdd(h, o) = {t2bur(h.methods[mi].task)}
  <2> DEFINE F == {t2bur(t) : t \in distinctSubtasks(h.methods[mi])}
             o == methodAction(h, mi)
  <2>1. o \in rcActions(h) /\ ~ (o < h.numActions) /\ rcMethod(h, o) = h.methods[mi]
    <3>1. mi \in 1 .. M
      BY <1>1
    <3>2. o = h.numActions + mi - 1 /\ o - h.numActions + 1 = mi
      BY <1>1, <3>1 DEF methodAction
    <3> QED
      BY <1>1, <1>2, <3>1, <3>2 DEF rcMethod
  <2>2. IsFiniteSet(F)
    <3> DEFINE D == distinctSubtasks(h.methods[mi])
               g == [t \in D |-> t2bur(t)]
    <3>1. F = {g[t] : t \in D}
      OBVIOUS
    <3>2. IsFiniteSet(D)
      BY SubtasksFinite
    <3> HIDE DEF g, D
    <3> QED
      BY <3>1, <3>2, ImageIsFinite
  <2>3. rcPrec(h, o) = SetToSeq(F)
    BY <2>1 DEF rcPrec
  <2>4. rcAdd(h, o) = {t2bur(h.methods[mi].task)}
    BY <2>1 DEF rcAdd
  <2> HIDE DEF F, o
  <2>5. ToSet(rcPrec(h, o)) = F
    BY <2>2, <2>3, ListOfSet
  <2> QED
    BY <2>1, <2>4, <2>5 DEF F, o
<1> QED
  BY <1>3, <1>4, <1>5

(* What the rules for the actions in A and for all methods do.             *)
ClosedUnderRC(h, A, C) ==
  /\ \A a \in A :
       {fact(f) : f \in h.prec[a]} \cup {t2tdr(a)} \subseteq C
       => {fact(f) : f \in h.add[a]} \cup {t2bur(a)} \subseteq C
  /\ \A mi \in Methods(h) :
       {t2bur(t) : t \in distinctSubtasks(h.methods[mi])} \subseteq C
       => t2bur(h.methods[mi].task) \in C

LEMMA ClosedRC ==
  ASSUME NEW h, IsProblem(h), NEW X
  PROVE  /\ X \subseteq closure(rcRules(h), X)
         /\ ClosedUnderRC(h, Actions(h), closure(rcRules(h), X))
<1> DEFINE rules == rcRules(h)
           rule(o) == [pre |-> ToSet(rcPrec(h, o)), add |-> rcAdd(h, o)]
           C == closure(rules, X)
<1>1. IsFiniteSet(rules)
  <2> DEFINE f == [o \in rcActions(h) |-> rule(o)]
  <2>1. {f[o] : o \in rcActions(h)} = rules
    BY DEF rcRules
  <2>2. IsFiniteSet(rcActions(h))
    BY RulesOfRC
  <2> HIDE DEF f
  <2>3. IsFiniteSet({f[o] : o \in rcActions(h)})
    BY <2>2, ImageIsFinite
  <2> QED
    BY <2>1, <2>3
<1>2. \A o \in rcActions(h) : rule(o) \in rules
  BY DEF rcRules
<1> HIDE DEF rules
<1>3. X \subseteq C /\ ClosedUnderRules(rules, C)
  BY <1>1, ClosureIsClosed
<1> HIDE DEF C
<1>4. ASSUME NEW o \in rcActions(h), ToSet(rcPrec(h, o)) \subseteq C
      PROVE  rcAdd(h, o) \subseteq C
  <2>1. rule(o).pre = ToSet(rcPrec(h, o)) /\ rule(o).add = rcAdd(h, o)
    OBVIOUS
  <2> HIDE DEF rule
  <2> QED
    BY <1>2, <1>3, <1>4, <2>1 DEF ClosedUnderRules
<1>5. ASSUME NEW a \in Actions(h), {fact(f) : f \in h.prec[a]} \cup {t2tdr(a)} \subseteq C
      PROVE  {fact(f) : f \in h.add[a]} \cup {t2bur(a)} \subseteq C
  BY <1>4, <1>5, RulesOfRC
<1>6. ASSUME NEW mi \in Methods(h), {t2bur(t) : t \in distinctSubtasks(h.methods[mi])} \subseteq C
      PROVE  t2bur(h.methods[mi].task) \in C
  BY <1>4, <1>6, RulesOfRC
<1>7. ClosedUnderRC(h, Actions(h), C)
  BY <1>5, <1>6 DEF ClosedUnderRC
<1> QED
  BY <1>3, <1>7 DEF C, rules
-----------------------------------------------------------------------------
(* Every step follows an unconstrained one.                                *)
LEMMA EveryStepFollows ==
  ASSUME NEW h, NEW n, WellFormed(h, n), NEW s \in Steps(n)
  PROVE  \E u \in Unconstraint(n) : s \in Reachable(n.succ, {u})
<1> DEFINE R(u) == Reachable(n.succ, {u})
           X == {x \in Steps(n) : \A u \in Unconstraint(n) : x \notin R(u)}
<1>1. /\ n.succ \in [Steps(n) -> SUBSET Steps(n)] /\ DOMAIN n.succ = Steps(n)
      /\ Unconstraint(n) = FirstSteps(n)
  BY DEF WellFormed, NodeType, FirstSteps
<1>2. \A u \in Steps(n) : u \in R(u)
  BY <1>1, StartIsReachable
<1>3. ASSUME NEW u \in Steps(n), NEW y \in R(u) PROVE n.succ[y] \subseteq R(u)
  BY <1>1, SuccessorIsReachable
<1> HIDE DEF R
<1>4. ASSUME X # {} PROVE FALSE
  <2>1. X \in (SUBSET Steps(n)) \ {{}}
    BY <1>4
  <2>2. PICK x \in X : \A y \in X : x \notin n.succ[y]
    <3> HIDE DEF X
    <3> QED
      BY <2>1 DEF WellFormed, AcyclicNetwork
  <2>3. x \in Steps(n) /\ \A u \in Unconstraint(n) : x \notin R(u)
    OBVIOUS
  <2>4. x \notin FirstSteps(n)
    BY <1>1, <1>2, <2>3
  <2>5. PICK y \in Steps(n) : x \in n.succ[y]
    BY <2>3, <2>4 DEF FirstSteps
  <2>6. y \notin X
    BY <2>2, <2>5
  <2>7. PICK u \in Unconstraint(n) : y \in R(u)
    BY <2>6
  <2>8. u \in Steps(n)
    BY <1>1 DEF FirstSteps
  <2> QED
    BY <1>3, <2>3, <2>5, <2>7, <2>8
<1> QED
  BY <1>4 DEF R

(* The relaxed composition can apply what is below the steps of a node: C  *)
(* has its facts and the actions below its steps.                          *)
Covers(h, C, n) ==
  /\ {fact(f) : f \in n.state} \subseteq C
  /\ \A s \in Steps(n) : {t2tdr(a) : a \in reachable(h, n.task[s])} \subseteq C

(* It can compose the tasks of the node.                                   *)
Composes(C, n) == {t2bur(t) : t \in TasksOf(n)} \subseteq C

LEMMA StateCovers ==
  ASSUME NEW h, NEW n, WellFormed(h, n), NEW C, s0set(h, n) \subseteq C
  PROVE  Covers(h, C, n)
<1>1. {fact(f) : f \in n.state} \subseteq C
  BY DEF s0set
<1>2. ASSUME NEW s \in Steps(n), NEW a \in reachable(h, n.task[s])
      PROVE  t2tdr(a) \in C
  <2>1. PICK u \in Unconstraint(n) : s \in Reachable(n.succ, {u})
    BY EveryStepFollows
  <2>2. a \in reachableT(h, n, u)
    BY <1>2, <2>1 DEF reachableT
  <2> QED
    BY <2>1, <2>2 DEF s0set
<1> QED
  BY <1>1, <1>2 DEF Covers

LEMMA ApplyCovers ==
  ASSUME NEW h, IsProblem(h), NEW n, NodeType(h, n), NEW A, NEW C, ClosedUnderRC(h, A, C),
         Covers(h, C, n), NEW s \in applicableSteps(h, n), n.task[s] \in A, NEW k
  PROVE  /\ Covers(h, C, applyStep(h, n, s, k))
         /\ Composes(C, applyStep(h, n, s, k)) => Composes(C, n)
<1> DEFINE n2 == applyStep(h, n, s, k)
           a == n.task[s]
<1>1. /\ s \in Steps(n) /\ h.prec[a] \subseteq n.state /\ a \in Actions(h)
      /\ a \in Tasks(h)
  BY DEF applicableSteps, isApplicable, NodeType, isPrimitive, Actions, Tasks, IsProblem
<1>2. /\ Steps(n2) = Steps(n) \ {s} /\ n2.state = (n.state \ h.del[a]) \cup h.add[a]
      /\ \A x \in Steps(n2) : n2.task[x] = n.task[x]
  BY DEF applyStep, Steps, Restrict
<1> HIDE DEF n2
<1>3. a \in reachable(h, a)
  BY <1>1, TasksBelow DEF reachable
<1>4. t2tdr(a) \in C /\ {fact(f) : f \in h.prec[a]} \subseteq C
  BY <1>1, <1>3 DEF Covers
<1>5. {fact(f) : f \in h.add[a]} \subseteq C /\ t2bur(a) \in C
  BY <1>1, <1>4 DEF ClosedUnderRC
<1>6. {fact(f) : f \in n2.state} \subseteq C
  BY <1>2, <1>5 DEF Covers
<1>7. Covers(h, C, n2)
  BY <1>2, <1>6 DEF Covers
<1>8. ASSUME Composes(C, n2), NEW x \in Steps(n) PROVE t2bur(n.task[x]) \in C
  <2>1. CASE x = s
    BY <1>5, <2>1
  <2>2. CASE x # s
    BY <1>2, <1>8, <2>2 DEF Composes, TasksOf
  <2> QED
    BY <2>1, <2>2
<1>9. Composes(C, n2) => Composes(C, n)
  BY <1>8 DEF Composes, TasksOf
<1> QED
  BY <1>7, <1>9 DEF n2

LEMMA DecomposeCovers ==
  ASSUME NEW h, IsProblem(h), NEW n, NodeType(h, n), NEW A, NEW C, ClosedUnderRC(h, A, C),
         Covers(h, C, n), NEW d \in n.abs, NEW mi \in taskToMethods(h, n.task[d]),
         NEW k \in Nat, NamedBefore(n, k)
  PROVE  /\ Covers(h, C, decomposeStep(h, n, d, mi, k))
         /\ Composes(C, decomposeStep(h, n, d, mi, k)) => Composes(C, n)
<1> DEFINE n2 == decomposeStep(h, n, d, mi, k)
           m == h.methods[mi]
           new == newSteps(m, k)
<1>1. d \in Steps(n) /\ mi \in Methods(h) /\ m.task = n.task[d]
  BY DEF NodeType, taskToMethods
<1>2. /\ Steps(n2) = (Steps(n) \ {d}) \cup new /\ n2.state = n.state
      /\ \A x \in Steps(n2) : n2.task[x] = IF x \in new THEN m.subs[x[2]] ELSE n.task[x]
  BY DEF decomposeStep, Steps
<1>3. Steps(n) \cap new = {}
  BY DEF NamedBefore, newSteps
<1> HIDE DEF n2
<1>4. \A x \in new : x[2] \in Positions(m) /\ m.subs[x[2]] \in distinctSubtasks(m)
  BY DEF newSteps, distinctSubtasks
<1>5. \A i \in Positions(m) : <<k, i>> \in new /\ <<k, i>>[2] = i
  BY DEF newSteps
<1>6. ASSUME NEW t \in distinctSubtasks(m) PROVE reachable(h, t) \subseteq reachable(h, n.task[d])
  <2>1. m.task \in reachableTasks(h, n.task[d])
    BY <1>1, TasksBelow
  <2>2. t \in reachableTasks(h, n.task[d])
    BY <1>1, <2>1, TasksBelow
  <2> QED
    BY <2>2, TasksBelow DEF reachable
<1> HIDE DEF new, m
<1>7. ASSUME NEW x \in Steps(n2) PROVE {t2tdr(a) : a \in reachable(h, n2.task[x])} \subseteq C
  <2>1. CASE x \in new
    BY <1>1, <1>2, <1>4, <1>6, <2>1 DEF Covers
  <2>2. CASE x \notin new
    BY <1>2, <2>2 DEF Covers
  <2> QED
    BY <2>1, <2>2
<1>8. Covers(h, C, n2)
  BY <1>2, <1>7 DEF Covers
<1>9. ASSUME Composes(C, n2), NEW x \in Steps(n) PROVE t2bur(n.task[x]) \in C
  <2>1. CASE x = d
    <3>1. ASSUME NEW i \in Positions(m) PROVE t2bur(m.subs[i]) \in C
      <4>1. <<k, i>> \in Steps(n2) /\ n2.task[<<k, i>>] = m.subs[i]
        BY <1>2, <1>5
      <4> QED
        BY <1>9, <4>1 DEF Composes, TasksOf
    <3>2. {t2bur(t) : t \in distinctSubtasks(m)} \subseteq C
      BY <3>1 DEF distinctSubtasks
    <3> QED
      BY <1>1, <2>1, <3>2 DEF ClosedUnderRC, m
  <2>2. CASE x # d
    <3>1. x \in Steps(n2) /\ n2.task[x] = n.task[x]
      BY <1>2, <1>3, <2>2
    <3> QED
      BY <1>9, <3>1 DEF Composes, TasksOf
  <2> QED
    BY <2>1, <2>2
<1>10. Composes(C, n2) => Composes(C, n)
  BY <1>9 DEF Composes, TasksOf
<1> QED
  BY <1>8, <1>10 DEF n2

(* A goal node has nothing to compose, and the goal.                       *)
LEMMA GoalComposes ==
  ASSUME NEW h, NEW n, WellFormed(h, n), isGoal(h, n), NEW C, Covers(h, C, n)
  PROVE  Composes(C, n) /\ {fact(f) : f \in h.goal} \subseteq C
<1>1. TasksOf(n) = {}
  BY GoalIsEmpty DEF TasksOf
<1>2. h.goal \subseteq n.state
  BY DEF isGoal
<1> QED
  BY <1>1, <1>2 DEF Composes, Covers
-----------------------------------------------------------------------------
(***************************************************************************)
(* The way from node n to node x.  It executes action a e[a] times;        *)
(* forward it meets only facts and actions that the relaxed composition    *)
(* can have with these actions alone, backward the composition gets from   *)
(* the tasks of x to those of n.                                           *)
(***************************************************************************)
weighted(h, e) == [a \in Actions(h) |-> e[a] * h.cost[a]]
executed(h, e) == {a \in Actions(h) : e[a] > 0}

Executes(h, n, x, e) ==
  /\ e \in [Actions(h) -> Nat]
  /\ x.actionCosts = n.actionCosts + Total(weighted(h, e), Actions(h))
  /\ \A a \in Actions(h) :
       Cardinality(Occurrences(n, a)) <= e[a] + Cardinality(Occurrences(x, a))
  /\ \A C : s0set(h, n) \subseteq C /\ ClosedUnderRC(h, executed(h, e), C) =>
       Covers(h, C, x) /\ (Composes(C, x) => Composes(C, n))

(* Weights are numbers, and one more execution costs the action.           *)
LEMMA WeightFacts ==
  ASSUME NEW h, IsProblem(h), NEW e \in [Actions(h) -> Nat]
  PROVE  /\ IsFiniteSet(Actions(h))
         /\ \A a \in Actions(h) : h.cost[a] \in Nat /\ weighted(h, e)[a] \in Nat
         /\ Total(weighted(h, e), Actions(h)) \in Nat
<1>1. IsFiniteSet(Actions(h))
  BY FS_Interval DEF Actions, IsProblem
<1>2. ASSUME NEW a \in Actions(h) PROVE h.cost[a] \in Nat /\ weighted(h, e)[a] \in Nat
  <2>1. h.cost[a] \in Nat /\ e[a] \in Nat
    BY DEF IsProblem
  <2>2. \A p, q \in Nat : p * q \in Nat
    OBVIOUS
  <2> QED
    BY <2>1, <2>2 DEF weighted
<1>3. Total(weighted(h, e), Actions(h)) \in Nat
  BY <1>1, <1>2, TotalFacts
<1> QED
  BY <1>1, <1>2, <1>3

LEMMA NothingExecuted ==
  ASSUME NEW h, IsProblem(h), NEW n \in countedNodes(h)
  PROVE  \E e : Executes(h, n, n, e)
<1> DEFINE e == [a \in Actions(h) |-> 0]
<1>1. e \in [Actions(h) -> Nat]
  OBVIOUS
<1>2. Total(weighted(h, e), Actions(h)) = 0
  <2>1. \A a \in Actions(h) : weighted(h, e)[a] = 0
    <3>1. \A a \in Actions(h) : h.cost[a] \in Nat
      BY DEF IsProblem
    <3>2. \A q \in Nat : 0 * q = 0
      OBVIOUS
    <3> QED
      BY <3>1, <3>2 DEF weighted
  <2>2. IsFiniteSet(Actions(h))
    BY <1>1, WeightFacts
  <2> HIDE DEF e
  <2> QED
    BY <2>1, <2>2, TotalOfZeros
<1>3. n.actionCosts \in Nat /\ WellFormed(h, n) /\ IsFiniteSet(Steps(n))
  BY DEF countedNodes, WellFormed, NodeType, TaskCountsExact
<1>4. \A a : Cardinality(Occurrences(n, a)) \in Nat
  BY <1>3, OccurrencesFinite
<1>5. \A C : s0set(h, n) \subseteq C => Covers(h, C, n)
  BY <1>3, StateCovers
<1>6. n.actionCosts = n.actionCosts + Total(weighted(h, e), Actions(h))
  BY <1>2, <1>3
<1>7. \A a \in Actions(h) :
        Cardinality(Occurrences(n, a)) <= e[a] + Cardinality(Occurrences(n, a))
  BY <1>4
<1> HIDE DEF e
<1> QED
  BY <1>1, <1>5, <1>6, <1>7 DEF Executes

(* A way that an action makes longer.                                      *)
LEMMA ApplyExecutes ==
  ASSUME NEW h, IsProblem(h), NEW n, NEW x \in countedNodes(h), NEW e, Executes(h, n, x, e),
         n.actionCosts \in Nat, \A b : Cardinality(Occurrences(n, b)) \in Nat,
         NEW s \in applicableSteps(h, x), NEW k \in Nat
  PROVE  \E d : Executes(h, n, applyStep(h, x, s, k), d)
<1> DEFINE y == applyStep(h, x, s, k)
           a == x.task[s]
           d == [b \in Actions(h) |-> IF b = a THEN e[b] + 1 ELSE e[b]]
<1>1. /\ NodeType(h, x) /\ IsFiniteSet(Steps(x)) /\ s \in Steps(x) /\ a \in Actions(h)
      /\ e \in [Actions(h) -> Nat] /\ x.actionCosts \in Nat
  <2>1. NodeType(h, x) /\ IsFiniteSet(Steps(x))
    BY DEF countedNodes, WellFormed, TaskCountsExact
  <2>2. s \in x.prim
    BY DEF applicableSteps
  <2>3. s \in Steps(x) /\ isPrimitive(h, a) /\ x.task \in [Steps(x) -> Tasks(h)]
        /\ x.actionCosts \in Nat
    BY <2>1, <2>2 DEF NodeType
  <2>4. a \in Tasks(h)
    BY <2>3
  <2> HIDE DEF a
  <2>5. a \in Actions(h)
    BY <2>3, <2>4 DEF isPrimitive, Actions, Tasks, IsProblem
  <2>6. e \in [Actions(h) -> Nat]
    BY DEF Executes
  <2> QED
    BY <2>1, <2>3, <2>5, <2>6
<1>2. /\ Steps(y) = Steps(x) \ {s} /\ \A t \in Steps(y) : y.task[t] = x.task[t]
      /\ y.actionCosts = x.actionCosts + h.cost[a]
  BY DEF applyStep, Steps, Restrict
<1>3. d \in [Actions(h) -> Nat] /\ d[a] = e[a] + 1 /\ \A b \in Actions(h) \ {a} : d[b] = e[b]
  BY <1>1
<1>4. y.actionCosts = n.actionCosts + Total(weighted(h, d), Actions(h))
  <2> DEFINE v == weighted(h, e)
             w == weighted(h, d)
  <2>1. /\ IsFiniteSet(Actions(h)) /\ h.cost[a] \in Nat /\ Total(v, Actions(h)) \in Nat
        /\ \A b \in Actions(h) : v[b] \in Nat
        /\ w[a] \in Nat
    BY <1>1, <1>3, WeightFacts
  <2>2. \A b \in Actions(h) \ {a} : w[b] = v[b]
    BY <1>3 DEF weighted
  <2>3. w[a] = v[a] + h.cost[a]
    <3>1. \A p, q \in Nat : (p + 1) * q = p * q + q
      OBVIOUS
    <3>2. w[a] = (e[a] + 1) * h.cost[a] /\ v[a] = e[a] * h.cost[a] /\ e[a] \in Nat
      BY <1>1, <1>3 DEF weighted
    <3> QED
      BY <2>1, <3>1, <3>2
  <2> HIDE DEF v, w, d
  <2>4. Total(w, Actions(h)) = Total(v, Actions(h)) + (w[a] - v[a])
    BY <1>1, <2>1, <2>2, TotalFacts
  <2>5. x.actionCosts = n.actionCosts + Total(v, Actions(h))
    BY DEF Executes, v
  <2> QED
    BY <1>1, <1>2, <2>1, <2>3, <2>4, <2>5 DEF w
<1> HIDE DEF d, y
<1>5. ASSUME NEW b \in Actions(h)
      PROVE  Cardinality(Occurrences(n, b)) <= d[b] + Cardinality(Occurrences(y, b))
  <2>1. Cardinality(Occurrences(n, b)) <= e[b] + Cardinality(Occurrences(x, b))
    BY DEF Executes
  <2>2. IsFiniteSet(Occurrences(x, b)) /\ Cardinality(Occurrences(x, b)) \in Nat
    BY <1>1, OccurrencesFinite
  <2>3. CASE b = a
    <3>1. s \in Occurrences(x, b) /\ Occurrences(y, b) = Occurrences(x, b) \ {s}
      BY <1>1, <1>2, <2>3 DEF Occurrences
    <3>2. Cardinality(Occurrences(y, b)) = Cardinality(Occurrences(x, b)) - 1
      BY <2>2, <3>1, FS_RemoveElement
    <3> QED
      BY <1>1, <1>3, <2>1, <2>2, <2>3, <3>2
  <2>4. CASE b # a
    <3>1. Occurrences(y, b) = Occurrences(x, b)
      BY <1>1, <1>2, <2>4 DEF Occurrences
    <3> QED
      BY <1>3, <2>1, <2>4, <3>1
  <2> QED
    BY <2>3, <2>4
<1>6. executed(h, e) \subseteq executed(h, d) /\ a \in executed(h, d)
  BY <1>1, <1>3 DEF executed
<1>7. ASSUME NEW C, s0set(h, n) \subseteq C, ClosedUnderRC(h, executed(h, d), C)
      PROVE  Covers(h, C, y) /\ (Composes(C, y) => Composes(C, n))
  <2>1. ClosedUnderRC(h, executed(h, e), C)
    BY <1>6, <1>7 DEF ClosedUnderRC
  <2>2. Covers(h, C, x) /\ (Composes(C, x) => Composes(C, n))
    BY <1>7, <2>1 DEF Executes
  <2>3. Covers(h, C, y) /\ (Composes(C, y) => Composes(C, x))
    BY <1>1, <1>6, <1>7, <2>2, ApplyCovers DEF y
  <2> QED
    BY <2>2, <2>3
<1>8. Executes(h, n, y, d)
  BY <1>3, <1>4, <1>5, <1>7 DEF Executes
<1> QED
  BY <1>8 DEF y

(* And by a decomposition.                                                 *)
LEMMA DecomposeExecutes ==
  ASSUME NEW h, IsProblem(h), NEW n, NEW x \in countedNodes(h), NEW e, Executes(h, n, x, e),
         \A b : Cardinality(Occurrences(n, b)) \in Nat,
         NEW d \in x.abs, NEW mi \in taskToMethods(h, x.task[d]), NEW k \in Nat,
         NamedBefore(x, k), decomposeStep(h, x, d, mi, k) \in countedNodes(h)
  PROVE  Executes(h, n, decomposeStep(h, x, d, mi, k), e)
<1> DEFINE y == decomposeStep(h, x, d, mi, k)
           new == newSteps(h.methods[mi], k)
<1>1. /\ NodeType(h, x) /\ IsFiniteSet(Steps(x)) /\ IsFiniteSet(Steps(y))
      /\ d \in Steps(x) /\ ~ isPrimitive(h, x.task[d]) /\ e \in [Actions(h) -> Nat]
  BY DEF countedNodes, WellFormed, TaskCountsExact, NodeType, Executes
<1>2. /\ Steps(y) = (Steps(x) \ {d}) \cup new
      /\ \A t \in Steps(y) \ new : y.task[t] = x.task[t]
      /\ y.actionCosts = x.actionCosts
  BY DEF decomposeStep, Steps
<1>3. Steps(x) \cap new = {}
  BY DEF NamedBefore, newSteps
<1> HIDE DEF y, new
<1>4. ASSUME NEW b \in Actions(h)
      PROVE  Cardinality(Occurrences(n, b)) <= e[b] + Cardinality(Occurrences(y, b))
  <2>1. Cardinality(Occurrences(n, b)) <= e[b] + Cardinality(Occurrences(x, b))
    BY DEF Executes
  <2>2. Cardinality(Occurrences(x, b)) \in Nat
    BY <1>1, OccurrencesFinite
  <2>3. IsFiniteSet(Occurrences(y, b)) /\ Cardinality(Occurrences(y, b)) \in Nat
    BY <1>1, OccurrencesFinite
  <2>4. x.task[d] # b
    BY <1>1 DEF isPrimitive, Actions, IsProblem
  <2>5. Occurrences(x, b) \subseteq Occurrences(y, b)
    BY <1>2, <1>3, <2>4 DEF Occurrences
  <2>6. Cardinality(Occurrences(x, b)) <= Cardinality(Occurrences(y, b))
    BY <2>3, <2>5, FS_Subset
  <2> QED
    BY <1>1, <2>1, <2>2, <2>3, <2>6
<1>5. ASSUME NEW C, s0set(h, n) \subseteq C, ClosedUnderRC(h, executed(h, e), C)
      PROVE  Covers(h, C, y) /\ (Composes(C, y) => Composes(C, n))
  <2>1. Covers(h, C, x) /\ (Composes(C, x) => Composes(C, n))
    BY <1>5 DEF Executes
  <2>2. Covers(h, C, y) /\ (Composes(C, y) => Composes(C, x))
    BY <1>1, <1>5, <2>1, DecomposeCovers DEF y
  <2> QED
    BY <2>1, <2>2
<1>6. Executes(h, n, y, e)
  BY <1>1, <1>2, <1>4, <1>5 DEF Executes
<1> QED
  BY <1>6 DEF y

(* To every node that progression leads to there is such a way.            *)
LEMMA LeadsByExecution ==
  ASSUME NEW h, IsProblem(h), NEW n \in countedNodes(h), NEW o, leadsTo(h, n, o)
  PROVE  o \in countedNodes(h) /\ \E e : Executes(h, n, o, e)
<1> DEFINE X == {x \in countedNodes(h) : \E e : Executes(h, n, x, e)}
<1>1. n.actionCosts \in Nat /\ IsFiniteSet(Steps(n))
  BY DEF countedNodes, WellFormed, NodeType, TaskCountsExact
<1>2. \A b : Cardinality(Occurrences(n, b)) \in Nat
  BY <1>1, OccurrencesFinite
<1>3. n \in X
  BY NothingExecuted
<1>4. ASSUME NEW x \in X, NEW s \in applicableSteps(h, x), NEW k \in Nat
      PROVE  applyStep(h, x, s, k) \in X
  <2>1. PICK e : x \in countedNodes(h) /\ Executes(h, n, x, e)
    OBVIOUS
  <2>2. applyStep(h, x, s, k) \in countedNodes(h)
    BY <2>1, ApplyCounted DEF applicableSteps
  <2>3. \E d : Executes(h, n, applyStep(h, x, s, k), d)
    BY <1>1, <1>2, <2>1, ApplyExecutes
  <2> QED
    BY <2>2, <2>3
<1>5. ASSUME NEW x \in X, NEW d \in x.abs, NEW mi \in taskToMethods(h, x.task[d]), NEW k \in Nat,
             \A t \in Steps(x) : t[1] < k
      PROVE  decomposeStep(h, x, d, mi, k) \in X
  <2>1. PICK e : x \in countedNodes(h) /\ Executes(h, n, x, e)
    OBVIOUS
  <2>2. NamedBefore(x, k)
    BY <1>5 DEF NamedBefore
  <2>3. decomposeStep(h, x, d, mi, k) \in countedNodes(h)
    BY <2>1, <2>2, DecomposeCounted
  <2>4. Executes(h, n, decomposeStep(h, x, d, mi, k), e)
    BY <1>2, <2>1, <2>2, <2>3, DecomposeExecutes
  <2> QED
    BY <2>3, <2>4
<1>6. ASSUME NEW x \in X, NEW v \in Int PROVE [x EXCEPT !.fValue = v, !.pushed = TRUE] \in X
  <2> DEFINE p == withValue(x, v)
  <2>1. PICK e : x \in countedNodes(h) /\ Executes(h, n, x, e)
    OBVIOUS
  <2>2. /\ p.state = x.state /\ p.task = x.task /\ Steps(p) = Steps(x)
        /\ p.actionCosts = x.actionCosts /\ p \in countedNodes(h)
    BY <2>1, PushCounted
  <2> HIDE DEF p
  <2>3. \A C : /\ Covers(h, C, x) => Covers(h, C, p)
               /\ Composes(C, p) => Composes(C, x)
    BY <2>2 DEF Covers, Composes, TasksOf
  <2>4. \A b : Occurrences(p, b) = Occurrences(x, b)
    BY <2>2 DEF Occurrences
  <2>5. Executes(h, n, p, e)
    BY <2>1, <2>2, <2>3, <2>4 DEF Executes
  <2>6. p \in X
    BY <2>2, <2>5
  <2> QED
    BY <2>6 DEF p, withValue
<1>7. o \in X
  <2> HIDE DEF X
  <2>1. progressionClosed(h, X)
    BY <1>4, <1>5, <1>6 DEF progressionClosed
  <2> QED
    BY <1>3, <2>1 DEF leadsTo
<1> QED
  BY <1>7

(* A completion of a node executes each action at least as often as the    *)
(* network contains it, and in the relaxed composition its actions reach   *)
(* the goal.                                                               *)
LEMMA CompletionIsComposed ==
  ASSUME NEW h, IsProblem(h), NEW n, obtained(h, n), NEW o, leadsTo(h, n, o), isGoal(h, o)
  PROVE  \E e \in [Actions(h) -> Nat] :
           /\ o.actionCosts = n.actionCosts + Total(weighted(h, e), Actions(h))
           /\ \A t \in DOMAIN n.contained \cap Actions(h) : n.contained[t] <= e[t]
           /\ \A C : s0set(h, n) \subseteq C /\ ClosedUnderRC(h, executed(h, e), C) =>
                gset(h, n) \subseteq C
<1>1. n \in countedNodes(h)
  BY ObtainedIsCounted
<1>2. o \in countedNodes(h)
  BY <1>1, LeadsByExecution
<1>3. PICK e : Executes(h, n, o, e)
  BY <1>1, LeadsByExecution
<1>4. WellFormed(h, o) /\ Steps(o) = {}
  BY <1>2, GoalIsEmpty DEF countedNodes
<1>5. /\ DOMAIN n.contained = TasksOf(n) /\ IsFiniteSet(Steps(n))
      /\ \A t \in TasksOf(n) : n.contained[t] = Cardinality(Occurrences(n, t))
  BY <1>1 DEF countedNodes, TaskCountsExact
<1>6. ASSUME NEW t \in DOMAIN n.contained \cap Actions(h) PROVE n.contained[t] <= e[t]
  <2>1. Occurrences(o, t) = {}
    BY <1>4 DEF Occurrences
  <2>2. Cardinality(Occurrences(o, t)) = 0
    BY <2>1, FS_EmptySet
  <2>3. Cardinality(Occurrences(n, t)) <= e[t] + 0 /\ e[t] \in Nat
    BY <1>3, <2>2 DEF Executes
  <2> QED
    BY <1>5, <2>3
<1>7. ASSUME NEW C, s0set(h, n) \subseteq C, ClosedUnderRC(h, executed(h, e), C)
      PROVE  gset(h, n) \subseteq C
  <2>1. Covers(h, C, o) /\ (Composes(C, o) => Composes(C, n))
    BY <1>3, <1>7 DEF Executes
  <2>2. Composes(C, n) /\ {fact(f) : f \in h.goal} \subseteq C
    BY <1>4, <2>1, GoalComposes
  <2> QED
    BY <1>5, <2>2 DEF gset, Composes
<1> QED
  BY <1>3, <1>6, <1>7 DEF Executes

LEMMA FilterSoundness ==
  ASSUME NEW h, IsProblem(h), NEW n, obtained(h, n), NEW o, leadsTo(h, n, o), isGoal(h, o)
  PROVE  ~ filterUnreachable(h, n)
<1> DEFINE C == closure(rcRules(h), s0set(h, n))
<1>1. PICK e \in [Actions(h) -> Nat] :
        \A D : s0set(h, n) \subseteq D /\ ClosedUnderRC(h, executed(h, e), D) =>
                gset(h, n) \subseteq D
  BY CompletionIsComposed
<1>2. s0set(h, n) \subseteq C /\ ClosedUnderRC(h, Actions(h), C)
  BY ClosedRC
<1>3. ClosedUnderRC(h, executed(h, e), C)
  <2> HIDE DEF C
  <2> QED
    BY <1>2 DEF ClosedUnderRC, executed
<1> QED
  BY <1>1, <1>2, <1>3 DEF filterUnreachable
=============================================================================
