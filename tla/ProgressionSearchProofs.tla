----------------------- MODULE ProgressionSearchProofs -----------------------
(***************************************************************************)
(* Proofs about the progression search, for every set of problems and      *)
(* configurations, every CheckAfter, and whatever the visited list takes   *)
(* for the same search node.                                               *)
(***************************************************************************)
EXTENDS ProgressionSearch, ProgressionNetworkProofs

(* What is left of the for loop are modifications of the node in hand.     *)
WorkFits ==
  \A x \in todo :
    \/ x[2] = 0 /\ x[1] \in applicableSteps(htn, node[cur])
    \/ x[2] # 0 /\ x[1] \in node[cur].abs /\ x[2] \in taskToMethods(htn, node[cur].task[x[1]])

(* The inductive invariant.  The nodes satisfy NodeInv; the loop only      *)
(* progresses steps that are there and applicable; the node in hand and    *)
(* the one under construction are distinct and in no queue, so deleting    *)
(* one leaves the other; and a solution is a goal node.                    *)
IInv ==
  /\ TypeOK
  /\ htn \in Problems
  /\ \A i \in DOMAIN node : NodeInv(htn, node[i], made + 1)
  /\ pc \in {"expand", "settle"} => WorkFits /\ cur \notin fringe
  /\ pc = "settle" => /\ effectLess \subseteq applicableSteps(htn, node[child])
                      /\ child # cur
                      /\ child \notin fringe
  /\ tnSol # None => /\ tnSol \in 0 .. made
                     /\ tnSol \in DOMAIN node => isGoal(htn, node[tnSol])

-----------------------------------------------------------------------------
(* push changes nothing that NodeInv or isGoal look at, and computes an    *)
(* integer.                                                                *)
LEMMA PushedNode ==
  ASSUME conf \in Configs, NEW n, NEW k \in Nat, NodeInv(htn, n, k)
  PROVE  /\ NodeInv(htn, pushed(n, heuristicValue(n)), k)
         /\ NodeInv(htn, pushed(n, 0), k)
         /\ \A hval : isGoal(htn, pushed(n, hval)) <=> isGoal(htn, n)
<1>1. conf \in ConfigType
  BY SearchAssumption
<1>2. NodeType(htn, n)
  BY DEF NodeInv, WellFormed
<1>3. gValue(n) \in Int
  BY <1>1, <1>2 DEF gValue, ConfigType, gValues, NodeType
<1>4. heuristicValue(n) \in Int
  BY <1>1, <1>2 DEF heuristicValue, ConfigType, Heuristics, NodeType
<1>5. conf.weight \in Int
  BY <1>1 DEF ConfigType
<1>6. ASSUME NEW hval \in Int
      PROVE  NodeInv(htn, pushed(n, hval), k)
  <2> DEFINE p == pushed(n, hval)
  <2>1. hval * conf.weight + gValue(n) \in Int
    BY <1>3, <1>5
  <2>2. /\ p.task = n.task /\ p.succ = n.succ /\ p.prim = n.prim /\ p.abs = n.abs
        /\ p.state = n.state /\ p.solution = n.solution
        /\ p.actionCosts = n.actionCosts /\ p.modificationDepth = n.modificationDepth
        /\ p.mixedModificationDepth = n.mixedModificationDepth
    BY <1>2 DEF pushed, NodeType, NodeFields
  <2>3. p.fValue \in Int /\ p.pushed \in BOOLEAN /\ DOMAIN p = NodeFields
    BY <2>1, <1>2 DEF pushed, NodeType, NodeFields
  <2> HIDE DEF p
  <2>4. Steps(p) = Steps(n) /\ Unconstraint(p) = Unconstraint(n) /\ FirstSteps(p) = FirstSteps(n)
    BY <2>2 DEF Steps, Unconstraint, FirstSteps
  <2>5. NodeType(htn, p)
    BY <2>2, <2>3, <2>4, <1>2 DEF NodeType
  <2>6. WellFormed(htn, p)
    BY <2>2, <2>4, <2>5 DEF NodeInv, WellFormed, AcyclicNetwork
  <2>7. NamedBefore(p, k) /\ ChainExecutes(htn, p)
    BY <2>2, <2>4 DEF NodeInv, NamedBefore, ChainExecutes
  <2>8. NodeInv(htn, p, k)
    BY <2>6, <2>7 DEF NodeInv
  <2> QED
    BY <2>8 DEF p
<1>7. \A hval : isGoal(htn, pushed(n, hval)) <=> isGoal(htn, n)
  BY <1>2 DEF isGoal, pushed, NodeType, NodeFields
<1> QED
  BY <1>4, <1>6, <1>7

-----------------------------------------------------------------------------
(* The node a progression step allocates: it has a number no other node    *)
(* has, and the nodes that stay are the ones that were there.              *)
LEMMA AllocatedNode ==
  ASSUME IInv, NEW nodes, DOMAIN nodes \subseteq DOMAIN node,
         \A i \in DOMAIN nodes : nodes[i] = node[i],
         NEW n, NodeInv(htn, n, made + 2),
         node' = allocated(nodes, made + 1, n), made' = made + 1, htn' = htn
  PROVE  /\ DOMAIN node' = DOMAIN nodes \cup {made + 1}
         /\ node'[made + 1] = n
         /\ \A i \in DOMAIN nodes : i # made + 1 /\ node'[i] = node[i]
         /\ \A i \in DOMAIN node : i # made + 1 /\ i \in 0 .. made
         /\ \A i \in DOMAIN node' : NodeInv(htn, node'[i], made' + 1)
         /\ \A i \in DOMAIN node' : NodeType(htn, node'[i])
         /\ DOMAIN node' \subseteq 0 .. made'
<1>1. made \in Nat /\ DOMAIN node \subseteq 0 .. made
  BY DEF IInv, TypeOK
<1>2. /\ DOMAIN node' = DOMAIN nodes \cup {made + 1}
      /\ node'[made + 1] = n
      /\ \A i \in DOMAIN nodes : i # made + 1 /\ node'[i] = node[i]
  BY <1>1 DEF allocated
<1>3. ASSUME NEW i \in DOMAIN node'
      PROVE  NodeInv(htn, node'[i], made' + 1)
  <2>1. CASE i = made + 1
    <3>1. made' + 1 = made + 2
      BY <1>1
    <3> QED
      BY <2>1, <3>1, <1>2
  <2>2. CASE i \in DOMAIN nodes
    <3>1. NodeInv(htn, node[i], made + 1) /\ made + 1 \in Nat /\ made' + 1 = (made + 1) + 1
      BY <2>2, <1>1 DEF IInv
    <3> QED
      BY <3>1, <2>2, <1>2, OlderNode
  <2> QED
    BY <2>1, <2>2, <1>2
<1>4. \A i \in DOMAIN node' : NodeType(htn, node'[i])
  BY <1>3 DEF NodeInv, WellFormed
<1>5. \A i \in DOMAIN node : i # made + 1 /\ i \in 0 .. made
  BY <1>1
<1>6. DOMAIN node' \subseteq 0 .. made'
  BY <1>1, <1>2
<1> QED
  BY <1>2, <1>3, <1>4, <1>5, <1>6

(* The loop starts with the initial node in the fringe.                    *)
LEMMA InitInv == ASSUME Init PROVE IInv
<1>1. IsProblem(htn) /\ conf \in Configs /\ conf \in ConfigType
  BY SearchAssumption DEF Init
<1> DEFINE n == prepareTNi(htn)
           v == heuristicValue(n)
<1>2. NodeInv(htn, n, 1)
  BY <1>1, InitialNode
<1>3. DOMAIN node = {0} /\ node[0] = pushed(n, 0)
  BY DEF Init
<1>4. NodeInv(htn, node[0], 1)
  <2> HIDE DEF n
  <2> QED
    BY <1>1, <1>2, <1>3, PushedNode
<1>5. NodeType(htn, node[0])
  BY <1>4 DEF NodeInv, WellFormed
<1>6. made = 0 /\ 0 + 1 = 1
  BY DEF Init
<1>7. TypeOK
  BY <1>1, <1>3, <1>5 DEF Init, TypeOK
<1> QED
  BY <1>3, <1>4, <1>6, <1>7 DEF Init, IInv, None

(* A node is taken from the fringe.                                        *)
LEMMA PopKnownInv ==
  ASSUME IInv, NEW i \in fringe, PopKnown(i)
  PROVE  IInv'
<1>1. /\ DOMAIN node' = DOMAIN node \ {i}
      /\ \A j \in DOMAIN node' : node'[j] = node[j]
  BY DEF PopKnown, withoutNode, Restrict
<1>2. fringe' = fringe \ {i} /\ pc = "pop" /\ pc' = "pop"
  BY DEF PopKnown
<1>3. UNCHANGED <<htn, conf, made, lastCheck, timeLimit, status, continueSearch, tnSol>>
  BY DEF PopKnown
<1>4. TypeOK'
  BY <1>1, <1>2, <1>3 DEF IInv, TypeOK
<1> QED
  BY <1>1, <1>2, <1>3, <1>4 DEF IInv

(* A new node is taken from the fringe; it may be a solution, and what is  *)
(* left to do are its modifications.                                       *)
LEMMA PopNewInv ==
  ASSUME IInv, NEW i \in fringe, PopNew(i)
  PROVE  IInv'
<1> DEFINE found == ~ conf.suboptimal /\ isGoal(htn, node[i])
<1>1. UNCHANGED <<htn, conf, node, made, lastCheck, timeLimit, status>>
  BY DEF PopNew
<1>2. fringe' = fringe \ {i} /\ cur' = i /\ i \in DOMAIN node /\ i \in 0 .. made
  BY DEF PopNew, IInv, TypeOK
<1>3. /\ tnSol' = IF found THEN handleNewSolution(i) ELSE tnSol
      /\ continueSearch' = IF found THEN conf.optimzeSol ELSE continueSearch
      /\ pc' = "report" \/ (pc' = "expand" /\ todo' \in modifications(node[i]))
  BY DEF PopNew
<1>4. conf \in ConfigType
  BY SearchAssumption DEF IInv, TypeOK
<1>5. continueSearch' \in BOOLEAN
  BY <1>3, <1>4 DEF ConfigType, IInv, TypeOK
<1>6. TypeOK'
  BY <1>1, <1>2, <1>3, <1>5 DEF IInv, TypeOK
<1>7. tnSol' # None => /\ tnSol' \in 0 .. made
                       /\ tnSol' \in DOMAIN node => isGoal(htn, node[tnSol'])
  BY <1>2, <1>3 DEF IInv, handleNewSolution
<1>8. pc' = "expand" => WorkFits'
  <2> SUFFICES ASSUME pc' = "expand", NEW x \in todo'
               PROVE  \/ x[2] = 0 /\ x[1] \in applicableSteps(htn, node[i])
                      \/ /\ x[2] # 0 /\ x[1] \in node[i].abs
                         /\ x[2] \in taskToMethods(htn, node[i].task[x[1]])
    BY <1>1, <1>2 DEF WorkFits
  <2>1. todo' \in modifications(node[i])
    BY <1>3
  <2>2. CASE node[i].abs = {}
    BY <2>1, <2>2 DEF modifications
  <2>3. CASE node[i].abs # {}
    <3>1. PICK d \in node[i].abs : todo' = {d} \X taskToMethods(htn, node[i].task[d])
      BY <2>1, <2>3 DEF modifications
    <3>2. x[1] = d /\ x[2] \in taskToMethods(htn, node[i].task[d])
      BY <3>1
    <3>3. x[2] # 0
      <4>1. IsProblem(htn)
        BY SearchAssumption DEF IInv
      <4> QED
        BY <4>1, <3>2, MethodsAreNumbered DEF taskToMethods
    <3> QED
      BY <3>2, <3>3
  <2> QED
    BY <2>2, <2>3
<1>9. \A j \in DOMAIN node' : NodeInv(htn', node'[j], made' + 1)
  BY <1>1 DEF IInv
<1> QED
  BY <1>1, <1>2, <1>3, <1>6, <1>7, <1>8, <1>9 DEF IInv

(* The stacks of automatic progressions hold applicable steps only.        *)
LEMMA EffectLessApplicable ==
  ASSUME NEW h, NEW n, NEW k
  PROVE  /\ effectLessAfterApply(h, n) \subseteq applicableSteps(h, n)
         /\ effectLessAfterDecompose(h, n, k) \subseteq applicableSteps(h, n)
         /\ oneModification(h, n) \subseteq applicableSteps(h, n)
BY DEF effectLessAfterApply, effectLessAfterDecompose, oneModification, applicableSteps

(* A progression step of the node in hand.                                 *)
LEMMA ExpandInv ==
  ASSUME IInv, NEW n, NodeInv(htn, n, made + 2),
         pc = "expand", pc' = "settle",
         node' = allocated(node, made + 1, n), made' = made + 1, child' = made + 1,
         todo' \subseteq todo, effectLess' \subseteq applicableSteps(htn, n),
         UNCHANGED <<htn, conf, fringe, visited, cur, tnSol, continueSearch,
                     lastCheck, timeLimit, status>>
  PROVE  IInv'
<1>1. /\ DOMAIN node' = DOMAIN node \cup {made + 1}
      /\ node'[made + 1] = n
      /\ \A i \in DOMAIN node : i # made + 1 /\ node'[i] = node[i]
      /\ \A i \in DOMAIN node' : NodeInv(htn, node'[i], made' + 1)
      /\ \A i \in DOMAIN node' : NodeType(htn, node'[i])
      /\ DOMAIN node' \subseteq 0 .. made'
  BY AllocatedNode
<1>2. /\ made \in Nat /\ made' \in Nat
      /\ fringe \subseteq DOMAIN node /\ cur \in DOMAIN node /\ cur \notin fringe
  BY DEF IInv, TypeOK
<1>3. TypeOK'
  BY <1>1, <1>2 DEF IInv, TypeOK
<1>4. WorkFits'
  <2>1. node'[cur'] = node[cur] /\ WorkFits
    BY <1>1, <1>2 DEF IInv
  <2> QED
    BY <2>1 DEF WorkFits
<1>5. child' # cur' /\ child' \notin fringe' /\ cur' \notin fringe'
  BY <1>1, <1>2
<1>6. tnSol' # None => /\ tnSol' \in 0 .. made'
                       /\ tnSol' \in DOMAIN node' => isGoal(htn, node'[tnSol'])
  <2> SUFFICES ASSUME tnSol # None
               PROVE  /\ tnSol \in 0 .. made'
                      /\ tnSol \in DOMAIN node' => isGoal(htn, node'[tnSol])
    OBVIOUS
  <2>1. /\ tnSol \in 0 .. made /\ tnSol # made + 1 /\ tnSol \in 0 .. made'
        /\ tnSol \in DOMAIN node => isGoal(htn, node[tnSol])
    BY <1>2 DEF IInv
  <2> QED
    BY <2>1, <1>1
<1> QED
  BY <1>1, <1>3, <1>4, <1>5, <1>6 DEF IInv

(* Model::apply makes a node of the right kind.                            *)
LEMMA ApplyInv ==
  ASSUME IInv, NEW s, Apply(s)
  PROVE  IInv'
<1> DEFINE n == applyStep(htn, node[cur], s, made + 1)
<1>1. s \in applicableSteps(htn, node[cur]) /\ cur \in DOMAIN node
  BY DEF Apply, IInv, TypeOK, WorkFits
<1>2. IsProblem(htn) /\ made + 1 \in Nat /\ (made + 1) + 1 = made + 2
  BY SearchAssumption DEF IInv, TypeOK
<1>3. NodeInv(htn, n, made + 2)
  <2>1. NodeInv(htn, node[cur], made + 1)
    BY <1>1 DEF IInv
  <2> QED
    BY <2>1, <1>1, <1>2, AppliedNode
<1>4. node' = allocated(node, made + 1, n) /\ effectLess' = effectLessAfterApply(htn, n)
  BY DEF Apply
<1>5. effectLess' \subseteq applicableSteps(htn, n)
  BY <1>4, EffectLessApplicable
<1> HIDE DEF n
<1> QED
  BY <1>3, <1>4, <1>5, ExpandInv DEF Apply

(* So does Model::decompose.                                               *)
LEMMA DecomposeInv ==
  ASSUME IInv, NEW d, NEW m, Decompose(d, m)
  PROVE  IInv'
<1> DEFINE n == decomposeStep(htn, node[cur], d, m, made + 1)
<1>1. d \in node[cur].abs /\ m \in taskToMethods(htn, node[cur].task[d]) /\ cur \in DOMAIN node
  BY DEF Decompose, IInv, TypeOK, WorkFits
<1>2. IsProblem(htn) /\ made + 1 \in Nat /\ (made + 1) + 1 = made + 2
  BY SearchAssumption DEF IInv, TypeOK
<1>3. NodeInv(htn, n, made + 2)
  <2>1. NodeInv(htn, node[cur], made + 1)
    BY <1>1 DEF IInv
  <2> QED
    BY <2>1, <1>1, <1>2, DecomposedNode
<1>4. /\ node' = allocated(node, made + 1, n)
      /\ effectLess' = effectLessAfterDecompose(htn, n, made + 1)
  BY DEF Decompose
<1>5. effectLess' \subseteq applicableSteps(htn, n)
  BY <1>4, EffectLessApplicable
<1> HIDE DEF n
<1> QED
  BY <1>3, <1>4, <1>5, ExpandInv DEF Decompose

(* An automatic progression, which replaces the node under construction.   *)
LEMMA ReplaceInv ==
  ASSUME IInv, pc = "settle", NEW s \in applicableSteps(htn, node[child]), replaceChild(s)
  PROVE  IInv'
<1> DEFINE n == applyStep(htn, node[child], s, made + 1)
           rest == withoutNode(child)
<1>1. child \in DOMAIN node /\ cur \in DOMAIN node /\ child # cur
      /\ fringe \subseteq DOMAIN node /\ cur \notin fringe /\ child \notin fringe
  BY DEF IInv, TypeOK
<1>2. IsProblem(htn) /\ made \in Nat /\ made + 1 \in Nat /\ (made + 1) + 1 = made + 2
  BY SearchAssumption DEF IInv, TypeOK
<1>3. NodeInv(htn, n, made + 2)
  <2>1. NodeInv(htn, node[child], made + 1)
    BY <1>1 DEF IInv
  <2> QED
    BY <2>1, <1>2, AppliedNode
<1>4. /\ node' = allocated(rest, made + 1, n)
      /\ effectLess' = effectLessAfterApply(htn, n)
      /\ made' = made + 1 /\ child' = made + 1
      /\ UNCHANGED <<htn, conf, fringe, visited, pc, cur, todo, tnSol,
                     continueSearch, lastCheck, timeLimit, status>>
  BY DEF replaceChild
<1>5. effectLess' \subseteq applicableSteps(htn, n)
  BY <1>4, EffectLessApplicable
<1>6. /\ DOMAIN rest = DOMAIN node \ {child}
      /\ \A i \in DOMAIN rest : rest[i] = node[i]
  BY DEF withoutNode, Restrict
<1> HIDE DEF n, rest
<1>7. /\ DOMAIN node' = DOMAIN rest \cup {made + 1}
      /\ node'[made + 1] = n
      /\ \A i \in DOMAIN rest : i # made + 1 /\ node'[i] = node[i]
      /\ \A i \in DOMAIN node : i # made + 1 /\ i \in 0 .. made
      /\ \A i \in DOMAIN node' : NodeInv(htn, node'[i], made' + 1)
      /\ \A i \in DOMAIN node' : NodeType(htn, node'[i])
      /\ DOMAIN node' \subseteq 0 .. made'
  BY <1>3, <1>4, <1>6, AllocatedNode
<1>8. TypeOK'
  BY <1>1, <1>2, <1>4, <1>6, <1>7 DEF IInv, TypeOK
<1>9. WorkFits'
  <2>1. node'[cur'] = node[cur] /\ WorkFits /\ todo' = todo /\ htn' = htn
    BY <1>1, <1>4, <1>6, <1>7 DEF IInv
  <2> QED
    BY <2>1, <1>4 DEF WorkFits
<1>10. child' # cur' /\ child' \notin fringe' /\ cur' \notin fringe'
  BY <1>1, <1>4, <1>7
<1>11. tnSol # None => /\ tnSol \in 0 .. made'
                       /\ tnSol \in DOMAIN node' => isGoal(htn, node'[tnSol])
  <2>1. tnSol # None => /\ tnSol \in 0 .. made /\ tnSol # made + 1 /\ tnSol \in 0 .. made'
                        /\ tnSol \in DOMAIN node => isGoal(htn, node[tnSol])
    BY <1>2, <1>4 DEF IInv
  <2> QED
    BY <2>1, <1>6, <1>7
<1> QED
  BY <1>4, <1>5, <1>7, <1>8, <1>9, <1>10, <1>11 DEF IInv

(* The node under construction is dropped, and mostly deleted.             *)
LEMMA DropInv ==
  ASSUME IInv, DropDeadEnd \/ DropKnown \/ DropUnreachable
  PROVE  IInv'
<1>1. /\ DOMAIN node \ {child} \subseteq DOMAIN node' /\ DOMAIN node' \subseteq DOMAIN node
      /\ \A i \in DOMAIN node' : node'[i] = node[i]
  BY DEF DropDeadEnd, DropKnown, DropUnreachable, withoutNode, Restrict
<1>2. /\ pc = "settle" /\ pc' = "expand"
      /\ UNCHANGED <<htn, conf, fringe, cur, todo, tnSol, continueSearch, made, lastCheck,
                     timeLimit, status>>
  BY DEF DropDeadEnd, DropKnown, DropUnreachable, settled
<1>3. cur \in DOMAIN node' /\ fringe \subseteq DOMAIN node'
  BY <1>1, <1>2 DEF IInv, TypeOK
<1>4. TypeOK'
  BY <1>1, <1>2, <1>3 DEF IInv, TypeOK
<1>5. WorkFits'
  BY <1>1, <1>2, <1>3 DEF IInv, WorkFits
<1> QED
  BY <1>1, <1>2, <1>4, <1>5 DEF IInv

(* The node is kept, pushed, and possibly the new solution.                *)
LEMMA KeepInv ==
  ASSUME IInv, Keep
  PROVE  IInv'
<1> DEFINE n == node[child]
           p == pushed(n, heuristicValue(n))
<1>1. /\ child \in DOMAIN node /\ cur \in DOMAIN node /\ child # cur
      /\ fringe \subseteq DOMAIN node /\ cur \notin fringe
      /\ child \in 0 .. made
  BY DEF Keep, settled, IInv, TypeOK
<1>2. /\ pc' = "expand" /\ todo' \subseteq todo
      /\ UNCHANGED <<htn, conf, cur, made, lastCheck, timeLimit, status>>
  BY DEF Keep
<1>3. conf \in Configs /\ conf \in ConfigType /\ made + 1 \in Nat
  BY SearchAssumption DEF IInv, TypeOK
<1>4. /\ NodeInv(htn, n, made + 1) /\ NodeInv(htn, p, made + 1)
      /\ isGoal(htn, p) <=> isGoal(htn, n)
  <2>1. NodeInv(htn, n, made + 1)
    BY <1>1 DEF IInv
  <2> HIDE DEF n
  <2> QED
    BY <2>1, <1>3, PushedNode
<1>5. DOMAIN node' = DOMAIN node /\ fringe' \subseteq fringe \cup {child}
  BY DEF Keep
<1>6. /\ \A i \in DOMAIN node \ {child} : node'[i] = node[i]
      /\ node'[child] = n \/ node'[child] = p
  BY <1>1 DEF Keep
<1> HIDE DEF n, p
<1>7. \A i \in DOMAIN node' : NodeInv(htn, node'[i], made + 1)
  BY <1>4, <1>5, <1>6 DEF IInv
<1>8. \A i \in DOMAIN node' : isGoal(htn, node'[i]) <=> isGoal(htn, node[i])
  BY <1>4, <1>5, <1>6 DEF n
<1>9. \/ tnSol' = tnSol
      \/ /\ isGoal(htn, node[child])
         /\ tnSol' = handleNewSolution(child)
  BY DEF Keep
<1>10. tnSol' # None => /\ tnSol' \in 0 .. made
                        /\ tnSol' \in DOMAIN node' => isGoal(htn, node'[tnSol'])
  BY <1>1, <1>5, <1>8, <1>9 DEF IInv, handleNewSolution
<1>11. continueSearch' \in BOOLEAN
  BY <1>3 DEF Keep, IInv, TypeOK, ConfigType
<1>12. \A i \in DOMAIN node' : NodeType(htn, node'[i])
  BY <1>7 DEF NodeInv, WellFormed
<1>13. TypeOK'
  BY <1>1, <1>2, <1>5, <1>11, <1>12 DEF IInv, TypeOK
<1>14. WorkFits'
  <2>1. node'[cur] = node[cur] /\ WorkFits
    BY <1>1, <1>6 DEF Keep, settled, IInv
  <2> QED
    BY <2>1, <1>2 DEF WorkFits
<1> QED
  BY <1>1, <1>2, <1>5, <1>7, <1>10, <1>13, <1>14 DEF IInv

(* The node in hand may be deleted: it is in no queue.                     *)
LEMMA EndExpansionInv ==
  ASSUME IInv, EndExpansion
  PROVE  IInv'
<1>1. /\ DOMAIN node' = DOMAIN node \/ DOMAIN node' = DOMAIN node \ {cur}
      /\ \A i \in DOMAIN node' : node'[i] = node[i]
  BY DEF EndExpansion, withoutNode, Restrict
<1>2. /\ pc = "expand" /\ pc' \in {"pop", "report"}
      /\ UNCHANGED <<htn, conf, fringe, tnSol, continueSearch, made, status>>
  BY DEF EndExpansion
<1>3. made + 1 \in Nat /\ cur \notin fringe /\ fringe \subseteq DOMAIN node
  BY <1>2 DEF IInv, TypeOK
<1>4. lastCheck' \in Nat /\ timeLimit' \in BOOLEAN
  BY <1>3 DEF EndExpansion, generated, IInv, TypeOK
<1>5. TypeOK'
  BY <1>1, <1>2, <1>3, <1>4 DEF IInv, TypeOK
<1> QED
  BY <1>1, <1>2, <1>5 DEF IInv

(* Printing the status changes nothing else.                               *)
LEMMA ReportInv ==
  ASSUME IInv, Report
  PROVE  IInv'
<1>1. /\ pc' = "done" /\ status' \in {"none", "solved", "timeout", "unsolvable"}
      /\ UNCHANGED <<htn, conf, node, fringe, tnSol, continueSearch, made, lastCheck,
                     timeLimit>>
  BY DEF Report, statusLine
<1>2. TypeOK'
  BY <1>1 DEF IInv, TypeOK
<1> QED
  BY <1>1, <1>2 DEF IInv

(* Every step of the search preserves the invariant.                       *)
LEMMA Inductive == IInv /\ [Next]_vars => IInv'
<1> SUFFICES ASSUME IInv, [Next]_vars
             PROVE  IInv'
  OBVIOUS
<1>1. ASSUME NEW i \in fringe, PopKnown(i) PROVE IInv'
  BY <1>1, PopKnownInv
<1>2. ASSUME NEW i \in fringe, PopNew(i) PROVE IInv'
  BY <1>2, PopNewInv
<1>3. ASSUME NEW x \in todo, Apply(x[1]) PROVE IInv'
  BY <1>3, ApplyInv
<1>4. ASSUME NEW x \in todo, Decompose(x[1], x[2]) PROVE IInv'
  BY <1>4, DecomposeInv
<1>5. ASSUME NEW s \in effectLess, ProgressEffectLess(s) PROVE IInv'
  <2>1. pc = "settle" /\ s \in applicableSteps(htn, node[child]) /\ replaceChild(s)
    BY <1>5 DEF ProgressEffectLess, IInv
  <2> QED
    BY <2>1, ReplaceInv
<1>6. ASSUME NEW s \in node[child].prim, ProgressOneModAction(s) PROVE IInv'
  <2>1. pc = "settle" /\ s \in oneModification(htn, node[child]) /\ replaceChild(s)
    BY <1>6 DEF ProgressOneModAction
  <2>2. s \in applicableSteps(htn, node[child])
    BY <2>1, EffectLessApplicable
  <2> QED
    BY <2>1, <2>2, ReplaceInv
<1>7. CASE DropDeadEnd \/ DropKnown \/ DropUnreachable
  BY <1>7, DropInv
<1>8. CASE Keep
  BY <1>8, KeepInv
<1>9. CASE EndExpansion
  BY <1>9, EndExpansionInv
<1>10. CASE Report
  BY <1>10, ReportInv
<1>11. CASE UNCHANGED vars
  BY <1>11 DEF vars, IInv, TypeOK, WorkFits
<1> QED
  BY <1>1, <1>2, <1>3, <1>4, <1>5, <1>6, <1>7, <1>8, <1>9, <1>10, <1>11
     DEF Next, Terminating

-----------------------------------------------------------------------------
(* The invariant holds throughout every search.                            *)
THEOREM Invariance == Spec => []IInv
<1>1. Init => IInv
  BY InitInv
<1> QED
  BY <1>1, Inductive, PTL DEF Spec

(* The search only uses nodes that are allocated, and every one of them    *)
(* keeps its shape: steps with tasks of the problem, successors that are   *)
(* steps of the same network, first tasks in the right one of two arrays.  *)
THEOREM TypeCorrect == Spec => []TypeOK
<1>1. IInv => TypeOK
  BY DEF IInv
<1> QED
  BY <1>1, Invariance, PTL

(* The unconstraint arrays are exactly the steps without a predecessor, in *)
(* every node of every search: the incremental rule of Model::apply, and   *)
(* the successors Model::decompose hands on to the last tasks of a method, *)
(* lose no ordering and hold no step back.                                 *)
THEOREM FirstTasksAreExact == Spec => []FirstTasksExact
<1>1. IInv => FirstTasksExact
  BY DEF IInv, NodeInv, WellFormed, FirstTasksExact
<1> QED
  BY <1>1, Invariance, PTL

(* Soundness: the chain of the solution executes from the initial state,   *)
(* each action where it is applicable, reaches the goal and leaves no task *)
(* open, for every problem and configuration, in whatever order the fringe *)
(* returns nodes, and whatever the visited list prunes.                    *)
THEOREM SolutionIsExecutable == Spec => []SolutionExecutes
<1>1. IInv => SolutionExecutes
  BY DEF IInv, NodeInv, SolutionExecutes
<1> QED
  BY <1>1, Invariance, PTL

(* A solution is only replaced by a strictly cheaper one and is never      *)
(* forgotten, with the early and with the late goal test.                  *)
THEOREM SolutionsImprove == Spec => SolutionOnlyImproves
<1> DEFINE Improves == tnSol # None /\ tnSol' # tnSol =>
              tnSol' # None /\ node'[tnSol'].actionCosts < node[tnSol].actionCosts
<1>1. ASSUME IInv, [Next]_vars PROVE Improves
  <2>1. CASE UNCHANGED tnSol
    BY <2>1
  <2>2. ASSUME NEW i \in fringe, PopNew(i) PROVE Improves
    <3>1. i # None
      BY <1>1 DEF IInv, TypeOK, None
    <3>2. node' = node /\ (tnSol' = tnSol \/ tnSol' = handleNewSolution(i))
      BY <2>2 DEF PopNew
    <3> QED
      BY <3>1, <3>2 DEF handleNewSolution
  <2>3. CASE Keep
    <3>1. child \in DOMAIN node /\ child # None /\ tnSol' \in {tnSol, handleNewSolution(child)}
      BY <1>1, <2>3 DEF Keep, settled, IInv, TypeOK, None
    <3>2. node'[child].actionCosts = node[child].actionCosts
      <4>1. node'[child] \in {node[child], pushed(node[child], heuristicValue(node[child]))}
        BY <2>3, <3>1 DEF Keep
      <4>2. NodeType(htn, node[child])
        BY <1>1, <3>1 DEF IInv, TypeOK
      <4> QED
        BY <4>1, <4>2 DEF pushed, NodeType, NodeFields
    <3> QED
      BY <3>1, <3>2 DEF handleNewSolution
  <2>4. (\E i \in fringe : PopNew(i)) \/ Keep \/ UNCHANGED tnSol
    BY <1>1 DEF Next, vars, PopKnown, Apply, Decompose, ProgressEffectLess, ProgressOneModAction,
                replaceChild, DropDeadEnd, DropKnown, DropUnreachable, EndExpansion, Report,
                Terminating
  <2> QED
    BY <2>1, <2>2, <2>3, <2>4
<1>2. IInv /\ [Next]_vars => [Improves]_vars
  BY <1>1
<1> QED
  BY <1>2, Invariance, PTL DEF Spec, SolutionOnlyImproves

-----------------------------------------------------------------------------
(***************************************************************************)
(* The task counters, and nothing left to progress.                        *)
(***************************************************************************)
(* Where a step of the search takes the nodes it leaves from: a node stays *)
(* as it was, or is pushed, or is new and made of an allocated node by one *)
(* progression step.                                                       *)
Kept(i) == i \in DOMAIN node /\ node'[i] = node[i]

PushedNow(i) ==
  i \in DOMAIN node /\ i = child /\ settled /\ node'[i] = pushed(node[i], heuristicValue(node[i]))

AppliedNow(i) ==
  /\ made' = made + 1
  /\ \E j \in DOMAIN node : \E s \in applicableSteps(htn, node[j]) :
       node'[i] = applyStep(htn, node[j], s, made + 1)

DecomposedNow(i) ==
  /\ made' = made + 1
  /\ \E j \in DOMAIN node : \E d \in node[j].abs :
       \E m \in taskToMethods(htn, node[j].task[d]) :
         node'[i] = decomposeStep(htn, node[j], d, m, made + 1)

LEMMA NodesOfAStep ==
  ASSUME IInv, [Next]_vars
  PROVE  \A i \in DOMAIN node' : Kept(i) \/ PushedNow(i) \/ AppliedNow(i) \/ DecomposedNow(i)
<1> DEFINE Goal == \A i \in DOMAIN node' :
                     Kept(i) \/ PushedNow(i) \/ AppliedNow(i) \/ DecomposedNow(i)
<1>1. ASSUME NEW i \in fringe, PopKnown(i) PROVE Goal
  BY <1>1 DEF PopKnown, Kept, withoutNode, Restrict
<1>2. ASSUME NEW i \in fringe, PopNew(i) PROVE Goal
  BY <1>2 DEF PopNew, Kept
<1>3. ASSUME NEW x \in todo, Apply(x[1]) PROVE Goal
  <2>1. x[1] \in applicableSteps(htn, node[cur]) /\ cur \in DOMAIN node
    BY <1>3 DEF Apply, IInv, TypeOK, WorkFits
  <2>2. /\ node' = allocated(node, made + 1, applyStep(htn, node[cur], x[1], made + 1))
        /\ made' = made + 1
    BY <1>3 DEF Apply
  <2>3. \A i \in DOMAIN node' : Kept(i) \/ node'[i] = applyStep(htn, node[cur], x[1], made + 1)
    BY <2>2 DEF allocated, Kept
  <2> QED
    BY <2>1, <2>2, <2>3 DEF AppliedNow
<1>4. ASSUME NEW x \in todo, Decompose(x[1], x[2]) PROVE Goal
  <2>1. /\ x[1] \in node[cur].abs /\ x[2] \in taskToMethods(htn, node[cur].task[x[1]])
        /\ cur \in DOMAIN node
    BY <1>4 DEF Decompose, IInv, TypeOK, WorkFits
  <2>2. /\ node' = allocated(node, made + 1, decomposeStep(htn, node[cur], x[1], x[2], made + 1))
        /\ made' = made + 1
    BY <1>4 DEF Decompose
  <2>3. \A i \in DOMAIN node' :
          Kept(i) \/ node'[i] = decomposeStep(htn, node[cur], x[1], x[2], made + 1)
    BY <2>2 DEF allocated, Kept
  <2> QED
    BY <2>1, <2>2, <2>3 DEF DecomposedNow
<1>5. ASSUME NEW s \in applicableSteps(htn, node[child]), pc = "settle", replaceChild(s) PROVE Goal
  <2>1. /\ node' = allocated(withoutNode(child), made + 1,
                             applyStep(htn, node[child], s, made + 1))
        /\ made' = made + 1
    BY <1>5 DEF replaceChild
  <2>2. \A i \in DOMAIN node' : Kept(i) \/ node'[i] = applyStep(htn, node[child], s, made + 1)
    BY <2>1 DEF allocated, Kept, withoutNode, Restrict
  <2>3. child \in DOMAIN node
    BY <1>5 DEF IInv, TypeOK
  <2> QED
    BY <1>5, <2>1, <2>2, <2>3 DEF AppliedNow
<1>6. ASSUME NEW s \in effectLess, ProgressEffectLess(s) PROVE Goal
  <2>1. pc = "settle" /\ s \in applicableSteps(htn, node[child]) /\ replaceChild(s)
    BY <1>6 DEF ProgressEffectLess, IInv
  <2> QED
    BY <2>1, <1>5
<1>7. ASSUME NEW s \in node[child].prim, ProgressOneModAction(s) PROVE Goal
  <2>1. pc = "settle" /\ s \in applicableSteps(htn, node[child]) /\ replaceChild(s)
    BY <1>7, EffectLessApplicable DEF ProgressOneModAction
  <2> QED
    BY <2>1, <1>5
<1>8. CASE DropDeadEnd \/ DropKnown \/ DropUnreachable
  BY <1>8 DEF DropDeadEnd, DropKnown, DropUnreachable, Kept, withoutNode, Restrict
<1>9. CASE Keep
  <2>1. \/ node' = node
        \/ node' = [node EXCEPT ![child] = pushed(@, heuristicValue(@))]
    BY <1>9 DEF Keep
  <2>2. settled
    BY <1>9 DEF Keep
  <2> QED
    BY <2>1, <2>2 DEF Kept, PushedNow
<1>10. CASE EndExpansion
  BY <1>10 DEF EndExpansion, Kept, withoutNode, Restrict
<1>11. CASE Report \/ UNCHANGED vars
  BY <1>11 DEF Report, vars, Kept
<1> QED
  BY <1>1, <1>2, <1>3, <1>4, <1>6, <1>7, <1>8, <1>9, <1>10, <1>11 DEF Next, Terminating

(* The problem and the configuration stay.                                 *)
LEMMA ProblemStays ==
  ASSUME [Next]_vars
  PROVE  UNCHANGED <<htn, conf>>
BY DEF Next, vars, PopKnown, PopNew, Apply, Decompose, ProgressEffectLess,
       ProgressOneModAction, replaceChild, DropDeadEnd, DropKnown, DropUnreachable, Keep,
       EndExpansion, Report, Terminating

(* push changes only what the fringe looks at.                             *)
SameNetwork(p, n) ==
  /\ p.task = n.task /\ p.succ = n.succ /\ p.prim = n.prim /\ p.abs = n.abs
  /\ p.state = n.state /\ p.contained = n.contained
  /\ p.numContained = n.numContained /\ p.solution = n.solution

LEMMA PushedFields ==
  ASSUME NEW n, DOMAIN n = NodeFields, NEW hval
  PROVE  SameNetwork(pushed(n, hval), n) /\ pushed(n, hval).pushed = TRUE
BY DEF SameNetwork, pushed, NodeFields

(* In every allocated node the counters count the tasks of the network.    *)
CountsInv == \A i \in DOMAIN node : TaskCountsExact(node[i])

LEMMA InitialCountsInv == ASSUME Init PROVE CountsInv
<1> DEFINE n == prepareTNi(htn)
           p == pushed(n, 0)
<1>1. node = [i \in {0} |-> p]
  BY DEF Init
<1>2. TaskCountsExact(n)
  BY InitialCounts
<1>3. IsProblem(htn)
  BY SearchAssumption DEF Init
<1>4. NodeType(htn, n)
  BY <1>3, InitialNode DEF NodeInv, WellFormed
<1>5. p.task = n.task /\ p.contained = n.contained /\ p.numContained = n.numContained
  <2> HIDE DEF n
  <2> QED
    BY <1>4 DEF pushed, NodeType, NodeFields
<1> HIDE DEF n, p
<1>6. TaskCountsExact(p)
  BY <1>2, <1>5 DEF TaskCountsExact, TasksOf, Occurrences, Steps
<1> QED
  BY <1>1, <1>6 DEF CountsInv

LEMMA CountsInductive ==
  ASSUME IInv, CountsInv, [Next]_vars
  PROVE  CountsInv'
<1> SUFFICES ASSUME NEW i \in DOMAIN node'
             PROVE  TaskCountsExact(node'[i])
  BY DEF CountsInv
<1>1. IsProblem(htn) /\ made + 1 \in Nat
  BY SearchAssumption DEF IInv, TypeOK
<1>2. \A j \in DOMAIN node : NodeInv(htn, node[j], made + 1) /\ NodeType(htn, node[j])
  BY DEF IInv, TypeOK
<1>3. CASE Kept(i)
  BY <1>3 DEF Kept, CountsInv
<1>4. CASE PushedNow(i)
  <2> DEFINE n == node[i]
             p == pushed(n, heuristicValue(n))
  <2>1. node'[i] = p /\ TaskCountsExact(n) /\ NodeType(htn, n)
    BY <1>2, <1>4 DEF PushedNow, CountsInv
  <2>2. p.task = n.task /\ p.contained = n.contained /\ p.numContained = n.numContained
    <3> HIDE DEF n
    <3>1. SameNetwork(p, n)
      BY <2>1, PushedFields DEF NodeType
    <3> QED
      BY <3>1 DEF SameNetwork
  <2> HIDE DEF n, p
  <2>3. /\ Steps(p) = Steps(n) /\ TasksOf(p) = TasksOf(n)
        /\ \A t : Occurrences(p, t) = Occurrences(n, t)
    BY <2>2 DEF TasksOf, Occurrences, Steps
  <2>4. TaskCountsExact(p)
    BY <2>1, <2>2, <2>3 DEF TaskCountsExact
  <2> QED
    BY <2>1, <2>4
<1>5. CASE AppliedNow(i)
  <2>1. PICK j \in DOMAIN node :
          \E s \in applicableSteps(htn, node[j]) :
            node'[i] = applyStep(htn, node[j], s, made + 1)
    BY <1>5 DEF AppliedNow
  <2>2. PICK s \in applicableSteps(htn, node[j]) :
          node'[i] = applyStep(htn, node[j], s, made + 1)
    BY <2>1
  <2>3. s \in Steps(node[j]) /\ TaskCountsExact(node[j])
    BY <1>2 DEF applicableSteps, NodeType, CountsInv
  <2> QED
    BY <2>2, <2>3, ApplyCounts
<1>6. CASE DecomposedNow(i)
  <2>1. PICK j \in DOMAIN node :
          \E d \in node[j].abs : \E m \in taskToMethods(htn, node[j].task[d]) :
            node'[i] = decomposeStep(htn, node[j], d, m, made + 1)
    BY <1>6 DEF DecomposedNow
  <2>2. PICK d \in node[j].abs :
          \E m \in taskToMethods(htn, node[j].task[d]) :
            node'[i] = decomposeStep(htn, node[j], d, m, made + 1)
    BY <2>1
  <2>3. PICK m \in taskToMethods(htn, node[j].task[d]) :
          node'[i] = decomposeStep(htn, node[j], d, m, made + 1)
    BY <2>2
  <2>4. /\ d \in Steps(node[j]) /\ TaskCountsExact(node[j])
        /\ node[j].task \in [Steps(node[j]) -> Tasks(htn)]
        /\ NamedBefore(node[j], made + 1)
    BY <1>2 DEF NodeType, NodeInv, CountsInv
  <2> QED
    BY <1>1, <2>3, <2>4, DecomposeCounts
<1> QED
  BY <1>3, <1>4, <1>5, <1>6, NodesOfAStep

(* The task counters that two merge routines update from node to node      *)
(* count the tasks of every allocated node's network, and the array size   *)
(* that is computed before the merge is the size of the merged array       *)
(* (Model.cpp:381), for every problem and every way the search can go.     *)
THEOREM CountersAreExact == Spec => []CountersExact
<1>1. Init => CountsInv
  BY InitialCountsInv
<1>2. IInv /\ CountsInv /\ [Next]_vars => CountsInv'
  BY CountsInductive
<1>3. CountsInv => CountersExact
  <2> SUFFICES ASSUME CountsInv, NEW i \in DOMAIN node
               PROVE  LET n == node[i]
                      IN  /\ DOMAIN n.contained = {n.task[s] : s \in Steps(n)}
                          /\ \A t \in DOMAIN n.contained :
                               n.contained[t] = Cardinality({s \in Steps(n) : n.task[s] = t})
                          /\ n.numContained = Cardinality(DOMAIN n.contained)
    BY DEF CountersExact
  <2>1. TaskCountsExact(node[i])
    BY DEF CountsInv
  <2> QED
    BY <2>1 DEF TaskCountsExact, TasksOf, Occurrences
<1> QED
  BY <1>1, <1>2, <1>3, Invariance, PTL DEF Spec

-----------------------------------------------------------------------------
(***************************************************************************)
(* No use after delete.                                                    *)
(***************************************************************************)
(* The nodes no later step deletes: not in the fringe where taking a node  *)
(* from the fringe may end in its deletion, not under construction, and    *)
(* not in hand where the node in hand is deleted.                          *)
Permanent ==
  {i \in DOMAIN node :
     /\ ~ conf.suboptimal \/ canDeleteProcessedNodes => i \notin fringe
     /\ pc = "settle" => i # child
     /\ pc \in {"expand", "settle"} /\ canDeleteProcessedNodes => i # cur}

(* The solution and the nodes the visited list compares with are such.     *)
KInv ==
  /\ tnSol # None => tnSol \in Permanent \/ (conf.optimzeSol /\ canDeleteProcessedNodes)
  /\ ~ costMode => \A k \in DOMAIN visited : visited[k] \in Seq(Permanent)
  /\ conf.noVisitedCheck => DOMAIN visited = {}

(* The modes of the visited list depend on the problem and the options.    *)
LEMMA ModesStay ==
  ASSUME UNCHANGED <<htn, conf>>
  PROVE  canDeleteProcessedNodes' = canDeleteProcessedNodes /\ costMode' = costMode
BY DEF canDeleteProcessedNodes, costMode, useTotalOrderMode, useSequencesMode

(* Where networks are compared, processed nodes are kept.                  *)
LEMMA ComparedNodesStay ==
  ASSUME ~ costMode, ~ conf.noVisitedCheck
  PROVE  ~ canDeleteProcessedNodes
BY DEF canDeleteProcessedNodes, costMode

(* Taking an entry out of a list leaves a list.                            *)
LEMMA KeptList ==
  ASSUME NEW S, NEW list \in Seq(S), NEW D, D \subseteq DOMAIN list, NEW l \in kept(list, D)
  PROVE  l \in Seq(S)
<1>1. CASE D = {}
  BY <1>1 DEF kept
<1>2. CASE D # {}
  <2>1. PICK x \in D : l = without(list, x)
    BY <1>2 DEF kept
  <2>2. x \in 1 .. Len(list) /\ Len(list) \in Nat
    BY <2>1
  <2>3. SubSeq(list, 1, x - 1) \in Seq(S) /\ SubSeq(list, x + 1, Len(list)) \in Seq(S)
    BY <2>2
  <2> QED
    BY <2>1, <2>3 DEF without
<1> QED
  BY <1>1, <1>2

(* Where networks are compared, insertVisi adds at most the new node to    *)
(* the lists, and none that it takes for known.                            *)
LEMMA InsertedNodes ==
  ASSUME NEW S, NEW i, ~ costMode, ~ conf.noVisitedCheck,
         \A k \in DOMAIN visited : visited[k] \in Seq(S),
         NEW r \in insertVisi(i), r.isNew => i \in S
  PROVE  \A k \in DOMAIN r.list : r.list[k] \in Seq(S)
<1>1. PICK key : r \in insertNode(i, key)
  BY DEF insertVisi
<1> DEFINE list == nodesWith(key)
           matches == {j \in DOMAIN list : Matching(node[i], node[list[j]])}
<1>2. list \in Seq(S)
  BY DEF nodesWith
<1>3. ASSUME NEW q \in Seq(S), r.list = stored(key, q)
      PROVE  \A k \in DOMAIN r.list : r.list[k] \in Seq(S)
  BY <1>3 DEF stored
<1>4. PICK f \in fRead(node[i]), D \in SUBSET matches :
        r \in IF matches = D
              THEN {[isNew |-> TRUE, list |-> stored(key, Append(l, i))] : l \in kept(list, D)}
              ELSE {[isNew |-> FALSE, list |-> stored(key, list)]}
  BY <1>1 DEF insertNode
<1>5. CASE matches = D
  <2>1. PICK l \in kept(list, D) : r = [isNew |-> TRUE, list |-> stored(key, Append(l, i))]
    BY <1>4, <1>5
  <2>2. l \in Seq(S)
    <3>1. D \subseteq DOMAIN list
      OBVIOUS
    <3>2. l \in kept(list, D)
      OBVIOUS
    <3> HIDE DEF list
    <3> QED
      BY <1>2, <3>1, <3>2, KeptList
  <2>3. Append(l, i) \in Seq(S) /\ r.list = stored(key, Append(l, i))
    BY <2>1, <2>2
  <2> QED
    BY <2>3, <1>3
<1>6. CASE matches # D
  BY <1>2, <1>3, <1>4, <1>6
<1> QED
  BY <1>5, <1>6

(* The node in the call of insertVisi aside, a step keeps what is          *)
(* permanent.                                                              *)
LEMMA PermanentStays ==
  ASSUME IInv, [Next]_vars
  PROVE  Permanent \subseteq Permanent'
<1>1. /\ UNCHANGED <<htn, conf>>
      /\ canDeleteProcessedNodes' = canDeleteProcessedNodes
  <2>1. UNCHANGED <<htn, conf>>
    BY DEF Next, vars, PopKnown, PopNew, Apply, Decompose, ProgressEffectLess,
           ProgressOneModAction, replaceChild, DropDeadEnd, DropKnown, DropUnreachable, Keep,
           EndExpansion, Report, Terminating
  <2> QED
    BY <2>1, ModesStay
<1>2. /\ made \in Nat /\ DOMAIN node \subseteq 0 .. made /\ fringe \subseteq DOMAIN node
      /\ made + 1 \notin DOMAIN node
  BY DEF IInv, TypeOK
<1>3. ASSUME NEW i \in fringe, PopKnown(i) PROVE Permanent \subseteq Permanent'
  BY <1>1, <1>3 DEF PopKnown, Permanent, withoutNode, Restrict
<1>4. ASSUME NEW i \in fringe, PopNew(i) PROVE Permanent \subseteq Permanent'
  BY <1>1, <1>4 DEF PopNew, Permanent
<1>5. ASSUME NEW s, Apply(s) PROVE Permanent \subseteq Permanent'
  BY <1>1, <1>2, <1>5 DEF Apply, Permanent, allocated
<1>6. ASSUME NEW d, NEW m, Decompose(d, m) PROVE Permanent \subseteq Permanent'
  BY <1>1, <1>2, <1>6 DEF Decompose, Permanent, allocated
<1>7. ASSUME NEW s, pc = "settle", replaceChild(s) PROVE Permanent \subseteq Permanent'
  BY <1>1, <1>2, <1>7 DEF replaceChild, Permanent, allocated, withoutNode, Restrict
<1>8. CASE DropDeadEnd \/ DropKnown \/ DropUnreachable
  BY <1>1, <1>8 DEF DropDeadEnd, DropKnown, DropUnreachable, settled, Permanent, withoutNode,
                    Restrict
<1>9. CASE Keep
  BY <1>1, <1>9 DEF Keep, settled, Permanent
<1>10. CASE EndExpansion
  BY <1>1, <1>10 DEF EndExpansion, Permanent, withoutNode, Restrict
<1>11. CASE Report
  BY <1>1, <1>11 DEF Report, Permanent
<1>12. CASE UNCHANGED vars
  BY <1>1, <1>12 DEF vars, Permanent
<1> QED
  BY <1>3, <1>4, <1>5, <1>6, <1>7, <1>8, <1>9, <1>10, <1>11, <1>12
     DEF Next, Terminating, ProgressEffectLess, ProgressOneModAction

(* A node that is new to the visited list, and a solution, is permanent    *)
(* from then on.                                                           *)
LEMMA NewNodesStay ==
  ASSUME IInv, KInv, [Next]_vars
  PROVE  /\ tnSol' # None => tnSol' \in Permanent' \/ (conf.optimzeSol /\ canDeleteProcessedNodes)
         /\ ~ costMode => \A k \in DOMAIN visited' : visited'[k] \in Seq(Permanent')
         /\ conf.noVisitedCheck => DOMAIN visited' = {}
<1> DEFINE Goal ==
      /\ tnSol' # None => tnSol' \in Permanent' \/ (conf.optimzeSol /\ canDeleteProcessedNodes)
      /\ ~ costMode => \A k \in DOMAIN visited' : visited'[k] \in Seq(Permanent')
      /\ conf.noVisitedCheck => DOMAIN visited' = {}
<1>1. Permanent \subseteq Permanent'
  BY PermanentStays
<1>2. ASSUME UNCHANGED tnSol
      PROVE  tnSol' # None => tnSol' \in Permanent' \/ (conf.optimzeSol /\ canDeleteProcessedNodes)
  BY <1>1, <1>2 DEF KInv
<1>3. ~ costMode => \A k \in DOMAIN visited : visited[k] \in Seq(Permanent')
  BY <1>1, SeqMonotonic DEF KInv
<1>4. CASE UNCHANGED <<tnSol, visited>>
  BY <1>2, <1>3, <1>4 DEF KInv
<1>5. ASSUME NEW i, NEW r \in insertVisi(i), visited' = r.list, r.isNew => costMode \/ i \in Permanent'
      PROVE  /\ ~ costMode => \A k \in DOMAIN visited' : visited'[k] \in Seq(Permanent')
             /\ conf.noVisitedCheck => DOMAIN visited' = {}
  <2>1. CASE conf.noVisitedCheck
    <3>1. visited' = visited
      BY <1>5, <2>1 DEF insertVisi
    <3> QED
      BY <2>1, <3>1, <1>3 DEF KInv
  <2>2. CASE ~ conf.noVisitedCheck
    <3> DEFINE S == Permanent'
    <3>1. ASSUME ~ costMode
          PROVE  /\ \A k \in DOMAIN visited : visited[k] \in Seq(S)
                 /\ r.isNew => i \in S
      BY <1>3, <1>5, <3>1
    <3> HIDE DEF S
    <3>2. ~ costMode => \A k \in DOMAIN visited' : visited'[k] \in Seq(S)
      BY <1>5, <2>2, <3>1, InsertedNodes
    <3> QED
      BY <2>2, <3>2 DEF S
  <2> QED
    BY <2>1, <2>2
<1>6. ASSUME NEW i \in fringe, PopKnown(i) PROVE Goal
  <2>1. PICK r \in insertVisi(i) : ~ r.isNew /\ visited' = r.list
    BY <1>6 DEF PopKnown
  <2> QED
    BY <2>1, <1>2, <1>5, <1>6 DEF PopKnown
<1>7. ASSUME NEW i \in fringe, PopNew(i) PROVE Goal
  <2> DEFINE found == ~ conf.suboptimal /\ isGoal(htn, node[i])
  <2>1. /\ i \in DOMAIN node' /\ i \notin fringe' /\ i # None
        /\ UNCHANGED <<htn, conf, node>>
        /\ canDeleteProcessedNodes' = canDeleteProcessedNodes
    BY <1>7, ModesStay DEF PopNew, IInv, TypeOK, None
  <2>2. ~ canDeleteProcessedNodes => i \in Permanent'
    BY <1>7, <2>1 DEF PopNew, Permanent
  <2>3. ASSUME found, ~ (conf.optimzeSol /\ canDeleteProcessedNodes) PROVE i \in Permanent'
    <3>1. CASE canDeleteProcessedNodes
      <4>1. conf.optimzeSol = FALSE
        <5>1. conf.optimzeSol \in BOOLEAN
          BY SearchAssumption DEF IInv, TypeOK, ConfigType
        <5> QED
          BY <5>1, <2>3, <3>1
      <4>2. pc' = "report"
        BY <1>7, <2>3, <4>1 DEF PopNew
      <4> QED
        BY <4>2, <2>1 DEF Permanent
    <3> QED
      BY <3>1, <2>2
  <2>4. tnSol' = tnSol \/ (found /\ tnSol' = i)
    BY <1>7 DEF PopNew, handleNewSolution
  <2>5. tnSol' # None => tnSol' \in Permanent' \/ (conf.optimzeSol /\ canDeleteProcessedNodes)
    BY <2>3, <2>4, <1>2
  <2>6. CASE visited' = visited
    BY <2>5, <2>6, <1>3 DEF KInv
  <2>7. CASE \E r \in insertVisi(i) : r.isNew /\ visited' = r.list
    <3>1. PICK r \in insertVisi(i) : r.isNew /\ visited' = r.list
      BY <2>7
    <3>2. CASE conf.noVisitedCheck
      <4>1. r = [isNew |-> TRUE, list |-> visited]
        BY <3>2 DEF insertVisi
      <4> QED
        BY <3>1, <4>1, <2>5, <1>3 DEF KInv
    <3>3. CASE ~ conf.noVisitedCheck
      <4>1. costMode \/ i \in Permanent'
        BY <3>3, <2>2, ComparedNodesStay
      <4> QED
        BY <3>1, <4>1, <1>5, <2>5
    <3> QED
      BY <3>2, <3>3
  <2> QED
    BY <1>7, <2>6, <2>7 DEF PopNew
<1>8. CASE DropKnown
  <2>1. PICK r \in insertVisi(child) : ~ r.isNew /\ visited' = r.list
    BY <1>8 DEF DropKnown
  <2> QED
    BY <2>1, <1>2, <1>5, <1>8 DEF DropKnown
<1>8a. CASE DropUnreachable
  <2>1. /\ child \in DOMAIN node /\ child \notin fringe /\ child # cur /\ pc' = "expand"
        /\ UNCHANGED <<htn, conf, cur, fringe, tnSol>>
        /\ canDeleteProcessedNodes' = canDeleteProcessedNodes
    BY <1>8a, ModesStay DEF DropUnreachable, settled, IInv, TypeOK
  <2>2. conf.suboptimal /\ ~ canDeleteProcessedNodes => child \in Permanent'
    BY <1>8a, <2>1 DEF DropUnreachable, Permanent
  <2>3. tnSol' # None => tnSol' \in Permanent' \/ (conf.optimzeSol /\ canDeleteProcessedNodes)
    BY <2>1, <1>2
  <2>4. CASE visited' = visited
    BY <2>3, <2>4, <1>3 DEF KInv
  <2>5. CASE conf.suboptimal /\ \E r \in insertVisi(child) : r.isNew /\ visited' = r.list
    <3>1. PICK r \in insertVisi(child) : r.isNew /\ visited' = r.list
      BY <2>5
    <3>2. CASE conf.noVisitedCheck
      <4>1. r = [isNew |-> TRUE, list |-> visited]
        BY <3>2 DEF insertVisi
      <4> QED
        BY <3>1, <4>1, <2>3, <1>3 DEF KInv
    <3>3. CASE ~ conf.noVisitedCheck
      <4>1. costMode \/ child \in Permanent'
        BY <3>3, <2>2, <2>5, ComparedNodesStay
      <4> QED
        BY <3>1, <4>1, <1>5, <2>3
    <3> QED
      BY <3>2, <3>3
  <2> QED
    BY <1>8a, <2>4, <2>5 DEF DropUnreachable
<1>9. CASE Keep
  <2>1. /\ child \in DOMAIN node' /\ child \notin fringe /\ child # cur /\ pc' = "expand"
        /\ UNCHANGED <<htn, conf, cur>>
        /\ canDeleteProcessedNodes' = canDeleteProcessedNodes
    BY <1>9, ModesStay DEF Keep, settled, IInv, TypeOK
  <2>2. conf.suboptimal /\ ~ canDeleteProcessedNodes => child \in Permanent'
    BY <2>1 DEF Permanent
  <2>3. ASSUME conf.suboptimal, isGoal(htn, node[child]),
               ~ (conf.optimzeSol /\ canDeleteProcessedNodes)
        PROVE  child \in Permanent'
    <3>1. CASE canDeleteProcessedNodes
      <4>1. fringe' = fringe
        BY <1>9, <2>3, <3>1 DEF Keep
      <4> QED
        BY <4>1, <2>1 DEF Permanent
    <3> QED
      BY <3>1, <2>2, <2>3
  <2>4. tnSol' = tnSol \/ (conf.suboptimal /\ isGoal(htn, node[child]) /\ tnSol' = child)
    BY <1>9 DEF Keep, handleNewSolution
  <2>5. tnSol' # None => tnSol' \in Permanent' \/ (conf.optimzeSol /\ canDeleteProcessedNodes)
    BY <2>3, <2>4, <1>2
  <2>6. CASE visited' = visited
    BY <2>5, <2>6, <1>3 DEF KInv
  <2>7. CASE conf.suboptimal /\ \E r \in insertVisi(child) : r.isNew /\ visited' = r.list
    <3>1. PICK r \in insertVisi(child) : r.isNew /\ visited' = r.list
      BY <2>7
    <3>2. CASE conf.noVisitedCheck
      <4>1. r = [isNew |-> TRUE, list |-> visited]
        BY <3>2 DEF insertVisi
      <4> QED
        BY <3>1, <4>1, <2>5, <1>3 DEF KInv
    <3>3. CASE ~ conf.noVisitedCheck
      <4>1. costMode \/ child \in Permanent'
        BY <3>3, <2>2, <2>7, ComparedNodesStay
      <4> QED
        BY <3>1, <4>1, <1>5, <2>5
    <3> QED
      BY <3>2, <3>3
  <2> QED
    BY <1>9, <2>6, <2>7 DEF Keep
<1>10. ASSUME NEW x, Apply(x[1]) \/ Decompose(x[1], x[2]) PROVE Goal
  BY <1>10, <1>4 DEF Apply, Decompose
<1>11. ASSUME NEW s, ProgressEffectLess(s) \/ ProgressOneModAction(s) PROVE Goal
  BY <1>11, <1>4 DEF ProgressEffectLess, ProgressOneModAction, replaceChild
<1>12. CASE DropDeadEnd \/ EndExpansion \/ Report \/ UNCHANGED vars
  BY <1>12, <1>4 DEF DropDeadEnd, EndExpansion, Report, vars
<1>13. \/ \E i \in fringe : PopKnown(i) \/ PopNew(i)
       \/ \E x : Apply(x[1]) \/ Decompose(x[1], x[2])
       \/ \E s : ProgressEffectLess(s) \/ ProgressOneModAction(s)
       \/ DropKnown \/ DropUnreachable \/ Keep
       \/ DropDeadEnd \/ EndExpansion \/ Report \/ UNCHANGED vars
  BY DEF Next, Terminating
<1> QED
  BY <1>6, <1>7, <1>8, <1>9, <1>10, <1>11, <1>12, <1>13, <1>8a

LEMMA KInvInductive ==
  ASSUME IInv, KInv, [Next]_vars
  PROVE  KInv'
<1>1. UNCHANGED <<htn, conf>>
  BY DEF Next, vars, PopKnown, PopNew, Apply, Decompose, ProgressEffectLess,
         ProgressOneModAction, replaceChild, DropDeadEnd, DropKnown, DropUnreachable, Keep,
         EndExpansion, Report, Terminating
<1>2. canDeleteProcessedNodes' = canDeleteProcessedNodes /\ costMode' = costMode
  BY <1>1, ModesStay
<1> QED
  BY <1>1, <1>2, NewNodesStay DEF KInv

(* No node is used after its deletion: the solution node and the nodes in  *)
(* the visited list's buckets stay allocated for the whole search, for all *)
(* problems and configurations, but for the solution in the build that     *)
(* goes on after a solution and deletes processed nodes.                   *)
THEOREM NothingDeletedIsUsed == Spec => []NoUseAfterDelete
<1>1. Init => KInv
  BY DEF Init, KInv, None
<1>2. IInv /\ KInv /\ [Next]_vars => KInv'
  BY KInvInductive
<1>3. KInv => NoUseAfterDelete
  <2>1. Permanent \subseteq DOMAIN node
    BY DEF Permanent
  <2>2. ASSUME NEW q \in Seq(Permanent), NEW j \in DOMAIN q PROVE q[j] \in Permanent
    BY <2>2
  <2> QED
    BY <2>1, <2>2 DEF KInv, NoUseAfterDelete
<1> QED
  BY <1>1, <1>2, <1>3, Invariance, PTL DEF Spec
(* A decomposition changes no state, so of its result only the new steps   *)
(* can be effectless and applicable, when no old one was.                  *)
LEMMA DecomposeLeaves ==
  ASSUME NEW h, NEW n, NodeType(h, n), NEW k, NamedBefore(n, k), k \in Nat, NEW d \in n.abs,
         NEW mi, effectLessAfterApply(h, n) = {}
  PROVE  LET n2 == decomposeStep(h, n, d, mi, k)
         IN  effectLessAfterApply(h, n2) \subseteq effectLessAfterDecompose(h, n2, k)
<1> DEFINE n2 == decomposeStep(h, n, d, mi, k)
           m == h.methods[mi]
           new == newSteps(m, k)
           first == {<<k, i>> : i \in FirstTasks(m)}
           firstPrim == {s \in first : isPrimitive(h, m.subs[s[2]])}
<1>1. n2.task = [s \in (Steps(n) \ {d}) \cup new |->
                   IF s \in new THEN m.subs[s[2]] ELSE n.task[s]]
  BY DEF decomposeStep
<1>2. n2.prim = n.prim \cup firstPrim
  BY DEF decomposeStep
<1>3. n2.state = n.state
  BY DEF decomposeStep
<1>4. \A s \in first : s[1] = k
  OBVIOUS
<1>5. \A s \in firstPrim : s[1] = k
  <2> HIDE DEF first, m
  <2> QED
    BY <1>4
<1>6. \A s \in new : s[1] = k
  BY DEF newSteps
<1>7. n.prim \subseteq Steps(n) /\ d \notin n.prim
  BY DEF NodeType
<1> HIDE DEF n2, m, new, first, firstPrim
<1>8. ASSUME NEW s \in effectLessAfterApply(h, n2), s[1] # k PROVE FALSE
  <2>1. s \in n2.prim /\ isEffectless(h, n2.task[s])
    BY <1>8 DEF effectLessAfterApply
  <2>2. h.prec[n2.task[s]] \subseteq n2.state
    BY <1>8 DEF effectLessAfterApply, isApplicable
  <2>3. s \notin new
    BY <1>6, <1>8
  <2>4. s \in n.prim
    BY <2>1, <1>2, <1>5, <1>8
  <2>5. s \in Steps(n) \ {d}
    BY <2>4, <1>7
  <2>6. n2.task[s] = n.task[s]
    BY <2>3, <2>5, <1>1
  <2>7. isEffectless(h, n.task[s]) /\ h.prec[n.task[s]] \subseteq n.state
    BY <2>1, <2>2, <2>6, <1>3
  <2>8. s \in effectLessAfterApply(h, n)
    BY <2>4, <2>7 DEF effectLessAfterApply, isApplicable
  <2> QED
    BY <2>8
<1>9. effectLessAfterApply(h, n2) \subseteq effectLessAfterDecompose(h, n2, k)
  BY <1>8 DEF effectLessAfterDecompose
<1> QED
  BY <1>9 DEF n2

(* Nothing of a node can be progressed without a choice.                   *)
NothingLeft(h, n) == effectLessAfterApply(h, n) = {} /\ oneModification(h, n) = {}

(* What is left of the fringe's nodes, of the node in hand, which came     *)
(* from the fringe, and of the node under construction: the stack names    *)
(* all its effectless steps.                                               *)
PInv ==
  /\ \A i \in fringe : NothingLeft(htn, node[i])
  /\ pc \in {"expand", "settle"} => effectLessAfterApply(htn, node[cur]) = {}
  /\ pc = "settle" => effectLessAfterApply(htn, node[child]) \subseteq effectLess

(* push changes nothing a modification depends on.                         *)
LEMMA PushedLeaves ==
  ASSUME NEW h, NEW n, DOMAIN n = NodeFields, NEW hval
  PROVE  NothingLeft(h, pushed(n, hval)) <=> NothingLeft(h, n)
<1> DEFINE p == pushed(n, hval)
<1>1. p.task = n.task /\ p.prim = n.prim /\ p.abs = n.abs /\ p.state = n.state
  <2>1. SameNetwork(p, n)
    BY PushedFields
  <2> QED
    BY <2>1 DEF SameNetwork
<1> HIDE DEF p
<1>2. effectLessAfterApply(h, p) = effectLessAfterApply(h, n)
  BY <1>1 DEF effectLessAfterApply, isApplicable
<1>3. applicableSteps(h, p) = applicableSteps(h, n)
  BY <1>1 DEF applicableSteps, isApplicable
<1>4. NothingLeft(h, p) <=> NothingLeft(h, n)
  BY <1>1, <1>2, <1>3 DEF NothingLeft, oneModification
<1> QED
  BY <1>4 DEF p

LEMMA PInvInductive ==
  ASSUME IInv, PInv, [Next]_vars
  PROVE  PInv'
<1>1. UNCHANGED htn
  BY ProblemStays
<1>2. /\ made \in Nat /\ DOMAIN node \subseteq 0 .. made /\ fringe \subseteq DOMAIN node
      /\ pc \in {"expand", "settle"} => cur \in DOMAIN node /\ cur \notin fringe
      /\ pc = "settle" => child \in DOMAIN node /\ child # cur /\ child \notin fringe
      /\ \A i \in DOMAIN node : NodeType(htn, node[i]) /\ NamedBefore(node[i], made + 1)
  BY DEF IInv, TypeOK, NodeInv
<1>3. made + 1 \notin DOMAIN node /\ made + 1 \in Nat
  BY <1>2
<1>4. ASSUME NEW i \in fringe, PopKnown(i) PROVE PInv'
  <2>1. /\ \A j \in fringe' : j \in fringe /\ node'[j] = node[j]
        /\ pc' = "pop"
    BY <1>2, <1>4 DEF PopKnown, withoutNode, Restrict
  <2> QED
    BY <1>1, <2>1 DEF PInv
<1>5. ASSUME NEW i \in fringe, PopNew(i) PROVE PInv'
  <2>1. /\ fringe' \subseteq fringe /\ node' = node /\ cur' = i
        /\ pc' \in {"report", "expand"}
    BY <1>5 DEF PopNew
  <2> QED
    BY <1>1, <2>1 DEF PInv, NothingLeft
<1>6. ASSUME NEW s, Apply(s) PROVE PInv'
  <2> DEFINE n2 == applyStep(htn, node[cur], s, made + 1)
  <2>1. /\ node' = allocated(node, made + 1, n2) /\ effectLess' = effectLessAfterApply(htn, n2)
        /\ child' = made + 1 /\ pc = "expand" /\ UNCHANGED <<fringe, cur>>
    BY <1>6 DEF Apply
  <2> HIDE DEF n2
  <2>2. /\ \A j \in DOMAIN node : node'[j] = node[j]
        /\ node'[child'] = n2
    BY <1>3, <2>1 DEF allocated
  <2> QED
    BY <1>1, <1>2, <2>1, <2>2 DEF PInv
<1>7. ASSUME NEW x \in todo, Decompose(x[1], x[2]) PROVE PInv'
  <2> DEFINE n == node[cur]
             n2 == decomposeStep(htn, n, x[1], x[2], made + 1)
  <2>1. /\ node' = allocated(node, made + 1, n2)
        /\ effectLess' = effectLessAfterDecompose(htn, n2, made + 1)
        /\ child' = made + 1 /\ pc = "expand" /\ UNCHANGED <<fringe, cur>>
    BY <1>7 DEF Decompose
  <2>2. x[1] \in n.abs
    BY <1>7 DEF Decompose, IInv, WorkFits
  <2>3. effectLessAfterApply(htn, n2) \subseteq effectLess'
    <3>1. /\ effectLessAfterApply(htn, n) = {} /\ NodeType(htn, n) /\ NamedBefore(n, made + 1)
      BY <1>2, <2>1 DEF PInv
    <3> HIDE DEF n
    <3> QED
      BY <1>3, <2>1, <2>2, <3>1, DecomposeLeaves
  <2> HIDE DEF n2
  <2>4. /\ \A j \in DOMAIN node : node'[j] = node[j]
        /\ node'[child'] = n2
    BY <1>3, <2>1 DEF allocated
  <2> QED
    BY <1>1, <1>2, <2>1, <2>3, <2>4 DEF PInv
<1>8. ASSUME NEW s, pc = "settle", replaceChild(s) PROVE PInv'
  <2> DEFINE n2 == applyStep(htn, node[child], s, made + 1)
  <2>1. /\ node' = allocated(withoutNode(child), made + 1, n2)
        /\ effectLess' = effectLessAfterApply(htn, n2)
        /\ child' = made + 1 /\ UNCHANGED <<fringe, cur, pc>>
    BY <1>8 DEF replaceChild
  <2> HIDE DEF n2
  <2>2. /\ \A j \in DOMAIN node \ {child} : node'[j] = node[j]
        /\ node'[child'] = n2
    BY <1>3, <2>1 DEF allocated, withoutNode, Restrict
  <2> QED
    BY <1>1, <1>2, <1>8, <2>1, <2>2 DEF PInv
<1>9. CASE DropDeadEnd \/ DropKnown \/ DropUnreachable
  <2>1. /\ \A j \in DOMAIN node \ {child} : node'[j] = node[j]
        /\ pc = "settle" /\ pc' = "expand" /\ UNCHANGED <<fringe, cur>>
    BY <1>9 DEF DropDeadEnd, DropKnown, DropUnreachable, settled, withoutNode, Restrict
  <2> QED
    BY <1>1, <1>2, <2>1 DEF PInv
<1>10. CASE Keep
  <2>1. /\ pc = "settle" /\ pc' = "expand" /\ cur' = cur
        /\ effectLess = {} /\ oneModification(htn, node[child]) = {}
        /\ \/ node' = node /\ fringe' = fringe
           \/ /\ node' = [node EXCEPT ![child] = pushed(@, heuristicValue(@))]
              /\ fringe' = fringe \cup {child}
    BY <1>10 DEF Keep, settled
  <2>2. CASE node' = node /\ fringe' = fringe
    BY <1>1, <2>1, <2>2 DEF PInv
  <2>3. CASE /\ node' = [node EXCEPT ![child] = pushed(@, heuristicValue(@))]
             /\ fringe' = fringe \cup {child}
    <3> DEFINE n == node[child]
               v == heuristicValue(n)
    <3>1. /\ \A j \in DOMAIN node \ {child} : node'[j] = node[j]
          /\ node'[child] = pushed(n, v)
      BY <1>2, <2>1, <2>3
    <3>2. NothingLeft(htn, n) /\ DOMAIN n = NodeFields
      BY <1>2, <2>1 DEF PInv, NothingLeft, NodeType
    <3>3. NothingLeft(htn, pushed(n, v))
      <4> HIDE DEF n, v
      <4> QED
        BY <3>2, PushedLeaves
    <3> QED
      BY <1>1, <1>2, <2>1, <2>3, <3>1, <3>3 DEF PInv
  <2> QED
    BY <2>1, <2>2, <2>3
<1>11. CASE EndExpansion
  <2>1. /\ \A j \in DOMAIN node \ {cur} : node'[j] = node[j]
        /\ pc = "expand" /\ pc' \in {"pop", "report"} /\ UNCHANGED fringe
    BY <1>11 DEF EndExpansion, withoutNode, Restrict
  <2> QED
    BY <1>1, <1>2, <2>1 DEF PInv
<1>12. CASE Report
  BY <1>1, <1>12 DEF Report, PInv
<1>13. CASE UNCHANGED vars
  BY <1>13 DEF vars, PInv
<1> QED
  BY <1>4, <1>5, <1>6, <1>7, <1>8, <1>9, <1>10, <1>11, <1>12, <1>13
     DEF Next, Terminating, ProgressEffectLess, ProgressOneModAction

(* No node of the fringe has an effectless applicable first task, nor a    *)
(* forced move: that decompose looks at the method's first tasks only is   *)
(* enough, because the decomposed node had none left itself.               *)
THEOREM NothingIsLeftToProgress == Spec => []NothingLeftToProgress
<1>1. Init => PInv
  <2> SUFFICES ASSUME Init PROVE PInv
    OBVIOUS
  <2> DEFINE n == prepareTNi(htn)
  <2>1. node = [i \in {0} |-> pushed(n, 0)] /\ fringe = {0} /\ pc = "pop"
    BY DEF Init
  <2>2. n.prim = {} /\ n.abs # {} /\ DOMAIN n = NodeFields
    BY DEF prepareTNi, NodeFields
  <2> HIDE DEF n
  <2>3. effectLessAfterApply(htn, n) = {} /\ oneModification(htn, n) = {}
    BY <2>2 DEF effectLessAfterApply, oneModification
  <2>4. \A hval : NothingLeft(htn, pushed(n, hval)) <=> NothingLeft(htn, n)
    BY <2>2, PushedLeaves
  <2>5. NothingLeft(htn, pushed(n, 0))
    BY <2>3, <2>4 DEF NothingLeft
  <2> QED
    BY <2>1, <2>5 DEF PInv
<1>2. IInv /\ PInv /\ [Next]_vars => PInv'
  BY PInvInductive
<1>3. PInv => NothingLeftToProgress
  BY DEF PInv, NothingLeft, NothingLeftToProgress
<1> QED
  BY <1>1, <1>2, <1>3, Invariance, PTL DEF Spec

-----------------------------------------------------------------------------
(***************************************************************************)
(* No node is left behind.                                                 *)
(***************************************************************************)
(* The nodes the heuristic dropped after the late check.                   *)
Abandoned ==
  {i \in DOMAIN node : ~ conf.suboptimal /\ ~ node[i].pushed /\ unreachable(node[i])}

(* The solution needs no place of its own here: while the search goes on   *)
(* after a solution, that node is in the fringe, in hand, or deleted.      *)
FInv ==
  /\ pc = "pop" => cur = None
  /\ pc \in {"pop", "expand"} => child = None
  /\ pc = "settle" => ~ node[child].pushed
  /\ ~ continueSearch => ~ conf.optimzeSol
  /\ canDeleteProcessedNodes /\ continueSearch /\ pc \in {"pop", "expand", "settle"} =>
       DOMAIN node \subseteq fringe \cup {cur, child} \cup Abandoned

LEMMA FInvInductive ==
  ASSUME IInv, FInv, [Next]_vars
  PROVE  FInv'
<1>1. /\ UNCHANGED <<htn, conf>> /\ canDeleteProcessedNodes' = canDeleteProcessedNodes
      /\ \A n : unreachable(n)' = unreachable(n)
  BY ProblemStays, ModesStay DEF unreachable
<1>2. /\ made \in Nat /\ DOMAIN node \subseteq 0 .. made /\ fringe \subseteq DOMAIN node
      /\ pc \in {"expand", "settle"} => cur \in DOMAIN node /\ cur \notin fringe
      /\ pc = "settle" => child \in DOMAIN node /\ child # cur /\ child \notin fringe
      /\ None \notin DOMAIN node /\ made + 1 \notin DOMAIN node
  BY DEF IInv, TypeOK, None
<1>3. \A i \in DOMAIN node : i \in DOMAIN node' /\ node'[i] = node[i] /\ i \in Abandoned
                               => i \in Abandoned'
  BY <1>1 DEF Abandoned, unreachable
<1>4. ASSUME NEW i \in fringe, PopKnown(i) PROVE FInv'
  <2>1. /\ DOMAIN node' = DOMAIN node \ {i} /\ \A j \in DOMAIN node' : node'[j] = node[j]
        /\ fringe' = fringe \ {i} /\ pc = "pop"
        /\ UNCHANGED <<pc, cur, child, continueSearch>>
    BY <1>4 DEF PopKnown, withoutNode, Restrict
  <2>2. DOMAIN node \subseteq fringe \cup {cur, child} \cup Abandoned =>
          DOMAIN node' \subseteq fringe' \cup {cur', child'} \cup Abandoned'
    BY <1>3, <2>1
  <2> QED
    BY <1>1, <2>1, <2>2 DEF FInv
<1>5. ASSUME NEW i \in fringe, PopNew(i) PROVE FInv'
  <2>1. /\ node' = node /\ fringe' = fringe \ {i} /\ pc = "pop" /\ cur' = i
        /\ pc' \in {"report", "expand"} /\ child' = child
        /\ continueSearch' = continueSearch \/ continueSearch' = conf.optimzeSol
    BY <1>5 DEF PopNew
  <2>2. cur = None /\ child = None /\ (~ continueSearch' => ~ conf.optimzeSol)
    BY <2>1 DEF FInv
  <2>3. ASSUME canDeleteProcessedNodes, continueSearch'
        PROVE  DOMAIN node' \subseteq fringe' \cup {cur', child'} \cup Abandoned'
    <3>1. continueSearch
      BY <2>1, <2>3 DEF FInv
    <3>2. DOMAIN node \subseteq fringe \cup {None} \cup Abandoned
      BY <2>1, <2>2, <2>3, <3>1 DEF FInv
    <3> QED
      BY <1>2, <1>3, <2>1, <3>2
  <2> QED
    BY <1>1, <2>1, <2>2, <2>3 DEF FInv
<1>6. ASSUME NEW n2, n2.pushed = FALSE, NEW nodes,
             DOMAIN node \ {child} \subseteq DOMAIN nodes, DOMAIN nodes \subseteq DOMAIN node,
             child \in DOMAIN nodes => child \notin DOMAIN node,
             \A j \in DOMAIN nodes : nodes[j] = node[j],
             node' = allocated(nodes, made + 1, n2), child' = made + 1,
             pc \in {"expand", "settle"}, pc' = "settle",
             UNCHANGED <<fringe, cur, continueSearch>>
      PROVE  FInv'
  <2>1. /\ DOMAIN node' = DOMAIN nodes \cup {made + 1} /\ node'[child'] = n2
        /\ \A j \in DOMAIN nodes : node'[j] = node[j] /\ j # child
    BY <1>2, <1>6 DEF allocated
  <2>2. DOMAIN node \subseteq fringe \cup {cur, child} \cup Abandoned =>
          DOMAIN node' \subseteq fringe' \cup {cur', child'} \cup Abandoned'
    BY <1>3, <1>6, <2>1
  <2> QED
    BY <1>1, <1>6, <2>1, <2>2 DEF FInv
<1>7. ASSUME NEW s, Apply(s) PROVE FInv'
  <2> DEFINE n2 == applyStep(htn, node[cur], s, made + 1)
  <2>1. n2.pushed = FALSE
    BY DEF applyStep
  <2>2. /\ node' = allocated(node, made + 1, n2) /\ child' = made + 1
        /\ pc = "expand" /\ pc' = "settle" /\ UNCHANGED <<fringe, cur, continueSearch>>
    BY <1>7 DEF Apply
  <2>3. child \notin DOMAIN node
    BY <1>2, <2>2 DEF FInv
  <2> HIDE DEF n2
  <2> QED
    BY <2>1, <2>2, <2>3, <1>6
<1>8. ASSUME NEW d, NEW m, Decompose(d, m) PROVE FInv'
  <2> DEFINE n2 == decomposeStep(htn, node[cur], d, m, made + 1)
  <2>1. n2.pushed = FALSE
    BY DEF decomposeStep
  <2>2. /\ node' = allocated(node, made + 1, n2) /\ child' = made + 1
        /\ pc = "expand" /\ pc' = "settle" /\ UNCHANGED <<fringe, cur, continueSearch>>
    BY <1>8 DEF Decompose
  <2>3. child \notin DOMAIN node
    BY <1>2, <2>2 DEF FInv
  <2> HIDE DEF n2
  <2> QED
    BY <2>1, <2>2, <2>3, <1>6
<1>9. ASSUME NEW s, pc = "settle", replaceChild(s) PROVE FInv'
  <2> DEFINE n2 == applyStep(htn, node[child], s, made + 1)
             nodes == withoutNode(child)
  <2>1. n2.pushed = FALSE
    BY DEF applyStep
  <2>2. /\ node' = allocated(nodes, made + 1, n2) /\ child' = made + 1
        /\ pc' = "settle" /\ UNCHANGED <<fringe, cur, continueSearch>>
    BY <1>9 DEF replaceChild
  <2>3. DOMAIN nodes = DOMAIN node \ {child} /\ \A j \in DOMAIN nodes : nodes[j] = node[j]
    BY DEF withoutNode, Restrict
  <2> HIDE DEF n2, nodes
  <2> QED
    BY <1>9, <2>1, <2>2, <2>3, <1>6
<1>10. CASE DropDeadEnd \/ DropKnown \/ DropUnreachable
  <2>1. /\ pc = "settle" /\ pc' = "expand" /\ child' = None
        /\ UNCHANGED <<fringe, cur, continueSearch>>
        /\ DOMAIN node' \subseteq DOMAIN node /\ \A j \in DOMAIN node' : node'[j] = node[j]
        /\ \/ child \notin DOMAIN node'
           \/ /\ unreachable(node[child])
              /\ ~ (conf.suboptimal /\ canDeleteProcessedNodes)
    BY <1>10 DEF DropDeadEnd, DropKnown, DropUnreachable, settled, withoutNode, Restrict
  <2>2. ASSUME canDeleteProcessedNodes, child \in DOMAIN node' PROVE child \in Abandoned'
    <3>1. child \in Abandoned
      <4>1. ~ node[child].pushed /\ child \in DOMAIN node
        BY <1>2, <2>1 DEF FInv
      <4> QED
        BY <2>1, <2>2, <4>1 DEF Abandoned
    <3> QED
      BY <1>3, <2>1, <2>2, <3>1
  <2>3. ASSUME canDeleteProcessedNodes, continueSearch
        PROVE  DOMAIN node' \subseteq fringe' \cup {cur', child'} \cup Abandoned'
    <3>1. DOMAIN node \subseteq fringe \cup {cur, child} \cup Abandoned
      BY <2>1, <2>3 DEF FInv
    <3> QED
      BY <1>3, <2>1, <2>2, <2>3, <3>1
  <2> QED
    BY <1>1, <2>1, <2>3 DEF FInv
<1>11. CASE Keep
  <2>1. /\ pc = "settle" /\ pc' = "expand" /\ child' = None /\ cur' = cur
        /\ continueSearch' = continueSearch \/ continueSearch' = conf.optimzeSol
    BY <1>11 DEF Keep, settled
  <2>2. ~ continueSearch' => ~ conf.optimzeSol
    BY <2>1 DEF FInv
  <2>3. ASSUME canDeleteProcessedNodes, continueSearch'
        PROVE  DOMAIN node' \subseteq fringe' \cup {cur', child'} \cup Abandoned'
    <3>1. continueSearch
      BY <2>1, <2>3 DEF FInv
    <3>2. DOMAIN node \subseteq fringe \cup {cur, child} \cup Abandoned
      BY <2>1, <2>3, <3>1 DEF FInv
    <3>3. ~ (conf.suboptimal /\ isGoal(htn, node[child]) /\ ~ conf.optimzeSol)
      BY <1>11, <2>3 DEF Keep
    <3>4. /\ DOMAIN node' = DOMAIN node /\ fringe' = fringe \cup {child}
          /\ \A j \in DOMAIN node \ {child} : node'[j] = node[j]
      BY <1>11, <3>3 DEF Keep
    <3> QED
      BY <1>3, <2>1, <3>2, <3>4
  <2> QED
    BY <1>1, <2>1, <2>2, <2>3 DEF FInv
<1>12. CASE EndExpansion
  <2>1. /\ pc = "expand" /\ cur' = None /\ UNCHANGED <<fringe, child, continueSearch>>
        /\ DOMAIN node' \subseteq DOMAIN node /\ \A j \in DOMAIN node' : node'[j] = node[j]
        /\ \/ pc' = "report"
           \/ pc' = "pop" /\ (canDeleteProcessedNodes => cur \notin DOMAIN node')
    BY <1>12 DEF EndExpansion, withoutNode, Restrict
  <2>2. ASSUME canDeleteProcessedNodes, continueSearch, pc' = "pop"
        PROVE  DOMAIN node' \subseteq fringe' \cup {cur', child'} \cup Abandoned'
    <3>1. DOMAIN node \subseteq fringe \cup {cur, child} \cup Abandoned /\ child = None
      BY <2>1, <2>2 DEF FInv
    <3> QED
      BY <1>2, <1>3, <2>1, <2>2, <3>1
  <2> QED
    BY <1>1, <2>1, <2>2 DEF FInv
<1>13. CASE Report
  <2>1. pc' = "done" /\ UNCHANGED continueSearch
    BY <1>13 DEF Report
  <2> QED
    BY <1>1, <2>1 DEF FInv
<1>14. CASE UNCHANGED vars
  BY <1>1, <1>14 DEF vars, FInv, Abandoned, unreachable
<1> QED
  BY <1>4, <1>5, <1>7, <1>8, <1>9, <1>10, <1>11, <1>12, <1>13, <1>14
     DEF Next, Terminating, ProgressEffectLess, ProgressOneModAction

(* Where processed nodes may be deleted they are: while the search goes    *)
(* on, whatever is allocated is in the fringe, in hand or under            *)
(* construction, but for the nodes the heuristic drops after the late      *)
(* check.                                                                  *)
THEOREM NoNodeIsLeft == Spec => []NoNodeLeft
<1>1. Init => FInv
  BY DEF Init, FInv
<1>2. IInv /\ FInv /\ [Next]_vars => FInv'
  BY FInvInductive
<1>3. FInv => NoNodeLeft
  BY DEF FInv, NoNodeLeft, Abandoned
<1> QED
  BY <1>1, <1>2, <1>3, Invariance, PTL DEF Spec

-----------------------------------------------------------------------------
(***************************************************************************)
(* Soundness.                                                              *)
(***************************************************************************)
PlansInv == \A i \in DOMAIN node : PlanInv(htn, node[i], made + 1)

LEMMA PlansInductive ==
  ASSUME IInv, PlansInv, [Next]_vars
  PROVE  PlansInv'
<1>1. /\ htn' = htn /\ IsProblem(htn) /\ made \in Nat /\ made + 1 \in Nat /\ made + 1 > 0
      /\ (made' = made \/ made' = made + 1)
  <2>1. made' = made \/ made' = made + 1
    BY DEF Next, vars, PopKnown, PopNew, Apply, Decompose, ProgressEffectLess,
           ProgressOneModAction, replaceChild, DropDeadEnd, DropKnown, DropUnreachable, Keep,
           EndExpansion, Report, Terminating
  <2> QED
    BY <2>1, ProblemStays, SearchAssumption DEF IInv, TypeOK
<1> SUFFICES ASSUME NEW i \in DOMAIN node'
             PROVE  PlanInv(htn, node'[i], made' + 1)
  BY <1>1 DEF PlansInv
<1>2. \A j \in DOMAIN node : /\ NodeInv(htn, node[j], made + 1) /\ DOMAIN node[j] = NodeFields
                             /\ PlanInv(htn, node[j], made + 1)
                             /\ PlanInv(htn, node[j], made' + 1)
  BY <1>1, OlderPlan DEF IInv, PlansInv, TypeOK, NodeType
<1>3. CASE Kept(i)
  BY <1>2, <1>3 DEF Kept
<1>4. CASE PushedNow(i)
  <2> DEFINE n == node[i]
  <2>1. DOMAIN n = NodeFields /\ PlanInv(htn, n, made' + 1)
    BY <1>2, <1>4 DEF PushedNow
  <2>2. node'[i] = pushed(n, heuristicValue(n))
    BY <1>4 DEF PushedNow
  <2> HIDE DEF n
  <2>3. SameNetwork(node'[i], n)
    BY <2>1, <2>2, PushedFields
  <2> QED
    BY <2>1, <2>3, SamePlan DEF SameNetwork
<1>5. ASSUME AppliedNow(i) \/ DecomposedNow(i) PROVE PlanInv(htn, node'[i], made' + 1)
  <2>1. made' + 1 = (made + 1) + 1
    BY <1>1, <1>5 DEF AppliedNow, DecomposedNow
  <2>2. CASE AppliedNow(i)
    <3>1. PICK j \in DOMAIN node : \E s \in applicableSteps(htn, node[j]) :
            node'[i] = applyStep(htn, node[j], s, made + 1)
      BY <2>2 DEF AppliedNow
    <3>2. PICK s \in applicableSteps(htn, node[j]) :
            node'[i] = applyStep(htn, node[j], s, made + 1)
      BY <3>1
    <3> QED
      BY <1>1, <1>2, <2>1, <3>2, ApplyPlan
  <2>3. CASE DecomposedNow(i)
    <3>1. PICK j \in DOMAIN node : \E d \in node[j].abs :
            \E m \in taskToMethods(htn, node[j].task[d]) :
              node'[i] = decomposeStep(htn, node[j], d, m, made + 1)
      BY <2>3 DEF DecomposedNow
    <3>2. PICK d \in node[j].abs : \E m \in taskToMethods(htn, node[j].task[d]) :
            node'[i] = decomposeStep(htn, node[j], d, m, made + 1)
      BY <3>1
    <3>3. PICK m \in taskToMethods(htn, node[j].task[d]) :
            node'[i] = decomposeStep(htn, node[j], d, m, made + 1)
      BY <3>2
    <3> QED
      BY <1>1, <1>2, <2>1, <3>3, DecomposePlan
  <2> QED
    BY <1>5, <2>2, <2>3
<1> QED
  BY <1>3, <1>4, <1>5, NodesOfAStep

(* A plan that is reported is a solution of the problem: for every problem,*)
(* configuration and visited list, whatever order the fringe returns nodes *)
(* in and whatever the automatic progressions do, the chain that           *)
(* extractSolutionFromSearchNode prints is a complete decomposition of the *)
(* initial task whose actions respect the ordering of every method that is *)
(* used, execute from the initial state, and reach the goal.               *)
THEOREM PlansAreValid == Spec => []SolutionIsValid
<1>1. Init => PlansInv
  <2> SUFFICES ASSUME Init PROVE PlansInv
    OBVIOUS
  <2> DEFINE n == prepareTNi(htn)
  <2>1. PlanInv(htn, n, 1) /\ DOMAIN n = NodeFields
    BY InitialPlan DEF prepareTNi, NodeFields
  <2>2. DOMAIN node = {0} /\ node[0] = pushed(n, 0) /\ made + 1 = 1
    BY DEF Init
  <2> HIDE DEF n
  <2>3. SameNetwork(node[0], n)
    BY <2>1, <2>2, PushedFields
  <2>4. PlanInv(htn, node[0], 1)
    BY <2>1, <2>3, SamePlan DEF SameNetwork
  <2> QED
    BY <2>2, <2>4 DEF PlansInv
<1>2. IInv /\ PlansInv /\ [Next]_vars => PlansInv'
  BY PlansInductive
<1>3. IInv /\ PlansInv => SolutionIsValid
  <2> SUFFICES ASSUME IInv, PlansInv, tnSol # None, tnSol \in DOMAIN node
               PROVE  ValidPlan(htn, node[tnSol].solution)
    BY DEF SolutionIsValid
  <2>1. /\ NodeInv(htn, node[tnSol], made + 1) /\ isGoal(htn, node[tnSol])
        /\ PlanInv(htn, node[tnSol], made + 1) /\ made + 1 \in Nat
    BY DEF IInv, PlansInv, TypeOK
  <2> QED
    BY <2>1, GoalPlan
<1> QED
  BY <1>1, <1>2, <1>3, Invariance, PTL DEF Spec
=============================================================================
