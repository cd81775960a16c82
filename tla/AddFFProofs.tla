----------------------------- MODULE AddFFProofs -----------------------------
(***************************************************************************)
(* Proofs about hAdd and hFF: for every relaxed problem, every order in    *)
(* which the heap returns equal entries and every INT_MAX, values stay in  *)
(* their range, a node is reported to be a dead end only if the goal is    *)
(* out of reach, the actions hFF marks reach the goal, and the value of    *)
(* hAdd is the one its definition gives.                                   *)
(***************************************************************************)
EXTENDS AddFF, ProgressionNetworkProofs

(* A fact is settled when it has a value and no entry for that value is    *)
(* left in the heap; its actions have been visited or are in todo.         *)
settled(f) == hValProp[f] # MaxInt /\ <<hValProp[f], f>> \notin queue
open(o)    == {f \in precs(in, o) : ~ settled(f)}
openGoals  == {f \in in.g : ~ settled(f)}

(* The loop: the heap holds no key below the one in hand, settled facts    *)
(* have no value above it, and the counters count what is not settled.     *)
LoopInv ==
  /\ \A e \in queue : cur[1] <= e[1] /\ hValProp[e[2]] <= e[1] /\ e[1] < MaxInt
  /\ \A f \in in.facts : settled(f) => hValProp[f] <= cur[1]
  /\ \A o \in Ops(in) :
       numSatPrecs[o] = Cardinality(open(o)) + (IF o \in todo THEN 1 ELSE 0)
  /\ \A o \in Ops(in) : numSatPrecs[o] = 0 => \A f \in in.add[o] : hValProp[f] <= hValOp[o]
  /\ numGoals = Cardinality(openGoals)
  /\ numGoals > 0

(* Each fact of the state keeps a value; the extraction starts when all    *)
(* facts of the goal have one.                                             *)
IInv ==
  /\ TypeOK
  /\ in \in Instances
  /\ cur[1] \in Nat
  /\ todo # {} => pc = "loop"
  /\ \A f \in in.s : hValProp[f] # MaxInt
  /\ pc = "loop" => LoopInv
  /\ pc = "mark" => \A f \in in.g : hValProp[f] # MaxInt
  /\ pc = "done" => UnreachableIsSound

-----------------------------------------------------------------------------
LEMMA WrapBelow == ASSUME NEW x \in Int PROVE wrap(x) \in Int /\ wrap(x) <= MaxInt
<1> DEFINE M == 2 * (MaxInt + 1)
<1>1. M \in Nat /\ M > 0 /\ MaxInt \in Nat
  BY AddFFAssumption
<1>2. (x + MaxInt + 1) \in Int
  BY <1>1
<1>3. \A a \in Int, b \in Nat : b > 0 => (a % b) \in 0 .. (b - 1)
  OBVIOUS
<1>4. ((x + MaxInt + 1) % M) \in 0 .. (M - 1)
  BY <1>1, <1>2, <1>3
<1> QED
  BY <1>1, <1>4 DEF wrap

LEMMA MaxOfTwo == ASSUME NEW a \in Int, NEW b \in Int
                  PROVE  Max({a, b}) = IF a >= b THEN a ELSE b
  BY DEF Max


(* What the assumption says of the instance in hand.                       *)
LEMMA InstanceFacts ==
  ASSUME in \in Instances
  PROVE  /\ MaxInt \in Nat \ {0, 1}
         /\ IsFiniteSet(in.facts) /\ in.s \subseteq in.facts /\ in.g \subseteq in.facts
         /\ IsFiniteSet(in.s) /\ IsFiniteSet(in.g)
         /\ Ops(in) \subseteq Nat
         /\ in.cost \in [Ops(in) -> 0 .. MaxInt - 1]
         /\ \A o \in Ops(in) :
              /\ in.cost[o] \in 0 .. MaxInt - 1
              /\ in.add[o] \subseteq in.facts
              /\ precs(in, o) \subseteq in.facts /\ IsFiniteSet(precs(in, o))
              /\ Len(in.prec[o]) = Cardinality(precs(in, o))
              /\ Len(in.prec[o]) \in Nat \ {0}
<1>1. MaxInt \in Nat \ {0, 1} /\ IsRelaxedProblem(in)
  BY AddFFAssumption
<1>2. ASSUME NEW o \in Ops(in)
      PROVE  /\ in.cost[o] \in 0 .. MaxInt - 1
             /\ in.add[o] \subseteq in.facts
             /\ precs(in, o) \subseteq in.facts /\ IsFiniteSet(precs(in, o))
             /\ Len(in.prec[o]) = Cardinality(precs(in, o))
             /\ Len(in.prec[o]) \in Nat \ {0}
  <2>1. /\ in.prec[o] \in Seq(in.facts) \ {<< >>}
        /\ \A i, j \in DOMAIN in.prec[o] : in.prec[o][i] = in.prec[o][j] => i = j
        /\ in.add[o] \subseteq in.facts
        /\ in.cost[o] \in 0 .. MaxInt - 1
    BY <1>1 DEF IsRelaxedProblem
  <2>2. precs(in, o) \subseteq in.facts
    BY <2>1 DEF precs
  <2>3. Len(in.prec[o]) \in Nat \ {0}
    BY <2>1
  <2> QED
    BY <2>1, <2>2, <2>3, LengthOfList DEF precs
<1>3. /\ in.cost \in [Ops(in) -> 0 .. MaxInt - 1]
      /\ IsFiniteSet(in.facts) /\ in.s \subseteq in.facts /\ in.g \subseteq in.facts
      /\ Ops(in) \subseteq Nat
  BY <1>1 DEF IsRelaxedProblem
<1> QED
  BY <1>1, <1>2, <1>3, FS_Subset
-----------------------------------------------------------------------------
(* The counters start as the lengths of the lists, and nothing is settled. *)
LEMMA InitIInv == ASSUME Init PROVE IInv
<1> USE DEF Init
<1>1. in \in Instances
  OBVIOUS
<1>2. TypeOK
  <2>1. queue \subseteq Values \X in.facts
    BY <1>1, InstanceFacts DEF Values
  <2>2. /\ hValProp \in [in.facts -> Values]
        /\ hValOp \in [Ops(in) -> Values]
        /\ numSatPrecs \in [Ops(in) -> Nat]
        /\ reachedBy \in [in.facts -> Ops(in) \cup {NOACTION}]
    BY <1>1, InstanceFacts DEF Values, hUnreachable
  <2>3. numGoals \in Nat
    BY <1>1, InstanceFacts, FS_CardinalityType
  <2> QED
    BY <2>1, <2>2, <2>3 DEF TypeOK
<1>3. \A f \in in.s : hValProp[f] # MaxInt
  BY <1>1, InstanceFacts
<1>4. ASSUME pc = "loop" PROVE LoopInv
  <2>1. \A f \in in.facts : ~ settled(f)
    BY <1>1, InstanceFacts DEF settled, hUnreachable
  <2>2. \A o \in Ops(in) : open(o) = precs(in, o)
    BY <2>1, <1>1, InstanceFacts DEF open
  <2>3. openGoals = in.g /\ in.g # {}
    BY <2>1, <1>1, <1>4, InstanceFacts DEF openGoals
  <2>4. \A o \in Ops(in) :
          numSatPrecs[o] = Cardinality(open(o)) + (IF o \in todo THEN 1 ELSE 0)
    BY <2>2, <1>1, InstanceFacts
  <2>5. \A o \in Ops(in) : numSatPrecs[o] # 0
    BY <1>1, InstanceFacts
  <2>6. numGoals > 0
    BY <2>3, <1>1, InstanceFacts, FS_CardinalityType, FS_EmptySet
  <2>7. \A e \in queue : cur[1] <= e[1] /\ hValProp[e[2]] <= e[1] /\ e[1] < MaxInt
    BY <1>1, InstanceFacts
  <2> QED
    BY <2>1, <2>3, <2>4, <2>5, <2>6, <2>7 DEF LoopInv
<1>5. pc = "done" => UnreachableIsSound
  BY <1>1, InstanceFacts DEF UnreachableIsSound, hUnreachable
<1> QED
  BY <1>1, <1>2, <1>3, <1>4, <1>5 DEF IInv

(* Dropping an entry that the fact has outgrown settles nothing.           *)
LEMMA SkipIInv == ASSUME IInv, NEW e \in queue, Skip(e) PROVE IInv'
<1> USE DEF Skip, top, IInv, marking
<1>1. in' = in /\ hValProp' = hValProp /\ pc = "loop" /\ pc' = "loop"
  OBVIOUS
<1>2. TypeOK'
  BY DEF TypeOK
<1>3. \A f : settled(f)' = settled(f)
  <2>1. SUFFICES ASSUME NEW f PROVE <<hValProp[f], f>> # e
    BY <2>1, <1>1 DEF settled
  <2>2. e[1] \in Int /\ hValProp[e[2]] \in Int
    BY InstanceFacts DEF TypeOK, Values
  <2> QED
    BY <2>2
<1>4. (\A o : open(o)' = open(o)) /\ openGoals' = openGoals
  BY <1>1, <1>3 DEF open, openGoals
<1>5. LoopInv'
  BY <1>1, <1>3, <1>4 DEF LoopInv
<1> QED
  BY <1>1, <1>2, <1>5

(* The entry in hand is current: its fact, and no other, becomes settled.  *)
LEMMA SettleFacts ==
  ASSUME IInv, NEW e \in queue, Settle(e)
  PROVE  /\ e[2] \in in.facts /\ e[1] \in Nat /\ e[1] < MaxInt
         /\ e = <<hValProp[e[2]], e[2]>> /\ ~ settled(e[2])
         /\ \A f : settled(f)' <=> settled(f) \/ f = e[2]
         /\ \A o : open(o)' = open(o) \ {e[2]}
         /\ openGoals' = openGoals \ {e[2]}
<1> USE DEF Settle, top, IInv
<1>1. e[2] \in in.facts /\ e[1] \in Nat /\ hValProp[e[2]] \in Nat /\ e = <<e[1], e[2]>>
  BY InstanceFacts DEF TypeOK, Values
<1>2. e[1] = hValProp[e[2]] /\ e[1] < MaxInt
  BY <1>1, InstanceFacts DEF LoopInv
<1>3. e = <<hValProp[e[2]], e[2]>> /\ ~ settled(e[2])
  BY <1>1, <1>2 DEF settled
<1>4. hValProp' = hValProp /\ queue' = queue \ {e} /\ in' = in
  OBVIOUS
<1>5. \A f : settled(f)' <=> settled(f) \/ f = e[2]
  <2>1. ASSUME NEW f, f # e[2] PROVE settled(f)' <=> settled(f)
    <3>1. <<hValProp[f], f>> # e
      BY <1>1, <2>1
    <3> QED
      BY <1>4, <3>1 DEF settled
  <2>2. settled(e[2])'
    BY <1>1, <1>2, <1>3, <1>4, InstanceFacts DEF settled
  <2> QED
    BY <2>1, <2>2
<1>6. (\A o : open(o)' = open(o) \ {e[2]}) /\ openGoals' = openGoals \ {e[2]}
  <2>1. ASSUME NEW o PROVE precs(in, o)' = precs(in, o)
    BY <1>4 DEF precs
  <2> QED
    BY <1>4, <1>5, <2>1 DEF open, openGoals
<1> QED
  BY <1>1, <1>2, <1>3, <1>5, <1>6

LEMMA SettleIInv == ASSUME IInv, NEW e \in queue, Settle(e) PROVE IInv'
<1> DEFINE f == e[2]
<1> USE DEF Settle, top
<1>1. /\ in' = in /\ hValProp' = hValProp /\ hValOp' = hValOp /\ pc = "loop" /\ todo = {}
      /\ numSatPrecs' = numSatPrecs /\ in \in Instances /\ LoopInv /\ TypeOK
      /\ goalsLeft' = goalsLeft /\ needToMark' = needToMark /\ markedFs' = markedFs
      /\ markedOps' = markedOps /\ reachedBy' = reachedBy /\ queue' = queue \ {e}
  BY DEF IInv, marking
<1>2. /\ f \in in.facts /\ e[1] \in Nat /\ e[1] < MaxInt /\ e = <<hValProp[f], f>>
      /\ ~ settled(f)
      /\ \A x : settled(x)' <=> settled(x) \/ x = f
      /\ \A o : open(o)' = open(o) \ {f}
      /\ openGoals' = openGoals \ {f}
  BY SettleFacts
<1>3. /\ IsFiniteSet(openGoals)
      /\ f \in in.g => f \in openGoals
      /\ numGoals \in Nat /\ numGoals > 0 /\ numGoals = Cardinality(openGoals)
  BY <1>1, <1>2, InstanceFacts, FS_Subset DEF openGoals, LoopInv, TypeOK
<1>4. numGoals' \in Nat /\ numGoals' = Cardinality(openGoals')
  <2>1. CASE f \in in.g
    BY <2>1, <1>2, <1>3, OneLess
  <2>2. CASE f \notin in.g
    BY <2>2, <1>2, <1>3 DEF openGoals
  <2> QED
    BY <2>1, <2>2
<1>5. \A x \in in.s : hValProp'[x] # MaxInt
  BY <1>1 DEF IInv
<1>6. CASE f \in in.g /\ numGoals' = 0
  <2>1. \A x \in in.g : hValProp[x] # MaxInt
    <3>1. openGoals = {f}
      <4>1. numGoals - 1 = 0
        BY <1>6
      <4>2. Cardinality(openGoals) = 1 /\ f \in openGoals
        BY <1>3, <1>6, <4>1
      <4> HIDE DEF f
      <4> QED
        BY <1>3, <4>2, OneLess
    <3>2. ASSUME NEW x \in in.g, x # f PROVE settled(x)
      BY <3>1, <3>2 DEF openGoals
    <3>3. hValProp[f] # MaxInt
      BY <1>2
    <3> QED
      BY <3>2, <3>3 DEF settled
  <2>2. TypeOK' /\ cur'[1] \in Nat
    BY <1>1, <1>4, <1>6 DEF TypeOK, IInv
  <2>3. CASE in.heuristic = "add"
    <3>1. pc' = "done" /\ value' = sumOfGoals
      BY <1>6, <2>3
    <3>2. sumOfGoals' = sumOfGoals
      BY <1>1 DEF sumOfGoals
    <3>3. in.g \subseteq {x \in in.facts : hValProp[x] # hUnreachable}
      BY <2>1, <1>1, InstanceFacts DEF hUnreachable
    <3>4. UnreachableIsSound'
      BY <1>1, <3>1, <3>2, <3>3 DEF UnreachableIsSound
    <3> QED
      BY <1>1, <1>5, <2>2, <3>1, <3>4 DEF IInv
  <2>4. CASE in.heuristic # "add"
    <3>1. pc' = "mark"
      BY <1>6, <2>4
    <3> QED
      BY <1>1, <1>5, <2>1, <2>2, <3>1 DEF IInv
  <2> QED
    BY <2>3, <2>4
<1>7. CASE ~ (f \in in.g /\ numGoals' = 0)
  <2>1. cur' = e /\ todo' = precToAction(in, f) /\ pc' = "loop"
    BY <1>1, <1>7
  <2>2. TypeOK'
    BY <1>1, <1>2, <1>4, <2>1 DEF TypeOK, precToAction
  <2>3. \A d \in queue' : cur'[1] <= d[1] /\ hValProp'[d[2]] <= d[1] /\ d[1] < MaxInt
    BY <1>1, <2>1 DEF LoopInv
  <2>4. \A x \in in.facts : settled(x)' => hValProp'[x] <= cur'[1]
    <3>1. cur[1] <= e[1] /\ cur[1] \in Nat /\ hValProp[f] = e[1]
      BY <1>1, <1>2 DEF LoopInv, IInv
    <3>2. \A x \in in.facts : hValProp[x] \in Nat
      BY <1>1, InstanceFacts DEF TypeOK, Values
    <3> QED
      BY <1>1, <1>2, <2>1, <3>1, <3>2 DEF LoopInv
  <2>5. ASSUME NEW o \in Ops(in)
        PROVE  numSatPrecs'[o] = Cardinality(open(o)') + (IF o \in todo' THEN 1 ELSE 0)
    <3>1. IsFiniteSet(open(o)) /\ numSatPrecs[o] = Cardinality(open(o))
      <4>1. IsFiniteSet(precs(in, o)) /\ open(o) \subseteq precs(in, o)
        BY <1>1, InstanceFacts DEF open
      <4>2. IsFiniteSet(open(o)) /\ Cardinality(open(o)) \in Nat
        BY <4>1, FS_Subset, FS_CardinalityType
      <4>3. numSatPrecs[o] = Cardinality(open(o)) + (IF o \in todo THEN 1 ELSE 0)
        BY <1>1 DEF LoopInv
      <4> QED
        BY <1>1, <4>2, <4>3
    <3>2. CASE f \in precs(in, o)
      <4>1. f \in open(o) /\ o \in todo'
        BY <3>2, <1>2, <2>1 DEF open, precToAction
      <4> QED
        BY <4>1, <3>1, <1>1, <1>2, OneLess
    <3>3. CASE f \notin precs(in, o)
      <4>1. open(o)' = open(o) /\ o \notin todo'
        BY <3>3, <1>2, <2>1 DEF open, precToAction
      <4> QED
        BY <4>1, <3>1, <1>1, FS_CardinalityType
    <3> QED
      BY <3>2, <3>3
  <2>6. numGoals' > 0
    BY <1>3, <1>4, <1>7
  <2>7. LoopInv'
    BY <1>1, <1>4, <2>3, <2>4, <2>5, <2>6 DEF LoopInv
  <2> QED
    BY <1>1, <1>2, <1>5, <2>1, <2>2, <2>7 DEF IInv
<1> QED
  BY <1>6, <1>7
(* What newVal returns when no sum overflowed.                             *)
LEMMA NewValInRange ==
  ASSUME TypeOK, in \in Instances, NEW o \in Ops(in), cur[1] \in Nat, cur[1] <= MaxInt
  PROVE  newVal(o) \in Int /\ newVal(o) <= MaxInt
<1>1. MaxInt \in Nat /\ hValOp[o] \in 0 .. MaxInt /\ in.cost[o] \in Nat
  BY InstanceFacts DEF TypeOK, Values
<1>2. /\ wrap(hValOp[o] + cur[1]) \in Int /\ wrap(hValOp[o] + cur[1]) <= MaxInt
      /\ wrap(in.cost[o] + cur[1]) \in Int /\ wrap(in.cost[o] + cur[1]) <= MaxInt
  BY <1>1, WrapBelow
<1>3. \A w \in Int : w <= MaxInt => Max({hValOp[o], w}) \in Int /\ Max({hValOp[o], w}) <= MaxInt
  BY <1>1, MaxOfTwo
<1> QED
  BY <1>2, <1>3 DEF newVal

(* An action costs at least its fact in hand, so the facts it makes        *)
(* cheaper are not settled: their value is above the one in hand.          *)
LEMMA RelaxIInv == ASSUME IInv, NEW o \in todo, Relax(o) PROVE IInv'
<1> DEFINE v      == newVal(o)
           better == IF numSatPrecs[o] = 1 THEN {f \in in.add[o] : v < hValProp[f]} ELSE {}
<1>1. /\ in \in Instances /\ TypeOK /\ o \in Ops(in) /\ cur[1] \in 0 .. MaxInt
      /\ MaxInt \in Nat \ {0, 1} /\ v \in Int /\ v <= MaxInt
      /\ \A f \in in.facts : hValProp[f] \in Nat /\ hValProp[f] <= MaxInt
      /\ \A p \in Ops(in) : hValOp[p] \in Nat /\ hValOp[p] <= MaxInt /\ in.add[p] \subseteq in.facts
  <2>1. in \in Instances /\ TypeOK /\ o \in Ops(in) /\ cur[1] \in 0 .. MaxInt
    BY DEF IInv, TypeOK, Values
  <2>2. v \in Int /\ v <= MaxInt /\ MaxInt \in Nat \ {0, 1}
    BY <2>1, NewValInRange, InstanceFacts
  <2>3. /\ \A f \in in.facts : hValProp[f] \in Nat /\ hValProp[f] <= MaxInt
        /\ \A p \in Ops(in) : hValOp[p] \in Nat /\ hValOp[p] <= MaxInt
    BY <2>1, <2>2 DEF TypeOK, Values
  <2> QED
    BY <2>1, <2>2, <2>3, InstanceFacts
<1>2. /\ in' = in /\ numGoals' = numGoals /\ cur' = cur /\ goalsLeft' = goalsLeft
      /\ needToMark' = needToMark /\ markedFs' = markedFs /\ markedOps' = markedOps
  BY DEF Relax, marking
<1>3. CASE v < hValOp[o] \/ v < cur[1]
  <2>1. /\ pc' = "done" /\ value' = MaxInt - 2 /\ todo' = {} /\ queue' = queue
        /\ hValProp' = hValProp /\ hValOp' = hValOp /\ numSatPrecs' = numSatPrecs
        /\ reachedBy' = reachedBy
    BY <1>3 DEF Relax
  <2>2. value' # hUnreachable
    BY <2>1, <1>1 DEF hUnreachable
  <2> QED
    BY <1>1, <1>2, <2>1, <2>2 DEF IInv, TypeOK, UnreachableIsSound, hUnreachable
<1>4. CASE ~ (v < hValOp[o] \/ v < cur[1])
  <2>1. /\ todo' = todo \ {o} /\ hValOp' = [hValOp EXCEPT ![o] = v]
        /\ numSatPrecs' = [numSatPrecs EXCEPT ![o] = @ - 1]
        /\ hValProp' = [f \in in.facts |-> IF f \in better THEN v ELSE hValProp[f]]
        /\ reachedBy' = [f \in in.facts |-> IF f \in better THEN o ELSE reachedBy[f]]
        /\ queue' = queue \cup ({v} \X better) /\ pc' = pc
    BY <1>4 DEF Relax
  <2>2. /\ v \in Nat /\ v >= hValOp[o] /\ v >= cur[1]
        /\ better \subseteq in.facts
        /\ \A f \in better : f \in in.add[o] /\ v < hValProp[f] /\ v < MaxInt
    BY <1>1, <1>4
  <2>3. /\ \A f \in in.facts : hValProp'[f] = IF f \in better THEN v ELSE hValProp[f]
        /\ \A p \in Ops(in) : hValOp'[p] = IF p = o THEN v ELSE hValOp[p]
        /\ \A p \in Ops(in) : numSatPrecs'[p] = IF p = o THEN numSatPrecs[p] - 1 ELSE numSatPrecs[p]
        /\ \A f \in in.facts : hValProp'[f] \in Nat /\ hValProp'[f] <= hValProp[f]
    <3> HIDE DEF v, better
    <3>1. \A f \in in.facts : hValProp'[f] = IF f \in better THEN v ELSE hValProp[f]
      BY <2>1
    <3>2. \A f \in in.facts : hValProp'[f] \in Nat /\ hValProp'[f] <= hValProp[f]
      <4>1. ASSUME NEW f \in better PROVE v \in Nat /\ v < hValProp[f]
        BY <2>2
      <4> QED
        BY <1>1, <3>1, <4>1
    <3>3. /\ \A p \in Ops(in) : hValOp'[p] = IF p = o THEN v ELSE hValOp[p]
          /\ \A p \in Ops(in) : numSatPrecs'[p] = IF p = o THEN numSatPrecs[p] - 1 ELSE numSatPrecs[p]
      BY <1>1, <2>1 DEF TypeOK
    <3> QED
      BY <3>1, <3>2, <3>3
  <2>4. pc = "loop" => LoopInv
    BY DEF IInv
  <2>5. pc = "loop"
    BY DEF IInv, Relax
  <2> HIDE DEF v, better
  <2>6. \A f \in in.s : hValProp'[f] # MaxInt
    BY <1>1, <2>2, <2>3, InstanceFacts DEF IInv
  <2>7. numSatPrecs[o] \in Nat /\ numSatPrecs[o] >= 1
    <3>1. numSatPrecs[o] = Cardinality(open(o)) + 1
      BY <1>1, <2>4, <2>5 DEF LoopInv
    <3>2. open(o) \subseteq precs(in, o) /\ IsFiniteSet(precs(in, o))
      BY <1>1, InstanceFacts DEF open
    <3>3. Cardinality(open(o)) \in Nat
      BY <3>2, FS_Subset, FS_CardinalityType
    <3> QED
      BY <3>1, <3>3
  <2>8. TypeOK'
    <3>1. queue' \subseteq Values \X in.facts
      BY <1>1, <2>1, <2>2 DEF TypeOK, Values
    <3>2. hValProp' \in [in.facts -> Values] /\ reachedBy' \in [in.facts -> Ops(in) \cup {NOACTION}]
      BY <1>1, <2>1, <2>2 DEF TypeOK, Values
    <3>3. hValOp' \in [Ops(in) -> Values] /\ numSatPrecs' \in [Ops(in) -> Nat]
      BY <1>1, <2>1, <2>2, <2>7 DEF TypeOK, Values
    <3> QED
      BY <1>1, <1>2, <2>1, <3>1, <3>2, <3>3 DEF TypeOK
  <2>9. ASSUME NEW f \in in.facts PROVE settled(f)' <=> settled(f)
    <3>1. CASE f \in better
      <4>1. ~ settled(f)
        BY <3>1, <1>1, <2>2, <2>4, <2>5 DEF LoopInv
      <4>2. hValProp'[f] = v /\ <<v, f>> \in queue'
        BY <3>1, <2>1, <2>3
      <4>3. ~ settled(f)'
        BY <4>2 DEF settled
      <4> QED
        BY <4>1, <4>3
    <3>2. CASE f \notin better
      BY <3>2, <2>1, <2>3 DEF settled
    <3> QED
      BY <3>1, <3>2
  <2>10. (\A p \in Ops(in) : open(p)' = open(p)) /\ openGoals' = openGoals
    <3>1. ASSUME NEW p \in Ops(in) PROVE precs(in, p)' = precs(in, p) /\ precs(in, p) \subseteq in.facts
      BY <1>1, <1>2, InstanceFacts DEF precs
    <3>2. in.g \subseteq in.facts
      BY <1>1, InstanceFacts
    <3> QED
      BY <1>2, <2>9, <3>1, <3>2 DEF open, openGoals
  <2>11. LoopInv'
    <3>1. \A d \in queue' : cur'[1] <= d[1] /\ hValProp'[d[2]] <= d[1] /\ d[1] < MaxInt
      <4>1. ASSUME NEW d \in queue PROVE cur'[1] <= d[1] /\ hValProp'[d[2]] <= d[1] /\ d[1] < MaxInt
        <5>1. d[1] \in Nat /\ d[2] \in in.facts
          BY <1>1 DEF TypeOK, Values
        <5>2. cur[1] <= d[1] /\ hValProp[d[2]] <= d[1] /\ d[1] < MaxInt
          BY <2>4, <2>5 DEF LoopInv
        <5> QED
          BY <1>1, <1>2, <2>3, <5>1, <5>2
      <4>2. ASSUME NEW f \in better PROVE cur'[1] <= v /\ hValProp'[f] <= v /\ v < MaxInt
        BY <1>2, <2>2, <2>3
      <4> QED
        BY <2>1, <4>1, <4>2
    <3>2. \A f \in in.facts : settled(f)' => hValProp'[f] <= cur'[1]
      BY <1>1, <1>2, <2>3, <2>4, <2>5, <2>9 DEF LoopInv
    <3>3. ASSUME NEW p \in Ops(in)
          PROVE  numSatPrecs'[p] = Cardinality(open(p)') + (IF p \in todo' THEN 1 ELSE 0)
      <4>1. numSatPrecs[p] = Cardinality(open(p)) + (IF p \in todo THEN 1 ELSE 0)
        BY <2>4, <2>5 DEF LoopInv
      <4>2. open(p) \subseteq precs(in, p) /\ IsFiniteSet(precs(in, p))
        BY <1>1, InstanceFacts DEF open
      <4>3. Cardinality(open(p)) \in Nat
        BY <4>2, FS_Subset, FS_CardinalityType
      <4> QED
        BY <2>1, <2>3, <2>10, <4>1, <4>3
    <3>4. ASSUME NEW p \in Ops(in), numSatPrecs'[p] = 0, NEW f \in in.add[p]
          PROVE  hValProp'[f] <= hValOp'[p]
      <4>1. f \in in.facts
        BY <1>1
      <4>2. CASE p = o
        <5>1. numSatPrecs[o] = 1
          BY <4>2, <2>3, <2>7, <3>4
        <5> QED
          BY <4>1, <4>2, <5>1, <1>1, <2>2, <2>3 DEF better
      <4>3. CASE p # o
        <5>1. hValProp[f] <= hValOp[p]
          BY <4>3, <2>3, <2>4, <2>5, <3>4 DEF LoopInv
        <5> QED
          BY <4>1, <4>3, <5>1, <1>1, <2>3
      <4> QED
        BY <4>2, <4>3
    <3> QED
      BY <1>2, <2>4, <2>5, <2>10, <3>1, <3>2, <3>3, <3>4 DEF LoopInv
  <2> QED
    BY <1>1, <1>2, <2>1, <2>5, <2>6, <2>8, <2>11 DEF IInv
<1> QED
  BY <1>3, <1>4

(* With an empty heap the settled facts are those with a value, and an     *)
(* action without open preconditions has handed its value on.              *)
LEMMA ExhaustedIInv == ASSUME IInv, Exhausted PROVE IInv'
<1> DEFINE X == {f \in in.facts : hValProp[f] # hUnreachable}
<1>1. /\ in \in Instances /\ TypeOK /\ LoopInv /\ queue = {} /\ todo = {}
      /\ pc' = "done" /\ in' = in /\ hValProp' = hValProp /\ hValOp' = hValOp
  BY DEF IInv, Exhausted, search
<1>2. \A f \in in.facts : settled(f) <=> f \in X
  BY <1>1 DEF settled, hUnreachable
<1>3. in.s \subseteq X
  BY <1>1, InstanceFacts DEF IInv, hUnreachable
<1>4. ~ (in.g \subseteq X)
  <2>1. SUFFICES ASSUME in.g \subseteq X PROVE FALSE
    OBVIOUS
  <2>2. openGoals = {}
    BY <1>1, <1>2, <2>1 DEF openGoals
  <2> QED
    BY <1>1, <2>2, FS_EmptySet DEF LoopInv
<1>5. ASSUME NEW o \in Ops(in), hValOp[o] # hUnreachable, precs(in, o) \subseteq X, NEW f \in in.add[o]
      PROVE  f \in X
  <2>1. open(o) = {}
    BY <1>2, <1>5 DEF open
  <2>2. numSatPrecs[o] = 0
    BY <1>1, <2>1, FS_EmptySet DEF LoopInv
  <2>3. hValProp[f] <= hValOp[o]
    BY <1>1, <2>2, <1>5 DEF LoopInv
  <2>4. f \in in.facts /\ hValProp[f] \in 0 .. MaxInt /\ hValOp[o] \in 0 .. MaxInt /\ MaxInt \in Nat
    BY <1>1, InstanceFacts DEF TypeOK, Values
  <2> QED
    BY <1>5, <2>3, <2>4 DEF hUnreachable
<1>6. ClosedUnder(in, {o \in Ops(in) : hValOp[o] # hUnreachable}, X)
  BY <1>5 DEF ClosedUnder
<1>7. UnreachableIsSound'
  BY <1>1, <1>3, <1>4, <1>6 DEF UnreachableIsSound
<1>8. TypeOK'
  BY <1>1 DEF TypeOK, Exhausted, search, marking
<1> QED
  BY <1>1, <1>7, <1>8 DEF IInv, Exhausted, search

(* The extraction leaves the search's arrays alone.                        *)
LEMMA MarkingIInv ==
  ASSUME IInv, \/ \E f \in goalsLeft : VisitGoal(f)
               \/ Mark
  PROVE  IInv'
<1>1. /\ pc = "mark" /\ pc' = pc /\ in' = in /\ search' = search
      /\ goalsLeft' \subseteq goalsLeft
  BY DEF VisitGoal, Mark
<1>2. TypeOK'
  BY <1>1 DEF IInv, TypeOK, search
<1> QED
  BY <1>1, <1>2 DEF IInv, search

LEMMA ExtractedIInv == ASSUME IInv, Extracted PROVE IInv'
<1>1. /\ pc = "mark" /\ pc' = "done" /\ in' = in /\ search' = search /\ marking' = marking
      /\ value' = sumOfPlan
  BY DEF Extracted
<1>2. sumOfPlan' = sumOfPlan /\ sumOfGoals' = sumOfGoals
  BY <1>1 DEF sumOfPlan, sumOfGoals, search, marking
<1>3. in.g \subseteq {f \in in.facts : hValProp[f] # hUnreachable}
  BY <1>1, InstanceFacts DEF IInv, hUnreachable
<1>4. UnreachableIsSound'
  BY <1>1, <1>2, <1>3 DEF UnreachableIsSound, search
<1>5. TypeOK'
  BY <1>1 DEF IInv, TypeOK, search, marking
<1> QED
  BY <1>1, <1>4, <1>5 DEF IInv, search

-----------------------------------------------------------------------------
LEMMA StepIInv == ASSUME IInv, [Next]_vars PROVE IInv'
<1>1. CASE \E e \in queue : Skip(e) \/ Settle(e)
  BY <1>1, SkipIInv, SettleIInv
<1>2. CASE \E o \in todo : Relax(o)
  BY <1>2, RelaxIInv
<1>3. CASE Exhausted
  BY <1>3, ExhaustedIInv
<1>4. CASE (\E f \in goalsLeft : VisitGoal(f)) \/ Mark
  BY <1>4, MarkingIInv
<1>5. CASE Extracted
  BY <1>5, ExtractedIInv
<1>6. CASE UNCHANGED vars
  <2>1. /\ in' = in /\ pc' = pc /\ search' = search /\ marking' = marking /\ value' = value
    BY <1>6 DEF vars
  <2>2. TypeOK'
    BY <2>1 DEF IInv, TypeOK, search, marking
  <2>3. LoopInv' <=> LoopInv
    <3>1. (\A f : settled(f)' <=> settled(f)) /\ (\A o : precs(in, o)' = precs(in, o))
      BY <2>1 DEF settled, search, precs
    <3>2. (\A o : open(o)' = open(o)) /\ openGoals' = openGoals
      BY <2>1, <3>1 DEF open, openGoals
    <3> QED
      BY <2>1, <3>1, <3>2 DEF LoopInv, search
  <2>4. sumOfPlan' = sumOfPlan /\ sumOfGoals' = sumOfGoals
    BY <2>1 DEF sumOfPlan, sumOfGoals, search, marking
  <2>5. UnreachableIsSound' <=> UnreachableIsSound
    BY <2>1, <2>4 DEF UnreachableIsSound, search
  <2> QED
    BY <2>1, <2>2, <2>3, <2>5 DEF IInv, search
<1> QED
  BY <1>1, <1>2, <1>3, <1>4, <1>5, <1>6 DEF Next, Terminating

LEMMA Invariance == Spec => []IInv
<1>1. Init => IInv
  BY InitIInv
<1>2. IInv /\ [Next]_vars => IInv'
  BY StepIInv
<1> QED
  BY <1>1, <1>2, PTL DEF Spec
-----------------------------------------------------------------------------
(* The plan getFF extracts.  reachedBy leads from a fact with a value to   *)
(* an action whose preconditions are settled, and along it all that is     *)
(* settled comes from the state: there is no circle, though actions may be *)
(* free and entries are overwritten.                                       *)
settledFacts == {f \in in.facts : settled(f)}

FollowsReachers(X) ==
  /\ in.s \subseteq X
  /\ \A f \in settledFacts :
       reachedBy[f] # NOACTION /\ precs(in, reachedBy[f]) \subseteq X => f \in X

ReachersInv ==
  /\ \A f \in in.facts : reachedBy[f] # NOACTION =>
       f \in in.add[reachedBy[f]] /\ precs(in, reachedBy[f]) \subseteq settledFacts
  /\ \A f \in in.facts : hValProp[f] # MaxInt => f \in in.s \/ reachedBy[f] # NOACTION
  /\ \A X \in SUBSET in.facts : FollowsReachers(X) => settledFacts \subseteq X

(* What is marked has its action marked, and the preconditions of marked   *)
(* actions and the goals are marked or will be.                            *)
elements(q) == {q[i] : i \in DOMAIN q}
stacked     == elements(needToMark)
planIsFound == pc = "done" /\ in.heuristic = "ff" /\ value \notin {hUnreachable, MaxInt - 2}

MarkInv ==
  /\ needToMark \in Seq(in.facts)
  /\ markedFs \cup stacked \subseteq settledFacts
  /\ \A f \in markedFs : reachedBy[f] # NOACTION => reachedBy[f] \in markedOps
  /\ markedOps \subseteq Ops(in)
  /\ \A o \in markedOps : precs(in, o) \subseteq markedFs \cup stacked
  /\ in.g \subseteq goalsLeft \cup markedFs \cup stacked
  /\ pc = "mark" => in.g \subseteq settledFacts
  /\ pc = "loop" => markedFs = {} /\ needToMark = << >> /\ markedOps = {}
  /\ planIsFound => in.g = {} \/ (goalsLeft = {} /\ needToMark = << >>)

LEMMA SameReachers ==
  ASSUME ReachersInv, in' = in, reachedBy' = reachedBy, hValProp' = hValProp,
         \A f : settled(f)' <=> settled(f)
  PROVE  ReachersInv'
<1>1. settledFacts' = settledFacts
  BY DEF settledFacts
<1>2. \A X : FollowsReachers(X)' <=> FollowsReachers(X)
  BY <1>1 DEF FollowsReachers, precs
<1> QED
  BY <1>1, <1>2 DEF ReachersInv, precs

LEMMA SkipReachers == ASSUME IInv, ReachersInv, NEW e \in queue, Skip(e) PROVE ReachersInv'
<1>1. /\ hValProp[e[2]] < e[1] /\ queue' = queue \ {e}
      /\ in' = in /\ reachedBy' = reachedBy /\ hValProp' = hValProp
  BY DEF Skip, top
<1>2. e = <<e[1], e[2]>> /\ e[2] \in in.facts /\ e[1] \in Nat /\ hValProp[e[2]] \in Nat
  BY InstanceFacts DEF IInv, TypeOK, Values
<1>3. \A f : settled(f)' <=> settled(f)
  BY <1>1, <1>2 DEF settled
<1> QED
  BY <1>1, <1>3, SameReachers

(* The fact in hand comes from facts that were settled before it.          *)
LEMMA SettleReachers == ASSUME IInv, ReachersInv, NEW e \in queue, Settle(e) PROVE ReachersInv'
<1>1. in' = in /\ reachedBy' = reachedBy /\ hValProp' = hValProp
  BY DEF Settle
<1>2. /\ e[2] \in in.facts /\ e = <<hValProp[e[2]], e[2]>> /\ e[1] < MaxInt /\ e[1] \in Nat
      /\ \A f : settled(f)' <=> settled(f) \/ f = e[2]
  BY SettleFacts
<1>3. settledFacts' = settledFacts \cup {e[2]}
  BY <1>1, <1>2 DEF settledFacts
<1>4. e[2] \in in.s \/ reachedBy[e[2]] # NOACTION
  <2>1. hValProp[e[2]] # MaxInt
    BY <1>2
  <2> QED
    BY <1>2, <2>1 DEF ReachersInv
<1>5. ASSUME NEW X \in SUBSET in.facts, FollowsReachers(X)' PROVE settledFacts' \subseteq X
  <2>1. /\ in.s \subseteq X
        /\ \A f \in settledFacts' :
             reachedBy[f] # NOACTION /\ precs(in, reachedBy[f]) \subseteq X => f \in X
    BY <1>1, <1>5 DEF FollowsReachers, precs
  <2>2. FollowsReachers(X)
    BY <1>3, <2>1 DEF FollowsReachers
  <2>3. settledFacts \subseteq X
    BY <2>2 DEF ReachersInv
  <2>4. CASE e[2] \in in.s
    BY <1>3, <2>1, <2>3, <2>4
  <2>5. CASE reachedBy[e[2]] # NOACTION
    <3>1. precs(in, reachedBy[e[2]]) \subseteq X
      BY <1>2, <2>3, <2>5 DEF ReachersInv
    <3> QED
      BY <1>3, <2>1, <2>3, <2>5, <3>1
  <2> QED
    BY <1>4, <2>4, <2>5
<1>6. \A f \in in.facts : reachedBy[f] # NOACTION =>
        f \in in.add[reachedBy[f]] /\ precs(in, reachedBy[f]) \subseteq settledFacts'
  BY <1>3 DEF ReachersInv
<1> QED
  BY <1>1, <1>5, <1>6 DEF ReachersInv, precs

(* The facts an action makes cheaper are not settled, and its              *)
(* preconditions are.                                                      *)
LEMMA RelaxReachers == ASSUME IInv, ReachersInv, NEW o \in todo, Relax(o) PROVE ReachersInv'
<1> DEFINE v      == newVal(o)
           better == IF numSatPrecs[o] = 1 THEN {f \in in.add[o] : v < hValProp[f]} ELSE {}
<1>1. /\ in \in Instances /\ TypeOK /\ o \in Ops(in) /\ cur[1] \in 0 .. MaxInt
      /\ MaxInt \in Nat \ {0, 1} /\ v \in Int /\ v <= MaxInt
      /\ \A f \in in.facts : hValProp[f] \in Nat /\ hValProp[f] <= MaxInt
      /\ hValOp[o] \in Nat /\ in.add[o] \subseteq in.facts
      /\ pc = "loop" /\ LoopInv /\ in' = in
  <2>1. in \in Instances /\ TypeOK /\ o \in Ops(in) /\ cur[1] \in 0 .. MaxInt
    BY DEF IInv, TypeOK, Values
  <2>2. v \in Int /\ v <= MaxInt /\ MaxInt \in Nat \ {0, 1}
    BY <2>1, NewValInRange, InstanceFacts
  <2>3. (\A f \in in.facts : hValProp[f] \in Nat /\ hValProp[f] <= MaxInt) /\ hValOp[o] \in Nat
    BY <2>1, <2>2 DEF TypeOK, Values
  <2>4. pc = "loop" /\ LoopInv /\ in' = in
    BY DEF IInv, Relax
  <2> QED
    BY <2>1, <2>2, <2>3, <2>4, InstanceFacts
<1>2. CASE v < hValOp[o] \/ v < cur[1]
  <2>1. queue' = queue /\ hValProp' = hValProp /\ reachedBy' = reachedBy
    BY <1>2 DEF Relax
  <2>2. \A f : settled(f)' <=> settled(f)
    BY <2>1 DEF settled
  <2> QED
    BY <1>1, <2>1, <2>2, SameReachers
<1>3. CASE ~ (v < hValOp[o] \/ v < cur[1])
  <2>1. /\ hValProp' = [f \in in.facts |-> IF f \in better THEN v ELSE hValProp[f]]
        /\ reachedBy' = [f \in in.facts |-> IF f \in better THEN o ELSE reachedBy[f]]
        /\ queue' = queue \cup ({v} \X better)
    BY <1>3 DEF Relax
  <2>2. /\ v \in Nat /\ v >= cur[1] /\ better \subseteq in.facts
        /\ \A f \in better : f \in in.add[o] /\ v < hValProp[f] /\ v < MaxInt
        /\ better # {} => numSatPrecs[o] = 1
    BY <1>1, <1>3
  <2> HIDE DEF v, better
  <2>3. ASSUME NEW f \in better PROVE ~ settled(f) /\ ~ settled(f)'
    <3>1. ~ settled(f)
      BY <1>1, <2>2 DEF LoopInv
    <3>2. hValProp'[f] = v /\ <<v, f>> \in queue'
      BY <2>1, <2>2
    <3> QED
      BY <3>1, <3>2 DEF settled
  <2>4. ASSUME NEW f \in in.facts, f \notin better PROVE settled(f)' <=> settled(f)
    BY <2>1, <2>4 DEF settled
  <2>5. settledFacts' = settledFacts
    BY <1>1, <2>3, <2>4 DEF settledFacts
  <2>6. ASSUME better # {} PROVE precs(in, o) \subseteq settledFacts
    <3>1. Cardinality(open(o)) = 0 /\ open(o) \subseteq precs(in, o)
      <4>1. numSatPrecs[o] = Cardinality(open(o)) + 1
        BY <1>1 DEF LoopInv
      <4>2. open(o) \subseteq precs(in, o) /\ IsFiniteSet(precs(in, o))
        BY <1>1, InstanceFacts DEF open
      <4>3. Cardinality(open(o)) \in Nat
        BY <4>2, FS_Subset, FS_CardinalityType
      <4> QED
        BY <2>2, <2>6, <4>1, <4>2, <4>3
    <3>2. open(o) = {} /\ precs(in, o) \subseteq in.facts
      BY <1>1, <3>1, InstanceFacts, FS_Subset, FS_EmptySet
    <3> QED
      BY <3>2 DEF open, settledFacts
  <2>7. ASSUME NEW f \in in.facts, reachedBy'[f] # NOACTION
        PROVE  f \in in.add[reachedBy'[f]] /\ precs(in, reachedBy'[f]) \subseteq settledFacts
    <3>1. CASE f \in better
      BY <2>1, <2>2, <2>6, <3>1
    <3>2. CASE f \notin better
      BY <2>1, <2>7, <3>2 DEF ReachersInv
    <3> QED
      BY <3>1, <3>2
  <2>8. ASSUME NEW f \in in.facts, hValProp'[f] # MaxInt
        PROVE  f \in in.s \/ reachedBy'[f] # NOACTION
    <3>1. CASE f \in better
      <4>1. o # NOACTION
        BY <1>1, InstanceFacts DEF NOACTION
      <4> QED
        BY <2>1, <3>1, <4>1
    <3>2. CASE f \notin better
      BY <2>1, <2>8, <3>2 DEF ReachersInv
    <3> QED
      BY <3>1, <3>2
  <2>9. ASSUME NEW X \in SUBSET in.facts, FollowsReachers(X)' PROVE settledFacts \subseteq X
    <3>1. /\ in.s \subseteq X
          /\ \A f \in settledFacts :
               reachedBy'[f] # NOACTION /\ precs(in, reachedBy'[f]) \subseteq X => f \in X
      BY <1>1, <2>5, <2>9 DEF FollowsReachers, precs
    <3>2. \A f \in settledFacts : reachedBy'[f] = reachedBy[f]
      BY <2>1, <2>3 DEF settledFacts
    <3>3. FollowsReachers(X)
      BY <3>1, <3>2 DEF FollowsReachers
    <3> QED
      BY <3>3 DEF ReachersInv
  <2> QED
    BY <1>1, <2>5, <2>7, <2>8, <2>9 DEF ReachersInv, precs
<1> QED
  BY <1>2, <1>3

(* The facts that actions reach: as many rounds as there are actions are   *)
(* enough, because a round that makes no further action applicable is the  *)
(* last that adds a fact.                                                  *)
LEMMA ReachIsClosed ==
  ASSUME NEW i, NEW ops, IsFiniteSet(ops)
  PROVE  i.s \subseteq relaxedReach(i, ops) /\ ClosedUnder(i, ops, relaxedReach(i, ops))
<1> DEFINE N       == Cardinality(ops)
           D       == 1 .. N
           U       == i.s \cup UNION {i.add[o] : o \in ops}
           W       == SUBSET U
           usableIn(Y) == {p \in ops : precs(i, p) \subseteq Y}
           grow(Y) == Y \cup UNION {i.add[o] : o \in usableIn(Y)}
           step    == [Y \in W |-> grow(Y)]
           steps   == [r \in D |-> step]
           all(h)  == [s \in SUBSET D |-> IF s = {} THEN i.s ELSE grow(h[s \ {CHOOSE x \in s : TRUE}])]
           it      == CHOOSE h : h = all(h)
<1>1. N \in Nat /\ IsFiniteSet(D) /\ Cardinality(D) = N
  BY FS_CardinalityType, FS_Interval
<1>2. relaxedReach(i, ops) = it[D]
  BY DEF relaxedReach, FoldSet, MapThenFoldSet
<1>3. \A Y \in W : grow(Y) \in W
  OBVIOUS
<1>4. step \in [W -> W] /\ i.s \in W /\ steps \in [D -> [W -> W]]
  BY <1>3
<1>5. \E g : IsIteration(g, W, i.s, step)
  <2> HIDE DEF W, step
  <2> QED
    BY <1>4, Recursion
<1>6. PICK g : IsIteration(g, W, i.s, step)
  BY <1>5
<1>7. /\ g \in [Nat -> W] /\ g[0] = i.s
      /\ \A n \in Nat : g[n + 1] = grow(g[n])
  <2>1. g \in [Nat -> W] /\ g[0] = i.s /\ \A n \in Nat : g[n + 1] = step[g[n]]
    <3> HIDE DEF W, step
    <3> QED
      BY <1>6 DEF IsIteration
  <2>2. \A n \in Nat : g[n] \in W
    BY <2>1
  <2> HIDE DEF W, grow
  <2> QED
    BY <2>1, <2>2
<1>8. \E h : h = all(h)
  <2>1. \E h : IsFold(h, D, W, i.s, steps)
    <3> HIDE DEF D, W, steps
    <3> QED
      BY <1>1, <1>4, FoldExists
  <2>2. PICK h : IsFold(h, D, W, i.s, steps)
    BY <2>1
  <2>3. ASSUME NEW s \in SUBSET D, s # {}
        PROVE  h[s] = grow(h[s \ {chosen(s)}])
    <3>1. chosen(s) \in D /\ h[s \ {chosen(s)}] \in W
      BY <2>2, <2>3 DEF IsFold, chosen
    <3>2. h[s] = steps[chosen(s)][h[s \ {chosen(s)}]]
      BY <2>2, <2>3 DEF IsFold
    <3> HIDE DEF grow, D, W
    <3> QED
      BY <3>1, <3>2
  <2>4. h \in [SUBSET D -> W] /\ h[{}] = i.s
    BY <2>2 DEF IsFold
  <2> HIDE DEF grow, D, W
  <2>5. h = all(h)
    BY <2>3, <2>4 DEF chosen
  <2> HIDE DEF all
  <2> QED
    BY <2>5
<1>9. it = all(it)
  <2> HIDE DEF all
  <2> QED
    BY <1>8
<1> DEFINE T == {s \in SUBSET D : it[s] = g[Cardinality(s)]}
<1>10. {} \in T
  <2> HIDE DEF it
  <2>1. it[{}] = i.s
    BY <1>9
  <2> QED
    BY <1>7, <2>1, FS_EmptySet
<1>11. ASSUME NEW s \in SUBSET D, s # {}, s \ {chosen(s)} \in T PROVE s \in T
  <2> HIDE DEF it, grow
  <2>1. it[s] = grow(it[s \ {chosen(s)}])
    BY <1>9, <1>11 DEF chosen
  <2>2. IsFiniteSet(s) /\ chosen(s) \in s
    <3> HIDE DEF D
    <3> QED
      BY <1>1, <1>11, FS_Subset DEF chosen
  <2>3. Cardinality(s \ {chosen(s)}) \in Nat
        /\ Cardinality(s) = Cardinality(s \ {chosen(s)}) + 1
    <3>1. /\ IsFiniteSet(s \ {chosen(s)}) /\ Cardinality(s) \in Nat
          /\ Cardinality(s \ {chosen(s)}) = Cardinality(s) - 1
      BY <2>2, FS_RemoveElement, FS_CardinalityType
    <3> QED
      BY <3>1, FS_CardinalityType
  <2>4. g[Cardinality(s)] = grow(g[Cardinality(s \ {chosen(s)})])
    BY <1>7, <2>3
  <2> QED
    BY <1>11, <2>1, <2>4
<1>12. SUBSET D \subseteq T
  <2> HIDE DEF T, D
  <2> QED
    BY <1>1, <1>10, <1>11, SubsetInduction
<1>13. relaxedReach(i, ops) = g[N]
  <2> HIDE DEF it, D
  <2> QED
    BY <1>1, <1>2, <1>12
<1> HIDE DEF N, it, W, T
(* a[n] are the actions that were applicable in the rounds before g[n].    *)
<1> DEFINE a == [n \in Nat |-> IF n = 0 THEN {} ELSE usableIn(g[n - 1])]
<1>14. \A n \in Nat : g[n] \subseteq g[n + 1] /\ usableIn(g[n]) \subseteq usableIn(g[n + 1])
  BY <1>7
<1>15. \A n \in Nat : a[n + 1] = usableIn(g[n])
  OBVIOUS
<1>16. \A n \in Nat : a[n] \subseteq a[n + 1]
  <2>1. ASSUME NEW n \in Nat, n # 0 PROVE a[n] \subseteq a[n + 1]
    <3>1. n - 1 \in Nat /\ a[n] = usableIn(g[n - 1]) /\ a[n + 1] = usableIn(g[(n - 1) + 1])
      BY <2>1
    <3> HIDE DEF a, usableIn
    <3> QED
      BY <1>14, <3>1
  <2> QED
    BY <2>1
<1>17. \A n \in Nat : UNION {i.add[o] : o \in a[n]} \subseteq g[n]
  <2>1. ASSUME NEW n \in Nat, n # 0 PROVE UNION {i.add[o] : o \in a[n]} \subseteq g[n]
    <3>1. n - 1 \in Nat /\ a[n] = usableIn(g[n - 1]) /\ g[n] = grow(g[n - 1])
      <4>1. n - 1 \in Nat /\ (n - 1) + 1 = n
        BY <2>1
      <4>2. g[(n - 1) + 1] = grow(g[n - 1])
        BY <1>7, <4>1
      <4> QED
        BY <2>1, <4>1, <4>2
    <3> HIDE DEF a, usableIn
    <3> QED
      BY <3>1
  <2> QED
    BY <2>1
<1>18. ASSUME NEW n \in Nat, a[n + 1] = a[n] PROVE g[n + 1] = g[n]
  <2>1. g[n + 1] = g[n] \cup UNION {i.add[o] : o \in a[n + 1]}
    BY <1>7, <1>15
  <2> HIDE DEF a
  <2> QED
    BY <1>17, <1>18, <2>1
<1>19. \A n \in Nat : a[n + 1] = a[n] => a[n + 2] = a[n + 1]
  <2> SUFFICES ASSUME NEW n \in Nat, a[n + 1] = a[n] PROVE a[n + 2] = a[n + 1]
    OBVIOUS
  <2>1. g[n + 1] = g[n]
    BY <1>18
  <2>2. a[(n + 1) + 1] = usableIn(g[n + 1]) /\ (n + 1) + 1 = n + 2
    BY <1>15
  <2> HIDE DEF a, usableIn
  <2> QED
    BY <1>15, <2>1, <2>2
<1>20. a \in [Nat -> SUBSET ops]
  OBVIOUS
<1> HIDE DEF a
<1>21. a[N + 1] = a[N]
  BY <1>16, <1>19, <1>20, GrowthEnds DEF N
<1>22. UNION {i.add[o] : o \in usableIn(g[N])} \subseteq g[N]
  BY <1>1, <1>15, <1>17, <1>21
<1>23. ClosedUnder(i, ops, g[N])
  BY <1>22 DEF ClosedUnder
<1>24. i.s \subseteq g[N]
  <2> DEFINE S == {n \in Nat : i.s \subseteq g[n]}
  <2>1. 0 \in S
    BY <1>7
  <2>2. \A n \in Nat : n \in S => n + 1 \in S
    BY <1>14
  <2> HIDE DEF S
  <2>3. Nat \subseteq S
    BY <2>1, <2>2, Induction
  <2> QED
    BY <1>1, <2>3 DEF S
<1> QED
  BY <1>13, <1>23, <1>24

LEMMA InitMark == ASSUME Init PROVE ReachersInv /\ MarkInv
<1>1. /\ in \in Instances /\ needToMark = << >> /\ markedFs = {} /\ markedOps = {} /\ goalsLeft = in.g
      /\ pc = IF in.g = {} THEN "done" ELSE "loop"
      /\ queue = {0} \X in.s
      /\ hValProp = [f \in in.facts |-> IF f \in in.s THEN 0 ELSE hUnreachable]
      /\ reachedBy = [f \in in.facts |-> NOACTION]
  BY DEF Init
<1>2. settledFacts = {}
  BY <1>1 DEF settledFacts, settled, hUnreachable
<1>3. ReachersInv
  BY <1>1, <1>2 DEF ReachersInv, hUnreachable
<1>4. MarkInv
  BY <1>1, <1>2 DEF MarkInv, stacked, elements, planIsFound
<1> QED
  BY <1>3, <1>4

(* While the search runs nothing is marked.                                *)
LEMMA SearchMark ==
  ASSUME IInv, MarkInv, pc = "loop", in' = in, marking' = marking,
         ~ planIsFound', pc' = "mark" => in.g \subseteq settledFacts'
  PROVE  MarkInv'
<1>1. /\ needToMark' = needToMark /\ markedFs' = markedFs /\ markedOps' = markedOps
      /\ goalsLeft' = goalsLeft
  BY DEF marking
<1>2. markedFs = {} /\ needToMark = << >> /\ markedOps = {} /\ stacked = {} /\ stacked' = {}
  BY <1>1 DEF MarkInv, stacked, elements
<1> QED
  BY <1>1, <1>2 DEF MarkInv

LEMMA SettleMark == ASSUME IInv, MarkInv, NEW e \in queue, Settle(e) PROVE MarkInv'
<1>1. pc = "loop" /\ in' = in /\ marking' = marking /\ LoopInv /\ in \in Instances
  BY DEF Settle, top, IInv
<1>2. ~ planIsFound'
  <2>1. pc' = "done" => in.heuristic # "ff"
    BY <1>1 DEF Settle
  <2> QED
    BY <1>1, <2>1 DEF planIsFound
<1>3. ASSUME pc' = "mark" PROVE in.g \subseteq settledFacts'
  <2>1. e[2] \in in.g /\ numGoals - 1 = 0 /\ hValProp' = hValProp
    BY <1>1, <1>3 DEF Settle
  <2>2. /\ ~ settled(e[2]) /\ \A f : settled(f)' <=> settled(f) \/ f = e[2]
    BY SettleFacts
  <2>3. openGoals = {e[2]}
    <3>1. e[2] \in openGoals /\ IsFiniteSet(openGoals) /\ Cardinality(openGoals) \in Nat
      BY <1>1, <2>1, <2>2, InstanceFacts, FS_Subset, FS_CardinalityType DEF openGoals
    <3>2. Cardinality(openGoals) = 1
      BY <1>1, <2>1, <3>1 DEF LoopInv
    <3> QED
      BY <3>1, <3>2, OneLess
  <2>4. \A f \in in.g : f \in in.facts /\ settled(f)'
    BY <1>1, <2>2, <2>3, InstanceFacts DEF openGoals
  <2> QED
    BY <1>1, <2>4 DEF settledFacts
<1> QED
  BY <1>1, <1>2, <1>3, SearchMark

(* The steps of the extraction, which leave what is settled alone.         *)
LEMMA StackJoined ==
  ASSUME NEW S, NEW s \in Seq(S), s # << >>, NEW t \in Seq(S)
  PROVE  /\ last(s) \in S /\ front(s) \in Seq(S) /\ front(s) \o t \in Seq(S)
         /\ elements(s) = elements(front(s)) \cup {last(s)}
         /\ elements(front(s) \o t) = elements(front(s)) \cup elements(t)
<1>1. Len(s) \in Nat \ {0} /\ DOMAIN s = 1 .. Len(s) /\ Len(t) \in Nat /\ DOMAIN t = 1 .. Len(t)
  OBVIOUS
<1>2. /\ front(s) \in Seq(S) /\ Len(front(s)) = Len(s) - 1 /\ DOMAIN front(s) = 1 .. Len(s) - 1
      /\ \A i \in 1 .. Len(s) - 1 : front(s)[i] = s[i]
      /\ last(s) = s[Len(s)] /\ last(s) \in S
  BY <1>1 DEF front, last
<1>3. 1 .. Len(s) = (1 .. Len(s) - 1) \cup {Len(s)}
  <2>1. \A n \in Nat \ {0} : 1 .. n = (1 .. n - 1) \cup {n}
    OBVIOUS
  <2> QED
    BY <1>1, <2>1
<1>4. elements(s) = elements(front(s)) \cup {last(s)}
  BY <1>1, <1>2, <1>3 DEF elements
<1>5. ASSUME NEW r \in Seq(S)
      PROVE  elements(r \o t) = elements(r) \cup elements(t)
  <2>1. /\ Len(r) \in Nat /\ Len(t) \in Nat /\ DOMAIN r = 1 .. Len(r) /\ DOMAIN t = 1 .. Len(t)
        /\ DOMAIN (r \o t) = 1 .. Len(r) + Len(t)
        /\ \A i \in 1 .. Len(r) + Len(t) : (r \o t)[i] = IF i <= Len(r) THEN r[i] ELSE t[i - Len(r)]
    BY <1>5
  <2>2. ASSUME NEW i \in DOMAIN (r \o t)
        PROVE  (r \o t)[i] \in {r[j] : j \in DOMAIN r} \cup {t[j] : j \in DOMAIN t}
    <3>1. CASE i <= Len(r)
      BY <2>1, <3>1
    <3>2. CASE ~ (i <= Len(r))
      <4>1. i - Len(r) \in DOMAIN t /\ (r \o t)[i] = t[i - Len(r)]
        BY <2>1, <3>2
      <4> QED
        BY <4>1
    <3> QED
      BY <3>1, <3>2
  <2>3. \A j \in DOMAIN r : j \in DOMAIN (r \o t) /\ (r \o t)[j] = r[j]
    BY <2>1
  <2>4. \A j \in DOMAIN t : j + Len(r) \in DOMAIN (r \o t) /\ (r \o t)[j + Len(r)] = t[j]
    BY <2>1
  <2>5. elements(r \o t) \subseteq elements(r) \cup elements(t)
    BY Zenon, <2>2 DEF elements
  <2>6. elements(r) \subseteq elements(r \o t)
    BY Zenon, <2>3 DEF elements
  <2>7. elements(t) \subseteq elements(r \o t)
    BY Zenon, <2>4 DEF elements
  <2> QED
    BY <2>5, <2>6, <2>7
<1>6. front(s) \o t \in Seq(S)
  BY <1>2
<1> QED
  BY <1>2, <1>4, <1>5, <1>6

LEMMA VisitGoalMark ==
  ASSUME IInv, MarkInv, settledFacts' = settledFacts, NEW f \in goalsLeft, VisitGoal(f)
  PROVE  MarkInv'
<1>1. /\ pc = "mark" /\ pc' = pc /\ in' = in /\ needToMark = << >> /\ needToMark' = <<f>>
      /\ goalsLeft' = goalsLeft \ {f} /\ reachedBy' = reachedBy
      /\ markedFs' = markedFs /\ markedOps' = markedOps
  BY DEF VisitGoal, search
<1>2. f \in in.g /\ f \in in.facts /\ in \in Instances
  BY InstanceFacts DEF IInv, TypeOK
<1>3. stacked = {} /\ stacked' = {f}
  BY <1>1 DEF stacked, elements
<1>4. needToMark' \in Seq(in.facts)
  <2>1. \A S : \A x \in S : <<x>> \in Seq(S)
    OBVIOUS
  <2> QED
    BY <1>1, <1>2, <2>1
<1>5. in.g \subseteq settledFacts
  BY <1>1 DEF MarkInv
<1> QED
  BY <1>1, <1>2, <1>3, <1>4, <1>5 DEF MarkInv, planIsFound, precs, Ops

LEMMA MarkMark ==
  ASSUME IInv, ReachersInv, MarkInv, settledFacts' = settledFacts, Mark
  PROVE  MarkInv'
<1> DEFINE f == last(needToMark)
<1>1. /\ pc = "mark" /\ pc' = pc /\ in' = in /\ needToMark # << >> /\ markedFs' = markedFs \cup {f}
      /\ goalsLeft' = goalsLeft /\ reachedBy' = reachedBy
  BY DEF Mark, search
<1>2. /\ needToMark \in Seq(in.facts) /\ in \in Instances
      /\ markedFs \cup stacked \subseteq settledFacts
      /\ \A x \in markedFs : reachedBy[x] # NOACTION => reachedBy[x] \in markedOps
      /\ markedOps \subseteq Ops(in)
      /\ \A o \in markedOps : precs(in, o) \subseteq markedFs \cup stacked
      /\ in.g \subseteq goalsLeft \cup markedFs \cup stacked
      /\ in.g \subseteq settledFacts
  BY <1>1 DEF MarkInv, IInv
<1> DEFINE rest == elements(front(needToMark))
<1>3. f \in in.facts /\ front(needToMark) \in Seq(in.facts) /\ stacked = rest \cup {f}
  BY <1>1, <1>2, StackJoined DEF stacked
<1> HIDE DEF f
<1>4. CASE f \in markedFs \/ reachedBy[f] = NOACTION
  <2>1. needToMark' = front(needToMark) /\ markedOps' = markedOps
    BY <1>4 DEF Mark, f
  <2>2. stacked' = rest
    BY <2>1 DEF stacked
  <2> HIDE DEF rest
  <2> QED
    BY <1>1, <1>2, <1>3, <1>4, <2>1, <2>2 DEF MarkInv, planIsFound, precs, Ops
<1>5. CASE ~ (f \in markedFs \/ reachedBy[f] = NOACTION)
  <2> DEFINE o == reachedBy[f]
  <2>1. needToMark' = front(needToMark) \o in.prec[o] /\ markedOps' = markedOps \cup {o}
    BY <1>5 DEF Mark, f
  <2>2. o \in Ops(in) /\ o # NOACTION
    BY <1>3, <1>5 DEF IInv, TypeOK
  <2>3. in.prec[o] \in Seq(in.facts)
    BY <1>2, <2>2, AddFFAssumption DEF IsRelaxedProblem
  <2>4. precs(in, o) \subseteq settledFacts
    BY <1>3, <2>2 DEF ReachersInv
  <2> HIDE DEF o
  <2>5. needToMark' \in Seq(in.facts) /\ stacked' = rest \cup precs(in, o)
    <3>1. \A t \in Seq(in.facts) :
            /\ front(needToMark) \o t \in Seq(in.facts)
            /\ elements(front(needToMark) \o t) = rest \cup elements(t)
      BY <1>1, <1>2, StackJoined
    <3>2. stacked' = elements(needToMark')
      BY DEF stacked, elements
    <3> QED
      BY <2>1, <2>3, <3>1, <3>2 DEF elements, precs
  <2> HIDE DEF rest
  <2>6. /\ markedFs' \cup stacked' \subseteq settledFacts
        /\ markedOps' \subseteq Ops(in)
        /\ in.g \subseteq goalsLeft' \cup markedFs' \cup stacked'
    BY <1>1, <1>2, <1>3, <2>1, <2>2, <2>4, <2>5
  <2>7. \A x \in markedFs' : reachedBy[x] # NOACTION => reachedBy[x] \in markedOps'
    BY <1>1, <1>2, <2>1 DEF o
  <2>8. \A p \in markedOps' : precs(in, p) \subseteq markedFs' \cup stacked'
    BY <1>1, <1>2, <1>3, <2>1, <2>5
  <2> QED
    BY <1>1, <1>2, <2>5, <2>6, <2>7, <2>8 DEF MarkInv, planIsFound, precs, Ops
<1> QED
  BY <1>4, <1>5

LEMMA StepMark ==
  ASSUME IInv, ReachersInv, MarkInv, [Next]_vars
  PROVE  ReachersInv' /\ MarkInv'
<1>1. CASE \E e \in queue : Skip(e)
  <2>1. PICK e \in queue : Skip(e)
    BY <1>1
  <2>2. pc = "loop" /\ pc' = pc /\ in' = in /\ marking' = marking
    BY <2>1 DEF Skip, top
  <2> QED
    BY <2>1, <2>2, SkipReachers, SearchMark DEF planIsFound
<1>2. CASE \E e \in queue : Settle(e)
  BY <1>2, SettleReachers, SettleMark
<1>3. CASE \E o \in todo : Relax(o)
  <2>1. PICK o \in todo : Relax(o)
    BY <1>3
  <2>2. pc = "loop" /\ in' = in /\ marking' = marking
    BY <2>1 DEF IInv, Relax
  <2>3. pc' = pc \/ (pc' = "done" /\ value' = MaxInt - 2)
    BY <2>1 DEF Relax
  <2> QED
    BY <2>1, <2>2, <2>3, RelaxReachers, SearchMark DEF planIsFound
<1>4. CASE UNCHANGED <<in, search>>
  <2>1. /\ in' = in /\ queue' = queue /\ hValProp' = hValProp /\ reachedBy' = reachedBy
    BY <1>4 DEF search
  <2>2. \A f : settled(f)' <=> settled(f)
    BY <2>1 DEF settled
  <2>3. ReachersInv' /\ settledFacts' = settledFacts
    BY <2>1, <2>2, SameReachers DEF settledFacts
  <2>4. CASE Exhausted
    <3>1. pc = "loop" /\ marking' = marking /\ pc' = "done" /\ value' = hUnreachable
      BY <2>4 DEF Exhausted
    <3> QED
      BY <2>1, <2>3, <3>1, SearchMark DEF planIsFound
  <2>5. CASE \E f \in goalsLeft : VisitGoal(f)
    BY <2>3, <2>5, VisitGoalMark
  <2>6. CASE Mark
    BY <2>3, <2>6, MarkMark
  <2>7. CASE Extracted \/ UNCHANGED vars
    <3>1. marking' = marking
      BY <2>7 DEF Extracted, vars
    <3>2. /\ needToMark' = needToMark /\ markedFs' = markedFs /\ markedOps' = markedOps
          /\ goalsLeft' = goalsLeft /\ stacked' = stacked
      BY <3>1 DEF marking, stacked
    <3>3. /\ pc' = "mark" => pc = "mark"
          /\ pc' = "loop" => pc = "loop"
          /\ planIsFound' => planIsFound \/ (goalsLeft = {} /\ needToMark = << >>)
      BY <2>1, <2>7 DEF Extracted, vars, planIsFound, hUnreachable
    <3> QED
      BY <2>1, <2>3, <3>2, <3>3 DEF MarkInv, precs, Ops
  <2>8. CASE \E e \in queue : Skip(e) \/ Settle(e)
    BY <1>1, <1>2, <2>8
  <2>9. CASE \E o \in todo : Relax(o)
    BY <1>3, <2>9
  <2> QED
    BY <2>4, <2>5, <2>6, <2>7, <2>8, <2>9 DEF Next, Terminating
<1>5. CASE Exhausted \/ (\E f \in goalsLeft : VisitGoal(f)) \/ Mark \/ Extracted \/ UNCHANGED vars
  <2>1. UNCHANGED <<in, search>>
    BY <1>5 DEF Exhausted, VisitGoal, Mark, Extracted, vars
  <2> QED
    BY <1>4, <2>1
<1> QED
  BY <1>1, <1>2, <1>3, <1>5 DEF Next, Terminating

LEMMA MarkInvariance == Spec => [](ReachersInv /\ MarkInv)
<1>1. Init => ReachersInv /\ MarkInv
  BY InitMark
<1>2. IInv /\ (ReachersInv /\ MarkInv) /\ [Next]_vars => (ReachersInv /\ MarkInv)'
  BY StepMark
<1> QED
  BY <1>1, <1>2, Invariance, PTL DEF Spec

LEMMA MarkedReaches == ASSUME IInv, ReachersInv, MarkInv PROVE MarkedIsPlan
<1> SUFFICES ASSUME planIsFound PROVE in.g \subseteq relaxedReach(in, markedOps)
  BY DEF MarkedIsPlan, planIsFound
<1> DEFINE R == relaxedReach(in, markedOps)
           X == {f \in in.facts : f \in markedFs => f \in R}
<1>1. in \in Instances /\ in.s \subseteq in.facts /\ in.g \subseteq in.facts /\ IsFiniteSet(markedOps)
  <2>1. IsFiniteSet(Ops(in))
    BY AddFFAssumption DEF IInv, IsRelaxedProblem
  <2> QED
    BY <2>1, InstanceFacts, FS_Subset DEF IInv, MarkInv
<1>2. in.s \subseteq R /\ ClosedUnder(in, markedOps, R)
  BY <1>1, ReachIsClosed
<1>3. in.g = {} \/ (goalsLeft = {} /\ needToMark = << >>)
  BY DEF MarkInv
<1>4. CASE in.g = {}
  BY <1>4
<1>5. CASE goalsLeft = {} /\ needToMark = << >>
  <2>1. stacked = {}
    BY <1>5 DEF stacked, elements
  <2>2. /\ in.g \subseteq markedFs /\ markedFs \subseteq settledFacts
        /\ \A f \in markedFs : reachedBy[f] # NOACTION => reachedBy[f] \in markedOps
        /\ \A o \in markedOps : precs(in, o) \subseteq markedFs
    BY <1>5, <2>1 DEF MarkInv
  <2> HIDE DEF R
  <2>3. ASSUME NEW f \in settledFacts, reachedBy[f] # NOACTION, precs(in, reachedBy[f]) \subseteq X
        PROVE  f \in X
    <3>1. SUFFICES ASSUME f \in markedFs PROVE f \in R
      BY <2>3 DEF settledFacts
    <3>2. reachedBy[f] \in markedOps /\ precs(in, reachedBy[f]) \subseteq R
      BY <2>2, <2>3, <3>1
    <3>3. f \in in.add[reachedBy[f]]
      BY <2>3 DEF ReachersInv, settledFacts
    <3> QED
      BY <1>2, <3>2, <3>3 DEF ClosedUnder
  <2>4. FollowsReachers(X) /\ X \in SUBSET in.facts
    BY <1>1, <1>2, <2>3 DEF FollowsReachers
  <2>5. settledFacts \subseteq X
    <3> HIDE DEF X
    <3> QED
      BY <2>4 DEF ReachersInv
  <2> QED
    BY <2>2, <2>5 DEF R
<1> QED
  BY <1>3, <1>4, <1>5

-----------------------------------------------------------------------------
(* hAdd by its definition: the rounds one after the other.                 *)
Valuations  == UNION {[X -> Nat] : X \in SUBSET in.facts}
isRounds(g) == /\ g \in [Nat -> Valuations]
               /\ g[0] = [f \in in.s |-> 0]
               /\ \A n \in Nat : g[n + 1] = improved(in, g[n])

(* What a fact counts in the sums.                                         *)
counts(v) == [f \in in.facts |-> IF f \in DOMAIN v THEN v[f] ELSE 0]

LEMMA ValuationFacts ==
  ASSUME in \in Instances, NEW v \in Valuations
  PROVE  /\ DOMAIN v \subseteq in.facts /\ \A f \in DOMAIN v : v[f] \in Nat
         /\ \A f \in in.facts : counts(v)[f] \in Nat
         /\ \A o \in Ops(in) : /\ opValue(in, v, o) = in.cost[o] + Total(counts(v), precs(in, o))
                             /\ opValue(in, v, o) \in Nat
<1>1. DOMAIN v \subseteq in.facts /\ \A f \in DOMAIN v : v[f] \in Nat
  BY DEF Valuations
<1>2. \A f \in in.facts : counts(v)[f] \in Nat
  BY <1>1 DEF counts
<1>3. ASSUME NEW o \in Ops(in)
      PROVE  /\ opValue(in, v, o) = in.cost[o] + Total(counts(v), precs(in, o))
             /\ opValue(in, v, o) \in Nat
  <2>1. precs(in, o) \subseteq in.facts /\ IsFiniteSet(precs(in, o)) /\ in.cost[o] \in Nat
    BY InstanceFacts
  <2>2. Total(counts(v), precs(in, o)) \in Nat
    BY <1>2, <2>1, TotalFacts
  <2>3. opValue(in, v, o) = in.cost[o] + Total(counts(v), precs(in, o))
    BY DEF opValue, total, Total, counts
  <2> QED
    BY <2>1, <2>2, <2>3
<1> QED
  BY <1>1, <1>2, <1>3

LEMMA ImprovedFacts ==
  ASSUME in \in Instances, NEW v \in Valuations
  PROVE  /\ improved(in, v) \in Valuations
         /\ DOMAIN improved(in, v) = DOMAIN v \cup UNION {in.add[o] : o \in usable(in, v)}
         /\ \A f \in DOMAIN improved(in, v) :
              /\ improved(in, v)[f] \in offers(in, v, f)
              /\ \A x \in offers(in, v, f) : improved(in, v)[f] <= x
<1> DEFINE D == DOMAIN v \cup UNION {in.add[o] : o \in usable(in, v)}
<1>1. D \subseteq in.facts
  BY ValuationFacts, InstanceFacts DEF usable
<1>2. ASSUME NEW f \in D
      PROVE  /\ offers(in, v, f) \subseteq Nat
             /\ Min(offers(in, v, f)) \in offers(in, v, f)
             /\ \A x \in offers(in, v, f) : Min(offers(in, v, f)) <= x
  <2>1. offers(in, v, f) \subseteq Nat
    <3>1. \A o \in Ops(in) : opValue(in, v, o) \in Nat
      BY ValuationFacts
    <3>2. \A x \in DOMAIN v : v[x] \in Nat
      BY ValuationFacts
    <3> QED
      BY <3>1, <3>2 DEF offers, usable
  <2>2. offers(in, v, f) # {}
    <3>1. CASE f \in DOMAIN v
      BY <3>1 DEF offers
    <3>2. CASE f \notin DOMAIN v
      <4>1. PICK o \in usable(in, v) : f \in in.add[o]
        BY <3>2
      <4>2. o \in usable(in, v) \cap addToTask(in, f)
        BY <4>1 DEF usable, addToTask
      <4> QED
        BY <4>2 DEF offers
    <3> QED
      BY <3>1, <3>2
  <2>3. \E x \in offers(in, v, f) : \A y \in offers(in, v, f) : x <= y
    BY <2>1, <2>2, LeastElement
  <2> QED
    BY <2>1, <2>3 DEF Min
<1>3. improved(in, v) = [f \in D |-> Min(offers(in, v, f))]
  BY DEF improved
<1> HIDE DEF D
<1>4. improved(in, v) \in [D -> Nat]
  BY <1>2, <1>3
<1> QED
  BY <1>1, <1>2, <1>3, <1>4 DEF Valuations, D

LEMMA HAddIsRounds ==
  ASSUME in \in Instances
  PROVE  \E g : isRounds(g) /\ hAdd(in) = g[Cardinality(in.facts)]
<1> DEFINE V      == Valuations
           start  == [f \in in.s |-> 0]
           step   == [v \in V |-> improved(in, v)]
           steps  == [x \in in.facts |-> step]
           all(f) == [X \in SUBSET in.facts |->
                        IF X = {} THEN start ELSE improved(in, f[X \ {CHOOSE x \in X : TRUE}])]
           it     == CHOOSE f : f = all(f)
<1>1. start \in V /\ step \in [V -> V] /\ IsFiniteSet(in.facts)
  <2>1. start \in [in.s -> Nat] /\ in.s \subseteq in.facts /\ IsFiniteSet(in.facts)
    BY InstanceFacts
  <2> QED
    BY <2>1, ImprovedFacts DEF Valuations
<1>2. PICK g : IsIteration(g, V, start, step)
  <2> HIDE DEF V, start, step
  <2> QED
    BY <1>1, Recursion
<1>3. isRounds(g)
  <2>1. g \in [Nat -> V] /\ g[0] = start /\ \A n \in Nat : g[n + 1] = step[g[n]]
    BY <1>2 DEF IsIteration
  <2>2. \A n \in Nat : step[g[n]] = improved(in, g[n])
    BY <2>1
  <2> QED
    BY <2>1, <2>2 DEF isRounds
<1>4. hAdd(in) = it[in.facts]
  BY DEF hAdd, FoldSet, MapThenFoldSet
<1>5. PICK f : IsFold(f, in.facts, V, start, steps)
  <2>1. steps \in [in.facts -> [V -> V]]
    BY <1>1
  <2> HIDE DEF V, start, steps
  <2> QED
    BY <1>1, <2>1, FoldExists
<1>6. f = all(f)
  <2>1. ASSUME NEW X \in SUBSET in.facts, X # {}
        PROVE  f[X] = improved(in, f[X \ {chosen(X)}])
    <3>1. chosen(X) \in in.facts /\ f[X \ {chosen(X)}] \in V
      BY <1>5, <2>1 DEF IsFold, chosen
    <3>2. f[X] = steps[chosen(X)][f[X \ {chosen(X)}]]
      BY <1>5, <2>1 DEF IsFold
    <3> HIDE DEF V
    <3> QED
      BY <3>1, <3>2
  <2>2. f \in [SUBSET in.facts -> V] /\ f[{}] = start
    BY <1>5 DEF IsFold
  <2> HIDE DEF V, start
  <2> QED
    BY <2>1, <2>2 DEF chosen
<1>7. it = all(it)
  <2> HIDE DEF all
  <2> QED
    BY <1>6
<1> HIDE DEF it
<1> DEFINE T == {X \in SUBSET in.facts : it[X] = g[Cardinality(X)]}
<1>8. {} \in T
  <2>1. it[{}] = start /\ Cardinality({}) = 0
    BY <1>7, FS_EmptySet
  <2> QED
    BY <1>2, <2>1 DEF IsIteration
<1>9. ASSUME NEW X \in SUBSET in.facts, X # {}, X \ {chosen(X)} \in T PROVE X \in T
  <2>1. it[X] = improved(in, it[X \ {chosen(X)}])
    BY <1>7, <1>9 DEF chosen
  <2>2. chosen(X) \in X /\ IsFiniteSet(X)
    BY <1>1, <1>9, FS_Subset DEF chosen
  <2>3. Cardinality(X) \in Nat /\ Cardinality(X \ {chosen(X)}) = Cardinality(X) - 1
    BY <2>2, OneLess
  <2>4. Cardinality(X \ {chosen(X)}) \in Nat
    BY <1>1, <1>9, FS_Subset, FS_CardinalityType
  <2>5. it[X \ {chosen(X)}] = g[Cardinality(X) - 1]
    BY <1>9, <2>3
  <2>6. g[(Cardinality(X) - 1) + 1] = improved(in, g[Cardinality(X) - 1])
    BY <1>3, <2>3, <2>4 DEF isRounds
  <2>7. (Cardinality(X) - 1) + 1 = Cardinality(X)
    BY <2>3
  <2> QED
    BY <2>1, <2>5, <2>6, <2>7
<1>10. SUBSET in.facts \subseteq T
  <2> HIDE DEF T
  <2> QED
    BY <1>1, <1>8, <1>9, SubsetInduction
<1> QED
  BY <1>3, <1>4, <1>10

(* Values that no action undercuts are bounds of every round from below.   *)
LEMMA RoundsStayAbove ==
  ASSUME in \in Instances, NEW g, isRounds(g), NEW L \in [in.facts -> Nat],
         \A f \in in.s : L[f] = 0,
         \A o \in Ops(in) : \A f \in in.add[o] : L[f] <= in.cost[o] + Total(L, precs(in, o))
  PROVE  \A n \in Nat : \A f \in DOMAIN g[n] : L[f] <= g[n][f]
<1> DEFINE T == {n \in Nat : \A f \in DOMAIN g[n] : L[f] <= g[n][f]}
<1>1. 0 \in T
  <2>1. g[0] = [f \in in.s |-> 0]
    BY DEF isRounds
  <2> QED
    BY <2>1
<1>2. ASSUME NEW n \in Nat, n \in T PROVE n + 1 \in T
  <2>1. PICK v : v = g[n]
    OBVIOUS
  <2>2. v \in Valuations /\ g[n + 1] = improved(in, v) /\ \A f \in DOMAIN v : L[f] <= v[f]
    BY <1>2, <2>1 DEF isRounds
  <2>3. ASSUME NEW f \in DOMAIN improved(in, v) PROVE L[f] <= improved(in, v)[f]
    <3>1. improved(in, v)[f] \in offers(in, v, f)
      BY <2>2, ImprovedFacts
    <3>2. CASE improved(in, v)[f] \in {v[x] : x \in DOMAIN v \cap {f}}
      BY <2>2, <3>2
    <3>3. CASE improved(in, v)[f] \notin {v[x] : x \in DOMAIN v \cap {f}}
      <4>1. PICK o \in usable(in, v) \cap addToTask(in, f) : improved(in, v)[f] = opValue(in, v, o)
        BY <3>1, <3>3 DEF offers
      <4>2. o \in Ops(in) /\ f \in in.add[o] /\ precs(in, o) \subseteq DOMAIN v
        BY <4>1 DEF usable, addToTask
      <4>3. /\ opValue(in, v, o) = in.cost[o] + Total(counts(v), precs(in, o))
            /\ in.cost[o] \in Nat /\ IsFiniteSet(precs(in, o)) /\ precs(in, o) \subseteq in.facts
            /\ f \in in.facts
        BY <2>2, <4>2, ValuationFacts, InstanceFacts
      <4>4. \A p \in precs(in, o) :
              counts(v)[p] \in Nat /\ L[p] \in Nat /\ L[p] <= counts(v)[p]
        <5>1. \A p \in precs(in, o) : counts(v)[p] = v[p] /\ L[p] <= v[p]
          BY <2>2, <4>2, <4>3 DEF counts
        <5>2. \A p \in in.facts : counts(v)[p] \in Nat
          BY <2>2, ValuationFacts
        <5> QED
          BY <4>3, <5>1, <5>2
      <4>5. /\ Total(counts(v), precs(in, o)) \in Nat /\ Total(L, precs(in, o)) \in Nat
            /\ Total(L, precs(in, o)) <= Total(counts(v), precs(in, o))
        <5> DEFINE c == counts(v)
                   P == precs(in, o)
        <5> HIDE DEF c, P
        <5>1. IsFiniteSet(P) /\ \A p \in P : c[p] \in Nat /\ L[p] \in Nat /\ L[p] <= c[p]
          BY <4>3, <4>4 DEF c, P
        <5>2. Total(c, P) \in Nat /\ Total(L, P) \in Nat /\ Total(L, P) <= Total(c, P)
          BY <5>1, LowerTotal
        <5> QED
          BY <5>2 DEF c, P
      <4>6. L[f] <= in.cost[o] + Total(L, precs(in, o)) /\ L[f] \in Nat
        BY <4>2, <4>3
      <4> QED
        BY <4>1, <4>3, <4>5, <4>6
    <3> QED
      BY <3>2, <3>3
  <2> QED
    BY <2>2, <2>3
<1>3. Nat \subseteq T
  <2> HIDE DEF T
  <2> QED
    BY <1>1, <1>2, Induction
<1> QED
  BY <1>3

(* Values that come from the state, action by action, are reached within   *)
(* as many rounds as there are facts.                                      *)
LEMMA RoundsReach ==
  ASSUME in \in Instances, NEW g, isRounds(g),
         NEW Z \in SUBSET in.facts, NEW D \in [in.facts -> Nat], NEW r,
         \A f \in Z : f \notin in.s =>
           /\ r[f] \in Ops(in) /\ f \in in.add[r[f]]
           /\ D[f] = in.cost[r[f]] + Total(D, precs(in, r[f])),
         \A X \in SUBSET in.facts :
           /\ in.s \subseteq X
           /\ \A f \in Z : f \notin in.s /\ precs(in, r[f]) \subseteq X => f \in X
           => Z \subseteq X
  PROVE  \A f \in Z : f \in DOMAIN g[Cardinality(in.facts)] /\ g[Cardinality(in.facts)][f] <= D[f]
<1> DEFINE good(n) == {f \in in.facts : f \in DOMAIN g[n] /\ g[n][f] <= D[f]}
           G == [n \in Nat |-> Z \cap good(n)]
<1>1. IsFiniteSet(in.facts) /\ in.s \subseteq in.facts
  BY InstanceFacts
<1>2. ASSUME NEW n \in Nat
      PROVE  /\ good(n) \subseteq good(n + 1)
             /\ \A f \in Z : f \notin in.s /\ precs(in, r[f]) \subseteq good(n) => f \in good(n + 1)
  <2>1. PICK v : v = g[n]
    OBVIOUS
  <2>2. v \in Valuations /\ g[n + 1] = improved(in, v)
    BY <1>2, <2>1 DEF isRounds
  <2>3. /\ DOMAIN v \subseteq in.facts /\ \A f \in DOMAIN v : v[f] \in Nat
        /\ \A f \in in.facts : counts(v)[f] \in Nat
    BY <2>2, ValuationFacts
  <2>4. /\ DOMAIN improved(in, v) = DOMAIN v \cup UNION {in.add[o] : o \in usable(in, v)}
        /\ improved(in, v) \in Valuations
        /\ \A f \in DOMAIN improved(in, v) : \A x \in offers(in, v, f) : improved(in, v)[f] <= x
    BY <2>2, ImprovedFacts
  <2>5. \A f \in DOMAIN improved(in, v) : improved(in, v)[f] \in Nat
    BY <2>4, ValuationFacts
  <2>6. ASSUME NEW f \in good(n) PROVE f \in good(n + 1)
    <3>1. f \in DOMAIN v /\ v[f] <= D[f] /\ D[f] \in Nat
      BY <2>1, <2>6
    <3>2. v[f] \in offers(in, v, f)
      BY <3>1 DEF offers
    <3>3. f \in DOMAIN improved(in, v) /\ improved(in, v)[f] <= v[f]
      BY <2>4, <3>1, <3>2
    <3>4. improved(in, v)[f] <= D[f]
      BY <2>3, <2>5, <3>1, <3>3
    <3> QED
      BY <2>2, <2>6, <3>3, <3>4
  <2>7. ASSUME NEW f \in Z, f \notin in.s, precs(in, r[f]) \subseteq good(n)
        PROVE  f \in good(n + 1)
    <3>1. PICK o : o = r[f]
      OBVIOUS
    <3>2. /\ o \in Ops(in) /\ f \in in.add[o] /\ f \in in.facts
          /\ D[f] = in.cost[o] + Total(D, precs(in, o))
      BY <2>7, <3>1
    <3>3. \A p \in precs(in, o) : p \in DOMAIN v /\ v[p] <= D[p] /\ p \in in.facts
      BY <2>1, <2>7, <3>1
    <3>4. /\ opValue(in, v, o) = in.cost[o] + Total(counts(v), precs(in, o))
          /\ opValue(in, v, o) \in Nat
          /\ in.cost[o] \in Nat /\ IsFiniteSet(precs(in, o))
      BY <2>2, <3>2, ValuationFacts, InstanceFacts
    <3>5. /\ Total(counts(v), precs(in, o)) \in Nat /\ Total(D, precs(in, o)) \in Nat
          /\ Total(counts(v), precs(in, o)) <= Total(D, precs(in, o))
      <4> DEFINE c == counts(v)
                 P == precs(in, o)
      <4>1. IsFiniteSet(P) /\ \A p \in P : D[p] \in Nat /\ c[p] \in Nat /\ c[p] <= D[p]
        BY <2>3, <3>3, <3>4 DEF counts
      <4> HIDE DEF c, P
      <4>2. Total(c, P) \in Nat /\ Total(D, P) \in Nat /\ Total(c, P) <= Total(D, P)
        BY <4>1, LowerTotal
      <4> QED
        BY <4>2 DEF c, P
    <3>6. o \in usable(in, v) /\ opValue(in, v, o) \in offers(in, v, f)
      BY <3>2, <3>3 DEF usable, offers, addToTask
    <3>7. f \in DOMAIN improved(in, v) /\ improved(in, v)[f] <= opValue(in, v, o)
      BY <2>4, <3>2, <3>6
    <3>8. improved(in, v)[f] <= D[f]
      <4>1. opValue(in, v, o) <= D[f] /\ D[f] \in Nat /\ improved(in, v)[f] \in Nat
        BY <2>5, <3>2, <3>4, <3>5, <3>7
      <4> QED
        BY <3>4, <3>7, <4>1
    <3> QED
      BY <2>2, <3>2, <3>7, <3>8
  <2> QED
    BY <2>6, <2>7
<1>3. in.s \subseteq good(0)
  <2>1. g[0] = [f \in in.s |-> 0]
    BY DEF isRounds
  <2> QED
    BY <1>1, <2>1
<1> HIDE DEF good
<1>4. \A n \in Nat : in.s \subseteq good(n)
  <2> DEFINE T == {n \in Nat : in.s \subseteq good(n)}
  <2>1. 0 \in T /\ \A n \in Nat : n \in T => n + 1 \in T
    BY <1>2, <1>3
  <2> HIDE DEF T
  <2>2. Nat \subseteq T
    BY <2>1, Induction
  <2> QED
    BY <2>2 DEF T
<1>5. ASSUME NEW n \in Nat, G[n + 1] = G[n] PROVE G[n] = Z
  <2> DEFINE X == G[n] \cup in.s
  <2>1. X \subseteq good(n) /\ X \subseteq in.facts /\ in.s \subseteq X
    BY <1>1, <1>4
  <2>2. \A f \in Z : f \notin in.s /\ precs(in, r[f]) \subseteq X => f \in X
    <3>1. \A f \in Z : f \notin in.s /\ precs(in, r[f]) \subseteq X => f \in G[n + 1]
      BY <1>2, <2>1
    <3> QED
      BY <1>5, <3>1
  <2>3. Z \subseteq X
    BY <2>1, <2>2
  <2> QED
    BY <2>1, <2>3
<1>6. G \in [Nat -> SUBSET in.facts] /\ \A n \in Nat : G[n] \subseteq G[n + 1] /\ G[n] \subseteq Z
  BY <1>2
<1>7. \A n \in Nat : G[n + 1] = G[n] => G[n + 2] = G[n + 1]
  <2> SUFFICES ASSUME NEW n \in Nat, G[n + 1] = G[n] PROVE G[n + 2] = G[n + 1]
    OBVIOUS
  <2>1. G[n] = Z
    BY <1>5
  <2>2. G[n + 1] \subseteq G[(n + 1) + 1] /\ G[(n + 1) + 1] \subseteq Z /\ (n + 1) + 1 = n + 2
    BY <1>6
  <2> HIDE DEF G
  <2>3. G[n + 2] = G[(n + 1) + 1]
    BY <2>2
  <2>4. G[n + 1] = Z
    BY <2>1
  <2>5. G[n + 2] \subseteq Z /\ Z \subseteq G[n + 2]
    BY <2>2, <2>3, <2>4
  <2> QED
    BY <2>4, <2>5
<1>8. Cardinality(in.facts) \in Nat
  BY <1>1, FS_CardinalityType
<1>9. G[Cardinality(in.facts) + 1] = G[Cardinality(in.facts)]
  <2> HIDE DEF G
  <2> QED
    BY <1>1, <1>6, <1>7, GrowthEnds
<1>10. G[Cardinality(in.facts)] = Z
  BY <1>5, <1>8, <1>9
<1>11. Z \subseteq good(Cardinality(in.facts))
  BY <1>8, <1>10
<1> QED
  BY <1>11 DEF good
-----------------------------------------------------------------------------
(* What the search knows of the values of hAdd.  The preconditions of an   *)
(* action that were taken are the settled ones, but for the fact in hand   *)
(* while the action waits in todo; the value of an action is their sum,    *)
(* and a fact has the final value of the action that reached it.           *)
taken(o) == [f \in in.facts |->
               IF settled(f) /\ ~ (o \in todo /\ f = cur[2]) THEN hValProp[f] ELSE 0]

opSums   == \A o \in Ops(in) : hValOp[o] = in.cost[o] + Total(taken(o), precs(in, o))
reachers == \A f \in in.facts : reachedBy[f] # NOACTION =>
              numSatPrecs[reachedBy[f]] = 0 /\ hValProp[f] = hValOp[reachedBy[f]]
inHand   == todo # {} => /\ settled(cur[2]) /\ hValProp[cur[2]] = cur[1]
                         /\ todo \subseteq precToAction(in, cur[2])

AddInv ==
  /\ \A f \in in.s : hValProp[f] = 0 /\ reachedBy[f] = NOACTION
  /\ pc = "loop" /\ in.heuristic = "add" => opSums /\ reachers /\ inHand
  /\ pc = "mark" => in.heuristic # "add"

LEMMA WrapFacts ==
  ASSUME MaxInt \in Nat \ {0, 1}, NEW x \in Nat, x <= 2 * MaxInt
  PROVE  wrap(x) = IF x <= MaxInt THEN x ELSE x - 2 * (MaxInt + 1)
<1> DEFINE M == 2 * (MaxInt + 1)
<1>1. M \in Nat /\ M > 0 /\ x + MaxInt + 1 \in Nat
  OBVIOUS
<1>2. \A m \in Nat : m > 0 => \A y \in Nat : (y < m => y % m = y) /\ (y >= m /\ y < m + m => y % m = y - m)
  OBVIOUS
<1>3. CASE x <= MaxInt
  <2>1. x + MaxInt + 1 < M
    BY <1>3
  <2>2. (x + MaxInt + 1) % M = x + MaxInt + 1
    BY <1>1, <1>2, <2>1
  <2> QED
    BY <1>3, <2>2 DEF wrap
<1>4. CASE x > MaxInt
  <2>1. x + MaxInt + 1 >= M /\ x + MaxInt + 1 < M + M
    BY <1>4
  <2>2. (x + MaxInt + 1) % M = (x + MaxInt + 1) - M
    BY <1>1, <1>2, <2>1
  <2> QED
    BY <1>4, <2>2 DEF wrap
<1> QED
  BY <1>3, <1>4

(* Sums of the members taken are numbers, and equal values give equal sums. *)
LEMMA TakenFacts ==
  ASSUME IInv
  PROVE  \A o \in Ops(in) : /\ \A f \in precs(in, o) : taken(o)[f] \in Nat /\ f \in in.facts
                            /\ IsFiniteSet(precs(in, o)) /\ Total(taken(o), precs(in, o)) \in Nat
                            /\ in.cost[o] \in Nat
<1>1. in \in Instances /\ \A f \in in.facts : hValProp[f] \in Nat
  BY InstanceFacts DEF IInv, TypeOK, Values
<1>2. ASSUME NEW o \in Ops(in)
      PROVE  /\ IsFiniteSet(precs(in, o)) /\ precs(in, o) \subseteq in.facts
             /\ \A f \in precs(in, o) : taken(o)[f] \in Nat /\ in.cost[o] \in Nat
  BY <1>1, InstanceFacts DEF taken
<1> QED
  BY <1>1, <1>2, TotalFacts, InstanceFacts

LEMMA InitAdd == ASSUME Init PROVE AddInv
<1>1. IInv /\ in \in Instances
  BY InitIInv DEF Init
<1>2. \A f \in in.facts : ~ settled(f)
  BY <1>1, InstanceFacts DEF Init, settled, hUnreachable
<1>3. ASSUME NEW o \in Ops(in) PROVE hValOp[o] = in.cost[o] + Total(taken(o), precs(in, o))
  <2>1. /\ \A f \in precs(in, o) : taken(o)[f] = 0
        /\ IsFiniteSet(precs(in, o)) /\ in.cost[o] \in Nat
    BY <1>1, <1>2, TakenFacts DEF taken
  <2>2. Total(taken(o), precs(in, o)) = 0
    <3> DEFINE c == taken(o)
               P == precs(in, o)
    <3>1. IsFiniteSet(P) /\ \A f \in P : c[f] = 0
      BY <2>1
    <3> HIDE DEF c, P
    <3>2. Total(c, P) = 0
      BY <3>1, TotalOfZeros
    <3> QED
      BY <3>2 DEF c, P
  <2> QED
    BY <2>1, <2>2 DEF Init
<1>4. reachers /\ inHand
  BY <1>1, InstanceFacts DEF Init, reachers, inHand
<1>5. \A f \in in.s : hValProp[f] = 0 /\ reachedBy[f] = NOACTION
  BY <1>1, InstanceFacts DEF Init
<1>6. pc # "mark"
  BY DEF Init
<1> QED
  BY <1>3, <1>4, <1>5, <1>6 DEF AddInv, opSums

LEMMA SkipAdd == ASSUME IInv, AddInv, NEW e \in queue, Skip(e) PROVE AddInv'
<1>1. /\ hValProp[e[2]] < e[1] /\ queue' = queue \ {e} /\ pc' = pc /\ todo' = todo /\ cur' = cur
      /\ in' = in /\ reachedBy' = reachedBy /\ hValProp' = hValProp /\ hValOp' = hValOp
      /\ numSatPrecs' = numSatPrecs
  BY DEF Skip, top
<1>2. e = <<e[1], e[2]>> /\ e[2] \in in.facts /\ e[1] \in Nat /\ hValProp[e[2]] \in Nat
  BY InstanceFacts DEF IInv, TypeOK, Values
<1>3. \A f : settled(f)' <=> settled(f)
  BY <1>1, <1>2 DEF settled
<1>4. \A o : taken(o)' = taken(o)
  BY <1>1, <1>3 DEF taken
<1>5. (\A o : precs(in, o)' = precs(in, o)) /\ Ops(in)' = Ops(in)
  BY <1>1 DEF precs, Ops
<1>6. opSums' = opSums /\ reachers' = reachers /\ inHand' = inHand
  <2>1. opSums' = opSums
    BY <1>1, <1>4, <1>5 DEF opSums
  <2>2. reachers' = reachers
    BY <1>1 DEF reachers
  <2>3. inHand' = inHand
    BY <1>1, <1>3 DEF inHand, precToAction
  <2> QED
    BY <2>1, <2>2, <2>3
<1> QED
  BY <1>1, <1>6 DEF AddInv

(* The actions of the fact in hand wait, so that nothing more is taken.    *)
LEMMA SettleAdd == ASSUME IInv, AddInv, NEW e \in queue, Settle(e) PROVE AddInv'
<1>1. /\ in' = in /\ reachedBy' = reachedBy /\ hValProp' = hValProp /\ hValOp' = hValOp
      /\ numSatPrecs' = numSatPrecs /\ pc = "loop" /\ todo = {}
  BY DEF Settle, top
<1>2. \A f \in in'.s : hValProp'[f] = 0 /\ reachedBy'[f] = NOACTION
  BY <1>1 DEF AddInv
<1>3. CASE pc' # "loop"
  <2>1. pc' = "mark" => in.heuristic # "add"
    BY <1>1, <1>3 DEF Settle
  <2> QED
    BY <1>1, <1>2, <1>3, <2>1 DEF AddInv
<1>4. CASE pc' = "loop"
  <2>1. cur' = e /\ todo' = precToAction(in, e[2])
    BY <1>4 DEF Settle
  <2>2. /\ e[2] \in in.facts /\ e = <<hValProp[e[2]], e[2]>> /\ ~ settled(e[2])
        /\ \A f : settled(f)' <=> settled(f) \/ f = e[2]
    BY SettleFacts
  <2> SUFFICES ASSUME in.heuristic = "add" PROVE opSums' /\ reachers' /\ inHand'
    BY <1>1, <1>2, <1>4 DEF AddInv
  <2>3. opSums /\ reachers
    BY <1>1 DEF AddInv
  <2>4. ASSUME NEW o \in Ops(in) PROVE hValOp'[o] = in.cost[o] + Total(taken(o)', precs(in, o))
    <3>1. ASSUME NEW f \in precs(in, o) PROVE taken(o)'[f] = taken(o)[f]
      <4>1. f \in in.facts
        BY TakenFacts
      <4>2. taken(o)'[f] = IF settled(f)' /\ ~ (o \in todo' /\ f = e[2]) THEN hValProp[f] ELSE 0
        BY <1>1, <2>1, <4>1 DEF taken
      <4>3. taken(o)[f] = IF settled(f) THEN hValProp[f] ELSE 0
        BY <1>1, <4>1 DEF taken
      <4>4. CASE f = e[2]
        <5>1. o \in todo'
          BY <2>1, <4>4 DEF precToAction
        <5> QED
          BY <2>2, <4>2, <4>3, <4>4, <5>1
      <4>5. CASE f # e[2]
        BY <2>2, <4>2, <4>3, <4>5
      <4> QED
        BY <4>4, <4>5
    <3>2. Total(taken(o)', precs(in, o)) = Total(taken(o), precs(in, o))
      <4> DEFINE c == taken(o)
                 d == taken(o)'
                 P == precs(in, o)
      <4>1. IsFiniteSet(P) /\ (\A f \in P : c[f] \in Nat) /\ \A f \in P : d[f] = c[f]
        BY <3>1, TakenFacts
      <4> HIDE DEF c, d, P
      <4>2. Total(d, P) = Total(c, P)
        BY <4>1, TotalFacts
      <4> QED
        BY <4>2 DEF c, d, P
    <3> QED
      BY <1>1, <2>3, <3>2 DEF opSums
  <2>5. opSums'
    BY <1>1, <2>4 DEF opSums, Ops, precs
  <2>6. reachers'
    BY <1>1, <2>3 DEF reachers
  <2>7. inHand'
    BY <1>1, <2>1, <2>2 DEF inHand, precToAction
  <2> QED
    BY <2>5, <2>6, <2>7
<1> QED
  BY <1>3, <1>4

(* A step of the loop without overflow gives an action the sum, hands it   *)
(* on to facts that are not settled, and leaves the settled ones alone.    *)
LEMMA RelaxFacts ==
  ASSUME IInv, NEW o \in todo, Relax(o), in.heuristic = "add", pc' = "loop"
  PROVE  LET v      == hValOp[o] + cur[1]
             better == IF numSatPrecs[o] = 1 THEN {f \in in.add[o] : v < hValProp[f]} ELSE {}
         IN  /\ v \in Nat /\ v <= MaxInt /\ o \in Ops(in)
             /\ todo' = todo \ {o}
             /\ \A p \in Ops(in) : hValOp'[p] = IF p = o THEN v ELSE hValOp[p]
             /\ \A p \in Ops(in) : numSatPrecs'[p] = IF p = o THEN numSatPrecs[p] - 1 ELSE numSatPrecs[p]
             /\ \A f \in in.facts : hValProp'[f] = IF f \in better THEN v ELSE hValProp[f]
             /\ \A f \in in.facts : reachedBy'[f] = IF f \in better THEN o ELSE reachedBy[f]
             /\ \A f \in in.facts : settled(f)' <=> settled(f)
             /\ \A f \in in.facts : settled(f) => f \notin better
<1> DEFINE v      == newVal(o)
           better == IF numSatPrecs[o] = 1 THEN {f \in in.add[o] : v < hValProp[f]} ELSE {}
<1>1. /\ in \in Instances /\ TypeOK /\ LoopInv /\ o \in Ops(in) /\ cur[1] \in 0 .. MaxInt
      /\ MaxInt \in Nat \ {0, 1} /\ hValOp[o] \in 0 .. MaxInt
      /\ \A f \in in.facts : hValProp[f] \in Nat /\ hValProp[f] <= MaxInt
  <2>1. in \in Instances /\ TypeOK /\ LoopInv
    BY DEF IInv, Relax
  <2>2. MaxInt \in Nat \ {0, 1}
    BY <2>1, InstanceFacts
  <2> QED
    BY <2>1, <2>2 DEF TypeOK, Values
<1>2. ~ (v < hValOp[o] \/ v < cur[1])
  BY DEF Relax
<1>3. v = hValOp[o] + cur[1] /\ v \in Nat /\ v <= MaxInt
  <2>1. v = wrap(hValOp[o] + cur[1])
    BY DEF newVal
  <2>2. hValOp[o] + cur[1] \in Nat /\ hValOp[o] + cur[1] <= 2 * MaxInt
    BY <1>1
  <2>3. v = IF hValOp[o] + cur[1] <= MaxInt THEN hValOp[o] + cur[1]
            ELSE hValOp[o] + cur[1] - 2 * (MaxInt + 1)
    BY <1>1, <2>1, <2>2, WrapFacts
  <2> HIDE DEF v
  <2> QED
    BY <1>1, <1>2, <2>3
<1>4. /\ todo' = todo \ {o} /\ hValOp' = [hValOp EXCEPT ![o] = v]
      /\ numSatPrecs' = [numSatPrecs EXCEPT ![o] = @ - 1]
      /\ hValProp' = [f \in in.facts |-> IF f \in better THEN v ELSE hValProp[f]]
      /\ reachedBy' = [f \in in.facts |-> IF f \in better THEN o ELSE reachedBy[f]]
      /\ queue' = queue \cup ({v} \X better)
  BY <1>2 DEF Relax
<1>5. \A f \in better : f \in in.add[o] /\ v < hValProp[f]
  OBVIOUS
<1> HIDE DEF v
<1>6. ASSUME NEW f \in in.facts, f \in better PROVE ~ settled(f) /\ ~ settled(f)'
  <2>1. hValProp[f] > cur[1]
    BY <1>1, <1>2, <1>3, <1>5, <1>6
  <2>2. ~ settled(f)
    BY <1>1, <2>1 DEF LoopInv
  <2>3. hValProp'[f] = v /\ <<v, f>> \in queue'
    BY <1>4, <1>6
  <2> QED
    BY <2>2, <2>3 DEF settled
<1>7. ASSUME NEW f \in in.facts, f \notin better PROVE settled(f)' <=> settled(f)
  BY <1>4, <1>7 DEF settled
<1>8. \A p \in Ops(in) : /\ hValOp'[p] = IF p = o THEN v ELSE hValOp[p]
                         /\ numSatPrecs'[p] = IF p = o THEN numSatPrecs[p] - 1 ELSE numSatPrecs[p]
  <2> HIDE DEF better
  <2> QED
    BY <1>1, <1>4 DEF TypeOK
<1>9. \A f \in in.facts : /\ hValProp'[f] = IF f \in better THEN v ELSE hValProp[f]
                          /\ reachedBy'[f] = IF f \in better THEN o ELSE reachedBy[f]
  <2> HIDE DEF better
  <2> QED
    BY <1>4
<1>10. \A f \in in.facts : (settled(f)' <=> settled(f)) /\ (settled(f) => f \notin better)
  <2> HIDE DEF better
  <2> QED
    BY <1>6, <1>7
<1>11. v = hValOp[o] + cur[1]
  BY <1>3
<1> QED
  BY <1>1, <1>3, <1>4, <1>8, <1>9, <1>10

(* The action visited has the fact in hand taken, the others keep theirs.  *)
LEMMA RelaxAdd ==
  ASSUME IInv, AddInv, NEW o \in todo, Relax(o) PROVE AddInv'
<1>1. /\ in' = in /\ cur' = cur /\ pc = "loop" /\ pc' \in {"loop", "done"}
      /\ in \in Instances /\ LoopInv /\ TypeOK /\ o \in Ops(in)
  BY DEF IInv, TypeOK, Relax
<1>2. \A f \in in.s : hValProp'[f] = 0 /\ reachedBy'[f] = NOACTION
  <2>1. \A f \in in.s : hValProp[f] = 0 /\ reachedBy[f] = NOACTION /\ f \in in.facts
    BY <1>1, InstanceFacts DEF AddInv
  <2>2. CASE hValProp' = hValProp /\ reachedBy' = reachedBy
    BY <2>1, <2>2
  <2>3. CASE ~ (hValProp' = hValProp /\ reachedBy' = reachedBy)
    <3> DEFINE v      == newVal(o)
               better == IF numSatPrecs[o] = 1 THEN {f \in in.add[o] : v < hValProp[f]} ELSE {}
    <3>1. ~ (v < hValOp[o] \/ v < cur[1])
      BY <2>3 DEF Relax
    <3>2. v \in Int /\ hValOp[o] \in Nat
      <4>1. cur[1] \in Nat /\ cur[1] <= MaxInt /\ MaxInt \in Nat
        BY <1>1, InstanceFacts DEF TypeOK, Values
      <4> QED
        BY <1>1, <4>1, NewValInRange DEF TypeOK, Values
    <3>3. \A f \in in.s : f \notin better
      BY <2>1, <3>1, <3>2
    <3>4. /\ hValProp' = [f \in in.facts |-> IF f \in better THEN v ELSE hValProp[f]]
          /\ reachedBy' = [f \in in.facts |-> IF f \in better THEN o ELSE reachedBy[f]]
      BY <3>1 DEF Relax
    <3> HIDE DEF better, v
    <3> QED
      BY <2>1, <3>3, <3>4
  <2> QED
    BY <2>2, <2>3
<1>3. CASE pc' = "done"
  BY <1>1, <1>2, <1>3 DEF AddInv
<1>4. CASE pc' = "loop"
  <2> SUFFICES ASSUME in.heuristic = "add" PROVE opSums' /\ reachers' /\ inHand'
    BY <1>1, <1>2, <1>4 DEF AddInv
  <2> DEFINE v      == hValOp[o] + cur[1]
             better == IF numSatPrecs[o] = 1 THEN {f \in in.add[o] : v < hValProp[f]} ELSE {}
  <2>1. /\ v \in Nat /\ v <= MaxInt /\ todo' = todo \ {o}
        /\ \A p \in Ops(in) : hValOp'[p] = IF p = o THEN v ELSE hValOp[p]
        /\ \A p \in Ops(in) : numSatPrecs'[p] = IF p = o THEN numSatPrecs[p] - 1 ELSE numSatPrecs[p]
    BY <1>4, RelaxFacts
  <2>2. /\ \A f \in in.facts : hValProp'[f] = IF f \in better THEN v ELSE hValProp[f]
        /\ \A f \in in.facts : reachedBy'[f] = IF f \in better THEN o ELSE reachedBy[f]
        /\ \A f \in in.facts : settled(f)' <=> settled(f)
        /\ \A f \in in.facts : settled(f) => f \notin better
    BY <1>4, RelaxFacts
  <2>3. better # {} => numSatPrecs[o] = 1
    OBVIOUS
  <2>4. opSums /\ reachers /\ inHand
    BY <1>1 DEF AddInv
  <2>5. v = hValOp[o] + cur[1]
    OBVIOUS
  <2> HIDE DEF v, better
  <2>6. /\ settled(cur[2]) /\ hValProp[cur[2]] = cur[1] /\ cur[1] \in Nat
        /\ cur[2] \in in.facts /\ \A p \in todo : cur[2] \in precs(in, p)
    BY <1>1, <2>4 DEF inHand, precToAction, IInv, TypeOK
  <2>7. ASSUME NEW p \in Ops(in), NEW f \in precs(in, p), p # o \/ f # cur[2]
        PROVE  taken(p)'[f] = taken(p)[f]
    <3>1. f \in in.facts
      BY <1>1, InstanceFacts
    <3>2. taken(p)'[f] = IF settled(f)' /\ ~ (p \in todo' /\ f = cur[2]) THEN hValProp'[f] ELSE 0
      BY <1>1, <3>1 DEF taken
    <3>3. taken(p)[f] = IF settled(f) /\ ~ (p \in todo /\ f = cur[2]) THEN hValProp[f] ELSE 0
      BY <3>1 DEF taken
    <3>4. settled(f) => hValProp'[f] = hValProp[f]
      BY <2>2, <3>1
    <3> QED
      BY <2>1, <2>2, <2>7, <3>1, <3>2, <3>3, <3>4
  <2>8. taken(o)[cur[2]] = 0 /\ taken(o)'[cur[2]] = cur[1]
    BY <1>1, <2>1, <2>2, <2>6 DEF taken
  <2>9. ASSUME NEW p \in Ops(in) PROVE hValOp'[p] = in.cost[p] + Total(taken(p)', precs(in, p))
    <3> DEFINE c == taken(p)
               d == taken(p)'
               P == precs(in, p)
    <3>1. /\ IsFiniteSet(P) /\ (\A f \in P : c[f] \in Nat) /\ Total(c, P) \in Nat
          /\ in.cost[p] \in Nat /\ hValOp[p] = in.cost[p] + Total(c, P)
      BY <2>4, TakenFacts DEF opSums
    <3>2. CASE p # o
      <4>1. \A f \in P : d[f] = c[f]
        BY <2>7, <3>2
      <4>2. hValOp'[p] = hValOp[p]
        BY <2>1, <3>2
      <4> HIDE DEF c, d, P
      <4>3. Total(d, P) = Total(c, P)
        BY <3>1, <4>1, TotalFacts
      <4> QED
        BY <3>1, <4>2, <4>3 DEF d, P
    <3>3. CASE p = o
      <4>1. \A f \in P \ {cur[2]} : d[f] = c[f]
        BY <2>7
      <4>2. cur[2] \in P /\ c[cur[2]] = 0 /\ d[cur[2]] = cur[1] /\ hValOp'[p] = hValOp[p] + cur[1]
        BY <2>1, <2>5, <2>6, <2>8, <3>3
      <4> HIDE DEF c, d, P
      <4>3. Total(d, P) = Total(c, P) + (d[cur[2]] - c[cur[2]])
        BY <2>6, <3>1, <4>1, <4>2, TotalFacts
      <4>4. hValOp'[p] = in.cost[p] + Total(d, P)
        BY <2>6, <3>1, <4>2, <4>3
      <4> QED
        BY <4>4 DEF d, P
    <3> QED
      BY <3>2, <3>3
  <2>10. opSums'
    BY <1>1, <2>9 DEF opSums, Ops, precs
  <2>11. ASSUME NEW f \in in.facts, reachedBy'[f] # NOACTION
         PROVE  numSatPrecs'[reachedBy'[f]] = 0 /\ hValProp'[f] = hValOp'[reachedBy'[f]]
    <3>1. CASE f \in better
      <4>1. reachedBy'[f] = o /\ hValProp'[f] = v /\ numSatPrecs[o] = 1
        BY <2>2, <2>3, <3>1
      <4> QED
        BY <1>1, <2>1, <4>1
    <3>2. CASE f \notin better
      <4>1. reachedBy'[f] = reachedBy[f] /\ hValProp'[f] = hValProp[f]
        BY <2>2, <3>2
      <4>2. PICK p \in Ops(in) : p = reachedBy[f]
        BY <1>1, <2>11, <4>1 DEF TypeOK
      <4>3. numSatPrecs[p] = 0 /\ hValProp[f] = hValOp[p]
        BY <2>4, <2>11, <4>1, <4>2 DEF reachers
      <4>4. p # o
        <5>1. IsFiniteSet(open(o)) /\ Cardinality(open(o)) \in Nat
          BY <1>1, InstanceFacts, FS_Subset, FS_CardinalityType DEF open
        <5>2. numSatPrecs[o] = Cardinality(open(o)) + 1
          BY <1>1 DEF LoopInv
        <5> QED
          BY <4>3, <5>1, <5>2
      <4> QED
        BY <2>1, <4>1, <4>2, <4>3, <4>4
    <3> QED
      BY <3>1, <3>2
  <2>12. reachers'
    BY <1>1, <2>11 DEF reachers
  <2>13. inHand'
    <3>1. PICK f \in in.facts : f = cur[2]
      BY <2>6
    <3>2. settled(f)' /\ hValProp'[f] = cur[1]
      BY <2>2, <2>6, <3>1
    <3>3. todo' \subseteq precToAction(in, cur[2])
      BY <1>1, <2>1, <2>4 DEF inHand
    <3>4. cur' = cur /\ precToAction(in, cur[2])' = precToAction(in, cur[2])
      BY <1>1 DEF precToAction, Ops, precs
    <3> QED
      BY <3>1, <3>2, <3>3, <3>4 DEF inHand, settled
  <2> QED
    BY <2>10, <2>12, <2>13
<1> QED
  BY <1>1, <1>3, <1>4

LEMMA StepAdd == ASSUME IInv, AddInv, [Next]_vars PROVE AddInv'
<1>1. CASE \E e \in queue : Skip(e) \/ Settle(e)
  BY <1>1, SkipAdd, SettleAdd
<1>2. CASE \E o \in todo : Relax(o)
  BY <1>2, RelaxAdd
<1>3. CASE Exhausted
  <2>1. pc' = "done" /\ in' = in /\ hValProp' = hValProp /\ reachedBy' = reachedBy
    BY <1>3 DEF Exhausted, search
  <2> QED
    BY <2>1 DEF AddInv
<1>4. CASE (\E f \in goalsLeft : VisitGoal(f)) \/ Mark \/ Extracted
  <2>1. /\ pc = "mark" /\ pc' \in {"mark", "done"}
        /\ in' = in /\ hValProp' = hValProp /\ reachedBy' = reachedBy
    BY <1>4 DEF VisitGoal, Mark, Extracted, search
  <2> QED
    BY <2>1 DEF AddInv
<1>5. CASE UNCHANGED vars
  <2>1. /\ pc' = pc /\ todo' = todo /\ cur' = cur /\ queue' = queue
        /\ in' = in /\ reachedBy' = reachedBy /\ hValProp' = hValProp /\ hValOp' = hValOp
        /\ numSatPrecs' = numSatPrecs
    BY <1>5 DEF vars, search
  <2>2. \A o : taken(o)' = taken(o)
    BY <2>1 DEF taken, settled
  <2>3. opSums' = opSums
    BY <2>1, <2>2 DEF opSums, Ops, precs
  <2>4. reachers' = reachers /\ inHand' = inHand
    BY <2>1 DEF reachers, inHand, settled, precToAction, Ops, precs
  <2> QED
    BY <2>1, <2>3, <2>4 DEF AddInv
<1> QED
  BY <1>1, <1>2, <1>3, <1>4, <1>5 DEF Next, Terminating

-----------------------------------------------------------------------------
(* The ends of the search: what is settled has the values of hAdd.         *)
LEMMA RoundsStayIn ==
  ASSUME in \in Instances, NEW g, isRounds(g),
         NEW X \in SUBSET in.facts, in.s \subseteq X, ClosedUnder(in, Ops(in), X)
  PROVE  \A n \in Nat : DOMAIN g[n] \subseteq X
<1> DEFINE T == {n \in Nat : DOMAIN g[n] \subseteq X}
<1>1. 0 \in T
  <2>1. g[0] = [f \in in.s |-> 0]
    BY DEF isRounds
  <2> QED
    BY <2>1
<1>2. ASSUME NEW n \in Nat, n \in T PROVE n + 1 \in T
  <2>1. PICK v : v = g[n]
    OBVIOUS
  <2>2. v \in Valuations /\ g[n + 1] = improved(in, v) /\ DOMAIN v \subseteq X
    BY <1>2, <2>1 DEF isRounds
  <2>3. DOMAIN improved(in, v) = DOMAIN v \cup UNION {in.add[o] : o \in usable(in, v)}
    BY <2>2, ImprovedFacts
  <2>4. \A o \in usable(in, v) : in.add[o] \subseteq X
    BY <2>2 DEF usable, ClosedUnder
  <2> QED
    BY <2>2, <2>3, <2>4
<1>3. Nat \subseteq T
  <2> HIDE DEF T
  <2> QED
    BY <1>1, <1>2, Induction
<1> QED
  BY <1>3

LEMMA CountedDown ==
  ASSUME IInv, pc = "loop", NEW o \in Ops(in)
  PROVE  numSatPrecs[o] = 0 <=> open(o) = {} /\ o \notin todo
<1>1. numSatPrecs[o] = Cardinality(open(o)) + (IF o \in todo THEN 1 ELSE 0)
  BY DEF IInv, LoopInv
<1>2. IsFiniteSet(open(o))
  BY InstanceFacts, FS_Subset DEF open, IInv
<1>3. Cardinality(open(o)) \in Nat /\ (Cardinality(open(o)) = 0 <=> open(o) = {})
  BY <1>2, FS_CardinalityType, FS_EmptySet
<1> QED
  BY <1>1, <1>3

LEMMA FullyTaken ==
  ASSUME IInv, AddInv, pc = "loop", in.heuristic = "add",
         NEW o \in Ops(in), open(o) = {}, o \notin todo
  PROVE  hValOp[o] = in.cost[o] + Total(hValProp, precs(in, o))
<1> DEFINE c == taken(o)
           P == precs(in, o)
<1>1. hValOp[o] = in.cost[o] + Total(c, P)
  BY DEF AddInv, opSums
<1>2. IsFiniteSet(P) /\ (\A f \in P : c[f] \in Nat) /\ \A f \in P : hValProp[f] = c[f]
  BY TakenFacts DEF open, taken
<1> HIDE DEF c, P
<1>3. Total(hValProp, P) = Total(c, P)
  BY <1>2, TotalFacts
<1> QED
  BY <1>1, <1>3 DEF P

(* K is a value that no fact still to be settled gets below.               *)
LEMMA ValuesAreExact ==
  ASSUME IInv, ReachersInv, AddInv, pc = "loop", in.heuristic = "add",
         NEW K \in Nat, NEW Z \in SUBSET in.facts, settledFacts \subseteq Z,
         \A f \in Z : hValProp[f] # MaxInt /\ hValProp[f] <= K,
         \A f \in in.facts : ~ settled(f) => hValProp[f] >= K,
         todo # {} => hValProp[cur[2]] >= K
  PROVE  /\ hAdd(in) \in Valuations
         /\ \A f \in Z : f \in DOMAIN hAdd(in) /\ hAdd(in)[f] = hValProp[f]
<1> DEFINE L == [f \in in.facts |-> IF hValProp[f] <= K THEN hValProp[f] ELSE K]
<1>1. /\ in \in Instances /\ LoopInv /\ hValProp \in [in.facts -> Nat]
      /\ opSums /\ reachers /\ inHand
      /\ \A f \in in.s : hValProp[f] = 0 /\ reachedBy[f] = NOACTION
  BY DEF IInv, TypeOK, Values, AddInv
<1>2. PICK g : isRounds(g) /\ hAdd(in) = g[Cardinality(in.facts)]
  BY <1>1, HAddIsRounds
<1>3. Cardinality(in.facts) \in Nat
  BY <1>1, InstanceFacts, FS_CardinalityType
<1>4. hAdd(in) \in Valuations
  BY <1>2, <1>3 DEF isRounds
<1>5. /\ L \in [in.facts -> Nat]
      /\ \A f \in in.facts : L[f] = IF hValProp[f] <= K THEN hValProp[f] ELSE K
  BY <1>1
<1> HIDE DEF L
<1>6. \A f \in in.s : L[f] = 0
  BY <1>1, <1>5, InstanceFacts
<1>7. ASSUME NEW o \in Ops(in), NEW f \in in.add[o]
      PROVE  L[f] <= in.cost[o] + Total(L, precs(in, o))
  <2> DEFINE P == precs(in, o)
  <2>1. /\ f \in in.facts /\ P \subseteq in.facts /\ IsFiniteSet(P) /\ in.cost[o] \in Nat
        /\ \A p \in P : L[p] \in Nat
    BY <1>1, <1>5, InstanceFacts
  <2>2. Total(L, P) \in Nat /\ \A p \in P : L[p] <= Total(L, P)
    <3> HIDE DEF P
    <3> QED
      BY <2>1, TotalFacts
  <2>3. CASE \E p \in P : hValProp[p] >= K
    <3>1. PICK p \in P : hValProp[p] >= K
      BY <2>3
    <3>2. L[p] = K /\ L[f] <= K /\ L[f] \in Nat
      BY <1>1, <1>5, <2>1, <3>1
    <3> HIDE DEF P
    <3>3. L[f] <= in.cost[o] + Total(L, P)
      BY <2>1, <2>2, <3>2
    <3> QED
      BY <3>3 DEF P
  <2>4. CASE ~ \E p \in P : hValProp[p] >= K
    <3>1. open(o) = {}
      BY <2>1, <2>4 DEF open
    <3>2. o \notin todo
      BY <1>1, <2>4 DEF inHand, precToAction
    <3>3. hValProp[f] <= hValOp[o]
      BY <1>1, <3>1, <3>2, CountedDown DEF LoopInv
    <3>4. hValOp[o] = in.cost[o] + Total(hValProp, P)
      BY <3>1, <3>2, FullyTaken
    <3>5. \A p \in P : hValProp[p] = L[p]
      BY <1>1, <1>5, <2>1, <2>4
    <3> HIDE DEF P
    <3>6. Total(hValProp, P) = Total(L, P)
      BY <2>1, <3>5, TotalFacts
    <3>7. L[f] <= hValProp[f] /\ L[f] \in Nat /\ hValProp[f] \in Nat
      BY <1>1, <1>5, <2>1
    <3>8. L[f] <= in.cost[o] + Total(L, P)
      BY <2>1, <2>2, <3>3, <3>4, <3>6, <3>7
    <3> QED
      BY <3>8 DEF P
  <2> QED
    BY <2>3, <2>4
<1>8. \A f \in DOMAIN hAdd(in) : L[f] <= hAdd(in)[f]
  <2>1. \A n \in Nat : \A f \in DOMAIN g[n] : L[f] <= g[n][f]
    BY <1>1, <1>2, <1>5, <1>6, <1>7, RoundsStayAbove
  <2> QED
    BY <1>2, <1>3, <2>1
<1>9. ASSUME NEW f \in Z, f \notin in.s
      PROVE  /\ reachedBy[f] \in Ops(in) /\ f \in in.add[reachedBy[f]]
             /\ precs(in, reachedBy[f]) \subseteq settledFacts
             /\ hValProp[f] = in.cost[reachedBy[f]] + Total(hValProp, precs(in, reachedBy[f]))
  <2>1. reachedBy[f] # NOACTION /\ f \in in.facts
    BY <1>9 DEF ReachersInv
  <2>2. PICK o \in Ops(in) : o = reachedBy[f]
    BY <2>1 DEF IInv, TypeOK
  <2>3. f \in in.add[o] /\ precs(in, o) \subseteq settledFacts
    BY <2>1, <2>2 DEF ReachersInv
  <2>4. numSatPrecs[o] = 0 /\ hValProp[f] = hValOp[o]
    BY <1>1, <2>1, <2>2 DEF reachers
  <2>5. hValOp[o] = in.cost[o] + Total(hValProp, precs(in, o))
    BY <2>4, CountedDown, FullyTaken
  <2> QED
    BY <2>2, <2>3, <2>4, <2>5
<1>10. ASSUME NEW X \in SUBSET in.facts, in.s \subseteq X,
              \A f \in Z : f \notin in.s /\ precs(in, reachedBy[f]) \subseteq X => f \in X
       PROVE  Z \subseteq X
  <2>1. FollowsReachers(X)
    BY <1>1, <1>10 DEF FollowsReachers
  <2>2. settledFacts \subseteq X
    BY <2>1 DEF ReachersInv
  <2> QED
    BY <1>9, <1>10, <2>2
<1>11. \A f \in Z : f \in DOMAIN hAdd(in) /\ hAdd(in)[f] <= hValProp[f]
  <2>1. \A f \in Z : f \notin in.s =>
          /\ reachedBy[f] \in Ops(in) /\ f \in in.add[reachedBy[f]]
          /\ hValProp[f] = in.cost[reachedBy[f]] + Total(hValProp, precs(in, reachedBy[f]))
    BY <1>9
  <2>2. \A X \in SUBSET in.facts :
           /\ in.s \subseteq X
           /\ \A f \in Z : f \notin in.s /\ precs(in, reachedBy[f]) \subseteq X => f \in X
           => Z \subseteq X
    BY <1>10
  <2>3. \A f \in Z : /\ f \in DOMAIN g[Cardinality(in.facts)]
                     /\ g[Cardinality(in.facts)][f] <= hValProp[f]
    BY <1>1, <1>2, <2>1, <2>2, RoundsReach
  <2> QED
    BY <1>2, <2>3
<1>12. ASSUME NEW f \in Z PROVE f \in DOMAIN hAdd(in) /\ hAdd(in)[f] = hValProp[f]
  <2>1. f \in DOMAIN hAdd(in) /\ hAdd(in)[f] <= hValProp[f] /\ L[f] <= hAdd(in)[f]
    BY <1>8, <1>11
  <2>2. hAdd(in)[f] \in Nat
    BY <1>1, <1>4, <2>1, ValuationFacts
  <2>3. L[f] = hValProp[f] /\ hValProp[f] \in Nat
    BY <1>1, <1>5
  <2> QED
    BY <2>1, <2>2, <2>3
<1> QED
  BY <1>4, <1>12

(* What AddIsExact says of the value x returned for the instance i.        *)
exactFor(i, x) ==
  LET v == hAdd(i)
  IN  (\A o \in Ops(i) : opValue(i, v, o) < MaxInt) =>
        IF i.g \subseteq DOMAIN v
        THEN total(v, i.g) < MaxInt => x = total(v, i.g)
        ELSE x = hUnreachable

LEMMA ExactForMeans == AddIsExact <=> (pc = "done" /\ in.heuristic = "add" /\ in.g # {} => exactFor(in, value))
  BY DEF AddIsExact, exactFor

(* The last goal fact is taken: all goal facts have a value, and what is   *)
(* left in the heap has a key that is not below that of this one.          *)
LEMMA SettleExact ==
  ASSUME IInv, ReachersInv, AddInv, NEW e \in queue, Settle(e) PROVE AddIsExact'
<1> SUFFICES ASSUME pc' = "done", in.heuristic = "add" PROVE exactFor(in, value')
  BY ExactForMeans DEF Settle, AddIsExact, exactFor
<1> DEFINE Z == settledFacts \cup {e[2]}
<1>1. /\ pc = "loop" /\ todo = {} /\ (\A d \in queue : e[1] <= d[1])
      /\ e[2] \in in.g /\ numGoals' = 0 /\ value' = sumOfGoals /\ numGoals' = numGoals - 1
  BY DEF Settle, top
<1>2. /\ in \in Instances /\ LoopInv /\ \A f \in in.facts : hValProp[f] \in Nat /\ hValProp[f] <= MaxInt
      /\ MaxInt \in Nat /\ in.g \subseteq in.facts /\ IsFiniteSet(in.g)
  BY <1>1, InstanceFacts DEF IInv, TypeOK, Values
<1>3. e[2] \in in.facts /\ e[1] \in Nat /\ e[1] < MaxInt /\ hValProp[e[2]] = e[1] /\ ~ settled(e[2])
  <2>1. e[2] \in in.facts /\ e[1] \in Nat /\ e[1] < MaxInt /\ e = <<hValProp[e[2]], e[2]>> /\ ~ settled(e[2])
    BY SettleFacts
  <2> QED
    BY <2>1
<1>4. in.g \subseteq Z
  <2>1. IsFiniteSet(openGoals) /\ e[2] \in openGoals /\ Cardinality(openGoals) = 1
    <3>1. openGoals \subseteq in.g /\ e[2] \in openGoals
      BY <1>1, <1>3 DEF openGoals
    <3>2. numGoals = Cardinality(openGoals) /\ numGoals \in Nat
      BY <1>2 DEF LoopInv, IInv, TypeOK
    <3> QED
      BY <1>1, <1>2, <3>1, <3>2, FS_Subset
  <2>2. openGoals \ {e[2]} = {}
    BY <2>1, OneLess
  <2> QED
    BY <1>2, <2>2 DEF openGoals, settledFacts
<1>5. Z \in SUBSET in.facts /\ settledFacts \subseteq Z
  BY <1>3 DEF settledFacts
<1>6. \A f \in Z : hValProp[f] # MaxInt /\ hValProp[f] <= e[1]
  <2>1. cur[1] <= e[1] /\ cur[1] \in Nat
    BY <1>2 DEF LoopInv, IInv
  <2>2. ASSUME NEW f \in settledFacts PROVE hValProp[f] # MaxInt /\ hValProp[f] <= e[1]
    <3>1. f \in in.facts /\ settled(f)
      BY <2>2 DEF settledFacts
    <3>2. hValProp[f] # MaxInt /\ hValProp[f] <= cur[1]
      BY <1>2, <3>1 DEF settled, LoopInv
    <3> QED
      BY <1>2, <1>3, <2>1, <3>1, <3>2
  <2> QED
    BY <1>2, <1>3, <2>2
<1>7. ASSUME NEW f \in in.facts, ~ settled(f) PROVE hValProp[f] >= e[1]
  <2>1. hValProp[f] = MaxInt \/ <<hValProp[f], f>> \in queue
    BY <1>7 DEF settled
  <2>2. <<hValProp[f], f>> \in queue => e[1] <= hValProp[f]
    BY <1>1
  <2> QED
    BY <1>2, <1>3, <2>1, <2>2
<1> HIDE DEF Z
<1>8. hAdd(in) \in Valuations /\ \A f \in Z : f \in DOMAIN hAdd(in) /\ hAdd(in)[f] = hValProp[f]
  BY <1>1, <1>3, <1>5, <1>6, <1>7, ValuesAreExact
<1>9. PICK v : v = hAdd(in)
  OBVIOUS
<1>10. in.g \subseteq DOMAIN v /\ \A f \in in.g : v[f] = hValProp[f] /\ hValProp[f] \in Nat
  BY <1>2, <1>4, <1>8, <1>9
<1>11. Total(v, in.g) = Total(hValProp, in.g) /\ Total(hValProp, in.g) \in Nat
  BY <1>2, <1>10, TotalFacts
<1>12. total(v, in.g) = Total(v, in.g) /\ value' = wrap(Total(hValProp, in.g))
  BY <1>1 DEF total, Total, sumOfGoals, sumOver
<1>13. total(v, in.g) < MaxInt => value' = total(v, in.g)
  BY <1>2, <1>11, <1>12, WrapFacts, InstanceFacts
<1> QED
  BY <1>9, <1>10, <1>13 DEF exactFor

(* The heap is empty: no action leads out of what is settled, and a goal   *)
(* fact is not.                                                            *)
LEMMA ExhaustedExact == ASSUME IInv, ReachersInv, AddInv, Exhausted PROVE AddIsExact'
<1> SUFFICES ASSUME in.heuristic = "add", \A o \in Ops(in) : opValue(in, hAdd(in), o) < MaxInt
             PROVE  ~ (in.g \subseteq DOMAIN hAdd(in))
  BY ExactForMeans DEF Exhausted, AddIsExact, exactFor
<1>1. /\ pc = "loop" /\ todo = {} /\ queue = {} /\ in \in Instances /\ LoopInv
      /\ \A f \in in.facts : hValProp[f] \in Nat /\ hValProp[f] <= MaxInt
      /\ MaxInt \in Nat /\ in.s \subseteq in.facts /\ in.g \subseteq in.facts
  BY InstanceFacts DEF Exhausted, IInv, TypeOK, Values
<1>2. \A f : settled(f) <=> hValProp[f] # MaxInt
  BY <1>1 DEF settled
<1>3. /\ settledFacts \in SUBSET in.facts
      /\ \A f \in settledFacts : hValProp[f] # MaxInt /\ hValProp[f] <= MaxInt
      /\ \A f \in in.facts : ~ settled(f) => hValProp[f] >= MaxInt
  BY <1>1, <1>2 DEF settledFacts
<1>4. /\ hAdd(in) \in Valuations
      /\ \A f \in settledFacts : f \in DOMAIN hAdd(in) /\ hAdd(in)[f] = hValProp[f]
  BY <1>1, <1>3, ValuesAreExact
<1>5. PICK v : v = hAdd(in)
  OBVIOUS
<1>6. ASSUME NEW o \in Ops(in), precs(in, o) \subseteq settledFacts, NEW f \in in.add[o]
      PROVE  f \in settledFacts
  <2> DEFINE P == precs(in, o)
             c == counts(v)
  <2>1. f \in in.facts /\ IsFiniteSet(P) /\ P \subseteq in.facts
    BY <1>1, InstanceFacts
  <2>2. open(o) = {} /\ o \notin todo
    BY <1>1, <1>6 DEF open, settledFacts
  <2>3. hValProp[f] <= hValOp[o] /\ hValOp[o] = in.cost[o] + Total(hValProp, P)
    BY <1>1, <2>2, CountedDown, FullyTaken DEF LoopInv
  <2>4. \A p \in P : c[p] = hValProp[p] /\ hValProp[p] \in Nat
    BY <1>1, <1>4, <1>5, <1>6, <2>1 DEF counts
  <2>5. opValue(in, v, o) = in.cost[o] + Total(c, P) /\ opValue(in, v, o) < MaxInt
    BY <1>1, <1>4, <1>5, ValuationFacts
  <2> HIDE DEF c, P
  <2>6. Total(c, P) = Total(hValProp, P)
    BY <2>1, <2>4, TotalFacts
  <2>7. hValOp[o] = opValue(in, v, o) /\ opValue(in, v, o) < MaxInt
    BY <2>3, <2>5, <2>6
  <2>8. hValOp[o] \in Nat
    BY DEF IInv, TypeOK, Values
  <2>9. hValProp[f] # MaxInt
    BY <1>1, <2>1, <2>3, <2>7, <2>8
  <2> QED
    BY <1>2, <2>1, <2>9 DEF settledFacts
<1>7. ClosedUnder(in, Ops(in), settledFacts)
  BY <1>6 DEF ClosedUnder
<1>8. in.s \subseteq settledFacts
  BY <1>1, <1>2 DEF settledFacts, IInv
<1>9. DOMAIN v \subseteq settledFacts
  <2>1. PICK g : isRounds(g) /\ hAdd(in) = g[Cardinality(in.facts)]
    BY <1>1, HAddIsRounds
  <2>2. Cardinality(in.facts) \in Nat
    BY <1>1, InstanceFacts, FS_CardinalityType
  <2>3. \A n \in Nat : DOMAIN g[n] \subseteq settledFacts
    BY <1>1, <1>3, <1>7, <1>8, <2>1, RoundsStayIn
  <2> QED
    BY <1>5, <2>1, <2>2, <2>3
<1>10. ~ (in.g \subseteq settledFacts)
  <2>1. SUFFICES ASSUME in.g \subseteq settledFacts PROVE FALSE
    OBVIOUS
  <2>2. openGoals = {}
    BY <2>1 DEF openGoals, settledFacts
  <2> QED
    BY <1>1, <2>2, FS_EmptySet DEF LoopInv
<1> QED
  BY <1>5, <1>9, <1>10

(* A sum is too large: the action costs at least as much by the definition. *)
LEMMA RelaxExact ==
  ASSUME IInv, ReachersInv, AddInv, NEW o \in todo, Relax(o) PROVE AddIsExact'
<1> SUFFICES ASSUME pc' = "done", in.heuristic = "add",
                    \A p \in Ops(in) : opValue(in, hAdd(in), p) < MaxInt
             PROVE  FALSE
  BY ExactForMeans DEF Relax, AddIsExact, exactFor
<1>1. /\ pc = "loop" /\ in \in Instances /\ LoopInv /\ o \in Ops(in) /\ cur[1] \in 0 .. MaxInt
      /\ cur[2] \in in.facts /\ hValOp[o] \in 0 .. MaxInt /\ MaxInt \in Nat \ {0, 1}
      /\ \A f \in in.facts : hValProp[f] \in Nat /\ hValProp[f] <= MaxInt
  <2>1. pc = "loop" /\ in \in Instances /\ LoopInv /\ TypeOK
    BY DEF IInv
  <2>2. MaxInt \in Nat \ {0, 1}
    BY <2>1, InstanceFacts
  <2> QED
    BY <2>1, <2>2 DEF TypeOK, Values
<1>2. opSums /\ settled(cur[2]) /\ hValProp[cur[2]] = cur[1] /\ cur[2] \in precs(in, o)
  BY <1>1 DEF AddInv, inHand, precToAction
<1>3. hValOp[o] + cur[1] > MaxInt
  <2>1. newVal(o) < hValOp[o] \/ newVal(o) < cur[1]
    BY <1>1 DEF Relax
  <2>2. newVal(o) = wrap(hValOp[o] + cur[1])
    BY DEF newVal
  <2>3. hValOp[o] + cur[1] \in Nat /\ hValOp[o] + cur[1] <= 2 * MaxInt
    BY <1>1
  <2>4. hValOp[o] + cur[1] <= MaxInt => newVal(o) = hValOp[o] + cur[1]
    BY <1>1, <2>2, <2>3, WrapFacts
  <2> QED
    BY <1>1, <2>1, <2>3, <2>4
<1>4. /\ settledFacts \in SUBSET in.facts
      /\ \A f \in settledFacts : hValProp[f] # MaxInt /\ hValProp[f] <= cur[1]
  BY <1>1 DEF settledFacts, settled, LoopInv
<1>5. ASSUME NEW f \in in.facts, ~ settled(f) PROVE hValProp[f] >= cur[1]
  <2>1. hValProp[f] = MaxInt \/ <<hValProp[f], f>> \in queue
    BY <1>5 DEF settled
  <2>2. <<hValProp[f], f>> \in queue => cur[1] <= hValProp[f]
    BY <1>1 DEF LoopInv
  <2> QED
    BY <1>1, <2>1, <2>2
<1>6. /\ hAdd(in) \in Valuations
      /\ \A f \in settledFacts : f \in DOMAIN hAdd(in) /\ hAdd(in)[f] = hValProp[f]
  <2>1. cur[1] \in Nat /\ hValProp[cur[2]] >= cur[1]
    BY <1>1, <1>2
  <2> QED
    BY <1>1, <1>4, <1>5, <2>1, ValuesAreExact
<1>7. PICK v : v = hAdd(in)
  OBVIOUS
<1> DEFINE P == precs(in, o)
           b == counts(v)
           c == taken(o)
           d == [f \in in.facts |-> IF f = cur[2] THEN cur[1] ELSE c[f]]
<1>8. /\ IsFiniteSet(P) /\ P \subseteq in.facts /\ (\A f \in P : c[f] \in Nat)
      /\ Total(c, P) \in Nat /\ in.cost[o] \in Nat /\ hValOp[o] = in.cost[o] + Total(c, P)
  BY <1>1, <1>2, TakenFacts DEF opSums
<1>9. opValue(in, v, o) = in.cost[o] + Total(b, P) /\ opValue(in, v, o) < MaxInt
  BY <1>1, <1>6, <1>7, ValuationFacts
<1>10. /\ d[cur[2]] = cur[1] /\ cur[1] \in Nat /\ c[cur[2]] = 0
       /\ \A f \in P \ {cur[2]} : d[f] = c[f]
  BY <1>1, <1>8 DEF taken
<1>11. ASSUME NEW f \in P PROVE b[f] \in Nat /\ d[f] \in Nat /\ d[f] <= b[f]
  <2>1. f \in in.facts /\ b[f] \in Nat
    BY <1>1, <1>6, <1>7, <1>8, ValuationFacts
  <2>2. CASE settled(f)
    <3>1. b[f] = hValProp[f]
      BY <1>6, <1>7, <2>1, <2>2 DEF counts, settledFacts
    <3>2. d[f] = hValProp[f] \/ d[f] = 0
      BY <1>2, <2>1 DEF taken
    <3> HIDE DEF b, d
    <3> QED
      BY <1>1, <2>1, <3>1, <3>2
  <2>3. CASE ~ settled(f)
    <3>1. d[f] = 0
      BY <1>2, <2>1, <2>3 DEF taken
    <3> HIDE DEF b, d
    <3> QED
      BY <2>1, <3>1
  <2> QED
    BY <2>2, <2>3
<1>12. cur[2] \in P
  BY <1>2
<1> HIDE DEF P, b, c, d
<1>13. Total(d, P) = Total(c, P) + (d[cur[2]] - c[cur[2]])
  BY <1>8, <1>10, <1>12, TotalFacts
<1>14. Total(d, P) \in Nat /\ Total(b, P) \in Nat /\ Total(d, P) <= Total(b, P)
  BY <1>8, <1>11, LowerTotal
<1> QED
  BY <1>1, <1>3, <1>8, <1>9, <1>10, <1>13, <1>14

LEMMA InitExact == ASSUME Init PROVE AddIsExact
  BY DEF Init, AddIsExact

LEMMA StepExact ==
  ASSUME IInv, ReachersInv, AddInv, AddIsExact, [Next]_vars PROVE AddIsExact'
<1>1. CASE \E e \in queue : Skip(e)
  BY <1>1 DEF Skip, top, AddIsExact
<1>2. CASE \E e \in queue : Settle(e)
  BY <1>2, SettleExact
<1>3. CASE \E o \in todo : Relax(o)
  BY <1>3, RelaxExact
<1>4. CASE Exhausted
  BY <1>4, ExhaustedExact
<1>5. CASE (\E f \in goalsLeft : VisitGoal(f)) \/ Mark \/ Extracted
  <2>1. pc = "mark" /\ in' = in
    BY <1>5 DEF VisitGoal, Mark, Extracted
  <2> QED
    BY <2>1 DEF AddInv, AddIsExact
<1>6. CASE UNCHANGED vars
  <2>1. in' = in /\ pc' = pc /\ value' = value
    BY <1>6 DEF vars
  <2> QED
    BY <2>1, ExactForMeans DEF AddIsExact, exactFor
<1> QED
  BY <1>1, <1>2, <1>3, <1>4, <1>5, <1>6 DEF Next, Terminating

LEMMA AddInvariance == Spec => [](AddInv /\ AddIsExact)
<1>1. Init => AddInv /\ AddIsExact
  BY InitAdd, InitExact
<1>2. IInv /\ ReachersInv /\ (AddInv /\ AddIsExact) /\ [Next]_vars => (AddInv /\ AddIsExact)'
  BY StepAdd, StepExact
<1>3. Spec => [](IInv /\ ReachersInv)
  BY Invariance, MarkInvariance, PTL
<1> QED
  BY <1>1, <1>2, <1>3, PTL DEF Spec

-----------------------------------------------------------------------------
(* The values, keys and counters of a call stay in their types, whatever   *)
(* sums overflow (hsAddFF.cpp:19-190).                                     *)
THEOREM TypeCorrect == Spec => []TypeOK
<1>1. IInv => TypeOK
  BY DEF IInv
<1> QED
  BY <1>1, Invariance, PTL

(* hAdd and hFF report a dead end only if the goal is out of reach or a    *)
(* sum hit the value for it (hsAddFF.cpp:114-190).                         *)
THEOREM DeadEndsAreSound == Spec => []UnreachableIsSound
<1>1. IInv => UnreachableIsSound
  BY DEF IInv, UnreachableIsSound
<1> QED
  BY <1>1, Invariance, PTL

(* The actions that the extraction of hFF marks reach the goal from the    *)
(* state: following reachedBy backwards never runs in a circle and misses  *)
(* no precondition (hsAddFF.cpp:72-112, 129-183).                           *)
THEOREM ExtractedPlanReaches == Spec => []MarkedIsPlan
<1>1. IInv /\ (ReachersInv /\ MarkInv) => MarkedIsPlan
  BY MarkedReaches
<1> QED
  BY <1>1, Invariance, MarkInvariance, PTL

(* Where no sum is too large, the value that hAdd returns is the one its   *)
(* definition gives, in whatever order the heap returns equal entries, and *)
(* also though the search ends before the values of other facts are known  *)
(* (hsAddFF.cpp:114-190).                                                  *)
THEOREM AddIsRight == Spec => []AddIsExact
  BY AddInvariance, PTL

(* No sum that fits its type is the value that stands for unreachable.     *)
SumsMissUnreachable ==
  pc = "done" => /\ \A o \in Ops(in) : hValOp[o] # hUnreachable
                 /\ (\A f \in in.g : hValProp[f] # hUnreachable) =>
                      hUnreachable \notin {sumOfGoals, sumOfPlan}

(* A set of facts that contains the state of a relaxed composition and is  *)
(* not left by its actions contains the goal, if the node can be completed.*)
LEMMA CompletedGoal ==
  ASSUME IsComposition(in), in.completed # {},
         NEW X, in.s \subseteq X, ClosedUnder(in, Ops(in), X)
  PROVE  in.g \subseteq X
<1> DEFINE h == in.htn
           n == in.node
<1>1. /\ IsProblem(h) /\ obtained(h, n)
      /\ in = rcInstance(h, n, in.estimate, in.heuristic, in.completed)
      /\ \E o : leadsTo(h, n, o) /\ isGoal(h, o)
  BY DEF IsComposition
<1>2. /\ in.prec = [o \in rcActions(h) |-> rcPrec(h, o)]
      /\ in.add  = [o \in rcActions(h) |-> rcAdd(h, o)]
      /\ in.s = s0set(h, n) /\ in.g = gset(h, n)
  BY <1>1 DEF rcInstance
<1>3. ASSUME NEW o \in rcActions(h), ToSet(rcPrec(h, o)) \subseteq X PROVE rcAdd(h, o) \subseteq X
  <2>1. o \in Ops(in) /\ precs(in, o) = ToSet(rcPrec(h, o)) /\ in.add[o] = rcAdd(h, o)
    BY <1>2 DEF Ops, precs, ToSet
  <2> QED
    BY <1>3, <2>1 DEF ClosedUnder
<1>4. PICK o : leadsTo(h, n, o) /\ isGoal(h, o)
  BY <1>1
<1>5. PICK e \in [Actions(h) -> Nat] :
        \A C : s0set(h, n) \subseteq C /\ ClosedUnderRC(h, executed(h, e), C) => gset(h, n) \subseteq C
  BY <1>1, <1>4, CompletionIsComposed
<1>6. ASSUME NEW a \in executed(h, e), {fact(f) : f \in h.prec[a]} \cup {t2tdr(a)} \subseteq X
      PROVE  {fact(f) : f \in h.add[a]} \cup {t2bur(a)} \subseteq X
  <2>1. a \in Actions(h)
    BY DEF executed
  <2> QED
    BY <1>1, <1>3, <1>6, <2>1, RulesOfRC
<1>7. ASSUME NEW mi \in Methods(h), {t2bur(t) : t \in distinctSubtasks(h.methods[mi])} \subseteq X
      PROVE  t2bur(h.methods[mi].task) \in X
  BY <1>1, <1>3, <1>7, RulesOfRC
<1>8. ClosedUnderRC(h, executed(h, e), X)
  BY <1>6, <1>7 DEF ClosedUnderRC
<1> QED
  BY <1>2, <1>5, <1>8

(* A node for which hAdd or hFF returns unreachable has no completion, so  *)
(* the search may drop it ("otherwise the heuristic is not save",          *)
(* PriorityQueueSearch.h:143; hsAddFF.cpp:94-183).  The instances are the  *)
(* relaxed compositions of nodes that the search can obtain.               *)
THEOREM DeadEndsAreDead ==
  ASSUME \A i \in Instances : IsComposition(i)
  PROVE  Spec /\ []SumsMissUnreachable => []DeadEndIsDead
<1>1. IInv /\ UnreachableIsSound /\ SumsMissUnreachable => DeadEndIsDead
  <2> SUFFICES ASSUME IInv, UnreachableIsSound, SumsMissUnreachable,
                      pc = "done", value = hUnreachable, in.completed # {}
               PROVE  FALSE
    BY DEF DeadEndIsDead
  <2> DEFINE X == {f \in in.facts : hValProp[f] # hUnreachable}
  <2>1. {o \in Ops(in) : hValOp[o] # hUnreachable} = Ops(in)
    BY DEF SumsMissUnreachable
  <2>2. in.s \subseteq X /\ ClosedUnder(in, Ops(in), X) /\ ~ (in.g \subseteq X)
    BY <2>1 DEF UnreachableIsSound, SumsMissUnreachable
  <2>3. IsComposition(in)
    BY DEF IInv
  <2> HIDE DEF X
  <2> QED
    BY <2>2, <2>3, CompletedGoal
<1> QED
  BY <1>1, Invariance, DeadEndsAreSound, PTL
=============================================================================
