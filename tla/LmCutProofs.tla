---------------------------- MODULE LmCutProofs ----------------------------
(***************************************************************************)
(* Proofs about LM-cut: for every relaxed problem, every order in which    *)
(* the heap returns equal entries and every choice of the dearest goal     *)
(* fact, each cut is a landmark that costs something and paying for it     *)
(* frees an action, and the value is admissible; for the relaxed           *)
(* composition of a search node it is so for the HTN problem, and cuts are *)
(* split into actions and methods.                                         *)
(***************************************************************************)
EXTENDS LmCutPromises, ProgressionNetworkProofs

(* A fact is settled when it has a value and no entry for that value is    *)
(* left in the heap.                                                       *)
settled(f) == f \in DOMAIN hVal /\ <<hVal[f], f>> \notin heap
open(o)    == {f \in precs(in, o) : ~ settled(f)}

(* A closed set that contains the state contains all that has a value.     *)
Justified ==
  \A X \in SUBSET in.facts :
    in.s \subseteq X /\ ClosedUnder(in, Ops(in), X) => DOMAIN hVal \subseteq X

(* maxPrec[o] is the dearest of the settled preconditions of o.            *)
Dearest ==
  \A o \in Ops(in) :
    /\ o \in DOMAIN maxPrec <=> \E f \in precs(in, o) : settled(f)
    /\ o \in DOMAIN maxPrec =>
         /\ maxPrec[o] \in precs(in, o) /\ settled(maxPrec[o])
         /\ \A f \in precs(in, o) : settled(f) => hVal[f] <= hVal[maxPrec[o]]

(* getHMax: no entry of the heap is below a settled value, the counters    *)
(* count what is not settled, and the facts of an action whose             *)
(* preconditions are settled are not dearer than it is.  All of it stays   *)
(* true while the cut is made.                                             *)
HMaxInv ==
  /\ \A e \in heap : e[2] \in DOMAIN hVal /\ hVal[e[2]] <= e[1]
  /\ \A e \in heap : \A f \in DOMAIN hVal : settled(f) => hVal[f] <= e[1]
  /\ \A o \in Ops(in) : unsatPrecs[o] = Cardinality(open(o))
  /\ Dearest
  /\ \A o \in Ops(in) : unsatPrecs[o] = 0 =>
       \A x \in in.add[o] : x \in DOMAIN hVal /\ hVal[x] <= hVal[maxPrec[o]] + costs[o]
  /\ \A f \in in.s : f \in DOMAIN hVal /\ hVal[f] = 0
  /\ Justified

(* The facts that reach the dearest goal fact for nothing, and it.         *)
Zone == goalZone \cup {maxPrecG}

(* calcGoalZone: an action that leads into the zone is still to be looked  *)
(* at, or comes from the zone, or is cut.  Cut actions cost something and  *)
(* come from a fact that is tested afterwards, or has joined the zone.     *)
ZoneInv ==
  /\ maxPrecG \in in.g
  /\ \A f \in Zone : f \in DOMAIN hVal /\ hVal[f] > 0
  /\ Range(stack) \subseteq Zone
  /\ \A o \in producers : unsatPrecs[o] = 0 /\ in.add[o] \cap Zone # {}
  /\ \A o \in Ops(in) : unsatPrecs[o] = 0 => \A x \in in.add[o] \cap Zone :
       x \in Range(stack) \/ o \in producers \/ maxPrec[o] \in goalZone \/ o \in cut
  /\ \A o \in cut : /\ unsatPrecs[o] = 0 /\ costs[o] > 0
                    /\ maxPrec[o] \in goalZone \cup precsOfCutNodes

(* A set of facts that shows the cut to be a landmark: the other actions   *)
(* do not leave it, and the goal is not in it.                             *)
Separates(X) ==
  in.s \subseteq X /\ ClosedUnder(in, Ops(in) \ cut, X) /\ ~ (in.g \subseteq X)

CutInv ==
  /\ cut # {} /\ \A o \in cut : costs[o] > 0
  /\ \E X \in SUBSET in.facts : Separates(X)

(* With the actions in ops the goal can be reached: it is in every set     *)
(* with the state that they do not leave.                                  *)
Reaches(ops) ==
  \A X \in SUBSET in.facts :
    in.s \subseteq X /\ ClosedUnder(in, ops, X) => in.g \subseteq X

(* What was paid so far, with what a plan still costs, is not more than    *)
(* what it costs.                                                          *)
Bounded ==
  /\ hLmCut \in Nat
  /\ \A plan \in SUBSET {o \in Ops(in) : in.cost[o] > 0} :
       Reaches(plan \cup {o \in Ops(in) : in.cost[o] = 0}) =>
         hLmCut + Total(costs, plan) <= Total(in.cost, plan)

OutOfReach == pc = "done" /\ hLmCut = UNREACHABLE /\ ~ Reaches(Ops(in))

IInv ==
  /\ TypeOK
  /\ in \in Instances
  /\ \A o \in Ops(in) : costs[o] <= in.cost[o]
  /\ pc # "done" => HMaxInv
  /\ pc \in {"zone", "cut"} => heap = {} /\ in.g \subseteq DOMAIN hVal
  /\ pc = "zone" => ZoneInv
  /\ pc = "cut" => CutInv
  /\ Bounded \/ OutOfReach
-----------------------------------------------------------------------------
(* The folds of the model compute what the functions found by recursion    *)
(* do: facts in reach stay in every closed set.         *)
LEMMA ReachStays ==
  ASSUME NEW i, NEW ops, IsFiniteSet(ops), NEW X, i.s \subseteq X, ClosedUnder(i, ops, X)
  PROVE  relaxedReach(i, ops) \subseteq X
<1> DEFINE D       == 1 .. Cardinality(ops)
           W       == SUBSET X
           grow(Y) == Y \cup UNION {i.add[o] : o \in {p \in ops : precs(i, p) \subseteq Y}}
           step    == [r \in D |-> [Y \in W |-> grow(Y)]]
           all(f)  == [s \in SUBSET D |-> IF s = {} THEN i.s ELSE grow(f[s \ {CHOOSE x \in s : TRUE}])]
           it      == CHOOSE f : f = all(f)
<1>1. relaxedReach(i, ops) = it[D]
  BY DEF relaxedReach, FoldSet, MapThenFoldSet
<1>2. IsFiniteSet(D)
  BY FS_CardinalityType, FS_Interval
<1>3. \A Y \in W : grow(Y) \in W
  BY DEF ClosedUnder
<1>4. step \in [D -> [W -> W]] /\ i.s \in W
  BY <1>3
<1>5. \E f : IsFold(f, D, W, i.s, step)
  <2> HIDE DEF D, W, step
  <2> QED
    BY <1>2, <1>4, FoldExists
<1>6. PICK f : IsFold(f, D, W, i.s, step)
  BY <1>5
<1>7. f = all(f)
  <2>1. ASSUME NEW s \in SUBSET D, s # {}
        PROVE  f[s] = grow(f[s \ {chosen(s)}])
    <3>1. chosen(s) \in D /\ f[s \ {chosen(s)}] \in W
      BY <1>6, <2>1 DEF IsFold, chosen
    <3>2. f[s] = step[chosen(s)][f[s \ {chosen(s)}]]
      BY <1>6, <2>1 DEF IsFold
    <3> HIDE DEF grow, D, W
    <3> QED
      BY <3>1, <3>2
  <2>2. f \in [SUBSET D -> W] /\ f[{}] = i.s
    BY <1>6 DEF IsFold
  <2> HIDE DEF grow, D, W
  <2> QED
    BY <2>1, <2>2 DEF chosen
<1>8. it = all(it)
  <2> HIDE DEF all
  <2> QED
    BY <1>7
<1> DEFINE T == {s \in SUBSET D : it[s] \in W}
<1>9. {} \in T
  <2> HIDE DEF it
  <2>1. it[{}] = i.s
    BY <1>8
  <2> QED
    BY <2>1
<1>10. \A s \in SUBSET D : s # {} /\ s \ {chosen(s)} \in T => s \in T
  <2> SUFFICES ASSUME NEW s \in SUBSET D, s # {}, s \ {chosen(s)} \in T PROVE it[s] \in W
    OBVIOUS
  <2> HIDE DEF it, grow, D, W
  <2>1. it[s] = grow(it[s \ {chosen(s)}])
    BY <1>8 DEF chosen
  <2> QED
    BY <1>3, <2>1
<1>11. SUBSET D \subseteq T
  <2> HIDE DEF T, D
  <2> QED
    BY <1>2, <1>9, <1>10, SubsetInduction
<1> QED
  BY <1>1, <1>11

(* The search backwards from f: in it is f, it has no way on, and no       *)
(* smaller set is like this.                                               *)
ClosedBackwards(X) == \A o \in enabledOutside : in.add[o] \cap X # {} => maxPrec[o] \in X

LEMMA ComesFromIsLeast ==
  ASSUME IsFiniteSet(in.facts), NEW f \in in.facts,
         \A o \in enabledOutside : maxPrec[o] \in in.facts
  PROVE  /\ f \in comesFrom(f) /\ ClosedBackwards(comesFrom(f))
         /\ \A X : f \in X /\ ClosedBackwards(X) => comesFrom(f) \subseteq X
<1> DEFINE D       == in.facts
           W       == SUBSET D
           grow(Y) == Y \cup {maxPrec[o] : o \in {p \in enabledOutside : in.add[p] \cap Y # {}}}
           step    == [Y \in W |-> grow(Y)]
           steps   == [r \in D |-> step]
           all(h)  == [s \in SUBSET D |-> IF s = {} THEN {f} ELSE grow(h[s \ {CHOOSE x \in s : TRUE}])]
           it      == CHOOSE h : h = all(h)
<1>0. IsFiniteSet(D)
  OBVIOUS
<1>1. comesFrom(f) = it[D]
  BY DEF comesFrom, FoldSet, MapThenFoldSet
<1>2. \A Y \in W : grow(Y) \in W
  OBVIOUS
<1>3. step \in [W -> W] /\ {f} \in W /\ steps \in [D -> [W -> W]]
  BY <1>2
<1>4. PICK g : IsIteration(g, W, {f}, step)
  <2> HIDE DEF W, step
  <2> QED
    BY <1>3, Recursion
<1>5. /\ g \in [Nat -> W] /\ g[0] = {f}
      /\ \A n \in Nat : g[n + 1] = grow(g[n])
  <2>1. g \in [Nat -> W] /\ g[0] = {f} /\ \A n \in Nat : g[n + 1] = step[g[n]]
    <3> HIDE DEF W, step
    <3> QED
      BY <1>4 DEF IsIteration
  <2>2. \A n \in Nat : g[n] \in W
    BY <2>1
  <2> HIDE DEF W, grow
  <2> QED
    BY <2>1, <2>2
<1>6. \E h : h = all(h)
  <2>1. \E h : IsFold(h, D, W, {f}, steps)
    <3> HIDE DEF D, W, steps
    <3> QED
      BY <1>0, <1>3, FoldExists
  <2>2. PICK h : IsFold(h, D, W, {f}, steps)
    BY <2>1
  <2>3. ASSUME NEW s \in SUBSET D, s # {}
        PROVE  h[s] = grow(h[s \ {chosen(s)}])
    <3>1. chosen(s) \in D /\ h[s \ {chosen(s)}] \in W
      BY <2>2, <2>3 DEF IsFold, chosen
    <3>2. h[s] = steps[chosen(s)][h[s \ {chosen(s)}]]
      BY <2>2, <2>3 DEF IsFold
    <3> HIDE DEF grow, D, W
    <3> QED
      BY <3>1, <3>2
  <2>4. h \in [SUBSET D -> W] /\ h[{}] = {f}
    BY <2>2 DEF IsFold
  <2> HIDE DEF grow, D, W
  <2>5. h = all(h)
    BY ZenonT(60), <2>3, <2>4 DEF chosen
  <2> HIDE DEF all
  <2> QED
    BY <2>5
<1>7. it = all(it)
  <2> HIDE DEF all
  <2> QED
    BY <1>6
<1> DEFINE T == {s \in SUBSET D : it[s] = g[Cardinality(s)]}
<1>8. {} \in T
  <2> HIDE DEF it
  <2>1. it[{}] = {f}
    BY <1>7
  <2> QED
    BY <1>5, <2>1, FS_EmptySet
<1>9. ASSUME NEW s \in SUBSET D, s # {}, s \ {chosen(s)} \in T PROVE s \in T
  <2> HIDE DEF it, grow
  <2>1. it[s] = grow(it[s \ {chosen(s)}])
    BY <1>7, <1>9 DEF chosen
  <2>2. IsFiniteSet(s) /\ chosen(s) \in s
    BY <1>9, FS_Subset DEF chosen
  <2>3. Cardinality(s \ {chosen(s)}) \in Nat
        /\ Cardinality(s) = Cardinality(s \ {chosen(s)}) + 1
    <3>1. /\ IsFiniteSet(s \ {chosen(s)}) /\ Cardinality(s) \in Nat
          /\ Cardinality(s \ {chosen(s)}) = Cardinality(s) - 1
      BY <2>2, FS_RemoveElement, FS_CardinalityType
    <3> QED
      BY <3>1, FS_CardinalityType
  <2>4. g[Cardinality(s)] = grow(g[Cardinality(s \ {chosen(s)})])
    BY <1>5, <2>3
  <2> QED
    BY <1>9, <2>1, <2>4
<1>10. SUBSET D \subseteq T
  <2> HIDE DEF T, D
  <2> QED
    BY <1>0, <1>8, <1>9, SubsetInduction
<1> DEFINE N == Cardinality(D)
<1>11. comesFrom(f) = g[N]
  BY <1>1, <1>10
<1>12. N \in Nat
  BY FS_CardinalityType
<1> HIDE DEF it
<1>13. g[N + 1] = g[N]
  <2>1. \A n \in Nat : g[n] \subseteq g[n + 1]
    BY <1>5
  <2>2. \A n \in Nat : g[n + 1] = g[n] => g[n + 2] = g[n + 1]
    <3> HIDE DEF grow
    <3>1. ASSUME NEW n \in Nat PROVE g[n + 2] = grow(g[n + 1])
      <4>1. n + 1 \in Nat /\ (n + 1) + 1 = n + 2
        OBVIOUS
      <4>2. g[(n + 1) + 1] = grow(g[n + 1])
        BY <1>5, <4>1
      <4> QED
        BY <4>1, <4>2
    <3> QED
      BY <1>5, <3>1
  <2>3. g \in [Nat -> SUBSET D]
    BY <1>5
  <2> HIDE DEF D
  <2> QED
    BY <2>1, <2>2, <2>3, GrowthEnds DEF D
<1>14. ClosedBackwards(g[N])
  <2>1. grow(g[N]) = g[N]
    <3> HIDE DEF grow, N
    <3> QED
      BY <1>5, <1>12, <1>13
  <2> QED
    BY <2>1 DEF ClosedBackwards
<1> HIDE DEF N
<1>15. f \in g[N]
  <2> DEFINE S == {n \in Nat : f \in g[n]}
  <2>1. 0 \in S
    BY <1>5
  <2>2. \A n \in Nat : n \in S => n + 1 \in S
    BY <1>5
  <2> HIDE DEF S
  <2>3. Nat \subseteq S
    BY <2>1, <2>2, Induction
  <2> QED
    BY <1>12, <2>3 DEF S
<1>16. ASSUME NEW X, f \in X, ClosedBackwards(X) PROVE g[N] \subseteq X
  <2> DEFINE S == {n \in Nat : g[n] \subseteq X}
  <2>1. 0 \in S
    BY <1>5, <1>16
  <2>2. ASSUME NEW n \in Nat, n \in S PROVE n + 1 \in S
    <3>1. g[n] \subseteq X /\ g[n + 1] = grow(g[n])
      BY <1>5, <2>2
    <3>2. grow(g[n]) \subseteq X
      BY <1>16, <3>1 DEF ClosedBackwards
    <3> QED
      BY <3>1, <3>2
  <2> HIDE DEF S
  <2>3. Nat \subseteq S
    BY <2>1, <2>2, Induction
  <2> QED
    BY <1>12, <2>3 DEF S
<1> QED
  BY <1>11, <1>14, <1>15, <1>16

LEMMA MinOf ==
  ASSUME NEW T \in SUBSET Nat, T # {}
  PROVE  Min(T) \in T /\ \A t \in T : Min(T) <= t
<1>1. \E n \in T : \A m \in T : n <= m
  BY LeastElement
<1> QED
  BY <1>1 DEF Min

-----------------------------------------------------------------------------
(* What the assumption says of the instance in hand.                       *)
LEMMA InstanceFacts ==
  ASSUME in \in Instances
  PROVE  /\ MaxInt \in Nat \ {0, 1}
         /\ IsFiniteSet(in.facts) /\ in.s \subseteq in.facts /\ in.g \subseteq in.facts
         /\ Ops(in) \subseteq Nat /\ IsFiniteSet(Ops(in))
         /\ in.cost \in [Ops(in) -> 0 .. MaxInt - 1]
         /\ \A o \in Ops(in) :
              /\ in.cost[o] \in 0 .. MaxInt - 1
              /\ in.add[o] \subseteq in.facts
              /\ precs(in, o) \subseteq in.facts /\ IsFiniteSet(precs(in, o))
              /\ Len(in.prec[o]) = Cardinality(precs(in, o))
              /\ Len(in.prec[o]) \in Nat \ {0}
<1>1. MaxInt \in Nat \ {0, 1} /\ IsRelaxedProblem(in)
  BY LmCutAssumption
<1>2. ASSUME NEW o \in Ops(in)
      PROVE  /\ in.cost[o] \in 0 .. MaxInt - 1
             /\ in.add[o] \subseteq in.facts
             /\ precs(in, o) \subseteq in.facts /\ IsFiniteSet(precs(in, o))
             /\ Len(in.prec[o]) = Cardinality(precs(in, o))
             /\ Len(in.prec[o]) \in Nat \ {0}
  <2>1. /\ in.prec[o] \in Seq(in.facts) \ {<< >>}
        /\ \A i, j \in DOMAIN in.prec[o] : in.prec[o][i] = in.prec[o][j] => i = j
        /\ in.add[o] \subseteq in.facts
        /\ in.cost[o] \in 0 .. MaxInt - 1
    BY <1>1 DEF IsRelaxedProblem
  <2>2. precs(in, o) \subseteq in.facts
    BY <2>1 DEF precs
  <2>3. Len(in.prec[o]) \in Nat \ {0}
    BY <2>1
  <2> QED
    BY <2>1, <2>2, <2>3, LengthOfList DEF precs
<1>3. /\ in.cost \in [Ops(in) -> 0 .. MaxInt - 1]
      /\ IsFiniteSet(in.facts) /\ in.s \subseteq in.facts /\ in.g \subseteq in.facts
      /\ Ops(in) \subseteq Nat /\ IsFiniteSet(Ops(in))
  BY <1>1 DEF IsRelaxedProblem
<1> QED
  BY <1>1, <1>2, <1>3

(* The types of what getHMax computes, and the state it starts in, which   *)
(* satisfies the invariant.                                                *)
HMaxTypes ==
  /\ heap \subseteq Nat \X in.facts
  /\ DOMAIN hVal \subseteq in.facts /\ \A f \in DOMAIN hVal : hVal[f] \in Nat
  /\ unsatPrecs \in [Ops(in) -> Nat]
  /\ DOMAIN maxPrec \subseteq Ops(in) /\ \A o \in DOMAIN maxPrec : maxPrec[o] \in DOMAIN hVal

Started ==
  /\ heap = startHMax(in).heap /\ hVal = startHMax(in).hVal
  /\ unsatPrecs = startHMax(in).unsatPrecs /\ maxPrec = startHMax(in).maxPrec

LEMMA StartIsHMax == in \in Instances /\ Started => HMaxInv /\ HMaxTypes
<1> SUFFICES ASSUME in \in Instances, Started PROVE HMaxInv /\ HMaxTypes
  OBVIOUS
<1>1. /\ heap = {0} \X in.s /\ hVal = [f \in in.s |-> 0]
      /\ unsatPrecs = [o \in Ops(in) |-> Len(in.prec[o])]
      /\ maxPrec = [o \in {} |-> {}]
  BY DEF Started, startHMax
<1>2. DOMAIN hVal = in.s /\ DOMAIN maxPrec = {} /\ \A f \in in.s : hVal[f] = 0
  BY <1>1
<1>3. \A f : ~ settled(f)
  BY <1>1 DEF settled
<1>4. \A o \in Ops(in) : open(o) = precs(in, o)
  BY <1>3 DEF open
<1>5. \A o \in Ops(in) : unsatPrecs[o] = Cardinality(open(o)) /\ unsatPrecs[o] \in Nat \ {0}
  BY <1>1, <1>4, InstanceFacts
<1>6. Dearest
  BY <1>2, <1>3 DEF Dearest
<1>7. Justified
  BY <1>2 DEF Justified
<1>8. \A e \in heap : e[2] \in in.s /\ e[1] = 0
  BY <1>1
<1>9. HMaxInv
  BY <1>2, <1>3, <1>5, <1>6, <1>7, <1>8 DEF HMaxInv
<1>10. HMaxTypes
  BY <1>1, <1>2, <1>5, InstanceFacts DEF HMaxTypes
<1> QED
  BY <1>9, <1>10

(* What is reached depends on the instance only; as long as nothing is     *)
(* paid, what was paid stays bounded.                                      *)
LEMMA ReachesStays ==
  ASSUME in' = in
  PROVE  \A ops : Reaches(ops)' <=> Reaches(ops)
<1>1. \A ops, X : ClosedUnder(in, ops, X)' <=> ClosedUnder(in, ops, X)
  BY DEF ClosedUnder, precs
<1> QED
  BY <1>1 DEF Reaches

LEMMA BoundedStays ==
  ASSUME in' = in, costs' = costs, hLmCut' = hLmCut
  PROVE  Bounded' <=> Bounded
<1>1. \A ops : Reaches(ops)' <=> Reaches(ops)
  BY ReachesStays
<1> QED
  BY <1>1 DEF Bounded, Ops

LEMMA HMaxFacts ==
  ASSUME IInv, pc # "done"
  PROVE  /\ in \in Instances /\ HMaxTypes /\ HMaxInv /\ Bounded
         /\ costs \in [Ops(in) -> Nat]
         /\ \A o \in Ops(in) : costs[o] \in Nat /\ unsatPrecs[o] \in Nat
         /\ \A o \in Ops(in) : IsFiniteSet(open(o)) /\ open(o) \subseteq precs(in, o)
         /\ \A e \in heap : e = <<e[1], e[2]>> /\ e[1] \in Nat /\ e[2] \in in.facts
<1>1. in \in Instances /\ TypeOK /\ HMaxInv /\ Bounded
  BY DEF IInv, OutOfReach
<1>2. HMaxTypes /\ costs \in [Ops(in) -> Nat] /\ \A o \in Ops(in) : costs[o] \in Nat /\ unsatPrecs[o] \in Nat
  BY <1>1 DEF TypeOK, HMaxTypes
<1>3. \A o \in Ops(in) : IsFiniteSet(open(o)) /\ open(o) \subseteq precs(in, o)
  BY <1>1, InstanceFacts, FS_Subset DEF open
<1>4. \A e \in heap : e = <<e[1], e[2]>> /\ e[1] \in Nat /\ e[2] \in in.facts
  BY <1>2 DEF HMaxTypes
<1> QED
  BY <1>1, <1>2, <1>3, <1>4

(* What is outdated in the heap is no entry of a fact's value.             *)
LEMMA SkipIInv == ASSUME IInv, NEW e \in heap, Skip(e) PROVE IInv'
<1>1. /\ pc = "hMax" /\ hVal[e[2]] < e[1] /\ heap' = heap \ {e}
      /\ in' = in /\ pc' = pc /\ costs' = costs /\ hVal' = hVal
      /\ unsatPrecs' = unsatPrecs /\ maxPrec' = maxPrec /\ maxPrecG' = maxPrecG
      /\ zoneVars' = zoneVars /\ cuts' = cuts /\ hLmCut' = hLmCut
  BY DEF Skip, top
<1>2. /\ in \in Instances /\ HMaxTypes /\ HMaxInv /\ Bounded
      /\ e = <<e[1], e[2]>> /\ e[1] \in Nat /\ e[2] \in DOMAIN hVal
      /\ \A f \in DOMAIN hVal : hVal[f] \in Nat
  BY <1>1, HMaxFacts DEF HMaxTypes, HMaxInv
<1>3. \A f : settled(f)' <=> settled(f)
  <2>1. \A f \in DOMAIN hVal : <<hVal[f], f>> # e
    BY <1>1, <1>2
  <2> QED
    BY <1>1, <2>1 DEF settled
<1>4. \A o : open(o)' = open(o)
  BY <1>1, <1>3 DEF open, precs
<1>5. (Dearest' <=> Dearest) /\ (Justified' <=> Justified)
  BY <1>1, <1>3 DEF Dearest, Justified, precs, Ops, ClosedUnder
<1>6. HMaxInv'
  BY <1>1, <1>2, <1>3, <1>4, <1>5 DEF HMaxInv, Ops
<1>7. TypeOK'
  BY <1>1 DEF IInv, TypeOK, zoneVars, Ops
<1>8. Bounded'
  BY <1>1, <1>2, BoundedStays
<1> QED
  BY <1>1, <1>2, <1>6, <1>7, <1>8 DEF IInv, Ops

(* The entry in hand holds the value of its fact, which becomes settled;   *)
(* every action in hand has a dearest precondition of that value, so the   *)
(* facts it makes cheaper are not settled.                                 *)
LEMMA SettleFacts ==
  ASSUME IInv, NEW e \in heap, Settle(e)
  PROVE  /\ e[2] \in DOMAIN hVal /\ hVal[e[2]] = e[1] /\ e[1] \in Nat
         /\ ~ settled(e[2])
         /\ DOMAIN hVal' \subseteq in.facts /\ \A x \in DOMAIN hVal' : hVal'[x] \in Nat
         /\ \A x \in DOMAIN hVal : /\ x \in DOMAIN hVal' /\ hVal'[x] <= hVal[x]
                                   /\ settled(x) \/ x = e[2] => hVal'[x] = hVal[x]
         /\ \A x \in DOMAIN hVal' \ DOMAIN hVal : \E o \in Ops(in) :
              x \in in.add[o] /\ unsatPrecs[o] = 1 /\ e[2] \in precs(in, o)
         /\ \A o \in Ops(in) : e[2] \in precs(in, o) /\ unsatPrecs[o] = 1 =>
              \A x \in in.add[o] : x \in DOMAIN hVal' /\ hVal'[x] <= e[1] + costs[o]
         /\ \A d \in heap' : \/ d \in heap
                             \/ /\ d = <<d[1], d[2]>> /\ d[2] \in DOMAIN hVal'
                                /\ d[1] = hVal'[d[2]] /\ e[1] <= d[1]
         /\ \A x : settled(x)' <=> settled(x) \/ x = e[2]
         /\ DOMAIN maxPrec' = DOMAIN maxPrec \cup {o \in Ops(in) : e[2] \in precs(in, o)}
         /\ \A o \in Ops(in) : e[2] \in precs(in, o) =>
              /\ maxPrec'[o] \in precs(in, o) /\ maxPrec'[o] \in DOMAIN hVal
              /\ settled(maxPrec'[o]) \/ maxPrec'[o] = e[2]
              /\ hVal[maxPrec'[o]] = e[1]
         /\ \A o \in DOMAIN maxPrec : e[2] \notin precs(in, o) => maxPrec'[o] = maxPrec[o]
<1> DEFINE f          == e[2]
           v          == e[1]
           visits     == precToAction(in, f)
           dearest(o) == IF o \in visits /\ isDearest(o, f) THEN f ELSE maxPrec[o]
           reached    == {o \in visits : unsatPrecs[o] = 1}
           offers(x)  == {hVal[dearest(o)] + costs[o] : o \in reached \cap addToTask(in, x)}
           offer(x)   == Min(offers(x))
           better     == {x \in UNION {in.add[o] : o \in reached} :
                            x \in DOMAIN hVal => offer(x) < hVal[x]}
<1>1. /\ pc = "hMax" /\ \A d \in heap : v <= d[1]
      /\ v <= hVal[f]
      /\ maxPrec' = [o \in DOMAIN maxPrec \cup visits |-> dearest(o)]
      /\ hVal' = [x \in DOMAIN hVal \cup better |-> IF x \in better THEN offer(x) ELSE hVal[x]]
      /\ heap' = (heap \ {e}) \cup {<<offer(x), x>> : x \in better}
  BY DEF Settle, top
<1>2. /\ in \in Instances /\ HMaxTypes /\ HMaxInv
      /\ \A o \in Ops(in) : costs[o] \in Nat /\ unsatPrecs[o] \in Nat
      /\ \A d \in heap : d = <<d[1], d[2]>> /\ d[1] \in Nat /\ d[2] \in in.facts
  BY <1>1, HMaxFacts
<1>3. /\ f \in DOMAIN hVal /\ hVal[f] = v /\ v \in Nat /\ e = <<v, f>>
      /\ DOMAIN hVal \subseteq in.facts /\ \A x \in DOMAIN hVal : hVal[x] \in Nat
      /\ DOMAIN maxPrec \subseteq Ops(in)
  <2>1. f \in DOMAIN hVal /\ hVal[f] <= v /\ v \in Nat /\ e = <<v, f>>
    BY <1>2 DEF HMaxInv
  <2>2. DOMAIN hVal \subseteq in.facts /\ \A x \in DOMAIN hVal : hVal[x] \in Nat
    BY <1>2 DEF HMaxTypes
  <2>3. hVal[f] = v
    BY <1>1, <2>1, <2>2
  <2> QED
    BY <1>2, <2>1, <2>2, <2>3 DEF HMaxTypes
<1>4. ~ settled(f)
  BY <1>3 DEF settled
<1>5. \A x \in DOMAIN hVal : settled(x) => hVal[x] <= v
  BY <1>2 DEF HMaxInv
<1>6. visits = {o \in Ops(in) : f \in precs(in, o)}
  BY DEF precToAction
<1>7. ASSUME NEW o \in visits
      PROVE  /\ dearest(o) \in precs(in, o) /\ dearest(o) \in DOMAIN hVal
             /\ settled(dearest(o)) \/ dearest(o) = f
             /\ hVal[dearest(o)] = v
  <2>1. CASE isDearest(o, f)
    BY <1>3, <1>6, <1>7, <2>1
  <2>2. CASE ~ isDearest(o, f)
    <3>1. o \in DOMAIN maxPrec /\ ~ (hVal[maxPrec[o]] < v) /\ dearest(o) = maxPrec[o]
      BY <1>3, <2>2 DEF isDearest
    <3>2. maxPrec[o] \in precs(in, o) /\ settled(maxPrec[o])
      BY <1>2, <1>6, <3>1 DEF HMaxInv, Dearest
    <3>3. maxPrec[o] \in DOMAIN hVal
      BY <3>2 DEF settled
    <3>4. hVal[maxPrec[o]] <= v
      BY <1>5, <3>2, <3>3
    <3> QED
      BY <1>3, <3>1, <3>2, <3>3, <3>4
  <2> QED
    BY <2>1, <2>2
<1> HIDE DEF dearest
<1>8. ASSUME NEW x \in UNION {in.add[o] : o \in reached}
      PROVE  /\ offer(x) \in Nat /\ v <= offer(x)
             /\ \A o \in reached : x \in in.add[o] => offer(x) <= v + costs[o]
  <2>1. offers(x) \in SUBSET Nat
    BY <1>2, <1>3, <1>6, <1>7
  <2>2. \A o \in reached : x \in in.add[o] => v + costs[o] \in offers(x)
    BY <1>6, <1>7 DEF addToTask
  <2>3. offers(x) # {}
    BY <2>2
  <2>4. \A n \in offers(x) : v <= n
    BY <1>2, <1>3, <1>6, <1>7
  <2> HIDE DEF offers
  <2>5. Min(offers(x)) \in offers(x) /\ \A n \in offers(x) : Min(offers(x)) <= n
    BY <2>1, <2>3, MinOf
  <2> QED
    BY <2>1, <2>2, <2>4, <2>5
<1> HIDE DEF offer
<1>9. ASSUME NEW x \in better
      PROVE  /\ offer(x) \in Nat /\ v <= offer(x) /\ ~ settled(x) /\ x # f /\ x \in in.facts
             /\ x \in DOMAIN hVal => offer(x) < hVal[x]
  <2>1. x \in UNION {in.add[o] : o \in reached} /\ (x \in DOMAIN hVal => offer(x) < hVal[x])
    OBVIOUS
  <2>2. offer(x) \in Nat /\ v <= offer(x)
    BY <1>8, <2>1
  <2>3. x # f
    BY <1>3, <2>1, <2>2
  <2>4. ~ settled(x)
    <3>1. SUFFICES ASSUME x \in DOMAIN hVal PROVE ~ settled(x)
      BY DEF settled
    <3> QED
      BY <1>3, <1>5, <2>1, <2>2, <3>1
  <2>5. x \in in.facts
    BY <1>2, <1>6, <2>1, InstanceFacts
  <2> QED
    BY <2>1, <2>2, <2>3, <2>4, <2>5
<1>10. /\ DOMAIN hVal' = DOMAIN hVal \cup better
       /\ \A x \in better : hVal'[x] = offer(x)
       /\ \A x \in DOMAIN hVal : x \notin better => hVal'[x] = hVal[x]
  BY <1>1
<1>11. /\ DOMAIN hVal' \subseteq in.facts /\ \A x \in DOMAIN hVal' : hVal'[x] \in Nat
       /\ \A x \in DOMAIN hVal : /\ x \in DOMAIN hVal' /\ hVal'[x] <= hVal[x]
                                 /\ settled(x) \/ x = f => hVal'[x] = hVal[x]
  BY <1>3, <1>9, <1>10
<1>12. \A x \in DOMAIN hVal' \ DOMAIN hVal : \E o \in Ops(in) :
          x \in in.add[o] /\ unsatPrecs[o] = 1 /\ f \in precs(in, o)
  BY <1>6, <1>10
<1>13. ASSUME NEW o \in Ops(in), f \in precs(in, o), unsatPrecs[o] = 1, NEW x \in in.add[o]
       PROVE  x \in DOMAIN hVal' /\ hVal'[x] <= v + costs[o]
  <2>1. o \in reached /\ x \in UNION {in.add[p] : p \in reached}
    BY <1>6, <1>13
  <2>2. offer(x) <= v + costs[o] /\ offer(x) \in Nat
    BY <1>8, <2>1
  <2>3. CASE x \in better
    BY <1>10, <2>2, <2>3
  <2>4. CASE x \notin better
    <3>1. x \in DOMAIN hVal /\ ~ (offer(x) < hVal[x])
      BY <2>1, <2>4
    <3>2. hVal[x] \in Nat /\ costs[o] \in Nat
      BY <1>2, <1>3, <3>1
    <3> QED
      BY <1>3, <1>10, <2>2, <2>4, <3>1, <3>2
  <2> QED
    BY <2>3, <2>4
<1>14. ASSUME NEW d \in heap'
       PROVE  \/ d \in heap
              \/ /\ d = <<d[1], d[2]>> /\ d[2] \in DOMAIN hVal'
                 /\ d[1] = hVal'[d[2]] /\ v <= d[1]
  <2>1. SUFFICES ASSUME NEW x \in better, d = <<offer(x), x>>
                 PROVE  /\ d = <<d[1], d[2]>> /\ d[2] \in DOMAIN hVal'
                        /\ d[1] = hVal'[d[2]] /\ v <= d[1]
    BY <1>1
  <2> HIDE DEF better
  <2> QED
    BY <1>9, <1>10, <2>1
<1>15. ASSUME NEW x PROVE settled(x)' <=> settled(x) \/ x = f
  <2>1. CASE x \in better
    <3>1. <<hVal'[x], x>> \in heap'
      BY <1>1, <1>10, <2>1
    <3> QED
      BY <1>9, <2>1, <3>1 DEF settled
  <2>2. CASE x \notin better
    <3>1. x \in DOMAIN hVal' <=> x \in DOMAIN hVal
      BY <1>10, <2>2
    <3>2. \A n : <<n, x>> \in heap' <=> <<n, x>> \in heap \ {e}
      BY <1>1, <2>2
    <3>3. x \in DOMAIN hVal => hVal'[x] = hVal[x]
      BY <1>10, <2>2
    <3> HIDE DEF better
    <3> QED
      BY <1>3, <3>1, <3>2, <3>3 DEF settled
  <2> QED
    BY <2>1, <2>2
<1>16. DOMAIN maxPrec' = DOMAIN maxPrec \cup visits
  BY <1>1
<1>17. ASSUME NEW o \in visits
       PROVE  /\ maxPrec'[o] \in precs(in, o) /\ maxPrec'[o] \in DOMAIN hVal
              /\ settled(maxPrec'[o]) \/ maxPrec'[o] = f
              /\ hVal[maxPrec'[o]] = v
  <2>1. maxPrec'[o] = dearest(o)
    BY <1>1
  <2> QED
    BY <1>7, <2>1
<1>18. \A o \in DOMAIN maxPrec : o \notin visits => maxPrec'[o] = maxPrec[o]
  BY <1>1 DEF dearest
<1> HIDE DEF f, v, visits, better, reached
<1>19. \A o \in Ops(in) : f \in precs(in, o) /\ unsatPrecs[o] = 1 =>
         \A x \in in.add[o] : x \in DOMAIN hVal' /\ hVal'[x] <= v + costs[o]
  BY <1>13
<1> QED
  BY <1>3, <1>4, <1>6, <1>11, <1>12, <1>14, <1>15, <1>16, <1>17, <1>18, <1>19 DEF f, v

LEMMA SettleIInv == ASSUME IInv, NEW e \in heap, Settle(e) PROVE IInv'
<1> DEFINE f == e[2]
           v == e[1]
           now == {x \in DOMAIN hVal' : <<hVal'[x], x>> \notin heap'}
<1>1. /\ pc = "hMax" /\ \A d \in heap : v <= d[1]
      /\ unsatPrecs' = [o \in Ops(in) |-> IF f \in precs(in, o) THEN unsatPrecs[o] - 1 ELSE unsatPrecs[o]]
      /\ in' = in /\ pc' = pc /\ costs' = costs /\ maxPrecG' = maxPrecG
      /\ zoneVars' = zoneVars /\ cuts' = cuts /\ hLmCut' = hLmCut
  BY DEF Settle, top, precToAction
<1>2. /\ in \in Instances /\ HMaxTypes /\ HMaxInv /\ Bounded
      /\ \A o \in Ops(in) : costs[o] \in Nat /\ unsatPrecs[o] \in Nat
      /\ \A o \in Ops(in) : IsFiniteSet(open(o)) /\ open(o) \subseteq precs(in, o)
      /\ \A d \in heap : d = <<d[1], d[2]>> /\ d[1] \in Nat /\ d[2] \in in.facts
  BY <1>1, HMaxFacts
<1>3. /\ f \in DOMAIN hVal /\ hVal[f] = v /\ v \in Nat /\ ~ settled(f)
      /\ DOMAIN hVal' \subseteq in.facts /\ \A x \in DOMAIN hVal' : hVal'[x] \in Nat
      /\ \A x \in DOMAIN hVal : x \in DOMAIN hVal' /\ hVal'[x] <= hVal[x]
      /\ \A x \in DOMAIN hVal : settled(x) \/ x = f => hVal'[x] = hVal[x]
  BY SettleFacts
<1>4. \A x \in DOMAIN hVal' \ DOMAIN hVal : \E o \in Ops(in) :
        x \in in.add[o] /\ unsatPrecs[o] = 1 /\ f \in precs(in, o)
  BY SettleFacts
<1>5. \A o \in Ops(in) : f \in precs(in, o) /\ unsatPrecs[o] = 1 =>
        \A x \in in.add[o] : x \in DOMAIN hVal' /\ hVal'[x] <= v + costs[o]
  BY SettleFacts
<1>6. \A d \in heap' : \/ d \in heap
                       \/ /\ d = <<d[1], d[2]>> /\ d[2] \in DOMAIN hVal'
                          /\ d[1] = hVal'[d[2]] /\ v <= d[1]
  BY SettleFacts
<1>7. \A x : settled(x)' <=> settled(x) \/ x = f
  BY SettleFacts
<1>8. /\ DOMAIN maxPrec' = DOMAIN maxPrec \cup {o \in Ops(in) : f \in precs(in, o)}
      /\ \A o \in DOMAIN maxPrec : f \notin precs(in, o) => maxPrec'[o] = maxPrec[o]
  BY SettleFacts
<1>9. \A o \in Ops(in) : f \in precs(in, o) =>
        /\ maxPrec'[o] \in precs(in, o) /\ maxPrec'[o] \in DOMAIN hVal
        /\ settled(maxPrec'[o]) \/ maxPrec'[o] = f
        /\ hVal[maxPrec'[o]] = v
  BY SettleFacts
<1> HIDE DEF f, v
<1>10. /\ DOMAIN hVal \subseteq in.facts /\ \A x \in DOMAIN hVal : hVal[x] \in Nat
       /\ DOMAIN maxPrec \subseteq Ops(in)
       /\ \A x \in DOMAIN hVal : settled(x) => hVal[x] <= v
  <2>1. \A x \in DOMAIN hVal : settled(x) => hVal[x] <= v
    BY <1>2 DEF HMaxInv, v
  <2> QED
    BY <1>2, <2>1 DEF HMaxTypes
<1>11. \A o : open(o)' = open(o) \ {f}
  BY <1>1, <1>7 DEF open, precs
<1>12. \A o \in Ops(in) : f \in precs(in, o) => f \in open(o) /\ unsatPrecs[o] >= 1
  <2> SUFFICES ASSUME NEW o \in Ops(in), f \in precs(in, o) PROVE f \in open(o) /\ unsatPrecs[o] >= 1
    OBVIOUS
  <2>1. f \in open(o)
    BY <1>3 DEF open
  <2>2. unsatPrecs[o] = Cardinality(open(o)) /\ IsFiniteSet(open(o))
    BY <1>2 DEF HMaxInv
  <2>3. unsatPrecs[o] # 0
    BY <2>1, <2>2, FS_EmptySet
  <2> QED
    BY <1>2, <2>1, <2>3
<1>13. ASSUME NEW o \in Ops(in) PROVE unsatPrecs'[o] = Cardinality(open(o)')
  <2>1. unsatPrecs[o] = Cardinality(open(o)) /\ IsFiniteSet(open(o))
    BY <1>2 DEF HMaxInv
  <2>2. CASE f \in precs(in, o)
    <3>1. unsatPrecs'[o] = unsatPrecs[o] - 1
      BY <1>1, <2>2
    <3> QED
      BY <1>11, <1>12, <2>1, <2>2, <3>1, OneLess
  <2>3. CASE f \notin precs(in, o)
    <3>1. unsatPrecs'[o] = unsatPrecs[o]
      BY <1>1, <2>3
    <3>2. open(o)' = open(o)
      BY <1>2, <1>11, <2>3
    <3> QED
      BY <2>1, <3>1, <3>2
  <2> QED
    BY <2>2, <2>3
<1>14. (\A o : precs(in, o)' = precs(in, o)) /\ Ops(in)' = Ops(in)
  BY <1>1 DEF precs, Ops
<1>15. \A x : settled(x) => x \in DOMAIN hVal
  BY DEF settled
<1>16. \A x : x \in now <=> settled(x) \/ x = f
  BY <1>7 DEF settled
<1> HIDE DEF now
<1>17. ASSUME NEW o \in Ops(in)
       PROVE  /\ o \in DOMAIN maxPrec' <=> \E x \in precs(in, o) : x \in now
              /\ o \in DOMAIN maxPrec' =>
                   /\ maxPrec'[o] \in precs(in, o) /\ maxPrec'[o] \in now
                   /\ \A x \in precs(in, o) : x \in now => hVal'[x] <= hVal'[maxPrec'[o]]
  <2>1. /\ o \in DOMAIN maxPrec <=> \E x \in precs(in, o) : settled(x)
        /\ o \in DOMAIN maxPrec =>
             /\ maxPrec[o] \in precs(in, o) /\ settled(maxPrec[o])
             /\ \A x \in precs(in, o) : settled(x) => hVal[x] <= hVal[maxPrec[o]]
    BY <1>2 DEF HMaxInv, Dearest
  <2>2. CASE f \in precs(in, o)
    <3>1. o \in DOMAIN maxPrec'
      BY <1>8, <2>2
    <3>2. /\ maxPrec'[o] \in precs(in, o) /\ maxPrec'[o] \in now /\ maxPrec'[o] \in DOMAIN hVal
          /\ hVal'[maxPrec'[o]] = v
      BY <1>3, <1>16, <1>9, <2>2
    <3>3. ASSUME NEW x \in precs(in, o), x \in now PROVE hVal'[x] <= v
      BY <1>3, <1>16, <1>10, <1>15, <3>3
    <3> QED
      BY <2>2, <3>1, <3>2, <3>3
  <2>3. CASE f \notin precs(in, o)
    <3>1. o \in DOMAIN maxPrec' <=> o \in DOMAIN maxPrec
      BY <1>8, <2>3
    <3>2. \A x \in precs(in, o) : x \in now <=> settled(x)
      BY <1>16, <2>3
    <3>3. \A x \in precs(in, o) : settled(x) => hVal'[x] = hVal[x]
      BY <1>3, <1>15
    <3>4. o \in DOMAIN maxPrec => maxPrec'[o] = maxPrec[o]
      BY <1>8, <2>3
    <3> QED
      BY <2>1, <3>1, <3>2, <3>3, <3>4
  <2> QED
    BY <2>2, <2>3
<1>18. Dearest'
  BY <1>1, <1>14, <1>17 DEF Dearest, settled, now
<1>19. ASSUME NEW d \in heap'
       PROVE  /\ d[2] \in DOMAIN hVal' /\ hVal'[d[2]] <= d[1]
              /\ d = <<d[1], d[2]>> /\ d[1] \in Nat /\ v <= d[1]
  <2>1. CASE d \in heap
    <3>1. d[2] \in DOMAIN hVal /\ hVal[d[2]] <= d[1] /\ d = <<d[1], d[2]>> /\ d[1] \in Nat
      BY <1>2, <2>1 DEF HMaxInv
    <3>2. v <= d[1]
      BY <1>1, <2>1
    <3> QED
      BY <1>3, <1>10, <3>1, <3>2
  <2>2. CASE d = <<d[1], d[2]>> /\ d[2] \in DOMAIN hVal' /\ d[1] = hVal'[d[2]] /\ v <= d[1]
    BY <1>3, <2>2
  <2> QED
    BY <1>6, <2>1, <2>2
<1>20. ASSUME NEW d \in heap', NEW x \in DOMAIN hVal', settled(x)' PROVE hVal'[x] <= d[1]
  <2>1. x \in DOMAIN hVal /\ hVal'[x] = hVal[x] /\ hVal[x] <= v
    BY <1>3, <1>7, <1>10, <1>15, <1>20
  <2> QED
    BY <1>3, <1>10, <1>19, <2>1
<1>21. ASSUME NEW o \in Ops(in), unsatPrecs'[o] = 0, NEW x \in in.add[o]
       PROVE  x \in DOMAIN hVal' /\ hVal'[x] <= hVal'[maxPrec'[o]] + costs[o]
  <2>1. CASE f \in precs(in, o)
    <3>1. unsatPrecs[o] = 1
      BY <1>1, <1>2, <1>21, <2>1
    <3>2. hVal'[maxPrec'[o]] = v
      BY <1>3, <1>9, <2>1
    <3> QED
      BY <1>5, <2>1, <3>1, <3>2
  <2>2. CASE f \notin precs(in, o)
    <3>1. unsatPrecs[o] = 0
      BY <1>1, <1>21, <2>2
    <3>2. x \in DOMAIN hVal /\ hVal[x] <= hVal[maxPrec[o]] + costs[o]
      BY <1>2, <3>1 DEF HMaxInv
    <3>3. o \in DOMAIN maxPrec
      <4>1. open(o) = {} /\ precs(in, o) # {}
        <5>1. Cardinality(open(o)) = 0
          BY <1>2, <3>1 DEF HMaxInv
        <5>2. Cardinality(precs(in, o)) # 0
          BY <1>2, InstanceFacts
        <5> QED
          BY <1>2, <5>1, <5>2, FS_EmptySet
      <4>2. \E y \in precs(in, o) : settled(y)
        BY <4>1 DEF open
      <4> QED
        BY <1>2, <4>2 DEF HMaxInv, Dearest
    <3>4. maxPrec[o] \in DOMAIN hVal /\ settled(maxPrec[o])
      BY <1>2, <1>15, <3>3 DEF HMaxInv, Dearest
    <3>5. maxPrec'[o] = maxPrec[o] /\ hVal'[maxPrec'[o]] = hVal[maxPrec[o]]
      BY <1>3, <1>8, <2>2, <3>3, <3>4
    <3>6. /\ hVal'[x] \in Nat /\ hVal[x] \in Nat /\ hVal'[x] <= hVal[x] /\ x \in DOMAIN hVal'
          /\ hVal[maxPrec[o]] \in Nat /\ costs[o] \in Nat
      BY <1>2, <1>3, <1>10, <3>2, <3>4
    <3> QED
      BY <3>2, <3>5, <3>6
  <2> QED
    BY <2>1, <2>2
<1>22. ASSUME NEW x \in in.s PROVE x \in DOMAIN hVal' /\ hVal'[x] = 0
  <2>1. x \in DOMAIN hVal /\ hVal[x] = 0
    BY <1>2 DEF HMaxInv
  <2> QED
    BY <1>3, <2>1
<1>23. Justified'
  <2>1. SUFFICES ASSUME NEW X \in SUBSET in.facts, in.s \subseteq X, ClosedUnder(in, Ops(in), X)
                 PROVE  DOMAIN hVal' \subseteq X
    BY <1>1, <1>14 DEF Justified, ClosedUnder
  <2>2. DOMAIN hVal \subseteq X
    BY <1>2, <2>1 DEF HMaxInv, Justified
  <2>3. ASSUME NEW x \in DOMAIN hVal' \ DOMAIN hVal PROVE x \in X
    <3>1. PICK o \in Ops(in) : x \in in.add[o] /\ unsatPrecs[o] = 1 /\ f \in precs(in, o)
      BY <1>4
    <3>2. open(o) = {f}
      <4>1. f \in open(o) /\ Cardinality(open(o)) = 1 /\ IsFiniteSet(open(o))
        BY <1>2, <1>12, <3>1 DEF HMaxInv
      <4> QED
        BY <4>1, OneLess
    <3>3. precs(in, o) \subseteq X
      BY <1>3, <1>15, <2>2, <3>2 DEF open
    <3> QED
      BY <2>1, <3>1, <3>3 DEF ClosedUnder
  <2> QED
    BY <2>2, <2>3
<1>24. HMaxInv'
  BY <1>1, <1>13, <1>14, <1>18, <1>19, <1>20, <1>21, <1>22, <1>23 DEF HMaxInv
<1>25. TypeOK'
  <2>1. heap' \subseteq Nat \X in.facts
    BY <1>3, <1>19
  <2>2. unsatPrecs' \in [Ops(in) -> Nat]
    BY <1>1, <1>2, <1>12
  <2>3. DOMAIN maxPrec' \subseteq Ops(in)
    BY <1>8, <1>10
  <2>4. \A o \in DOMAIN maxPrec' : maxPrec'[o] \in DOMAIN hVal'
    BY <1>17, <2>3 DEF now
  <2> QED
    BY <1>1, <1>3, <1>14, <2>1, <2>2, <2>3, <2>4 DEF IInv, TypeOK, zoneVars
<1>26. Bounded'
  BY <1>1, <1>2, BoundedStays
<1> QED
  BY <1>1, <1>2, <1>14, <1>24, <1>25, <1>26 DEF IInv

-----------------------------------------------------------------------------
(* What getHMax has found stays while the cut is made.                     *)
LEMMA HMaxStays ==
  ASSUME IInv, pc # "done", in' = in, costs' = costs, hMaxVars' = hMaxVars
  PROVE  HMaxInv'
<1>1. HMaxInv
  BY HMaxFacts
<1>2. /\ heap' = heap /\ hVal' = hVal /\ unsatPrecs' = unsatPrecs /\ maxPrec' = maxPrec
      /\ in' = in /\ costs' = costs
  BY DEF hMaxVars
<1>3. \A f : settled(f)' <=> settled(f)
  BY <1>2 DEF settled
<1>4. \A o : open(o)' = open(o)
  BY <1>2, <1>3 DEF open, precs
<1>5. Dearest'
  BY <1>1, <1>2, <1>3 DEF HMaxInv, Dearest, settled, precs, Ops
<1>6. Justified'
  BY <1>1, <1>2 DEF HMaxInv, Justified, precs, Ops, ClosedUnder
<1> QED
  BY <1>1, <1>2, <1>3, <1>4, <1>5, <1>6 DEF HMaxInv, Ops

LEMMA LastOfStack ==
  ASSUME NEW S, NEW s \in Seq(S), s # << >>
  PROVE  Front(s) \in Seq(S) /\ Last(s) \in S /\ Range(s) = Range(Front(s)) \cup {Last(s)}
<1>1. Len(s) \in Nat \ {0} /\ DOMAIN s = 1 .. Len(s)
  OBVIOUS
<1>2. /\ Front(s) = SubSeq(s, 1, Len(s) - 1)
      /\ Front(s) \in Seq(S) /\ DOMAIN Front(s) = 1 .. Len(s) - 1
      /\ \A i \in 1 .. Len(s) - 1 : Front(s)[i] = s[i]
  BY <1>1 DEF Front
<1>3. Last(s) = s[Len(s)] /\ Last(s) \in S
  BY <1>1 DEF Last
<1>4. \A n \in Nat \ {0} : 1 .. n = (1 .. n - 1) \cup {n}
  OBVIOUS
<1>5. 1 .. Len(s) = (1 .. Len(s) - 1) \cup {Len(s)}
  BY <1>1, <1>4
<1> QED
  BY <1>1, <1>2, <1>3, <1>5 DEF Range

LEMMA OneOnStack == \A S : \A x \in S : <<x>> \in Seq(S)
  OBVIOUS

LEMMA PushedOnStack ==
  ASSUME NEW S, NEW s \in Seq(S), NEW x \in S
  PROVE  Append(s, x) \in Seq(S) /\ Range(Append(s, x)) = Range(s) \cup {x}
<1>1. Len(s) \in Nat /\ DOMAIN s = 1 .. Len(s)
  OBVIOUS
<1>2. /\ Append(s, x) \in Seq(S) /\ DOMAIN Append(s, x) = 1 .. Len(s) + 1
      /\ \A i \in 1 .. Len(s) : Append(s, x)[i] = s[i]
      /\ Append(s, x)[Len(s) + 1] = x
  OBVIOUS
<1> QED
  BY <1>1, <1>2 DEF Range

LEMMA EndHMaxIInv == ASSUME IInv, NEW f \in in.g, EndHMax(f) PROVE IInv'
<1>1. /\ pc = "hMax" /\ heap = {} /\ maxPrecG' = f
      /\ goalZone' = {} /\ cut' = {} /\ precsOfCutNodes' = {}
      /\ stack' = <<f>> /\ producers' = {}
      /\ in' = in /\ costs' = costs /\ hMaxVars' = hMaxVars /\ cuts' = cuts
  BY DEF EndHMax
<1>2. /\ heap' = heap /\ hVal' = hVal /\ unsatPrecs' = unsatPrecs /\ maxPrec' = maxPrec
      /\ Ops(in)' = Ops(in)
  BY <1>1 DEF hMaxVars, Ops
<1>3. /\ in \in Instances /\ HMaxTypes /\ Bounded /\ costs \in [Ops(in) -> Nat]
      /\ HMaxInv' /\ f \in in.facts
      /\ \A o \in Ops(in) : costs[o] <= in.cost[o]
      /\ hLmCut \in Nat \cup {UNREACHABLE}
  <2>1. /\ in \in Instances /\ HMaxTypes /\ Bounded /\ costs \in [Ops(in) -> Nat]
        /\ HMaxInv'
    BY <1>1, HMaxFacts, HMaxStays
  <2> QED
    BY <2>1, InstanceFacts DEF IInv, TypeOK
<1>4. CASE in.g \subseteq DOMAIN hVal
  <2>1. pc' = (IF hVal[f] = 0 THEN "done" ELSE "zone") /\ hLmCut' = hLmCut
    BY <1>4 DEF EndHMax
  <2>2. TypeOK'
    <3>1. stack' \in Seq(in.facts)
      BY <1>1, <1>3, OneOnStack
    <3> QED
      BY <1>1, <1>2, <1>3, <2>1, <3>1 DEF TypeOK, HMaxTypes
  <2>3. Bounded'
    BY <1>1, <1>3, <2>1, BoundedStays
  <2>4. ASSUME pc' = "zone" PROVE ZoneInv'
    <3>1. hVal[f] > 0 /\ f \in DOMAIN hVal
      <4>1. hVal[f] # 0 /\ f \in DOMAIN hVal /\ hVal[f] \in Nat
        BY <1>3, <1>4, <2>1, <2>4 DEF HMaxTypes
      <4> QED
        BY <4>1
    <3>2. Zone' = {f} /\ Range(stack') = {f}
      BY <1>1 DEF Zone, Range
    <3> QED
      BY <1>1, <1>2, <3>1, <3>2 DEF ZoneInv
  <2> QED
    BY <1>1, <1>2, <1>3, <1>4, <2>1, <2>2, <2>3, <2>4 DEF IInv
<1>5. CASE ~ (in.g \subseteq DOMAIN hVal)
  <2>1. pc' = "done" /\ hLmCut' = UNREACHABLE
    BY <1>5 DEF EndHMax
  <2>2. TypeOK'
    <3>1. stack' \in Seq(in.facts)
      BY <1>1, <1>3, OneOnStack
    <3>2. hLmCut' \in Nat \cup {UNREACHABLE}
      BY <2>1
    <3> QED
      BY <1>1, <1>2, <1>3, <2>1, <3>1, <3>2 DEF TypeOK, HMaxTypes
  <2>3. hLmCut' = UNREACHABLE'
    BY <2>1 DEF UNREACHABLE
  <2>4. HMaxInv /\ DOMAIN hVal \in SUBSET in.facts
    BY <1>3, HMaxFacts, <1>1 DEF HMaxTypes
  <2>5. in.s \subseteq DOMAIN hVal
    BY <2>4 DEF HMaxInv
  <2>6. ASSUME NEW o \in Ops(in), precs(in, o) \subseteq DOMAIN hVal
        PROVE  in.add[o] \subseteq DOMAIN hVal
    <3>1. open(o) = {}
      BY <1>1, <2>6 DEF open, settled
    <3>2. unsatPrecs[o] = 0
      BY <2>4, <3>1, FS_EmptySet DEF HMaxInv
    <3> QED
      BY <2>4, <3>2 DEF HMaxInv
  <2>7. ~ Reaches(Ops(in))
    BY <1>5, <2>4, <2>5, <2>6 DEF Reaches, ClosedUnder
  <2>8. ~ Reaches(Ops(in))'
    BY <1>1, <2>7, ReachesStays DEF Ops
  <2>9. OutOfReach'
    BY <2>1, <2>3, <2>8 DEF OutOfReach
  <2> QED
    BY <1>1, <1>2, <1>3, <2>1, <2>2, <2>9 DEF IInv
<1> QED
  BY <1>4, <1>5

(* What the invariant says while the zone is made.                         *)
LEMMA ZoneFacts ==
  ASSUME IInv, pc = "zone"
  PROVE  /\ in \in Instances /\ HMaxTypes /\ HMaxInv /\ Bounded /\ ZoneInv /\ TypeOK
         /\ heap = {} /\ in.g \subseteq DOMAIN hVal
         /\ \A o \in Ops(in) : costs[o] \in Nat /\ costs[o] <= in.cost[o]
         /\ \A f : settled(f) <=> f \in DOMAIN hVal
         /\ \A f \in DOMAIN hVal : f \in in.facts /\ hVal[f] \in Nat
         /\ \A o \in Ops(in) : unsatPrecs[o] = 0 =>
              /\ maxPrec[o] \in precs(in, o) /\ maxPrec[o] \in DOMAIN hVal
              /\ maxPrec[o] \in in.facts
              /\ \A x \in in.add[o] : x \in DOMAIN hVal /\ hVal[x] <= hVal[maxPrec[o]] + costs[o]
<1>1. /\ in \in Instances /\ HMaxTypes /\ HMaxInv /\ Bounded /\ ZoneInv /\ TypeOK
      /\ heap = {} /\ in.g \subseteq DOMAIN hVal
      /\ \A o \in Ops(in) : costs[o] \in Nat /\ costs[o] <= in.cost[o]
  BY HMaxFacts DEF IInv
<1>2. \A f : settled(f) <=> f \in DOMAIN hVal
  BY <1>1 DEF settled
<1>3. \A f \in DOMAIN hVal : f \in in.facts /\ hVal[f] \in Nat
  BY <1>1 DEF HMaxTypes
<1>4. ASSUME NEW o \in Ops(in), unsatPrecs[o] = 0
      PROVE  /\ maxPrec[o] \in precs(in, o) /\ maxPrec[o] \in DOMAIN hVal
             /\ maxPrec[o] \in in.facts
             /\ \A x \in in.add[o] : x \in DOMAIN hVal /\ hVal[x] <= hVal[maxPrec[o]] + costs[o]
  <2>1. open(o) = {} /\ precs(in, o) # {}
    <3>1. Cardinality(open(o)) = 0
      BY <1>1, <1>4 DEF HMaxInv
    <3>2. Cardinality(precs(in, o)) # 0 /\ IsFiniteSet(precs(in, o)) /\ IsFiniteSet(open(o))
      BY <1>1, HMaxFacts, InstanceFacts
    <3> QED
      BY <3>1, <3>2, FS_EmptySet
  <2>2. \E y \in precs(in, o) : settled(y)
    BY <2>1 DEF open
  <2>3. maxPrec[o] \in precs(in, o) /\ settled(maxPrec[o])
    BY <1>1, <2>2 DEF HMaxInv, Dearest
  <2>4. \A x \in in.add[o] : x \in DOMAIN hVal /\ hVal[x] <= hVal[maxPrec[o]] + costs[o]
    BY <1>1, <1>4 DEF HMaxInv
  <2> QED
    BY <1>2, <1>3, <2>3, <2>4
<1> QED
  BY <1>1, <1>2, <1>3, <1>4

(* A step of the zone that keeps the types of what it changes.             *)
LEMMA ZoneStep ==
  ASSUME IInv, pc = "zone", pc' = pc, in' = in, costs' = costs, hMaxVars' = hMaxVars,
         maxPrecG' = maxPrecG, cuts' = cuts, hLmCut' = hLmCut,
         goalZone' \subseteq in.facts, precsOfCutNodes' \subseteq in.facts,
         cut' \subseteq Ops(in), producers' \subseteq Ops(in), stack' \in Seq(in.facts), ZoneInv'
  PROVE  IInv'
<1>1. /\ heap' = heap /\ hVal' = hVal /\ unsatPrecs' = unsatPrecs /\ maxPrec' = maxPrec
      /\ Ops(in)' = Ops(in)
  BY DEF hMaxVars, Ops
<1>2. /\ in \in Instances /\ Bounded /\ TypeOK /\ HMaxInv'
      /\ heap = {} /\ in.g \subseteq DOMAIN hVal
      /\ \A o \in Ops(in) : costs[o] <= in.cost[o]
  BY ZoneFacts, HMaxStays
<1>3. TypeOK'
  BY <1>1, <1>2 DEF TypeOK
<1>4. Bounded'
  BY <1>1, <1>2, BoundedStays
<1> QED
  BY <1>1, <1>2, <1>3, <1>4 DEF IInv

LEMMA NextZoneFactIInv == ASSUME IInv, NextZoneFact PROVE IInv'
<1>1. /\ pc = "zone" /\ producers = {} /\ stack # << >> /\ stack' = Front(stack)
      /\ producers' = {o \in addToTask(in, Last(stack)) : unsatPrecs[o] = 0}
      /\ in' = in /\ pc' = pc /\ costs' = costs /\ hMaxVars' = hMaxVars /\ maxPrecG' = maxPrecG
      /\ goalZone' = goalZone /\ cut' = cut /\ precsOfCutNodes' = precsOfCutNodes
      /\ cuts' = cuts /\ hLmCut' = hLmCut
  BY DEF NextZoneFact
<1>2. ZoneInv /\ TypeOK
  BY <1>1, ZoneFacts
<1>3. /\ stack' \in Seq(in.facts)
      /\ Range(stack) = Range(stack') \cup {Last(stack)}
  BY <1>1, <1>2, LastOfStack DEF TypeOK
<1>4. /\ unsatPrecs' = unsatPrecs /\ maxPrec' = maxPrec /\ hVal' = hVal /\ Ops(in)' = Ops(in)
      /\ Zone' = Zone
  BY <1>1 DEF hMaxVars, Ops, Zone
<1>5. producers' = {o \in Ops(in) : unsatPrecs[o] = 0 /\ Last(stack) \in in.add[o]}
  BY <1>1 DEF addToTask
<1>6. Last(stack) \in Zone
  BY <1>2, <1>3 DEF ZoneInv
<1>7. ASSUME NEW o \in Ops(in), unsatPrecs[o] = 0, NEW x \in in.add[o] \cap Zone
      PROVE  x \in Range(stack') \/ o \in producers' \/ maxPrec[o] \in goalZone \/ o \in cut
  <2>1. x \in Range(stack) \/ maxPrec[o] \in goalZone \/ o \in cut
    BY <1>1, <1>2, <1>7 DEF ZoneInv
  <2> QED
    BY <1>3, <1>5, <1>7, <2>1
<1>8. ZoneInv'
  <2>1. /\ maxPrecG' \in in.g
        /\ \A f \in Zone : f \in DOMAIN hVal /\ hVal[f] > 0
        /\ Range(stack') \subseteq Zone
        /\ \A o \in producers' : unsatPrecs[o] = 0 /\ in.add[o] \cap Zone # {}
        /\ \A o \in cut : /\ unsatPrecs[o] = 0 /\ costs[o] > 0
                          /\ maxPrec[o] \in goalZone \cup precsOfCutNodes
    BY <1>1, <1>2, <1>3, <1>5, <1>6 DEF ZoneInv
  <2> QED
    BY <1>1, <1>4, <1>7, <2>1 DEF ZoneInv
<1>9. producers' \subseteq Ops(in)
  BY <1>5
<1> QED
  BY <1>1, <1>2, <1>3, <1>8, <1>9, ZoneStep DEF TypeOK

LEMMA ProducerIInv == ASSUME IInv, NEW o \in producers, Producer(o) PROVE IInv'
<1> DEFINE p == maxPrec[o]
           joins == p \notin goalZone /\ costs[o] = 0
           joinsCut == p \notin goalZone /\ costs[o] # 0
<1>1. /\ pc = "zone" /\ producers' = producers \ {o}
      /\ goalZone' = IF joins THEN goalZone \cup {p} ELSE goalZone
      /\ stack' = IF joins THEN Append(stack, p) ELSE stack
      /\ cut' = IF joinsCut THEN cut \cup {o} ELSE cut
      /\ precsOfCutNodes' = IF joins THEN precsOfCutNodes \ {p}
                            ELSE IF joinsCut THEN precsOfCutNodes \cup {p}
                            ELSE precsOfCutNodes
      /\ in' = in /\ pc' = pc /\ costs' = costs /\ hMaxVars' = hMaxVars /\ maxPrecG' = maxPrecG
      /\ cuts' = cuts /\ hLmCut' = hLmCut
  BY DEF Producer
<1>2. /\ in \in Instances /\ ZoneInv /\ TypeOK /\ o \in Ops(in) /\ unsatPrecs[o] = 0
      /\ p \in in.facts /\ p \in DOMAIN hVal /\ hVal[p] \in Nat /\ costs[o] \in Nat
      /\ \A x \in in.add[o] : /\ x \in DOMAIN hVal /\ hVal[x] <= hVal[p] + costs[o]
                              /\ hVal[x] \in Nat
  <2>1. ZoneInv /\ TypeOK /\ o \in Ops(in) /\ in \in Instances
    BY <1>1, ZoneFacts DEF TypeOK
  <2>2. unsatPrecs[o] = 0
    BY <2>1 DEF ZoneInv
  <2> QED
    BY <1>1, <2>1, <2>2, ZoneFacts
<1>3. /\ unsatPrecs' = unsatPrecs /\ maxPrec' = maxPrec /\ hVal' = hVal /\ Ops(in)' = Ops(in)
      /\ Zone' = goalZone' \cup {maxPrecG}
  BY <1>1 DEF hMaxVars, Ops, Zone
<1>4. /\ maxPrecG \in in.g
      /\ \A f \in Zone : f \in DOMAIN hVal /\ hVal[f] > 0
      /\ Range(stack) \subseteq Zone
      /\ \A q \in producers : unsatPrecs[q] = 0 /\ in.add[q] \cap Zone # {}
      /\ \A q \in Ops(in) : unsatPrecs[q] = 0 => \A x \in in.add[q] \cap Zone :
           x \in Range(stack) \/ q \in producers \/ maxPrec[q] \in goalZone \/ q \in cut
      /\ \A q \in cut : /\ unsatPrecs[q] = 0 /\ costs[q] > 0
                        /\ maxPrec[q] \in goalZone \cup precsOfCutNodes
  BY <1>2 DEF ZoneInv
<1>5. /\ goalZone \subseteq in.facts /\ precsOfCutNodes \subseteq in.facts
      /\ cut \subseteq Ops(in) /\ producers \subseteq Ops(in) /\ stack \in Seq(in.facts)
  BY <1>2 DEF TypeOK
<1>6. /\ Append(stack, p) \in Seq(in.facts)
      /\ Range(Append(stack, p)) = Range(stack) \cup {p}
  <2> HIDE DEF p
  <2> QED
    BY <1>2, <1>5, PushedOnStack
<1>7. /\ goalZone' \subseteq in.facts /\ precsOfCutNodes' \subseteq in.facts
      /\ cut' \subseteq Ops(in) /\ producers' \subseteq Ops(in) /\ stack' \in Seq(in.facts)
  BY <1>1, <1>2, <1>5, <1>6
<1>8. CASE joins
  <2>1. /\ goalZone' = goalZone \cup {p} /\ stack' = Append(stack, p) /\ cut' = cut
        /\ precsOfCutNodes' = precsOfCutNodes \ {p} /\ Zone' = Zone \cup {p}
    BY <1>1, <1>3, <1>8 DEF Zone
  <2>2. hVal[p] > 0
    <3>1. PICK x \in in.add[o] : x \in Zone
      BY <1>4
    <3>2. hVal[x] > 0 /\ hVal[x] <= hVal[p] + 0 /\ hVal[x] \in Nat
      BY <1>2, <1>4, <1>8, <3>1
    <3> QED
      BY <1>2, <3>2
  <2> HIDE DEF p
  <2>3. \A f \in Zone' : f \in DOMAIN hVal /\ hVal[f] > 0
    BY <1>2, <1>4, <2>1, <2>2
  <2>4. Range(stack') \subseteq Zone'
    BY <1>4, <1>6, <2>1
  <2>5. \A q \in producers' : unsatPrecs[q] = 0 /\ in.add[q] \cap Zone' # {}
    BY <1>1, <1>4, <2>1
  <2>6. ASSUME NEW q \in Ops(in), unsatPrecs[q] = 0, NEW x \in in.add[q] \cap Zone'
        PROVE  x \in Range(stack') \/ q \in producers' \/ maxPrec[q] \in goalZone' \/ q \in cut'
    <3>1. CASE x = p
      BY <1>6, <2>1, <3>1
    <3>2. CASE x \in Zone
      BY <1>1, <1>4, <1>6, <2>1, <2>6, <3>2 DEF p
    <3> QED
      BY <2>1, <2>6, <3>1, <3>2
  <2>7. \A q \in cut' : /\ unsatPrecs[q] = 0 /\ costs[q] > 0
                        /\ maxPrec[q] \in goalZone' \cup precsOfCutNodes'
    BY <1>4, <2>1
  <2>8. ZoneInv'
    BY <1>1, <1>3, <1>4, <2>3, <2>4, <2>5, <2>6, <2>7 DEF ZoneInv
  <2> QED
    BY <1>1, <1>7, <2>8, ZoneStep
<1>9. CASE ~ joins
  <2>1. /\ goalZone' = goalZone /\ stack' = stack /\ Zone' = Zone
        /\ precsOfCutNodes \subseteq precsOfCutNodes' /\ cut \subseteq cut'
        /\ maxPrec[o] \in goalZone' \/ o \in cut'
    BY <1>1, <1>3, <1>9 DEF Zone
  <2>2. ASSUME NEW q \in cut'
        PROVE  /\ unsatPrecs[q] = 0 /\ costs[q] > 0
               /\ maxPrec[q] \in goalZone' \cup precsOfCutNodes'
    <3>1. CASE q \in cut
      BY <1>4, <2>1, <3>1
    <3>2. CASE q \notin cut
      <4>1. joinsCut /\ q = o
        BY <1>1, <2>2, <3>2
      <4> QED
        BY <1>1, <1>2, <4>1
    <3> QED
      BY <3>1, <3>2
  <2>3. ASSUME NEW q \in Ops(in), unsatPrecs[q] = 0, NEW x \in in.add[q] \cap Zone'
        PROVE  x \in Range(stack') \/ q \in producers' \/ maxPrec[q] \in goalZone' \/ q \in cut'
    BY <1>1, <1>4, <2>1, <2>3
  <2>4. /\ \A f \in Zone' : f \in DOMAIN hVal /\ hVal[f] > 0
        /\ Range(stack') \subseteq Zone'
        /\ \A q \in producers' : unsatPrecs[q] = 0 /\ in.add[q] \cap Zone' # {}
    BY <1>1, <1>4, <2>1
  <2>5. ZoneInv'
    BY <1>1, <1>3, <1>4, <2>2, <2>3, <2>4 DEF ZoneInv
  <2> QED
    BY <1>1, <1>7, <2>5, ZoneStep
<1> QED
  BY <1>8, <1>9

(* The facts outside the zone that come from the state show the cut to be  *)
(* a landmark, whatever of the erased part is left in it: an action that   *)
(* was erased comes from no fact of the state.  Without any cut action the *)
(* zone would have no value.                                               *)
LEMMA EndZoneIInv == ASSUME IInv, EndZone PROVE IInv'
<1> DEFINE gone == {o \in cut : maxPrec[o] \in remove}
<1>1. PICK X : X = {f \in DOMAIN hVal : f \notin Zone /\ comesFrom(f) \cap in.s # {}}
  OBVIOUS
<1>2. /\ pc = "zone" /\ producers = {} /\ stack = << >> /\ pc' = "cut" /\ cut' = erased(gone)
      /\ in' = in /\ costs' = costs /\ hMaxVars' = hMaxVars /\ maxPrecG' = maxPrecG
      /\ goalZone' = goalZone /\ precsOfCutNodes' = precsOfCutNodes
      /\ stack' = stack /\ producers' = producers /\ cuts' = cuts /\ hLmCut' = hLmCut
  BY DEF EndZone
<1>3. /\ in \in Instances /\ HMaxInv /\ Bounded /\ ZoneInv /\ TypeOK
      /\ heap = {} /\ in.g \subseteq DOMAIN hVal
      /\ \A o \in Ops(in) : costs[o] \in Nat /\ costs[o] <= in.cost[o]
      /\ \A f : settled(f) <=> f \in DOMAIN hVal
      /\ \A f \in DOMAIN hVal : f \in in.facts /\ hVal[f] \in Nat
  BY <1>2, ZoneFacts
<1>4. \A o \in Ops(in) : unsatPrecs[o] = 0 =>
        /\ maxPrec[o] \in precs(in, o) /\ maxPrec[o] \in DOMAIN hVal
        /\ maxPrec[o] \in in.facts
        /\ \A x \in in.add[o] : x \in DOMAIN hVal
  BY <1>2, ZoneFacts
<1>5. /\ heap' = heap /\ hVal' = hVal /\ unsatPrecs' = unsatPrecs /\ maxPrec' = maxPrec
      /\ Ops(in)' = Ops(in)
  BY <1>2 DEF hMaxVars, Ops
<1>6. /\ maxPrecG \in in.g
      /\ \A f \in Zone : f \in DOMAIN hVal /\ hVal[f] > 0
      /\ \A q \in Ops(in) : unsatPrecs[q] = 0 => \A x \in in.add[q] \cap Zone :
           maxPrec[q] \in goalZone \/ q \in cut
      /\ \A q \in cut : q \in Ops(in) /\ unsatPrecs[q] = 0 /\ costs[q] > 0
  <2>1. Range(stack) = {}
    BY <1>2 DEF Range
  <2>2. cut \subseteq Ops(in)
    BY <1>3 DEF TypeOK
  <2> QED
    BY <1>2, <1>3, <2>1, <2>2 DEF ZoneInv
<1>7. /\ cut' \subseteq cut
      /\ \A q \in cut \ cut' : comesFrom(maxPrec[q]) \cap in.s = {}
  <2>1. cut' \subseteq cut /\ cut \ cut' \subseteq gone
    BY <1>2 DEF erased
  <2> QED
    BY <2>1 DEF remove
<1>8. /\ IsFiniteSet(in.facts) /\ in.s \subseteq in.facts
      /\ \A o \in enabledOutside : maxPrec[o] \in in.facts
  BY <1>3, <1>4, InstanceFacts DEF enabledOutside
<1>9. \A f \in in.facts :
        /\ f \in comesFrom(f) /\ ClosedBackwards(comesFrom(f))
        /\ \A Y : f \in Y /\ ClosedBackwards(Y) => comesFrom(f) \subseteq Y
  BY <1>8, ComesFromIsLeast
<1>10. in.s \subseteq X
  <2> SUFFICES ASSUME NEW f \in in.s PROVE f \in X
    OBVIOUS
  <2>1. f \in DOMAIN hVal /\ hVal[f] = 0
    BY <1>3 DEF HMaxInv
  <2>2. f \notin Zone
    BY <1>6, <2>1
  <2>3. f \in comesFrom(f)
    BY <1>8, <1>9
  <2> QED
    BY <1>1, <2>1, <2>2, <2>3
<1>11. ASSUME NEW o \in Ops(in) \ cut', precs(in, o) \subseteq X PROVE in.add[o] \subseteq X
  <2>1. SUFFICES ASSUME NEW x \in in.add[o] PROVE x \in X
    OBVIOUS
  <2>2. unsatPrecs[o] = 0
    <3>1. open(o) = {}
      BY <1>1, <1>3, <1>11 DEF open
    <3> QED
      BY <1>3, <3>1, FS_EmptySet DEF HMaxInv
  <2>3. /\ maxPrec[o] \in X /\ x \in DOMAIN hVal
        /\ maxPrec[o] \in in.facts /\ x \in in.facts
    BY <1>1, <1>3, <1>4, <1>11, <2>2
  <2>4. maxPrec[o] \notin goalZone /\ comesFrom(maxPrec[o]) \cap in.s # {}
    BY <1>1, <2>3 DEF Zone
  <2>5. o \notin cut
    BY <1>7, <1>11, <2>4
  <2>6. x \notin Zone
    BY <1>6, <2>2, <2>4, <2>5
  <2>7. o \in enabledOutside
    BY <2>2, <2>4 DEF enabledOutside
  <2>8. maxPrec[o] \in comesFrom(x)
    <3>1. x \in comesFrom(x) /\ ClosedBackwards(comesFrom(x))
      BY <1>9, <2>3
    <3> QED
      BY <2>1, <2>7, <3>1 DEF ClosedBackwards
  <2>9. comesFrom(maxPrec[o]) \subseteq comesFrom(x)
    BY <1>9, <2>3, <2>8
  <2> QED
    BY <1>1, <2>3, <2>4, <2>6, <2>9
<1>12. maxPrecG \notin X /\ maxPrecG \in DOMAIN hVal
  BY <1>1, <1>6 DEF Zone
<1>13. X \in SUBSET in.facts
  BY <1>1, <1>3
<1> HIDE DEF gone
<1>14. Separates(X)'
  BY <1>2, <1>5, <1>6, <1>10, <1>11, <1>12 DEF Separates, ClosedUnder, precs
<1>15. cut' # {}
  <2>1. SUFFICES ASSUME cut' = {} PROVE FALSE
    OBVIOUS
  <2>2. ClosedUnder(in, Ops(in), X)
    BY <1>11, <2>1 DEF ClosedUnder
  <2>3. DOMAIN hVal \subseteq X
    BY <1>3, <1>10, <1>13, <2>2 DEF HMaxInv, Justified
  <2> QED
    BY <1>12, <2>3
<1>16. CutInv'
  <2>1. \A o \in cut' : costs'[o] > 0
    BY <1>2, <1>6, <1>7
  <2> QED
    BY <1>2, <1>13, <1>14, <1>15, <2>1 DEF CutInv
<1>17. TypeOK'
  <2>1. cut' \subseteq Ops(in)
    BY <1>6, <1>7
  <2> QED
    BY <1>2, <1>3, <1>5, <1>6, <2>1 DEF TypeOK
<1>18. Bounded'
  BY <1>2, <1>3, BoundedStays
<1>19. HMaxInv'
  BY <1>2, HMaxStays
<1> QED
  BY <1>2, <1>3, <1>5, <1>16, <1>17, <1>18, <1>19 DEF IInv

-----------------------------------------------------------------------------
(* Without its cut, a set of actions does not reach the goal.              *)
LEMMA CutSeparates ==
  ASSUME IInv, pc = "cut", NEW ops \in SUBSET Ops(in), ops \cap cut = {}
  PROVE  ~ Reaches(ops)
<1>1. PICK X \in SUBSET in.facts : Separates(X)
  BY DEF IInv, CutInv
<1>2. in.s \subseteq X /\ ClosedUnder(in, ops, X) /\ ~ (in.g \subseteq X)
  BY <1>1 DEF Separates, ClosedUnder
<1> QED
  BY <1>2 DEF Reaches

(* What the model computes is reached.                                     *)
LEMMA ComputedReaches ==
  ASSUME in \in Instances, NEW ops \in SUBSET Ops(in), in.g \subseteq relaxedReach(in, ops)
  PROVE  Reaches(ops)
<1>1. IsFiniteSet(ops)
  BY InstanceFacts, FS_Subset
<1>2. \A i, X : i.s \subseteq X /\ ClosedUnder(i, ops, X) => relaxedReach(i, ops) \subseteq X
  BY <1>1, ReachStays
<1> QED
  BY <1>2 DEF Reaches

(* What is paid for a cut is the least that one of its actions costs.      *)
LEMMA PayFacts ==
  ASSUME IInv, Pay
  PROVE  /\ pc = "cut" /\ pc' = "hMax" /\ in \in Instances /\ CutInv
         /\ in' = in /\ maxPrecG' = maxPrecG /\ zoneVars' = zoneVars /\ Started'
         /\ cut \subseteq Ops(in)
         /\ \A o \in Ops(in) : costs[o] \in Nat /\ costs[o] <= in.cost[o] /\ in.cost[o] \in Nat
         /\ \E n \in Nat : /\ \E o \in cut : costs[o] = n
                           /\ \A o \in cut : n <= costs[o]
                           /\ hLmCut' = hLmCut + n
                           /\ costs' = newCosts(n)
<1> DEFINE T == {MaxInt} \cup {costs[o] : o \in cut}
<1>1. /\ pc = "cut" /\ pc' = "hMax" /\ in' = in /\ maxPrecG' = maxPrecG /\ zoneVars' = zoneVars
      /\ hLmCut' = hLmCut + Min(T) /\ costs' = newCosts(Min(T))
      /\ heap' = startHMax(in).heap /\ hVal' = startHMax(in).hVal
      /\ unsatPrecs' = startHMax(in).unsatPrecs /\ maxPrec' = startHMax(in).maxPrec
  BY DEF Pay
<1>2. Started'
  BY <1>1 DEF Started
<1>3. in \in Instances /\ CutInv /\ TypeOK
  BY <1>1 DEF IInv
<1>4. /\ cut \subseteq Ops(in) /\ cut # {}
      /\ \A o \in Ops(in) : costs[o] \in Nat /\ costs[o] <= in.cost[o]
      /\ \A o \in Ops(in) : in.cost[o] \in 0 .. MaxInt - 1
      /\ MaxInt \in Nat
  BY <1>3, InstanceFacts DEF IInv, TypeOK, CutInv
<1>5. \A o \in Ops(in) : in.cost[o] \in Nat /\ costs[o] < MaxInt
  BY <1>4
<1>6. T \in SUBSET Nat /\ T # {}
  BY <1>4
<1>7. Min(T) \in T /\ \A t \in T : Min(T) <= t
  <2> HIDE DEF T
  <2> QED
    BY <1>6, MinOf
<1>8. PICK n : n = Min(T)
  OBVIOUS
<1>9. n \in Nat /\ n \in T /\ \A o \in cut : n <= costs[o]
  BY <1>6, <1>7, <1>8
<1>10. n # MaxInt
  <2>1. PICK o \in cut : TRUE
    BY <1>4
  <2> QED
    BY <1>4, <1>5, <1>9, <2>1
<1>11. \E o \in cut : costs[o] = n
  BY <1>9, <1>10
<1> QED
  BY <1>1, <1>2, <1>3, <1>4, <1>5, <1>8, <1>9, <1>11

(* Every plan has an action of the cut, so it costs less by as much.       *)
LEMMA PayIInv == ASSUME IInv, Pay PROVE IInv'
<1>1. /\ pc = "cut" /\ pc' = "hMax" /\ in \in Instances /\ CutInv
      /\ in' = in /\ maxPrecG' = maxPrecG /\ zoneVars' = zoneVars /\ Started'
      /\ cut \subseteq Ops(in)
      /\ \A o \in Ops(in) : costs[o] \in Nat /\ costs[o] <= in.cost[o] /\ in.cost[o] \in Nat
  BY PayFacts
<1>2. PICK n \in Nat : /\ \E o \in cut : costs[o] = n
                       /\ \A o \in cut : n <= costs[o]
                       /\ hLmCut' = hLmCut + n
                       /\ costs' = newCosts(n)
  BY PayFacts
<1>3. HMaxInv' /\ HMaxTypes'
  <2>1. (in \in Instances)'
    BY <1>1
  <2> QED
    BY <1>1, <2>1, StartIsHMax, PTL
<1>4. Bounded /\ TypeOK
  BY <1>1 DEF IInv, OutOfReach
<1>5. \A o \in Ops(in) : costs'[o] = IF o \in cut THEN costs[o] - n ELSE costs[o]
  BY <1>2 DEF newCosts
<1>6. \A o \in Ops(in) : costs'[o] \in Nat /\ costs'[o] <= costs[o] /\ costs'[o] <= in.cost[o]
  BY <1>1, <1>2, <1>5
<1>7. hLmCut \in Nat /\ hLmCut' \in Nat
  BY <1>2, <1>4 DEF Bounded
<1>8. costs' \in [Ops(in) -> Nat]
  BY <1>2, <1>6 DEF newCosts
<1>9. TypeOK'
  BY <1>1, <1>3, <1>4, <1>7, <1>8 DEF TypeOK, HMaxTypes, zoneVars, Ops
<1>10. ASSUME NEW plan \in SUBSET {o \in Ops(in) : in.cost[o] > 0},
              Reaches(plan \cup {o \in Ops(in) : in.cost[o] = 0})
       PROVE  hLmCut' + Total(costs', plan) <= Total(in.cost, plan)
  <2>1. hLmCut + Total(costs, plan) <= Total(in.cost, plan)
    BY <1>4, <1>10 DEF Bounded
  <2>2. plan \cap cut # {}
    <3>1. SUFFICES ASSUME plan \cap cut = {} PROVE FALSE
      OBVIOUS
    <3>2. \A o \in cut : in.cost[o] # 0
      BY <1>1 DEF CutInv
    <3> DEFINE ops == plan \cup {o \in Ops(in) : in.cost[o] = 0}
    <3>3. ops \in SUBSET Ops(in) /\ ops \cap cut = {} /\ Reaches(ops)
      BY <1>10, <3>1, <3>2
    <3> HIDE DEF ops
    <3> QED
      BY <1>1, <3>3, CutSeparates
  <2>3. PICK x \in plan : x \in cut /\ x \in Ops(in)
    BY <1>1, <2>2
  <2>4. IsFiniteSet(plan) /\ plan \subseteq Ops(in)
    BY <1>1, InstanceFacts, FS_Subset
  <2>5. /\ Total(costs, plan) \in Nat /\ Total(costs', plan) \in Nat
        /\ \A y \in plan : Total(costs', plan) + (costs[y] - costs'[y]) <= Total(costs, plan)
    <3>1. \A c, d : (\A o \in plan : c[o] \in Nat /\ d[o] \in Nat /\ d[o] <= c[o]) =>
            /\ Total(c, plan) \in Nat /\ Total(d, plan) \in Nat
            /\ \A y \in plan : Total(d, plan) + (c[y] - d[y]) <= Total(c, plan)
      BY <2>4, LowerTotal
    <3>2. \A o \in plan : costs[o] \in Nat /\ costs'[o] \in Nat /\ costs'[o] <= costs[o]
      BY <1>1, <1>6, <2>4
    <3> QED
      BY <3>1, <3>2
  <2>6. costs[x] - costs'[x] = n
    BY <1>1, <1>2, <1>5, <2>3
  <2>7. Total(costs', plan) + n <= Total(costs, plan)
    BY <2>5, <2>6
  <2>8. Total(in.cost, plan) \in Nat
    <3>1. \A c : (\A o \in plan : c[o] \in Nat) => Total(c, plan) \in Nat
      BY <2>4, LowerTotal
    <3> QED
      BY <1>1, <2>4, <3>1
  <2> QED
    BY <1>2, <1>7, <2>1, <2>5, <2>7, <2>8
<1>11. Bounded'
  <2>1. \A ops : Reaches(ops)' <=> Reaches(ops)
    BY <1>1, ReachesStays
  <2> QED
    BY <1>1, <1>7, <1>10, <2>1 DEF Bounded, Ops
<1> QED
  BY <1>1, <1>3, <1>6, <1>9, <1>11 DEF IInv, Ops

(* No cut is paid for at the start.                                        *)
LEMMA InitIInv == ASSUME Init PROVE IInv
<1>1. /\ in \in Instances /\ costs = in.cost /\ hLmCut = 0
      /\ pc = IF in.g = {} THEN "done" ELSE "hMax"
      /\ maxPrecG = UNREACHABLE
      /\ goalZone = {} /\ cut = {} /\ precsOfCutNodes = {}
      /\ stack = << >> /\ producers = {}
  BY DEF Init
<1>2. Started
  BY DEF Init, Started
<1>3. HMaxInv /\ HMaxTypes
  BY <1>1, <1>2, StartIsHMax
<1>4. \A o \in Ops(in) : costs[o] \in Nat /\ costs[o] <= in.cost[o]
  BY <1>1, InstanceFacts
<1>5. costs \in [Ops(in) -> Nat]
  BY <1>1, InstanceFacts
<1>6. TypeOK
  BY <1>1, <1>3, <1>5 DEF TypeOK, HMaxTypes
<1>7. ASSUME NEW plan \in SUBSET {o \in Ops(in) : in.cost[o] > 0}
      PROVE  hLmCut + Total(costs, plan) <= Total(in.cost, plan)
  <2>1. IsFiniteSet(plan) /\ plan \subseteq Ops(in)
    BY <1>1, InstanceFacts, FS_Subset
  <2>2. \A c : (\A o \in plan : c[o] \in Nat) => Total(c, plan) \in Nat
    BY <2>1, LowerTotal
  <2>3. Total(costs, plan) \in Nat
    BY <1>4, <2>1, <2>2
  <2> QED
    BY <1>1, <2>3
<1>8. Bounded
  BY <1>1, <1>7 DEF Bounded
<1> QED
  BY <1>1, <1>3, <1>4, <1>6, <1>8 DEF IInv

LEMMA StepIInv == ASSUME IInv, [Next]_vars PROVE IInv'
<1>1. CASE \E e \in heap : Skip(e) \/ Settle(e)
  BY <1>1, SkipIInv, SettleIInv
<1>2. CASE \E f \in in.g : EndHMax(f)
  BY <1>2, EndHMaxIInv
<1>3. CASE NextZoneFact
  BY <1>3, NextZoneFactIInv
<1>4. CASE \E o \in producers : Producer(o)
  BY <1>4, ProducerIInv
<1>5. CASE EndZone
  BY <1>5, EndZoneIInv
<1>6. CASE Pay
  BY <1>6, PayIInv
<1>7. CASE UNCHANGED vars
  <2>1. /\ in' = in /\ pc' = pc /\ costs' = costs /\ hMaxVars' = hMaxVars /\ maxPrecG' = maxPrecG
        /\ zoneVars' = zoneVars /\ cuts' = cuts /\ hLmCut' = hLmCut
    BY <1>7 DEF vars
  <2>2. /\ heap' = heap /\ hVal' = hVal /\ unsatPrecs' = unsatPrecs /\ maxPrec' = maxPrec
        /\ goalZone' = goalZone /\ cut' = cut /\ precsOfCutNodes' = precsOfCutNodes
        /\ stack' = stack /\ producers' = producers
    BY <2>1 DEF hMaxVars, zoneVars
  <2>3. TypeOK'
    BY <2>1, <2>2 DEF IInv, TypeOK, Ops, UNREACHABLE
  <2>4. pc # "done" => HMaxInv'
    BY <2>1, HMaxStays
  <2>5. ZoneInv => ZoneInv'
    BY <2>1, <2>2 DEF ZoneInv, Zone, Ops
  <2>6. CutInv => CutInv'
    BY <2>1, <2>2 DEF CutInv, Separates, ClosedUnder, precs, Ops
  <2>7. (Bounded => Bounded') /\ (OutOfReach => OutOfReach')
    BY <2>1, BoundedStays, ReachesStays DEF OutOfReach, Ops, UNREACHABLE
  <2> QED
    BY <2>1, <2>2, <2>3, <2>4, <2>5, <2>6, <2>7 DEF IInv, Ops
<1> QED
  BY <1>1, <1>2, <1>3, <1>4, <1>5, <1>6, <1>7 DEF Next, Terminating

LEMMA Invariance == Spec => []IInv
<1>1. Init => IInv
  BY InitIInv
<1>2. IInv /\ [Next]_vars => IInv'
  BY StepIInv
<1> QED
  BY <1>1, <1>2, PTL DEF Spec

-----------------------------------------------------------------------------
(* The heap, the values, the zone, the cut and the costs of a call stay in *)
(* their types; in particular no action gets a negative cost               *)
(* (hsLmCut.cpp:94-195).                                                   *)
THEOREM TypeCorrect == Spec => []TypeOK
<1>1. IInv => TypeOK
  BY DEF IInv
<1> QED
  BY <1>1, Invariance, PTL

(* Without the actions of a cut the goal is out of reach, although the     *)
(* iteration that takes actions out of the cut may stop early              *)
(* (hsLmCut.cpp:134-172, bucketSet.cpp:34-83).                             *)
THEOREM CutsSeparate == Spec => []CutsAreLandmarks
<1>1. IInv => CutsAreLandmarks
  <2> SUFFICES ASSUME IInv, pc = "cut"
               PROVE  ~ (in.g \subseteq relaxedReach(in, Ops(in) \ cut))
    BY DEF CutsAreLandmarks
  <2> DEFINE ops == Ops(in) \ cut
  <2>1. ops \in SUBSET Ops(in) /\ ops \cap cut = {} /\ in \in Instances
    BY DEF IInv
  <2> HIDE DEF ops
  <2>2. ~ (in.g \subseteq relaxedReach(in, ops))
    BY <2>1, CutSeparates, ComputedReaches
  <2> QED
    BY <2>2 DEF ops
<1> QED
  BY <1>1, Invariance, PTL

(* No cut is empty, and each of its actions costs something: what the      *)
(* assertions of the loop say (hsLmCut.cpp:140, 144, 162, 170).            *)
THEOREM EveryCutCosts == Spec => []CutsCost
<1>1. IInv => CutsCost
  BY DEF IInv, CutInv, CutsCost
<1> QED
  BY <1>1, Invariance, PTL

(* The value of LM-cut is not more than what any relaxed plan costs        *)
(* (hsLmCut.cpp:94-195).                                                   *)
THEOREM ValueIsAdmissible == Spec => []Admissible
<1>1. IInv => Admissible
  <2> SUFFICES ASSUME IInv, pc = "done", hLmCut # UNREACHABLE,
                      NEW plan \in SUBSET {o \in Ops(in) : in.cost[o] > 0},
                      in.g \subseteq relaxedReach(in, plan \cup {o \in Ops(in) : in.cost[o] = 0})
               PROVE  hLmCut <= Total(in.cost, plan)
    BY DEF Admissible, Total
  <2>1. /\ Bounded /\ TypeOK /\ in \in Instances
    BY DEF IInv, OutOfReach
  <2> DEFINE ops == plan \cup {o \in Ops(in) : in.cost[o] = 0}
  <2>7. ops \in SUBSET Ops(in) /\ in.g \subseteq relaxedReach(in, ops)
    OBVIOUS
  <2>8. Reaches(ops)
    <3> HIDE DEF ops
    <3> QED
      BY <2>1, <2>7, ComputedReaches
  <2>2. hLmCut \in Nat /\ hLmCut + Total(costs, plan) <= Total(in.cost, plan)
    BY <2>1, <2>8 DEF Bounded
  <2>3. IsFiniteSet(plan) /\ plan \subseteq Ops(in)
    BY <2>1, InstanceFacts, FS_Subset
  <2>4. \A c : (\A o \in plan : c[o] \in Nat) => Total(c, plan) \in Nat
    BY <2>3, LowerTotal
  <2>5. Total(costs, plan) \in Nat
    BY <2>1, <2>3, <2>4 DEF TypeOK
  <2>6. Total(in.cost, plan) \in Nat
    BY <2>1, <2>3, <2>4, InstanceFacts
  <2> QED
    BY <2>2, <2>5, <2>6
<1> QED
  BY <1>1, Invariance, PTL

(* Paying for a cut makes an action free and none costly again, so there   *)
(* are no more cuts than actions that cost something                       *)
(* (hsLmCut.cpp:146-172).                                                  *)
THEOREM PayingFrees == Spec => EveryCutFrees
<1>1. ASSUME IInv, Next, pc = "cut" PROVE costly' \subseteq costly /\ costly' # costly
  <2>1. Pay
    BY <1>1 DEF Next, Skip, Settle, top, EndHMax, NextZoneFact, Producer, EndZone, Terminating
  <2>2. /\ CutInv /\ in' = in /\ cut \subseteq Ops(in) /\ \A o \in Ops(in) : costs[o] \in Nat
    BY <1>1, <2>1, PayFacts
  <2>3. PICK n \in Nat : /\ \E o \in cut : costs[o] = n
                         /\ costs' = newCosts(n)
    BY <1>1, <2>1, PayFacts
  <2>4. PICK m \in cut : costs[m] = n
    BY <2>3
  <2>5. \A o \in Ops(in) : costs'[o] = IF o \in cut THEN costs[o] - n ELSE costs[o]
    BY <2>3 DEF newCosts
  <2>6. m \in costly /\ m \notin costly'
    BY <2>2, <2>4, <2>5 DEF costly, CutInv
  <2>7. costly' \subseteq costly
    BY <2>2, <2>5 DEF costly, Ops
  <2> QED
    BY <2>6, <2>7
<1>2. IInv /\ [Next]_vars => [pc = "cut" => costly' \subseteq costly /\ costly' # costly]_vars
  BY <1>1
<1> QED
  BY <1>2, Invariance, PTL DEF Spec, EveryCutFrees
-----------------------------------------------------------------------------
(***************************************************************************)
(* The value for the relaxed composition of a search node.                 *)
(***************************************************************************)
(* What the instance says of the HTN problem and the node.                 *)
LEMMA CompositionFacts ==
  ASSUME IsComposition(in)
  PROVE  /\ in.s = s0set(in.htn, in.node) /\ in.g = gset(in.htn, in.node)
         /\ Ops(in) = rcActions(in.htn)
         /\ \A o \in Ops(in) : /\ precs(in, o) = ToSet(rcPrec(in.htn, o))
                               /\ in.add[o] = rcAdd(in.htn, o)
                               /\ in.cost[o] = rcCost(in.htn, in.estimate, o)
<1> DEFINE h == in.htn
<1>1. in = rcInstance(h, in.node, in.estimate, in.heuristic, in.completed)
  BY DEF IsComposition
<1>2. /\ in.prec = [o \in rcActions(h) |-> rcPrec(h, o)]
      /\ in.add  = [o \in rcActions(h) |-> rcAdd(h, o)]
      /\ in.cost = [o \in rcActions(h) |-> rcCost(h, in.estimate, o)]
      /\ in.s = s0set(h, in.node) /\ in.g = gset(h, in.node)
  BY <1>1 DEF rcInstance
<1>3. Ops(in) = rcActions(h)
  BY <1>2 DEF Ops
<1>4. \A o \in Ops(in) : precs(in, o) = ToSet(rcPrec(h, o))
  BY <1>2, <1>3 DEF precs, ToSet
<1> QED
  BY <1>2, <1>3, <1>4

(* Actions that reach the goal by the rules of the composition reach it in *)
(* the instance, together with all that methods do.                        *)
LEMMA CompositionReaches ==
  ASSUME IsComposition(in), NEW A \in SUBSET Actions(in.htn), NEW ops \in SUBSET Ops(in),
         A \subseteq ops, \A mi \in Methods(in.htn) : methodAction(in.htn, mi) \in ops,
         \A C : s0set(in.htn, in.node) \subseteq C /\ ClosedUnderRC(in.htn, A, C)
               => gset(in.htn, in.node) \subseteq C
  PROVE  Reaches(ops)
<1> DEFINE h == in.htn
<1> SUFFICES ASSUME NEW X \in SUBSET in.facts, in.s \subseteq X, ClosedUnder(in, ops, X)
             PROVE  in.g \subseteq X
  BY DEF Reaches
<1>1. IsProblem(h)
  BY DEF IsComposition
<1>2. ASSUME NEW a \in A, {fact(f) : f \in h.prec[a]} \cup {t2tdr(a)} \subseteq X
      PROVE  {fact(f) : f \in h.add[a]} \cup {t2bur(a)} \subseteq X
  <2>1. /\ ToSet(rcPrec(h, a)) = {fact(f) : f \in h.prec[a]} \cup {t2tdr(a)}
        /\ rcAdd(h, a) = {fact(f) : f \in h.add[a]} \cup {t2bur(a)}
    BY <1>1, RulesOfRC
  <2>2. a \in ops /\ precs(in, a) = ToSet(rcPrec(h, a)) /\ in.add[a] = rcAdd(h, a)
    BY CompositionFacts
  <2>3. precs(in, a) \subseteq X => in.add[a] \subseteq X
    BY <2>2 DEF ClosedUnder
  <2> QED
    BY <1>2, <2>1, <2>2, <2>3
<1>3. ASSUME NEW mi \in Methods(h), {t2bur(t) : t \in distinctSubtasks(h.methods[mi])} \subseteq X
      PROVE  t2bur(h.methods[mi].task) \in X
  <2> DEFINE o == methodAction(h, mi)
  <2>1. /\ ToSet(rcPrec(h, o)) = {t2bur(t) : t \in distinctSubtasks(h.methods[mi])}
        /\ rcAdd(h, o) = {t2bur(h.methods[mi].task)}
    BY <1>1, RulesOfRC
  <2>2. o \in ops
    OBVIOUS
  <2> HIDE DEF o
  <2>3. precs(in, o) = ToSet(rcPrec(h, o)) /\ in.add[o] = rcAdd(h, o)
    BY <2>2, CompositionFacts
  <2>4. precs(in, o) \subseteq X => in.add[o] \subseteq X
    BY <2>2 DEF ClosedUnder
  <2> QED
    BY <1>3, <2>1, <2>3, <2>4
<1>4. s0set(h, in.node) \subseteq X
  BY CompositionFacts
<1>5. ClosedUnderRC(h, A, X)
  BY <1>2, <1>3 DEF ClosedUnderRC
<1> QED
  BY <1>4, <1>5, CompositionFacts

(* What is done more often costs more.                                     *)
LEMMA MoreOften ==
  \A m, e, c \in Nat : /\ m * c \in Nat
                       /\ m <= e => m * c <= e * c
                       /\ e > 0 => c <= e * c
                       /\ m > 0 => (m - 1) * c \in Nat /\ (m - 1) * c + c = m * c
<1> TAKE m, e, c \in Nat
<1>1. m * c \in Nat /\ e * c \in Nat
  OBVIOUS
<1>2. ASSUME NEW p \in Nat, NEW q \in Nat, p <= q PROVE p * c <= q * c
  <2>1. q - p \in Nat
    BY <1>2
  <2>2. (q - p) * c \in Nat
    BY <2>1
  <2>3. q * c = p * c + (q - p) * c
    OBVIOUS
  <2> QED
    BY <2>2, <2>3
<1>3. m <= e => m * c <= e * c
  BY <1>2
<1>4. e > 0 => c <= e * c
  <2>1. 1 * c = c
    OBVIOUS
  <2> QED
    BY <1>2, <2>1
<1>5. ASSUME m > 0 PROVE (m - 1) * c \in Nat /\ (m - 1) * c + c = m * c
  <2>1. m - 1 \in Nat
    BY <1>5
  <2>2. (m - 1) * c \in Nat
    BY <2>1
  <2>3. (m - 1) * c + c = m * c
    OBVIOUS
  <2> QED
    BY <2>2, <2>3
<1> QED
  BY <1>1, <1>3, <1>4, <1>5

(* Each action that the heuristic counts is executed, and as often as the  *)
(* network contains it: the correction and a plan that takes each action   *)
(* once cost no more than the executions.                                  *)
LEMMA CorrectedBound ==
  ASSUME NEW h, IsProblem(h), NEW n \in countedNodes(h), NEW e \in [Actions(h) -> Nat],
         \A t \in DOMAIN n.contained \cap Actions(h) : n.contained[t] <= e[t],
         NEW plan \in SUBSET executed(h, e)
  PROVE  /\ Total(h.cost, plan) \in Nat /\ countCorrection(h, "costs", << >>, n) \in Nat
         /\ Total(h.cost, plan) + countCorrection(h, "costs", << >>, n)
              <= Total(weighted(h, e), Actions(h))
<1> DEFINE A == Actions(h)
           K == DOMAIN n.contained
           T == Tasks(h)
           v == weighted(h, e)
           extra == [t \in K |-> (n.contained[t] - 1) * (IF isPrimitive(h, t) THEN h.cost[t] ELSE 0)]
           p == [t \in T |-> IF t \in plan THEN h.cost[t] ELSE 0]
           x == [t \in T |-> IF t \in K THEN extra[t] ELSE 0]
           w == [t \in T |-> IF t \in A THEN v[t] ELSE 0]
           both == [t \in T |-> p[t] + x[t]]
<1>1. /\ IsFiniteSet(T) /\ A \subseteq T /\ plan \subseteq A
      /\ \A t \in T : isPrimitive(h, t) <=> t \in A
  <2>1. plan \subseteq A
    BY DEF executed
  <2>2. h.numActions \in Nat /\ h.numTasks \in Nat /\ h.numActions < h.numTasks
    BY DEF IsProblem
  <2>3. IsFiniteSet(T)
    BY <2>2, FS_Interval DEF Tasks
  <2> QED
    BY <2>1, <2>2, <2>3 DEF Tasks, Actions, isPrimitive
<1>2. K \subseteq T /\ \A t \in K : n.contained[t] \in Nat /\ n.contained[t] > 0
  <2>1. K = TasksOf(n) /\ IsFiniteSet(Steps(n)) /\ K \subseteq T
    BY DEF countedNodes, TaskCountsExact, SearchNodes
  <2>2. \A t \in K : n.contained[t] = Cardinality(Occurrences(n, t))
    BY DEF countedNodes, TaskCountsExact
  <2> HIDE DEF K, T
  <2> QED
    BY <2>1, <2>2, OccurrencesFinite
<1>3. \A a \in A : h.cost[a] \in Nat /\ e[a] \in Nat /\ v[a] = e[a] * h.cost[a]
  BY DEF IsProblem, weighted
<1>4. countCorrection(h, "costs", << >>, n) = Total(extra, K)
  <2> DEFINE all == [t \in K |-> (n.contained[t] - 1) *
                                 (IF "costs" = "costs" THEN IF isPrimitive(h, t) THEN h.cost[t] ELSE 0
                                  ELSE IF "costs" = "distance" THEN << >>[t] ELSE 0)]
  <2>1. countCorrection(h, "costs", << >>, n) = Total(all, K)
    BY DEF countCorrection, Total
  <2>2. all = extra
    OBVIOUS
  <2> QED
    BY <2>1, <2>2
<1>5. /\ \A t \in K \ A : extra[t] = 0
      /\ \A t \in K \cap A : extra[t] = (n.contained[t] - 1) * h.cost[t]
  BY <1>1, <1>2
<1> HIDE DEF extra
<1>6. \A t \in K : extra[t] \in Nat
  BY <1>2, <1>3, <1>5, MoreOften
<1>7. ASSUME NEW t \in T
      PROVE  p[t] \in Nat /\ x[t] \in Nat /\ w[t] \in Nat /\ p[t] + x[t] <= w[t]
  <2>1. CASE t \notin A
    BY <1>1, <1>5, <2>1
  <2>2. CASE t \in A
    <3> DEFINE c == h.cost[t]
               m == n.contained[t]
               k == e[t]
    <3>1. c \in Nat /\ k \in Nat /\ w[t] = k * c /\ w[t] \in Nat
      BY <1>3, <2>2, MoreOften
    <3>2. p[t] \in {0, c} /\ (t \in plan => k > 0)
      BY DEF executed
    <3>3. CASE t \in K
      <4>1. m \in Nat /\ m > 0 /\ m <= k /\ x[t] = (m - 1) * c
        BY <1>2, <1>5, <2>2, <3>3
      <4>2. (m - 1) * c \in Nat /\ (m - 1) * c + c = m * c /\ m * c <= k * c
            /\ m * c \in Nat /\ k * c \in Nat
        BY <3>1, <4>1, MoreOften
      <4> DEFINE a == (m - 1) * c
                 b == m * c
                 d == k * c
      <4>3. a \in Nat /\ a + c = b /\ b <= d /\ b \in Nat /\ d \in Nat /\ w[t] = d /\ x[t] = a
        BY <3>1, <4>1, <4>2
      <4> HIDE DEF a, b, d, c, m, k, p, x, w
      <4> QED
        BY <3>1, <3>2, <4>3
    <3>4. CASE t \notin K
      <4>1. x[t] = 0
        BY <3>4
      <4>2. k > 0 => c <= k * c
        BY <3>1, MoreOften
      <4>3. p[t] = 0 \/ (p[t] = c /\ k > 0)
        BY <3>2
      <4> HIDE DEF x, w, p, c, k
      <4> QED
        BY <3>1, <4>1, <4>2, <4>3
    <3> QED
      BY <3>3, <3>4
  <2> QED
    BY <2>1, <2>2
<1>8. /\ Total(h.cost, plan) = Total(p, T) /\ Total(extra, K) = Total(x, T) /\ Total(v, A) = Total(w, T)
  <2>1. \A o \in plan : h.cost[o] \in Nat
    BY <1>1, <1>3
  <2>2. \A o \in A : v[o] \in Nat
    BY <1>3, MoreOften
  <2>3. plan \in SUBSET T /\ K \in SUBSET T /\ A \in SUBSET T
    BY <1>1, <1>2
  <2> HIDE DEF T, K, A, v
  <2> QED
    BY <1>1, <1>6, <2>1, <2>2, <2>3, TotalOfSubset
<1> HIDE DEF p, x, w
<1>9. Total(both, T) = Total(p, T) + Total(x, T)
  BY <1>1, <1>7, TotalOfSums
<1>10. \A t \in T : both[t] \in Nat /\ w[t] \in Nat /\ both[t] <= w[t]
  BY <1>7
<1> HIDE DEF both, T
<1>11. Total(both, T) <= Total(w, T)
  BY <1>1, <1>10, LowerTotal
<1>12. Total(p, T) \in Nat /\ Total(x, T) \in Nat
  BY <1>1, <1>7, TotalFacts
<1> QED
  BY <1>4, <1>8, <1>9, <1>11, <1>12

(* The cost of a completion is at least the value with the correction.     *)
LEMMA CompletionCosts ==
  ASSUME TypeOK, in \in Instances, IsComposition(in), in.estimate = "costs",
         Bounded \/ OutOfReach, pc = "done",
         NEW c \in in.completed, c < MaxInt
  PROVE  /\ hLmCut # UNREACHABLE
         /\ hLmCut + countCorrection(in.htn, "costs", << >>, in.node) <= c
<1> DEFINE h == in.htn
           n == in.node
<1>1. IsProblem(h) /\ obtained(h, n) /\ n \in countedNodes(h)
  BY ObtainedIsCounted DEF IsComposition
<1>2. PICK o : leadsTo(h, n, o) /\ isGoal(h, o) /\ c = o.actionCosts - n.actionCosts
  BY DEF IsComposition
<1>3. PICK e \in [Actions(h) -> Nat] :
        /\ o.actionCosts = n.actionCosts + Total(weighted(h, e), Actions(h))
        /\ \A t \in DOMAIN n.contained \cap Actions(h) : n.contained[t] <= e[t]
        /\ \A C : s0set(h, n) \subseteq C /\ ClosedUnderRC(h, executed(h, e), C) =>
             gset(h, n) \subseteq C
  BY <1>1, <1>2, CompletionIsComposed
<1>4. n.actionCosts \in Nat /\ Total(weighted(h, e), Actions(h)) \in Nat
  BY <1>1, WeightFacts DEF countedNodes, SearchNodes
<1>5. c = Total(weighted(h, e), Actions(h))
  BY <1>2, <1>3, <1>4
<1> DEFINE A    == executed(h, e)
           free == {a \in Ops(in) : in.cost[a] = 0}
           plan == {a \in A : in.cost[a] > 0}
           ops  == plan \cup free
<1>6. /\ Actions(h) \subseteq Ops(in) /\ A \subseteq Actions(h)
      /\ \A a \in Actions(h) : in.cost[a] = h.cost[a] /\ in.cost[a] \in Nat
      /\ \A mi \in Methods(h) : methodAction(h, mi) \in Ops(in) /\ in.cost[methodAction(h, mi)] = 0
  <2>1. \A a \in Actions(h) : a \in rcActions(h) /\ ~ (a >= h.numActions)
    BY <1>1, RulesOfRC DEF Actions, IsProblem
  <2>2. ASSUME NEW mi \in Methods(h)
        PROVE  methodAction(h, mi) \in rcActions(h) /\ methodAction(h, mi) >= h.numActions
    <3>1. h.numActions \in Nat /\ mi \in Nat \ {0}
      BY <1>1, MethodsAreNumbered
    <3>2. methodAction(h, mi) \in rcActions(h)
      BY <1>1, RulesOfRC
    <3> QED
      BY <3>1, <3>2 DEF methodAction
  <2>3. \A a \in Actions(h) : in.cost[a] = h.cost[a]
    BY <2>1, CompositionFacts DEF rcCost
  <2>4. \A mi \in Methods(h) : in.cost[methodAction(h, mi)] = 0
    BY <2>2, CompositionFacts DEF rcCost
  <2>5. \A a \in Actions(h) : h.cost[a] \in Nat
    BY <1>1 DEF IsProblem
  <2> QED
    BY <2>1, <2>2, <2>3, <2>4, <2>5, CompositionFacts DEF executed
<1>7. /\ ops \in SUBSET Ops(in) /\ A \subseteq ops
      /\ \A mi \in Methods(h) : methodAction(h, mi) \in ops
  BY <1>6
<1>8. Reaches(ops) /\ Reaches(Ops(in))
  <2> HIDE DEF A, ops
  <2>1. A \in SUBSET Actions(h) /\ A \subseteq Ops(in)
    BY <1>6
  <2>2. Reaches(ops)
    BY <1>3, <1>7, <2>1, CompositionReaches DEF A
  <2>3. Reaches(Ops(in))
    BY <1>3, <1>6, <2>1, CompositionReaches DEF A
  <2> QED
    BY <2>2, <2>3
<1>9. Bounded
  BY <1>8 DEF OutOfReach
<1>10. plan \in SUBSET {a \in Ops(in) : in.cost[a] > 0} /\ plan \in SUBSET A
  BY <1>6
<1>11. hLmCut \in Nat /\ hLmCut + Total(costs, plan) <= Total(in.cost, plan)
  <2> HIDE DEF plan
  <2> QED
    BY <1>8, <1>9, <1>10 DEF Bounded
<1> HIDE DEF plan, ops, A
<1>12. IsFiniteSet(plan) /\ plan \subseteq Ops(in) /\ plan \subseteq Actions(h)
  BY <1>6, <1>10, InstanceFacts, FS_Subset
<1>13. Total(costs, plan) \in Nat
  BY <1>12, LowerTotal DEF TypeOK
<1>14. Total(in.cost, plan) = Total(h.cost, plan)
  BY <1>6, <1>12, TotalFacts
<1>15. /\ Total(h.cost, plan) \in Nat /\ countCorrection(h, "costs", << >>, n) \in Nat
       /\ Total(h.cost, plan) + countCorrection(h, "costs", << >>, n) <= c
  BY <1>1, <1>3, <1>5, <1>10, CorrectedBound DEF A
<1> DEFINE paid     == Total(costs, plan)
           owed     == Total(h.cost, plan)
           repeated == countCorrection(h, "costs", << >>, n)
<1>16. /\ hLmCut \in Nat /\ paid \in Nat /\ owed \in Nat /\ repeated \in Nat
       /\ hLmCut + paid <= owed /\ owed + repeated <= c /\ c \in Nat /\ MaxInt \in Nat
  BY <1>4, <1>5, <1>11, <1>13, <1>14, <1>15, InstanceFacts
<1>17. hLmCut # MaxInt /\ hLmCut + repeated <= c
  <2> HIDE DEF paid, owed, repeated
  <2> QED
    BY <1>16
<1> QED
  BY <1>17 DEF UNREACHABLE

(* With cost estimates hhRC2 returns at most what a completion of the node *)
(* costs, also when it corrects the value of LM-cut for tasks that the     *)
(* network contains more than once (hhRC2.h:73-103, hsLmCut.cpp:94-195).   *)
(* The instances are relaxed compositions of nodes that the search can     *)
(* obtain, or have no HTN problem, and costs fit their type.               *)
THEOREM HeuristicIsAdmissible ==
  ASSUME \A i \in Instances : i.htn # << >> =>
           IsComposition(i) /\ \A c \in i.completed : c < MaxInt
  PROVE  Spec => []HeuristicAdmissible
<1>1. IInv => HeuristicAdmissible
  <2> SUFFICES ASSUME IInv, pc = "done", in.htn # << >>, in.estimate = "costs",
                      NEW c \in in.completed
               PROVE  /\ hLmCut # UNREACHABLE
                      /\ hLmCut + countCorrection(in.htn, "costs", << >>, in.node) <= c
    BY DEF HeuristicAdmissible
  <2>1. TypeOK /\ in \in Instances /\ (Bounded \/ OutOfReach)
    BY DEF IInv
  <2>2. IsComposition(in) /\ c < MaxInt
    BY <2>1
  <2> QED
    BY <2>1, <2>2, CompletionCosts
<1> QED
  BY <1>1, Invariance, PTL

-----------------------------------------------------------------------------
(***************************************************************************)
(* The split of stored cuts.                                               *)
(***************************************************************************)
Upwards(l, n, S) ==
  l \in [1 .. n -> S] /\ \A i, j \in 1 .. n : i < j => l[i] < l[j]

(* The members of a finite set of numbers can be listed upwards, the least *)
(* one first.                                                              *)
LEMMA SortedExists ==
  ASSUME NEW S \in SUBSET Nat, IsFiniteSet(S)
  PROVE  Upwards(sorted(S), Cardinality(S), S)
<1> DEFINE N == {n \in Nat : \A T \in SUBSET S : Cardinality(T) = n => \E l : Upwards(l, n, T)}
<1>1. \A T \in SUBSET S : IsFiniteSet(T) /\ Cardinality(T) \in Nat
  BY FS_Subset, FS_CardinalityType
<1>2. 0 \in N
  <2>1. ASSUME NEW T PROVE Upwards([i \in 1 .. 0 |-> 0], 0, T)
    BY DEF Upwards
  <2> QED
    BY <2>1
<1>3. ASSUME NEW n \in Nat, n \in N PROVE n + 1 \in N
  <2> SUFFICES ASSUME NEW T \in SUBSET S, Cardinality(T) = n + 1
               PROVE  \E l : Upwards(l, n + 1, T)
    OBVIOUS
  <2>1. T # {} /\ T \subseteq Nat
    BY <1>1, FS_EmptySet
  <2>2. PICK m \in T : \A x \in T : m <= x
    BY <2>1, LeastElement
  <2>3. Cardinality(T \ {m}) = n
    <3>1. IsFiniteSet(T) /\ Cardinality(T \ {m}) = Cardinality(T) - 1
      BY <1>1, FS_RemoveElement
    <3> QED
      BY <3>1
  <2>4. PICK l : Upwards(l, n, T \ {m})
    BY <1>3, <2>3
  <2> DEFINE k == [i \in 1 .. n + 1 |-> IF i = 1 THEN m ELSE l[i - 1]]
  <2>5. ASSUME NEW i \in 2 .. n + 1 PROVE i - 1 \in 1 .. n /\ k[i] = l[i - 1] /\ k[i] \in T /\ m < k[i]
    <3>1. i - 1 \in 1 .. n /\ k[i] = l[i - 1]
      OBVIOUS
    <3>2. k[i] \in T \ {m}
      BY <2>4, <3>1 DEF Upwards
    <3>3. k[i] \in Nat /\ m \in Nat /\ m <= k[i] /\ m # k[i]
      BY <2>1, <2>2, <3>2
    <3> HIDE DEF k
    <3> QED
      BY <3>1, <3>2, <3>3
  <2>6. k[1] = m /\ DOMAIN k = 1 .. n + 1 /\ k = [i \in 1 .. n + 1 |-> k[i]]
    OBVIOUS
  <2> HIDE DEF k
  <2>7. k \in [1 .. n + 1 -> T]
    <3>1. \A i \in 1 .. n + 1 : i = 1 \/ i \in 2 .. n + 1
      OBVIOUS
    <3>2. \A i \in 1 .. n + 1 : k[i] \in T
      BY <2>5, <2>6, <3>1
    <3> QED
      BY <2>6, <3>2
  <2>8. ASSUME NEW i \in 1 .. n + 1, NEW j \in 1 .. n + 1, i < j PROVE k[i] < k[j]
    <3>1. j \in 2 .. n + 1 /\ (i = 1 \/ i \in 2 .. n + 1)
      BY <2>8
    <3>2. CASE i = 1
      BY <2>5, <2>6, <3>1, <3>2
    <3>3. CASE i \in 2 .. n + 1
      <4>1. i - 1 < j - 1 /\ i - 1 \in 1 .. n /\ j - 1 \in 1 .. n
        BY <2>8, <3>1, <3>3
      <4>2. l[i - 1] < l[j - 1]
        BY <2>4, <4>1 DEF Upwards
      <4> QED
        BY <2>5, <3>1, <3>3, <4>2
    <3> QED
      BY <3>1, <3>2, <3>3
  <2> QED
    BY <2>7, <2>8 DEF Upwards
<1>4. Cardinality(S) \in N
  <2> HIDE DEF N
  <2> QED
    BY <1>1, <1>2, <1>3, Induction
<1>5. \E l : Upwards(l, Cardinality(S), S)
  BY <1>4
<1> QED
  BY <1>5 DEF sorted, Upwards

(* Where the numbers from n on begin in a list that goes upwards.          *)
LEMMA BorderExists ==
  ASSUME NEW L \in Nat, NEW lm, Upwards(lm, L, Nat), NEW n \in Nat
  PROVE  \E k \in 0 .. L : \A j \in 1 .. L : lm[j] < n <=> j <= k
<1> DEFINE Above == {j \in 1 .. L : ~ (lm[j] < n)}
<1>1. lm \in [1 .. L -> Nat] /\ \A i, j \in 1 .. L : i < j => lm[i] < lm[j]
  BY DEF Upwards
<1>2. CASE Above = {}
  BY <1>2
<1>3. CASE Above # {}
  <2>1. PICK q \in Above : \A j \in Above : q <= j
    <3>1. Above \in SUBSET Nat
      OBVIOUS
    <3> HIDE DEF Above
    <3> QED
      BY <1>3, <3>1, LeastElement
  <2>2. ASSUME NEW j \in 1 .. L PROVE lm[j] < n <=> j <= q - 1
    <3>1. CASE j < q
      BY <2>1, <3>1
    <3>2. CASE j >= q
      <4>1. lm[j] \in Nat /\ lm[q] \in Nat /\ ~ (lm[q] < n) /\ (j = q \/ lm[q] < lm[j])
        BY <1>1, <3>2
      <4> QED
        BY <3>2, <4>1
    <3> QED
      BY <3>1, <3>2
  <2>3. q - 1 \in 0 .. L
    OBVIOUS
  <2> QED
    BY <2>2, <2>3
<1> QED
  BY <1>2, <1>3

(* The search for the border ends at the first number from n on, wherever  *)
(* it starts.                                                              *)
LEMMA SplitIsBorder ==
  ASSUME NEW L \in Nat \ {0}, NEW lm, Upwards(lm, L, Nat), NEW n \in Nat,
         NEW k \in 0 .. L, \A j \in 1 .. L : lm[j] < n <=> j <= k
  PROVE  split(lm, n) = k
<1> DEFINE P == (0 .. L) \X (0 .. L)
           middle(b) == (b[1] + b[2]) \div 2
           next(b) == IF lm[middle(b) + 1] < n THEN <<middle(b), b[2]>> ELSE <<b[1], middle(b)>>
           all(f) == [b \in P |-> IF b[1] = b[2] - 1 THEN b[2] ELSE f[next(b)]]
           it == CHOOSE f : f = all(f)
           found(b) == IF k >= b[2] THEN b[2] ELSE IF k <= b[1] THEN b[1] + 1 ELSE k
           proper(b) == b[1] < b[2]
           f0 == [b \in P |-> IF proper(b) THEN found(b) ELSE 0]
<1>1. lm \in [1 .. L -> Nat] /\ lm \in Seq(Nat) /\ Len(lm) = L
  BY DEF Upwards
<1>2. split(lm, n) = IF lm[1] >= n THEN 0 ELSE IF lm[L] < n THEN L ELSE it[<<0, L - 1>>]
  BY <1>1 DEF split
<1>3. ASSUME NEW b \in P
      PROVE  /\ middle(b) \in 0 .. L /\ next(b) \in P
             /\ ~ proper(b) => ~ proper(next(b)) /\ b[1] # b[2] - 1
             /\ proper(b) /\ b[1] # b[2] - 1 =>
                  /\ proper(next(b)) /\ next(b)[2] - next(b)[1] < b[2] - b[1]
                  /\ found(next(b)) = found(b)
  <2> DEFINE m == middle(b)
             x == b[1]
             y == b[2]
  <2>1. x \in 0 .. L /\ y \in 0 .. L
    OBVIOUS
  <2>2. /\ m \in 0 .. L
        /\ x < y /\ x # y - 1 => x < m /\ m < y
        /\ ~ (x < y) => y <= m /\ m <= x
    <3> HIDE DEF x, y
    <3>1. m = (x + y) \div 2
      BY DEF x, y
    <3> HIDE DEF m
    <3> QED
      BY <2>1, <3>1
  <2>3. x < y /\ x # y - 1 => (lm[m + 1] < n <=> m + 1 <= k)
    <3> HIDE DEF m, x, y
    <3>1. x < y /\ x # y - 1 => m + 1 \in 1 .. L
      BY <2>1, <2>2
    <3> QED
      BY <3>1
  <2>4. next(b) = IF lm[m + 1] < n THEN <<m, y>> ELSE <<x, m>>
    OBVIOUS
  <2> HIDE DEF m, x, y, next
  <2>5. \/ next(b) = <<m, y>> /\ lm[m + 1] < n
        \/ next(b) = <<x, m>> /\ ~ (lm[m + 1] < n)
    BY <2>4
  <2>6. CASE next(b) = <<m, y>> /\ lm[m + 1] < n
    <3>1. next(b)[1] = m /\ next(b)[2] = y
      BY <2>6
    <3> QED
      BY <2>1, <2>2, <2>3, <2>6, <3>1 DEF x, y, m
  <2>7. CASE next(b) = <<x, m>> /\ ~ (lm[m + 1] < n)
    <3>1. next(b)[1] = x /\ next(b)[2] = m
      BY <2>7
    <3> QED
      BY <2>1, <2>2, <2>3, <2>7, <3>1 DEF x, y, m
  <2> QED
    BY <2>5, <2>6, <2>7
<1> HIDE DEF next
<1>4. f0 = all(f0)
  <2>1. ASSUME NEW b \in P PROVE f0[b] = IF b[1] = b[2] - 1 THEN b[2] ELSE f0[next(b)]
    <3>1. b[1] \in 0 .. L /\ b[2] \in 0 .. L
      OBVIOUS
    <3>2. CASE b[1] = b[2] - 1
      BY <3>1, <3>2
    <3>3. CASE b[1] # b[2] - 1 /\ proper(b)
      BY <1>3, <3>3
    <3>4. CASE ~ proper(b)
      BY <1>3, <3>4
    <3> QED
      BY <3>2, <3>3, <3>4
  <2>2. all(f0) = [b \in P |-> f0[b]]
    <3> HIDE DEF f0
    <3> QED
      BY <2>1
  <2> QED
    BY <2>2
<1>5. it = all(it)
  <2> HIDE DEF all, f0
  <2> QED
    BY <1>4
<1> DEFINE N == {d \in Nat : \A b \in P : proper(b) /\ b[2] - b[1] <= d => it[b] = found(b)}
<1>6. ASSUME NEW b \in P PROVE it[b] = IF b[1] = b[2] - 1 THEN b[2] ELSE it[next(b)]
  <2> HIDE DEF it
  <2> QED
    BY <1>5
<1> HIDE DEF it
<1>7. 0 \in N
  OBVIOUS
<1>8. ASSUME NEW d \in Nat, d \in N PROVE d + 1 \in N
  <2> SUFFICES ASSUME NEW b \in P, proper(b), b[2] - b[1] <= d + 1 PROVE it[b] = found(b)
    OBVIOUS
  <2>1. b[1] \in 0 .. L /\ b[2] \in 0 .. L
    OBVIOUS
  <2>2. CASE b[1] = b[2] - 1
    BY <1>6, <2>1, <2>2
  <2>3. CASE b[1] # b[2] - 1
    <3> DEFINE c == next(b)
    <3>1. /\ c \in P /\ proper(c) /\ c[2] - c[1] < b[2] - b[1]
          /\ found(c) = found(b)
      BY <1>3, <2>3
    <3>2. it[b] = it[c]
      BY <1>6, <2>3
    <3> HIDE DEF c
    <3>3. c[2] - c[1] <= d
      BY <2>1, <3>1
    <3>4. it[c] = found(c)
      BY <1>8, <3>1, <3>3
    <3> QED
      BY <3>1, <3>2, <3>4
  <2> QED
    BY <2>2, <2>3
<1>9. L \in N
  <2> HIDE DEF N
  <2> QED
    BY <1>7, <1>8, Induction
<1>10. CASE lm[1] >= n
  <2>1. ~ (lm[1] < n)
    BY <1>1, <1>10
  <2> QED
    BY <1>2, <1>10, <2>1
<1>11. CASE ~ (lm[1] >= n) /\ lm[L] < n
  BY <1>2, <1>11
<1>12. CASE ~ (lm[1] >= n) /\ ~ (lm[L] < n)
  <2>1. lm[1] < n
    BY <1>1, <1>12
  <2>2. 1 <= k /\ k <= L - 1
    BY <1>12, <2>1
  <2> DEFINE b == <<0, L - 1>>
  <2>3. b \in P /\ proper(b) /\ b[2] - b[1] <= L /\ found(b) = k
    BY <2>2
  <2>4. it[b] = k
    <3> HIDE DEF b
    <3> QED
      BY <1>9, <2>3
  <2> QED
    BY <1>2, <1>12, <2>4
<1> QED
  BY <1>10, <1>11, <1>12

(* The binary search for the first method of a stored cut finds it,        *)
(* whatever actions and methods the cut has (hhRC2.h:175-214).             *)
THEOREM SplitIsRight ==
  ASSUME \A i \in Instances : i.htn # << >> => IsComposition(i)
  PROVE  Spec => []CutsAreSplit
<1>1. IInv => CutsAreSplit
  <2> DEFINE n  == in.htn.numActions
             lm == sorted(cut)
             L  == Cardinality(cut)
  <2> SUFFICES ASSUME IInv, pc = "cut", in.htn # << >>
               PROVE  \A j \in DOMAIN lm : lm[j] < n <=> j <= split(lm, n)
    BY DEF CutsAreSplit
  <2>1. /\ cut # {} /\ cut \subseteq Ops(in) /\ in \in Instances
    BY DEF IInv, CutInv, TypeOK
  <2>2. cut \in SUBSET Nat /\ IsFiniteSet(cut) /\ L \in Nat \ {0}
    BY <2>1, InstanceFacts, FS_Subset, FS_CardinalityType, FS_EmptySet
  <2>3. n \in Nat
    BY <2>1 DEF IsComposition, IsProblem
  <2>4. Upwards(lm, L, Nat) /\ DOMAIN lm = 1 .. L
    BY <2>2, SortedExists DEF Upwards
  <2> HIDE DEF n, lm, L
  <2>5. PICK k \in 0 .. L : \A j \in 1 .. L : lm[j] < n <=> j <= k
    BY <2>2, <2>3, <2>4, BorderExists
  <2>6. split(lm, n) = k
    BY <2>2, <2>3, <2>4, <2>5, SplitIsBorder
  <2> QED
    BY <2>4, <2>5, <2>6
<1> QED
  BY <1>1, Invariance, PTL
=============================================================================
