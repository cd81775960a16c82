------------------------------- MODULE LmCut --------------------------------
(***************************************************************************)
(* The LM-cut heuristic of pandaPIengine (hsLmCut.cpp).  It computes hMax  *)
(* with a Dijkstra search that remembers for every action its dearest      *)
(* precondition; while hMax is positive it looks backwards from the        *)
(* dearest goal fact for the facts that reach it at no cost (the goal      *)
(* zone), takes the actions that lead into the zone as a cut, adds the     *)
(* least of their costs to the value, and makes them cheaper by as much.   *)
(*                                                                         *)
(* The heap is the set of its entries <<key, fact>>.  hVal and maxPrec are *)
(* partial functions: what is UNREACHABLE is not in their domain.  Sums    *)
(* are taken to fit their type.  LMCINCHMAX is not defined in the build,   *)
(* so hMax is computed anew after every cut.                               *)
(***************************************************************************)
EXTENDS RelaxedProblem, SequencesExt

CONSTANT Instances

ASSUME LmCutAssumption ==
  /\ MaxInt \in Nat \ {0, 1}
  /\ \A in \in Instances : IsRelaxedProblem(in)

UNREACHABLE == MaxInt    \* INT_MAX

VARIABLES
  in,              \* the instance
  pc,              \* "hMax", "zone", "cut" or "done"
  costs,           \* what the actions still cost
  heap, hVal, unsatPrecs, maxPrec,    \* of getHMax
  maxPrecG,        \* the dearest goal fact
  goalZone, cut, precsOfCutNodes, stack,
  producers,       \* actions that add the fact in hand, in calcGoalZone
  cuts,            \* the cuts stored so far
  hLmCut           \* the value

hMaxVars == <<heap, hVal, unsatPrecs, maxPrec>>
zoneVars == <<goalZone, cut, precsOfCutNodes, stack, producers>>
vars     == <<in, pc, costs, hMaxVars, maxPrecG, zoneVars, cuts, hLmCut>>

(* The initialisation at the head of getHMax.                              *)
startHMax(i) ==
  [ heap |-> {0} \X i.s, hVal |-> [f \in i.s |-> 0],
    unsatPrecs |-> [o \in Ops(i) |-> Len(i.prec[o])],
    maxPrec |-> [o \in {} |-> {}] ]

Init ==
  /\ in \in Instances
  /\ pc = IF in.g = {} THEN "done" ELSE "hMax"
  /\ costs = in.cost
  /\ heap = startHMax(in).heap
  /\ hVal = startHMax(in).hVal
  /\ unsatPrecs = startHMax(in).unsatPrecs
  /\ maxPrec = startHMax(in).maxPrec
  /\ maxPrecG = UNREACHABLE
  /\ goalZone = {} /\ cut = {} /\ precsOfCutNodes = {}
  /\ stack = << >> /\ producers = {}
  /\ cuts = << >>
  /\ hLmCut = 0

-----------------------------------------------------------------------------
(***************************************************************************)
(* getHMax.                                                                *)
(***************************************************************************)
(* Mutant of top: the heap returns any entry.                              *)
topAny(e) == pc = "hMax" /\ e \in heap

top(e) == pc = "hMax" /\ e \in heap /\ \A d \in heap : e[1] <= d[1]

Skip(e) ==
  /\ top(e)
  /\ hVal[e[2]] < e[1]
  /\ heap' = heap \ {e}
  /\ UNCHANGED <<in, pc, costs, hVal, unsatPrecs, maxPrec, maxPrecG, zoneVars, cuts, hLmCut>>

(* Mutant of isDearest: the precondition taken first stays.                *)
isDearestFirst(o, f) == o \notin DOMAIN maxPrec

isDearest(o, f) == o \in DOMAIN maxPrec => hVal[maxPrec[o]] < hVal[f]

(* A fact is settled: it becomes the dearest precondition of its actions,  *)
(* and those that have no precondition left reach their facts.  Of the     *)
(* entries that one fact gets, only the last is modelled.                  *)
Settle(e) ==
  LET f          == e[2]
      visits     == precToAction(in, f)
      dearest(o) == IF o \in visits /\ isDearest(o, f) THEN f ELSE maxPrec[o]
      reached    == {o \in visits : unsatPrecs[o] = 1}
      offer(x)   == Min({hVal[dearest(o)] + costs[o] : o \in reached \cap addToTask(in, x)})
      better     == {x \in UNION {in.add[o] : o \in reached} :
                       x \in DOMAIN hVal => offer(x) < hVal[x]}
  IN  /\ top(e)
      /\ e[1] <= hVal[f]
      /\ maxPrec' = [o \in DOMAIN maxPrec \cup visits |-> dearest(o)]
      /\ unsatPrecs' = [o \in Ops(in) |-> IF o \in visits THEN unsatPrecs[o] - 1 ELSE unsatPrecs[o]]
      /\ hVal' = [x \in DOMAIN hVal \cup better |-> IF x \in better THEN offer(x) ELSE hVal[x]]
      /\ heap' = (heap \ {e}) \cup {<<offer(x), x>> : x \in better}
      /\ UNCHANGED <<in, pc, costs, maxPrecG, zoneVars, cuts, hLmCut>>

(* The heap is empty: hMax is the value of the dearest goal fact.  The     *)
(* heuristic ends if it is 0 or there is none.                             *)
EndHMax(f) ==
  /\ pc = "hMax"
  /\ heap = {}
  /\ IF in.g \subseteq DOMAIN hVal
     THEN /\ \A x \in in.g : hVal[x] <= hVal[f]
          /\ pc' = IF hVal[f] = 0 THEN "done" ELSE "zone"
          /\ hLmCut' = hLmCut
     ELSE /\ pc' = "done"
          /\ hLmCut' = UNREACHABLE
  /\ maxPrecG' = f
  /\ goalZone' = {} /\ cut' = {} /\ precsOfCutNodes' = {}
  /\ stack' = <<f>> /\ producers' = {}
  /\ UNCHANGED <<in, costs, hMaxVars, cuts>>

-----------------------------------------------------------------------------
(***************************************************************************)
(* calcGoalZone: one fact from the stack, then one of its producers at a   *)
(* time.  The dearest precondition of an action that costs nothing joins   *)
(* the zone.  Actions cut before their precondition joins it stay cut.     *)
(***************************************************************************)
NextZoneFact ==
  /\ pc = "zone"
  /\ producers = {}
  /\ stack # << >>
  /\ stack' = Front(stack)
  /\ producers' = {o \in addToTask(in, Last(stack)) : unsatPrecs[o] = 0}
  /\ UNCHANGED <<in, pc, costs, hMaxVars, maxPrecG, goalZone, cut, precsOfCutNodes, cuts, hLmCut>>

(* Mutant of Producer: an action that is free is cut as well.              *)
ProducerCutsFree(o) ==
  /\ pc = "zone"
  /\ o \in producers
  /\ \A p \in producers : o <= p
  /\ producers' = producers \ {o}
  /\ cut' = cut \cup {o}
  /\ precsOfCutNodes' = precsOfCutNodes \cup {maxPrec[o]}
  /\ UNCHANGED <<in, pc, costs, hMaxVars, maxPrecG, goalZone, stack, cuts, hLmCut>>

Producer(o) ==
  LET singlePrec == maxPrec[o]
      known      == singlePrec \in goalZone
      joins      == ~ known /\ costs[o] = 0
      cuts_      == ~ known /\ costs[o] # 0
  IN  /\ pc = "zone"
      /\ o \in producers
      /\ \A p \in producers : o <= p
      /\ producers' = producers \ {o}
      /\ goalZone' = IF joins THEN goalZone \cup {singlePrec} ELSE goalZone
      /\ stack' = IF joins THEN Append(stack, singlePrec) ELSE stack
      /\ cut' = IF cuts_ THEN cut \cup {o} ELSE cut
      /\ precsOfCutNodes' = IF joins THEN precsOfCutNodes \ {singlePrec}
                            ELSE IF cuts_ THEN precsOfCutNodes \cup {singlePrec}
                            ELSE precsOfCutNodes
      /\ UNCHANGED <<in, pc, costs, hMaxVars, maxPrecG, cuts, hLmCut>>

(***************************************************************************)
(* forwardReachabilityDFS: actions are taken out of the cut again if their *)
(* dearest precondition is not reached from the state outside the zone.    *)
(***************************************************************************)
enabledOutside == {o \in Ops(in) : unsatPrecs[o] = 0 /\ maxPrec[o] \notin goalZone}

(* Mutant of comesFrom: only one step back from the fact.                  *)
comesFromOneStep(f) == {f} \cup {maxPrec[o] : o \in enabledOutside \cap addToTask(in, f)}

(* The facts the search backwards from f visits.                           *)
comesFrom(f) ==
  FoldSet(LAMBDA round, X : X \cup {maxPrec[o] : o \in {p \in enabledOutside : in.add[p] \cap X # {}}},
          {f}, in.facts)

remove == {f \in precsOfCutNodes : comesFrom(f) \cap in.s = {}}

(* bucketSet iterates by index and stops once it has returned as many      *)
(* elements as the set has, also when the loop erases some on the way: the *)
(* loop may end before it has seen all of the cut.  It stops after p if p  *)
(* and those before it are as many as the set still has then.              *)
upTo(p)           == {q \in cut : q <= p}
stopsAfter(p, gone) == Cardinality(upTo(p)) = Cardinality(cut \ (gone \cap upTo(p)))

erased(gone) ==
  cut \ {o \in gone : \A p \in upTo(o) \ {o} : ~ stopsAfter(p, gone)}

EndZone ==
  /\ pc = "zone"
  /\ producers = {}
  /\ stack = << >>
  /\ pc' = "cut"
  /\ cut' = erased({o \in cut : maxPrec[o] \in remove})
  /\ UNCHANGED <<in, costs, hMaxVars, maxPrecG, goalZone, precsOfCutNodes, stack, producers,
                 cuts, hLmCut>>

(* Mutant of newCosts: only one of the dearer actions gets cheaper.        *)
newCostsOfLeast(minCosts) ==
  [o \in Ops(in) |-> IF o \in cut /\ costs[o] = minCosts THEN 0 ELSE costs[o]]

(* Mutant of newCosts: the dearest part is left.                           *)
newCostsAllButOne(minCosts) ==
  [o \in Ops(in) |-> IF o \in cut THEN costs[o] - (minCosts - 1) ELSE costs[o]]

newCosts(minCosts) == [o \in Ops(in) |-> IF o \in cut THEN costs[o] - minCosts ELSE costs[o]]

(* The cut is stored and paid for, and hMax computed again.                *)
Pay ==
  LET minCosts == Min({MaxInt} \cup {costs[o] : o \in cut})
  IN  /\ pc = "cut"
      /\ pc' = "hMax"
      /\ hLmCut' = hLmCut + minCosts
      /\ costs' = newCosts(minCosts)
      /\ cuts' = Append(cuts, cut)
      /\ heap' = startHMax(in).heap
      /\ hVal' = startHMax(in).hVal
      /\ unsatPrecs' = startHMax(in).unsatPrecs
      /\ maxPrec' = startHMax(in).maxPrec
      /\ UNCHANGED <<in, maxPrecG, zoneVars>>

Terminating == pc = "done" /\ UNCHANGED vars

Next ==
  \/ \E e \in heap : Skip(e) \/ Settle(e)
  \/ \E f \in in.g : EndHMax(f)
  \/ NextZoneFact
  \/ \E o \in producers : Producer(o)
  \/ EndZone
  \/ Pay
  \/ Terminating

(* One call, in one thread.                                                *)
Spec == Init /\ [][Next]_vars

-----------------------------------------------------------------------------
(***************************************************************************)
(* Properties.                                                             *)
(***************************************************************************)
TypeOK ==
  /\ pc \in {"hMax", "zone", "cut", "done"}
  /\ costs \in [Ops(in) -> Nat]
  /\ heap \subseteq Nat \X in.facts
  /\ DOMAIN hVal \subseteq in.facts /\ \A f \in DOMAIN hVal : hVal[f] \in Nat
  /\ unsatPrecs \in [Ops(in) -> Nat]
  /\ DOMAIN maxPrec \subseteq Ops(in) /\ \A o \in DOMAIN maxPrec : maxPrec[o] \in DOMAIN hVal
  /\ goalZone \subseteq in.facts /\ precsOfCutNodes \subseteq in.facts
  /\ cut \subseteq Ops(in) /\ producers \subseteq Ops(in)
  /\ stack \in Seq(in.facts)
  /\ pc \in {"zone", "cut"} => maxPrecG \in in.g
  /\ hLmCut \in Nat \cup {UNREACHABLE}

(* Every cut is a landmark: without its actions the goal is out of reach,  *)
(* though cuts may keep actions that a stopped iteration did not look at   *)
(* and lose others again.  The stored cuts are handed to other heuristics  *)
(* as landmarks (hsLmCut.cpp:134-164, hhRC2.h:175-214).                    *)
CutsAreLandmarks ==
  pc = "cut" => ~ (in.g \subseteq relaxedReach(in, Ops(in) \ cut))

(* The assertions of the loop: no cut is empty, and each costs something   *)
(* (hsLmCut.cpp:140, 144, 162, 170).                                       *)
CutsCost == pc = "cut" => cut # {} /\ \A o \in cut : costs[o] > 0

(* The value is not more than what any relaxed plan costs.                 *)
Admissible ==
  pc = "done" /\ hLmCut # UNREACHABLE =>
    \A plan \in SUBSET {o \in Ops(in) : in.cost[o] > 0} :
      in.g \subseteq relaxedReach(in, plan \cup {o \in Ops(in) : in.cost[o] = 0}) =>
        hLmCut <= MapThenSumSet(LAMBDA o : in.cost[o], plan)

(* The calculation ends: every cut that is paid for leaves fewer actions   *)
(* that cost something, though an action may be in many cuts               *)
(* (hsLmCut.cpp:146-172).                                                  *)
costly == {o \in Ops(in) : costs[o] > 0}
EveryCutFrees == [][pc = "cut" => costly' \subseteq costly /\ costly' # costly]_vars
=============================================================================
