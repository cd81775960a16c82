------------------------- MODULE RelaxedComposition -------------------------
(***************************************************************************)
(* The relaxed composition heuristics of pandaPIengine: the classical      *)
(* problem RCModelFactory makes of an HTN problem, and the state and goal  *)
(* that hhRC2::setHeuristicValue hands to the inner heuristic for a node.  *)
(*                                                                         *)
(* The bits of the classical problem are the facts of the HTN problem,     *)
(* one bit per action ("tdr", reachable from the top) and one per task     *)
(* ("bur", reached from the bottom); its actions are the actions of the    *)
(* HTN problem and one for each method.                                    *)
(***************************************************************************)
EXTENDS ProgressionNetwork, FiniteSetsExt, SequencesExt

fact(f)  == <<"fact", f>>
t2tdr(t) == <<"tdr", t>>
t2bur(t) == <<"bur", t>>

methodAction(h, mi) == h.numActions + mi - 1

rcActions(h) == 0 .. (h.numActions + Cardinality(Methods(h)) - 1)
rcMethod(h, o) == h.methods[o - h.numActions + 1]

(* The lists of preconditions, in some order of the facts; what an action  *)
(* adds; its cost.  A method is reached once its subtasks are.             *)
rcPrec(h, o) ==
  IF o < h.numActions THEN SetToSeq({fact(f) : f \in h.prec[o]}) \o <<t2tdr(o)>>
  ELSE SetToSeq({t2bur(t) : t \in distinctSubtasks(rcMethod(h, o))})

rcAdd(h, o) ==
  IF o < h.numActions THEN {fact(f) : f \in h.add[o]} \cup {t2bur(o)}
  ELSE {t2bur(rcMethod(h, o).task)}

(* estDISTANCE counts methods and actions, estMIXED counts methods and     *)
(* keeps the costs of actions, estCOSTS has actions cost only.             *)
rcCost(h, estimate, o) ==
  IF o >= h.numActions THEN IF estimate = "costs" THEN 0 ELSE 1
  ELSE IF estimate = "distance" THEN 1 ELSE h.cost[o]

-----------------------------------------------------------------------------
(* What can be had from X by rules [pre, add]: rounds, as many as there    *)
(* are rules, that each apply all rules whose premises are there.          *)
grown(rules, X) == X \cup UNION {r.add : r \in {q \in rules : q.pre \subseteq X}}

closure(rules, X) ==
  LET after[round \in 0 .. Cardinality(rules)] ==
        IF round = 0 THEN X ELSE UNION {grown(rules, Y) : Y \in {after[round - 1]}}
  IN  after[Cardinality(rules)]

(* The actions below a task (calcSCCGraph), and below a step of a network  *)
(* and the steps that follow it (calcReachability).                        *)
decompositionRules(h) ==
  {[pre |-> {h.methods[mi].task}, add |-> distinctSubtasks(h.methods[mi])] : mi \in Methods(h)}

reachableTasks(h, t) == closure(decompositionRules(h), {t})

reachable(h, t) == reachableTasks(h, t) \cap Actions(h)

reachableT(h, n, s) == UNION {reachable(h, n.task[t]) : t \in Reachable(n.succ, {s})}

(* Mutant of s0set: only the steps themselves count as reachable.          *)
s0setOfSteps(h, n) ==
  {fact(f) : f \in n.state} \cup {t2tdr(n.task[s]) : s \in n.prim}

s0set(h, n) ==
  {fact(f) : f \in n.state}
    \cup UNION {{t2tdr(a) : a \in reachableT(h, n, s)} : s \in Unconstraint(n)}

gset(h, n) == {fact(f) : f \in h.goal} \cup {t2bur(t) : t \in DOMAIN n.contained}

(* Mutant of countCorrection: the first occurrence is counted as well.     *)
countCorrectionAll(h, estimate, least, n) ==
  MapThenSumSet(LAMBDA t : n.contained[t] * (IF isPrimitive(h, t) THEN h.cost[t] ELSE 0),
                DOMAIN n.contained)

(* What setHeuristicValue adds for tasks that the network contains more    *)
(* than once.  least is the least cost or size that each task implies; the *)
(* admissible correction, for costs, counts actions only.                  *)
countCorrection(h, estimate, least, n) ==
  LET extra == [t \in DOMAIN n.contained |->
                  (n.contained[t] - 1) *
                  (IF estimate = "costs" THEN IF isPrimitive(h, t) THEN h.cost[t] ELSE 0
                   ELSE IF estimate = "distance" THEN least[t] ELSE 0)]
  IN  MapThenSumSet(LAMBDA t : extra[t], DOMAIN n.contained)

(* The nodes that the inner heuristic "filter" calls unreachable: those    *)
(* hAdd has no value for, because even without deletes the goal is out of  *)
(* reach (AddFF: AddIsExact, UnreachableIsSound; no sum that filter        *)
(* compares is large enough to be taken for it).                           *)
rcRules(h) == {[pre |-> ToSet(rcPrec(h, o)), add |-> rcAdd(h, o)] : o \in rcActions(h)}

filterUnreachable(h, n) == ~ (gset(h, n) \subseteq closure(rcRules(h), s0set(h, n)))

(* The relaxed problem of node n as the inner heuristic sees it, with the  *)
(* node and with what completions of the node cost.                        *)
rcInstance(h, n, estimate, heuristic, completed) ==
  [ facts |-> {fact(f) : f \in Facts(h)} \cup {t2tdr(a) : a \in Actions(h)}
                \cup {t2bur(t) : t \in Tasks(h)},
    prec  |-> [o \in rcActions(h) |-> rcPrec(h, o)],
    add   |-> [o \in rcActions(h) |-> rcAdd(h, o)],
    cost  |-> [o \in rcActions(h) |-> rcCost(h, estimate, o)],
    s     |-> s0set(h, n) , g |-> gset(h, n),
    heuristic |-> heuristic, estimate |-> estimate, htn |-> h, node |-> n,
    completed |-> completed ]

(* Such an instance, for a node that the search can obtain: what it says   *)
(* that completions cost are costs of progressing the node to a goal.      *)
IsComposition(i) ==
  /\ IsProblem(i.htn)
  /\ obtained(i.htn, i.node)
  /\ i = rcInstance(i.htn, i.node, i.estimate, i.heuristic, i.completed)
  /\ \A c \in i.completed :
       \E o : /\ leadsTo(i.htn, i.node, o) /\ isGoal(i.htn, o)
              /\ c = o.actionCosts - i.node.actionCosts

-----------------------------------------------------------------------------
(* Mutant of split: the last action instead of the first method.           *)
splitFromEnd(lm, n) ==
  LET border[b \in (0 .. Len(lm)) \X (0 .. Len(lm))] ==
        LET middle == (b[1] + b[2]) \div 2
        IN  IF b[1] = b[2] - 1 THEN b[1]
            ELSE border[IF lm[middle + 1] < n THEN <<middle, b[2]>> ELSE <<b[1], middle>>]
  IN  IF lm[1] >= n THEN 0
      ELSE IF lm[Len(lm)] < n THEN Len(lm)
      ELSE border[<<0, Len(lm) - 1>>]

(* Where the methods of a stored cut begin, counted from 0: lm is sorted,  *)
(* actions are numbered below n.  The border is searched between           *)
(* rightmostAction and leftmostMethod.                                     *)
split(lm, n) ==
  LET border[b \in (0 .. Len(lm)) \X (0 .. Len(lm))] ==
        LET middle == (b[1] + b[2]) \div 2
        IN  IF b[1] = b[2] - 1 THEN b[2]
            ELSE border[IF lm[middle + 1] < n THEN <<middle, b[2]>> ELSE <<b[1], middle>>]
  IN  IF lm[1] >= n THEN 0
      ELSE IF lm[Len(lm)] < n THEN Len(lm)
      ELSE border[<<0, Len(lm) - 1>>]
=============================================================================
