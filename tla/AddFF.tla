------------------------------- MODULE AddFF --------------------------------
(***************************************************************************)
(* The heuristics hAdd and hFF of pandaPIengine (hsAddFF.cpp): a Dijkstra  *)
(* search over the facts of a delete-relaxed problem, from the state s     *)
(* until the last fact of the goal g is taken from the heap, and for hFF   *)
(* the extraction of a relaxed plan with a stack.                          *)
(*                                                                         *)
(* The heap is the set of its entries <<key, fact>>; which of the least    *)
(* entries it returns is left open.  hType is an int: sums wrap as they do *)
(* in the build.  reachedBy keeps entries of earlier calls for facts that  *)
(* have no value yet; they are never read.                                 *)
(***************************************************************************)
EXTENDS RelaxedProblem

CONSTANT Instances    \* relaxed problems, each with the heuristic to compute

ASSUME AddFFAssumption ==
  /\ MaxInt \in Nat \ {0, 1}
  /\ \A in \in Instances : IsRelaxedProblem(in) /\ in.heuristic \in {"add", "ff"}

hUnreachable == MaxInt     \* INT_MAX, also UNREACHABLE
NOACTION     == -1
None         == -2         \* no value yet

VARIABLES
  in,            \* the instance
  pc,            \* "loop", "mark" or "done"
  queue,         \* entries of the heap
  hValProp,      \* per fact, the least value found so far
  hValOp,        \* per action, what its preconditions taken so far cost
  numSatPrecs,   \* per action, the preconditions still to be taken
  reachedBy,     \* per fact, the action that gave it its value
  numGoals,      \* goal facts still to be taken
  cur,           \* the entry in hand, while todo # {}
  todo,          \* actions with the fact in hand as a precondition
  goalsLeft,     \* goal facts getFF has still to visit
  needToMark,    \* its stack
  markedFs, markedOps,
  value          \* what getHeuristicValue returns

search   == <<queue, hValProp, hValOp, numSatPrecs, reachedBy, numGoals, cur, todo>>
marking  == <<goalsLeft, needToMark, markedFs, markedOps>>
vars     == <<in, pc, search, marking, value>>

(* 32-bit addition, with the bound as a parameter.                         *)
wrap(x) == ((x + MaxInt + 1) % (2 * (MaxInt + 1))) - (MaxInt + 1)

Init ==
  /\ in \in Instances
  /\ pc = IF in.g = {} THEN "done" ELSE "loop"
  /\ queue = {0} \X in.s
  /\ hValProp = [f \in in.facts |-> IF f \in in.s THEN 0 ELSE hUnreachable]
  /\ hValOp = in.cost
  /\ numSatPrecs = [o \in Ops(in) |-> Len(in.prec[o])]
  /\ reachedBy = [f \in in.facts |-> NOACTION]
  /\ numGoals = Cardinality(in.g)
  /\ cur = <<0, None>>
  /\ todo = {}
  /\ goalsLeft = in.g
  /\ needToMark = << >>
  /\ markedFs = {}
  /\ markedOps = {}
  /\ value = IF in.g = {} THEN 0 ELSE None

-----------------------------------------------------------------------------
(* Head of the while loop: the least entry of the heap.                    *)
top(e) == pc = "loop" /\ todo = {} /\ e \in queue /\ \A d \in queue : e[1] <= d[1]

(* Mutant of Skip: an entry that is still current is skipped as well.      *)
SkipCurrent(e) ==
  /\ top(e)
  /\ hValProp[e[2]] <= e[1]
  /\ queue' = queue \ {e}
  /\ UNCHANGED <<in, pc, hValProp, hValOp, numSatPrecs, reachedBy, numGoals, cur,
                 todo, marking, value>>

(* An entry the fact has outgrown.                                         *)
Skip(e) ==
  /\ top(e)
  /\ hValProp[e[2]] < e[1]
  /\ queue' = queue \ {e}
  /\ UNCHANGED <<in, pc, hValProp, hValOp, numSatPrecs, reachedBy, numGoals, cur,
                 todo, marking, value>>

(* The sum over a set, and in the type of the values.                      *)
total(h, S)   == MapThenSumSet(LAMBDA x : h[x], S)
sumOver(h, S) == wrap(total(h, S))

sumOfGoals == sumOver(hValProp, in.g)

(* Mutant of Settle: outgrown entries are settled too.                     *)
SettleAgain(e) ==
  /\ top(e)
  /\ queue' = queue \ {e}
  /\ cur' = e
  /\ todo' = precToAction(in, e[2])
  /\ UNCHANGED <<in, pc, hValProp, hValOp, numSatPrecs, reachedBy, numGoals, marking, value>>

(* The fact in hand is settled.  If it is the last goal fact the search    *)
(* ends, for hAdd with the sum of the goals; else its actions are visited. *)
Settle(e) ==
  LET f == e[2]
  IN  /\ top(e)
      /\ e[1] <= hValProp[f]
      /\ queue' = queue \ {e}
      /\ numGoals' = IF f \in in.g THEN numGoals - 1 ELSE numGoals
      /\ IF f \in in.g /\ numGoals' = 0
         THEN /\ pc' = IF in.heuristic = "add" THEN "done" ELSE "mark"
              /\ value' = IF in.heuristic = "add" THEN sumOfGoals ELSE value
              /\ UNCHANGED <<cur, todo>>
         ELSE /\ cur' = e
              /\ todo' = precToAction(in, f)
              /\ UNCHANGED <<pc, value>>
      /\ UNCHANGED <<in, hValProp, hValOp, numSatPrecs, reachedBy, marking>>

(* Mutant of newVal: only the precondition taken last counts.              *)
newValLast(o) == wrap(in.cost[o] + cur[1])

(* hAdd sums the preconditions of an action up, hFF takes the dearest.     *)
newVal(o) ==
  IF in.heuristic = "add" THEN wrap(hValOp[o] + cur[1])
  ELSE Max({hValOp[o], wrap(in.cost[o] + cur[1])})

(* One action of the fact in hand; with its last precondition it reaches   *)
(* the facts that it makes cheaper.  An overflow ends the search.          *)
Relax(o) ==
  LET v      == newVal(o)
      better == IF numSatPrecs[o] = 1 THEN {f \in in.add[o] : v < hValProp[f]} ELSE {}
  IN  /\ o \in todo
      /\ \A p \in todo : o <= p
      /\ IF v < hValOp[o] \/ v < cur[1]
         THEN /\ pc' = "done"
              /\ value' = MaxInt - 2
              /\ todo' = {}
              /\ UNCHANGED <<queue, hValProp, hValOp, numSatPrecs, reachedBy>>
         ELSE /\ todo' = todo \ {o}
              /\ hValOp' = [hValOp EXCEPT ![o] = v]
              /\ numSatPrecs' = [numSatPrecs EXCEPT ![o] = @ - 1]
              /\ hValProp' = [f \in in.facts |-> IF f \in better THEN v ELSE hValProp[f]]
              /\ reachedBy' = [f \in in.facts |-> IF f \in better THEN o ELSE reachedBy[f]]
              /\ queue' = queue \cup ({v} \X better)
              /\ UNCHANGED <<pc, value>>
      /\ UNCHANGED <<in, numGoals, cur, marking>>

(* The heap is empty and a goal fact was not reached.                      *)
Exhausted ==
  /\ pc = "loop"
  /\ todo = {}
  /\ queue = {}
  /\ pc' = "done"
  /\ value' = hUnreachable
  /\ UNCHANGED <<in, search, marking>>

-----------------------------------------------------------------------------
(* getFF: from each goal fact back along reachedBy.                        *)
last(seq)  == seq[Len(seq)]
front(seq) == SubSeq(seq, 1, Len(seq) - 1)

VisitGoal(f) ==
  /\ pc = "mark"
  /\ needToMark = << >>
  /\ f \in goalsLeft
  /\ goalsLeft' = goalsLeft \ {f}
  /\ needToMark' = <<f>>
  /\ UNCHANGED <<in, pc, search, markedFs, markedOps, value>>

(* Mutant of Mark: the preconditions are not followed.                     *)
MarkShallow ==
  /\ pc = "mark"
  /\ needToMark # << >>
  /\ LET f == last(needToMark)
     IN  /\ markedFs' = markedFs \cup {f}
         /\ needToMark' = front(needToMark)
         /\ markedOps' = IF reachedBy[f] = NOACTION THEN markedOps ELSE markedOps \cup {reachedBy[f]}
  /\ UNCHANGED <<in, pc, search, goalsLeft, value>>

(* The top of the stack, with the preconditions of the action that reached *)
(* it unless it was marked before or holds in the state.                   *)
Mark ==
  /\ pc = "mark"
  /\ needToMark # << >>
  /\ LET f == last(needToMark)
     IN  /\ markedFs' = markedFs \cup {f}
         /\ IF f \in markedFs \/ reachedBy[f] = NOACTION
            THEN /\ needToMark' = front(needToMark)
                 /\ markedOps' = markedOps
            ELSE /\ needToMark' = front(needToMark) \o in.prec[reachedBy[f]]
                 /\ markedOps' = markedOps \cup {reachedBy[f]}
  /\ UNCHANGED <<in, pc, search, goalsLeft, value>>

(* Their number, or the sum of their costs, which is the same where all    *)
(* costs are one.                                                          *)
sumOfPlan == sumOver(in.cost, markedOps)

Extracted ==
  /\ pc = "mark"
  /\ needToMark = << >>
  /\ goalsLeft = {}
  /\ pc' = "done"
  /\ value' = sumOfPlan
  /\ UNCHANGED <<in, search, marking>>

Terminating == pc = "done" /\ UNCHANGED vars

Next ==
  \/ \E e \in queue : Skip(e) \/ Settle(e)
  \/ \E o \in todo : Relax(o)
  \/ Exhausted
  \/ \E f \in goalsLeft : VisitGoal(f)
  \/ Mark
  \/ Extracted
  \/ Terminating

(* One call, in one thread.                                                *)
Spec == Init /\ [][Next]_vars /\ WF_vars(Next)

-----------------------------------------------------------------------------
(***************************************************************************)
(* Properties.                                                             *)
(***************************************************************************)
Values == 0 .. MaxInt

TypeOK ==
  /\ pc \in {"loop", "mark", "done"}
  /\ queue \subseteq Values \X in.facts
  /\ hValProp \in [in.facts -> Values]
  /\ hValOp \in [Ops(in) -> Values]
  /\ numSatPrecs \in [Ops(in) -> Nat]
  /\ reachedBy \in [in.facts -> Ops(in) \cup {NOACTION}]
  /\ numGoals \in Nat
  /\ todo \subseteq Ops(in)
  /\ todo # {} => cur \in Values \X in.facts
  /\ goalsLeft \subseteq in.g

(* A dead end is reported only if the goal is out of reach even without    *)
(* deletes: the facts that have a value contain the state, no action leads *)
(* out of them, and a goal fact is missing.  The search counts             *)
(* preconditions and goal facts down instead of looking at them, and it    *)
(* drops entries of the heap (hsAddFF.cpp:129-183).  The exceptions are    *)
(* sums that hit the value that stands for unreachable.                    *)
UnreachableIsSound ==
  pc = "done" /\ value = hUnreachable =>
    LET X == {f \in in.facts : hValProp[f] # hUnreachable}
    IN  \/ /\ in.s \subseteq X
           /\ ClosedUnder(in, {o \in Ops(in) : hValOp[o] # hUnreachable}, X)
           /\ ~ (in.g \subseteq X)
        \/ in.g \subseteq X /\ hUnreachable \in {sumOfGoals, sumOfPlan}

(* The actions that getFF marks are a relaxed plan: from the state they    *)
(* reach the goal by themselves.  reachedBy is overwritten while the heap  *)
(* still holds older entries, and the extraction follows it backwards.     *)
MarkedIsPlan ==
  pc = "done" /\ in.heuristic = "ff" /\ value \notin {hUnreachable, MaxInt - 2} =>
    in.g \subseteq relaxedReach(in, markedOps)

(* hAdd by its definition: h(f) is 0 in the state, else the least cost of  *)
(* an action that adds f plus the sum over its preconditions.  A round of  *)
(* the iteration extends and improves a function v that has values for     *)
(* some facts; a fact without a value counts nothing.                      *)
opValue(i, v, o) ==
  i.cost[o] + total([f \in i.facts |-> IF f \in DOMAIN v THEN v[f] ELSE 0], precs(i, o))

usable(i, v)    == {o \in Ops(i) : precs(i, o) \subseteq DOMAIN v}
offers(i, v, f) == {opValue(i, v, o) : o \in usable(i, v) \cap addToTask(i, f)}
                     \cup {v[x] : x \in DOMAIN v \cap {f}}
improved(i, v)  == [f \in DOMAIN v \cup UNION {i.add[o] : o \in usable(i, v)} |->
                      Min(offers(i, v, f))]

hAdd(i) == FoldSet(LAMBDA round, v : improved(i, v), [f \in i.s |-> 0], i.facts)

(* The value returned is hAdd, wherever no sum is too large for the type,  *)
(* those of actions that cannot be used included, as they end the search   *)
(* too.  Neither the order in which the heap returns equal entries nor the *)
(* early end of the search matter.                                         *)
AddIsExact ==
  pc = "done" /\ in.heuristic = "add" /\ in.g # {} =>
    LET v == hAdd(in)
    IN  (\A o \in Ops(in) : opValue(in, v, o) < MaxInt) =>
          IF in.g \subseteq DOMAIN v
          THEN total(v, in.g) < MaxInt => value = total(v, in.g)
          ELSE value = hUnreachable

(* A node that the relaxed composition heuristic drops has no completion:  *)
(* "otherwise the heuristic is not save" (PriorityQueueSearch.h:143).      *)
DeadEndIsDead ==
  pc = "done" /\ value = hUnreachable => in.completed = {}
=============================================================================
