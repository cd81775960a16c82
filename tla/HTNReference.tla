---------------------------- MODULE HTNReference ----------------------------
(***************************************************************************)
(* What it means for a plan to solve an HTN planning problem, without any  *)
(* search: decompose the initial task completely, in any way, keeping the  *)
(* whole ordering relation, then execute the actions of the resulting      *)
(* network in some order that respects it.  The search is checked against  *)
(* these operators; they are recursive and serve only TLC.                 *)
(***************************************************************************)
EXTENDS ProgressionNetwork

(* A reference network: steps, their tasks, a transitively closed ordering,*)
(* and the decompositions that led to it, as pairs of a step and a method. *)
(* New steps are named after the step they refine.                         *)
networkOfTask(t) == [task |-> [s \in {<< >>} |-> t], ord |-> {}, used |-> {}]

initialNetwork(h) == networkOfTask(h.initialTask)

refine(h, w, d, mi) ==
  LET m   == h.methods[mi]
      new == {d \o <<i>> : i \in Positions(m)}
      old == DOMAIN w.task \ {d}
      at(s) == s[Len(s)]
  IN  [ task |-> [s \in old \cup new |-> IF s \in new THEN m.subs[at(s)] ELSE w.task[s]],
        ord  |-> {p \in w.ord : p[1] # d /\ p[2] # d}
                   \cup {p \in new \X new : <<at(p[1]), at(p[2])>> \in Closure(m.ord, Len(m.subs))}
                   \cup {p \in old \X new : <<p[1], d>> \in w.ord}
                   \cup {p \in new \X old : <<d, p[2]>> \in w.ord},
        used |-> w.used \cup {<<d, mi>>} ]

(* The primitive networks the initial task decomposes into, with at most   *)
(* fuel decompositions.                                                    *)
RECURSIVE primitiveNetworks(_, _, _)
primitiveNetworks(h, w, fuel) ==
  LET abstract == {s \in DOMAIN w.task : ~ isPrimitive(h, w.task[s])}
  IN  IF abstract = {} THEN {w}
      ELSE IF fuel = 0 THEN {}
      ELSE LET d == CHOOSE s \in abstract : TRUE
           IN  UNION {primitiveNetworks(h, refine(h, w, d, mi), fuel - 1) :
                        mi \in taskToMethods(h, w.task[d])}

(* The network can be executed from state s so that the goal holds.        *)
RECURSIVE executable(_, _, _, _)
executable(h, w, rest, s) ==
  IF rest = {} THEN h.goal \subseteq s
  ELSE \E x \in rest :
         /\ \A y \in rest : <<y, x>> \notin w.ord
         /\ h.prec[w.task[x]] \subseteq s
         /\ executable(h, w, rest \ {x}, (s \ h.del[w.task[x]]) \cup h.add[w.task[x]])

solutionNetworks(h, fuel) ==
  {w \in primitiveNetworks(h, initialNetwork(h), fuel) :
     executable(h, w, DOMAIN w.task, h.s0)}

Solvable(h, fuel) == solutionNetworks(h, fuel) # {}

(* The same from a search node: the ways to complete its network.          *)
networkOf(n) ==
  [ task |-> n.task,
    ord  |-> UNION {{s} \X Reachable(n.succ, n.succ[s]) : s \in Steps(n)},
    used |-> {} ]

completions(h, n, fuel) ==
  {w \in primitiveNetworks(h, networkOf(n), fuel) :
     executable(h, w, DOMAIN w.task, n.state)}

(* The g value every execution of a solution network ends with.            *)
RECURSIVE sumCost(_, _, _)
sumCost(h, w, rest) ==
  IF rest = {} THEN 0
  ELSE LET x == CHOOSE y \in rest : TRUE
       IN  h.cost[w.task[x]] + sumCost(h, w, rest \ {x})

networkG(h, w, g) ==
  CASE g = "none"   -> 0
    [] g = "path"   -> Cardinality(w.used) + Cardinality(DOMAIN w.task)
    [] g = "action" -> sumCost(h, w, DOMAIN w.task)
    [] g = "mixed"  -> Cardinality(w.used) + sumCost(h, w, DOMAIN w.task)

=============================================================================
