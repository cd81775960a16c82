----------------------------- MODULE VisitedList -----------------------------
(***************************************************************************)
(* What the visited list of pandaPIengine takes for the same search node   *)
(* (VisitedList.cpp): the access key insertVisi builds from a node, and    *)
(* the comparison of two partially ordered networks, matching.  All hashes *)
(* and memory information are enabled, as they are by default.             *)
(*                                                                         *)
(* The key is the content of exactBitString together with the content of   *)
(* the hashes that select the bucket; hash collisions and the width of the *)
(* bit fields are left out.                                                *)
(*                                                                         *)
(* Where the code's result depends on the order of the unconstraint        *)
(* arrays, which apply fills in the order of the addresses of the steps,   *)
(* the operators return every result.                                      *)
(***************************************************************************)
EXTENDS TaskSequences, TLC

(* dfsdfs: the ordered pairs of tasks, and the depth at which a search     *)
(* from the unconstrained steps first meets each step.  That depth depends *)
(* on the order of the search where paths of different lengths lead to a   *)
(* step; reached is the part of a layering built so far.                   *)
orderPairs(n) == UNION {{<<n.task[s], n.task[t]>> : t \in n.succ[s]} : s \in Steps(n)}

RECURSIVE dfsdfs(_, _, _, _)
dfsdfs(n, S, depth, reached) ==
  IF S \subseteq DOMAIN reached THEN {reached}
  ELSE UNION {UNION {dfsdfs(n, S \ {s}, depth, below) :
                       below \in dfsdfs(n, n.succ[s], depth + 1, s :> depth @@ reached)} :
                s \in S \ DOMAIN reached}

layerings(n) == UNION {dfsdfs(n, n.prim, 0, f) : f \in dfsdfs(n, n.abs, 0, << >>)}

layerCounts(n, f) ==
  [x \in {<<f[s], n.task[s]>> : s \in Steps(n)} |->
     Cardinality({s \in Steps(n) : <<f[s], n.task[s]>> = x})]

(* What the key says of the ordering, by the mode of the visited list.     *)
orderKeys(h, conf, n) ==
  IF isSequential(h, conf) THEN sequenceKeys(h, conf, n)
  ELSE {<<q, orderPairs(n), layerCounts(n, f)>> : q \in topSorts(n), f \in layerings(n)}

(* Mutant of accessKeys: the state is left out.                            *)
keysWithoutState(h, conf, n) ==
  {[tasks |-> n.contained, order |-> o] : o \in orderKeys(h, conf, n)}

(* The access keys insertVisi may build for node n.                        *)
accessKeys(h, conf, n) ==
  {keyOf(n, o) : o \in orderKeys(h, conf, n)}

-----------------------------------------------------------------------------
(* matchingDFS with matchingGenerate.  The successors S of a step of one   *)
(* and T of a step of the other are paired within the same task, in        *)
(* agreement with the pairs above them; the pairs found further down are   *)
(* dropped on return, because mapping is passed by value.                  *)
RECURSIVE matchingDFS(_, _, _, _, _)
matchingDFS(one, other, S, T, mapping) ==
  /\ Cardinality(S) = Cardinality(T)
  /\ \E f \in [S -> T] :
       /\ IsInjective(f)
       /\ \A s \in S :
            /\ one.task[s] = other.task[f[s]]
            /\ s \in DOMAIN mapping => mapping[s] = f[s]
            /\ \A r \in DOMAIN mapping : mapping[r] = f[s] => r = s
            /\ s \in DOMAIN mapping
                 \/ matchingDFS(one, other, one.succ[s], other.succ[f[s]], f @@ mapping)

matching(one, other) ==
  matchingDFS(one, other, Unconstraint(one), Unconstraint(other), << >>)
=============================================================================
