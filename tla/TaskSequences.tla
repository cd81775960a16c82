---------------------------- MODULE TaskSequences ----------------------------
(***************************************************************************)
(* How the visited list of pandaPIengine writes a task network as a        *)
(* sequence of tasks (VisitedList.cpp): to_dfs follows the chains of a     *)
(* problem with parallel sequences, topSort sorts the network.  In these   *)
(* two cases the sequences are all that the key says of the ordering.      *)
(***************************************************************************)
EXTENDS ProgressionNetwork

(* Mutant of to_dfs: only the first task of the chain.                     *)
headOnly(n, s) == <<n.task[s]>>

(* to_dfs: the tasks of the chain that starts with step s.  It follows the *)
(* first successor in the list, which is the one of lowest position: the   *)
(* successors of a step are always subtasks of one method.                 *)
to_dfs(n, s) ==
  LET first(S) == CHOOSE t \in S : \A u \in S : t[2] <= u[2]
      chain[x \in Steps(n)] ==
        IF n.succ[x] = {} THEN <<n.task[x]>>
        ELSE <<n.task[x]>> \o chain[first(n.succ[x])]
  IN  chain[s]

(* The sequences of the unconstrained steps, sorted: a bag of sequences.   *)
sequences(n) ==
  LET chain(s) == to_dfs(n, s)
      seqs     == {chain(s) : s \in Unconstraint(n)}
  IN  [q \in seqs |-> Cardinality({s \in Unconstraint(n) : chain(s) = q})]

(* topSort: repeatedly the smallest task number among the unconstrained    *)
(* steps that remain; the heap leaves the order of equal tasks open.       *)
smallestOpen(n, rest) ==
  LET open == {s \in rest : \A t \in rest : s \notin n.succ[t]}
  IN  {s \in open : \A t \in open : n.task[s] <= n.task[t]}

topSorts(n) ==
  LET sorts[rest \in SUBSET Steps(n)] ==
        IF rest = {} THEN {<< >>}
        ELSE UNION {{<<n.task[s]>> \o q : q \in sorts[rest \ {s}]} : s \in smallestOpen(n, rest)}
  IN  sorts[Steps(n)]

(* The first two cases of insertVisi's key.                                *)
isSequential(h, conf) ==
  isTotallyOrdered(h) \/ (conf.parallelSequences /\ isParallelSequences(h))

sequenceKeys(h, conf, n) ==
  IF conf.parallelSequences /\ isParallelSequences(h) THEN {<<sequences(n)>>}
  ELSE {<<q>> : q \in topSorts(n)}

(* The key of a node whose ordering is written as o.                       *)
keyOf(n, o) == [state |-> n.state, tasks |-> n.contained, order |-> o]
=============================================================================
