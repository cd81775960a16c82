-------------------------------- MODULE HTN --------------------------------
(***************************************************************************)
(* The grounded HTN planning problem as pandaPIengine holds it in memory   *)
(* (class Model), and what Model::read derives from it before the search   *)
(* starts.  A problem is a record:                                         *)
(*                                                                         *)
(*   numActions    tasks 0 .. numActions-1 are primitive                   *)
(*   numTasks      tasks numActions .. numTasks-1 are abstract             *)
(*   prec,add,del  per action, the sets of facts it needs, adds, deletes   *)
(*   cost          per action, its cost                                    *)
(*   methods       sequence of [task, subs, ord]: the decomposed task, the *)
(*                 sequence of subtasks, the ordering as pairs of          *)
(*                 positions, transitively reduced (Model.cpp:1894)        *)
(*   s0, goal      initial state and goal, as sets of facts                *)
(*   initialTask   the abstract task to decompose                          *)
(*                                                                         *)
(* Facts stand for state bits.  Conditional effects, which the search does *)
(* not read, and the SAS+ variables, which it does not use, are left out.  *)
(***************************************************************************)
EXTENDS Integers, Sequences, FiniteSets

Tasks(h)     == 0 .. (h.numTasks - 1)
Actions(h)   == 0 .. (h.numActions - 1)
Methods(h)   == DOMAIN h.methods
Positions(m) == DOMAIN m.subs

isPrimitive(h, t) == t < h.numActions

(* Transitive closure of a relation over the positions 1..n, one pass per  *)
(* position k as in Floyd-Warshall.                                        *)
Closure(R, n) ==
  LET trans[k \in 0 .. n] ==
        IF k = 0 THEN R
        ELSE trans[k - 1] \cup
               {p \in (1 .. n) \X (1 .. n) :
                  <<p[1], k>> \in trans[k - 1] /\ <<k, p[2]>> \in trans[k - 1]}
  IN  trans[n]

(* What computeTransitiveChangeOfMethodOrderings(false, i) leaves in       *)
(* ordering[i]: the pairs of the closure that no third position separates. *)
TransitiveReduction(R, n) ==
  LET trans == Closure(R, n)
  IN  {p \in trans :
         ~ \E k \in 1 .. n : <<p[1], k>> \in trans /\ <<k, p[2]>> \in trans}

(* First and last tasks of a method (generateMethodRepresentation).        *)
FirstTasks(m) == {i \in Positions(m) : \A j \in Positions(m) : <<j, i>> \notin m.ord}
LastTasks(m)  == {i \in Positions(m) : \A j \in Positions(m) : <<i, j>> \notin m.ord}

(* The methods of a task, in the order in which taskToMethods lists them.  *)
taskToMethods(h, t) == {i \in Methods(h) : h.methods[i].task = t}

(* An acyclic ordering, said without paths: every set of positions has one *)
(* that none of the others precedes, and one that precedes none of them.   *)
Acyclic(m) ==
  \A X \in (SUBSET Positions(m)) \ {{}} :
    /\ \E i \in X : \A j \in X : <<j, i>> \notin m.ord
    /\ \E i \in X : \A j \in X : <<i, j>> \notin m.ord

(* A problem the reader accepts: every method has a subtask                *)
(* (Model.cpp:1877 exits otherwise), its ordering is acyclic and           *)
(* transitively reduced, numbers are in range.                             *)
IsMethod(h, m) ==
  /\ m.task \in Tasks(h) \ Actions(h)
  /\ m.subs \in Seq(Tasks(h))
  /\ m.subs # << >>
  /\ m.ord \subseteq Positions(m) \X Positions(m)
  /\ m.ord = TransitiveReduction(m.ord, Len(m.subs))
  /\ Acyclic(m)

(* The facts a state of the problem may contain.                           *)
Facts(h) == h.s0 \cup UNION {h.add[a] : a \in Actions(h)}

IsProblem(h) ==
  /\ h.numActions \in Nat
  /\ h.numTasks \in Nat
  /\ h.numActions < h.numTasks
  /\ h.initialTask \in Tasks(h) \ Actions(h)
  /\ DOMAIN h.prec = Actions(h)
  /\ DOMAIN h.add = Actions(h)
  /\ DOMAIN h.del = Actions(h)
  /\ \A a \in Actions(h) : IsFiniteSet(h.prec[a])
  /\ h.cost \in [Actions(h) -> Nat]
  /\ IsFiniteSet(Methods(h)) /\ Methods(h) = 1 .. Cardinality(Methods(h))
  /\ \A i \in Methods(h) : IsMethod(h, h.methods[i])

-----------------------------------------------------------------------------
(***************************************************************************)
(* Properties of the instance the reader detects, which select how the     *)
(* visited list works.  notOneSuccessor and notOnePredecessor count the    *)
(* positions of a method that do not have exactly one neighbour.           *)
(***************************************************************************)
Successors(m, i)   == {j \in Positions(m) : <<i, j>> \in m.ord}
Predecessors(m, i) == {j \in Positions(m) : <<j, i>> \in m.ord}

notOneSuccessor(m) ==
  Cardinality({i \in Positions(m) : Cardinality(Successors(m, i)) # 1})
notOnePredecessor(m) ==
  Cardinality({i \in Positions(m) : Cardinality(Predecessors(m, i)) # 1})

notAChain(m)               == notOneSuccessor(m) > 1 \/ notOnePredecessor(m) > 1
notZeroOrOneSuccessor(m)   == \E i \in Positions(m) : Cardinality(Successors(m, i)) > 1
notZeroOrOnePredecessor(m) == \E i \in Positions(m) : Cardinality(Predecessors(m, i)) > 1

isTotallyOrdered(h) == \A i \in Methods(h) : ~ notAChain(h.methods[i])

(* A method clears the flag only when it also clears isUniquePaths: one    *)
(* that joins two chains of the initial task into one step leaves it set.  *)
isParallelSequences(h) ==
  ~ \E i \in Methods(h) :
      LET m == h.methods[i]
      IN  /\ notAChain(m)
          /\ notZeroOrOneSuccessor(m) \/ m.task # h.initialTask
          /\ notZeroOrOnePredecessor(m) \/ m.task # h.initialTask
=============================================================================
