--------------------------- MODULE RelaxedProblem ---------------------------
(***************************************************************************)
(* A delete-relaxed classical problem as the inner heuristics of           *)
(* pandaPIengine see it, a record                                          *)
(*                                                                         *)
(*   facts     the state bits                                              *)
(*   prec      per action, the list of its preconditions                   *)
(*   add       per action, the set of facts it adds                        *)
(*   cost      per action, its cost                                        *)
(*   s, g      the state and the goal                                      *)
(*                                                                         *)
(* Every action has a precondition, as in the models the factory makes     *)
(* (RelaxedComposition), so the loops over precLessActions are left out.   *)
(***************************************************************************)
EXTENDS Integers, Sequences, FiniteSets, FiniteSetsExt

CONSTANT MaxInt    \* INT_MAX

Ops(in)      == DOMAIN in.prec
precs(in, o) == {in.prec[o][i] : i \in DOMAIN in.prec[o]}

(* The actions a fact is a precondition of, and those that add it.         *)
precToAction(in, f) == {o \in Ops(in) : f \in precs(in, o)}
addToTask(in, f)    == {o \in Ops(in) : f \in in.add[o]}

(* What the constructors of the heuristics and Model::read establish: no   *)
(* list names a fact twice (assertPrecAddDelSets).                         *)
IsRelaxedProblem(in) ==
  /\ IsFiniteSet(in.facts)
  /\ Ops(in) \subseteq Nat
  /\ IsFiniteSet(Ops(in))
  /\ DOMAIN in.add = Ops(in)
  /\ in.cost \in [Ops(in) -> 0 .. MaxInt - 1]
  /\ \A o \in Ops(in) :
       /\ in.prec[o] \in Seq(in.facts) \ {<< >>}
       /\ \A i, j \in DOMAIN in.prec[o] : in.prec[o][i] = in.prec[o][j] => i = j
       /\ in.add[o] \subseteq in.facts
  /\ in.s \subseteq in.facts
  /\ in.g \subseteq in.facts

-----------------------------------------------------------------------------
(* The references: a set of facts that the relaxed actions do not leave,   *)
(* and the facts that some actions reach.                                  *)
ClosedUnder(in, ops, X) == \A o \in ops : precs(in, o) \subseteq X => in.add[o] \subseteq X

relaxedReach(in, ops) ==
  FoldSet(LAMBDA round, X :
            X \cup UNION {in.add[o] : o \in {p \in ops : precs(in, p) \subseteq X}},
          in.s, 1 .. Cardinality(ops))
=============================================================================
