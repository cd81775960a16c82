--------------------------- MODULE LmCutPromises ----------------------------
(***************************************************************************)
(* What hhRC2 promises when LM-cut is the heuristic that it asks about the *)
(* relaxed composition of a search node: the value it returns is           *)
(* admissible for the HTN problem, and the cuts it hands on are split into *)
(* actions and methods.  Instances without an HTN problem have htn << >>.  *)
(***************************************************************************)
EXTENDS LmCut, RelaxedComposition

(* With cost estimates the relaxed composition heuristic corrects the      *)
(* value for tasks that occur more than once, "using admissible correction *)
(* of heuristic value" (hhRC2.h:83): what it returns is at most the cost   *)
(* of any completion of the node.                                          *)
HeuristicAdmissible ==
  pc = "done" /\ in.htn # << >> /\ in.estimate = "costs" =>
    \A c \in in.completed :
      /\ hLmCut # UNREACHABLE
      /\ hLmCut + countCorrection(in.htn, "costs", << >>, in.node) <= c

(* A stored cut as the list in which its actions are numbered upwards.     *)
sorted(S) ==
  CHOOSE l \in [1 .. Cardinality(S) -> S] :
    \A i, j \in 1 .. Cardinality(S) : i < j => l[i] < l[j]

(* The stored cuts are split into actions and methods at the right place,  *)
(* also when they have only one kind (hhRC2.h:175-214).                    *)
CutsAreSplit ==
  pc = "cut" /\ in.htn # << >> =>
    LET lm == sorted(cut)
    IN  \A j \in DOMAIN lm :
          lm[j] < in.htn.numActions <=> j <= split(lm, in.htn.numActions)
=============================================================================
