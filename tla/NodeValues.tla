----------------------------- MODULE NodeValues -----------------------------
(***************************************************************************)
(* What the sharing of plan steps between search nodes promises: every     *)
(* node is a value.  A node is made from its parent by apply or decompose, *)
(* nothing changes it afterwards, and deleting it leaves all other nodes   *)
(* as they are.  ProgressionSearch treats its nodes in this way; the       *)
(* module NodeMemory, which shares, counts and frees, is shown to          *)
(* implement it.                                                           *)
(***************************************************************************)
EXTENDS ProgressionNetwork

CONSTANTS Problems, MaxProgressions

VARIABLES
  htn,     \* the problem
  value,   \* the nodes in use: a function from their numbers to their contents
  made     \* calls of apply and decompose so far

Init ==
  /\ htn \in Problems
  /\ value = [i \in {0} |-> prepareTNi(htn)]
  /\ made = 0

NewValue(n) ==
  /\ made < MaxProgressions
  /\ made' = made + 1
  /\ DOMAIN value' = DOMAIN value \cup {made + 1}
  /\ Restrict(value', DOMAIN value) = value
  /\ value'[made + 1] = n
  /\ htn' = htn

(* htn->apply(n, i) with an applicable step, htn->decompose(n, i, method). *)
Apply(n)     == \E s \in applicableSteps(htn, n) : NewValue(applyStep(htn, n, s, made + 1))
Decompose(n) == \E d \in n.abs : \E m \in taskToMethods(htn, n.task[d]) :
                  NewValue(decomposeStep(htn, n, d, m, made + 1))

Progress == \E i \in DOMAIN value : LET n == value[i] IN Apply(n) \/ Decompose(n)

(* delete n.                                                               *)
Delete ==
  /\ \E i \in DOMAIN value : value' = Restrict(value, DOMAIN value \ {i})
  /\ UNCHANGED <<htn, made>>

Next == Progress \/ Delete

Spec == Init /\ [][Next]_<<htn, value, made>>
=============================================================================
