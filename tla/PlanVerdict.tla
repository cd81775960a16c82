---------------------------- MODULE PlanVerdict -----------------------------
(***************************************************************************)
(* What a plan verifier promises: about every plan it is given it says     *)
(* once whether the plan is a solution, it is right, and it does say it.   *)
(* The plan itself is any.                                                 *)
(***************************************************************************)
CONSTANT IsSolution(_)

VARIABLES plan, verdict

Init == verdict = "none"

Answer ==
  /\ verdict = "none"
  /\ verdict' = IF IsSolution(plan) THEN "true" ELSE "false"
  /\ UNCHANGED plan

Spec == Init /\ [][Answer]_<<plan, verdict>> /\ WF_<<plan, verdict>>(Answer)
=============================================================================
