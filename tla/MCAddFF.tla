------------------------------ MODULE MCAddFF -------------------------------
(***************************************************************************)
(* hAdd and hFF on the relaxed composition of small HTN problems.          *)
(***************************************************************************)
EXTENDS AddFF, WorkshopProblems

RCInstances == rcInstances(WorkshopProblems, {"distance", "costs"} \X {"add", "ff"}, 3)
=============================================================================
