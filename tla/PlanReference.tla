---------------------------- MODULE PlanReference ---------------------------
(***************************************************************************)
(* What makes a plan with its decompositions a solution, without a search  *)
(* and without any of the bookkeeping of the verifier: the decompositions  *)
(* form a tree over all steps, every decomposed step can be matched        *)
(* one-to-one with the subtasks of its method, and for some such matchings *)
(* all decompositions and actions can happen one after the other, in an    *)
(* order that respects the methods and the plan.  It reads the plan as it  *)
(* is given and shares with the verifier the domain and how an action or a *)
(* method is executed, but none of the checks and no change to the plan.   *)
(***************************************************************************)
EXTENDS PlanVerifier

(* Every step is an instance of a declared task.  As the program does with *)
(* a warning, what a step lists beyond the task's parameters is ignored,   *)
(* so each parameter needs an argument of its sort and no more is asked.   *)
StepsDeclared(p) ==
  \A id \in Ids(p) :
    LET step  == p.tasks[id]
        tasks == IF \E k \in DOMAIN p.primitive_plan : p.primitive_plan[k] = id
                 THEN p.actions ELSE p.abstract
    IN  /\ step.name \in DOMAIN tasks
        /\ \A k \in DOMAIN tasks[step.name].sorts :
             k \in DOMAIN step.arguments /\ step.arguments[k] \in tasks[step.name].sorts[k]

(* The initial network is decomposed like a step: it is the root step the  *)
(* plan lists for it, or, where the plan lists the tasks of the network    *)
(* only, a step Initial above them.                                        *)
Initial == -1

rooted(p) ==
  IF \E id \in Ids(p) : p.root_tasks = <<id>> /\ p.tasks[id].name = "__top"
  THEN [root |-> p.root_tasks[1]] @@ p
  ELSE [root |-> Initial] @@
       [p EXCEPT !.tasks           = @ @@ (Initial :> [name |-> "__top", arguments |-> << >>]),
                 !.appliedMethod   = @ @@ (Initial :> "__top_method"),
                 !.subtasksForTask = @ @@ (Initial :> p.root_tasks)]

children(p, S) == UNION {Range(p.subtasksForTask[t]) : t \in S \cap Decomposed(p)}

Below(p, id) ==
  LET reach[k \in 0 .. Cardinality(Ids(p))] ==
        IF k = 0 THEN {id} ELSE UNION {X \cup children(p, X) : X \in {reach[k - 1]}}
  IN  reach[Cardinality(Ids(p))]

IsTree(p) ==
  /\ Below(p, p.root) = Ids(p)
  /\ \A id \in Ids(p) :
       Cardinality({x \in Decomposed(p) \X (1 .. Cardinality(Ids(p))) :
                      x[2] \in DOMAIN p.subtasksForTask[x[1]] /\ p.subtasksForTask[x[1]][x[2]] = id})
         = (IF id = p.root THEN 0 ELSE 1)

(* The ways to match the children of a step and to give values to all      *)
(* variables of its method.  With order information the children are       *)
(* listed in an order the method allows.                                   *)
choicesFor(p, id) ==
  LET m == methodFor(p, id)
      subs == p.subtasksForTask[id]
      same(c) == \A k \in DOMAIN subs :
                   LET sub == m.subtasks[c.at[k]]
                       step == p.tasks[subs[k]]
                   IN  sub.name = step.name /\ \A j \in DOMAIN sub.arguments :
                                                 c.values[sub.arguments[j]] = step.arguments[j]
      listed(c) == \A j, k \in DOMAIN subs : <<c.at[k], c.at[j]>> \in m.ordering => k < j
  IN  IF m.task # p.tasks[id].name THEN {}
      ELSE {c \in [at : Bijection(DOMAIN subs, DOMAIN m.subtasks),
                   values : valuesFor(m, DOMAIN m.vars)] :
              /\ same(c)
              /\ p.useOrderInformation => listed(c)
              /\ \A k \in DOMAIN m.atArguments :
                   c.values[m.atArguments[k]] = p.tasks[id].arguments[k]
              /\ \A d \in m.distinct : c.values[d[1]] # c.values[d[2]]}

allChoices(p) ==
  FoldSet(LAMBDA t, C : {(t :> x) @@ c : x \in choicesFor(p, t), c \in C},
          {<< >>}, Decomposed(p))

(* Must step e happen before step f, under the choices c?                  *)
precedes(p, c, e, f) ==
  \/ e # f /\ f \in Below(p, e)
  \/ \E i, j \in DOMAIN p.primitive_plan :
       i < j /\ p.primitive_plan[i] = e /\ p.primitive_plan[j] = f
  \/ \E t \in Decomposed(p) : \E i, j \in DOMAIN p.subtasksForTask[t] :
       /\ <<c[t].at[i], c[t].at[j]>> \in methodFor(p, t).ordering
       /\ e \in Below(p, p.subtasksForTask[t][i])
       /\ f \in Below(p, p.subtasksForTask[t][j])

(* All steps can happen, one by one, and the goal holds then.              *)
ExecutableWith(p, c) ==
  LET order == {x \in Ids(p) \X Ids(p) : precedes(p, c, x[1], x[2])}
      values == [t \in Decomposed(p) |-> c[t].values]
      next(x) == {<<x[1] \cup {n}, executed(p, values, n, x[2])>> :
                    n \in {n \in Ids(p) \ x[1] : /\ \A e \in Ids(p) \ x[1] : <<e, n>> \notin order
                                                 /\ applicable(p, values, n, x[2])}}
      after[k \in 0 .. Cardinality(Ids(p))] ==
        IF k = 0 THEN {<<{}, p.init>>} ELSE UNION {next(x) : x \in after[k - 1]}
  IN  \E x \in after[Cardinality(Ids(p))] : p.goal \subseteq x[2]

Valid(p) ==
  /\ StepsDeclared(p)
  /\ \E q \in {rooted(p)} : IsTree(q) /\ \E c \in allChoices(q) : ExecutableWith(q, c)

---------------------------------------------------------------------------
(* A plan the verifier accepts is a solution: its steps are what the       *)
(* methods decompose the initial network into, and the actions can be      *)
(* executed together with the preconditions of the methods                 *)
(* (findLinearisation, verify.cpp:961-1223).                               *)
AcceptsOnlyValid == verdict = "true" => Valid(plan)

(* A plan the verifier turns down, or gives up on with exit(2), is none:   *)
(* the matchings that are forbidden after a failed attempt never hide one  *)
(* that works (verify.cpp:1176-1196, 1211-1220).                           *)
RejectsOnlyInvalid == verdict \in {"false", "exit"} => ~ Valid(plan)

(* The verifier keeps the promise of PlanVerdict: it ends, whatever it     *)
(* forbids, allows again further down and starts over, and its verdict is  *)
(* that of the reference.  Giving up with exit(2) counts as a refusal.     *)
Promise == INSTANCE PlanVerdict WITH
             IsSolution <- Valid,
             verdict    <- IF verdict = "exit" THEN "false" ELSE verdict

KeepsPromise == Promise!Spec
=============================================================================
