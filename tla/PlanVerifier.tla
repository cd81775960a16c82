---------------------------- MODULE PlanVerifier ----------------------------
(***************************************************************************)
(* The plan verifier of pandaPIparser (verify.cpp): given a domain, a      *)
(* sequence of actions and the methods that are claimed to lead to it, it  *)
(* puts the plan into one form, checks the declarations, finds the ways to match the steps below every  *)
(* decomposed step with the subtasks of its method (generateAssignments-   *)
(* DFS), and looks for a choice of matchings under which the actions can   *)
(* be executed together with the preconditions and effects of the methods  *)
(* (findLinearisation, executeDAG).                                        *)
(*                                                                         *)
(* Formulas are conjunctions of atoms <<predicate, variable, ...>>, or of  *)
(* inequalities of variables; objects are numbers, and so are the ids of   *)
(* the subtasks of a method, which the code visits in the order of their   *)
(* names.  The initial network is the method __top_method of the abstract  *)
(* task __top, without arguments, precondition and effects (hddl.y:183).   *)
(* Lenient mode and the output are left out.                               *)
(***************************************************************************)
EXTENDS Integers, FiniteSets, Sequences, SequencesExt

CONSTANT Plans    \* the plans to verify, each with its domain

VARIABLES
  plan,             \* plan and domain being verified
  pplan,            \* the plan the program works on, and its root
  pc,               \* "check", "search" or "done"
  overallResult,    \* what the checks before the search found
  matchings,        \* possibleMethodInstantiations, once they are computed
  forbidden,        \* forbidden_matchings: sequences of <<step, matching>>
  verdict           \* "none", "true", "false", or "exit" for exit(2)

vars == <<plan, pplan, pc, overallResult, matchings, forbidden, verdict>>

(* Op of a value that is computed once.                                    *)
With(value, Op(_)) == CHOOSE y \in {Op(x) : x \in {value}} : TRUE

---------------------------------------------------------------------------
(* The plan.                                                               *)

Ids(p) == DOMAIN p.tasks
declaredPrimitive(p, id) == id \in Range(p.primitive_plan)
Decomposed(p) == DOMAIN p.appliedMethod

(* A std::map makes a step of no name of an id that has none, and position *)
(* 0 of an id that is no action.                                           *)
stepOf(p, id) == IF id \in Ids(p) THEN p.tasks[id] ELSE [name |-> "", arguments |-> << >>]
pos_in_primitive_plan(p, id) ==
  IF declaredPrimitive(p, id) THEN (CHOOSE k \in DOMAIN p.primitive_plan : p.primitive_plan[k] = id) - 1
  ELSE 0

methodFor(p, id) == p.methods[p.appliedMethod[id]]
actionFor(p, id) == p.actions[p.tasks[id].name]

Occurring(atoms) == UNION {{a[k] : k \in 2 .. Len(a)} : a \in atoms}
effVariables(m) == Occurring(m.add \cup m.del)
constraintVariables(m) == UNION {{d[1], d[2]} : d \in m.distinct}

(* The facts that atoms stand for under an assignment to their variables.  *)
ground(atoms, assignment) ==
  {[k \in DOMAIN a |-> IF k = 1 THEN a[1] ELSE assignment[a[k]]] : a \in atoms}

(* The values of parameters: of one that is repeated, the last.            *)
bind(parameters, arguments) ==
  [v \in Range(parameters) |-> arguments[Max({k \in DOMAIN parameters : parameters[k] = v})]]

task_variable_values(p, id) == bind(actionFor(p, id).parameters, p.tasks[id].arguments)

(* All ways to give values to some of the variables of a method.           *)
valuesFor(m, V) == {f \in [V -> UNION {m.vars[v] : v \in V}] : \A v \in V : f[v] \in m.vars[v]}

---------------------------------------------------------------------------
(* Matchings of the steps below a step with the subtasks of its method.    *)

(* What a matching of all steps listed in the plan becomes: none, when a   *)
(* variable has a value outside its sort or a constraint is broken, or one *)
(* per value of the variables that are still free and occur in an effect   *)
(* or a constraint.                                                        *)
completed(m, matching, assignment) ==
  LET free  == DOMAIN m.vars \ DOMAIN assignment
      now   == free \cap (effVariables(m) \cup constraintVariables(m))
      ok(a) == \A d \in m.distinct : a[d[1]] # a[d[2]]
      outside == {v \in DOMAIN m.vars \cap DOMAIN assignment : assignment[v] \notin m.vars[v]}
  IN  IF outside # {} \/ \E v \in free : m.vars[v] = {} THEN << >>
      ELSE SetToSeq({[matching |-> matching, values |-> assignment @@ f] :
                       f \in {g \in valuesFor(m, now) : ok(assignment @@ g)}})

(* A subtask of the method is the same task, and its variables can take    *)
(* the arguments of the step.                                              *)
fits(m, sub, step, assignment) ==
  /\ sub.name = step.name
  /\ \A k \in DOMAIN step.arguments :
       LET v == sub.arguments[k]
       IN  /\ step.arguments[k] \in m.vars[v]
           /\ v \in DOMAIN assignment => assignment[v] = step.arguments[k]
           /\ \A j \in DOMAIN step.arguments :
                sub.arguments[j] = v => step.arguments[j] = step.arguments[k]

(* The subtasks that may be next: with order information those without an  *)
(* unmatched predecessor.                                                  *)
sourcesOf(p, m, done) ==
  {x \in DOMAIN m.subtasks \ done :
     p.useOrderInformation => \A o \in m.ordering : o[2] = x => o[1] \in done}

RECURSIVE generateAssignmentsDFS(_, _, _, _)
generateAssignmentsDFS(p, id, matching, assignment) ==
  LET m        == methodFor(p, id)
      subtasks == p.subtasksForTask[id]
      done     == DOMAIN matching
      next     == subtasks[Cardinality(done) + 1]
      step     == stepOf(p, next)
      from(x)  == generateAssignmentsDFS(p, id, (x :> next) @@ matching,
                    bind(m.subtasks[x].arguments, step.arguments) @@ assignment)
  IN  IF Cardinality(done) = Len(subtasks) THEN completed(m, matching, assignment)
      ELSE FlattenSeq([k \in 1 .. Cardinality(DOMAIN m.subtasks) |->
             LET x == SetToSortSeq(DOMAIN m.subtasks, <)[k]
             IN  IF x \in sourcesOf(p, m, done) /\ fits(m, m.subtasks[x], step, assignment)
                 THEN from(x) ELSE << >>])

matchingsOf(p) ==
  [id \in Decomposed(p) |->
     IF methodFor(p, id).task # p.tasks[id].name THEN << >>
     ELSE generateAssignmentsDFS(p, id, << >>,
            bind(methodFor(p, id).atArguments, p.tasks[id].arguments))]

---------------------------------------------------------------------------
(* Executing a derived network.  A step x is a node, its end the node      *)
(* -x - 1; num_prec counts per node the predecessors that are not done,    *)
(* and is -1 once the node is done.                                        *)

endOf(x) == - x - 1

addTo(edges, num, n, i) ==
  [k \in {n} \cup {e[2] : e \in {e \in edges : e[1] = n}} |-> num[k] + i] @@ num
take(edges, num, n)    == addTo(edges, num, n, -1)
putBack(edges, num, n) == addTo(edges, num, n, 1)

(* What the search chose for the variables of a step's method: nothing for *)
(* a step it does not reach.                                               *)
chosenFor(values, n) == IF n \in DOMAIN values THEN values[n] ELSE << >>

(* Variables of a method that are still free can take any values that make *)
(* the precondition true.                                                  *)
applicable(p, values, n, state) ==
  IF n \in Decomposed(p)
  THEN LET m == methodFor(p, n)
           v == chosenFor(values, n)
       IN  \E f \in valuesFor(m, (DOMAIN m.vars \cap Occurring(m.prec)) \ DOMAIN v) :
             ground(m.prec, v @@ f) \subseteq state
  ELSE ground(actionFor(p, n).prec, task_variable_values(p, n)) \subseteq state

operatorOf(p, n) == IF n \in Decomposed(p) THEN methodFor(p, n) ELSE actionFor(p, n)
effectless(p, n) == operatorOf(p, n).add = {} /\ operatorOf(p, n).del = {}

executed(p, values, n, state) ==
  LET v == IF n \in Decomposed(p) THEN chosenFor(values, n) ELSE task_variable_values(p, n)
  IN  (state \ ground(operatorOf(p, n).del, v)) \cup ground(operatorOf(p, n).add, v)

(* Returns whether the goal can be reached, whether the program ended in   *)
(* exit(2), and num_prec, which is passed by reference: what was taken     *)
(* without branching is not put back.                                      *)
RECURSIVE executeDAG(_, _, _, _, _)
RECURSIVE tryBranches(_, _, _, _, _, _)

executeDAG(p, values, edges, num, state) ==
  LET sources   == {n \in DOMAIN num : num[n] = 0}
      can       == {n \in sources : n >= 0 /\ applicable(p, values, n, state)}
      greedy    == {n \in sources : n < 0} \cup {n \in can : effectless(p, n)}
      first     == CHOOSE n \in greedy : \A k \in greedy : n <= k
      branching == SetToSortSeq(can \ greedy, <)
  IN  IF \A n \in DOMAIN num : num[n] < 0
      THEN [ok |-> p.goal \subseteq state, exits |-> FALSE, num |-> num]
      ELSE IF sources = {} THEN [ok |-> FALSE, exits |-> TRUE, num |-> num]
      ELSE IF greedy # {}
      THEN With(take(edges, num, first), LAMBDA now : executeDAG(p, values, edges, now, state))
      ELSE tryBranches(p, values, edges, num, state, branching)

tryBranches(p, values, edges, num, state, branching) ==
  IF branching = << >> THEN [ok |-> FALSE, exits |-> FALSE, num |-> num]
  ELSE LET n == Head(branching)
           branch == With(<<take(edges, num, n), executed(p, values, n, state)>>,
                          LAMBDA x : executeDAG(p, values, edges, x[1], x[2]))
           next(r) == IF r.ok \/ r.exits THEN r
                      ELSE tryBranches(p, values, edges, putBack(edges, r.num, n), state,
                                       Tail(branching))
       IN  With(branch, next)

---------------------------------------------------------------------------
(* Choosing matchings.                                                     *)

(* The undecomposed steps below a step.                                    *)
RECURSIVE getRecursive(_, _)
getRecursive(p, id) ==
  IF id \notin Decomposed(p) THEN {id}
  ELSE UNION {getRecursive(p, x) : x \in Range(p.subtasksForTask[id])}

(* matching.first[x]: a subtask that nothing was matched with is looked up *)
(* in a std::map, which makes it 0.                                        *)
matched(choice, x) == IF x \in DOMAIN choice.matching THEN choice.matching[x] ELSE 0

badOrdering(p, id, choice) ==
  LET allSubs(x) == IF x \in Range(p.subtasksForTask[id]) THEN getRecursive(p, x) ELSE {}
  IN  \E o \in methodFor(p, id).ordering :
        \E before \in allSubs(matched(choice, o[1])), after \in allSubs(matched(choice, o[2])) :
          pos_in_primitive_plan(p, before) > pos_in_primitive_plan(p, after)

(* Mutant of edgesOf: the order of the actions stands for the methods'.    *)
edgesOfUnordered(p, id, choice) ==
  {<<id, endOf(id)>>}
  \cup UNION {{<<id, x>>, <<endOf(x), endOf(id)>>} : x \in Range(p.subtasksForTask[id])}

edgesOf(p, id, choice) ==
  {<<endOf(matched(choice, o[1])), matched(choice, o[2])>> : o \in methodFor(p, id).ordering}
  \cup {<<id, endOf(id)>>}
  \cup UNION {{<<id, x>>, <<endOf(x), endOf(id)>>} : x \in Range(p.subtasksForTask[id])}

(* s holds what the recursion passes by reference: the sequence chosen of  *)
(* matchings taken where there were several, the forbidden sequences, the  *)
(* flag backtrackForbidden and the values of the variables.  The result is *)
(* whether a choice was found, the edges of the derived network, and s.    *)
(* nr is the matching to try, allForbidden whether all before it were.     *)
RECURSIVE findLinearisation(_, _, _, _, _, _)
RECURSIVE linearisationsOf(_, _, _, _)

findLinearisation(p, M, id, nr, allForbidden, s) ==
  LET several == Len(M[id]) > 1
      choice  == M[id][nr]
      pushed  == IF several THEN Append(s.chosen, <<id, nr>>) ELSE s.chosen
      next(forbiddenToo, t) == findLinearisation(p, M, id, nr + 1, forbiddenToo, t)
      popped(t) == IF several THEN [t EXCEPT !.chosen = Front(@)] ELSE t
      joined(below) ==
        IF below.ok
        THEN [ ok    |-> TRUE,
               edges |-> below.edges \cup edgesOf(p, id, choice),
               s     |-> [below.s EXCEPT !.values = (id :> choice.values) @@ @] ]
        ELSE With(popped(below.s), LAMBDA t : next(FALSE, t))
  IN  IF declaredPrimitive(p, id) THEN [ok |-> TRUE, edges |-> {<<id, endOf(id)>>}, s |-> s]
      ELSE IF nr > Len(M[id])
      THEN IF allForbidden /\ several
           THEN [ ok |-> TRUE, edges |-> {},
                  s  |-> [s EXCEPT !.backtrackForbidden = TRUE,
                                   !.forbidden = @ \ {Append(s.chosen, <<id, k>>) :
                                                        k \in DOMAIN M[id]}] ]
           ELSE [ok |-> FALSE, edges |-> {}, s |-> s]
      ELSE IF pushed \in s.forbidden THEN next(allForbidden, s)
      ELSE IF badOrdering(p, id, choice) THEN next(FALSE, s)
      ELSE With(linearisationsOf(p, M, p.subtasksForTask[id],
                  [ok |-> TRUE, edges |-> {}, s |-> [s EXCEPT !.chosen = pushed]]),
                joined)

(* All steps below are visited, also when one of them has failed.          *)
linearisationsOf(p, M, ids, before) ==
  IF ids = << >> THEN before
  ELSE With(findLinearisation(p, M, Head(ids), 1, TRUE, before.s),
            LAMBDA r : linearisationsOf(p, M, Tail(ids),
                         [ok |-> before.ok /\ r.ok, edges |-> before.edges \cup r.edges, s |-> r.s]))

(* The order of the actions of the plan, and the counters of predecessors. *)
withPrimitivePlan(p, edges) ==
  edges \cup {<<endOf(p.primitive_plan[k]), p.primitive_plan[k + 1]>> :
                k \in 1 .. Len(p.primitive_plan) - 1}

num_prec(p, edges) ==
  [n \in Ids(p) \cup {e[1] : e \in edges} \cup {e[2] : e \in edges} |->
     Cardinality({e \in edges : e[2] = n})]

---------------------------------------------------------------------------
(* The plan as the program takes it, and the checks before the search.     *)

(* The root of the plan, an id or -1 for a plan of actions only: unless    *)
(* the plan names a step __top as its root, one is put above its roots     *)
(* under the first id that is free.  Looking up the name of a single root  *)
(* makes it a step.                                                        *)
withTop(p) ==
  LET roots   == p.root_tasks
      single  == Len(roots) = 1
      tasks   == IF single /\ roots[1] # -1 THEN (roots[1] :> stepOf(p, roots[1])) @@ p.tasks
                 ELSE p.tasks
      free    == Min((0 .. Cardinality(DOMAIN tasks)) \ DOMAIN tasks)
      isRoot  == single /\ (roots[1] = -1 \/ tasks[roots[1]].name = "__top")
      wrapped == [p EXCEPT !.tasks = (free :> [name |-> "__top", arguments |-> << >>]) @@ tasks,
                           !.appliedMethod = (free :> "__top_method") @@ @,
                           !.subtasksForTask = (free :> roots) @@ @]
  IN  IF isRoot THEN [root |-> roots[1]] @@ p
      ELSE IF roots = << >> THEN [root |-> -1] @@ p
      ELSE [root |-> free] @@ wrapped

subtasksExist(p) ==
  \A id \in Decomposed(p) : Range(p.subtasksForTask[id]) \subseteq Ids(p) \ {id}

declarations(p, id) == IF declaredPrimitive(p, id) THEN p.actions ELSE p.abstract
isDeclared(p, id)   == p.tasks[id].name \in DOMAIN declarations(p, id)
sortsOf(p, id)      == declarations(p, id)[p.tasks[id].name].sorts

(* Arguments beyond the declared ones are cut off, with a warning.         *)
truncated(p) ==
  LET surplus(id) == isDeclared(p, id) /\ Len(p.tasks[id].arguments) > Len(sortsOf(p, id))
  IN  [p EXCEPT !.tasks = [id \in Ids(p) |->
         IF surplus(id) THEN [p.tasks[id] EXCEPT !.arguments = SubSeq(@, 1, Len(sortsOf(p, id)))]
         ELSE p.tasks[id]]]

tasksAreDeclared(p) ==
  \A id \in Ids(p) :
    /\ isDeclared(p, id)
    /\ Len(p.tasks[id].arguments) = Len(sortsOf(p, id))
    /\ \A k \in DOMAIN sortsOf(p, id) : p.tasks[id].arguments[k] \in sortsOf(p, id)[k]

noDuplicates(p) ==
  \A id \in Decomposed(p) : IsInjective(p.subtasksForTask[id])

noOrphans(p) ==
  Ids(p) \subseteq {p.root} \cup UNION {Range(p.subtasksForTask[id]) : id \in Decomposed(p)}

methodsCanBeInstantiated(p, M) ==
  \A id \in Decomposed(p) :
    LET at == methodFor(p, id).atArguments
        arguments == p.tasks[id].arguments
    IN  M[id] # << >> /\ \A j, k \in DOMAIN at : at[j] = at[k] => arguments[j] = arguments[k]

---------------------------------------------------------------------------
Init ==
  /\ plan \in Plans
  /\ pplan = plan
  /\ pc = "check"
  /\ overallResult = TRUE
  /\ matchings = << >>
  /\ forbidden = {}
  /\ verdict = "none"

(* Wrong declarations and a plan of actions only end the verification, the *)
(* other checks do not.                                                    *)
CheckPlan ==
  /\ pc = "check"
  /\ \E p \in {truncated(withTop(plan))} :
       /\ pplan' = p
       /\ IF tasksAreDeclared(p) /\ p.root # -1
          THEN /\ \E M \in {matchingsOf(p)} :
                    /\ matchings' = M
                    /\ overallResult' = (/\ subtasksExist(p) /\ noDuplicates(p) /\ noOrphans(p)
                                         /\ methodsCanBeInstantiated(p, M))
               /\ pc' = "search"
               /\ UNCHANGED verdict
          ELSE /\ overallResult' = FALSE
               /\ pc' = "done"
               /\ verdict' = "false"
               /\ UNCHANGED matchings
  /\ UNCHANGED <<plan, forbidden>>

(* One pass of findLinearisation from the root: it ends the verification,  *)
(* or the choices it made are forbidden and it starts again.               *)
onePass ==
  findLinearisation(pplan, matchings, pplan.root, 1, TRUE,
    [chosen |-> << >>, forbidden |-> forbidden, backtrackForbidden |-> FALSE, values |-> << >>])

execution(p, r) ==
  With(withPrimitivePlan(p, r.edges), LAMBDA edges :
    With(num_prec(p, edges) @@ << >>, LAMBDA num : executeDAG(p, r.s.values, edges, num, p.init)))

answer(b) == IF b /\ overallResult THEN "true" ELSE "false"

Attempt ==
  /\ pc = "search"
  /\ \E r \in {onePass} :
       LET rootExhausted == r.ok /\ r.edges = {}
           end(v) == /\ verdict' = v
                     /\ pc' = "done"
                     /\ forbidden' = r.s.forbidden
           again  == /\ forbidden' = r.s.forbidden \cup {r.s.chosen}
                     /\ UNCHANGED <<pc, verdict>>
       IN  IF ~ r.ok \/ rootExhausted THEN end(answer(r.ok))
           ELSE IF r.s.backtrackForbidden THEN again
           ELSE \E x \in {execution(pplan, r)} :
                  \/ x.ok /\ end(answer(TRUE))
                  \/ x.exits /\ end("exit")
                  \/ ~ x.ok /\ ~ x.exits /\ again
  /\ UNCHANGED <<plan, pplan, overallResult, matchings>>

Next == CheckPlan \/ Attempt

Spec == Init /\ [][Next]_vars /\ WF_vars(Next)
=============================================================================
