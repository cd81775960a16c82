--------------------------- MODULE MCPlanVerifier ---------------------------
(***************************************************************************)
(* Plans for the verifier.  In the domains a method has two subtasks of    *)
(* the same name, so that a plan can be matched with it in more than one   *)
(* way, and the precondition of the method tells the ways apart; a plan    *)
(* lists the actions in any order.  Action a moves its object from p to q. *)
(* The initial network has no precondition and no effect.                  *)
(***************************************************************************)
EXTENDS PlanReference

Objects == {1, 2}

step(name, arguments) == [name |-> name, arguments |-> arguments]

Method(task, subtasks, prec) ==
  [ task |-> task, atArguments |-> << >>,
    vars |-> [v \in UNION {Range(x.arguments) : x \in Range(subtasks)} \cup Occurring(prec) |-> Objects],
    subtasks |-> subtasks, ordering |-> {}, prec |-> prec,
    add |-> {}, del |-> {}, distinct |-> {} ]

Both(name)    == <<step(name, << >>), step(name, << >>)>>
PairOfA(task, ordering, prec) ==
  [Method(task, <<step("a", <<"x">>), step("a", <<"y">>)>>, prec) EXCEPT !.ordering = ordering]

(* A plan in which step id of name[id] is decomposed into below[id] by the *)
(* method of that name, and the other steps are action a of object[id]; it *)
(* names the steps of the initial network as its roots.                    *)
Plan(roots, name, below, object, order, methods, init, useOrder) ==
  [ useOrderInformation |-> useOrder, root_tasks |-> roots, primitive_plan |-> order,
    tasks |-> [id \in DOMAIN name |-> step(name[id], << >>)]
                @@ [id \in DOMAIN object |-> step("a", <<object[id]>>)],
    appliedMethod |-> name, subtasksForTask |-> below,
    actions |-> [a |-> [parameters |-> <<"v">>, sorts |-> <<Objects>>, prec |-> {},
                        add |-> {<<"q", "v">>}, del |-> {<<"p", "v">>}]],
    abstract |-> [t \in {methods[m].task : m \in DOMAIN methods} |-> [sorts |-> << >>]],
    methods |-> methods, init |-> init, goal |-> {} ]

(* The same plan with a line of its own for the initial network, step 0.   *)
Listed(p) ==
  [p EXCEPT !.root_tasks = <<0>>, !.tasks = (0 :> step("__top", << >>)) @@ @,
            !.appliedMethod = (0 :> "__top_method") @@ @,
            !.subtasksForTask = (0 :> p.root_tasks) @@ @]

Network(subtasks) == [__top_method |-> Method("__top", subtasks, {})]

Orderings == {{}, {<<1, 2>>}}
Inits     == {{<<"p", 2>>}, {<<"p", 1>>, <<"q", 2>>}}

(* Two steps b and c next to each other, with two actions each.            *)
Pairs ==
  {Listed(Plan(<<1, 2>>, (1 :> "b") @@ (2 :> "c"), (1 :> <<3, 4>>) @@ (2 :> <<5, 6>>),
        (3 :> 1) @@ (4 :> 2) @@ (5 :> 1) @@ (6 :> 2), order,
        [ b |-> PairOfA("b", ob, {<<"p", "x">>}), c |-> PairOfA("c", oc, pc_) ]
          @@ Network(<<step("b", << >>), step("c", << >>)>>), init, useOrder)) :
     order \in SetToSeqs(3 .. 6), ob \in Orderings, oc \in Orderings,
     pc_ \in {{}, {<<"q", "x">>}}, init \in Inits, useOrder \in BOOLEAN}

(* A step b above two steps c, with two actions each.                      *)
Nested ==
  {Plan(<<1>>, (1 :> "b") @@ (2 :> "c") @@ (3 :> "c"),
        (1 :> <<2, 3>>) @@ (2 :> <<4, 5>>) @@ (3 :> <<6, 7>>),
        (4 :> 1) @@ (5 :> 2) @@ (6 :> 1) @@ (7 :> 2), order,
        [ b |-> [Method("b", Both("c"), {}) EXCEPT !.ordering = ob],
          c |-> PairOfA("c", oc, pc_) ] @@ Network(<<step("b", << >>)>>), init, FALSE) :
     order \in {<<4, 5, 6, 7>>, <<4, 6, 7, 5>>, <<6, 5, 4, 7>>}, ob \in Orderings, oc \in Orderings,
     pc_ \in {{<<"q", "x">>}, {<<"p", "x">>, <<"q", "y">>}}, init \in Inits}

(* A method with an argument, and a variable z that no subtask fixes: it   *)
(* is free in the precondition, or bound by a constraint or an effect.     *)
Free ==
  {[Plan(<<1, 2>>, (1 :> "b") @@ (2 :> "b"), (1 :> <<3>>) @@ (2 :> <<4>>),
         (3 :> 1) @@ (4 :> o), order,
         [ b |-> [Method("b", <<step("a", <<"x">>)>>, {<<"p", "z">>}) EXCEPT
                      !.atArguments = <<"x">>, !.distinct = distinct, !.add = add] ]
           @@ Network(<<step("b", <<"x">>), step("b", <<"y">>)>>),
         init, useOrder)
      EXCEPT !.methods.__top_method.ordering = {<<1, 2>>},
             !.tasks[1].arguments = <<1>>, !.tasks[2].arguments = <<arg>>,
             !.abstract.b.sorts = <<Objects>>, !.goal = goal] :
     o \in Objects, arg \in Objects, order \in {<<3, 4>>, <<4, 3>>},
     distinct \in {{}, {<<"x", "z">>}}, add \in {{}, {<<"q", "z">>}}, init \in Inits,
     goal \in {{}, {<<"q", 2>>}}, useOrder \in BOOLEAN}

(* A step b whose method takes the argument x of b in a sort that can be   *)
(* narrower than that of the task, and whose subtask does not mention x;   *)
(* with an argument too many and one too few, and with an action that may  *)
(* need its precondition.                                                  *)
Narrow ==
  {[Plan(<<0>>, (0 :> "b"), (0 :> <<1>>), (1 :> o), <<1>>,
         [b |-> [Method("b", <<step("a", <<"y">>)>>, {}) EXCEPT
                   !.atArguments = <<"x">>, !.vars = ("x" :> sort) @@ @] ]
           @@ Network(<<step("b", <<"z">>)>>), init, FALSE)
      EXCEPT !.tasks[0].arguments = args, !.abstract.b.sorts = <<Objects>>,
             !.actions.a.prec = prec] :
     o \in Objects, sort \in {{1}, {2}, Objects}, prec \in {{}, {<<"p", "v">>}}, init \in Inits,
     args \in {<< >>, <<1>>, <<2>>, <<1, 2>>, <<2, 1>>}}

(* An action, a step that is decomposed into nothing, an action: with the  *)
(* actions the other way round only the derived network is cyclic.  And    *)
(* plans with an argument of no object, too many arguments or too few,     *)
(* with the method of another task, with a step more or fewer below a      *)
(* step, with a step listed twice or of no line, with the wrong root, and  *)
(* of the actions only.                                                    *)
Malformed ==
  LET good(order, init, useOrder) ==
        Plan(<<5, 2, 1>>, (1 :> "b") @@ (2 :> "e"), (1 :> <<3, 4>>) @@ (2 :> << >>),
             (3 :> 1) @@ (4 :> 2) @@ (5 :> 1), order,
             [ __top_method |-> [Method("__top", <<step("a", <<"x">>), step("e", << >>), step("b", << >>)>>, {})
                                   EXCEPT !.ordering = {<<1, 2>>, <<2, 3>>}],
               b |-> PairOfA("b", {}, {<<"q", "x">>}),
               e |-> Method("e", << >>, {}) ], init, useOrder)
      plans == UNION {{good(order, init, useOrder), Listed(good(order, init, useOrder))} :
                        order \in SetToSeqs(3 .. 5), init \in Inits, useOrder \in BOOLEAN}
      more(p) == [p EXCEPT !.tasks = (6 :> step("a", <<1>>)) @@ @,
                           !.primitive_plan = Append(@, 6)]
      actionsOnly(p) == [p EXCEPT !.root_tasks = << >>, !.appliedMethod = << >>,
                           !.subtasksForTask = << >>, !.tasks = Restrict(@, 3 .. 5)]
  IN  plans
      \cup {[p EXCEPT !.tasks[4].arguments = <<3>>] : p \in plans}
      \cup {[p EXCEPT !.tasks[4].arguments = <<2, 3>>, !.tasks[1].arguments = <<2>>] : p \in plans}
      \cup {[p EXCEPT !.tasks[4].arguments = << >>] : p \in plans}
      \cup {[p EXCEPT !.appliedMethod[2] = "b"] : p \in plans}
      \cup {more(p) : p \in plans}
      \cup {[more(p) EXCEPT !.subtasksForTask[1] = <<3, 4, 6>>] : p \in plans}
      \cup {[more(p) EXCEPT !.subtasksForTask[1] = <<3, 4, 3>>, !.subtasksForTask[2] = <<6>>] : p \in plans}
      \cup {[p EXCEPT !.subtasksForTask[1] = <<4>>] : p \in plans}
      \cup {[p EXCEPT !.subtasksForTask[1] = <<3, 4, 9>>] : p \in plans}
      \cup {[p EXCEPT !.root_tasks = <<r>>] : p \in plans, r \in {1, 5, 9}}
      \cup {actionsOnly(p) : p \in plans}

---------------------------------------------------------------------------
(* The matchings the verifier finds in a plan as it prepares it.           *)
ambiguous(M, id) == Cardinality(Range(M[id])) > 1
discards(p, M, id) == ambiguous(M, id) /\ \E c \in Range(M[id]) : badOrdering(p, id, c)

(* Where the order of the actions rules out a matching of one step, no     *)
(* other step can be matched in several ways.                              *)
Settled(plan_) ==
  \E p \in {truncated(withTop(plan_))} :
    tasksAreDeclared(p) =>
      \E M \in {matchingsOf(p)} :
        \A t \in Decomposed(p) :
          discards(p, M, t) => \A u \in Decomposed(p) \ {t} : ~ ambiguous(M, u)

(* The plans on which the verifier is right.                               *)
SettledPlans ==
  {p \in Pairs \cup Free \cup Narrow \cup Malformed : Settled(p)} \cup Nested

(* The others of two steps with two actions each.                          *)
UnsettledPlans == {p \in Pairs : ~ Settled(p)}

(* An initial network of two steps of the same name, whose actions need a  *)
(* precondition.                                                           *)
AmbiguousRoot ==
  {[Plan(<<1, 2>>, << >>, << >>, (1 :> 1) @@ (2 :> object), order,
         Network(<<step("a", <<"x">>), step("a", <<"y">>)>>), init, useOrder)
      EXCEPT !.actions.a.prec = {<<"p", "v">>}] :
     object \in Objects, order \in {<<1, 2>>, <<2, 1>>}, init \in Inits, useOrder \in BOOLEAN}
=============================================================================
