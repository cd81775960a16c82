------------------------------ MODULE MCLmCut -------------------------------
(***************************************************************************)
(* LM-cut on small relaxed problems: one family with all costs, and the    *)
(* relaxed compositions of the HTN problems of WorkshopProblems.           *)
(***************************************************************************)
EXTENDS LmCutPromises, WorkshopProblems

CONSTANT MaxCost    \* bound on the costs of the first family

(* Five actions between five facts; fact 5 is the goal, or 4 and 5 are.    *)
(* Facts are reached in several ways, and some producers of a fact are     *)
(* themselves reached only through it.                                     *)
Diamond(cost, pre4, goal) ==
  [ facts |-> {<<"fact", i>> : i \in 1 .. 5},
    prec  |-> [o \in 0 .. 4 |-> <<  <<fact(1)>>, <<fact(1)>>, <<fact(2), fact(3)>>,
                                    <<fact(4), fact(2)>>, pre4 >>[o + 1]],
    add   |-> [o \in 0 .. 4 |-> << {fact(2)}, {fact(3), fact(4)}, {fact(4)}, {fact(5)},
                                   {fact(5), fact(2), fact(4)} >>[o + 1]],
    cost  |-> cost, s |-> {fact(1)}, g |-> goal,
    htn |-> << >> ]

Diamonds == {Diamond(c, p, g) : c \in [0 .. 4 -> 0 .. MaxCost],
                                p \in {<<fact(3)>>, <<fact(5)>>, <<fact(3), fact(2)>>},
                                g \in {{fact(5)}, {fact(4), fact(5)}}}

(* Fact 2 leads to the goal for nothing; action way reaches it from the    *)
(* state, the other three of the first four only from 3, which comes from  *)
(* 2 itself and so is taken out of the first cut.                          *)
Loop(way, cost) ==
  [ facts |-> {fact(i) : i \in 1 .. 4},
    prec  |-> [o \in 0 .. 5 |-> IF o >= 4 THEN <<fact(2)>>
                                ELSE IF o = way THEN <<fact(1)>> ELSE <<fact(3)>>],
    add   |-> [o \in 0 .. 5 |-> IF o = 4 THEN {fact(4)} ELSE IF o = 5 THEN {fact(3)} ELSE {fact(2)}],
    cost  |-> [o \in 0 .. 5 |-> IF o \in DOMAIN cost THEN cost[o] ELSE 0],
    s |-> {fact(1)}, g |-> {fact(4)}, htn |-> << >> ]

Loops == {Loop(w, c) : w \in 0 .. 3, c \in [0 .. 3 -> 1 .. MaxCost]}

(* The initial task is an action away or a task: a cut has both kinds.     *)
Uneven == Workshop(<<Method(4, <<5, 5>>, {}), Method(4, <<0, 2>>, {<<1, 2>>}),
                     Method(5, <<1>>, {}), Method(5, <<3>>, {})>>, {"p"}, {})

LmCutInstances == Diamonds \cup Loops \cup rcInstances(WorkshopProblems, {"costs"} \X {"lmc"}, 2)
                     \cup rcInstances({Uneven}, {"distance"} \X {"lmc"}, 1)
=============================================================================
