---------------------------- MODULE MCNodeMemory ----------------------------
(***************************************************************************)
(* Small problems for model checking the memory of search nodes: methods   *)
(* with a shared successor, two last tasks, nested methods in front of a   *)
(* successor.  Tasks: actions 0, 1; abstract tasks 2 (initial) and 3.      *)
(***************************************************************************)
EXTENDS NodeMemory, TLC

Method(t, subs, ord) == [task |-> t, subs |-> subs, ord |-> ord]

Free(methods) ==
  [ numActions |-> 2, numTasks |-> 4,
    prec |-> (0 :> {}    @@ 1 :> {"p"}),
    add  |-> (0 :> {"p"} @@ 1 :> {}),
    del  |-> (0 :> {}    @@ 1 :> {}),
    cost |-> (0 :> 1     @@ 1 :> 0),
    methods |-> methods, s0 |-> {}, goal |-> {}, initialTask |-> 2 ]

SharingProblems ==
  {Free(<<Method(2, m[1], m[2]), Method(3, <<0, 1>>, {}), Method(3, <<0>>, {})>>) :
     m \in {<<<<3, 0, 1>>, {<<1, 3>>, <<2, 3>>}>>, <<<<3, 1, 0>>, {<<1, 2>>, <<1, 3>>}>>}}
=============================================================================
