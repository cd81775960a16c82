----------------------------- MODULE TaskGraph ------------------------------
(***************************************************************************)
(* The preprocessing of the task graph in pandaPIengine (Model.cpp), where *)
(* a task leads to the subtasks of its methods: calcSCCs with the          *)
(* recursive tarjan, calcSCCGraph with the tasks reachable from each task, *)
(* calcMinimalImpliedX with lower bounds on what each task implies, and    *)
(* the cyclicity of components that the SAT planner uses.                  *)
(*                                                                         *)
(* The methods and subtasks of a task are visited in any order, and so are *)
(* the components that are ready in calcSCCGraph.                          *)
(***************************************************************************)
EXTENDS HTN, FiniteSetsExt, SequencesExt

CONSTANTS
  Problems,
  Levels      \* bound on the height of the decompositions in the reference

adjacent(h, t) == UNION {Range(h.methods[mi].subs) : mi \in taskToMethods(h, t)}
stToMethod(h, t) == {mi \in Methods(h) : t \in Range(h.methods[mi].subs)}

(* "this works only if there is a single initial task and all tasks are    *)
(* connected to that task" (Model.cpp:2282).                               *)
Connected(h) ==
  \A T \in SUBSET Tasks(h) :
    h.initialTask \in T /\ (\A t \in T : adjacent(h, t) \subseteq T) => T = Tasks(h)

ASSUME TaskGraphAssumption ==
  /\ \A h \in Problems : IsProblem(h) /\ Connected(h)
  /\ Levels \in Nat

VARIABLES
  h,               \* the problem
  lastMaintained,  \* only tasks below this are kept in reachable
  pc,              \* "tarjan", "graph", "reach", "implied", "done"
  frames,          \* call stack of tarjan: the task, and the subtasks to visit
  maxdfs, U, S, dfsI, lowlink,
  numSCCs, taskToSCC,
  sccG,            \* edges between components
  ready, stack,    \* per component, edges not seen yet; those that have none
  reachable,       \* per task with a known set, the tasks reachable from it
  queue,           \* of calcMinimalImpliedX: <<"method" or "task", number>>
  implied,         \* per task the least cost and distance it implies
  impliedM         \* the same per method

tarjanVars  == <<frames, maxdfs, U, S, dfsI, lowlink, numSCCs, taskToSCC>>
reachVars   == <<sccG, ready, stack, reachable>>
impliedVars == <<queue, implied, impliedM>>
vars == <<h, lastMaintained, pc, tarjanVars, reachVars, impliedVars>>

callOf(v) == [v |-> v, rest |-> adjacent(h, v)]
Replace(f, x, y) == [f EXCEPT ![x] = y]

Init ==
  /\ h \in Problems
  /\ lastMaintained \in {h.numActions, h.numTasks}
  /\ pc = "tarjan"
  /\ frames = <<callOf(h.initialTask)>>
  /\ maxdfs = 1
  /\ U = Tasks(h) \ {h.initialTask}
  /\ S = <<h.initialTask>>
  /\ dfsI = [t \in Tasks(h) |-> 0]
  /\ lowlink = [t \in Tasks(h) |-> 0]
  /\ numSCCs = 0
  /\ taskToSCC = [t \in Tasks(h) |-> -1]
  /\ sccG = {} /\ ready = << >> /\ stack = {} /\ reachable = << >>
  /\ queue = << >> /\ implied = << >> /\ impliedM = << >>

-----------------------------------------------------------------------------
(***************************************************************************)
(* tarjan, one visit of a subtask and one return at a time.                *)
(***************************************************************************)
call == Last(frames)

(* Mutant of rest: the loop over the subtasks does not advance.            *)
restUnchanged(v2) == frames

rest(v2) == Append(Front(frames), [call EXCEPT !.rest = @ \ {v2}])

(* Mutant of VisitNew: the task stays in U.                                *)
VisitNewKeepsU(v2) ==
  /\ pc = "tarjan"
  /\ v2 \in call.rest \cap U
  /\ frames' = Append(rest(v2), callOf(v2))
  /\ dfsI' = Replace(dfsI, v2, maxdfs)
  /\ lowlink' = Replace(lowlink, v2, maxdfs)
  /\ maxdfs' = maxdfs + 1
  /\ S' = Append(S, v2)
  /\ UNCHANGED <<h, lastMaintained, pc, U, numSCCs, taskToSCC, reachVars, impliedVars>>

(* A subtask not seen before: the recursive call.                          *)
VisitNew(v2) ==
  /\ pc = "tarjan"
  /\ v2 \in call.rest \cap U
  /\ frames' = Append(rest(v2), callOf(v2))
  /\ dfsI' = Replace(dfsI, v2, maxdfs)
  /\ lowlink' = Replace(lowlink, v2, maxdfs)
  /\ maxdfs' = maxdfs + 1
  /\ S' = Append(S, v2)
  /\ U' = U \ {v2}
  /\ UNCHANGED <<h, lastMaintained, pc, numSCCs, taskToSCC, reachVars, impliedVars>>

(* Mutant of VisitSeen: components that are finished count as well.        *)
VisitSeenAlways(v2) ==
  /\ pc = "tarjan"
  /\ v2 \in call.rest \ U
  /\ frames' = rest(v2)
  /\ lowlink' = Replace(lowlink, call.v, Min({lowlink[call.v], dfsI[v2]}))
  /\ UNCHANGED <<h, lastMaintained, pc, maxdfs, U, S, dfsI, numSCCs, taskToSCC, reachVars,
                 impliedVars>>

VisitSeen(v2) ==
  /\ pc = "tarjan"
  /\ v2 \in call.rest \ U
  /\ frames' = rest(v2)
  /\ lowlink' = IF v2 \in Range(S)
                THEN Replace(lowlink, call.v, Min({lowlink[call.v], dfsI[v2]}))
                ELSE lowlink
  /\ UNCHANGED <<h, lastMaintained, pc, maxdfs, U, S, dfsI, numSCCs, taskToSCC, reachVars,
                 impliedVars>>

(* The task is the root of a component, which is on the stack from here.   *)
Return ==
  LET v      == call.v
      isRoot == lowlink[v] = dfsI[v]
      from   == CHOOSE i \in DOMAIN S : S[i] = v
      popped == {S[i] : i \in {j \in DOMAIN S : j >= from}}
      callers == Front(frames)
      caller == Last(callers).v
  IN  /\ pc = "tarjan"
      /\ call.rest = {}
      /\ S' = IF isRoot THEN SubSeq(S, 1, from - 1) ELSE S
      /\ taskToSCC' = [t \in Tasks(h) |-> IF isRoot /\ t \in popped THEN numSCCs ELSE taskToSCC[t]]
      /\ numSCCs' = IF isRoot THEN numSCCs + 1 ELSE numSCCs
      /\ frames' = callers
      /\ lowlink' = IF callers = << >> THEN lowlink
                    ELSE Replace(lowlink, caller, Min({lowlink[caller], lowlink[v]}))
      /\ pc' = IF callers = << >> THEN "graph" ELSE "tarjan"
      /\ UNCHANGED <<h, lastMaintained, maxdfs, U, dfsI, reachVars, impliedVars>>

-----------------------------------------------------------------------------
SCCs == 0 .. (numSCCs - 1)
sccToTasks(scc) == {t \in Tasks(h) : taskToSCC[t] = scc}

sccGsucc(scc) == {e[2] : e \in {x \in sccG : x[1] = scc}}
sccGpred(scc) == {e[1] : e \in {x \in sccG : x[2] = scc}}

(* Mutant of sccsCyclic: a task that contains itself is overlooked.        *)
sccsCyclicBig == {scc \in SCCs : Cardinality(sccToTasks(scc)) > 1}

(* Components with a cycle; those from which no cycle can be reached, in   *)
(* the order of their numbers (analyseSCCcyclicity).                       *)
sccsCyclic ==
  {scc \in SCCs : \/ Cardinality(sccToTasks(scc)) > 1
                  \/ \E t \in sccToTasks(scc) : t \in adjacent(h, t)}

sccIsAcyclic ==
  FoldLeft(LAMBDA acyclic, i : IF (i - 1) \notin sccsCyclic /\ sccGsucc(i - 1) \subseteq acyclic
                               THEN acyclic \cup {i - 1} ELSE acyclic,
           {}, [i \in 1 .. numSCCs |-> i])

(* constructSCCGraph and the head of calcSCCGraph.                         *)
ConstructSCCGraph ==
  LET edges == {<<taskToSCC[x[1]], taskToSCC[x[2]]>> :
                  x \in {y \in Tasks(h) \X Tasks(h) : y[2] \in adjacent(h, y[1])}}
      graph == {e \in edges : e[1] # e[2]}
  IN  /\ pc = "graph"
      /\ pc' = "reach"
      /\ sccG' = graph
      /\ ready' = [scc \in SCCs |-> Cardinality({e \in graph : e[1] = scc})]
      /\ stack' = {scc \in SCCs : \A e \in graph : e[1] # scc}
      /\ reachable' = [t \in {} |-> {}]
      /\ UNCHANGED <<h, lastMaintained, tarjanVars, impliedVars>>

(* Mutant of below: only the first of the successors is looked at.         *)
belowFirst(scc) ==
  UNION {reachable[CHOOSE t \in sccToTasks(next) : TRUE] :
           next \in {x \in sccGsucc(scc) : \A y \in sccGsucc(scc) : x <= y}}

(* What the successors of a component reach, each asked for one task.      *)
below(scc) == UNION {reachable[CHOOSE t \in sccToTasks(next) : TRUE] : next \in sccGsucc(scc)}

ReachComponent(scc) ==
  LET own     == {t \in sccToTasks(scc) : t < lastMaintained}
      ready_  == [x \in SCCs |-> IF x \in sccGpred(scc) THEN ready[x] - 1 ELSE ready[x]]
  IN  /\ pc = "reach"
      /\ scc \in stack
      /\ reachable' = [t \in DOMAIN reachable \cup sccToTasks(scc) |->
                         IF t \in sccToTasks(scc) THEN own \cup below(scc) ELSE reachable[t]]
      /\ ready' = ready_
      /\ stack' = (stack \ {scc}) \cup {x \in sccGpred(scc) : ready_[x] = 0}
      /\ UNCHANGED <<h, lastMaintained, pc, tarjanVars, sccG, impliedVars>>

EndReach ==
  /\ pc = "reach"
  /\ stack = {}
  /\ pc' = "implied"
  /\ implied' = [t \in Tasks(h) |-> IF isPrimitive(h, t) THEN [costs |-> h.cost[t], distance |-> 1]
                                    ELSE [costs |-> 0, distance |-> 0]]
  /\ impliedM' = [mi \in Methods(h) |-> [costs |-> 0, distance |-> 0]]
  /\ queue' = FlattenSeq([i \in 1 .. h.numActions |->
                            SetToSeq({"method"} \X stToMethod(h, i - 1))])
  /\ UNCHANGED <<h, lastMaintained, tarjanVars, reachVars>>

-----------------------------------------------------------------------------
(***************************************************************************)
(* calcMinimalImpliedX: methods sum up over their subtasks, tasks take the *)
(* least of their methods; what changed wakes what depends on it.          *)
(***************************************************************************)
sumOverSubtasks(mi) ==
  LET subs     == h.methods[mi].subs
      costs    == [i \in DOMAIN subs |-> implied[subs[i]].costs]
      distance == [i \in DOMAIN subs |-> implied[subs[i]].distance]
  IN  [ costs    |-> MapThenSumSet(LAMBDA i : costs[i], DOMAIN subs),
        distance |-> 1 + MapThenSumSet(LAMBDA i : distance[i], DOMAIN subs) ]

(* Mutant of leastOfMethods: a task takes the greatest.                    *)
greatestOfMethods(t) ==
  [ costs |-> Max({impliedM[mi].costs : mi \in taskToMethods(h, t)}),
    distance |-> Max({impliedM[mi].distance : mi \in taskToMethods(h, t)}) ]

leastOfMethods(t) ==
  [ costs |-> Min({impliedM[mi].costs : mi \in taskToMethods(h, t)}),
    distance |-> Min({impliedM[mi].distance : mi \in taskToMethods(h, t)}) ]

UpdateMethod ==
  LET mi  == Head(queue)[2]
      new == sumOverSubtasks(mi)
  IN  /\ pc = "implied"
      /\ queue # << >>
      /\ Head(queue)[1] = "method"
      /\ impliedM' = Replace(impliedM, mi, new)
      /\ queue' = IF new = impliedM[mi] THEN Tail(queue)
                  ELSE Append(Tail(queue), <<"task", h.methods[mi].task>>)
      /\ UNCHANGED <<h, lastMaintained, pc, tarjanVars, reachVars, implied>>

UpdateTask ==
  LET t   == Head(queue)[2]
      new == leastOfMethods(t)
  IN  /\ pc = "implied"
      /\ queue # << >>
      /\ Head(queue)[1] = "task"
      /\ implied' = Replace(implied, t, new)
      /\ queue' = IF new = implied[t] THEN Tail(queue)
                  ELSE Tail(queue) \o SetToSeq({"method"} \X stToMethod(h, t))
      /\ UNCHANGED <<h, lastMaintained, pc, tarjanVars, reachVars, impliedM>>

EndImplied ==
  /\ pc = "implied"
  /\ queue = << >>
  /\ pc' = "done"
  /\ UNCHANGED <<h, lastMaintained, tarjanVars, reachVars, impliedVars>>

Terminating == pc = "done" /\ UNCHANGED vars

Next ==
  \/ \E v2 \in Tasks(h) : pc = "tarjan" /\ (VisitNew(v2) \/ VisitSeen(v2))
  \/ Return
  \/ ConstructSCCGraph
  \/ \E scc \in stack : ReachComponent(scc)
  \/ EndReach
  \/ UpdateMethod
  \/ UpdateTask
  \/ EndImplied
  \/ Terminating

(* One call after the other, in one thread.                                *)
Spec == Init /\ [][Next]_vars /\ WF_vars(Next)

-----------------------------------------------------------------------------
(***************************************************************************)
(* Properties.                                                             *)
(***************************************************************************)
TypeOK ==
  /\ frames \in Seq([v : Tasks(h), rest : SUBSET Tasks(h)])
  /\ U \subseteq Tasks(h) /\ S \in Seq(Tasks(h) \ U)
  /\ dfsI \in [Tasks(h) -> Nat] /\ lowlink \in [Tasks(h) -> Nat]
  /\ numSCCs \in Nat
  /\ \A t \in Tasks(h) : taskToSCC[t] \in SCCs \cup {-1}
  /\ sccG \subseteq SCCs \X SCCs
  /\ pc \in {"reach", "implied", "done"} => ready \in [SCCs -> Nat]
  /\ stack \subseteq SCCs
  /\ DOMAIN reachable \subseteq Tasks(h)

(* The tasks that a task reaches, by the definition: it is in every closed *)
(* set of tasks that contains the first.                                   *)
Closed(T) == \A t \in T : adjacent(h, t) \subseteq T
reaches(t, u) == \A T \in SUBSET Tasks(h) : t \in T /\ Closed(T) => u \in T

Finished == pc \notin {"tarjan", "graph"}

(* Components are the classes of mutual reachability.  tarjan tells them   *)
(* by two numberings and a stack that only it keeps (Model.cpp:2355-2390). *)
ComponentsExact ==
  pc = "graph" =>
    \A t, u \in Tasks(h) : taskToSCC[t] = taskToSCC[u] <=> reaches(t, u) /\ reaches(u, t)

(* The numbers of the components are a reverse topological order, on which *)
(* the loop of analyseSCCcyclicity relies without saying so                *)
(* (Model.cpp:2497-2502), so it finds the tasks that have no cycle below.  *)
AcyclicityExact ==
  pc = "done" =>
    /\ \A e \in sccG : e[2] < e[1]
    /\ \A t \in Tasks(h) :
         taskToSCC[t] \in sccIsAcyclic <=>
           ~ \E u \in Tasks(h) : reaches(t, u) /\ \E x \in adjacent(h, u) : reaches(x, u)

(* Every task gets its set, no component before those below it, and it is  *)
(* the set of maintained tasks reachable from it (Model.cpp:2540-2576,     *)
(* the assertions there included).                                         *)
ReachableExact ==
  pc = "implied" =>
    /\ DOMAIN reachable = Tasks(h)
    /\ \A t \in Tasks(h) : reachable[t] = {u \in Tasks(h) : u < lastMaintained /\ reaches(t, u)}
    /\ \A scc \in SCCs : ready[scc] = 0

(* What complete decompositions of the tasks cost, in actions and in steps.*)
(* They are trees with a method at each node and actions for leaves; a     *)
(* round adds those that are one level higher.                             *)
actionTrees(p) ==
  [t \in Tasks(p) |-> IF isPrimitive(p, t) THEN {[costs |-> p.cost[t], distance |-> 1]} ELSE {}]

joined(x) ==
  LET costs    == [i \in DOMAIN x |-> x[i].costs]
      distance == [i \in DOMAIN x |-> x[i].distance]
  IN  [ costs    |-> MapThenSumSet(LAMBDA i : costs[i], DOMAIN x),
        distance |-> 1 + MapThenSumSet(LAMBDA i : distance[i], DOMAIN x) ]

treesOfMethod(p, mi, trees) ==
  LET subs == p.methods[mi].subs
  IN  {joined(x) : x \in {y \in [DOMAIN subs -> UNION Range(trees)] :
                            \A i \in DOMAIN subs : y[i] \in trees[subs[i]]}}

higher(p, trees) ==
  [t \in Tasks(p) |-> trees[t] \cup UNION {treesOfMethod(p, mi, trees) : mi \in taskToMethods(p, t)}]

decompositions(p) == FoldSet(LAMBDA round, trees : higher(p, trees), actionTrees(p), 1 .. Levels)

(* What a task is said to imply is never more than what a complete         *)
(* decomposition of it costs, in actions and in steps, in the middle of    *)
(* the calculation as at its end.  The values are added to the heuristic   *)
(* for every further occurrence of a task (Model.cpp:2719-2766,            *)
(* hhRC2.h:238-241).                                                       *)
atMost(x, y) == x.costs <= y.costs /\ x.distance <= y.distance

ImpliedIsLowerBound ==
  pc \in {"implied", "done"} =>
    LET trees == decompositions(h)
    IN  \A t \in Tasks(h) : \A x \in trees[t] : atMost(implied[t], x)

(* The preprocessing ends, for problems in which every task can be         *)
(* decomposed completely: the values of the worklist rise, but not above   *)
(* what some complete decomposition costs.                                 *)
Termination == <>(pc = "done")
=============================================================================
