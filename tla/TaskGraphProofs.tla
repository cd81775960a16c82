--------------------------- MODULE TaskGraphProofs ---------------------------
(***************************************************************************)
(* Proofs about the task graph: for every problem whose tasks are          *)
(* connected to the initial one, and every order in which subtasks and     *)
(* components are visited, tarjan finds the components and numbers them    *)
(* against the edges, the loop that relies on that finds the tasks with no *)
(* cycle below them, and each task gets the set of tasks it reaches.       *)
(***************************************************************************)
EXTENDS TaskGraph, IterationProofs

(* The tasks a task reaches, as a set.                                     *)
closedIn(g, T) == \A t \in T : adjacent(g, t) \subseteq T
reach(g, t)    == {u \in Tasks(g) : \A T \in SUBSET Tasks(g) : t \in T /\ closedIn(g, T) => u \in T}

(* tarjan: the tasks with a frame, what is left to visit of each of them,  *)
(* and the tasks that have their component.                                *)
activeOf(q)     == {q[i].v : i \in DOMAIN q}
pendingOf(q, y) == UNION {q[i].rest : i \in {j \in DOMAIN q : q[j].v = y}}
inOrder(q, d)   == \A i, j \in DOMAIN q : i < j => d[q[i].v] < d[q[j].v]

onStack    == Range(S)
active     == activeOf(frames)
pending(y) == pendingOf(frames, y)
numbered   == {t \in Tasks(h) : taskToSCC[t] # -1}

Frames == [v : Tasks(h), rest : SUBSET Tasks(h)]

TarjanType ==
  /\ frames \in Seq(Frames) /\ frames # << >>
  /\ U \subseteq Tasks(h) /\ S \in Seq(Tasks(h))
  /\ maxdfs \in Nat /\ dfsI \in [Tasks(h) -> Nat] /\ lowlink \in [Tasks(h) -> Nat]

(* Stack and frames are in the order in which tasks were first visited,    *)
(* and every task is new, on the stack or in a component.                  *)
Numbering ==
  /\ \A i, j \in DOMAIN S : i < j => dfsI[S[i]] < dfsI[S[j]]
  /\ inOrder(frames, dfsI)
  /\ \A t \in Tasks(h) \ U : dfsI[t] < maxdfs
  /\ active \subseteq onStack
  /\ U \cap numbered = {}
  /\ onStack = Tasks(h) \ (U \cup numbered)

(* Tasks on the stack reach those above them, and each reaches one that    *)
(* still has a frame and is not above it.                                  *)
Paths ==
  /\ \A x, y \in onStack : dfsI[x] <= dfsI[y] => y \in reach(h, x)
  /\ \A y \in onStack : \E x \in active : dfsI[x] <= dfsI[y] /\ x \in reach(h, y)

(* Edges that were seen do not lead to new tasks.                          *)
SeenEdges ==
  /\ \A y \in Tasks(h) \ U : adjacent(h, y) \ pending(y) \subseteq Tasks(h) \ U
  /\ \A y \in active : pending(y) \subseteq adjacent(h, y)

(* A lowlink is the number of a task on the stack that can be reached, and *)
(* no edge seen from a task above a frame leads to a task on the stack     *)
(* below the lowlinks of the frames from there on.                         *)
LowlinkReached ==
  \A t \in onStack : /\ lowlink[t] <= dfsI[t]
                     /\ \E u \in onStack : dfsI[u] = lowlink[t] /\ u \in reach(h, t)

LowlinkLeast ==
  \A v \in active : \A y, w \in onStack :
    w \in adjacent(h, y) \ pending(y) /\ dfsI[v] <= dfsI[y] =>
      \E x \in active : dfsI[v] <= dfsI[x] /\ lowlink[x] <= dfsI[w]

(* Components are classes of mutual reachability, closed, and numbered so  *)
(* that no edge leads to a greater number.                                 *)
ComponentsInv ==
  /\ numSCCs \in Nat
  /\ taskToSCC \in [Tasks(h) -> SCCs \cup {-1}]
  /\ \A scc \in SCCs : sccToTasks(scc) # {}
  /\ \A t \in numbered : \A u \in adjacent(h, t) : u \in numbered /\ taskToSCC[u] <= taskToSCC[t]
  /\ \A t, u \in numbered :
       taskToSCC[t] = taskToSCC[u] <=> u \in reach(h, t) /\ t \in reach(h, u)

TarjanInv ==
  TarjanType /\ Numbering /\ Paths /\ SeenEdges /\ LowlinkReached /\ LowlinkLeast

(* The components below one that have no sets yet.                         *)
known(scc)     == sccToTasks(scc) \cap DOMAIN reachable # {}
openSuccs(scc) == {x \in sccGsucc(scc) : ~ known(x)}

GraphInv ==
  sccG = {e \in SCCs \X SCCs : /\ e[1] # e[2]
                               /\ \E t \in sccToTasks(e[1]), u \in sccToTasks(e[2]) : u \in adjacent(h, t)}

(* The counters count components below that have no sets, and a component  *)
(* waits as long as it counts one.                                         *)
ReachInv ==
  /\ ready \in [SCCs -> Nat]
  /\ \A scc \in SCCs : ready[scc] = Cardinality(openSuccs(scc))
  /\ stack \subseteq SCCs
  /\ \A scc \in SCCs : scc \in stack <=> ready[scc] = 0 /\ ~ known(scc)
  /\ \A scc \in SCCs : known(scc) => ready[scc] = 0 /\ sccToTasks(scc) \subseteq DOMAIN reachable
  /\ DOMAIN reachable \subseteq Tasks(h)
  /\ \A t \in DOMAIN reachable : reachable[t] = {u \in reach(h, t) : u < lastMaintained}

IInv ==
  /\ h \in Problems
  /\ pc \in {"tarjan", "graph", "reach", "implied", "done"}
  /\ ComponentsInv
  /\ pc = "tarjan" => TarjanInv /\ h.initialTask \notin U
  /\ pc # "tarjan" => numbered = Tasks(h)
  /\ pc \in {"reach", "implied", "done"} => GraphInv /\ ReachInv
  /\ pc \in {"implied", "done"} => stack = {}
-----------------------------------------------------------------------------
LEMMA ProblemFacts ==
  ASSUME h \in Problems
  PROVE  /\ Tasks(h) \subseteq Nat /\ IsFiniteSet(Tasks(h)) /\ h.initialTask \in Tasks(h)
         /\ \A t : adjacent(h, t) \subseteq Tasks(h)
         /\ \A T \in SUBSET Tasks(h) : h.initialTask \in T /\ closedIn(h, T) => T = Tasks(h)
<1>1. IsProblem(h) /\ Connected(h)
  BY TaskGraphAssumption
<1>2. h.numTasks \in Nat /\ h.initialTask \in Tasks(h)
  BY <1>1 DEF IsProblem
<1>3. Tasks(h) \subseteq Nat /\ IsFiniteSet(Tasks(h))
  <2>1. Tasks(h) = 0 .. h.numTasks - 1 /\ 0 \in Int /\ h.numTasks - 1 \in Int
    BY <1>2 DEF Tasks
  <2>2. IsFiniteSet(0 .. h.numTasks - 1)
    <3>1. \A a, b \in Int : IsFiniteSet(a .. b)
      BY FS_Interval
    <3> QED
      BY <2>1, <3>1
  <2>3. 0 .. h.numTasks - 1 \subseteq Nat
    BY <2>1
  <2> QED
    BY <2>1, <2>2, <2>3
<1>4. ASSUME NEW mi \in Methods(h) PROVE Range(h.methods[mi].subs) \subseteq Tasks(h)
  <2>1. h.methods[mi].subs \in Seq(Tasks(h))
    BY <1>1, <1>4 DEF IsProblem, IsMethod
  <2> QED
    BY <2>1 DEF Range
<1>5. \A t : adjacent(h, t) \subseteq Tasks(h)
  BY <1>4 DEF adjacent, taskToMethods
<1> QED
  BY <1>1, <1>2, <1>3, <1>5 DEF Connected, closedIn

(* Reachability is reflexive and transitive, contains the edges, and is    *)
(* the least such relation.                                                *)
LEMMA ReachFacts ==
  ASSUME NEW g, \A t : adjacent(g, t) \subseteq Tasks(g)
  PROVE  /\ \A t : reach(g, t) \subseteq Tasks(g)
         /\ \A t \in Tasks(g) : t \in reach(g, t)
         /\ \A t \in Tasks(g) : adjacent(g, t) \subseteq reach(g, t)
         /\ \A t, u \in Tasks(g) : u \in reach(g, t) => reach(g, u) \subseteq reach(g, t)
         /\ \A T \in SUBSET Tasks(g) : \A t \in T : closedIn(g, T) => reach(g, t) \subseteq T
<1>1. \A t : reach(g, t) \subseteq Tasks(g)
  BY DEF reach
<1>2. \A t \in Tasks(g) : t \in reach(g, t)
  BY DEF reach
<1>3. \A T \in SUBSET Tasks(g) : \A t \in T : closedIn(g, T) => reach(g, t) \subseteq T
  BY DEF reach
<1>4. ASSUME NEW t \in Tasks(g), NEW u \in reach(g, t), NEW x \in adjacent(g, u)
      PROVE  x \in reach(g, t)
  <2>1. x \in Tasks(g)
    BY <1>4
  <2>2. ASSUME NEW T \in SUBSET Tasks(g), t \in T, closedIn(g, T) PROVE x \in T
    BY <1>4, <2>2 DEF reach, closedIn
  <2> QED
    BY <2>1, <2>2 DEF reach
<1>5. \A t \in Tasks(g) : closedIn(g, reach(g, t))
  BY <1>4 DEF closedIn
<1> QED
  BY <1>1, <1>2, <1>3, <1>4, <1>5

LEMMA Reaches ==
  ASSUME h \in Problems
  PROVE  \A t, u \in Tasks(h) : reaches(t, u) <=> u \in reach(h, t)
  BY DEF reaches, reach, Closed, closedIn

(* A task reaches itself and what its subtasks reach.                      *)
LEMMA ReachUnfolds ==
  ASSUME h \in Problems, NEW t \in Tasks(h)
  PROVE  reach(h, t) = {t} \cup UNION {reach(h, x) : x \in adjacent(h, t)}
<1> DEFINE T == {t} \cup UNION {reach(h, x) : x \in adjacent(h, t)}
<1>1. \A x : adjacent(h, x) \subseteq Tasks(h)
  BY ProblemFacts
<1>2. T \subseteq reach(h, t) /\ T \subseteq Tasks(h)
  BY <1>1, ReachFacts
<1>3. closedIn(h, T)
  <2>1. ASSUME NEW x \in adjacent(h, t), NEW u \in reach(h, x) PROVE adjacent(h, u) \subseteq reach(h, x)
    <3>1. x \in Tasks(h) /\ u \in Tasks(h)
      BY <1>1, <2>1, ReachFacts
    <3> QED
      BY <1>1, <2>1, <3>1, ReachFacts
  <2>2. \A x \in adjacent(h, t) : x \in reach(h, x)
    BY <1>1, ReachFacts
  <2> QED
    BY <2>1, <2>2 DEF closedIn
<1> HIDE DEF T
<1>4. t \in T
  BY DEF T
<1>5. reach(h, t) \subseteq T
  BY <1>1, <1>2, <1>3, <1>4, ReachFacts
<1> QED
  BY <1>2, <1>5 DEF T
-----------------------------------------------------------------------------
(* Pushing a frame.                                                        *)
LEMMA FramePushed ==
  ASSUME NEW q \in Seq(Frames), NEW e \in Frames
  PROVE  /\ activeOf(Append(q, e)) = activeOf(q) \cup {e.v}
         /\ \A y : pendingOf(Append(q, e), y) = pendingOf(q, y) \cup (IF y = e.v THEN e.rest ELSE {})
         /\ \A y : y \notin activeOf(q) => pendingOf(q, y) = {}
         /\ \A d : inOrder(Append(q, e), d) <=>
                    inOrder(q, d) /\ \A x \in activeOf(q) : d[x] < d[e.v]
         /\ q = << >> <=> activeOf(q) = {}
<1> DEFINE r == Append(q, e)
           n == Len(q)
<1>1. /\ n \in Nat /\ DOMAIN q = 1 .. n /\ DOMAIN r = 1 .. n + 1
      /\ \A i \in 1 .. n : r[i] = q[i]
      /\ r[n + 1] = e
  OBVIOUS
<1>2. 1 .. n + 1 = (1 .. n) \cup {n + 1}
  BY <1>1
<1>3. /\ \A i \in 1 .. n : i < n + 1
      /\ \A i \in 1 .. n + 1 : ~ (n + 1 < i)
  BY <1>1
<1>4. DOMAIN r = DOMAIN q \cup {n + 1} /\ n + 1 \notin DOMAIN q
  BY <1>1, <1>2
<1>5. (\A i \in DOMAIN q : r[i] = q[i]) /\ (q = << >> <=> n = 0)
  BY <1>1
<1> HIDE DEF r, n
<1>6. activeOf(r) = activeOf(q) \cup {e.v}
  BY <1>1, <1>4, <1>5 DEF activeOf
<1>7. ASSUME NEW y PROVE pendingOf(r, y) = pendingOf(q, y) \cup (IF y = e.v THEN e.rest ELSE {})
  BY <1>1, <1>4, <1>5 DEF pendingOf
<1>8. ASSUME NEW d PROVE inOrder(r, d) <=> inOrder(q, d) /\ \A x \in activeOf(q) : d[x] < d[e.v]
  <2>1. ASSUME inOrder(r, d) PROVE inOrder(q, d)
    BY <1>4, <1>5, <2>1 DEF inOrder
  <2>2. ASSUME inOrder(r, d) PROVE \A i \in DOMAIN q : d[q[i].v] < d[e.v]
    BY <1>1, <1>3, <1>4, <1>5, <2>2 DEF inOrder
  <2>3. ASSUME inOrder(q, d), \A i \in DOMAIN q : d[q[i].v] < d[e.v] PROVE inOrder(r, d)
    <3>1. SUFFICES ASSUME NEW i \in DOMAIN r, NEW j \in DOMAIN r, i < j
                   PROVE  d[r[i].v] < d[r[j].v]
      BY DEF inOrder
    <3>2. i \in DOMAIN q
      BY <1>1, <1>3, <1>4, <3>1
    <3> QED
      BY <1>1, <1>4, <1>5, <2>3, <3>1, <3>2 DEF inOrder
  <2> QED
    BY <2>1, <2>2, <2>3 DEF activeOf
<1>9. q = << >> <=> activeOf(q) = {}
  <2>1. n = 0 <=> DOMAIN q = {}
    BY <1>1
  <2> QED
    BY <1>5, <2>1 DEF activeOf
<1>10. \A y : y \notin activeOf(q) => pendingOf(q, y) = {}
  BY DEF activeOf, pendingOf
<1> QED
  BY <1>6, <1>7, <1>8, <1>9, <1>10 DEF r

(* The frame in hand is the last.                                          *)
LEMMA TopFrame ==
  ASSUME TarjanType, Numbering
  PROVE  /\ Front(frames) \in Seq(Frames) /\ call \in Frames
         /\ active = activeOf(Front(frames)) \cup {call.v}
         /\ pending(call.v) = call.rest /\ pendingOf(Front(frames), call.v) = {}
         /\ \A y : y # call.v => pending(y) = pendingOf(Front(frames), y)
         /\ \A y : y \notin active => pending(y) = {}
         /\ inOrder(Front(frames), dfsI)
         /\ \A x \in activeOf(Front(frames)) : dfsI[x] < dfsI[call.v]
         /\ call.v \notin activeOf(Front(frames))
         /\ active \subseteq onStack /\ onStack \subseteq Tasks(h)
         /\ \A x \in onStack : dfsI[x] \in Nat
<1> DEFINE q == Front(frames)
<1>1. q \in Seq(Frames) /\ call \in Frames /\ frames = Append(q, call)
  BY DEF TarjanType, Front, Last, call
<1>2. active \subseteq onStack /\ onStack \subseteq Tasks(h) /\ \A x \in onStack : dfsI[x] \in Nat
  BY DEF TarjanType, Numbering
<1> HIDE DEF q
<1>3. /\ active = activeOf(q) \cup {call.v}
      /\ \A y : pending(y) = pendingOf(q, y) \cup (IF y = call.v THEN call.rest ELSE {})
      /\ \A y : y \notin activeOf(q) => pendingOf(q, y) = {}
      /\ inOrder(frames, dfsI) <=> inOrder(q, dfsI) /\ \A x \in activeOf(q) : dfsI[x] < dfsI[call.v]
  BY <1>1, FramePushed DEF active, pending
<1>4. inOrder(q, dfsI) /\ \A x \in activeOf(q) : dfsI[x] < dfsI[call.v]
  BY <1>3 DEF Numbering
<1>5. dfsI[call.v] \in Nat
  BY <1>2, <1>3
<1>6. call.v \notin activeOf(q)
  BY <1>4, <1>5
<1> QED
  BY <1>1, <1>2, <1>3, <1>4, <1>6 DEF q

LEMMA MinOfTwo ==
  ASSUME NEW a \in Nat, NEW b \in Nat
  PROVE  Min({a, b}) \in {a, b} /\ Min({a, b}) <= a /\ Min({a, b}) <= b
<1>1. Min({a, b}) = IF a <= b THEN a ELSE b
  BY DEF Min
<1> QED
  BY <1>1

LEMMA StackFacts ==
  ASSUME IInv, TarjanInv
  PROVE  /\ \A t : adjacent(h, t) \subseteq Tasks(h) /\ reach(h, t) \subseteq Tasks(h)
         /\ \A t \in Tasks(h) : t \in reach(h, t) /\ adjacent(h, t) \subseteq reach(h, t)
         /\ \A t, u \in Tasks(h) : u \in reach(h, t) => reach(h, u) \subseteq reach(h, t)
         /\ \A y \in onStack : call.v \in reach(h, y)
         /\ active \subseteq onStack /\ onStack \subseteq Tasks(h)
         /\ call.v \in onStack /\ call.v \in Tasks(h) \ U
<1>1. /\ \A t : adjacent(h, t) \subseteq Tasks(h) /\ reach(h, t) \subseteq Tasks(h)
      /\ \A t \in Tasks(h) : t \in reach(h, t) /\ adjacent(h, t) \subseteq reach(h, t)
      /\ \A t, u \in Tasks(h) : u \in reach(h, t) => reach(h, u) \subseteq reach(h, t)
  <2>1. \A t : adjacent(h, t) \subseteq Tasks(h)
    BY ProblemFacts DEF IInv
  <2> QED
    BY <2>1, ReachFacts
<1>2. /\ active \subseteq onStack /\ onStack \subseteq Tasks(h) /\ call.v \in active
      /\ \A x \in active : dfsI[x] <= dfsI[call.v]
      /\ onStack \cap U = {}
  <2>1. /\ active \subseteq onStack /\ onStack \subseteq Tasks(h) /\ call.v \in active
        /\ \A x \in active : x = call.v \/ dfsI[x] < dfsI[call.v]
        /\ \A x \in onStack : dfsI[x] \in Nat
    BY TopFrame DEF TarjanInv
  <2> QED
    BY <2>1 DEF TarjanInv, Numbering
<1>3. ASSUME NEW y \in onStack PROVE call.v \in reach(h, y)
  <2>1. PICK x \in active : x \in reach(h, y)
    BY <1>3 DEF TarjanInv, Paths
  <2>2. call.v \in reach(h, x)
    BY <1>2 DEF TarjanInv, Paths
  <2> QED
    BY <1>1, <1>2, <2>1, <2>2
<1> QED
  BY <1>1, <1>2, <1>3

LEMMA SameNumbers == ASSUME h' = h, taskToSCC' = taskToSCC PROVE numbered' = numbered
  BY DEF numbered

(* A subtask less to visit.                                                *)
LEMMA RestFacts ==
  ASSUME TarjanType, Numbering, NEW w
  PROVE  /\ rest(w) \in Seq(Frames) /\ rest(w) # << >> /\ activeOf(rest(w)) = active
         /\ \A y : pendingOf(rest(w), y) = IF y = call.v THEN pending(y) \ {w} ELSE pending(y)
         /\ \A d : (\A x \in active : d[x] = dfsI[x]) => inOrder(rest(w), d)
<1> DEFINE q == Front(frames)
           c == [call EXCEPT !.rest = @ \ {w}]
<1>1. q \in Seq(Frames) /\ call \in Frames
  BY TopFrame
<1>2. c \in Frames /\ c.v = call.v /\ c.rest = call.rest \ {w}
  BY <1>1 DEF Frames
<1>3. rest(w) = Append(q, c)
  BY DEF rest
<1>4. /\ active = activeOf(q) \cup {call.v} /\ call.v \notin activeOf(q)
      /\ pending(call.v) = call.rest /\ pendingOf(q, call.v) = {}
      /\ \A y : y # call.v => pending(y) = pendingOf(q, y)
      /\ inOrder(q, dfsI) /\ \A x \in activeOf(q) : dfsI[x] < dfsI[call.v]
  BY TopFrame
<1> HIDE DEF q, c
<1>5. rest(w) \in Seq(Frames) /\ rest(w) # << >>
  BY <1>1, <1>2, <1>3
<1>6. /\ activeOf(rest(w)) = activeOf(q) \cup {call.v}
      /\ \A y : pendingOf(rest(w), y) = pendingOf(q, y) \cup (IF y = call.v THEN call.rest \ {w} ELSE {})
      /\ \A d : inOrder(rest(w), d) <=> inOrder(q, d) /\ \A x \in activeOf(q) : d[x] < d[call.v]
  BY <1>1, <1>2, <1>3, FramePushed
<1>7. ASSUME NEW y
      PROVE  pendingOf(rest(w), y) = IF y = call.v THEN pending(y) \ {w} ELSE pending(y)
  <2>1. CASE y = call.v
    BY <1>4, <1>6, <2>1
  <2>2. CASE y # call.v
    BY <1>4, <1>6, <2>2
  <2> QED
    BY <2>1, <2>2
<1>8. ASSUME NEW d, \A x \in active : d[x] = dfsI[x] PROVE inOrder(rest(w), d)
  <2>1. \A x \in activeOf(q) : d[x] = dfsI[x]
    BY <1>4, <1>8
  <2>2. inOrder(q, d)
    BY <1>4, <2>1 DEF inOrder, activeOf
  <2> QED
    BY <1>4, <1>6, <1>8, <2>2
<1> QED
  BY <1>4, <1>5, <1>6, <1>7, <1>8

(* A subtask not seen before gets the greatest number and the last frame.  *)
LEMMA VisitNewFacts ==
  ASSUME IInv, TarjanInv, NEW w \in Tasks(h), VisitNew(w)
  PROVE  /\ h' = h /\ pc' = pc /\ numbered' = numbered /\ w \in U
         /\ w \in adjacent(h, call.v)
         /\ active' = active \cup {w} /\ w \notin onStack
         /\ onStack' = onStack \cup {w} /\ U' = U \ {w}
         /\ \A y \in Tasks(h) : pending(y)' = IF y = w THEN adjacent(h, w)
                                             ELSE IF y = call.v THEN pending(y) \ {w} ELSE pending(y)
         /\ \A y \in Tasks(h) : /\ dfsI'[y] = IF y = w THEN maxdfs ELSE dfsI[y]
                                /\ lowlink'[y] = IF y = w THEN maxdfs ELSE lowlink[y]
         /\ \A y \in onStack : dfsI[y] < maxdfs
         /\ TarjanType' /\ inOrder(frames', dfsI')
         /\ \A i, j \in DOMAIN S' : i < j => dfsI'[S'[i]] < dfsI'[S'[j]]
<1>0. TarjanType /\ Numbering
  BY DEF TarjanInv
<1>1. /\ h' = h /\ pc' = pc /\ taskToSCC' = taskToSCC /\ w \in call.rest /\ w \in U
      /\ frames' = Append(rest(w), callOf(w)) /\ S' = Append(S, w) /\ U' = U \ {w}
      /\ dfsI' = Replace(dfsI, w, maxdfs) /\ lowlink' = Replace(lowlink, w, maxdfs)
      /\ maxdfs' = maxdfs + 1
  BY DEF VisitNew
<1>2. /\ w \in adjacent(h, call.v) /\ w \notin onStack /\ w # call.v
      /\ \A y \in onStack : dfsI[y] < maxdfs
  BY <1>0, <1>1, TopFrame, StackFacts DEF TarjanInv, SeenEdges, Numbering
<1>3. /\ dfsI' \in [Tasks(h) -> Nat] /\ lowlink' \in [Tasks(h) -> Nat] /\ maxdfs' \in Nat
      /\ \A y \in Tasks(h) : /\ dfsI'[y] = IF y = w THEN maxdfs ELSE dfsI[y]
                             /\ lowlink'[y] = IF y = w THEN maxdfs ELSE lowlink[y]
  BY <1>0, <1>1 DEF TarjanType, Replace
<1>4. /\ callOf(w) \in Frames /\ callOf(w).v = w /\ callOf(w).rest = adjacent(h, w)
  BY StackFacts DEF callOf, Frames
<1>5. /\ rest(w) \in Seq(Frames) /\ activeOf(rest(w)) = active
      /\ \A y : pendingOf(rest(w), y) = IF y = call.v THEN pending(y) \ {w} ELSE pending(y)
      /\ \A d : (\A x \in active : d[x] = dfsI[x]) => inOrder(rest(w), d)
  BY <1>0, RestFacts
<1>7. /\ activeOf(frames') = activeOf(rest(w)) \cup {w}
      /\ \A y : pendingOf(frames', y) = pendingOf(rest(w), y) \cup (IF y = w THEN adjacent(h, w) ELSE {})
      /\ \A y : y \notin activeOf(rest(w)) => pendingOf(rest(w), y) = {}
      /\ \A d : inOrder(frames', d) <=> inOrder(rest(w), d) /\ \A x \in activeOf(rest(w)) : d[x] < d[w]
  <2> DEFINE r == rest(w)
             e == callOf(w)
  <2> HIDE DEF r, e
  <2>1. r \in Seq(Frames) /\ e \in Frames
    BY <1>4, <1>5 DEF r, e
  <2>2. /\ activeOf(Append(r, e)) = activeOf(r) \cup {e.v}
        /\ \A y : pendingOf(Append(r, e), y) = pendingOf(r, y) \cup (IF y = e.v THEN e.rest ELSE {})
        /\ \A y : y \notin activeOf(r) => pendingOf(r, y) = {}
        /\ \A d : inOrder(Append(r, e), d) <=> inOrder(r, d) /\ \A x \in activeOf(r) : d[x] < d[e.v]
    BY <2>1, FramePushed
  <2>3. frames' = Append(r, e) /\ e.v = w /\ e.rest = adjacent(h, w) /\ r = rest(w)
    BY <1>1, <1>4 DEF r, e
  <2> QED
    BY <2>2, <2>3
<1>8. active' = active \cup {w} /\ w \notin active
  BY <1>0, <1>2, <1>5, <1>7, TopFrame DEF active
<1>9. ASSUME NEW y \in Tasks(h)
      PROVE  pending(y)' = IF y = w THEN adjacent(h, w)
                           ELSE IF y = call.v THEN pending(y) \ {w} ELSE pending(y)
  <2>1. pending(y)' = pendingOf(frames', y)
    BY DEF pending
  <2>2. CASE y = w
    BY <1>5, <1>7, <1>8, <2>1, <2>2
  <2>3. CASE y # w
    <3>1. pending(y)' = pendingOf(rest(w), y)
      BY <1>7, <2>1, <2>3
    <3> QED
      BY <1>5, <2>3, <3>1
  <2> QED
    BY <2>2, <2>3
<1>10. frames' \in Seq(Frames) /\ frames' # << >>
  BY <1>1, <1>4, <1>5
<1>11. inOrder(frames', dfsI')
  <2>1. active \subseteq Tasks(h) /\ \A x \in active : x # w /\ dfsI[x] < maxdfs
    BY <1>0, <1>2, <1>8, TopFrame
  <2>2. \A x \in active : dfsI'[x] = dfsI[x] /\ dfsI'[x] < dfsI'[w]
    BY <1>3, <2>1
  <2>3. inOrder(rest(w), dfsI')
    BY <1>5, <2>2
  <2> QED
    BY <1>5, <1>7, <2>2, <2>3
<1>12. /\ onStack' = onStack \cup {w} /\ S' \in Seq(Tasks(h))
       /\ \A i, j \in DOMAIN S' : i < j => dfsI'[S'[i]] < dfsI'[S'[j]]
  <2>1. /\ Len(S) \in Nat /\ DOMAIN S = 1 .. Len(S) /\ DOMAIN S' = 1 .. Len(S) + 1
        /\ \A i \in DOMAIN S : S[i] \in Tasks(h) /\ S'[i] = S[i]
        /\ S'[Len(S) + 1] = w /\ S' \in Seq(Tasks(h))
    BY <1>0, <1>1 DEF TarjanType
  <2>2. DOMAIN S' = DOMAIN S \cup {Len(S) + 1}
    BY <2>1
  <2>3. onStack' = onStack \cup {w}
    BY <2>1, <2>2 DEF onStack, Range
  <2>4. ASSUME NEW i \in DOMAIN S', NEW j \in DOMAIN S', i < j PROVE dfsI'[S'[i]] < dfsI'[S'[j]]
    <3>1. i \in DOMAIN S
      BY <2>1, <2>4
    <3>2. S[i] \in onStack /\ S[i] # w
      BY <1>2, <3>1 DEF onStack, Range
    <3>3. CASE j \in DOMAIN S
      <4>1. S[j] \in onStack /\ S[j] # w
        BY <1>2, <3>3 DEF onStack, Range
      <4>2. dfsI[S[i]] < dfsI[S[j]]
        BY <1>0, <2>4, <3>1, <3>3 DEF Numbering
      <4>3. S'[i] = S[i] /\ S'[j] = S[j]
        BY <2>1, <3>1, <3>3
      <4>4. dfsI'[S[i]] = dfsI[S[i]] /\ dfsI'[S[j]] = dfsI[S[j]]
        BY <1>3, <2>1, <3>1, <3>2, <3>3, <4>1
      <4> QED
        BY <4>2, <4>3, <4>4
    <3>4. CASE j = Len(S) + 1
      <4>1. S'[i] = S[i] /\ S[i] \in Tasks(h) /\ S'[j] = w
        BY <2>1, <3>1, <3>4
      <4>2. dfsI'[S[i]] = dfsI[S[i]] /\ dfsI'[w] = maxdfs
        BY <1>3, <3>2, <4>1
      <4>3. dfsI[S[i]] < maxdfs
        BY <1>2, <3>2
      <4> QED
        BY <4>1, <4>2, <4>3
    <3> QED
      BY <2>2, <3>3, <3>4
  <2> QED
    BY <2>1, <2>3, <2>4
<1>13. TarjanType'
  BY <1>0, <1>1, <1>3, <1>10, <1>12 DEF TarjanType, Frames
<1> QED
  BY <1>1, <1>2, <1>3, <1>8, <1>9, <1>11, <1>12, <1>13, SameNumbers

LEMMA VisitNewInv ==
  ASSUME IInv, TarjanInv, NEW w \in Tasks(h), VisitNew(w)
  PROVE  TarjanInv'
<1>1. /\ h' = h /\ numbered' = numbered /\ w \in U /\ w \in adjacent(h, call.v)
      /\ active' = active \cup {w} /\ w \notin onStack
      /\ onStack' = onStack \cup {w} /\ U' = U \ {w}
      /\ \A y \in Tasks(h) : pending(y)' = IF y = w THEN adjacent(h, w)
                                          ELSE IF y = call.v THEN pending(y) \ {w} ELSE pending(y)
      /\ \A y \in Tasks(h) : /\ dfsI'[y] = IF y = w THEN maxdfs ELSE dfsI[y]
                             /\ lowlink'[y] = IF y = w THEN maxdfs ELSE lowlink[y]
      /\ \A y \in onStack : dfsI[y] < maxdfs
      /\ TarjanType' /\ inOrder(frames', dfsI')
      /\ \A i, j \in DOMAIN S' : i < j => dfsI'[S'[i]] < dfsI'[S'[j]]
  BY VisitNewFacts
<1>2. /\ \A t : adjacent(h, t) \subseteq Tasks(h) /\ reach(h, t) \subseteq Tasks(h)
      /\ \A t \in Tasks(h) : t \in reach(h, t) /\ adjacent(h, t) \subseteq reach(h, t)
      /\ \A t, u \in Tasks(h) : u \in reach(h, t) => reach(h, u) \subseteq reach(h, t)
      /\ \A y \in onStack : call.v \in reach(h, y)
      /\ active \subseteq onStack /\ onStack \subseteq Tasks(h)
      /\ call.v \in onStack /\ call.v \in Tasks(h) \ U
  BY StackFacts
<1>3. maxdfs \in Nat /\ \A y \in Tasks(h) : dfsI[y] \in Nat /\ lowlink[y] \in Nat
  BY DEF TarjanInv, TarjanType
<1>4. \A y \in onStack : y # w /\ dfsI'[y] = dfsI[y] /\ lowlink'[y] = lowlink[y] /\ dfsI'[y] < dfsI'[w]
  BY <1>1, <1>2
<1>5. /\ dfsI'[w] = maxdfs /\ lowlink'[w] = maxdfs
  BY <1>1
<1>6. Numbering'
  <2>1. \A t \in Tasks(h) \ U' : dfsI'[t] < maxdfs'
    <3>1. maxdfs' = maxdfs + 1 /\ \A t \in Tasks(h) \ U : dfsI[t] < maxdfs
      BY DEF TarjanInv, Numbering, VisitNew
    <3> QED
      BY <1>1, <1>3, <3>1
  <2>2. U' \cap numbered' = {} /\ onStack' = Tasks(h) \ (U' \cup numbered')
    BY <1>1 DEF TarjanInv, Numbering
  <2> QED
    BY <1>1, <1>2, <2>1, <2>2 DEF Numbering
<1>7. Paths'
  <2>1. \A x \in onStack : w \in reach(h, x)
    BY <1>1, <1>2
  <2>2. ASSUME NEW x \in onStack', NEW y \in onStack', dfsI'[x] <= dfsI'[y] PROVE y \in reach(h, x)
    <3>1. CASE x \in onStack /\ y \in onStack
      BY <1>4, <2>2, <3>1 DEF TarjanInv, Paths
    <3>2. CASE y = w
      BY <1>1, <1>2, <2>1, <3>2
    <3>3. CASE x = w /\ y \in onStack
      BY <1>1, <1>2, <1>3, <1>4, <2>2, <3>3
    <3> QED
      BY <1>1, <3>1, <3>2, <3>3
  <2>3. ASSUME NEW y \in onStack'
        PROVE  \E x \in active' : dfsI'[x] <= dfsI'[y] /\ x \in reach(h, y)
    <3>1. CASE y = w
      BY <1>1, <1>2, <1>3, <1>5, <3>1
    <3>2. CASE y \in onStack
      <4>1. PICK x \in active : dfsI[x] <= dfsI[y] /\ x \in reach(h, y)
        BY <3>2 DEF TarjanInv, Paths
      <4> QED
        BY <1>1, <1>2, <1>4, <3>2, <4>1
    <3> QED
      BY <1>1, <3>1, <3>2
  <2> QED
    BY <1>1, <2>2, <2>3 DEF Paths
<1>8. SeenEdges'
  <2>1. /\ \A y \in Tasks(h) \ U : adjacent(h, y) \ pending(y) \subseteq Tasks(h) \ U
        /\ \A y \in active : pending(y) \subseteq adjacent(h, y)
    BY DEF TarjanInv, SeenEdges
  <2>2. \A y \in Tasks(h) \ U' : adjacent(h, y) \ pending(y)' \subseteq Tasks(h) \ U'
    BY <1>1, <1>2, <2>1
  <2>3. \A y \in active' : pending(y)' \subseteq adjacent(h, y)
    BY <1>1, <1>2, <2>1
  <2> QED
    BY <1>1, <2>2, <2>3 DEF SeenEdges
<1>9. LowlinkReached'
  <2>1. ASSUME NEW t \in onStack'
        PROVE  lowlink'[t] <= dfsI'[t] /\ \E u \in onStack' : dfsI'[u] = lowlink'[t] /\ u \in reach(h, t)
    <3>1. CASE t = w
      BY <1>1, <1>2, <1>3, <1>5, <3>1
    <3>2. CASE t \in onStack
      <4>1. PICK u \in onStack : lowlink[t] <= dfsI[t] /\ dfsI[u] = lowlink[t] /\ u \in reach(h, t)
        BY <3>2 DEF TarjanInv, LowlinkReached
      <4> QED
        BY <1>1, <1>4, <3>2, <4>1
    <3> QED
      BY <1>1, <3>1, <3>2
  <2> QED
    BY <1>1, <2>1 DEF LowlinkReached
<1>10. LowlinkLeast'
  <2>1. ASSUME NEW v \in active', NEW y \in onStack', NEW z \in onStack',
               z \in adjacent(h, y) \ pending(y)', dfsI'[v] <= dfsI'[y]
        PROVE  \E x \in active' : dfsI'[v] <= dfsI'[x] /\ lowlink'[x] <= dfsI'[z]
    <3>1. y \in onStack
      BY <1>1, <2>1
    <3>2. v \in active
      BY <1>1, <1>2, <1>3, <1>4, <2>1, <3>1
    <3>3. CASE z = w
      <4>1. lowlink[v] <= dfsI[v]
        BY <1>2, <3>2 DEF TarjanInv, LowlinkReached
      <4>2. lowlink'[v] <= dfsI'[z] /\ dfsI'[v] <= dfsI'[v]
        BY <1>1, <1>2, <1>3, <1>4, <1>5, <3>2, <3>3, <4>1
      <4> QED
        BY <2>1, <4>2
    <3>4. CASE z \in onStack
      <4>1. z \in adjacent(h, y) \ pending(y)
        BY <1>1, <1>2, <2>1, <3>1, <3>4
      <4>2. dfsI[v] <= dfsI[y]
        BY <1>2, <1>4, <2>1, <3>1, <3>2
      <4>3. PICK x \in active : dfsI[v] <= dfsI[x] /\ lowlink[x] <= dfsI[z]
        BY <3>1, <3>2, <3>4, <4>1, <4>2 DEF TarjanInv, LowlinkLeast
      <4> QED
        BY <1>1, <1>2, <1>4, <3>2, <3>4, <4>3
    <3> QED
      BY <1>1, <3>3, <3>4
  <2> QED
    BY <1>1, <2>1 DEF LowlinkLeast
<1> QED
  BY <1>1, <1>6, <1>7, <1>8, <1>9, <1>10 DEF TarjanInv

(* A subtask seen before counts for the lowlink if it is on the stack.     *)
LEMMA VisitSeenInv ==
  ASSUME IInv, TarjanInv, NEW w \in Tasks(h), VisitSeen(w)
  PROVE  TarjanInv'
<1> DEFINE v == call.v
<1> HIDE DEF v
<1>0. TarjanType /\ Numbering
  BY DEF TarjanInv
<1>1. /\ h' = h /\ S' = S /\ U' = U /\ dfsI' = dfsI /\ maxdfs' = maxdfs
      /\ taskToSCC' = taskToSCC /\ frames' = rest(w) /\ w \in call.rest /\ w \notin U
      /\ lowlink' = IF w \in onStack THEN Replace(lowlink, v, Min({lowlink[v], dfsI[w]})) ELSE lowlink
  BY DEF VisitSeen, onStack, v
<1>2. /\ numbered' = numbered /\ onStack' = onStack
  BY <1>1, SameNumbers DEF onStack
<1>3. /\ \A t : adjacent(h, t) \subseteq Tasks(h) /\ reach(h, t) \subseteq Tasks(h)
      /\ \A t \in Tasks(h) : t \in reach(h, t) /\ adjacent(h, t) \subseteq reach(h, t)
      /\ active \subseteq onStack /\ onStack \subseteq Tasks(h)
      /\ v \in onStack /\ v \in active /\ pending(v) = call.rest
      /\ \A x \in active : dfsI[x] <= dfsI[v]
  <2>1. /\ active = activeOf(Front(frames)) \cup {v}
        /\ \A x \in activeOf(Front(frames)) : dfsI[x] < dfsI[v]
        /\ \A x \in onStack : dfsI[x] \in Nat
        /\ pending(v) = call.rest
    BY <1>0, TopFrame DEF v
  <2>2. \A x \in active : dfsI[x] <= dfsI[v]
    BY <2>1, StackFacts DEF v
  <2> QED
    BY <2>1, <2>2, StackFacts DEF v
<1>4. /\ frames' \in Seq(Frames) /\ frames' # << >> /\ active' = active
      /\ \A y : pending(y)' = IF y = v THEN pending(y) \ {w} ELSE pending(y)
      /\ inOrder(frames', dfsI')
  <2>1. /\ rest(w) \in Seq(Frames) /\ rest(w) # << >> /\ activeOf(rest(w)) = active
        /\ \A y : pendingOf(rest(w), y) = IF y = v THEN pending(y) \ {w} ELSE pending(y)
        /\ inOrder(rest(w), dfsI)
    BY <1>0, RestFacts DEF v
  <2>2. active' = activeOf(frames') /\ \A y : pending(y)' = pendingOf(frames', y)
    BY DEF active, pending
  <2> QED
    BY <1>1, <2>1, <2>2
<1>5. \A y \in Tasks(h) : dfsI[y] \in Nat /\ lowlink[y] \in Nat
  BY <1>0 DEF TarjanType
<1>6. /\ lowlink' \in [Tasks(h) -> Nat]
      /\ \A y \in Tasks(h) : y # v => lowlink'[y] = lowlink[y]
      /\ lowlink'[v] \in {lowlink[v], dfsI[w]} /\ lowlink'[v] <= lowlink[v]
      /\ w \in onStack => lowlink'[v] <= dfsI[w]
      /\ w \notin onStack => lowlink'[v] = lowlink[v]
  <2>1. /\ Min({lowlink[v], dfsI[w]}) \in {lowlink[v], dfsI[w]}
        /\ Min({lowlink[v], dfsI[w]}) <= lowlink[v] /\ Min({lowlink[v], dfsI[w]}) <= dfsI[w]
    <3>1. lowlink[v] \in Nat /\ dfsI[w] \in Nat
      BY <1>3, <1>5
    <3> QED
      BY <3>1, MinOfTwo
  <2> DEFINE m == Min({lowlink[v], dfsI[w]})
  <2> HIDE DEF m
  <2>2. m \in Nat /\ m \in {lowlink[v], dfsI[w]} /\ m <= lowlink[v] /\ m <= dfsI[w]
    BY <1>3, <1>5, <2>1 DEF m
  <2>3. lowlink \in [Tasks(h) -> Nat] /\ v \in Tasks(h)
    BY <1>0, <1>3 DEF TarjanType
  <2>4. CASE w \in onStack
    <3>1. lowlink' = [lowlink EXCEPT ![v] = m]
      BY <1>1, <2>4 DEF Replace, m
    <3> QED
      BY <2>2, <2>3, <2>4, <3>1
  <2>5. CASE w \notin onStack
    BY <1>1, <2>3, <2>5
  <2> QED
    BY <2>4, <2>5
<1>7. TarjanType' /\ Numbering'
  BY <1>0, <1>1, <1>2, <1>4, <1>6 DEF TarjanType, Numbering, Frames
<1>8. Paths'
  BY <1>1, <1>2, <1>4 DEF TarjanInv, Paths
<1>9. SeenEdges'
  <2>1. /\ \A y \in Tasks(h) \ U : adjacent(h, y) \ pending(y) \subseteq Tasks(h) \ U
        /\ \A y \in active : pending(y) \subseteq adjacent(h, y)
    BY DEF TarjanInv, SeenEdges
  <2> QED
    BY <1>1, <1>3, <1>4, <2>1 DEF SeenEdges
<1>10. LowlinkReached'
  <2>1. ASSUME NEW t \in onStack
        PROVE  lowlink'[t] <= dfsI[t] /\ \E u \in onStack : dfsI[u] = lowlink'[t] /\ u \in reach(h, t)
    <3>1. PICK u \in onStack : lowlink[t] <= dfsI[t] /\ dfsI[u] = lowlink[t] /\ u \in reach(h, t)
      BY <2>1 DEF TarjanInv, LowlinkReached
    <3>2. CASE lowlink'[t] = lowlink[t]
      BY <3>1, <3>2
    <3>3. CASE lowlink'[t] # lowlink[t]
      <4>1. t = v /\ w \in onStack /\ lowlink'[v] = dfsI[w]
        BY <1>3, <1>6, <2>1, <3>3
      <4>2. w \in reach(h, v)
        BY <1>1, <1>3 DEF TarjanInv, SeenEdges
      <4>3. lowlink'[v] <= dfsI[v]
        BY <1>3, <1>5, <1>6, <3>1, <4>1
      <4> QED
        BY <4>1, <4>2, <4>3
    <3> QED
      BY <3>2, <3>3
  <2> QED
    BY <1>1, <1>2, <2>1 DEF LowlinkReached
<1>11. LowlinkLeast'
  <2>1. ASSUME NEW x \in active, NEW y \in onStack, NEW z \in onStack,
               z \in adjacent(h, y) \ pending(y)', dfsI[x] <= dfsI[y]
        PROVE  \E a \in active : dfsI[x] <= dfsI[a] /\ lowlink'[a] <= dfsI[z]
    <3>1. CASE z \in adjacent(h, y) \ pending(y)
      <4>1. PICK a \in active : dfsI[x] <= dfsI[a] /\ lowlink[a] <= dfsI[z]
        BY <2>1, <3>1 DEF TarjanInv, LowlinkLeast
      <4>2. lowlink'[a] <= lowlink[a]
        BY <1>3, <1>5, <1>6
      <4>3. lowlink'[a] \in Nat /\ lowlink[a] \in Nat /\ dfsI[z] \in Nat
        BY <1>3, <1>5, <1>6
      <4>4. lowlink'[a] <= dfsI[z]
        BY <4>1, <4>2, <4>3
      <4> QED
        BY <4>1, <4>4
    <3>2. CASE z \notin adjacent(h, y) \ pending(y)
      <4>1. y = v /\ z = w
        BY <1>4, <2>1, <3>2
      <4> QED
        BY <1>3, <1>6, <2>1, <4>1
    <3> QED
      BY <3>1, <3>2
  <2> QED
    BY <1>1, <1>2, <1>4, <2>1 DEF LowlinkLeast
<1> QED
  BY <1>7, <1>8, <1>9, <1>10, <1>11 DEF TarjanInv
-----------------------------------------------------------------------------
(* A return: what is cut off the stack if the task is a root.              *)
isRoot == lowlink[call.v] = dfsI[call.v]
above  == {y \in onStack : dfsI[call.v] <= dfsI[y]}
cutAt  == CHOOSE i \in DOMAIN S : S[i] = call.v

LEMMA StackCut ==
  ASSUME TarjanType, Numbering
  PROVE  /\ {S[i] : i \in {j \in DOMAIN S : j >= cutAt}} = above
         /\ SubSeq(S, 1, cutAt - 1) \in Seq(Tasks(h))
         /\ Range(SubSeq(S, 1, cutAt - 1)) = onStack \ above
         /\ \A i, j \in DOMAIN SubSeq(S, 1, cutAt - 1) :
              i < j => dfsI[SubSeq(S, 1, cutAt - 1)[i]] < dfsI[SubSeq(S, 1, cutAt - 1)[j]]
<1> DEFINE c == SubSeq(S, 1, cutAt - 1)
           k == cutAt
           v == call.v
<1>1. /\ Len(S) \in Nat /\ DOMAIN S = 1 .. Len(S)
      /\ \A i \in DOMAIN S : S[i] \in Tasks(h) /\ S[i] \in onStack /\ dfsI[S[i]] \in Nat
      /\ \A i, j \in DOMAIN S : i < j => dfsI[S[i]] < dfsI[S[j]]
      /\ v \in onStack
  <2>1. v \in onStack
    BY TopFrame
  <2> QED
    BY <2>1 DEF TarjanType, Numbering, onStack, Range
<1>2. k \in DOMAIN S /\ S[k] = v
  BY <1>1 DEF onStack, Range, cutAt
<1> HIDE DEF k, v
<1>3. /\ c \in Seq(Tasks(h)) /\ DOMAIN c = 1 .. k - 1 /\ \A i \in 1 .. k - 1 : c[i] = S[i]
      /\ k \in Nat /\ 1 .. k - 1 \subseteq DOMAIN S
  <2>1. S \in Seq(Tasks(h)) /\ k \in 1 .. Len(S) /\ c = SubSeq(S, 1, k - 1)
    BY <1>1, <1>2 DEF TarjanType, k
  <2> HIDE DEF c
  <2> QED
    BY <1>1, <2>1
<1> HIDE DEF c
<1>4. \A i \in DOMAIN S : (i >= k <=> dfsI[v] <= dfsI[S[i]]) /\ (i \in 1 .. k - 1 <=> ~ (i >= k))
  <2>1. ASSUME NEW i \in DOMAIN S, i < k PROVE dfsI[S[i]] < dfsI[v]
    BY <1>1, <1>2, <2>1
  <2>2. ASSUME NEW i \in DOMAIN S, k < i PROVE dfsI[v] < dfsI[S[i]]
    BY <1>1, <1>2, <2>2
  <2>3. \A i \in DOMAIN S : i \in Nat /\ i >= 1 /\ dfsI[S[i]] \in Nat /\ dfsI[v] \in Nat
    BY <1>1, <1>2
  <2> QED
    BY <1>2, <1>3, <2>1, <2>2, <2>3
<1>5. {S[i] : i \in {j \in DOMAIN S : j >= k}} = above
  BY <1>4 DEF above, onStack, Range, v
<1>6. Range(c) = onStack \ above
  <2>1. Range(c) = {S[i] : i \in {j \in DOMAIN S : ~ (j >= k)}}
    BY <1>3, <1>4 DEF Range
  <2>2. \A i \in DOMAIN S : S[i] \in above <=> i >= k
    BY <1>1, <1>4 DEF above, v
  <2> QED
    BY <2>1, <2>2 DEF onStack, Range
<1>7. \A i, j \in DOMAIN c : i < j => dfsI[c[i]] < dfsI[c[j]]
  BY <1>1, <1>3
<1> QED
  BY <1>3, <1>5, <1>6, <1>7 DEF c, k

LEMMA ReturnFacts ==
  ASSUME IInv, TarjanInv, Return
  PROVE  /\ h' = h /\ U' = U /\ dfsI' = dfsI /\ maxdfs' = maxdfs /\ frames' = Front(frames)
         /\ pending(call.v) = {}
         /\ activeOf(frames') = active \ {call.v}
         /\ \A y : pendingOf(frames', y) = pending(y)
         /\ isRoot => /\ S' = SubSeq(S, 1, cutAt - 1) /\ numSCCs' = numSCCs + 1
                      /\ taskToSCC' = [t \in Tasks(h) |-> IF t \in above THEN numSCCs ELSE taskToSCC[t]]
         /\ ~ isRoot => S' = S /\ numSCCs' = numSCCs /\ taskToSCC' = taskToSCC
         /\ frames' = << >> => pc' = "graph"
         /\ frames' # << >> =>
              /\ pc' = "tarjan"
              /\ lowlink' = Replace(lowlink, Last(frames').v, Min({lowlink[Last(frames').v], lowlink[call.v]}))
<1>0. TarjanType /\ Numbering
  BY DEF TarjanInv
<1>1. /\ Front(frames) \in Seq(Frames)
      /\ active = activeOf(Front(frames)) \cup {call.v} /\ call.v \notin activeOf(Front(frames))
      /\ pending(call.v) = call.rest /\ pendingOf(Front(frames), call.v) = {}
      /\ \A y : y # call.v => pending(y) = pendingOf(Front(frames), y)
  BY <1>0, TopFrame
<1>2. /\ h' = h /\ U' = U /\ dfsI' = dfsI /\ maxdfs' = maxdfs /\ frames' = Front(frames)
      /\ call.rest = {}
      /\ frames' = << >> => pc' = "graph"
      /\ frames' # << >> =>
              /\ pc' = "tarjan"
              /\ lowlink' = Replace(lowlink, Last(frames').v, Min({lowlink[Last(frames').v], lowlink[call.v]}))
  BY DEF Return
<1>3. isRoot => /\ S' = SubSeq(S, 1, cutAt - 1) /\ numSCCs' = numSCCs + 1
                /\ taskToSCC' = [t \in Tasks(h) |-> IF t \in above THEN numSCCs ELSE taskToSCC[t]]
  <2>1. {S[i] : i \in {j \in DOMAIN S : j >= cutAt}} = above
    BY <1>0, StackCut
  <2> QED
    BY <2>1 DEF Return, isRoot, cutAt
<1>4. ~ isRoot => S' = S /\ numSCCs' = numSCCs /\ taskToSCC' = taskToSCC
  <2>1. taskToSCC = [t \in Tasks(h) |-> taskToSCC[t]]
    BY DEF IInv, ComponentsInv
  <2> QED
    BY <2>1 DEF Return, isRoot
<1>5. activeOf(frames') = active \ {call.v} /\ \A y : pendingOf(frames', y) = pending(y)
  BY <1>1, <1>2
<1> QED
  BY <1>1, <1>2, <1>3, <1>4, <1>5

(* A root and what is above it reach each other, and nothing else that is  *)
(* not in a component.                                                     *)
LEMMA RootFacts ==
  ASSUME IInv, TarjanInv, isRoot, pending(call.v) = {}
  PROVE  /\ call.v \in above /\ above \subseteq onStack
         /\ \A y \in above : call.v \in reach(h, y) /\ y \in reach(h, call.v)
         /\ \A y \in above : adjacent(h, y) \subseteq above \cup numbered
<1> DEFINE v == call.v
<1> HIDE DEF v
<1>0. TarjanType /\ Numbering
  BY DEF TarjanInv
<1>1. /\ active \subseteq onStack /\ onStack \subseteq Tasks(h) /\ v \in active /\ v \in onStack
      /\ \A x \in onStack : dfsI[x] \in Nat
      /\ \A x \in active : x = v \/ dfsI[x] < dfsI[v]
      /\ \A y : y \notin active => pending(y) = {}
      /\ \A t : adjacent(h, t) \subseteq Tasks(h)
      /\ \A y \in onStack : v \in reach(h, y)
      /\ pending(v) = {} /\ lowlink[v] = dfsI[v]
  BY <1>0, TopFrame, StackFacts DEF v, isRoot
<1>2. v \in above /\ above \subseteq onStack /\ \A y \in onStack : y \in above <=> dfsI[v] <= dfsI[y]
  BY <1>1 DEF above, v
<1>3. ASSUME NEW y \in above PROVE v \in reach(h, y) /\ y \in reach(h, v)
  BY <1>1, <1>2 DEF TarjanInv, Paths
<1>4. ASSUME NEW y \in above, NEW u \in adjacent(h, y) PROVE u \in above \cup numbered
  <2>1. pending(y) = {}
    <3>1. y \in active => y = v
      BY <1>1, <1>2
    <3> QED
      BY <1>1, <3>1
  <2>2. u \in Tasks(h) \ U
    BY <1>1, <1>2, <2>1 DEF TarjanInv, SeenEdges, Numbering
  <2>3. CASE u \in onStack
    <3>1. PICK x \in active : dfsI[v] <= dfsI[x] /\ lowlink[x] <= dfsI[u]
      BY <1>1, <1>2, <2>1, <2>3 DEF TarjanInv, LowlinkLeast
    <3>2. x = v
      BY <1>1, <3>1
    <3> QED
      BY <1>1, <1>2, <2>3, <3>1, <3>2
  <2>4. CASE u \notin onStack
    BY <1>0, <2>2, <2>4 DEF Numbering
  <2> QED
    BY <2>3, <2>4
<1> QED
  BY <1>2, <1>3, <1>4 DEF v

LEMMA NewComponent ==
  ASSUME IInv, TarjanInv, isRoot, pending(call.v) = {}, h' = h, numSCCs' = numSCCs + 1,
         taskToSCC' = [t \in Tasks(h) |-> IF t \in above THEN numSCCs ELSE taskToSCC[t]]
  PROVE  ComponentsInv' /\ numbered' = numbered \cup above
<1>1. /\ numSCCs \in Nat
      /\ taskToSCC \in [Tasks(h) -> SCCs \cup {-1}]
      /\ \A scc \in SCCs : sccToTasks(scc) # {}
      /\ \A t \in numbered : \A u \in adjacent(h, t) : u \in numbered /\ taskToSCC[u] <= taskToSCC[t]
      /\ \A t, u \in numbered :
           taskToSCC[t] = taskToSCC[u] <=> u \in reach(h, t) /\ t \in reach(h, u)
  BY DEF IInv, ComponentsInv
<1>2. /\ call.v \in above /\ above \subseteq Tasks(h) /\ above \cap numbered = {} /\ numbered \subseteq Tasks(h)
      /\ \A y \in above : call.v \in reach(h, y) /\ y \in reach(h, call.v)
      /\ \A y \in above : adjacent(h, y) \subseteq above \cup numbered
  BY RootFacts DEF TarjanInv, Numbering, numbered
<1>3. SCCs' = SCCs \cup {numSCCs} /\ -1 \notin SCCs' /\ SCCs \subseteq Nat /\ \A n \in SCCs : n < numSCCs
  BY <1>1 DEF SCCs
<1>4. /\ \A t \in above : taskToSCC'[t] = numSCCs
      /\ \A t \in Tasks(h) \ above : taskToSCC'[t] = taskToSCC[t]
      /\ \A t \in numbered : taskToSCC'[t] \in SCCs /\ taskToSCC'[t] = taskToSCC[t]
  BY <1>1, <1>2 DEF numbered
<1>5. numbered' = numbered \cup above
  BY <1>1, <1>2, <1>4 DEF numbered
<1>6. taskToSCC' \in [Tasks(h) -> SCCs' \cup {-1}] /\ numSCCs' \in Nat
  BY <1>1, <1>3
<1>7. ASSUME NEW scc \in SCCs' PROVE sccToTasks(scc)' # {}
  <2>1. CASE scc = numSCCs
    BY <1>2, <1>4, <2>1 DEF sccToTasks
  <2>2. CASE scc \in SCCs
    <3>1. PICK t \in Tasks(h) : taskToSCC[t] = scc
      BY <1>1, <2>2 DEF sccToTasks
    <3>2. t \in numbered
      BY <1>3, <2>2, <3>1 DEF numbered
    <3> QED
      BY <1>2, <1>4, <3>1, <3>2 DEF sccToTasks
  <2> QED
    BY <1>3, <2>1, <2>2
<1>8. ASSUME NEW t \in numbered', NEW u \in adjacent(h, t)
      PROVE  u \in numbered' /\ taskToSCC'[u] <= taskToSCC'[t]
  <2>1. CASE t \in numbered
    BY <1>1, <1>4, <1>5, <1>8, <2>1
  <2>2. CASE t \in above
    <3>1. taskToSCC'[t] = numSCCs /\ u \in above \cup numbered
      BY <1>2, <1>4, <1>8, <2>2
    <3>2. taskToSCC'[u] = numSCCs \/ taskToSCC'[u] \in SCCs
      BY <1>4, <3>1
    <3>3. u \in numbered'
      BY <1>5, <3>1
    <3>4. taskToSCC'[u] <= numSCCs
      <4>1. \A n \in SCCs \cup {numSCCs} : n <= numSCCs
        BY <1>1 DEF SCCs
      <4> QED
        BY <3>2, <4>1
    <3> QED
      BY <3>1, <3>3, <3>4
  <2> QED
    BY <1>5, <2>1, <2>2
<1>9. \A t \in numbered : reach(h, t) \subseteq numbered
  BY <1>1, <1>2, ProblemFacts, ReachFacts DEF closedIn, IInv
<1>10. ASSUME NEW t \in numbered', NEW u \in numbered'
       PROVE  taskToSCC'[t] = taskToSCC'[u] <=> u \in reach(h, t) /\ t \in reach(h, u)
  <2>1. CASE t \in numbered /\ u \in numbered
    BY <1>1, <1>4, <2>1
  <2>2. CASE t \in above /\ u \in above
    <3>1. u \in reach(h, t) /\ t \in reach(h, u)
      BY <1>2, <2>2, StackFacts
    <3> QED
      BY <1>4, <2>2, <3>1
  <2>3. numSCCs \notin SCCs
    BY <1>1 DEF SCCs
  <2>4. CASE t \in numbered /\ u \in above
    <3>1. taskToSCC'[t] \in SCCs /\ taskToSCC'[u] = numSCCs
      BY <1>4, <2>4
    <3>2. u \notin reach(h, t)
      BY <1>2, <1>9, <2>4
    <3> QED
      BY <2>3, <3>1, <3>2
  <2>5. CASE t \in above /\ u \in numbered
    <3>1. taskToSCC'[u] \in SCCs /\ taskToSCC'[t] = numSCCs
      BY <1>4, <2>5
    <3>2. t \notin reach(h, u)
      BY <1>2, <1>9, <2>5
    <3> QED
      BY <2>3, <3>1, <3>2
  <2> QED
    BY <1>5, <2>1, <2>2, <2>4, <2>5
<1> QED
  BY <1>5, <1>6, <1>7, <1>8, <1>10 DEF ComponentsInv

(* A task that is not a root reaches an earlier one that has a frame.      *)
LEMMA EarlierFrame ==
  ASSUME IInv, TarjanInv, ~ isRoot
  PROVE  \E x \in active : dfsI[x] < dfsI[call.v] /\ x \in reach(h, call.v)
<1>1. /\ call.v \in onStack /\ onStack \subseteq Tasks(h) /\ active \subseteq onStack
      /\ \A t, u \in Tasks(h) : u \in reach(h, t) => reach(h, u) \subseteq reach(h, t)
  BY StackFacts
<1>2. PICK u \in onStack : dfsI[u] = lowlink[call.v] /\ u \in reach(h, call.v) /\ lowlink[call.v] <= dfsI[call.v]
  BY <1>1 DEF TarjanInv, LowlinkReached
<1>3. PICK x \in active : dfsI[x] <= dfsI[u] /\ x \in reach(h, u)
  BY DEF TarjanInv, Paths
<1>4. dfsI[x] \in Nat /\ dfsI[u] \in Nat /\ dfsI[call.v] \in Nat
  BY <1>1 DEF TarjanInv, TarjanType
<1>5. dfsI[u] < dfsI[call.v]
  BY <1>2, <1>4 DEF isRoot
<1>6. x \in reach(h, call.v)
  BY <1>1, <1>2, <1>3
<1> QED
  BY <1>3, <1>4, <1>5, <1>6

(* The last return: all tasks that were visited are in components, and     *)
(* these are all tasks.                                                    *)
LEMMA ReturnEnds ==
  ASSUME IInv, pc = "tarjan", Return, frames' = << >>
  PROVE  ComponentsInv' /\ numbered' = Tasks(h)
<1>0. TarjanInv /\ h.initialTask \notin U /\ h \in Problems
  BY DEF IInv
<1>1. /\ h' = h /\ pending(call.v) = {} /\ activeOf(frames') = active \ {call.v}
      /\ isRoot => /\ numSCCs' = numSCCs + 1
                   /\ taskToSCC' = [t \in Tasks(h) |-> IF t \in above THEN numSCCs ELSE taskToSCC[t]]
  BY <1>0, ReturnFacts
<1>2. active \subseteq {call.v} /\ onStack \subseteq Tasks(h)
  BY <1>0, <1>1, StackFacts DEF activeOf
<1>3. isRoot
  <2>1. SUFFICES ASSUME ~ isRoot PROVE FALSE
    OBVIOUS
  <2>2. PICK x \in active : dfsI[x] < dfsI[call.v]
    BY <1>0, <2>1, EarlierFrame
  <2>3. x = call.v /\ dfsI[x] \in Nat
    BY <1>0, <1>2, StackFacts DEF TarjanInv, TarjanType
  <2> QED
    BY <2>2, <2>3
<1>4. ComponentsInv' /\ numbered' = numbered \cup above
  BY <1>0, <1>1, <1>3, NewComponent
<1>5. above = onStack
  <2>1. ASSUME NEW y \in onStack PROVE dfsI[call.v] <= dfsI[y]
    BY <1>0, <1>2 DEF TarjanInv, Paths
  <2> QED
    BY <2>1 DEF above
<1>6. numbered' = Tasks(h) \ U
  BY <1>0, <1>4, <1>5 DEF TarjanInv, Numbering, numbered
<1>7. closedIn(h, Tasks(h) \ U)
  BY <1>1, <1>4, <1>6 DEF ComponentsInv, closedIn
<1>8. h.initialTask \in Tasks(h) \ U /\ Tasks(h) \ U \in SUBSET Tasks(h)
  BY <1>0, ProblemFacts
<1>9. Tasks(h) \ U = Tasks(h)
  BY <1>0, <1>7, <1>8, ProblemFacts
<1> QED
  BY <1>4, <1>6, <1>9

LEMMA ReturnInv ==
  ASSUME IInv, pc = "tarjan", Return, frames' # << >>
  PROVE  ComponentsInv' /\ TarjanInv'
<1> DEFINE v == call.v
           c == Last(frames').v
<1>0. TarjanInv /\ TarjanType /\ Numbering
  BY DEF IInv, TarjanInv
<1>1. /\ h' = h /\ U' = U /\ dfsI' = dfsI /\ maxdfs' = maxdfs /\ frames' = Front(frames)
      /\ pending(v) = {} /\ activeOf(frames') = active \ {v}
      /\ \A y : pendingOf(frames', y) = pending(y)
      /\ isRoot => /\ S' = SubSeq(S, 1, cutAt - 1) /\ numSCCs' = numSCCs + 1
                   /\ taskToSCC' = [t \in Tasks(h) |-> IF t \in above THEN numSCCs ELSE taskToSCC[t]]
      /\ ~ isRoot => S' = S /\ numSCCs' = numSCCs /\ taskToSCC' = taskToSCC
      /\ lowlink' = Replace(lowlink, c, Min({lowlink[c], lowlink[v]}))
  BY <1>0, ReturnFacts
<1>2. active' = active \ {v} /\ \A y : pending(y)' = pending(y)
  BY <1>1 DEF active, pending
<1>3. /\ frames' \in Seq(Frames) /\ inOrder(frames', dfsI)
      /\ \A x \in active' : dfsI[x] < dfsI[v]
      /\ v \in onStack /\ v \in active /\ active \subseteq onStack /\ onStack \subseteq Tasks(h)
      /\ \A x \in onStack : dfsI[x] \in Nat
      /\ \A x \in active : dfsI[x] <= dfsI[v]
  <2>1. /\ Front(frames) \in Seq(Frames) /\ inOrder(Front(frames), dfsI)
        /\ active = activeOf(Front(frames)) \cup {v}
        /\ \A x \in activeOf(Front(frames)) : dfsI[x] < dfsI[v]
        /\ active \subseteq onStack /\ onStack \subseteq Tasks(h)
        /\ \A x \in onStack : dfsI[x] \in Nat
    BY <1>0, TopFrame
  <2> HIDE DEF v
  <2>2. \A x \in active' : dfsI[x] < dfsI[v]
    BY <1>1, <1>2, <2>1
  <2>3. \A x \in active : dfsI[x] <= dfsI[v]
    BY <2>1
  <2> QED
    BY <1>1, <2>1, <2>2, <2>3
(* The caller is the last of the frames that are left.                     *)
<1>4. c \in active' /\ \A x \in active' : dfsI[x] <= dfsI[c]
  <2> DEFINE q == Front(frames')
             e == Last(frames')
  <2>1. q \in Seq(Frames) /\ e \in Frames /\ frames' = Append(q, e)
    BY <1>3 DEF Front, Last
  <2> HIDE DEF q, e
  <2>2. /\ activeOf(frames') = activeOf(q) \cup {e.v}
        /\ inOrder(frames', dfsI) <=> inOrder(q, dfsI) /\ \A x \in activeOf(q) : dfsI[x] < dfsI[e.v]
    BY <2>1, FramePushed
  <2>3. c = e.v /\ active' = activeOf(frames')
    BY DEF e, active
  <2> HIDE DEF c
  <2>4. \A x \in active' : dfsI[x] \in Nat
    BY <1>2, <1>3
  <2>5. c \in active' /\ \A x \in active' : x = c \/ dfsI[x] < dfsI[c]
    BY <1>3, <2>2, <2>3
  <2> QED
    BY <2>4, <2>5
<1>5. c \in onStack /\ c \in active /\ c # v /\ dfsI[c] < dfsI[v]
  BY <1>2, <1>3, <1>4
<1> HIDE DEF v, c
<1>6. \A y \in Tasks(h) : dfsI[y] \in Nat /\ lowlink[y] \in Nat
  BY <1>0 DEF TarjanType
<1>7. /\ \A t : adjacent(h, t) \subseteq Tasks(h) /\ reach(h, t) \subseteq Tasks(h)
      /\ \A t, u \in Tasks(h) : u \in reach(h, t) => reach(h, u) \subseteq reach(h, t)
      /\ \A y \in onStack : v \in reach(h, y)
  BY <1>0, StackFacts DEF v
<1>8. /\ lowlink' \in [Tasks(h) -> Nat]
      /\ \A y \in Tasks(h) : y # c => lowlink'[y] = lowlink[y]
      /\ lowlink'[c] \in {lowlink[c], lowlink[v]}
      /\ lowlink'[c] <= lowlink[c] /\ lowlink'[c] <= lowlink[v]
  <2> DEFINE m == Min({lowlink[c], lowlink[v]})
  <2>1. m \in {lowlink[c], lowlink[v]} /\ m <= lowlink[c] /\ m <= lowlink[v]
    <3>1. lowlink[c] \in Nat /\ lowlink[v] \in Nat
      BY <1>3, <1>5, <1>6
    <3> QED
      BY <3>1, MinOfTwo
  <2>2. lowlink \in [Tasks(h) -> Nat] /\ c \in Tasks(h) /\ m \in Nat
    BY <1>0, <1>3, <1>5, <1>6, <2>1 DEF TarjanType
  <2>3. lowlink' = [lowlink EXCEPT ![c] = m]
    BY <1>1 DEF Replace
  <2> HIDE DEF m
  <2> QED
    BY <2>1, <2>2, <2>3
<1>9. SeenEdges'
  <2>1. /\ \A y \in Tasks(h) \ U : adjacent(h, y) \ pending(y) \subseteq Tasks(h) \ U
        /\ \A y \in active : pending(y) \subseteq adjacent(h, y)
    BY <1>0 DEF TarjanInv, SeenEdges
  <2> QED
    BY <1>1, <1>2, <2>1 DEF SeenEdges
<1>10. CASE ~ isRoot
  <2>1. /\ S' = S /\ numSCCs' = numSCCs /\ taskToSCC' = taskToSCC
        /\ onStack' = onStack /\ numbered' = numbered
    BY <1>1, <1>10, SameNumbers DEF onStack
  <2>2. ComponentsInv'
    BY <1>1, <2>1 DEF IInv, ComponentsInv, SCCs, sccToTasks
  <2>3. TarjanType' /\ Numbering'
    BY <1>0, <1>1, <1>2, <1>3, <1>8, <2>1 DEF TarjanType, Numbering, Frames
  <2>4. PICK e \in active' : dfsI[e] < dfsI[v] /\ e \in reach(h, v)
    <3>1. \E x \in active : dfsI[x] < dfsI[v] /\ x \in reach(h, v)
      BY <1>0, <1>10, EarlierFrame DEF v
    <3> QED
      BY <1>2, <1>3, <3>1
  <2>5. Paths'
    <3>1. ASSUME NEW y \in onStack PROVE \E x \in active' : dfsI[x] <= dfsI[y] /\ x \in reach(h, y)
      <4>1. PICK x \in active : dfsI[x] <= dfsI[y] /\ x \in reach(h, y)
        BY <1>0 DEF TarjanInv, Paths
      <4>2. CASE x = v
        <5>1. e \in reach(h, y)
          BY <1>3, <1>7, <2>4, <4>1, <4>2
        <5>2. dfsI[e] <= dfsI[y]
          BY <1>2, <1>3, <2>4, <4>1, <4>2
        <5> QED
          BY <5>1, <5>2
      <4>3. CASE x # v
        BY <1>2, <4>1, <4>3
      <4> QED
        BY <4>2, <4>3
    <3> QED
      BY <1>0, <1>1, <2>1, <3>1 DEF TarjanInv, Paths
  <2>6. LowlinkReached'
    <3>1. ASSUME NEW t \in onStack
          PROVE  lowlink'[t] <= dfsI[t] /\ \E u \in onStack : dfsI[u] = lowlink'[t] /\ u \in reach(h, t)
      <4>1. PICK u \in onStack : lowlink[t] <= dfsI[t] /\ dfsI[u] = lowlink[t] /\ u \in reach(h, t)
        BY <1>0 DEF TarjanInv, LowlinkReached
      <4>2. CASE lowlink'[t] = lowlink[t]
        BY <4>1, <4>2
      <4>3. CASE lowlink'[t] # lowlink[t]
        <5>1. t = c /\ lowlink'[c] = lowlink[v]
          BY <1>3, <1>8, <4>3
        <5>2. PICK x \in onStack : dfsI[x] = lowlink[v] /\ x \in reach(h, v)
          BY <1>0, <1>3 DEF TarjanInv, LowlinkReached
        <5>3. x \in reach(h, c)
          BY <1>3, <1>5, <1>7, <5>2
        <5>4. lowlink'[c] <= dfsI[c]
          BY <1>3, <1>5, <1>6, <1>8, <4>1, <5>1
        <5> QED
          BY <5>1, <5>2, <5>3, <5>4
      <4> QED
        BY <4>2, <4>3
    <3> QED
      BY <1>1, <2>1, <3>1 DEF LowlinkReached
  <2>7. LowlinkLeast'
    <3>1. ASSUME NEW x \in active', NEW y \in onStack, NEW z \in onStack,
                 z \in adjacent(h, y) \ pending(y), dfsI[x] <= dfsI[y]
          PROVE  \E a \in active' : dfsI[x] <= dfsI[a] /\ lowlink'[a] <= dfsI[z]
      <4>1. PICK a \in active : dfsI[x] <= dfsI[a] /\ lowlink[a] <= dfsI[z]
        BY <1>0, <1>2, <3>1 DEF TarjanInv, LowlinkLeast
      <4>2. CASE a = v
        <5>1. lowlink'[c] <= dfsI[z]
          BY <1>3, <1>5, <1>6, <1>8, <4>1, <4>2
        <5> QED
          BY <1>4, <5>1
      <4>3. CASE a # v
        <5>1. a \in active'
          BY <1>2, <4>1, <4>3
        <5>2. a \in Tasks(h) /\ z \in Tasks(h)
          BY <1>3, <3>1, <4>1
        <5>3. lowlink'[a] <= lowlink[a]
          <6>1. CASE a = c
            BY <1>8, <6>1
          <6>2. CASE a # c
            BY <1>6, <1>8, <5>2, <6>2
          <6> QED
            BY <6>1, <6>2
        <5>4. lowlink'[a] \in Nat /\ lowlink[a] \in Nat /\ dfsI[z] \in Nat
          BY <1>6, <1>8, <5>2
        <5>5. lowlink'[a] <= dfsI[z]
          BY <4>1, <5>3, <5>4
        <5> QED
          BY <4>1, <5>1, <5>5
      <4> QED
        BY <4>2, <4>3
    <3>2. \A x \in active' : \A y, z \in onStack :
            z \in adjacent(h, y) \ pending(y) /\ dfsI[x] <= dfsI[y] =>
              \E a \in active' : dfsI[x] <= dfsI[a] /\ lowlink'[a] <= dfsI[z]
      BY <3>1
    <3>3. ASSUME NEW x \in active', NEW y \in onStack', NEW z \in onStack',
                 z \in adjacent(h', y) \ pending(y)', dfsI'[x] <= dfsI'[y]
          PROVE  \E a \in active' : dfsI'[x] <= dfsI'[a] /\ lowlink'[a] <= dfsI'[z]
      <4>1. y \in onStack /\ z \in onStack /\ z \in adjacent(h, y) \ pending(y)
        BY <1>1, <1>2, <2>1, <3>3
      <4>2. dfsI[x] <= dfsI[y]
        BY <1>1, <3>3
      <4>3. \E a \in active' : dfsI[x] <= dfsI[a] /\ lowlink'[a] <= dfsI[z]
        BY <3>2, <4>1, <4>2
      <4> QED
        BY <1>1, <4>3
    <3> QED
      BY <3>3 DEF LowlinkLeast
  <2> QED
    BY <1>9, <2>2, <2>3, <2>5, <2>6, <2>7 DEF TarjanInv
<1>11. CASE isRoot
  <2>1. /\ S' \in Seq(Tasks(h)) /\ onStack' = onStack \ above
        /\ \A i, j \in DOMAIN S' : i < j => dfsI[S'[i]] < dfsI[S'[j]]
    <3>1. /\ SubSeq(S, 1, cutAt - 1) \in Seq(Tasks(h))
          /\ Range(SubSeq(S, 1, cutAt - 1)) = onStack \ above
          /\ \A i, j \in DOMAIN SubSeq(S, 1, cutAt - 1) :
               i < j => dfsI[SubSeq(S, 1, cutAt - 1)[i]] < dfsI[SubSeq(S, 1, cutAt - 1)[j]]
      BY <1>0, StackCut
    <3>2. S' = SubSeq(S, 1, cutAt - 1) /\ onStack' = Range(S')
      BY <1>1, <1>11 DEF onStack
    <3> QED
      BY <3>1, <3>2
  <2>2. ComponentsInv' /\ numbered' = numbered \cup above
    BY <1>0, <1>1, <1>11, NewComponent DEF v
  <2>3. /\ \A y \in onStack' : y \in onStack /\ dfsI[y] < dfsI[v]
        /\ \A y \in onStack : dfsI[y] < dfsI[v] => y \in onStack'
    BY <1>3, <2>1 DEF above, v
  <2>4. active' \subseteq onStack' /\ lowlink[v] = dfsI[v]
    BY <1>2, <1>3, <1>11, <2>3 DEF isRoot, v
  <2>5. \A y \in Tasks(h) : lowlink'[y] = lowlink[y]
    <3>1. lowlink[c] <= dfsI[c]
      BY <1>0, <1>5 DEF TarjanInv, LowlinkReached
    <3>2. lowlink[c] < lowlink[v]
      BY <1>3, <1>5, <1>6, <2>4, <3>1
    <3>3. lowlink'[c] = lowlink[c]
      BY <1>3, <1>5, <1>6, <1>8, <3>2
    <3> QED
      BY <1>8, <3>3
  <2>6. TarjanType'
    BY <1>0, <1>1, <1>3, <1>8, <2>1 DEF TarjanType, Frames
  <2>7. Numbering'
    <3>1. U' \cap numbered' = {} /\ onStack' = Tasks(h) \ (U' \cup numbered')
      BY <1>0, <1>1, <2>1, <2>2 DEF Numbering, above
    <3> QED
      BY <1>0, <1>1, <1>3, <2>1, <2>4, <3>1 DEF Numbering
  <2>8. Paths'
    <3>1. ASSUME NEW y \in onStack' PROVE \E x \in active' : dfsI[x] <= dfsI[y] /\ x \in reach(h, y)
      <4>1. PICK x \in active : dfsI[x] <= dfsI[y] /\ x \in reach(h, y)
        BY <1>0, <2>3 DEF TarjanInv, Paths
      <4>2. x # v
        BY <1>3, <2>3, <4>1
      <4> QED
        BY <1>2, <4>1, <4>2
    <3> QED
      BY <1>0, <1>1, <2>3, <3>1 DEF TarjanInv, Paths
  <2>9. LowlinkReached'
    <3>1. ASSUME NEW t \in onStack'
          PROVE  lowlink'[t] <= dfsI[t] /\ \E u \in onStack' : dfsI[u] = lowlink'[t] /\ u \in reach(h, t)
      <4>1. PICK u \in onStack : lowlink[t] <= dfsI[t] /\ dfsI[u] = lowlink[t] /\ u \in reach(h, t)
        BY <1>0, <2>3 DEF TarjanInv, LowlinkReached
      <4>2. lowlink'[t] = lowlink[t] /\ u \in onStack'
        BY <1>3, <2>3, <2>5, <4>1
      <4> QED
        BY <4>1, <4>2
    <3> QED
      BY <1>1, <3>1 DEF LowlinkReached
  <2>10. LowlinkLeast'
    <3>1. ASSUME NEW x \in active', NEW y \in onStack', NEW z \in onStack',
                 z \in adjacent(h, y) \ pending(y), dfsI[x] <= dfsI[y]
          PROVE  \E a \in active' : dfsI[x] <= dfsI[a] /\ lowlink'[a] <= dfsI[z]
      <4>1. PICK a \in active : dfsI[x] <= dfsI[a] /\ lowlink[a] <= dfsI[z]
        BY <1>0, <1>2, <2>3, <3>1 DEF TarjanInv, LowlinkLeast
      <4>2. a # v
        BY <1>3, <2>3, <2>4, <4>1
      <4>3. lowlink'[a] = lowlink[a]
        BY <1>3, <2>5
      <4> QED
        BY <1>2, <4>1, <4>2, <4>3
    <3> QED
      BY <1>1, <1>2, <3>1 DEF LowlinkLeast
  <2> QED
    BY <1>9, <2>2, <2>6, <2>7, <2>8, <2>9, <2>10 DEF TarjanInv
<1> QED
  BY <1>10, <1>11
-----------------------------------------------------------------------------
LEMMA InitInv == ASSUME Init PROVE IInv
<1> DEFINE r == h.initialTask
           f == callOf(r)
<1>1. /\ h \in Problems /\ pc = "tarjan" /\ frames = <<f>> /\ maxdfs = 1
      /\ U = Tasks(h) \ {r} /\ S = <<r>>
      /\ dfsI = [t \in Tasks(h) |-> 0] /\ lowlink = [t \in Tasks(h) |-> 0]
      /\ numSCCs = 0 /\ taskToSCC = [t \in Tasks(h) |-> -1]
  BY DEF Init
<1>2. /\ r \in Tasks(h) /\ \A t : adjacent(h, t) \subseteq Tasks(h)
      /\ \A t \in Tasks(h) : t \in reach(h, t)
  BY <1>1, ProblemFacts, ReachFacts
<1>3. f \in Frames /\ f.v = r /\ f.rest = adjacent(h, r)
  BY <1>2 DEF callOf, Frames
<1> HIDE DEF f, r
<1>4. numbered = {} /\ SCCs = {} /\ ComponentsInv
  <2>1. numbered = {}
    BY <1>1 DEF numbered
  <2>2. SCCs = {}
    BY <1>1 DEF SCCs
  <2>3. numSCCs \in Nat /\ taskToSCC \in [Tasks(h) -> SCCs \cup {-1}]
    BY <1>1
  <2> QED
    BY <2>1, <2>2, <2>3 DEF ComponentsInv
<1>5. /\ frames \in Seq(Frames) /\ frames # << >> /\ active = {r} /\ inOrder(frames, dfsI)
      /\ pending(r) = adjacent(h, r)
  <2>1. << >> \in Seq(Frames) /\ frames = Append(<< >>, f)
    BY <1>1
  <2>2. activeOf(<< >>) = {} /\ pendingOf(<< >>, r) = {} /\ \A d : inOrder(<< >>, d)
    BY DEF activeOf, pendingOf, inOrder
  <2>3. \A q \in Seq(Frames) :
          /\ activeOf(Append(q, f)) = activeOf(q) \cup {f.v}
          /\ \A y : pendingOf(Append(q, f), y) = pendingOf(q, y) \cup (IF y = f.v THEN f.rest ELSE {})
          /\ \A d : inOrder(Append(q, f), d) <=> inOrder(q, d) /\ \A x \in activeOf(q) : d[x] < d[f.v]
    BY <1>3, FramePushed
  <2>4. /\ activeOf(frames) = {r} /\ pendingOf(frames, r) = adjacent(h, r) /\ inOrder(frames, dfsI)
    BY <1>3, <2>1, <2>2, <2>3
  <2> QED
    BY <1>1, <1>3, <2>4 DEF active, pending
<1>6. onStack = {r} /\ S \in Seq(Tasks(h)) /\ \A i, j \in DOMAIN S : ~ (i < j)
  BY <1>1, <1>2 DEF onStack, Range
<1>7. TarjanType /\ Numbering
  BY <1>1, <1>2, <1>4, <1>5, <1>6 DEF TarjanType, Numbering
<1>8. Paths /\ SeenEdges /\ LowlinkReached /\ LowlinkLeast
  BY <1>1, <1>2, <1>5, <1>6 DEF Paths, SeenEdges, LowlinkReached, LowlinkLeast
<1> QED
  BY <1>1, <1>4, <1>7, <1>8 DEF IInv, TarjanInv, r

(* What holds of the components once tarjan has returned.                  *)
LEMMA AllNumbered ==
  ASSUME IInv, pc # "tarjan"
  PROVE  /\ ComponentsInv /\ taskToSCC \in [Tasks(h) -> SCCs] /\ IsFiniteSet(SCCs) /\ SCCs \subseteq Nat
         /\ \A t : adjacent(h, t) \subseteq Tasks(h)
         /\ \A t \in Tasks(h) : \A u \in adjacent(h, t) : taskToSCC[u] <= taskToSCC[t]
         /\ \A t, u \in Tasks(h) :
              taskToSCC[t] = taskToSCC[u] <=> u \in reach(h, t) /\ t \in reach(h, u)
<1>1. numbered = Tasks(h) /\ ComponentsInv /\ h \in Problems
  BY DEF IInv
<1>2. taskToSCC \in [Tasks(h) -> SCCs]
  BY <1>1 DEF ComponentsInv, numbered
<1>3. IsFiniteSet(SCCs) /\ SCCs \subseteq Nat
  BY <1>1, FS_Interval DEF ComponentsInv, SCCs
<1> QED
  BY <1>1, <1>2, <1>3, ProblemFacts DEF ComponentsInv

(* As many edges leave a component as there are components below it.       *)
edgesFrom(G, a) == {e \in G : e[1] = a}
endsFrom(G, a)  == {e[2] : e \in {x \in G : x[1] = a}}

LEMMA EdgesCounted ==
  ASSUME NEW A, NEW B, IsFiniteSet(B), NEW G \in SUBSET (A \X B), NEW a
  PROVE  Cardinality(edgesFrom(G, a)) = Cardinality(endsFrom(G, a))
<1> USE DEF edgesFrom, endsFrom
<1> DEFINE X == edgesFrom(G, a)
           Y == endsFrom(G, a)
           f == [y \in Y |-> <<a, y>>]
<1>1. IsFiniteSet(Y)
  <2>1. Y \subseteq B
    OBVIOUS
  <2> QED
    BY <2>1, FS_Subset
<1>2. \A y \in Y : <<a, y>> \in X
  OBVIOUS
<1>3. \A x \in X : x[2] \in Y /\ x = <<a, x[2]>>
  OBVIOUS
<1> HIDE DEF X, Y
<1>4. f \in Bijection(Y, X)
  <2>1. f \in [Y -> X]
    BY <1>2
  <2>2. \A y, z \in Y : f[y] = f[z] => y = z
    OBVIOUS
  <2>3. \A x \in X : \E y \in Y : f[y] = x
    BY <1>3
  <2> HIDE DEF f
  <2> QED
    BY <2>1, <2>2, <2>3 DEF Bijection, Injection, IsInjective, Surjection
<1>5. Cardinality(X) = Cardinality(Y)
  BY <1>1, <1>4, FS_Bijection DEF ExistsBijection
<1> QED
  BY <1>5 DEF X, Y

LEMMA ConstructInv == ASSUME IInv, ConstructSCCGraph PROVE IInv'
<1> DEFINE graph == {e \in SCCs \X SCCs :
                       /\ e[1] # e[2]
                       /\ \E t \in sccToTasks(e[1]), u \in sccToTasks(e[2]) : u \in adjacent(h, t)}
           edges == {<<taskToSCC[x[1]], taskToSCC[x[2]]>> :
                       x \in {y \in Tasks(h) \X Tasks(h) : y[2] \in adjacent(h, y[1])}}
<1>1. /\ pc = "graph" /\ pc' = "reach" /\ h' = h /\ numSCCs' = numSCCs /\ taskToSCC' = taskToSCC
      /\ sccG' = {e \in edges : e[1] # e[2]}
      /\ ready' = [scc \in SCCs |-> Cardinality({e \in sccG' : e[1] = scc})]
      /\ stack' = {scc \in SCCs : \A e \in sccG' : e[1] # scc}
      /\ DOMAIN reachable' = {}
  BY DEF ConstructSCCGraph, tarjanVars
<1>2. taskToSCC \in [Tasks(h) -> SCCs] /\ IsFiniteSet(SCCs) /\ \A t : adjacent(h, t) \subseteq Tasks(h)
  BY <1>1, AllNumbered
<1>3. sccG' = graph
  <2>1. ASSUME NEW e \in edges, e[1] # e[2] PROVE e \in graph
    BY <1>2, <2>1 DEF sccToTasks
  <2>2. ASSUME NEW e \in graph PROVE e \in edges
    <3>1. PICK t \in Tasks(h), u \in Tasks(h) : taskToSCC[t] = e[1] /\ taskToSCC[u] = e[2] /\ u \in adjacent(h, t)
      BY <2>2 DEF sccToTasks
    <3>2. <<t, u>> \in {y \in Tasks(h) \X Tasks(h) : y[2] \in adjacent(h, y[1])}
      BY <3>1
    <3>3. e = <<taskToSCC[<<t, u>>[1]], taskToSCC[<<t, u>>[2]]>>
      BY <2>2, <3>1
    <3> QED
      BY <3>2, <3>3
  <2>3. \A e \in graph : e[1] # e[2]
    OBVIOUS
  <2> HIDE DEF graph, edges
  <2> QED
    BY <1>1, <2>1, <2>2, <2>3
<1>4. GraphInv'
  BY <1>1, <1>3 DEF GraphInv, SCCs, sccToTasks
<1>5. sccG' \in SUBSET (SCCs \X SCCs)
  BY <1>3
<1> HIDE DEF graph, edges
<1>6. \A scc : openSuccs(scc)' = {e[2] : e \in {x \in sccG' : x[1] = scc}} /\ ~ known(scc)'
  BY <1>1 DEF openSuccs, known, sccGsucc
<1>7. ASSUME NEW scc \in SCCs
      PROVE  /\ ready'[scc] = Cardinality(openSuccs(scc)') /\ ready'[scc] \in Nat
             /\ scc \in stack' <=> ready'[scc] = 0
  <2> DEFINE out == {e[2] : e \in {x \in sccG' : x[1] = scc}}
  <2>1. ready'[scc] = Cardinality(out)
    <3>1. Cardinality(edgesFrom(sccG', scc)) = Cardinality(endsFrom(sccG', scc))
      BY <1>2, <1>5, EdgesCounted
    <3>2. out = endsFrom(sccG', scc)
      BY DEF endsFrom
    <3>3. ready'[scc] = Cardinality(edgesFrom(sccG', scc))
      BY <1>1 DEF edgesFrom
    <3> QED
      BY <3>1, <3>2, <3>3
  <2>2. out \subseteq SCCs
    BY <1>5
  <2>3. scc \in stack' <=> out = {}
    BY <1>1
  <2> HIDE DEF out
  <2>4. IsFiniteSet(out)
    BY <1>2, <2>2, FS_Subset
  <2>5. Cardinality(out) \in Nat /\ (Cardinality(out) = 0 <=> out = {})
    BY <2>4, FS_CardinalityType, FS_EmptySet
  <2> QED
    BY <1>6, <2>1, <2>3, <2>5 DEF out
<1>8. SCCs' = SCCs
  BY <1>1 DEF SCCs
<1>9. ready' \in [SCCs -> Nat] /\ stack' \subseteq SCCs
  BY <1>1, <1>7
<1>10. ReachInv'
  BY <1>1, <1>6, <1>7, <1>8, <1>9 DEF ReachInv
<1>11. ComponentsInv' /\ numbered' = Tasks(h)
  BY <1>1, <1>8, SameNumbers DEF IInv, ComponentsInv, sccToTasks
<1> QED
  BY <1>1, <1>4, <1>10, <1>11 DEF IInv
-----------------------------------------------------------------------------
someTask(scc) == CHOOSE t \in sccToTasks(scc) : TRUE

(* A task reaches its component and what the components below reach.       *)
LEMMA ComponentReach ==
  ASSUME IInv, pc # "tarjan", GraphInv, NEW t \in Tasks(h)
  PROVE  reach(h, t) = sccToTasks(taskToSCC[t]) \cup
                       UNION {reach(h, someTask(n)) : n \in sccGsucc(taskToSCC[t])}
<1> DEFINE scc == taskToSCC[t]
           T == sccToTasks(scc) \cup UNION {reach(h, someTask(n)) : n \in sccGsucc(scc)}
<1>1. /\ ComponentsInv /\ taskToSCC \in [Tasks(h) -> SCCs]
      /\ \A x \in Tasks(h), u \in Tasks(h) :
           taskToSCC[x] = taskToSCC[u] <=> u \in reach(h, x) /\ x \in reach(h, u)
      /\ \A x : adjacent(h, x) \subseteq Tasks(h)
  BY AllNumbered
<1>2. /\ \A x : reach(h, x) \subseteq Tasks(h)
      /\ \A x \in Tasks(h) : x \in reach(h, x)
      /\ \A x \in Tasks(h) : adjacent(h, x) \subseteq reach(h, x)
      /\ \A x, u \in Tasks(h) : u \in reach(h, x) => reach(h, u) \subseteq reach(h, x)
      /\ \A X \in SUBSET Tasks(h) : \A x \in X : closedIn(h, X) => reach(h, x) \subseteq X
  BY <1>1, ReachFacts
<1>3. \A n \in SCCs : someTask(n) \in Tasks(h) /\ taskToSCC[someTask(n)] = n
  <2>1. \A n \in SCCs : someTask(n) \in sccToTasks(n)
    BY <1>1 DEF ComponentsInv, someTask
  <2> QED
    BY <2>1 DEF sccToTasks
<1>4. scc \in SCCs /\ sccGsucc(scc) \subseteq SCCs
  BY <1>1 DEF GraphInv, sccGsucc
<1> HIDE DEF scc
<1>5. t \in sccToTasks(scc) /\ \A u \in sccToTasks(scc) : u \in Tasks(h) /\ u \in reach(h, t)
  BY <1>1 DEF sccToTasks, scc
<1>6. ASSUME NEW n \in sccGsucc(scc) PROVE someTask(n) \in reach(h, t)
  <2>1. PICK x \in Tasks(h), u \in Tasks(h) : taskToSCC[x] = scc /\ taskToSCC[u] = n /\ u \in adjacent(h, x)
    BY <1>6 DEF GraphInv, sccGsucc, sccToTasks
  <2>2. x \in reach(h, t) /\ u \in reach(h, x)
    BY <1>2, <1>5, <2>1 DEF sccToTasks
  <2>3. someTask(n) \in reach(h, u) /\ someTask(n) \in Tasks(h)
    BY <1>1, <1>3, <1>4, <1>6, <2>1
  <2> QED
    BY <1>2, <2>1, <2>2, <2>3
<1>7. T \subseteq reach(h, t)
  BY <1>2, <1>3, <1>4, <1>5, <1>6
<1>8. closedIn(h, T)
  <2>1. ASSUME NEW u \in sccToTasks(scc), NEW x \in adjacent(h, u) PROVE x \in T
    <3>1. u \in Tasks(h) /\ x \in Tasks(h) /\ taskToSCC[u] = scc
      BY <1>1, <2>1 DEF sccToTasks
    <3>2. CASE taskToSCC[x] = scc
      BY <3>1, <3>2 DEF sccToTasks
    <3>3. CASE taskToSCC[x] # scc
      <4> DEFINE n == taskToSCC[x]
      <4>1. n \in SCCs /\ x \in sccToTasks(n)
        BY <1>1, <3>1 DEF sccToTasks
      <4>2. <<scc, n>> \in sccG
        BY <1>4, <2>1, <3>3, <4>1 DEF GraphInv
      <4>3. n \in sccGsucc(scc)
        BY <4>2 DEF sccGsucc
      <4>4. x \in reach(h, someTask(n))
        BY <1>1, <1>3, <3>1, <4>1
      <4> QED
        BY <4>3, <4>4
    <3> QED
      BY <3>2, <3>3
  <2>2. ASSUME NEW n \in sccGsucc(scc), NEW u \in reach(h, someTask(n)), NEW x \in adjacent(h, u)
        PROVE  x \in T
    <3>1. u \in Tasks(h) /\ someTask(n) \in Tasks(h)
      BY <1>2, <1>3, <1>4, <2>2
    <3>2. x \in reach(h, someTask(n))
      BY <1>2, <2>2, <3>1
    <3> QED
      BY <3>2
  <2> QED
    BY <2>1, <2>2 DEF closedIn
<1>9. T \subseteq Tasks(h) /\ t \in T
  BY <1>2, <1>5, <1>7
<1> HIDE DEF T
<1>10. reach(h, t) \subseteq T
  BY <1>2, <1>8, <1>9
<1> QED
  BY <1>7, <1>10 DEF T, scc

LEMMA ReachComponentInv == ASSUME IInv, NEW scc \in stack, ReachComponent(scc) PROVE IInv'
<1> DEFINE own == {t \in sccToTasks(scc) : t < lastMaintained}
           ready_ == [x \in SCCs |-> IF x \in sccGpred(scc) THEN ready[x] - 1 ELSE ready[x]]
<1>1. /\ pc = "reach" /\ pc' = pc /\ h' = h /\ lastMaintained' = lastMaintained
      /\ numSCCs' = numSCCs /\ taskToSCC' = taskToSCC /\ sccG' = sccG
      /\ reachable' = [t \in DOMAIN reachable \cup sccToTasks(scc) |->
                         IF t \in sccToTasks(scc) THEN own \cup below(scc) ELSE reachable[t]]
      /\ ready' = ready_
      /\ stack' = (stack \ {scc}) \cup {x \in sccGpred(scc) : ready_[x] = 0}
  BY DEF ReachComponent, tarjanVars
<1>2. /\ ComponentsInv /\ taskToSCC \in [Tasks(h) -> SCCs] /\ IsFiniteSet(SCCs)
      /\ GraphInv /\ ReachInv
  BY <1>1, AllNumbered DEF IInv
<1>3. /\ scc \in SCCs /\ ready[scc] = 0 /\ ~ known(scc) /\ sccG \subseteq SCCs \X SCCs
      /\ \A e \in sccG : e[1] # e[2]
  BY <1>2 DEF ReachInv, GraphInv
<1>4. \A x : sccGsucc(x) \subseteq SCCs /\ sccGpred(x) \subseteq SCCs /\ x \notin sccGpred(x)
  BY <1>3 DEF sccGsucc, sccGpred
<1>5. \A x : IsFiniteSet(openSuccs(x))
  BY <1>2, <1>4, FS_Subset DEF openSuccs
<1>6. openSuccs(scc) = {}
  BY <1>2, <1>3, <1>5, FS_EmptySet DEF ReachInv
<1>7. /\ h' = h /\ sccToTasks(scc) # {} /\ SCCs' = SCCs
      /\ \A x : sccGsucc(x)' = sccGsucc(x) /\ sccToTasks(x)' = sccToTasks(x)
  BY <1>1, <1>2, <1>3 DEF SCCs, sccGsucc, sccToTasks, ComponentsInv
<1> HIDE DEF own, ready_
<1>8. DOMAIN reachable' = DOMAIN reachable \cup sccToTasks(scc)
  BY <1>1
<1>9. \A x : known(x)' <=> known(x) \/ x = scc
  BY <1>7, <1>8 DEF known, sccToTasks
<1>10. \A x : openSuccs(x)' = openSuccs(x) \ {scc}
  BY <1>7, <1>9 DEF openSuccs
<1>11. \A x \in SCCs : scc \in openSuccs(x) <=> x \in sccGpred(scc)
  BY <1>3 DEF openSuccs, sccGsucc, sccGpred
<1>12. ASSUME NEW x \in SCCs
       PROVE  /\ ready'[x] = Cardinality(openSuccs(x)') /\ ready'[x] \in Nat
              /\ x \in sccGpred(scc) => ready[x] > 0 /\ ready'[x] = ready[x] - 1
              /\ x \notin sccGpred(scc) => ready'[x] = ready[x]
  <2>1. ready[x] \in Nat /\ ready[x] = Cardinality(openSuccs(x))
    BY <1>2 DEF ReachInv
  <2>2. ready'[x] = IF x \in sccGpred(scc) THEN ready[x] - 1 ELSE ready[x]
    BY <1>1 DEF ready_
  <2>3. CASE x \in sccGpred(scc)
    <3>1. scc \in openSuccs(x)
      BY <1>11, <2>3
    <3>2. /\ Cardinality(openSuccs(x) \ {scc}) = ready[x] - 1
          /\ Cardinality(openSuccs(x) \ {scc}) \in Nat
      BY <1>5, <2>1, <3>1, FS_RemoveElement, FS_Subset, FS_CardinalityType
    <3> QED
      BY <1>10, <2>1, <2>2, <2>3, <3>2
  <2>4. CASE x \notin sccGpred(scc)
    <3>1. openSuccs(x) \ {scc} = openSuccs(x)
      BY <1>11, <2>4
    <3> QED
      BY <1>10, <2>1, <2>2, <2>4, <3>1
  <2> QED
    BY <2>3, <2>4
<1>13. ready' \in [SCCs -> Nat]
  <2>1. ready' = [x \in SCCs |-> ready'[x]]
    BY <1>1 DEF ready_
  <2> QED
    BY <1>12, <2>1
<1>14. ASSUME NEW x \in SCCs PROVE x \in stack' <=> ready'[x] = 0 /\ ~ known(x)'
  <2>1. /\ x \in stack <=> ready[x] = 0 /\ ~ known(x)
        /\ known(x) => ready[x] = 0
    BY <1>2 DEF ReachInv
  <2>2. x \in stack' <=> (x \in stack /\ x # scc) \/ (x \in sccGpred(scc) /\ ready'[x] = 0)
    BY <1>1
  <2> QED
    BY <1>4, <1>9, <1>12, <2>1, <2>2
<1>15. ASSUME NEW x \in SCCs, known(x)' PROVE ready'[x] = 0 /\ sccToTasks(x)' \subseteq DOMAIN reachable'
  BY <1>2, <1>3, <1>4, <1>7, <1>8, <1>9, <1>12, <1>15 DEF ReachInv
<1>16. ASSUME NEW t \in DOMAIN reachable'
       PROVE  t \in Tasks(h) /\ reachable'[t] = {u \in reach(h, t) : u < lastMaintained}
  <2>1. CASE t \in sccToTasks(scc)
    <3>1. t \in Tasks(h) /\ taskToSCC[t] = scc
      BY <2>1 DEF sccToTasks
    <3>2. reach(h, t) = sccToTasks(scc) \cup UNION {reach(h, someTask(n)) : n \in sccGsucc(scc)}
      BY <1>1, <1>2, <3>1, ComponentReach
    <3>3. \A n \in sccGsucc(scc) :
            /\ someTask(n) \in DOMAIN reachable
            /\ reachable[someTask(n)] = {u \in reach(h, someTask(n)) : u < lastMaintained}
      <4>1. ASSUME NEW n \in sccGsucc(scc) PROVE someTask(n) \in DOMAIN reachable
        <5>1. known(n) /\ n \in SCCs
          BY <1>4, <1>6, <4>1 DEF openSuccs
        <5>2. someTask(n) \in sccToTasks(n)
          BY <5>1 DEF someTask, known
        <5> QED
          BY <1>2, <5>1, <5>2 DEF ReachInv
      <4> QED
        BY <1>2, <4>1 DEF ReachInv
    <3>4. below(scc) = UNION {reachable[someTask(n)] : n \in sccGsucc(scc)}
      BY DEF below, someTask
    <3>5. reachable'[t] = own \cup below(scc)
      BY <1>1, <2>1
    <3>6. below(scc) = {u \in UNION {reach(h, someTask(n)) : n \in sccGsucc(scc)} : u < lastMaintained}
      BY <3>3, <3>4
    <3> QED
      BY <3>1, <3>2, <3>5, <3>6 DEF own
  <2>2. CASE t \notin sccToTasks(scc)
    BY <1>1, <1>2, <1>8, <1>16, <2>2 DEF ReachInv
  <2> QED
    BY <2>1, <2>2
<1>17. ReachInv'
  <2>1. stack' \subseteq SCCs /\ DOMAIN reachable' \subseteq Tasks(h)
    BY <1>1, <1>2, <1>4, <1>16 DEF ReachInv
  <2> QED
    BY <1>1, <1>7, <1>12, <1>13, <1>14, <1>15, <1>16, <2>1 DEF ReachInv
<1>18. GraphInv'
  BY <1>1, <1>2, <1>7 DEF GraphInv
<1>19. ComponentsInv' /\ numbered' = Tasks(h)
  BY <1>1, <1>7, SameNumbers DEF IInv, ComponentsInv
<1> QED
  BY <1>1, <1>17, <1>18, <1>19 DEF IInv
-----------------------------------------------------------------------------
(* What follows the components leaves them alone.                          *)
LEMMA SameInv ==
  ASSUME IInv, pc # "tarjan", UNCHANGED <<h, lastMaintained, tarjanVars, reachVars>>,
         pc' \in {"graph", "reach", "implied", "done"},
         pc' # "graph" => pc # "graph", pc' \in {"implied", "done"} => stack = {}
  PROVE  IInv'
<1>1. /\ h' = h /\ lastMaintained' = lastMaintained /\ numSCCs' = numSCCs /\ taskToSCC' = taskToSCC
      /\ sccG' = sccG /\ ready' = ready /\ stack' = stack /\ reachable' = reachable
  BY DEF tarjanVars, reachVars
<1>2. numbered' = numbered /\ SCCs' = SCCs /\ \A x : sccToTasks(x)' = sccToTasks(x)
  BY <1>1, SameNumbers DEF SCCs, sccToTasks
<1>3. \A x : (known(x)' <=> known(x)) /\ openSuccs(x)' = openSuccs(x)
  <2>1. \A x : (known(x)' <=> known(x)) /\ sccGsucc(x)' = sccGsucc(x)
    BY <1>1, <1>2 DEF known, sccGsucc
  <2> QED
    BY <2>1 DEF openSuccs
<1>4. ComponentsInv'
  BY <1>1, <1>2 DEF IInv, ComponentsInv
<1>5. GraphInv => GraphInv'
  BY <1>1, <1>2 DEF GraphInv
<1>6. ReachInv => ReachInv'
  BY <1>1, <1>2, <1>3 DEF ReachInv
<1> QED
  BY <1>1, <1>2, <1>4, <1>5, <1>6 DEF IInv

LEMMA StepIInv == ASSUME IInv, [Next]_vars PROVE IInv'
<1>1. CASE \E v2 \in Tasks(h) : pc = "tarjan" /\ VisitNew(v2)
  <2>1. PICK w \in Tasks(h) : pc = "tarjan" /\ VisitNew(w)
    BY <1>1
  <2>2. /\ TarjanInv /\ h' = h /\ pc' = pc /\ numSCCs' = numSCCs /\ taskToSCC' = taskToSCC /\ U' = U \ {w}
    BY <2>1 DEF IInv, VisitNew
  <2>3. TarjanInv'
    BY <2>1, <2>2, VisitNewInv
  <2>4. ComponentsInv' /\ h.initialTask \notin U'
    BY <2>1, <2>2, SameNumbers DEF IInv, ComponentsInv, SCCs, sccToTasks
  <2> QED
    BY <2>1, <2>2, <2>3, <2>4 DEF IInv
<1>2. CASE \E v2 \in Tasks(h) : pc = "tarjan" /\ VisitSeen(v2)
  <2>1. PICK w \in Tasks(h) : pc = "tarjan" /\ VisitSeen(w)
    BY <1>2
  <2>2. /\ TarjanInv /\ h' = h /\ pc' = pc /\ numSCCs' = numSCCs /\ taskToSCC' = taskToSCC /\ U' = U
    BY <2>1 DEF IInv, VisitSeen
  <2>3. TarjanInv'
    BY <2>1, <2>2, VisitSeenInv
  <2>4. ComponentsInv' /\ h.initialTask \notin U'
    BY <2>1, <2>2, SameNumbers DEF IInv, ComponentsInv, SCCs, sccToTasks
  <2> QED
    BY <2>1, <2>2, <2>3, <2>4 DEF IInv
<1>3. CASE Return
  <2>1. pc = "tarjan" /\ TarjanInv /\ h.initialTask \notin U /\ h \in Problems
    BY <1>3 DEF Return, IInv
  <2>2. /\ h' = h /\ U' = U
        /\ frames' = << >> => pc' = "graph"
        /\ frames' # << >> => pc' = "tarjan"
    BY <1>3, <2>1, ReturnFacts
  <2>3. CASE frames' = << >>
    <3>1. ComponentsInv' /\ numbered' = Tasks(h)
      BY <1>3, <2>1, <2>3, ReturnEnds
    <3> QED
      BY <2>1, <2>2, <2>3, <3>1 DEF IInv
  <2>4. CASE frames' # << >>
    <3>1. ComponentsInv' /\ TarjanInv'
      BY <1>3, <2>1, <2>4, ReturnInv
    <3> QED
      BY <2>1, <2>2, <2>4, <3>1 DEF IInv
  <2> QED
    BY <2>3, <2>4
<1>4. CASE ConstructSCCGraph
  BY <1>4, ConstructInv
<1>5. CASE \E scc \in stack : ReachComponent(scc)
  BY <1>5, ReachComponentInv
<1>6. CASE EndReach \/ UpdateMethod \/ UpdateTask \/ EndImplied
  <2>1. /\ pc \in {"reach", "implied"} /\ UNCHANGED <<h, lastMaintained, tarjanVars, reachVars>>
        /\ pc' \in {"implied", "done"} /\ stack = {}
    BY <1>6 DEF EndReach, UpdateMethod, UpdateTask, EndImplied, IInv
  <2> QED
    BY <2>1, SameInv
<1>7. CASE UNCHANGED vars
  <2>1. CASE pc = "tarjan"
    <3>1. /\ h' = h /\ pc' = pc /\ TarjanInv /\ h.initialTask \notin U
          /\ frames' = frames /\ maxdfs' = maxdfs /\ U' = U /\ S' = S /\ dfsI' = dfsI /\ lowlink' = lowlink
          /\ numSCCs' = numSCCs /\ taskToSCC' = taskToSCC
      BY <1>7, <2>1 DEF vars, tarjanVars, IInv
    <3>2. numbered' = numbered /\ onStack' = onStack /\ active' = active /\ \A y : pending(y)' = pending(y)
      BY <3>1, SameNumbers DEF onStack, active, pending
    <3>3. TarjanInv'
      <4>1. TarjanType' /\ Numbering'
        BY <3>1, <3>2 DEF TarjanInv, TarjanType, Numbering, Frames
      <4>2. Paths' /\ SeenEdges'
        BY <3>1, <3>2 DEF TarjanInv, Paths, SeenEdges
      <4>3. LowlinkReached'
        BY <3>1, <3>2 DEF TarjanInv, LowlinkReached
      <4>4. LowlinkLeast'
        BY <3>1, <3>2 DEF TarjanInv, LowlinkLeast
      <4> QED
        BY <4>1, <4>2, <4>3, <4>4 DEF TarjanInv
    <3>4. ComponentsInv'
      BY <3>1, <3>2 DEF IInv, ComponentsInv, SCCs, sccToTasks
    <3> QED
      BY <2>1, <3>1, <3>3, <3>4 DEF IInv
  <2>2. CASE pc # "tarjan"
    <3>1. /\ UNCHANGED <<h, lastMaintained, tarjanVars, reachVars>> /\ pc' = pc
      BY <1>7 DEF vars
    <3>2. pc \in {"graph", "reach", "implied", "done"} /\ (pc \in {"implied", "done"} => stack = {})
      BY <2>2 DEF IInv
    <3> QED
      BY <2>2, <3>1, <3>2, SameInv
  <2> QED
    BY <2>1, <2>2
<1> QED
  BY <1>1, <1>2, <1>3, <1>4, <1>5, <1>6, <1>7 DEF Next, Terminating

LEMMA Invariance == Spec => []IInv
<1>1. Init => IInv
  BY InitInv
<1>2. IInv /\ [Next]_vars => IInv'
  BY StepIInv
<1> QED
  BY <1>1, <1>2, PTL DEF Spec
-----------------------------------------------------------------------------
LEMMA EdgesDescend ==
  ASSUME IInv, pc # "tarjan", GraphInv
  PROVE  \A e \in sccG : e \in SCCs \X SCCs /\ e[2] < e[1]
<1>1. /\ SCCs \subseteq Nat
      /\ \A t \in Tasks(h) : \A u \in adjacent(h, t) : taskToSCC[u] <= taskToSCC[t]
  BY AllNumbered
<1>2. ASSUME NEW e \in sccG PROVE e \in SCCs \X SCCs /\ e[2] < e[1]
  <2>1. PICK t \in Tasks(h), u \in Tasks(h) : taskToSCC[t] = e[1] /\ taskToSCC[u] = e[2] /\ u \in adjacent(h, t)
    BY <1>2 DEF GraphInv, sccToTasks
  <2>2. e \in SCCs \X SCCs /\ e[1] # e[2]
    BY <1>2 DEF GraphInv
  <2>3. e[2] <= e[1] /\ e[1] \in Nat /\ e[2] \in Nat
    BY <1>1, <2>1, <2>2
  <2> QED
    BY <2>2, <2>3
<1> QED
  BY <1>2

(* When no component waits, none is left: the least one would wait.        *)
LEMMA AllReached ==
  ASSUME IInv, pc # "tarjan", GraphInv, ReachInv, stack = {}
  PROVE  \A scc \in SCCs : known(scc) /\ ready[scc] = 0
<1> DEFINE left == {scc \in SCCs : ~ known(scc)}
<1>1. SUFFICES ASSUME left # {} PROVE FALSE
  BY DEF ReachInv
<1>2. IsFiniteSet(SCCs) /\ SCCs \subseteq Nat
  BY AllNumbered
<1>3. PICK n \in left : \A m \in left : n <= m
  BY <1>1, <1>2, LeastElement
<1>4. openSuccs(n) = {}
  <2>1. ASSUME NEW m \in openSuccs(n) PROVE m \in left /\ m < n
    <3>1. PICK e \in sccG : e[1] = n /\ e[2] = m
      BY <2>1 DEF openSuccs, sccGsucc
    <3> QED
      BY <2>1, <3>1, EdgesDescend DEF openSuccs
  <2> SUFFICES ASSUME NEW m \in openSuccs(n) PROVE FALSE
    OBVIOUS
  <2>2. m \in left /\ m < n
    BY <2>1
  <2>3. n <= m
    BY <1>3, <2>2
  <2>4. m \in Nat /\ n \in Nat
    BY <1>2, <1>3, <2>2
  <2> HIDE DEF left
  <2> QED
    BY <2>2, <2>3, <2>4
<1>5. ready[n] = 0
  BY <1>3, <1>4, FS_EmptySet DEF ReachInv
<1> QED
  BY <1>3, <1>5 DEF ReachInv

LEMMA ReachableIsExact == ASSUME IInv PROVE ReachableExact
<1> SUFFICES ASSUME pc = "implied" PROVE ReachableExact
  BY DEF ReachableExact
<1>1. GraphInv /\ ReachInv /\ stack = {} /\ h \in Problems
  BY DEF IInv
<1>2. /\ taskToSCC \in [Tasks(h) -> SCCs] /\ \A t : adjacent(h, t) \subseteq Tasks(h)
  BY AllNumbered
<1>3. \A scc \in SCCs : known(scc) /\ ready[scc] = 0
  BY <1>1, AllReached
<1>4. DOMAIN reachable = Tasks(h)
  <2>1. ASSUME NEW t \in Tasks(h) PROVE t \in DOMAIN reachable
    <3>1. taskToSCC[t] \in SCCs /\ t \in sccToTasks(taskToSCC[t])
      BY <1>2 DEF sccToTasks
    <3> QED
      BY <1>1, <1>3, <3>1 DEF ReachInv
  <2> QED
    BY <1>1, <2>1 DEF ReachInv
<1>5. ASSUME NEW t \in Tasks(h)
      PROVE  reachable[t] = {u \in Tasks(h) : u < lastMaintained /\ reaches(t, u)}
  <2>1. reachable[t] = {u \in reach(h, t) : u < lastMaintained}
    BY <1>1, <1>4 DEF ReachInv
  <2>2. reach(h, t) = {u \in Tasks(h) : reaches(t, u)}
    BY <1>1, Reaches DEF reach
  <2> QED
    BY <2>1, <2>2
<1> QED
  BY <1>3, <1>4, <1>5 DEF ReachableExact

LEMMA ComponentsAreExact == ASSUME IInv PROVE ComponentsExact
<1> SUFFICES ASSUME pc = "graph" PROVE ComponentsExact
  BY DEF ComponentsExact
<1>1. \A t, u \in Tasks(h) :
        taskToSCC[t] = taskToSCC[u] <=> u \in reach(h, t) /\ t \in reach(h, u)
  BY AllNumbered
<1> QED
  BY <1>1, Reaches DEF ComponentsExact, IInv
-----------------------------------------------------------------------------
(* The tasks from which no cycle can be reached.                           *)
noCycleBelow(t) == \A u \in reach(h, t) : \A x \in adjacent(h, u) : u \notin reach(h, x)

(* Components of such tasks have no cycle and none below them.             *)
LEMMA NoCycleUnfolds ==
  ASSUME IInv, pc # "tarjan", GraphInv, NEW scc \in SCCs
  PROVE  (\A t \in sccToTasks(scc) : noCycleBelow(t)) <=>
           /\ scc \notin sccsCyclic
           /\ \A n \in sccGsucc(scc) : \A t \in sccToTasks(n) : noCycleBelow(t)
<1>1. /\ ComponentsInv /\ taskToSCC \in [Tasks(h) -> SCCs]
      /\ \A x \in Tasks(h), u \in Tasks(h) :
           taskToSCC[x] = taskToSCC[u] <=> u \in reach(h, x) /\ x \in reach(h, u)
      /\ \A x : adjacent(h, x) \subseteq Tasks(h)
      /\ h \in Problems
  BY AllNumbered DEF IInv
<1>2. /\ \A x : reach(h, x) \subseteq Tasks(h)
      /\ \A x \in Tasks(h) : x \in reach(h, x)
      /\ \A x \in Tasks(h) : adjacent(h, x) \subseteq reach(h, x)
      /\ \A x, u \in Tasks(h) : u \in reach(h, x) => reach(h, u) \subseteq reach(h, x)
      /\ \A x \in Tasks(h) : reach(h, x) = {x} \cup UNION {reach(h, u) : u \in adjacent(h, x)}
  BY <1>1, ReachFacts, ReachUnfolds
<1>3. \A t, u \in Tasks(h) : u \in reach(h, t) /\ noCycleBelow(t) => noCycleBelow(u)
  BY <1>2 DEF noCycleBelow
<1>4. /\ \A t \in sccToTasks(scc) : t \in Tasks(h)
      /\ \A t, u \in sccToTasks(scc) : u \in reach(h, t)
      /\ IsFiniteSet(sccToTasks(scc)) /\ sccToTasks(scc) # {}
  <2>1. sccToTasks(scc) \subseteq Tasks(h) /\ IsFiniteSet(Tasks(h))
    BY <1>1, ProblemFacts DEF sccToTasks
  <2> QED
    BY <1>1, <2>1, FS_Subset DEF ComponentsInv, sccToTasks
<1>5. scc \in sccsCyclic <=> \/ \E t, u \in sccToTasks(scc) : t # u
                           \/ \E t \in sccToTasks(scc) : t \in adjacent(h, t)
  <2>1. PICK t \in sccToTasks(scc) : TRUE
    BY <1>4
  <2>2. /\ Cardinality(sccToTasks(scc)) \in Nat
        /\ Cardinality(sccToTasks(scc) \ {t}) = Cardinality(sccToTasks(scc)) - 1
        /\ Cardinality(sccToTasks(scc)) = 1 => sccToTasks(scc) = {t}
    BY <1>4, <2>1, OneLess
  <2>3. Cardinality(sccToTasks(scc) \ {t}) \in Nat
    BY <1>4, FS_Subset, FS_CardinalityType
  <2>4. Cardinality(sccToTasks(scc)) > 1 <=> sccToTasks(scc) # {t}
    <3>1. Cardinality({t}) = 1
      BY FS_Singleton
    <3>2. Cardinality(sccToTasks(scc)) >= 1
      BY <2>2, <2>3
    <3> QED
      BY <2>2, <3>1, <3>2
  <2>5. sccToTasks(scc) # {t} <=> \E x, y \in sccToTasks(scc) : x # y
    BY <2>1
  <2> QED
    BY <2>4, <2>5 DEF sccsCyclic
<1>6. ASSUME NEW t \in sccToTasks(scc), noCycleBelow(t)
      PROVE  /\ scc \notin sccsCyclic
             /\ \A n \in sccGsucc(scc) : \A u \in sccToTasks(n) : noCycleBelow(u)
  <2>1. \A y \in sccToTasks(scc) : y = t
    <3>1. SUFFICES ASSUME NEW y \in sccToTasks(scc), y # t PROVE FALSE
      OBVIOUS
    <3>2. y \in reach(h, t) /\ t \in reach(h, y)
      BY <1>4
    <3>3. PICK x \in adjacent(h, t) : y \in reach(h, x)
      BY <1>2, <1>4, <3>1, <3>2
    <3>4. t \in reach(h, x)
      BY <1>1, <1>2, <1>4, <3>2, <3>3
    <3> QED
      BY <1>2, <1>4, <1>6, <3>4 DEF noCycleBelow
  <2>2. t \notin adjacent(h, t)
    BY <1>2, <1>4, <1>6 DEF noCycleBelow
  <2>3. scc \notin sccsCyclic
    BY <1>5, <2>1, <2>2
  <2>4. ASSUME NEW n \in sccGsucc(scc), NEW u \in sccToTasks(n) PROVE noCycleBelow(u)
    <3>1. PICK x \in Tasks(h), y \in Tasks(h) : taskToSCC[x] = scc /\ taskToSCC[y] = n /\ y \in adjacent(h, x)
      BY <2>4 DEF GraphInv, sccGsucc, sccToTasks
    <3>2. x = t /\ y \in reach(h, t)
      BY <1>2, <2>1, <3>1 DEF sccToTasks
    <3>3. u \in Tasks(h) /\ u \in reach(h, y)
      BY <1>1, <2>4, <3>1 DEF sccToTasks
    <3> QED
      BY <1>2, <1>3, <1>4, <1>6, <3>1, <3>2, <3>3
  <2> QED
    BY <2>3, <2>4
<1>7. ASSUME scc \notin sccsCyclic, \A n \in sccGsucc(scc) : \A u \in sccToTasks(n) : noCycleBelow(u),
             NEW t \in sccToTasks(scc)
      PROVE  noCycleBelow(t)
  <2>1. ASSUME NEW y \in adjacent(h, t) PROVE noCycleBelow(y) /\ t \notin reach(h, y)
    <3>1. y # t /\ y \notin sccToTasks(scc)
      BY <1>5, <1>7, <2>1
    <3>2. y \in Tasks(h) /\ t \in Tasks(h) /\ taskToSCC[t] = scc /\ taskToSCC[y] # scc
      BY <1>1, <1>4, <2>1, <3>1 DEF sccToTasks
    <3>3. <<scc, taskToSCC[y]>> \in sccG /\ y \in sccToTasks(taskToSCC[y])
      BY <1>1, <1>7, <2>1, <3>2 DEF GraphInv, sccToTasks
    <3>4. taskToSCC[y] \in sccGsucc(scc)
      BY <3>3 DEF sccGsucc
    <3>5. y \in reach(h, t)
      BY <1>2, <2>1, <3>2
    <3> QED
      BY <1>1, <1>7, <3>2, <3>3, <3>4, <3>5
  <2>2. ASSUME NEW u \in reach(h, t), NEW x \in adjacent(h, u) PROVE u \notin reach(h, x)
    <3>1. CASE u = t
      BY <2>1, <2>2, <3>1
    <3>2. CASE u # t
      <4>1. PICK y \in adjacent(h, t) : u \in reach(h, y)
        BY <1>2, <1>4, <1>7, <2>2, <3>2
      <4> QED
        BY <2>1, <2>2, <4>1 DEF noCycleBelow
    <3> QED
      BY <3>1, <3>2
  <2> QED
    BY <2>2 DEF noCycleBelow
<1> QED
  BY <1>4, <1>6, <1>7
-----------------------------------------------------------------------------
(* The loop over the components, in the order of their numbers, as a fold. *)
acyclicStep(y, x) ==
  IF (x - 1) \notin sccsCyclic /\ sccGsucc(x - 1) \subseteq y THEN y \cup {x - 1} ELSE y

isAcyclicFold(f) ==
  \A s \in SUBSET (1 .. numSCCs) :
    f[s] = IF s = {} THEN {} ELSE acyclicStep(f[s \ {Max(s)}], Max(s))

LEMMA GreatestNumber ==
  ASSUME NEW n \in Nat
  PROVE  /\ \A s \in SUBSET (1 .. n) : s # {} => Max(s) \in s
         /\ n > 0 => Max(1 .. n) = n
<1>1. ASSUME NEW s \in SUBSET (1 .. n), s # {} PROVE \E x \in s : \A y \in s : x >= y
  <2> DEFINE T == {n - x : x \in s}
  <2>1. T \in SUBSET Nat /\ T # {}
    <3>1. \A x \in s : n - x \in Nat
      BY <1>1
    <3> QED
      BY <1>1, <3>1
  <2>2. PICK m \in T : \A k \in T : m <= k
    <3> HIDE DEF T
    <3> QED
      BY <2>1, LeastElement
  <2>3. PICK x \in s : m = n - x
    BY <2>2
  <2>4. ASSUME NEW y \in s PROVE x >= y
    <3>1. n - x <= n - y
      BY <2>2, <2>3, <2>4
    <3> QED
      BY <1>1, <2>3, <2>4, <3>1
  <2> QED
    BY <2>4
<1>2. \A s \in SUBSET (1 .. n) : s # {} => Max(s) \in s
  BY <1>1 DEF Max
<1>3. ASSUME n > 0 PROVE Max(1 .. n) = n
  <2>1. n \in 1 .. n /\ \A y \in 1 .. n : n >= y
    BY <1>3
  <2>2. Max(1 .. n) \in 1 .. n /\ \A y \in 1 .. n : Max(1 .. n) >= y
    BY <2>1 DEF Max
  <2> QED
    BY <2>1, <2>2
<1> QED
  BY <1>2, <1>3

LEMMA AcyclicIsFold ==
  ASSUME numSCCs \in Nat
  PROVE  \E f : isAcyclicFold(f) /\ sccIsAcyclic = f[1 .. numSCCs]
<1> DEFINE D      == 1 .. numSCCs
           order  == [i \in 1 .. numSCCs |-> i]
           nexts(f) == [s \in SUBSET D |->
                          IF s = {} THEN {} ELSE acyclicStep(f[s \ {Max(s)}], Max(s))]
           found(f) == [s \in SUBSET DOMAIN order |->
                          IF s = {} THEN {} ELSE acyclicStep(f[s \ {Max(s)}], order[Max(s)])]
<1>1. DOMAIN order = D /\ \A s \in SUBSET D : s # {} => order[Max(s)] = Max(s)
  BY GreatestNumber
<1>2. sccIsAcyclic = (CHOOSE f : f = found(f))[DOMAIN order]
  BY DEF sccIsAcyclic, FoldLeft, MapThenFoldSet, acyclicStep
<1>3. \A f : nexts(f) = found(f)
  <2> HIDE DEF order, D
  <2> QED
    BY <1>1
<1>4. \E f : f = nexts(f)
  <2> DEFINE W    == SUBSET Nat
             pick == [s \in SUBSET D |-> Max(s)]
             step == [x \in D |-> [y \in W |-> acyclicStep(y, x)]]
  <2>1. \A x \in D : \A y \in W : acyclicStep(y, x) \in W
    BY DEF acyclicStep
  <2>2. step \in [D -> [W -> W]]
    BY <2>1
  <2>3. {} \in W /\ IsFiniteSet(D) /\ \A s \in SUBSET D : s # {} => pick[s] \in s
    <3>1. \A s \in SUBSET D : s # {} => Max(s) \in s
      BY GreatestNumber
    <3>2. IsFiniteSet(D)
      BY FS_Interval
    <3>3. \A s \in SUBSET D : s # {} => pick[s] \in s
      BY <3>1
    <3> QED
      BY <3>2, <3>3
  <2>4. PICK f : IsFoldBy(f, pick, D, W, {}, step)
    <3> HIDE DEF D, W, pick, step
    <3> QED
      BY <2>2, <2>3, FoldByExists
  <2>5. ASSUME NEW s \in SUBSET D, s # {} PROVE f[s] = acyclicStep(f[s \ {Max(s)}], Max(s))
    <3>1. pick[s] = Max(s) /\ Max(s) \in D
      BY <2>3, <2>5
    <3>2. f[s] = step[Max(s)][f[s \ {Max(s)}]] /\ f[s \ {Max(s)}] \in W
      <4> HIDE DEF D, W, pick, step
      <4> QED
        BY <2>4, <2>5, <3>1 DEF IsFoldBy
    <3> QED
      BY <3>1, <3>2
  <2>6. f \in [SUBSET D -> W] /\ f[{}] = {}
    BY <2>4 DEF IsFoldBy
  <2>7. f = nexts(f)
    <3>1. \A s \in SUBSET D : f[s] = IF s = {} THEN {} ELSE acyclicStep(f[s \ {Max(s)}], Max(s))
      BY <2>5, <2>6
    <3> HIDE DEF D, W
    <3> QED
      BY <2>6, <3>1
  <2> QED
    BY <2>7
<1>5. PICK f : f = nexts(f) /\ sccIsAcyclic = f[D]
  <2> HIDE DEF order, D, nexts, found
  <2>1. \E f : f = found(f)
    BY <1>3, <1>4
  <2> QED
    BY <1>1, <1>2, <1>3, <2>1
<1> QED
  BY <1>5 DEF isAcyclicFold

noCycleIn(scc)  == \A t \in sccToTasks(scc) : noCycleBelow(t)
acyclicBelow(k) == {scc \in SCCs : scc < k /\ noCycleIn(scc)}

LEMMA AcyclicUpTo ==
  ASSUME IInv, pc = "done", NEW f, isAcyclicFold(f)
  PROVE  \A k \in 0 .. numSCCs : f[1 .. k] = acyclicBelow(k)
<1> DEFINE Done == {k \in Nat : k <= numSCCs => f[1 .. k] = acyclicBelow(k)}
<1>1. numSCCs \in Nat /\ SCCs \subseteq Nat /\ GraphInv
  BY AllNumbered DEF IInv, ComponentsInv
<1>2. 0 \in Done
  <2>1. 1 .. 0 = {} /\ 1 .. 0 \in SUBSET (1 .. numSCCs)
    OBVIOUS
  <2>2. f[1 .. 0] = {}
    BY <2>1 DEF isAcyclicFold
  <2>3. acyclicBelow(0) = {}
    <3>1. \A scc \in SCCs : ~ (scc < 0)
      BY <1>1
    <3> QED
      BY <3>1 DEF acyclicBelow
  <2> QED
    BY <2>2, <2>3
<1>3. ASSUME NEW k \in Nat, f[1 .. k] = acyclicBelow(k), k + 1 <= numSCCs
      PROVE  f[1 .. (k + 1)] = acyclicBelow(k + 1)
  <2>1. k \in SCCs /\ 1 .. (k + 1) \in SUBSET (1 .. numSCCs) /\ 1 .. (k + 1) # {}
    <3>1. k <= numSCCs - 1 /\ k + 1 \in 1 .. (k + 1)
      BY <1>1, <1>3
    <3>2. \A x \in 1 .. (k + 1) : x \in 1 .. numSCCs
      BY <1>1, <1>3
    <3> QED
      BY <1>1, <3>1, <3>2 DEF SCCs
  <2>2. Max(1 .. (k + 1)) = k + 1
    BY <1>3, GreatestNumber
  <2>3. (1 .. (k + 1)) \ {k + 1} = 1 .. k
    BY <1>3
  <2>4. f[1 .. (k + 1)] = acyclicStep(f[1 .. k], k + 1)
    BY <1>3, <2>1, <2>2, <2>3 DEF isAcyclicFold
  <2>5. f[1 .. k] = acyclicBelow(k)
    BY <1>3
  <2>6. (k + 1) - 1 = k
    BY <1>3
  <2>7. f[1 .. (k + 1)] = IF k \notin sccsCyclic /\ sccGsucc(k) \subseteq acyclicBelow(k)
                          THEN acyclicBelow(k) \cup {k} ELSE acyclicBelow(k)
    BY <2>4, <2>5, <2>6 DEF acyclicStep
  <2>8. sccGsucc(k) \subseteq acyclicBelow(k) <=> \A n \in sccGsucc(k) : noCycleIn(n)
    <3>1. \A n \in sccGsucc(k) : n \in SCCs /\ n < k
      BY <1>1, EdgesDescend DEF sccGsucc
    <3> QED
      BY <3>1 DEF acyclicBelow
  <2>9. noCycleIn(k) <=> k \notin sccsCyclic /\ \A n \in sccGsucc(k) : noCycleIn(n)
    BY <1>1, <2>1, NoCycleUnfolds DEF noCycleIn
  <2>10. acyclicBelow(k + 1) = IF noCycleIn(k) THEN acyclicBelow(k) \cup {k} ELSE acyclicBelow(k)
    <3>1. ASSUME NEW scc \in SCCs PROVE scc < k + 1 <=> scc < k \/ scc = k
      <4>1. scc \in Nat
        BY <1>1
      <4> QED
        BY <1>3, <4>1
    <3> QED
      BY <2>1, <3>1 DEF acyclicBelow
  <2> QED
    BY <2>7, <2>8, <2>9, <2>10
<1>4. Nat \subseteq Done
  <2>1. ASSUME NEW k \in Nat, k \in Done PROVE k + 1 \in Done
    <3>1. CASE k + 1 <= numSCCs
      <4>1. k <= numSCCs
        BY <1>1, <3>1
      <4>2. f[1 .. k] = acyclicBelow(k)
        BY <2>1, <4>1
      <4> QED
        BY <1>3, <3>1, <4>2
    <3>2. CASE ~ (k + 1 <= numSCCs)
      BY <2>1, <3>2
    <3> QED
      BY <3>1, <3>2
  <2> HIDE DEF Done
  <2> QED
    BY <1>2, <2>1, Induction
<1> QED
  BY <1>1, <1>4

LEMMA AcyclicityIsExact == ASSUME IInv PROVE AcyclicityExact
<1> SUFFICES ASSUME pc = "done" PROVE AcyclicityExact
  BY DEF AcyclicityExact
<1>1. /\ numSCCs \in Nat /\ SCCs \subseteq Nat /\ GraphInv
      /\ taskToSCC \in [Tasks(h) -> SCCs]
      /\ \A t, u \in Tasks(h) :
           taskToSCC[t] = taskToSCC[u] <=> u \in reach(h, t) /\ t \in reach(h, u)
      /\ \A t : adjacent(h, t) \subseteq Tasks(h)
      /\ h \in Problems
  BY AllNumbered DEF IInv, ComponentsInv
<1>2. \A e \in sccG : e[2] < e[1]
  BY <1>1, EdgesDescend
<1>3. PICK f : isAcyclicFold(f) /\ sccIsAcyclic = f[1 .. numSCCs]
  BY <1>1, AcyclicIsFold
<1>4. sccIsAcyclic = {scc \in SCCs : noCycleIn(scc)}
  <2>1. numSCCs \in 0 .. numSCCs /\ \A scc \in SCCs : scc < numSCCs
    BY <1>1 DEF SCCs
  <2>2. f[1 .. numSCCs] = acyclicBelow(numSCCs)
    BY <1>3, <2>1, AcyclicUpTo
  <2> QED
    BY <1>3, <2>1, <2>2 DEF acyclicBelow
<1>5. ASSUME NEW t \in Tasks(h), NEW u \in Tasks(h), taskToSCC[u] = taskToSCC[t], noCycleBelow(t)
      PROVE  noCycleBelow(u)
  <2>1. reach(h, u) \subseteq reach(h, t)
    BY <1>1, <1>5, ReachFacts
  <2> QED
    BY <1>5, <2>1 DEF noCycleBelow
<1>6. ASSUME NEW t \in Tasks(h) PROVE taskToSCC[t] \in sccIsAcyclic <=> noCycleBelow(t)
  BY <1>1, <1>4, <1>5, <1>6 DEF sccToTasks, noCycleIn
<1>7. ASSUME NEW t \in Tasks(h)
      PROVE  noCycleBelow(t) <=>
               ~ \E u \in Tasks(h) : reaches(t, u) /\ \E x \in adjacent(h, u) : reaches(x, u)
  <2>1. \A x, u \in Tasks(h) : u \in reach(h, x) <=> reaches(x, u)
    BY <1>1, Reaches
  <2>2. reach(h, t) \subseteq Tasks(h)
    BY <1>1, ReachFacts
  <2> QED
    BY <1>1, <1>7, <2>1, <2>2 DEF noCycleBelow
<1> QED
  BY <1>2, <1>6, <1>7 DEF AcyclicityExact
-----------------------------------------------------------------------------
(***************************************************************************)
(* calcMinimalImpliedX.                                                    *)
(***************************************************************************)
Values      == [costs : Nat, distance : Nat]
MethodTasks == {h.methods[mi].task : mi \in Methods(h)}
Entries     == ({"method"} \X Methods(h)) \cup ({"task"} \X MethodTasks)

(* What a method sums up when its subtasks have the values v.              *)
sumOf(p, v, mi) ==
  joined([i \in DOMAIN p.methods[mi].subs |-> v[p.methods[mi].subs[i]]])

(* A task is never said to imply more than one of its methods, nor a       *)
(* method more than its subtasks do now: values only rise.                 *)
Rising(p, v, vM) ==
  /\ v \in [Tasks(p) -> Values] /\ vM \in [Methods(p) -> Values]
  /\ \A a \in Actions(p) : v[a] = [costs |-> p.cost[a], distance |-> 1]
  /\ \A mi \in Methods(p) : atMost(v[p.methods[mi].task], vM[mi]) /\ atMost(vM[mi], sumOf(p, v, mi))

ImpliedInv ==
  pc \in {"implied", "done"} => Rising(h, implied, impliedM) /\ queue \in Seq(Entries)

(* The subtasks of a method.                                               *)
LEMMA MethodFacts ==
  ASSUME h \in Problems
  PROVE  /\ IsFiniteSet(Methods(h))
         /\ Actions(h) \subseteq Tasks(h) /\ \A a \in Actions(h) : isPrimitive(h, a) /\ h.cost[a] \in Nat
         /\ \A t \in Tasks(h) : isPrimitive(h, t) => t \in Actions(h)
         /\ \A mi \in Methods(h) :
              /\ h.methods[mi].task \in Tasks(h) \ Actions(h)
              /\ h.methods[mi].subs \in Seq(Tasks(h))
              /\ IsFiniteSet(DOMAIN h.methods[mi].subs)
              /\ \A i \in DOMAIN h.methods[mi].subs : h.methods[mi].subs[i] \in Tasks(h)
<1>1. IsProblem(h)
  BY TaskGraphAssumption
<1>2. h.numActions \in Nat /\ h.numTasks \in Nat /\ h.numActions < h.numTasks
      /\ IsFiniteSet(Methods(h)) /\ h.cost \in [Actions(h) -> Nat]
  BY <1>1 DEF IsProblem
<1>3. /\ Actions(h) \subseteq Tasks(h) /\ \A a \in Actions(h) : isPrimitive(h, a)
      /\ \A t \in Tasks(h) : isPrimitive(h, t) => t \in Actions(h)
  BY <1>2 DEF Actions, Tasks, isPrimitive
<1>4. ASSUME NEW mi \in Methods(h)
      PROVE  /\ h.methods[mi].task \in Tasks(h) \ Actions(h)
             /\ h.methods[mi].subs \in Seq(Tasks(h))
             /\ IsFiniteSet(DOMAIN h.methods[mi].subs)
             /\ \A i \in DOMAIN h.methods[mi].subs : h.methods[mi].subs[i] \in Tasks(h)
  <2> DEFINE subs == h.methods[mi].subs
  <2>1. h.methods[mi].task \in Tasks(h) \ Actions(h) /\ subs \in Seq(Tasks(h))
    BY <1>1 DEF IsProblem, IsMethod
  <2> HIDE DEF subs
  <2>2. Len(subs) \in Nat /\ DOMAIN subs = 1 .. Len(subs) /\ \A i \in DOMAIN subs : subs[i] \in Tasks(h)
    BY <2>1
  <2>3. IsFiniteSet(DOMAIN subs)
    BY <2>2, FS_Interval
  <2> QED
    BY <2>1, <2>2, <2>3 DEF subs
<1> QED
  BY <1>2, <1>3, <1>4

(* Sums are not less where the summands are not.                           *)
LEMMA JoinedFacts ==
  ASSUME NEW D, IsFiniteSet(D), NEW x \in [D -> Values]
  PROVE  /\ joined(x) \in Values
         /\ \A y \in [D -> Values] : (\A i \in D : atMost(x[i], y[i])) => atMost(joined(x), joined(y))
<1> DEFINE c(z) == [i \in DOMAIN z |-> z[i].costs]
           d(z) == [i \in DOMAIN z |-> z[i].distance]
<1>1. \A z : joined(z) = [costs |-> Total(c(z), DOMAIN z), distance |-> 1 + Total(d(z), DOMAIN z)]
  BY DEF joined, Total
<1>2. \A z \in [D -> Values] : /\ DOMAIN z = D
                              /\ \A i \in D : c(z)[i] \in Nat /\ d(z)[i] \in Nat
                                              /\ c(z)[i] = z[i].costs /\ d(z)[i] = z[i].distance
  BY DEF Values
<1> HIDE DEF c, d
<1>3. \A z \in [D -> Values] : Total(c(z), D) \in Nat /\ Total(d(z), D) \in Nat
  BY <1>2, LowerTotal
<1>4. \A z \in [D -> Values] : joined(z) \in Values
  BY <1>1, <1>2, <1>3 DEF Values
<1>5. ASSUME NEW y \in [D -> Values], \A i \in D : atMost(x[i], y[i])
      PROVE  atMost(joined(x), joined(y))
  <2>1. \A i \in D : c(x)[i] <= c(y)[i] /\ d(x)[i] <= d(y)[i]
    BY <1>2, <1>5 DEF atMost
  <2>2. Total(c(x), D) <= Total(c(y), D) /\ Total(d(x), D) <= Total(d(y), D)
    BY <1>2, <2>1, LowerTotal
  <2> QED
    BY <1>1, <1>2, <1>3, <2>2 DEF atMost
<1> QED
  BY <1>4, <1>5

LEMMA SumIsJoined == \A mi : sumOverSubtasks(mi) = sumOf(h, implied, mi)
<1> TAKE mi
<1> DEFINE subs == h.methods[mi].subs
           x    == [i \in DOMAIN subs |-> implied[subs[i]]]
<1>1. /\ DOMAIN x = DOMAIN subs
      /\ [i \in DOMAIN x |-> x[i].costs] = [i \in DOMAIN subs |-> implied[subs[i]].costs]
      /\ [i \in DOMAIN x |-> x[i].distance] = [i \in DOMAIN subs |-> implied[subs[i]].distance]
  OBVIOUS
<1>2. joined(x) = [ costs |-> Total([i \in DOMAIN x |-> x[i].costs], DOMAIN x),
                    distance |-> 1 + Total([i \in DOMAIN x |-> x[i].distance], DOMAIN x) ]
  BY DEF joined, Total
<1>3. sumOverSubtasks(mi) =
        [ costs |-> Total([i \in DOMAIN subs |-> implied[subs[i]].costs], DOMAIN subs),
          distance |-> 1 + Total([i \in DOMAIN subs |-> implied[subs[i]].distance], DOMAIN subs) ]
  BY DEF sumOverSubtasks, Total
<1>4. sumOf(h, implied, mi) = joined(x)
  BY DEF sumOf
<1> QED
  BY <1>1, <1>2, <1>3, <1>4

(* The least of some values is one of them, and not more than any.         *)
leastOf(v, M) == Min({v[m] : m \in M})

LEMMA LeastOfValues ==
  ASSUME NEW M, M # {}, NEW v, \A m \in M : v[m] \in Nat
  PROVE  /\ leastOf(v, M) \in Nat
         /\ \A m \in M : leastOf(v, M) <= v[m]
         /\ \A b \in Nat : (\A m \in M : b <= v[m]) => b <= leastOf(v, M)
<1> DEFINE T == {v[m] : m \in M}
<1>1. T \in SUBSET Nat /\ T # {}
  OBVIOUS
<1>2. leastOf(v, M) = Min(T)
  BY DEF leastOf
<1> HIDE DEF T
<1>3. \E n \in T : \A k \in T : n <= k
  BY <1>1, LeastElement
<1>4. Min(T) \in T /\ \A k \in T : Min(T) <= k
  BY <1>3 DEF Min
<1> QED
  BY <1>1, <1>2, <1>4 DEF T

LEMMA AtMostTransitive ==
  \A x, y, z \in Values : atMost(x, y) /\ atMost(y, z) => atMost(x, z)
BY DEF atMost, Values

(* A method sums up no less when its subtasks imply no less.               *)
LEMMA SumsRise ==
  ASSUME h \in Problems, NEW v \in [Tasks(h) -> Values], NEW mi \in Methods(h)
  PROVE  /\ sumOf(h, v, mi) \in Values
         /\ \A w \in [Tasks(h) -> Values] :
              (\A t \in Tasks(h) : atMost(v[t], w[t])) => atMost(sumOf(h, v, mi), sumOf(h, w, mi))
<1> DEFINE subs == h.methods[mi].subs
           D    == DOMAIN subs
           of(w) == [i \in D |-> w[subs[i]]]
<1>1. IsFiniteSet(D) /\ \A i \in D : subs[i] \in Tasks(h)
  BY MethodFacts
<1>2. \A w \in [Tasks(h) -> Values] : of(w) \in [D -> Values]
  BY <1>1
<1>3. \A w : sumOf(h, w, mi) = joined(of(w))
  BY DEF sumOf
<1>4. \A w : \A i \in D : of(w)[i] = w[subs[i]]
  OBVIOUS
<1> HIDE DEF of, D
<1>5. of(v) \in [D -> Values]
  BY <1>2
<1>6. /\ joined(of(v)) \in Values
      /\ \A y \in [D -> Values] : (\A i \in D : atMost(of(v)[i], y[i])) => atMost(joined(of(v)), joined(y))
  BY <1>1, <1>5, JoinedFacts
<1>7. ASSUME NEW w \in [Tasks(h) -> Values], \A t \in Tasks(h) : atMost(v[t], w[t])
      PROVE  atMost(sumOf(h, v, mi), sumOf(h, w, mi))
  <2>1. of(w) \in [D -> Values] /\ \A i \in D : atMost(of(v)[i], of(w)[i])
    BY <1>1, <1>2, <1>4, <1>7
  <2> QED
    BY <1>3, <1>6, <2>1
<1> QED
  BY <1>3, <1>6, <1>7

(* The values as calcMinimalImpliedX starts with them.                     *)
LEMMA StartRises ==
  ASSUME h \in Problems,
         NEW v, v = [t \in Tasks(h) |-> IF isPrimitive(h, t) THEN [costs |-> h.cost[t], distance |-> 1]
                                        ELSE [costs |-> 0, distance |-> 0]],
         NEW vM, vM = [mi \in Methods(h) |-> [costs |-> 0, distance |-> 0]]
  PROVE  Rising(h, v, vM)
<1>1. v \in [Tasks(h) -> Values] /\ vM \in [Methods(h) -> Values]
  <2>1. \A t \in Tasks(h) : isPrimitive(h, t) => h.cost[t] \in Nat
    BY MethodFacts
  <2> QED
    BY <2>1 DEF Values
<1>2. \A a \in Actions(h) : v[a] = [costs |-> h.cost[a], distance |-> 1]
  BY MethodFacts
<1>3. ASSUME NEW mi \in Methods(h)
      PROVE  atMost(v[h.methods[mi].task], vM[mi]) /\ atMost(vM[mi], sumOf(h, v, mi))
  <2>1. h.methods[mi].task \in Tasks(h) /\ ~ isPrimitive(h, h.methods[mi].task)
    BY MethodFacts
  <2>2. v[h.methods[mi].task] = [costs |-> 0, distance |-> 0] /\ vM[mi] = [costs |-> 0, distance |-> 0]
    BY <2>1
  <2>3. sumOf(h, v, mi) \in Values
    BY <1>1, SumsRise
  <2> QED
    BY <2>2, <2>3 DEF atMost, Values
<1> QED
  BY <1>1, <1>2, <1>3 DEF Rising

(* A method takes the sum of its subtasks, a task the least of its methods.*)
LEMMA MethodRises ==
  ASSUME h \in Problems, Rising(h, implied, impliedM), NEW mi \in Methods(h)
  PROVE  Rising(h, implied, [impliedM EXCEPT ![mi] = sumOf(h, implied, mi)])
<1> DEFINE new == sumOf(h, implied, mi)
           vM  == [impliedM EXCEPT ![mi] = new]
<1>1. /\ implied \in [Tasks(h) -> Values] /\ impliedM \in [Methods(h) -> Values]
      /\ atMost(implied[h.methods[mi].task], impliedM[mi]) /\ atMost(impliedM[mi], new)
  BY DEF Rising
<1>2. new \in Values
  BY <1>1, SumsRise
<1>3. atMost(implied[h.methods[mi].task], new) /\ atMost(new, new)
  <2>1. implied[h.methods[mi].task] \in Values /\ impliedM[mi] \in Values
    BY <1>1, MethodFacts
  <2>2. atMost(implied[h.methods[mi].task], new)
    BY <1>1, <1>2, <2>1, AtMostTransitive
  <2> QED
    BY <1>2, <2>2 DEF atMost, Values
<1>4. vM \in [Methods(h) -> Values] /\ \A m \in Methods(h) : vM[m] = IF m = mi THEN new ELSE impliedM[m]
  BY <1>1, <1>2
<1>5. ASSUME NEW m \in Methods(h)
      PROVE  atMost(implied[h.methods[m].task], vM[m]) /\ atMost(vM[m], sumOf(h, implied, m))
  <2> HIDE DEF vM
  <2> QED
    BY <1>3, <1>4 DEF Rising
<1> HIDE DEF vM
<1>6. Rising(h, implied, vM)
  BY <1>4, <1>5 DEF Rising
<1> QED
  BY <1>6 DEF vM

LEMMA TaskRises ==
  ASSUME h \in Problems, Rising(h, implied, impliedM), NEW t \in MethodTasks
  PROVE  Rising(h, [implied EXCEPT ![t] = leastOfMethods(t)], impliedM)
<1> DEFINE new == leastOfMethods(t)
           v   == [implied EXCEPT ![t] = new]
           M   == taskToMethods(h, t)
<1>1. /\ implied \in [Tasks(h) -> Values] /\ impliedM \in [Methods(h) -> Values]
      /\ M # {} /\ M \subseteq Methods(h) /\ t \in Tasks(h) \ Actions(h)
  BY MethodFacts DEF Rising, MethodTasks, taskToMethods
<1>2. /\ new \in Values /\ atMost(implied[t], new)
      /\ \A m \in M : atMost(new, impliedM[m])
  <2> DEFINE c == [m \in M |-> impliedM[m].costs]
             d == [m \in M |-> impliedM[m].distance]
  <2>1. \A m \in M : /\ c[m] = impliedM[m].costs /\ d[m] = impliedM[m].distance
                     /\ c[m] \in Nat /\ d[m] \in Nat
    BY <1>1 DEF Values
  <2>2. {c[m] : m \in M} = {impliedM[m].costs : m \in M} /\ {d[m] : m \in M} = {impliedM[m].distance : m \in M}
    BY <2>1
  <2> HIDE DEF c, d
  <2>3. new = [costs |-> leastOf(c, M), distance |-> leastOf(d, M)]
    BY <2>2 DEF leastOfMethods, leastOf
  <2>4. /\ leastOf(c, M) \in Nat /\ \A m \in M : leastOf(c, M) <= c[m]
        /\ \A b \in Nat : (\A m \in M : b <= c[m]) => b <= leastOf(c, M)
    BY <1>1, <2>1, LeastOfValues
  <2>5. /\ leastOf(d, M) \in Nat /\ \A m \in M : leastOf(d, M) <= d[m]
        /\ \A b \in Nat : (\A m \in M : b <= d[m]) => b <= leastOf(d, M)
    BY <1>1, <2>1, LeastOfValues
  <2>6. \A m \in M : atMost(implied[t], impliedM[m])
    BY <1>1 DEF Rising, taskToMethods
  <2>7. implied[t].costs \in Nat /\ implied[t].distance \in Nat
    BY <1>1 DEF Values
  <2>8. \A m \in M : implied[t].costs <= c[m] /\ implied[t].distance <= d[m]
    BY <2>1, <2>6 DEF atMost
  <2>9. implied[t].costs <= leastOf(c, M) /\ implied[t].distance <= leastOf(d, M)
    BY <2>4, <2>5, <2>7, <2>8
  <2> HIDE DEF new, M
  <2> QED
    BY <2>1, <2>3, <2>4, <2>5, <2>9 DEF atMost, Values
<1> HIDE DEF new, M
<1>3. v \in [Tasks(h) -> Values] /\ \A x \in Tasks(h) : v[x] = IF x = t THEN new ELSE implied[x]
  BY <1>1, <1>2
<1> HIDE DEF v
<1>4. \A x \in Tasks(h) : atMost(implied[x], v[x])
  <2>1. \A x \in Values : atMost(x, x)
    BY DEF atMost, Values
  <2> QED
    BY <1>1, <1>2, <1>3, <2>1
<1>5. \A a \in Actions(h) : v[a] = [costs |-> h.cost[a], distance |-> 1]
  BY <1>1, <1>3, MethodFacts DEF Rising
<1>6. ASSUME NEW mi \in Methods(h)
      PROVE  atMost(v[h.methods[mi].task], impliedM[mi]) /\ atMost(impliedM[mi], sumOf(h, v, mi))
  <2>1. atMost(implied[h.methods[mi].task], impliedM[mi]) /\ atMost(impliedM[mi], sumOf(h, implied, mi))
    BY DEF Rising
  <2>2. atMost(sumOf(h, implied, mi), sumOf(h, v, mi))
    BY <1>1, <1>3, <1>4, SumsRise
  <2>3. sumOf(h, implied, mi) \in Values /\ sumOf(h, v, mi) \in Values /\ impliedM[mi] \in Values
    BY <1>1, <1>3, SumsRise
  <2>4. atMost(impliedM[mi], sumOf(h, v, mi))
    BY <2>1, <2>2, <2>3, AtMostTransitive
  <2>5. h.methods[mi].task \in Tasks(h) /\ (h.methods[mi].task = t => mi \in M)
    BY MethodFacts DEF M, taskToMethods
  <2> QED
    BY <1>2, <1>3, <2>1, <2>4, <2>5
<1>7. Rising(h, v, impliedM)
  BY <1>1, <1>3, <1>5, <1>6 DEF Rising
<1> QED
  BY <1>7 DEF v, new

(* The worklist: lists made of sets, and lists of lists.                   *)
LEMMA SetListed == ASSUME NEW X, IsFiniteSet(X) PROVE SetToSeq(X) \in Seq(X)
<1> DEFINE n == Cardinality(X)
           l == SetToSeq(X)
<1>1. n \in Nat /\ ExistsBijection(1 .. n, X)
  BY FS_CardinalityType
<1>2. PICK b \in [1 .. n -> X] : IsInjective(b)
  BY <1>1 DEF ExistsBijection, Bijection, Injection
<1>3. l \in [1 .. n -> X]
  BY <1>2 DEF SetToSeq
<1> HIDE DEF l
<1>4. l \in Seq(X)
  BY <1>1, <1>3
<1> QED
  BY <1>4 DEF l

LEMMA FlatIsSeq ==
  ASSUME NEW V, NEW n \in Nat, NEW s \in [1 .. n -> Seq(V)]
  PROVE  FlattenSeq(s) \in Seq(V)
<1> DEFINE C        == 1 .. n
           W        == Seq(V)
           next(f)  == [i \in C |-> IF i = 1 THEN s[i] ELSE f[i - 1] \o s[i]]
           step     == [f \in [C -> W] |-> next(f)]
           rank     == [i \in C |-> i]
           flat     == CHOOSE f : f = next(f)
<1>1. s \in Seq(W) /\ Len(s) = n
  OBVIOUS
<1>2. CASE n = 0
  <2>1. FlattenSeq(s) = s /\ s = << >>
    BY <1>1, <1>2 DEF FlattenSeq
  <2> QED
    BY <2>1
<1>3. CASE n > 0
  <2>1. FlattenSeq(s) = flat[n]
    BY <1>1, <1>3 DEF FlattenSeq
  <2>2. ASSUME NEW f \in [C -> W] PROVE next(f) \in [C -> W]
    <3>1. ASSUME NEW i \in C PROVE (IF i = 1 THEN s[i] ELSE f[i - 1] \o s[i]) \in W
      <4>1. s[i] \in W /\ (i # 1 => i - 1 \in C)
        BY <1>3
      <4>2. i # 1 => f[i - 1] \in W
        BY <4>1
      <4> QED
        BY <4>1, <4>2
    <3> HIDE DEF W
    <3> QED
      BY <3>1
  <2>3. step \in [[C -> W] -> [C -> W]] /\ rank \in [C -> Nat] /\ << >> \in W
    <3>1. rank \in [C -> Nat] /\ << >> \in W
      OBVIOUS
    <3> HIDE DEF C, W, next, rank
    <3> QED
      BY <2>2, <3>1
  <2>4. DependsOnLower(C, W, rank, step)
    <3>1. SUFFICES ASSUME NEW f \in [C -> W], NEW g \in [C -> W], NEW i \in C,
                          \A j \in C : rank[j] < rank[i] => f[j] = g[j]
                   PROVE  step[f][i] = step[g][i]
      BY DEF DependsOnLower
    <3>2. i # 1 => f[i - 1] = g[i - 1]
      <4>1. i # 1 => i - 1 \in C /\ rank[i - 1] < rank[i]
        OBVIOUS
      <4> QED
        BY <3>1, <4>1
    <3>3. next(f)[i] = next(g)[i]
      BY <3>2
    <3> HIDE DEF C, W, next
    <3> QED
      BY <3>3
  <2>5. \E f : IsFixpoint(f, C, W, step)
    <3> HIDE DEF C, W, step, rank
    <3> QED
      BY <2>3, <2>4, RecursionByRank
  <2>6. PICK f \in [C -> W] : f = next(f)
    BY <2>5 DEF IsFixpoint
  <2>7. flat = next(flat)
    <3> HIDE DEF next, C, W
    <3> QED
      BY <2>6
  <2> DEFINE T == {k \in Nat : k + 1 \in C => flat[k + 1] \in W}
  <2> HIDE DEF flat
  <2>8. ASSUME NEW i \in C PROVE flat[i] = IF i = 1 THEN s[i] ELSE flat[i - 1] \o s[i]
    BY <2>7
  <2>9. 0 \in T
    BY <1>3, <2>8
  <2>10. ASSUME NEW k \in Nat, k \in T PROVE k + 1 \in T
    <3>1. SUFFICES ASSUME k + 2 \in C PROVE flat[k + 2] \in W
      OBVIOUS
    <3>2. k + 1 \in C /\ k + 2 # 1 /\ (k + 2) - 1 = k + 1
      BY <3>1
    <3>3. flat[k + 1] \in W /\ s[k + 2] \in W
      BY <2>10, <3>1, <3>2
    <3>4. flat[k + 2] = flat[k + 1] \o s[k + 2]
      BY <2>8, <3>1, <3>2
    <3> QED
      BY <3>3, <3>4
  <2>11. Nat \subseteq T
    <3> HIDE DEF T
    <3> QED
      BY <2>9, <2>10, Induction
  <2>12. n - 1 \in Nat /\ (n - 1) + 1 = n /\ n \in C
    BY <1>3
  <2> QED
    BY <2>1, <2>11, <2>12
<1> QED
  BY <1>2, <1>3

LEMMA MethodsListed ==
  ASSUME h \in Problems, NEW t
  PROVE  SetToSeq({"method"} \X stToMethod(h, t)) \in Seq(Entries)
<1> DEFINE X == {"method"} \X stToMethod(h, t)
<1>1. IsFiniteSet(stToMethod(h, t)) /\ stToMethod(h, t) \subseteq Methods(h)
  <2>1. stToMethod(h, t) \subseteq Methods(h)
    BY DEF stToMethod
  <2> QED
    BY <2>1, MethodFacts, FS_Subset
<1>2. IsFiniteSet(X)
  BY <1>1, FS_Singleton, FS_Product
<1>3. X \subseteq Entries
  BY <1>1 DEF Entries
<1> HIDE DEF X
<1>4. SetToSeq(X) \in Seq(X)
  BY <1>2, SetListed
<1>5. SetToSeq(X) \in Seq(Entries)
  BY <1>3, <1>4
<1> QED
  BY <1>5 DEF X

LEMMA ImpliedStep == ASSUME IInv, ImpliedInv, [Next]_vars PROVE ImpliedInv'
<1> USE DEF IInv
<1>1. CASE EndReach
  <2>1. Rising(h, implied', impliedM')
    BY <1>1, StartRises DEF EndReach
  <2>2. queue' \in Seq(Entries)
    <3> DEFINE lists == [i \in 1 .. h.numActions |-> SetToSeq({"method"} \X stToMethod(h, i - 1))]
    <3>1. h.numActions \in Nat
      BY TaskGraphAssumption DEF IsProblem
    <3>2. \A i \in 1 .. h.numActions : SetToSeq({"method"} \X stToMethod(h, i - 1)) \in Seq(Entries)
      BY MethodsListed
    <3>3. lists \in [1 .. h.numActions -> Seq(Entries)]
      BY <3>2
    <3> HIDE DEF lists
    <3>4. FlattenSeq(lists) \in Seq(Entries)
      BY <3>1, <3>3, FlatIsSeq
    <3> QED
      BY <1>1, <3>4 DEF EndReach, lists
  <2>3. h' = h /\ Entries' = Entries
    BY <1>1 DEF EndReach, Entries, MethodTasks
  <2> QED
    BY <2>1, <2>2, <2>3 DEF ImpliedInv
<1>2. CASE UpdateMethod
  <2> DEFINE mi == Head(queue)[2]
  <2>1. /\ Rising(h, implied, impliedM) /\ queue \in Seq(Entries) /\ queue # << >>
        /\ Head(queue) \in Entries /\ Tail(queue) \in Seq(Entries)
    BY <1>2 DEF ImpliedInv, UpdateMethod
  <2>2. mi \in Methods(h)
    BY <1>2, <2>1 DEF UpdateMethod, Entries
  <2>3. impliedM' = [impliedM EXCEPT ![mi] = sumOf(h, implied, mi)] /\ implied' = implied
    BY <1>2, SumIsJoined DEF UpdateMethod, Replace
  <2>4. Rising(h, implied', impliedM')
    BY <2>1, <2>2, <2>3, MethodRises
  <2>5. <<"task", h.methods[mi].task>> \in Entries
    BY <2>2 DEF Entries, MethodTasks
  <2>6. queue' \in Seq(Entries)
    BY <1>2, <2>1, <2>5 DEF UpdateMethod
  <2>7. h' = h /\ Entries' = Entries
    BY <1>2 DEF UpdateMethod, Entries, MethodTasks
  <2> QED
    BY <2>4, <2>6, <2>7 DEF ImpliedInv
<1>3. CASE UpdateTask
  <2> DEFINE t == Head(queue)[2]
  <2>1. /\ Rising(h, implied, impliedM) /\ queue \in Seq(Entries) /\ queue # << >>
        /\ Head(queue) \in Entries /\ Tail(queue) \in Seq(Entries)
    BY <1>3 DEF ImpliedInv, UpdateTask
  <2>2. t \in MethodTasks
    BY <1>3, <2>1 DEF UpdateTask, Entries
  <2>3. implied' = [implied EXCEPT ![t] = leastOfMethods(t)] /\ impliedM' = impliedM
    BY <1>3 DEF UpdateTask, Replace
  <2>4. Rising(h, implied', impliedM')
    BY <2>1, <2>2, <2>3, TaskRises
  <2>5. SetToSeq({"method"} \X stToMethod(h, t)) \in Seq(Entries)
    BY MethodsListed
  <2>6. queue' \in Seq(Entries)
    BY <1>3, <2>1, <2>5 DEF UpdateTask
  <2>7. h' = h /\ Entries' = Entries
    BY <1>3 DEF UpdateTask, Entries, MethodTasks
  <2> QED
    BY <2>4, <2>6, <2>7 DEF ImpliedInv
<1>4. ASSUME pc' \in {"implied", "done"} => pc \in {"implied", "done"},
             UNCHANGED <<h, impliedVars>>
      PROVE  ImpliedInv'
  <2>1. Entries' = Entries
    BY <1>4 DEF Entries, MethodTasks
  <2> QED
    BY <1>4, <2>1 DEF ImpliedInv, impliedVars
<1>5. ASSUME NEW v2, VisitNew(v2) \/ VisitSeen(v2) PROVE ImpliedInv'
  BY <1>4, <1>5 DEF VisitNew, VisitSeen
<1>6. CASE Return
  BY <1>4, <1>6 DEF Return
<1>7. CASE ConstructSCCGraph
  BY <1>4, <1>7 DEF ConstructSCCGraph
<1>8. ASSUME NEW scc, ReachComponent(scc) PROVE ImpliedInv'
  BY <1>4, <1>8 DEF ReachComponent
<1>9. CASE EndImplied
  BY <1>4, <1>9 DEF EndImplied
<1>10. CASE UNCHANGED vars
  BY <1>4, <1>10 DEF vars
<1> QED
  BY <1>1, <1>2, <1>3, <1>5, <1>6, <1>7, <1>8, <1>9, <1>10 DEF Next, Terminating

LEMMA ImpliedInvariance == Spec => [](IInv /\ ImpliedInv)
<1>1. Init => ImpliedInv
  BY DEF Init, ImpliedInv
<1>2. IInv /\ ImpliedInv /\ [Next]_vars => ImpliedInv'
  BY ImpliedStep
<1> QED
  BY <1>1, <1>2, Invariance, PTL DEF Spec

(* By induction over the rounds: a tree with a method at its root costs    *)
(* what its subtrees do, so no less than the method implies.               *)
Above(trees) == \A t \in Tasks(h) : \A x \in trees[t] : atMost(implied[t], x)

LEMMA HigherIsAbove ==
  ASSUME h \in Problems, Rising(h, implied, impliedM),
         NEW trees \in [Tasks(h) -> SUBSET Values], Above(trees)
  PROVE  higher(h, trees) \in [Tasks(h) -> SUBSET Values] /\ Above(higher(h, trees))
<1>1. implied \in [Tasks(h) -> Values] /\ impliedM \in [Methods(h) -> Values]
  BY DEF Rising
<1>2. ASSUME NEW mi \in Methods(h), NEW x \in treesOfMethod(h, mi, trees)
      PROVE  x \in Values /\ atMost(implied[h.methods[mi].task], x)
  <2> DEFINE subs == h.methods[mi].subs
             D    == DOMAIN subs
             low  == [i \in D |-> implied[subs[i]]]
  <2>1. PICK y \in [D -> UNION Range(trees)] : x = joined(y) /\ \A i \in D : y[i] \in trees[subs[i]]
    BY <1>2 DEF treesOfMethod
  <2>2. IsFiniteSet(D) /\ (\A i \in D : subs[i] \in Tasks(h)) /\ h.methods[mi].task \in Tasks(h)
    BY MethodFacts
  <2>3. low \in [D -> Values] /\ \A i \in D : low[i] = implied[subs[i]]
    BY <1>1, <2>2
  <2>4. sumOf(h, implied, mi) = joined(low)
    BY DEF sumOf
  <2> HIDE DEF D, low, subs
  <2>5. y \in [D -> Values] /\ \A i \in D : atMost(low[i], y[i])
    BY <2>1, <2>2, <2>3 DEF Above
  <2>6. /\ joined(low) \in Values /\ joined(y) \in Values
        /\ atMost(joined(low), joined(y))
    BY <2>2, <2>3, <2>5, JoinedFacts
  <2>7. atMost(implied[h.methods[mi].task], impliedM[mi]) /\ atMost(impliedM[mi], joined(low))
    BY <2>4 DEF Rising
  <2>8. implied[h.methods[mi].task] \in Values /\ impliedM[mi] \in Values
    BY <1>1, <2>2
  <2>9. atMost(implied[h.methods[mi].task], joined(y))
    BY <2>6, <2>7, <2>8, AtMostTransitive
  <2> QED
    BY <2>1, <2>6, <2>9
<1>3. ASSUME NEW t \in Tasks(h), NEW x \in higher(h, trees)[t] PROVE x \in Values /\ atMost(implied[t], x)
  <2>1. x \in trees[t] \/ \E mi \in taskToMethods(h, t) : x \in treesOfMethod(h, mi, trees)
    BY <1>3 DEF higher
  <2>2. x \in trees[t] => x \in Values /\ atMost(implied[t], x)
    BY DEF Above
  <2>3. \A mi \in taskToMethods(h, t) : mi \in Methods(h) /\ h.methods[mi].task = t
    BY DEF taskToMethods
  <2> QED
    BY <1>2, <2>1, <2>2, <2>3
<1>4. higher(h, trees) = [t \in Tasks(h) |-> higher(h, trees)[t]]
  BY DEF higher
<1> QED
  BY <1>3, <1>4 DEF Above

LEMMA DecompositionsAbove ==
  ASSUME h \in Problems, Rising(h, implied, impliedM)
  PROVE  Above(decompositions(h))
<1> DEFINE D       == 1 .. Levels
           W       == {x \in [Tasks(h) -> SUBSET Values] : Above(x)}
           base    == actionTrees(h)
           grow(Y) == higher(h, Y)
           step    == [r \in D |-> [Y \in W |-> grow(Y)]]
           all(f)  == [s \in SUBSET D |-> IF s = {} THEN base ELSE grow(f[s \ {CHOOSE x \in s : TRUE}])]
           it      == CHOOSE f : f = all(f)
<1>1. decompositions(h) = it[D]
  BY DEF decompositions, FoldSet, MapThenFoldSet
<1>2. IsFiniteSet(D)
  BY TaskGraphAssumption, FS_Interval
<1>3. \A Y \in W : grow(Y) \in W
  BY HigherIsAbove
<1>4. base \in W
  <2>1. \A t \in Tasks(h) : isPrimitive(h, t) => /\ h.cost[t] \in Nat
                                                 /\ implied[t] = [costs |-> h.cost[t], distance |-> 1]
    BY MethodFacts DEF Rising
  <2>2. \A t \in Tasks(h) : \A x \in base[t] : isPrimitive(h, t) /\ x = [costs |-> h.cost[t], distance |-> 1]
    BY DEF actionTrees
  <2>3. \A t \in Tasks(h) : \A x \in base[t] : x \in Values /\ atMost(implied[t], x)
    BY <2>1, <2>2 DEF Values, atMost
  <2>4. base = [t \in Tasks(h) |-> base[t]]
    BY DEF actionTrees
  <2> QED
    BY <2>3, <2>4 DEF Above
<1>5. step \in [D -> [W -> W]]
  <2> HIDE DEF D, W, grow
  <2> QED
    BY <1>3
<1>6. \E f : IsFold(f, D, W, base, step)
  <2> HIDE DEF D, W, base, step
  <2> QED
    BY <1>2, <1>4, <1>5, FoldExists
<1>7. PICK f : IsFold(f, D, W, base, step)
  BY <1>6
<1>8. f = all(f)
  <2>1. ASSUME NEW s \in SUBSET D, s # {}
        PROVE  f[s] = grow(f[s \ {chosen(s)}])
    <3>1. chosen(s) \in D /\ f[s \ {chosen(s)}] \in W
      BY <1>7, <2>1 DEF IsFold, chosen
    <3>2. f[s] = step[chosen(s)][f[s \ {chosen(s)}]]
      BY <1>7, <2>1 DEF IsFold
    <3> HIDE DEF grow, D, W
    <3> QED
      BY <3>1, <3>2
  <2>2. f \in [SUBSET D -> W] /\ f[{}] = base
    BY <1>7 DEF IsFold
  <2> HIDE DEF grow, D, W, base
  <2> QED
    BY <2>1, <2>2 DEF chosen
<1>9. it = all(it)
  <2> HIDE DEF all
  <2> QED
    BY <1>8
<1> DEFINE T == {s \in SUBSET D : it[s] \in W}
<1>10. {} \in T
  <2> HIDE DEF it, base, W
  <2>1. it[{}] = base
    BY <1>9
  <2> QED
    BY <1>4, <2>1
<1>11. \A s \in SUBSET D : s # {} /\ s \ {chosen(s)} \in T => s \in T
  <2> SUFFICES ASSUME NEW s \in SUBSET D, s # {}, s \ {chosen(s)} \in T PROVE it[s] \in W
    OBVIOUS
  <2> HIDE DEF it, grow, D, W
  <2>1. it[s] = grow(it[s \ {chosen(s)}])
    BY <1>9 DEF chosen
  <2> QED
    BY <1>3, <2>1
<1>12. SUBSET D \subseteq T
  <2> HIDE DEF T, D
  <2> QED
    BY <1>2, <1>10, <1>11, SubsetInduction
<1>13. it[D] \in W
  <2> HIDE DEF it, W, D
  <2> QED
    BY <1>12
<1> QED
  BY <1>1, <1>13
-----------------------------------------------------------------------------
(* tarjan finds the components (Model.cpp:2355-2390): when it is done, two *)
(* tasks have the same component if and only if each reaches the other,    *)
(* for every problem and every order in which subtasks are visited.        *)
THEOREM TarjanFindsComponents == Spec => []ComponentsExact
<1>1. IInv => ComponentsExact
  BY ComponentsAreExact
<1> QED
  BY <1>1, Invariance, PTL

(* The edges between components descend, and the loop that relies on it    *)
(* finds the tasks with no cycle below (analyseSCCcyclicity,               *)
(* Model.cpp:2485-2502).                                                   *)
THEOREM AcyclicFound == Spec => []AcyclicityExact
<1>1. IInv => AcyclicityExact
  BY AcyclicityIsExact
<1> QED
  BY <1>1, Invariance, PTL

(* calcSCCGraph gives every task the set of the maintained tasks it        *)
(* reaches, and no component still waits (Model.cpp:2515-2580).            *)
THEOREM ReachableSetsExact == Spec => []ReachableExact
<1>1. IInv => ReachableExact
  BY ReachableIsExact
<1> QED
  BY <1>1, Invariance, PTL

(* What calcMinimalImpliedX says a task implies is never more than what a  *)
(* complete decomposition of it costs, however high the tree, in the       *)
(* middle of the worklist as at its end (Model.cpp:2688-2769).             *)
THEOREM ImpliedIsBelow == Spec => []ImpliedIsLowerBound
<1>1. IInv /\ ImpliedInv => ImpliedIsLowerBound
  BY DecompositionsAbove DEF IInv, ImpliedInv, ImpliedIsLowerBound, Above
<1> QED
  BY <1>1, ImpliedInvariance, PTL
=============================================================================
