--------------------------- MODULE IterationProofs ---------------------------
(***************************************************************************)
(* Induction and recursion over numbers and finite sets, in the form the   *)
(* other proofs use them: sets and functions take the place of predicates  *)
(* and operators.  At the root is that < on Nat is well founded.           *)
(***************************************************************************)
EXTENDS Integers, Sequences, FiniteSetsExt, FiniteSetTheorems, WellFoundedInduction, TLAPS

LEMMA LeastElement ==
  ASSUME NEW T \in SUBSET Nat, T # {}
  PROVE  \E n \in T : \A m \in T : n <= m
<1>1. IsWellFoundedOn(OpToRel(<, Nat), Nat)
  BY NatLessThanWellFounded
<1>2. PICK n \in T : \A m \in T : <<m, n>> \notin OpToRel(<, Nat)
  BY <1>1, WFMin
<1>3. \A m \in T : ~ (m < n)
  BY <1>2 DEF OpToRel
<1> QED
  BY <1>3

LEMMA Induction ==
  ASSUME NEW S, 0 \in S, \A n \in Nat : n \in S => n + 1 \in S
  PROVE  Nat \subseteq S
<1>1. SUFFICES ASSUME Nat \ S # {} PROVE FALSE
  OBVIOUS
<1>2. PICK n \in Nat \ S : \A m \in Nat \ S : n <= m
  BY <1>1, LeastElement
<1>3. n - 1 \in Nat \ S
  BY <1>2
<1> QED
  BY <1>2, <1>3
-----------------------------------------------------------------------------
(* The first n + 1 members of the sequence that starts with x and applies  *)
(* step each time.                                                         *)
IsRun(r, n, V, x, step) ==
  /\ r \in [0 .. n -> V]
  /\ r[0] = x
  /\ \A i \in 0 .. n - 1 : r[i + 1] = step[r[i]]

LEMMA RunsAgree ==
  ASSUME NEW V, NEW x \in V, NEW step \in [V -> V], NEW m \in Nat, NEW n \in Nat,
         NEW q, IsRun(q, m, V, x, step), NEW r, IsRun(r, n, V, x, step),
         NEW i \in Nat, i <= m, i <= n
  PROVE  q[i] = r[i]
<1> DEFINE S == {j \in Nat : j <= m /\ j <= n => q[j] = r[j]}
<1>1. 0 \in S
  BY DEF IsRun
<1>2. ASSUME NEW j \in Nat, j \in S PROVE j + 1 \in S
  <2>1. SUFFICES ASSUME j + 1 <= m, j + 1 <= n PROVE q[j + 1] = r[j + 1]
    OBVIOUS
  <2>2. j \in 0 .. m - 1 /\ j \in 0 .. n - 1 /\ q[j] = r[j]
    BY <1>2, <2>1
  <2> QED
    BY <2>2 DEF IsRun
<1> HIDE DEF S
<1>3. Nat \subseteq S
  BY <1>1, <1>2, Induction
<1> QED
  BY <1>3 DEF S

LEMMA RunExists ==
  ASSUME NEW V, NEW x \in V, NEW step \in [V -> V], NEW n \in Nat
  PROVE  \E r : IsRun(r, n, V, x, step)
<1> DEFINE S == {j \in Nat : \E r : IsRun(r, j, V, x, step)}
<1>1. 0 \in S
  <2>1. IsRun([i \in 0 .. 0 |-> x], 0, V, x, step)
    BY DEF IsRun
  <2> QED
    BY <2>1
<1>2. ASSUME NEW j \in Nat, j \in S PROVE j + 1 \in S
  <2>1. PICK r : IsRun(r, j, V, x, step)
    BY <1>2
  <2> DEFINE q == [i \in 0 .. (j + 1) |-> IF i = j + 1 THEN step[r[j]] ELSE r[i]]
  <2>2. q \in [0 .. (j + 1) -> V] /\ q[0] = x
    BY <2>1 DEF IsRun
  <2>3. ASSUME NEW i \in 0 .. (j + 1) - 1 PROVE q[i + 1] = step[q[i]]
    BY <2>1 DEF IsRun
  <2>4. IsRun(q, j + 1, V, x, step)
    <3> HIDE DEF q
    <3> QED
      BY <2>2, <2>3 DEF IsRun
  <2> QED
    BY <2>4
<1> HIDE DEF S
<1>3. Nat \subseteq S
  BY <1>1, <1>2, Induction
<1> QED
  BY <1>3 DEF S

(* A function on Nat may be defined by primitive recursion.                *)
IsIteration(g, V, x, step) ==
  /\ g \in [Nat -> V]
  /\ g[0] = x
  /\ \A n \in Nat : g[n + 1] = step[g[n]]

LEMMA Recursion ==
  ASSUME NEW V, NEW x \in V, NEW step \in [V -> V]
  PROVE  \E g : IsIteration(g, V, x, step)
<1> DEFINE run(n) == CHOOSE r : IsRun(r, n, V, x, step)
           g == [n \in Nat |-> run(n)[n]]
<1>1. ASSUME NEW n \in Nat PROVE IsRun(run(n), n, V, x, step)
  BY RunExists
<1> HIDE DEF run
<1>2. g \in [Nat -> V] /\ g[0] = x
  BY <1>1 DEF IsRun
<1>3. ASSUME NEW n \in Nat PROVE g[n + 1] = step[g[n]]
  <2>1. IsRun(run(n), n, V, x, step) /\ IsRun(run(n + 1), n + 1, V, x, step)
    BY <1>1
  <2>2. run(n)[n] = run(n + 1)[n]
    BY <2>1, RunsAgree
  <2>3. run(n + 1)[n + 1] = step[run(n + 1)[n]]
    BY <2>1 DEF IsRun
  <2> QED
    BY <2>2, <2>3
<1> HIDE DEF g
<1> QED
  BY <1>2, <1>3 DEF IsIteration

(* A function may be defined by recursion along a rank of its arguments:   *)
(* step gives each value from the values of the arguments of lower rank.   *)
DependsOnLower(C, W, rank, step) ==
  \A f, h \in [C -> W] : \A x \in C :
    (\A y \in C : rank[y] < rank[x] => f[y] = h[y]) => step[f][x] = step[h][x]

IsFixpoint(f, C, W, step) == f \in [C -> W] /\ f = step[f]

LEMMA RecursionByRank ==
  ASSUME NEW C, NEW W, NEW w \in W, NEW rank \in [C -> Nat],
         NEW step \in [[C -> W] -> [C -> W]], DependsOnLower(C, W, rank, step)
  PROVE  \E f : IsFixpoint(f, C, W, step)
<1>1. PICK g \in [Nat -> [C -> W]] :
        g[0] = [x \in C |-> w] /\ \A n \in Nat : g[n + 1] = step[g[n]]
  <2> DEFINE base == [x \in C |-> w]
  <2>1. base \in [C -> W]
    OBVIOUS
  <2> HIDE DEF base
  <2>2. \E g : IsIteration(g, [C -> W], base, step)
    BY <2>1, Recursion
  <2> QED
    BY <2>2 DEF base, IsIteration
<1>2. \A n \in Nat : \A x \in C : rank[x] < n => g[n + 1][x] = g[n][x]
  <2> DEFINE S == {n \in Nat : \A x \in C : rank[x] < n => g[n + 1][x] = g[n][x]}
  <2>1. 0 \in S
    OBVIOUS
  <2>2. ASSUME NEW n \in Nat, n \in S PROVE n + 1 \in S
    <3>1. SUFFICES ASSUME NEW x \in C, rank[x] < n + 1 PROVE g[n + 2][x] = g[n + 1][x]
      OBVIOUS
    <3>2. ASSUME NEW y \in C, rank[y] < rank[x] PROVE g[n + 1][y] = g[n][y]
      BY <2>2, <3>1, <3>2
    <3>3. g[n + 1] \in [C -> W] /\ g[n] \in [C -> W]
      OBVIOUS
    <3>4. step[g[n + 1]][x] = step[g[n]][x]
      BY <3>2, <3>3 DEF DependsOnLower
    <3>5. g[n + 2] = step[g[n + 1]] /\ g[n + 1] = step[g[n]]
      BY <1>1
    <3> QED
      BY <3>4, <3>5
  <2> HIDE DEF S
  <2>3. Nat \subseteq S
    BY <2>1, <2>2, Induction
  <2> QED
    BY <2>3 DEF S
<1>3. ASSUME NEW x \in C, NEW m \in Nat PROVE g[rank[x] + 1 + m][x] = g[rank[x] + 1][x]
  <2> DEFINE S == {n \in Nat : g[rank[x] + 1 + n][x] = g[rank[x] + 1][x]}
  <2>1. 0 \in S
    OBVIOUS
  <2>2. ASSUME NEW n \in Nat, n \in S PROVE n + 1 \in S
    <3>1. rank[x] + 1 + n \in Nat /\ rank[x] < rank[x] + 1 + n
          /\ rank[x] + 1 + n + 1 = rank[x] + 1 + (n + 1)
      OBVIOUS
    <3>2. g[rank[x] + 1 + n + 1][x] = g[rank[x] + 1 + n][x]
      BY <1>2, <3>1
    <3>3. g[rank[x] + 1 + (n + 1)][x] = g[rank[x] + 1][x]
      BY <2>2, <3>1, <3>2
    <3> QED
      BY <3>3
  <2> HIDE DEF S
  <2>3. Nat \subseteq S
    BY <2>1, <2>2, Induction
  <2> QED
    BY <2>3 DEF S
<1> DEFINE f == [x \in C |-> g[rank[x] + 1][x]]
<1>4. f \in [C -> W]
  OBVIOUS
<1>5. ASSUME NEW x \in C PROVE f[x] = step[f][x]
  <2>1. ASSUME NEW y \in C, rank[y] < rank[x] PROVE f[y] = g[rank[x]][y]
    <3>1. rank[x] - rank[y] - 1 \in Nat /\ rank[y] + 1 + (rank[x] - rank[y] - 1) = rank[x]
      BY <2>1
    <3> QED
      BY <1>3, <3>1
  <2>2. g[rank[x]] \in [C -> W] /\ g[rank[x] + 1] = step[g[rank[x]]]
    BY <1>1
  <2> HIDE DEF f
  <2>3. step[f][x] = step[g[rank[x]]][x]
    BY <1>4, <2>1, <2>2 DEF DependsOnLower
  <2> QED
    BY <2>2, <2>3 DEF f
<1> HIDE DEF f
<1>6. f = step[f]
  BY <1>4, <1>5
<1> QED
  BY <1>4, <1>6 DEF IsFixpoint
-----------------------------------------------------------------------------
(* Sets that grow within a finite set D are as large as it, or have        *)
(* stopped to grow, after as many rounds as D has members.                 *)
LEMMA GrowthEnds ==
  ASSUME NEW D, IsFiniteSet(D), NEW g \in [Nat -> SUBSET D],
         \A n \in Nat : g[n] \subseteq g[n + 1],
         \A n \in Nat : g[n + 1] = g[n] => g[n + 2] = g[n + 1]
  PROVE  g[Cardinality(D) + 1] = g[Cardinality(D)]
<1> DEFINE S == {n \in Nat : g[n + 1] = g[n] \/ Cardinality(g[n]) >= n}
<1>1. \A n \in Nat : IsFiniteSet(g[n]) /\ Cardinality(g[n]) \in Nat
                      /\ Cardinality(g[n]) <= Cardinality(D)
  BY FS_Subset, FS_CardinalityType
<1>2. 0 \in S
  BY <1>1
<1>3. ASSUME NEW n \in Nat, n \in S PROVE n + 1 \in S
  <2>1. CASE g[n + 1] = g[n]
    BY <2>1
  <2>2. CASE g[n + 1] # g[n] /\ Cardinality(g[n]) >= n
    <3>1. /\ g[n] \in SUBSET g[n + 1] /\ g[n] # g[n + 1]
          /\ IsFiniteSet(g[n + 1]) /\ Cardinality(g[n + 1]) \in Nat /\ Cardinality(g[n]) \in Nat
      BY <1>1, <2>2
    <3>2. /\ Cardinality(g[n]) <= Cardinality(g[n + 1])
          /\ Cardinality(g[n]) # Cardinality(g[n + 1])
      BY <3>1, FS_Subset
    <3>3. Cardinality(g[n + 1]) >= n + 1
      BY <2>2, <3>1, <3>2
    <3> QED
      BY <3>3
  <2> QED
    BY <1>3, <2>1, <2>2
<1> HIDE DEF S
<1>4. Cardinality(D) \in Nat
  BY FS_CardinalityType
<1>5. Cardinality(D) \in S
  BY <1>2, <1>3, <1>4, Induction
<1>6. CASE Cardinality(g[Cardinality(D)]) >= Cardinality(D)
  <2>1. g[Cardinality(D)] = D
    <3>1. g[Cardinality(D)] \in SUBSET D /\ Cardinality(g[Cardinality(D)]) = Cardinality(D)
      BY <1>1, <1>4, <1>6
    <3> QED
      BY <3>1, FS_Subset
  <2>2. g[Cardinality(D)] \subseteq g[Cardinality(D) + 1] /\ g[Cardinality(D) + 1] \subseteq D
    BY <1>4
  <2> QED
    BY <2>1, <2>2
<1> QED
  BY <1>5, <1>6 DEF S

(* The image of a finite set.                                              *)
LEMMA ImageIsFinite ==
  ASSUME NEW S, IsFiniteSet(S), NEW f
  PROVE  IsFiniteSet({f[x] : x \in S})
<1> DEFINE T == {f[x] : x \in S}
           g == [x \in S |-> f[x]]
<1>1. g \in Surjection(S, T)
  BY DEF Surjection
<1> QED
  BY <1>1, FS_Surjection
-----------------------------------------------------------------------------
(* The member a fold over s takes first.                                   *)
chosen(s) == CHOOSE x \in s : TRUE

(* Induction over the subsets of a finite set, one member at a time.       *)
LEMMA SubsetInduction ==
  ASSUME NEW S, IsFiniteSet(S), NEW T, {} \in T,
         \A s \in SUBSET S : s # {} /\ s \ {chosen(s)} \in T => s \in T
  PROVE  SUBSET S \subseteq T
<1> DEFINE N == {n \in Nat : \A s \in SUBSET S : Cardinality(s) = n => s \in T}
<1>1. \A s \in SUBSET S : IsFiniteSet(s) /\ Cardinality(s) \in Nat
  BY FS_Subset, FS_CardinalityType
<1>2. 0 \in N
  BY <1>1, FS_EmptySet
<1>3. ASSUME NEW n \in Nat, n \in N PROVE n + 1 \in N
  <2>1. SUFFICES ASSUME NEW s \in SUBSET S, Cardinality(s) = n + 1 PROVE s \in T
    OBVIOUS
  <2>2. s # {}
    BY <1>1, <2>1, FS_EmptySet
  <2>3. chosen(s) \in s
    BY <2>2 DEF chosen
  <2>4. Cardinality(s \ {chosen(s)}) = n
    BY <1>1, <2>1, <2>3, FS_RemoveElement
  <2>5. s \ {chosen(s)} \in T
    BY <1>3, <2>4
  <2> QED
    BY <2>2, <2>5
<1> HIDE DEF N
<1>4. Nat \subseteq N
  BY <1>2, <1>3, Induction
<1> QED
  BY <1>1, <1>4 DEF N

(* What a fold over the subsets of S computes with values in W, when it    *)
(* takes the elements of a set in the order that pick gives.               *)
IsFoldBy(f, pick, S, W, base, step) ==
  /\ f \in [SUBSET S -> W]
  /\ \A s \in SUBSET S :
       f[s] = IF s = {} THEN base ELSE step[pick[s]][f[s \ {pick[s]}]]

LEMMA FoldByExists ==
  ASSUME NEW S, IsFiniteSet(S), NEW W, NEW base \in W, NEW step \in [S -> [W -> W]],
         NEW pick, \A s \in SUBSET S : s # {} => pick[s] \in s
  PROVE  \E f : IsFoldBy(f, pick, S, W, base, step)
<1> DEFINE C    == SUBSET S
           rank == [s \in C |-> Cardinality(s)]
           next(f, s) == IF s = {} THEN base ELSE step[pick[s]][f[s \ {pick[s]}]]
           all  == [f \in [C -> W] |-> [s \in C |-> next(f, s)]]
<1>1. rank \in [C -> Nat]
  BY FS_Subset, FS_CardinalityType
<1>2. \A s \in C : s # {} =>
        pick[s] \in S /\ s \ {pick[s]} \in C /\ rank[s \ {pick[s]}] < rank[s]
  <2>1. SUFFICES ASSUME NEW s \in C, s # {}
                 PROVE  pick[s] \in S /\ s \ {pick[s]} \in C /\ rank[s \ {pick[s]}] < rank[s]
    OBVIOUS
  <2>2. pick[s] \in s
    BY <2>1
  <2>3. IsFiniteSet(s) /\ Cardinality(s) \in Nat
    BY FS_Subset, FS_CardinalityType
  <2>4. Cardinality(s \ {pick[s]}) = Cardinality(s) - 1
    BY <2>2, <2>3, FS_RemoveElement
  <2> QED
    BY <2>2, <2>3, <2>4
<1>3. ASSUME NEW f \in [C -> W], NEW s \in C PROVE next(f, s) \in W
  <2>1. CASE s = {}
    BY <2>1
  <2>2. CASE s # {}
    <3>1. pick[s] \in S /\ s \ {pick[s]} \in SUBSET S
      BY <1>2, <2>2
    <3>2. f[s \ {pick[s]}] \in W
      BY <3>1
    <3>3. step[pick[s]] \in [W -> W]
      BY <3>1
    <3> QED
      BY <2>2, <3>2, <3>3
  <2> QED
    BY <2>1, <2>2
<1>4. all \in [[C -> W] -> [C -> W]]
  BY <1>3
<1>5. \A f \in [C -> W] : \A s \in C : all[f][s] = next(f, s)
  OBVIOUS
<1>6. DependsOnLower(C, W, rank, all)
  <2>1. ASSUME NEW f \in [C -> W], NEW h \in [C -> W], NEW s \in C,
               \A y \in C : rank[y] < rank[s] => f[y] = h[y]
        PROVE  next(f, s) = next(h, s)
    <3>1. CASE s = {}
      BY <3>1
    <3>2. CASE s # {}
      <4>1. f[s \ {pick[s]}] = h[s \ {pick[s]}]
        BY <1>2, <2>1, <3>2
      <4> QED
        BY <4>1
    <3> QED
      BY <3>1, <3>2
  <2> HIDE DEF C, rank, all, next
  <2> QED
    BY <1>5, <2>1 DEF DependsOnLower
<1>7. \E f : IsFixpoint(f, C, W, all)
  <2> HIDE DEF C, rank, all
  <2> QED
    BY <1>1, <1>4, <1>6, RecursionByRank
<1>8. PICK f : IsFixpoint(f, C, W, all)
  BY <1>7
<1>9. f \in [C -> W] /\ \A s \in C : f[s] = next(f, s)
  BY <1>8 DEF IsFixpoint
<1> QED
  BY <1>9 DEF IsFoldBy

(* The same with any order.                                                *)
IsFold(f, S, W, base, step) ==
  /\ f \in [SUBSET S -> W]
  /\ \A s \in SUBSET S :
       f[s] = IF s = {} THEN base ELSE step[chosen(s)][f[s \ {chosen(s)}]]

LEMMA FoldExists ==
  ASSUME NEW S, IsFiniteSet(S), NEW W, NEW base \in W, NEW step \in [S -> [W -> W]]
  PROVE  \E f : IsFold(f, S, W, base, step)
<1> DEFINE pick == [s \in SUBSET S |-> chosen(s)]
<1>1. \A s \in SUBSET S : pick[s] = chosen(s)
  OBVIOUS
<1>2. \A s \in SUBSET S : s # {} => pick[s] \in s
  BY DEF chosen
<1> HIDE DEF pick
<1>3. PICK f : IsFoldBy(f, pick, S, W, base, step)
  BY <1>2, FoldByExists
<1>4. IsFold(f, S, W, base, step)
  BY <1>1, <1>3 DEF IsFold, IsFoldBy
<1> QED
  BY <1>4
-----------------------------------------------------------------------------
(* A list that names nothing twice is as long as the set of its members.   *)
LEMMA LengthOfList ==
  ASSUME NEW S, NEW s \in Seq(S), \A i, j \in DOMAIN s : s[i] = s[j] => i = j
  PROVE  /\ IsFiniteSet({s[i] : i \in DOMAIN s})
         /\ Cardinality({s[i] : i \in DOMAIN s}) = Len(s)
<1> DEFINE T == {s[i] : i \in DOMAIN s}
<1>1. Len(s) \in Nat /\ DOMAIN s = 1 .. Len(s)
  OBVIOUS
<1>2. [i \in 1 .. Len(s) |-> s[i]] \in Bijection(1 .. Len(s), T)
  BY <1>1 DEF Bijection, Injection, IsInjective, Surjection
<1>3. ExistsBijection(1 .. Len(s), T)
  BY <1>2 DEF ExistsBijection
<1>4. IsFiniteSet(1 .. Len(s)) /\ Cardinality(1 .. Len(s)) = Len(s)
  BY <1>1, FS_Interval
<1> QED
  BY <1>3, <1>4, FS_Bijection

(* Taking one element out of a finite set.                                 *)
LEMMA OneLess ==
  ASSUME NEW S, IsFiniteSet(S), NEW x \in S
  PROVE  /\ Cardinality(S) \in Nat /\ Cardinality(S \ {x}) = Cardinality(S) - 1
         /\ Cardinality(S) = 1 => S = {x}
<1>1. /\ Cardinality(S) \in Nat /\ IsFiniteSet(S \ {x})
      /\ Cardinality(S \ {x}) = Cardinality(S) - 1
  BY FS_CardinalityType, FS_RemoveElement
<1>2. Cardinality(S) = 1 => S \ {x} = {}
  BY <1>1, FS_EmptySet
<1> QED
  BY <1>1, <1>2
-----------------------------------------------------------------------------
(* Sums of natural numbers over a finite set.                              *)
Total(c, S) == MapThenSumSet(LAMBDA o : c[o], S)

IsSum(t, c, S) ==
  /\ t \in [SUBSET S -> Nat]
  /\ t[{}] = 0
  /\ \A s \in SUBSET S : s # {} => t[s] = c[chosen(s)] + t[s \ {chosen(s)}]

LEMMA TotalIsSum ==
  ASSUME NEW S, IsFiniteSet(S), NEW c, \A o \in S : c[o] \in Nat
  PROVE  \E t : IsSum(t, c, S) /\ Total(c, S) = t[S]
<1> DEFINE step   == [o \in S |-> [n \in Nat |-> c[o] + n]]
           all(f) == [s \in SUBSET S |->
                        IF s = {} THEN 0
                        ELSE c[CHOOSE x \in s : TRUE] + f[s \ {CHOOSE x \in s : TRUE}]]
           it     == CHOOSE f : f = all(f)
<1>1. Total(c, S) = it[S]
  BY DEF Total, MapThenSumSet, MapThenFoldSet
<1>2. step \in [S -> [Nat -> Nat]]
  OBVIOUS
<1>3. \E f : IsFold(f, S, Nat, 0, step)
  <2> HIDE DEF step
  <2> QED
    BY <1>2, FoldExists
<1>4. PICK f : IsFold(f, S, Nat, 0, step)
  BY <1>3
<1>5. f = all(f)
  <2>1. ASSUME NEW s \in SUBSET S, s # {}
        PROVE  f[s] = c[chosen(s)] + f[s \ {chosen(s)}]
    <3>1. chosen(s) \in S /\ f[s \ {chosen(s)}] \in Nat
      BY <1>4, <2>1 DEF IsFold, chosen
    <3>2. f[s] = step[chosen(s)][f[s \ {chosen(s)}]]
      BY <1>4, <2>1 DEF IsFold
    <3> QED
      BY <3>1, <3>2
  <2>2. f \in [SUBSET S -> Nat] /\ f[{}] = 0
    BY <1>4 DEF IsFold
  <2> QED
    BY <2>1, <2>2 DEF chosen
<1>6. it = all(it)
  <2> HIDE DEF all
  <2> QED
    BY <1>5
<1> HIDE DEF it, step
<1> DEFINE T == {s \in SUBSET S : it[s] \in Nat}
<1>7. it[{}] = 0
  BY <1>6
<1>8. ASSUME NEW s \in SUBSET S, s # {}
      PROVE  /\ it[s] = c[chosen(s)] + it[s \ {chosen(s)}]
             /\ chosen(s) \in S
  BY <1>6, <1>8 DEF chosen
<1>9. \A s \in SUBSET S : s # {} /\ s \ {chosen(s)} \in T => s \in T
  BY <1>8
<1>10. SUBSET S \subseteq T
  <2>1. {} \in T
    BY <1>7
  <2> HIDE DEF T
  <2> QED
    BY <1>9, <2>1, SubsetInduction
<1>11. it \in [SUBSET S -> Nat]
  BY <1>6, <1>10
<1>12. IsSum(it, c, S)
  BY <1>7, <1>8, <1>11 DEF IsSum
<1> QED
  BY <1>1, <1>12

(* Lower values have a lower sum, by at least what one of them is lower.   *)
LEMMA LowerTotal ==
  ASSUME NEW S, IsFiniteSet(S), NEW c, NEW d,
         \A o \in S : c[o] \in Nat /\ d[o] \in Nat /\ d[o] <= c[o]
  PROVE  /\ Total(c, S) \in Nat /\ Total(d, S) \in Nat
         /\ Total(d, S) <= Total(c, S)
         /\ \A x \in S : Total(d, S) + (c[x] - d[x]) <= Total(c, S)
<1>1. PICK t : IsSum(t, c, S) /\ Total(c, S) = t[S]
  BY TotalIsSum
<1>2. PICK u : IsSum(u, d, S) /\ Total(d, S) = u[S]
  BY TotalIsSum
<1> DEFINE T == {s \in SUBSET S : u[s] <= t[s] /\ \A x \in s : u[s] + (c[x] - d[x]) <= t[s]}
<1>3. {} \in T
  BY <1>1, <1>2 DEF IsSum
<1>4. ASSUME NEW s \in SUBSET S, s # {}, s \ {chosen(s)} \in T PROVE s \in T
  <2> DEFINE y == chosen(s)
             r == s \ {y}
  <2>1. y \in s /\ y \in S /\ c[y] \in Nat /\ d[y] \in Nat /\ d[y] <= c[y]
    BY <1>4 DEF chosen
  <2>2. /\ t[s] = c[y] + t[r] /\ t[r] \in Nat
        /\ u[s] = d[y] + u[r] /\ u[r] \in Nat
    BY <1>1, <1>2, <1>4 DEF IsSum
  <2>3. u[r] <= t[r] /\ \A x \in r : u[r] + (c[x] - d[x]) <= t[r]
    BY <1>4
  <2> HIDE DEF y
  <2>4. ASSUME NEW x \in s PROVE u[s] + (c[x] - d[x]) <= t[s]
    <3>1. CASE x = y
      BY <2>1, <2>2, <2>3, <3>1
    <3>2. CASE x # y
      <4>1. u[r] + (c[x] - d[x]) <= t[r] /\ c[x] \in Nat /\ d[x] \in Nat
        BY <2>3, <2>4, <3>2
      <4> HIDE DEF r
      <4> QED
        BY <2>1, <2>2, <4>1
    <3> QED
      BY <3>1, <3>2
  <2>5. u[s] <= t[s]
    <3> HIDE DEF r
    <3> QED
      BY <2>1, <2>2, <2>3
  <2> QED
    BY <2>4, <2>5
<1>5. SUBSET S \subseteq T
  <2> HIDE DEF T
  <2> QED
    BY <1>3, <1>4, SubsetInduction
<1> QED
  BY <1>1, <1>2, <1>5 DEF IsSum

(* A sum tells equal values apart from none, is not less than any of its   *)
(* members, and changes with one of them by as much.                       *)
LEMMA TotalFacts ==
  ASSUME NEW S, IsFiniteSet(S), NEW c, \A o \in S : c[o] \in Nat
  PROVE  /\ Total(c, S) \in Nat
         /\ \A x \in S : c[x] <= Total(c, S)
         /\ \A d : (\A o \in S : d[o] = c[o]) => Total(d, S) = Total(c, S)
         /\ \A d : \A x \in S : d[x] \in Nat /\ (\A o \in S \ {x} : d[o] = c[o]) =>
              Total(d, S) = Total(c, S) + (d[x] - c[x])
<1>1. PICK t : IsSum(t, c, S) /\ Total(c, S) = t[S]
  BY TotalIsSum
<1>2. ASSUME NEW d, NEW x \in S, d[x] \in Nat, \A o \in S \ {x} : d[o] = c[o]
      PROVE  Total(d, S) = Total(c, S) + (d[x] - c[x])
  <2>1. \A o \in S : d[o] \in Nat
    BY <1>2
  <2>2. PICK u : IsSum(u, d, S) /\ Total(d, S) = u[S]
    BY <2>1, TotalIsSum
  <2> DEFINE T == {s \in SUBSET S : u[s] = t[s] + (IF x \in s THEN d[x] - c[x] ELSE 0)}
  <2>3. {} \in T
    BY <1>1, <2>2 DEF IsSum
  <2>4. ASSUME NEW s \in SUBSET S, s # {}, s \ {chosen(s)} \in T PROVE s \in T
    <3> DEFINE y == chosen(s)
               r == s \ {y}
    <3>1. y \in s /\ y \in S /\ c[y] \in Nat /\ d[y] \in Nat
      BY <2>1, <2>4 DEF chosen
    <3>2. /\ t[s] = c[y] + t[r] /\ t[r] \in Nat
          /\ u[s] = d[y] + u[r] /\ u[r] \in Nat
      BY <1>1, <2>2, <2>4 DEF IsSum
    <3>3. u[r] = t[r] + (IF x \in r THEN d[x] - c[x] ELSE 0)
      BY <2>4
    <3>4. x \in r <=> x \in s /\ x # y
      OBVIOUS
    <3> HIDE DEF y, r
    <3>5. CASE x = y
      BY <3>1, <3>2, <3>3, <3>4, <3>5
    <3>6. CASE x # y
      <4>1. d[y] = c[y]
        BY <1>2, <3>1, <3>6
      <4>2. c[x] \in Nat /\ d[x] \in Nat
        BY <1>2
      <4> QED
        BY <3>1, <3>2, <3>3, <3>4, <3>6, <4>1, <4>2
    <3> QED
      BY <3>5, <3>6
  <2>5. SUBSET S \subseteq T
    <3> HIDE DEF T
    <3> QED
      BY <2>3, <2>4, SubsetInduction
  <2> QED
    BY <1>1, <1>2, <2>2, <2>5
<1>3. Total(c, S) \in Nat
  BY <1>1 DEF IsSum
<1>4. ASSUME NEW x \in S PROVE c[x] <= Total(c, S)
  <2> DEFINE d == [o \in S |-> IF o = x THEN 0 ELSE c[o]]
  <2>1. \A o \in S : d[o] \in Nat
    OBVIOUS
  <2>2. d[x] = 0 /\ \A o \in S \ {x} : d[o] = c[o]
    OBVIOUS
  <2> HIDE DEF d
  <2>3. Total(d, S) = Total(c, S) + (0 - c[x]) /\ c[x] \in Nat
    BY <1>2, <1>4, <2>2
  <2>4. Total(d, S) \in Nat
    BY <2>1, LowerTotal
  <2> QED
    BY <1>3, <2>3, <2>4
<1>5. ASSUME NEW d, \A o \in S : d[o] = c[o] PROVE Total(d, S) = Total(c, S)
  <2>1. \A o \in S : c[o] \in Nat /\ d[o] \in Nat /\ d[o] <= c[o] /\ c[o] <= d[o]
    BY <1>5
  <2>2. /\ Total(c, S) \in Nat /\ Total(d, S) \in Nat
        /\ Total(d, S) <= Total(c, S)
    BY <2>1, LowerTotal
  <2>3. Total(c, S) <= Total(d, S)
    BY <2>1, LowerTotal
  <2> QED
    BY <2>2, <2>3
<1> QED
  BY <1>2, <1>3, <1>4, <1>5

LEMMA TotalOfZeros ==
  ASSUME NEW S, IsFiniteSet(S), NEW c, \A o \in S : c[o] = 0
  PROVE  Total(c, S) = 0
<1>1. PICK t : IsSum(t, c, S) /\ Total(c, S) = t[S]
  BY TotalIsSum
<1> DEFINE T == {s \in SUBSET S : t[s] = 0}
<1>2. {} \in T
  BY <1>1 DEF IsSum
<1>3. ASSUME NEW s \in SUBSET S, s # {}, s \ {chosen(s)} \in T PROVE s \in T
  <2>1. chosen(s) \in S
    BY <1>3 DEF chosen
  <2>2. t[s] = c[chosen(s)] + t[s \ {chosen(s)}]
    BY <1>1, <1>3 DEF IsSum
  <2> QED
    BY <1>3, <2>1, <2>2
<1>4. SUBSET S \subseteq T
  <2> HIDE DEF T
  <2> QED
    BY <1>2, <1>3, SubsetInduction
<1> QED
  BY <1>1, <1>4

(* A sum over a subset is one over the set, with the rest counted zero.    *)
LEMMA TotalOfSubset ==
  ASSUME NEW T, IsFiniteSet(T), NEW S \in SUBSET T, NEW c, \A o \in S : c[o] \in Nat
  PROVE  Total(c, S) = Total([o \in T |-> IF o \in S THEN c[o] ELSE 0], T)
<1> DEFINE masked(s) == [o \in T |-> IF o \in s THEN c[o] ELSE 0]
<1>1. IsFiniteSet(S)
  BY FS_Subset
<1>2. PICK t : IsSum(t, c, S) /\ Total(c, S) = t[S]
  BY <1>1, TotalIsSum
<1> DEFINE W == {s \in SUBSET S : t[s] = Total(masked(s), T)}
<1>3. {} \in W
  <2> DEFINE m == masked({})
  <2>1. \A o \in T : m[o] = 0
    OBVIOUS
  <2> HIDE DEF m
  <2>2. Total(m, T) = 0
    BY <2>1, TotalOfZeros
  <2> QED
    BY <1>2, <2>2 DEF IsSum, m
<1>4. ASSUME NEW s \in SUBSET S, s # {}, s \ {chosen(s)} \in W PROVE s \in W
  <2> DEFINE y == chosen(s)
             r == s \ {y}
             m == masked(r)
             l == masked(s)
  <2>1. y \in s /\ y \in T /\ c[y] \in Nat
    BY <1>4 DEF chosen
  <2>2. t[s] = c[y] + t[r] /\ t[r] = Total(m, T)
    BY <1>2, <1>4 DEF IsSum
  <2>3. /\ \A o \in T : m[o] \in Nat
        /\ m[y] = 0 /\ l[y] = c[y]
        /\ \A o \in T \ {y} : l[o] = m[o]
    BY <2>1
  <2> HIDE DEF y, r, m, l
  <2>4. Total(l, T) = Total(m, T) + (l[y] - m[y]) /\ Total(m, T) \in Nat
    BY <2>1, <2>3, TotalFacts
  <2>5. t[s] = Total(l, T)
    BY <2>1, <2>2, <2>3, <2>4
  <2> QED
    BY <2>5 DEF l
<1>5. SUBSET S \subseteq W
  <2> HIDE DEF W
  <2> QED
    BY <1>1, <1>3, <1>4, SubsetInduction
<1> QED
  BY <1>2, <1>5

(* The sum of sums.                                                        *)
LEMMA TotalOfSums ==
  ASSUME NEW S, IsFiniteSet(S), NEW c, NEW d,
         \A o \in S : c[o] \in Nat /\ d[o] \in Nat
  PROVE  Total([o \in S |-> c[o] + d[o]], S) = Total(c, S) + Total(d, S)
<1> DEFINE b == [o \in S |-> c[o] + d[o]]
<1>1. \A o \in S : b[o] \in Nat /\ b[o] = c[o] + d[o]
  OBVIOUS
<1> HIDE DEF b
<1>2. PICK t : IsSum(t, c, S) /\ Total(c, S) = t[S]
  BY TotalIsSum
<1>3. PICK u : IsSum(u, d, S) /\ Total(d, S) = u[S]
  BY TotalIsSum
<1>4. PICK v : IsSum(v, b, S) /\ Total(b, S) = v[S]
  BY <1>1, TotalIsSum
<1> DEFINE W == {s \in SUBSET S : v[s] = t[s] + u[s]}
<1>5. {} \in W
  BY <1>2, <1>3, <1>4 DEF IsSum
<1>6. ASSUME NEW s \in SUBSET S, s # {}, s \ {chosen(s)} \in W PROVE s \in W
  <2> DEFINE y == chosen(s)
             r == s \ {y}
  <2>1. y \in S
    BY <1>6 DEF chosen
  <2>2. /\ t[s] = c[y] + t[r] /\ t[r] \in Nat
        /\ u[s] = d[y] + u[r] /\ u[r] \in Nat
        /\ v[s] = b[y] + v[r] /\ v[r] = t[r] + u[r]
    BY <1>2, <1>3, <1>4, <1>6 DEF IsSum
  <2> HIDE DEF y, r
  <2> QED
    BY <1>1, <2>1, <2>2
<1>7. SUBSET S \subseteq W
  <2> HIDE DEF W
  <2> QED
    BY <1>5, <1>6, SubsetInduction
<1>8. Total(b, S) = Total(c, S) + Total(d, S)
  BY <1>2, <1>3, <1>4, <1>7
<1> QED
  BY <1>8 DEF b
=============================================================================
