------------------------------- MODULE Iteration -------------------------------
(***************************************************************************)
(* What the proofs about loops need, with no code of their own: induction  *)
(* over numbers, and what repeating a step computes.                       *)
(***************************************************************************)
EXTENDS Integers, FiniteSets, FiniteSetTheorems, TLAPS

(***************************************************************************)
(* Induction: a nonempty set of numbers has a least one.  The numbers      *)
(* above some element would else be mapped into themselves, without the    *)
(* greatest, by subtracting one.                                           *)
(***************************************************************************)
LEMMA LeastNumber ==
    ASSUME NEW S \in SUBSET Nat, S # {}
    PROVE  \E x \in S : \A y \in S : x <= y
  <1> SUFFICES ASSUME \A x \in S : \E y \in S : y < x PROVE FALSE
    OBVIOUS
  <1>0. PICK n \in S : TRUE
    OBVIOUS
  <1> DEFINE U == {u \in 0..n : \E x \in S : x <= u}
             V == U \ {n}
             f == [u \in U |-> u - 1]
  <1>1. n \in U /\ IsFiniteSet(U)
    <2>1. IsFiniteSet(0..n)
      BY FS_Interval
    <2>2. IsFiniteSet(U)
      BY <2>1, FS_Subset
    <2> QED
      BY <2>2
  <1>2. IsFiniteSet(V) /\ Cardinality(V) = Cardinality(U) - 1
    BY <1>1, FS_RemoveElement
  <1>3. Cardinality(V) < Cardinality(U)
    BY <1>1, <1>2, FS_CardinalityType
  <1>4. f \in [U -> V]
    <2> SUFFICES ASSUME NEW u \in U PROVE u - 1 \in V
      OBVIOUS
    <2>1. PICK x \in S : x <= u
      OBVIOUS
    <2>2. PICK y \in S : y < x
      OBVIOUS
    <2>3. x \in Nat /\ y \in Nat /\ u \in 0..n /\ n \in Nat
      OBVIOUS
    <2> QED
      BY <2>1, <2>2, <2>3
  <1>5. \E u, v \in U : u # v /\ f[u] = f[v]
    <2> HIDE DEF U, V, f
    <2> QED
      BY <1>1, <1>2, <1>3, <1>4, FS_PigeonHole
  <1> QED
    BY <1>5

(***************************************************************************)
(* A step can be repeated any number of times, and a function that is      *)
(* defined by repeating it stays where the step does.                      *)
(***************************************************************************)
IsStep(S, a, step, n) == a \in S /\ step \in [S -> S] /\ n \in Nat

Repeats(S, a, step, n, f) ==
    f[0] = a /\ \A k \in 1..n : f[k-1] \in S => f[k] = step[f[k-1]]

Iterates(S, a, step, n, f) ==
    f \in [0..n -> S] /\ f[0] = a /\ \A k \in 1..n : f[k] = step[f[k-1]]

LEMMA Iterated ==
    ASSUME NEW S, NEW a, NEW step, NEW n, IsStep(S, a, step, n)
    PROVE  \E f : Iterates(S, a, step, n, f)
  <1> DEFINE Has(m) == \E f : Iterates(S, a, step, m, f)
             Bad == {m \in Nat : ~Has(m)}
  <1>0. a \in S /\ step \in [S -> S] /\ n \in Nat
    BY DEF IsStep
  <1>1. SUFFICES Bad = {}
    BY <1>0, <1>1
  <1>2. SUFFICES ASSUME Bad # {} PROVE FALSE
    BY <1>2
  <1>3. PICK m \in Bad : \A l \in Bad : m <= l
    <2> HIDE DEF Has
    <2> QED
      BY <1>2, LeastNumber
  <1>4. CASE m = 0
    <2> DEFINE g == [k \in 0..0 |-> a]
    <2>1. g \in [0..0 -> S] /\ g[0] = a /\ 1..0 = {}
      BY <1>0
    <2> HIDE DEF g
    <2>2. Has(0)
      BY <2>1 DEF Iterates
    <2> QED
      BY <1>4, <2>2
  <1>5. CASE m # 0
    <2>0. m \in Nat /\ m-1 \in Nat /\ ~(m <= m-1)
      BY <1>5
    <2>1. m \in Nat /\ m-1 \in Nat /\ m-1 \notin Bad
      <3> HIDE DEF Bad
      <3> QED
        BY <1>3, <2>0
    <2>2. PICK f : Iterates(S, a, step, m-1, f)
      BY <2>1
    <2> DEFINE g == [k \in 0..m |-> IF k = m THEN step[f[m-1]] ELSE f[k]]
    <2>3. g \in [0..m -> S]
      BY <1>0, <2>1, <2>2 DEF Iterates
    <2>4. g[0] = a /\ \A k \in 1..m : g[k] = step[g[k-1]]
      BY <1>0, <1>5, <2>1, <2>2 DEF Iterates
    <2>5. Has(m)
      <3> HIDE DEF g
      <3> QED
        BY <2>3, <2>4 DEF Iterates
    <2> QED
      BY <2>5
  <1> QED
    BY <1>4, <1>5

LEMMA StaysInside ==
    ASSUME NEW S, NEW a, NEW step, NEW n, NEW f,
           IsStep(S, a, step, n), Repeats(S, a, step, n, f)
    PROVE  \A k \in 0..n : f[k] \in S
  <1> DEFINE Bad == {k \in 0..n : f[k] \notin S}
  <1> SUFFICES ASSUME Bad # {} PROVE FALSE
    OBVIOUS
  <1>1. PICK k \in Bad : \A l \in Bad : k <= l
    <2>1. Bad \in SUBSET Nat
      BY DEF IsStep
    <2> HIDE DEF Bad
    <2> QED
      BY <2>1, LeastNumber
  <1>2. k # 0
    BY DEF IsStep, Repeats
  <1>3. k \in 1..n /\ k-1 \in 0..n /\ k-1 \notin Bad
    BY <1>1, <1>2 DEF IsStep
  <1> QED
    BY <1>3 DEF IsStep, Repeats

-----------------------------------------------------------------------------
(***************************************************************************)
(* The way of an item that moves as long as it can.  Each move lowers a    *)
(* rank, so that the way never comes back, and after as many steps as the  *)
(* rank it began with the item cannot move any more.                       *)
(***************************************************************************)
IsWay(S, step, rank, n, f) ==
    /\ step \in [S -> S] /\ rank \in [S -> Nat] /\ n \in Nat /\ f \in [0..n -> S]
    /\ \A k \in 1..n : f[k] = step[f[k-1]]
    /\ \A s \in S : step[s] # s => rank[step[s]] < rank[s]
    /\ rank[f[0]] <= n

Moves(n, f) == {k \in 1..n : f[k] # f[k-1]}
WayLeft(n, f) == {f[k-1] : k \in Moves(n, f)}

LEMMA RankFalls ==
    ASSUME NEW S, NEW step, NEW rank, NEW n, NEW f, IsWay(S, step, rank, n, f),
           NEW i \in 0..n, NEW j \in 0..n, i <= j
    PROVE  rank[f[j]] <= rank[f[i]]
  <1> DEFINE Bad == {k \in 0..n : k >= i /\ ~(rank[f[k]] <= rank[f[i]])}
  <1>1. SUFFICES ASSUME Bad # {} PROVE FALSE
    BY <1>1
  <1>2. PICK k \in Bad : \A l \in Bad : k <= l
    <2>1. Bad \in SUBSET Nat
      OBVIOUS
    <2> HIDE DEF Bad
    <2> QED
      BY <1>1, <2>1, LeastNumber
  <1>3. /\ n \in Nat /\ k \in 0..n /\ k >= i /\ f[k] \in S /\ f[i] \in S
        /\ rank[f[k]] \in Nat /\ rank[f[i]] \in Nat
    BY DEF IsWay
  <1>4. k # i
    BY <1>3
  <1>5. k-1 \in 0..n /\ k-1 >= i /\ k \in 1..n /\ k-1 \notin Bad
    <2>1. k-1 \in 0..n /\ k-1 >= i /\ k \in 1..n /\ ~(k <= k-1)
      BY <1>3, <1>4
    <2> HIDE DEF Bad
    <2> QED
      BY <1>2, <2>1
  <1>6. rank[f[k-1]] <= rank[f[i]] /\ f[k-1] \in S /\ rank[f[k-1]] \in Nat
    BY <1>5 DEF IsWay
  <1>7. f[k] = f[k-1] \/ rank[f[k]] < rank[f[k-1]]
    BY <1>5, <1>6 DEF IsWay
  <1> QED
    BY <1>3, <1>6, <1>7

(* A place that is left is never entered again.                            *)
LEMMA NeverBack ==
    ASSUME NEW S, NEW step, NEW rank, NEW n, NEW f, IsWay(S, step, rank, n, f),
           NEW k \in Moves(n, f), NEW l \in 0..n, k <= l
    PROVE  f[l] # f[k-1] /\ rank[f[l]] < rank[f[k-1]]
  <1>1. /\ n \in Nat /\ k \in 1..n /\ k \in 0..n /\ k-1 \in 0..n /\ f[k] # f[k-1]
        /\ f[k-1] \in S /\ f[l] \in S /\ f[k] \in S
    BY DEF IsWay, Moves
  <1>2. rank[f[k]] < rank[f[k-1]]
    BY <1>1 DEF IsWay
  <1>3. rank[f[l]] <= rank[f[k]]
    BY <1>1, RankFalls
  <1>4. rank[f[k]] \in Nat /\ rank[f[k-1]] \in Nat /\ rank[f[l]] \in Nat
    BY <1>1 DEF IsWay
  <1> QED
    BY <1>2, <1>3, <1>4

(* A place that is not the last one is left.                               *)
LEMMA LeftOrLast ==
    ASSUME NEW S, NEW step, NEW rank, NEW n, NEW f, IsWay(S, step, rank, n, f),
           NEW j \in 0..n
    PROVE  f[j] \in WayLeft(n, f) \cup {f[n]}
  <1> SUFFICES ASSUME f[j] # f[n] PROVE f[j] \in WayLeft(n, f)
    OBVIOUS
  <1> DEFINE Off == {k \in 0..n : k >= j /\ f[k] # f[j]}
  <1>1. n \in Nat /\ n \in Off /\ Off \in SUBSET Nat
    BY DEF IsWay
  <1>2. PICK k \in Off : \A l \in Off : k <= l
    <2> HIDE DEF Off
    <2> QED
      BY <1>1, LeastNumber
  <1>3. k \in 1..n /\ k-1 \in 0..n /\ k-1 >= j /\ ~(k <= k-1)
    BY <1>1
  <1>4. k-1 \notin Off
    <2> HIDE DEF Off
    <2> QED
      BY <1>2, <1>3
  <1>5. f[k-1] = f[j] /\ f[k] # f[k-1]
    BY <1>3, <1>4
  <1> QED
    BY <1>3, <1>5 DEF WayLeft, Moves

LEMMA WayEnds ==
    ASSUME NEW S, NEW step, NEW rank, NEW n, NEW f, IsWay(S, step, rank, n, f)
    PROVE  step[f[n]] = f[n]
  <1> DEFINE Good(k) == rank[f[k]] + k <= rank[f[0]] \/ step[f[k]] = f[k]
             Bad == {k \in 0..n : ~Good(k)}
  <1>0. n \in Nat /\ n \in 0..n /\ 0 \in 0..n /\ f[n] \in S /\ f[0] \in S
        /\ rank[f[n]] \in Nat /\ rank[f[0]] \in Nat /\ rank[f[0]] <= n
    BY DEF IsWay
  <1>1. Bad = {}
    <2>1. SUFFICES ASSUME Bad # {} PROVE FALSE
      BY <2>1
    <2>2. PICK k \in Bad : \A l \in Bad : k <= l
      <3>1. Bad \in SUBSET Nat
        OBVIOUS
      <3> HIDE DEF Bad
      <3> QED
        BY <2>1, <3>1, LeastNumber
    <2>3. k # 0
      BY <1>0
    <2>4. k-1 \in 0..n /\ k \in 1..n /\ ~(k <= k-1)
      BY <1>0, <2>3
    <2>5. k-1 \notin Bad
      <3> HIDE DEF Bad
      <3> QED
        BY <2>2, <2>4
    <2>6. Good(k-1) /\ f[k] = step[f[k-1]]
      BY <2>4, <2>5 DEF IsWay
    <2>7. f[k-1] \in S /\ f[k] \in S /\ rank[f[k-1]] \in Nat /\ rank[f[k]] \in Nat
      BY <2>4 DEF IsWay
    <2>8. CASE f[k] = f[k-1]
      <3>1. step[f[k]] = f[k]
        BY <2>6, <2>8
      <3> QED
        BY <3>1
    <2>9. CASE f[k] # f[k-1]
      <3>1. rank[f[k]] < rank[f[k-1]] /\ rank[f[k-1]] + (k-1) <= rank[f[0]]
        BY <2>6, <2>7, <2>9 DEF IsWay
      <3>2. rank[f[k]] + k <= rank[f[0]]
        BY <1>0, <2>4, <2>7, <3>1
      <3> QED
        BY <3>2
    <2> QED
      BY <2>8, <2>9
  <1>2. Good(n)
    BY <1>0, <1>1
  <1>3. ASSUME step[f[n]] # f[n] PROVE FALSE
    <2>1. rank[f[n]] <= 0
      BY <1>0, <1>2, <1>3
    <2>2. step[f[n]] \in S /\ rank[step[f[n]]] < rank[f[n]]
      BY <1>0, <1>3 DEF IsWay
    <2>3. rank[step[f[n]]] \in Nat
      BY <2>2 DEF IsWay
    <2> QED
      BY <1>0, <2>1, <2>2, <2>3
  <1> QED
    BY <1>3

-----------------------------------------------------------------------------
(***************************************************************************)
(* The way of an item from a to d, as a set P of places it left: the steps *)
(* lead from P onto all of the way but its beginning, no two to one place. *)
(***************************************************************************)
Path(S, step, rank, a, P, d) ==
    /\ P \subseteq S /\ d \in S /\ d \notin P /\ a \in P \cup {d}
    /\ \A q \in P : step[q] \in (P \cup {d}) \ {a} /\ step[q] # q /\ rank[d] < rank[q]
    /\ \A q, r \in P : step[q] = step[r] => q = r
    /\ \A e \in (P \cup {d}) \ {a} : \E q \in P : e = step[q]
    /\ step[d] = d

LEMMA WayPath ==
    ASSUME NEW S, NEW step, NEW rank, NEW n, NEW f, IsWay(S, step, rank, n, f)
    PROVE  Path(S, step, rank, f[0], WayLeft(n, f), f[n])
  <1> DEFINE P == WayLeft(n, f)
             d == f[n]
  <1>1. /\ n \in Nat /\ 0 \in 0..n /\ n \in 0..n
        /\ \A k \in 1..n : k-1 \in 0..n /\ k \in 0..n /\ k <= n /\ k <= k
    BY DEF IsWay
  <1>2. \A k \in 0..n : f[k] \in S /\ rank[f[k]] \in Nat
    BY DEF IsWay
  <1>3. \A k \in Moves(n, f) : k \in 1..n /\ f[k] # f[k-1] /\ f[k] = step[f[k-1]] /\ f[k-1] \in P
    BY DEF IsWay, Moves, WayLeft
  <1>4. \A q \in P : \E k \in Moves(n, f) : q = f[k-1]
    BY DEF WayLeft
  <1>5. P \subseteq S /\ d \in S
    BY <1>1, <1>2, <1>3, <1>4
  <1>6. f[0] \in P \cup {d}
    BY <1>1, LeftOrLast
  <1>7. ASSUME NEW q \in P
        PROVE  d # q /\ step[q] \in P \cup {d} /\ step[q] # f[0] /\ step[q] # q /\ rank[d] < rank[q]
    <2>1. PICK k \in Moves(n, f) : q = f[k-1]
      BY <1>4
    <2>2. k \in 1..n /\ k \in 0..n /\ k-1 \in 0..n /\ k <= n /\ k <= k /\ 0 <= k-1
      BY <1>1, <1>3
    <2>3. step[q] = f[k] /\ step[q] # q
      BY <1>3, <2>1
    <2>4. f[k] \in P \cup {d}
      BY <2>2, LeftOrLast
    <2>5. f[n] # f[k-1] /\ rank[f[n]] < rank[f[k-1]]
      BY <1>1, <2>2, NeverBack
    <2>6. rank[f[k]] < rank[f[k-1]]
      BY <2>2, NeverBack
    <2>7. rank[f[k-1]] <= rank[f[0]]
      BY <1>1, <2>2, RankFalls
    <2>8. rank[f[k]] \in Nat /\ rank[f[k-1]] \in Nat /\ rank[f[0]] \in Nat
      BY <1>1, <1>2, <2>2
    <2>9. f[k] # f[0]
      BY <2>6, <2>7, <2>8
    <2> QED
      BY <2>1, <2>3, <2>4, <2>5, <2>9
  <1>8. ASSUME NEW i \in Moves(n, f), NEW j \in Moves(n, f), f[i] = f[j], i < j
        PROVE  FALSE
    <2>1. i \in 0..n /\ j-1 \in 0..n /\ i <= j-1 /\ j \in 0..n /\ j <= j
      BY <1>1, <1>3, <1>8
    <2>2. rank[f[j-1]] <= rank[f[i]]
      BY <2>1, RankFalls
    <2>3. rank[f[j]] < rank[f[j-1]]
      BY <2>1, NeverBack
    <2>4. rank[f[j-1]] \in Nat /\ rank[f[i]] \in Nat /\ rank[f[j]] \in Nat
      BY <1>2, <2>1
    <2> QED
      BY <1>8, <2>2, <2>3, <2>4
  <1>9. ASSUME NEW q \in P, NEW r \in P, step[q] = step[r] PROVE q = r
    <2>1. PICK k \in Moves(n, f) : q = f[k-1]
      BY <1>4
    <2>2. PICK l \in Moves(n, f) : r = f[l-1]
      BY <1>4
    <2>3. f[k] = f[l] /\ k \in 1..n /\ l \in 1..n
      BY <1>3, <1>9, <2>1, <2>2
    <2>4. k < l \/ l < k \/ k = l
      BY <1>1, <2>3
    <2> QED
      BY <1>8, <2>1, <2>2, <2>3, <2>4
  <1>10. ASSUME NEW e \in P \cup {d}, e # f[0] PROVE \E q \in P : e = step[q]
    <2> DEFINE Here == {j \in 0..n : f[j] = e}
    <2>1. Here # {}
      <3>1. CASE e \in P
        <4>1. PICK k \in Moves(n, f) : e = f[k-1]
          BY <1>4, <3>1
        <4> QED
          BY <1>1, <1>3, <4>1
      <3>2. CASE e = d
        BY <1>1, <3>2
      <3> QED
        BY <3>1, <3>2
    <2>2. PICK j \in Here : \A i \in Here : j <= i
      <3>1. Here \in SUBSET Nat
        BY <1>1
      <3> HIDE DEF Here
      <3> QED
        BY <2>1, <3>1, LeastNumber
    <2>3. j # 0
      BY <1>10
    <2>4. j \in 1..n /\ j-1 \in 0..n /\ ~(j <= j-1)
      BY <1>1, <2>3
    <2>5. j-1 \notin Here
      <3> HIDE DEF Here
      <3> QED
        BY <2>2, <2>4
    <2>6. j \in Moves(n, f)
      BY <2>4, <2>5 DEF Moves
    <2> QED
      BY <1>3, <2>6
  <1>11. step[d] = d
    BY WayEnds
  <1> HIDE DEF P, d
  <1>12. Path(S, step, rank, f[0], P, d)
    BY <1>5, <1>6, <1>7, <1>9, <1>10, <1>11 DEF Path
  <1> QED
    BY <1>12 DEF P, d
================================================================================
