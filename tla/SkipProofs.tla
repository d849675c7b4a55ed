------------------------------ MODULE SkipProofs ------------------------------
(***************************************************************************)
(* Theorems about SkipList: no link leads astray, whatever levels are      *)
(* drawn, and the values of a key form a stack.                            *)
(***************************************************************************)
EXTENDS SkipList, Iteration

Blocks == Allocated \cup {Header}

(* Link i of m leads to x, the next block behind m that has a link i.      *)
NextIs(pos, m, i, x) ==
    /\ x # Null => /\ x \in Allocated /\ i \in DOMAIN forward[x]
                   /\ pos[m] < pos[x]
    /\ \A b \in Allocated : i \in DOMAIN forward[b] /\ pos[m] < pos[b] =>
           x # Null /\ pos[x] <= pos[b]

(* The list in one row, pos[n] the place of n: by key, every block once,   *)
(* with all links leading to the next block that has their level.          *)
InRow(pos) ==
    /\ pos \in [Blocks -> 0..length] /\ pos[Header] = 0
    /\ \A m, n \in Blocks : pos[m] = pos[n] => m = n
    /\ \A s \in 0..length : \E m \in Blocks : pos[m] = s
Sorted(pos) == \A m, n \in Allocated : pos[m] < pos[n] => keyof[m] <= keyof[n]
Linked(pos) ==
    /\ InRow(pos) /\ Sorted(pos)
    /\ \A m \in Blocks : \A i \in DOMAIN forward[m] : NextIs(pos, m, i, forward[m][i])

SkipTypes ==
    /\ forward \in [SkipNodes \cup {Header} -> Seq(SkipNodes \cup {Null})]
    /\ keyof \in [SkipNodes -> Nat] /\ level \in 0..SkipMaxLevel /\ length \in Nat
    /\ length = Cardinality(Allocated)
    /\ Len(forward[Header]) = IF level = 0 THEN 0 ELSE SkipMaxLevel
    /\ \A n \in SkipNodes : Len(forward[n]) <= level

SkipInv == SkipTypes /\ \E pos : Linked(pos)

-----------------------------------------------------------------------------
LEMMA LinksAre ==
    ASSUME SkipTypes
    PROVE  /\ \A m \in SkipNodes \cup {Header} :
                 /\ forward[m] \in Seq(SkipNodes \cup {Null}) /\ Len(forward[m]) \in Nat
                 /\ DOMAIN forward[m] = 1..Len(forward[m])
                 /\ \A i \in DOMAIN forward[m] : forward[m][i] \in SkipNodes \cup {Null}
           /\ \A n : n \in Allocated <=> n \in SkipNodes /\ Len(forward[n]) >= 1
           /\ \A i \in 1..level : i \in DOMAIN forward[Header]
           /\ \A i \in 1..SkipMaxLevel : level > 0 => i \in DOMAIN forward[Header]
           /\ level \in Nat /\ SkipMaxLevel \in Nat /\ level <= SkipMaxLevel
  <1>1. forward \in [SkipNodes \cup {Header} -> Seq(SkipNodes \cup {Null})]
    BY DEF SkipTypes
  <1>2. \A m \in SkipNodes \cup {Header} :
           /\ forward[m] \in Seq(SkipNodes \cup {Null}) /\ Len(forward[m]) \in Nat
           /\ DOMAIN forward[m] = 1..Len(forward[m])
           /\ \A i \in DOMAIN forward[m] : forward[m][i] \in SkipNodes \cup {Null}
    BY <1>1
  <1>3. ASSUME NEW n \in SkipNodes PROVE forward[n] # <<>> <=> Len(forward[n]) >= 1
    BY <1>2
  <1>4. \A n : n \in Allocated <=> n \in SkipNodes /\ Len(forward[n]) >= 1
    BY <1>3 DEF Allocated
  <1>5. level \in Nat /\ SkipMaxLevel \in Nat /\ level <= SkipMaxLevel
    BY SkipAssumption DEF SkipTypes
  <1>6. level > 0 => Len(forward[Header]) = SkipMaxLevel
    BY <1>5 DEF SkipTypes
  <1>7. \A i \in 1..SkipMaxLevel : level > 0 => i \in DOMAIN forward[Header]
    BY <1>2, <1>6
  <1>8. \A i \in 1..level : i \in DOMAIN forward[Header]
    BY <1>5, <1>7
  <1> QED
    BY <1>2, <1>4, <1>5, <1>7, <1>8

LEMMA BlocksAre ==
    /\ Allocated \subseteq SkipNodes /\ Allocated \subseteq Blocks /\ Header \in Blocks
    /\ Header \notin Allocated /\ Null \notin Blocks /\ Blocks \subseteq SkipNodes \cup {Header}
    /\ Null \notin SkipNodes /\ Header \notin SkipNodes /\ SkipNodes \subseteq Nat
    /\ \A m \in Blocks : m # Header => m \in Allocated
    /\ IsFiniteSet(Allocated) /\ Cardinality(Allocated) \in Nat
    /\ Cardinality(Allocated) <= Cardinality(SkipNodes) /\ Cardinality(SkipNodes) \in Nat
  <1>1. Allocated \in SUBSET SkipNodes
    BY DEF Allocated
  <1>2. IsFiniteSet(Allocated) /\ Cardinality(Allocated) <= Cardinality(SkipNodes)
    BY <1>1, FS_Subset, SkipAssumption
  <1>3. Cardinality(Allocated) \in Nat /\ Cardinality(SkipNodes) \in Nat
    BY <1>2, FS_CardinalityType, SkipAssumption
  <1> QED
    BY <1>1, <1>2, <1>3, SkipAssumption DEF Blocks

(* What is known of the places.                                            *)
LEMMA PlacesAre ==
    ASSUME SkipTypes, NEW pos, InRow(pos)
    PROVE  /\ \A m \in Blocks : pos[m] \in Nat /\ pos[m] <= length /\ pos[m] \in 0..length
           /\ \A m \in Allocated : pos[m] >= 1 /\ pos[Header] < pos[m]
           /\ \A m, n \in Blocks : pos[m] = pos[n] => m = n
           /\ \A s \in 1..length : \E m \in Allocated : pos[m] = s
           /\ pos[Header] = 0 /\ length \in Nat
  <1>1. length \in Nat
    BY DEF SkipTypes
  <1>2. \A m \in Blocks : pos[m] \in Nat /\ pos[m] <= length /\ pos[m] \in 0..length
    BY <1>1 DEF InRow
  <1>3. \A m \in Allocated : pos[m] # pos[Header]
    BY BlocksAre DEF InRow
  <1>4. \A m \in Allocated : pos[m] >= 1 /\ pos[Header] < pos[m]
    BY <1>2, <1>3, BlocksAre DEF InRow
  <1>5. ASSUME NEW s \in 1..length PROVE \E m \in Allocated : pos[m] = s
    <2>1. s \in 0..length /\ s # 0
      BY <1>1
    <2> QED
      BY <2>1, BlocksAre DEF InRow
  <1> QED
    BY <1>1, <1>2, <1>4, <1>5 DEF InRow

-----------------------------------------------------------------------------
(* m is the last block before the keys from k on that has a link i.        *)
Behind(k, i) == {m \in Blocks : i \in DOMAIN forward[m] /\ (m # Header => keyof[m] < k)}
Last(k, i, m) == m \in Behind(k, i) /\ ~Before(k, i, m)

LEMMA LastIsLast ==
    ASSUME SkipTypes, NEW pos, Linked(pos), NEW k \in Nat, NEW i, NEW m, Last(k, i, m)
    PROVE  \A b \in Behind(k, i) : pos[b] <= pos[m]
  <1> SUFFICES ASSUME NEW b \in Behind(k, i), pos[m] < pos[b] PROVE FALSE
    <2>1. InRow(pos) /\ \A b \in Behind(k, i) : b \in Blocks
      BY DEF Linked, Behind
    <2>2. \A b \in Behind(k, i) : pos[b] \in Nat /\ pos[m] \in Nat
      BY <2>1, PlacesAre DEF Last
    <2> QED
      BY <2>2
  <1>1. InRow(pos) /\ Sorted(pos) /\ m \in Blocks /\ b \in Blocks
    BY DEF Linked, Last, Behind
  <1>2. pos[m] \in Nat /\ pos[b] \in Nat
    BY <1>1, PlacesAre
  <1>3. b # Header /\ b \in Allocated
    BY <1>1, <1>2, BlocksAre DEF InRow
  <1> DEFINE x == forward[m][i]
  <1>4. NextIs(pos, m, i, x)
    BY DEF Linked, Last, Behind
  <1>5. x # Null /\ x \in Allocated /\ pos[x] <= pos[b]
    BY <1>3, <1>4 DEF NextIs, Behind
  <1>6. ~(keyof[x] < k) /\ keyof[b] < k
    BY <1>3, <1>5 DEF Last, Before, Behind
  <1>7. keyof[x] \in Nat /\ keyof[b] \in Nat /\ x \in SkipNodes
    BY <1>3, <1>5, BlocksAre DEF SkipTypes
  <1>8. x # b
    BY <1>6
  <1>9. pos[x] \in Nat /\ pos[x] # pos[b]
    <2>1. x \in Blocks
      BY <1>5, BlocksAre
    <2> HIDE DEF x
    <2>2. pos[x] \in Nat
      BY <1>1, <2>1, PlacesAre
    <2>3. pos[x] # pos[b]
      BY <1>1, <1>8, <2>1 DEF InRow
    <2> QED
      BY <2>2, <2>3
  <1>10. keyof[x] <= keyof[b]
    BY <1>1, <1>2, <1>3, <1>5, <1>9 DEF Sorted
  <1> QED
    BY <1>6, <1>7, <1>10

LEMMA LastIsOnly ==
    ASSUME SkipTypes, NEW pos, Linked(pos), NEW k \in Nat, NEW i, NEW m, NEW n,
           Last(k, i, m), Last(k, i, n)
    PROVE  m = n
  <1>1. pos[m] <= pos[n] /\ pos[n] <= pos[m]
    BY LastIsLast DEF Last
  <1>2. InRow(pos) /\ m \in Blocks /\ n \in Blocks
    BY DEF Linked, Last, Behind
  <1> QED
    BY <1>1, <1>2, PlacesAre

(* The loop on one level ends at the last such block, wherever it begins.  *)
LEMMA SearchEnds ==
    ASSUME SkipTypes, NEW pos, Linked(pos), NEW k \in Nat, NEW i, NEW from \in Behind(k, i)
    PROVE  Last(k, i, LastBefore(k, i, from))
  <1> DEFINE S == Behind(k, i)
             step == [m \in S |-> IF Before(k, i, m) THEN forward[m][i] ELSE m]
             rank == [m \in S |-> length - pos[m]]
             N == Cardinality(SkipNodes)
  <1>0. InRow(pos) /\ S \subseteq Blocks /\ N \in Nat /\ length <= N
    BY BlocksAre DEF Linked, Behind, SkipTypes
  <1>1. ASSUME NEW m \in S, Before(k, i, m)
        PROVE  forward[m][i] \in S /\ pos[m] < pos[forward[m][i]]
    <2>1. NextIs(pos, m, i, forward[m][i])
      BY DEF Linked, Behind
    <2>2. forward[m][i] # Null /\ keyof[forward[m][i]] < k
      BY <1>1 DEF Before
    <2> QED
      BY <2>1, <2>2, BlocksAre DEF NextIs, Behind
  <1>2. step \in [S -> S] /\ \A m \in S : step[m] # m => Before(k, i, m) /\ step[m] = forward[m][i]
    BY <1>1
  <1>3. \A m \in S : pos[m] \in Nat /\ pos[m] <= length /\ length \in Nat
    BY <1>0, PlacesAre
  <1>4. rank \in [S -> Nat] /\ \A m \in S : rank[m] <= N
    BY <1>0, <1>3
  <1>5. \A m \in S : step[m] # m => rank[step[m]] < rank[m]
    BY <1>1, <1>2, <1>3
  <1> DEFINE Eq(g) == g = [s \in 0..N |-> IF s = 0 THEN from
                                ELSE LET m == g[s-1]
                                     IN IF Before(k, i, m) THEN forward[m][i] ELSE m]
             walk == CHOOSE g : Eq(g)
  <1>6. LastBefore(k, i, from) = walk[N]
    BY DEF LastBefore
  <1>7. PICK f : Iterates(S, from, step, N, f)
    <2>1. IsStep(S, from, step, N)
      BY <1>0, <1>2 DEF IsStep
    <2> HIDE DEF S, step, N
    <2> QED
      BY <2>1, Iterated
  <1>8. Eq(f)
    <2>1. f \in [0..N -> S] /\ f[0] = from /\ \A s \in 1..N : f[s] = step[f[s-1]]
      BY <1>7 DEF Iterates
    <2>2. \A s \in 1..N : s-1 \in 0..N
      BY <1>0
    <2>3. \A s \in 1..N : f[s] = IF Before(k, i, f[s-1]) THEN forward[f[s-1]][i] ELSE f[s-1]
      BY <2>1, <2>2
    <2>4. \A s \in 0..N : s # 0 => s \in 1..N
      BY <1>0
    <2> HIDE DEF N
    <2> QED
      BY <2>1, <2>3, <2>4
  <1>9. Eq(walk)
    <2> HIDE DEF Eq
    <2> QED
      BY <1>8
  <1>10. walk[0] = from /\ \A s \in 1..N : walk[s] = IF Before(k, i, walk[s-1]) THEN forward[walk[s-1]][i] ELSE walk[s-1]
    <2>1. 0 \in 0..N /\ \A s \in 1..N : s \in 0..N /\ s # 0
      BY <1>0
    <2> HIDE DEF walk, N
    <2> QED
      BY <1>9, <2>1
  <1>11. Repeats(S, from, step, N, walk)
    <2> HIDE DEF walk, N, S
    <2> QED
      BY <1>10 DEF Repeats
  <1>12. \A s \in 0..N : walk[s] \in S
    <2>1. IsStep(S, from, step, N)
      BY <1>0, <1>2 DEF IsStep
    <2> HIDE DEF S, step, N, walk
    <2> QED
      BY <1>11, <2>1, StaysInside
  <1>13. DOMAIN walk = 0..N /\ walk = [s \in 0..N |-> walk[s]]
    <2> HIDE DEF walk, N
    <2> QED
      BY <1>9
  <1>14. IsWay(S, step, rank, N, walk)
    <2>1. walk \in [0..N -> S]
      <3> HIDE DEF walk, N, S
      <3> QED
        BY <1>12, <1>13
    <2>2. \A s \in 1..N : s-1 \in 0..N /\ walk[s-1] \in S
      <3>1. \A s \in 1..N : s-1 \in 0..N
        BY <1>0
      <3> HIDE DEF walk, N, S
      <3> QED
        BY <3>1, <1>12
    <2>3. \A s \in 1..N : walk[s] = step[walk[s-1]]
      <3> HIDE DEF walk, N, S
      <3> QED
        BY <2>2, <1>10
    <2>4. rank[walk[0]] <= N
      <3>1. from \in S
        OBVIOUS
      <3> HIDE DEF walk, N, S, rank
      <3> QED
        BY <3>1, <1>4, <1>10
    <2> HIDE DEF walk, N, S, rank, step
    <2> QED
      BY <1>0, <1>2, <1>4, <1>5, <2>1, <2>3, <2>4 DEF IsWay
  <1>15. step[walk[N]] = walk[N]
    <2> HIDE DEF walk, N, S, rank, step
    <2> QED
      BY <1>14, WayEnds
  <1>16. walk[N] \in S
    <2>1. N \in 0..N
      BY <1>0
    <2> HIDE DEF walk, N, S
    <2> QED
      BY <2>1, <1>12
  <1>17. ~Before(k, i, walk[N])
    <2> SUFFICES ASSUME Before(k, i, walk[N]) PROVE FALSE
      OBVIOUS
    <2>1. forward[walk[N]][i] = walk[N]
      <3> HIDE DEF walk, N, S
      <3> QED
        BY <1>15, <1>16
    <2>2. pos[walk[N]] < pos[walk[N]]
      <3> HIDE DEF walk, N, S
      <3> QED
        BY <1>1, <1>16, <2>1
    <2>3. pos[walk[N]] \in Nat
      <3> HIDE DEF walk, N, S
      <3> QED
        BY <1>3, <1>16
    <2> QED
      BY <2>2, <2>3
  <1> QED
    <2> HIDE DEF walk, N
    <2> QED
      BY <1>6, <1>16, <1>17 DEF Last

(* On every level the search finds the last block, although it begins      *)
(* where the level above ended.                                            *)
LEMMA UpdateIs ==
    ASSUME SkipTypes, NEW pos, Linked(pos), NEW k \in Nat
    PROVE  \A i \in 1..level : Last(k, i, Update(k)[i])
  <1> DEFINE Eq(g) == g = [i \in 1..level |->
                              LastBefore(k, i, IF i = level THEN Header ELSE g[i + 1])]
             found == CHOOSE g : Eq(g)
             last == [i \in 1..level |-> LastBefore(k, i, Header)]
  <1>0. level \in Nat /\ \A i \in 1..level : Header \in Behind(k, i)
    BY LinksAre, BlocksAre DEF Behind
  <1>1. \A i \in 1..level : Last(k, i, last[i])
    BY <1>0, SearchEnds
  <1>2. ASSUME NEW i \in 1..level, i # level, NEW m, Last(k, i + 1, m)
        PROVE  m \in Behind(k, i)
    <2>1. m \in Blocks /\ i + 1 \in DOMAIN forward[m] /\ (m # Header => keyof[m] < k)
      BY <1>2 DEF Last, Behind
    <2>2. i \in DOMAIN forward[m]
      BY <1>0, <2>1, LinksAre, BlocksAre
    <2> QED
      BY <2>1, <2>2 DEF Behind
  <1>3. \A i \in 1..level : i # level => i + 1 \in 1..level
    BY <1>0
  <1>4. Eq(last)
    <2> SUFFICES ASSUME NEW i \in 1..level
                 PROVE  last[i] = LastBefore(k, i, IF i = level THEN Header ELSE last[i + 1])
      OBVIOUS
    <2>1. CASE i = level
      BY <2>1
    <2>2. CASE i # level
      <3>1. last[i + 1] \in Behind(k, i)
        <4> HIDE DEF last
        <4> QED
          BY <2>2, <1>1, <1>2, <1>3
      <3>2. Last(k, i, LastBefore(k, i, last[i + 1]))
        <4> HIDE DEF last
        <4> QED
          BY <3>1, SearchEnds
      <3>3. last[i] = LastBefore(k, i, last[i + 1])
        <4> HIDE DEF last
        <4> QED
          BY <3>2, <1>1, LastIsOnly
      <3> QED
        BY <2>2, <3>3
    <2> QED
      BY <2>1, <2>2
  <1>5. Eq(found)
    <2> HIDE DEF Eq, last
    <2> QED
      BY <1>4
  <1>6. Update(k) = found
    BY DEF Update
  <1>7. \A i \in 1..level : found[i] = LastBefore(k, i, IF i = level THEN Header ELSE found[i + 1])
    <2> HIDE DEF found, last
    <2> QED
      BY <1>5
  <1> HIDE DEF found, last, Eq
  <1> DEFINE Bad == {j \in Nat : j \in 0..level-1 /\ ~Last(k, level - j, found[level - j])}
  <1>8. Bad = {}
    <2>1. SUFFICES ASSUME Bad # {} PROVE FALSE
      BY <2>1
    <2>2. PICK j \in Bad : \A l \in Bad : j <= l
      <3>1. Bad \in SUBSET Nat
        OBVIOUS
      <3> HIDE DEF Bad
      <3> QED
        BY <2>1, <3>1, LeastNumber
    <2> DEFINE i == level - j
    <2>3. i \in 1..level /\ j \in Nat /\ j \in 0..level-1
      BY <1>0
    <2>4. CASE j = 0
      <3>1. i = level
        BY <2>4, <1>0
      <3>2. found[i] = LastBefore(k, i, Header)
        <4> HIDE DEF i
        <4> QED
          BY <1>7, <2>3, <3>1
      <3>3. Last(k, i, found[i])
        <4> HIDE DEF i
        <4> QED
          BY <1>0, <2>3, <3>2, SearchEnds
      <3> QED
        BY <3>3
    <2>5. CASE j # 0
      <3>1. j-1 \in Nat /\ j-1 \in 0..level-1 /\ ~(j <= j-1) /\ i # level /\ level - (j-1) = i + 1
        BY <1>0, <2>3, <2>5
      <3>2. j-1 \notin Bad
        <4> HIDE DEF Bad
        <4> QED
          BY <2>2, <3>1
      <3>3. Last(k, i + 1, found[i + 1])
        BY <3>1, <3>2
      <3>4. found[i + 1] \in Behind(k, i)
        <4> HIDE DEF i
        <4> QED
          BY <1>2, <2>3, <3>1, <3>3
      <3>5. found[i] = LastBefore(k, i, found[i + 1])
        <4> HIDE DEF i
        <4> QED
          BY <1>7, <2>3, <3>1
      <3>6. Last(k, i, found[i])
        <4> HIDE DEF i
        <4> QED
          BY <3>4, <3>5, SearchEnds
      <3> QED
        BY <3>6
    <2> QED
      BY <2>4, <2>5
  <1>9. ASSUME NEW i \in 1..level PROVE Last(k, i, found[i])
    <2>1. level - i \in Nat /\ level - i \in 0..level-1 /\ level - (level - i) = i
      BY <1>0
    <2>2. level - i \notin Bad
      <3> HIDE DEF Bad
      <3> QED
        BY <1>8
    <2> QED
      BY <2>1, <2>2
  <1> QED
    BY <1>6, <1>9

LEMMA LastSplits ==
    ASSUME SkipTypes, NEW pos, Linked(pos), NEW k \in Nat, NEW i, NEW m, Last(k, i, m),
           NEW b \in Allocated, i \in DOMAIN forward[b]
    PROVE  keyof[b] < k <=> pos[b] <= pos[m]
  <1>0. InRow(pos) /\ Sorted(pos) /\ m \in Blocks /\ b \in Blocks /\ b # Header
    BY BlocksAre DEF Linked, Last, Behind
  <1>1. pos[m] \in Nat /\ pos[b] \in Nat
    BY <1>0, PlacesAre
  <1>2. keyof[b] < k => pos[b] <= pos[m]
    <2>1. keyof[b] < k => b \in Behind(k, i)
      BY <1>0 DEF Behind
    <2> QED
      BY <2>1, LastIsLast
  <1>3. ASSUME pos[b] <= pos[m] PROVE keyof[b] < k
    <2>1. m # Header
      BY <1>3, <1>1, PlacesAre, <1>0
    <2>2. keyof[m] < k /\ m \in Allocated
      BY <2>1, <1>0, BlocksAre DEF Last, Behind
    <2>3. b = m \/ pos[b] < pos[m]
      BY <1>0, <1>1, <1>3, PlacesAre
    <2>4. keyof[b] <= keyof[m]
      <3>1. keyof[b] \in Nat /\ keyof[m] \in Nat
        BY <2>2, BlocksAre DEF SkipTypes
      <3> QED
        BY <2>2, <2>3, <3>1, <1>0 DEF Sorted
    <2>5. keyof[b] \in Nat /\ keyof[m] \in Nat
      BY <2>2, BlocksAre DEF SkipTypes
    <2> QED
      BY <2>2, <2>4, <2>5
  <1> QED
    BY <1>2, <1>3

(* All blocks have a link 1.                                               *)
LEMMA LowestSplits ==
    ASSUME SkipTypes, NEW pos, Linked(pos), NEW k \in Nat, NEW m, Last(k, 1, m),
           NEW b \in Allocated
    PROVE  keyof[b] < k <=> pos[b] <= pos[m]
  <1>1. 1 \in DOMAIN forward[b]
    BY LinksAre
  <1> QED
    BY <1>1, LastSplits

(* What jk_skip_find_node finds.                                           *)
LEMMA FindIs ==
    ASSUME SkipTypes, NEW pos, Linked(pos), NEW k \in Nat, level > 0
    PROVE  /\ SkipFind(k) = Null => \A b \in Allocated : keyof[b] # k
           /\ SkipFind(k) # Null =>
                 /\ SkipFind(k) \in Allocated /\ keyof[SkipFind(k)] = k
                 /\ \A b \in Allocated : keyof[b] < k <=> pos[b] < pos[SkipFind(k)]
  <1> DEFINE m == Update(k)[1]
             x == forward[m][1]
  <1>1. 1 \in 1..level
    BY LinksAre
  <1>2. Last(k, 1, m)
    BY <1>1, UpdateIs
  <1>3. InRow(pos) /\ Sorted(pos) /\ m \in Blocks /\ NextIs(pos, m, 1, x)
    BY <1>2 DEF Linked, Last, Behind
  <1>4. \A b \in Allocated : /\ keyof[b] < k <=> pos[b] <= pos[m]
                             /\ pos[b] \in Nat /\ pos[m] \in Nat /\ keyof[b] \in Nat
                             /\ 1 \in DOMAIN forward[b]
    <2>1. \A b \in Allocated : keyof[b] \in Nat /\ 1 \in DOMAIN forward[b]
      BY BlocksAre, LinksAre DEF SkipTypes
    <2>2. \A b \in Allocated : pos[b] \in Nat /\ pos[m] \in Nat
      BY <1>3, PlacesAre, BlocksAre
    <2> QED
      BY <1>2, <2>1, <2>2, LowestSplits
  <1>5. SkipFind(k) = IF x # Null /\ keyof[x] = k THEN x ELSE Null
    BY DEF SkipFind
  <1> HIDE DEF m, x
  <1>6. CASE x = Null
    <2>1. \A b \in Allocated : pos[b] <= pos[m]
      BY <1>3, <1>4, <1>6 DEF NextIs
    <2> QED
      BY <1>4, <1>5, <1>6, <2>1
  <1>7. CASE x # Null
    <2>1. x \in Allocated /\ pos[m] < pos[x]
      BY <1>3, <1>7 DEF NextIs
    <2>2. \A b \in Allocated : keyof[b] < k <=> pos[b] < pos[x]
      BY <1>3, <1>4, <2>1 DEF NextIs
    <2>3. x # Null /\ x \in SkipNodes
      BY <1>7, <2>1, BlocksAre
    <2>4. CASE keyof[x] = k
      BY <1>5, <2>1, <2>2, <2>3, <2>4
    <2>5. CASE keyof[x] # k
      <3>1. k < keyof[x]
        BY <1>4, <2>1, <2>2, <2>5
      <3>2. ASSUME NEW b \in Allocated PROVE pos[b] < pos[x] \/ b = x \/ pos[x] < pos[b]
        <4>1. b \in Blocks /\ x \in Blocks
          BY <2>1, BlocksAre
        <4>2. pos[b] = pos[x] => b = x
          BY <1>3, <4>1 DEF InRow
        <4>3. pos[b] \in Nat /\ pos[x] \in Nat
          BY <1>4, <2>1
        <4> QED
          BY <4>2, <4>3
      <3>3. ASSUME NEW b \in Allocated PROVE keyof[b] # k
        <4>1. keyof[b] \in Nat /\ keyof[x] \in Nat
          BY <1>4, <2>1
        <4>2. pos[x] < pos[b] => keyof[x] <= keyof[b]
          BY <1>3, <2>1 DEF Sorted
        <4>3. pos[b] < pos[x] => keyof[b] < k
          BY <2>2
        <4> QED
          BY <2>5, <3>1, <3>2, <4>1, <4>2, <4>3
      <3> QED
        BY <1>5, <2>5, <3>3
    <2> QED
      BY <2>4, <2>5
  <1> QED
    BY <1>6, <1>7

-----------------------------------------------------------------------------
(* Block n comes into the row at place p; those from p on move up.         *)
Comes(pos, n, p) ==
    [x \in Blocks \cup {n} |-> IF x = n THEN p ELSE IF pos[x] >= p THEN pos[x] + 1 ELSE pos[x]]

(* What jk_skip_insert does to the links, up[i] the block it goes behind.  *)
Adds(k, n, drawn, up) ==
    /\ n \in SkipNodes /\ n \notin Allocated /\ drawn \in 1..SkipMaxLevel
    /\ \A i \in 1..drawn : Last(k, i, up[i])
    /\ forward' \in [SkipNodes \cup {Header} -> Seq(SkipNodes \cup {Null})]
    /\ Len(forward'[n]) = drawn
    /\ \A i \in 1..drawn : forward'[n][i] = forward[up[i]][i]
    /\ \A m \in (SkipNodes \cup {Header}) \ {n} :
          /\ Len(forward'[m]) = Len(forward[m])
          /\ \A i \in DOMAIN forward[m] :
                forward'[m][i] = IF i <= drawn /\ up[i] = m THEN n ELSE forward[m][i]
    /\ keyof' = [keyof EXCEPT ![n] = k] /\ length' = length + 1
    /\ level > 0 /\ level' \in Nat /\ level' <= SkipMaxLevel /\ level <= level' /\ drawn <= level'

LEMMA HigherOf ==
    ASSUME NEW a \in Nat, NEW b \in Nat
    PROVE  Max({a, b}) \in {a, b} /\ Max({a, b}) >= a /\ Max({a, b}) >= b
  <1>1. \E x \in {a, b} : \A y \in {a, b} : x >= y
    BY DEF Max
  <1> QED
    BY <1>1 DEF Max

LEMMA InsertAdds ==
    ASSUME SkipTypes, NEW pos, Linked(pos), NEW k \in Nat, NEW drawn \in 1..SkipMaxLevel,
           SkipInsert(k, drawn)
    PROVE  \E n, up : Adds(k, n, drawn, up)
  <1> DEFINE n == Block
             found == Update(k)
             up == [i \in 1..drawn |-> IF i <= level THEN found[i] ELSE Header]
             D == SkipNodes \cup {Header}
  <1>0. level > 0 /\ level \in Nat /\ drawn \in Nat /\ SkipMaxLevel \in Nat /\ drawn <= SkipMaxLevel
        /\ DOMAIN forward = D
    BY LinksAre DEF SkipInsert, SkipTypes
  <1>1. n \in SkipNodes /\ n \notin Allocated
    <2>1. FreeBlocks # {} /\ FreeBlocks \in SUBSET Nat
      BY BlocksAre DEF SkipInsert, FreeBlocks
    <2>2. \E x \in FreeBlocks : \A y \in FreeBlocks : x <= y
      BY <2>1, LeastNumber
    <2>3. Block \in FreeBlocks
      BY <2>2 DEF Block, Min
    <2> QED
      BY <2>3 DEF FreeBlocks
  <1>2. \A i \in 1..drawn : Last(k, i, up[i])
    <2> SUFFICES ASSUME NEW i \in 1..drawn PROVE Last(k, i, up[i])
      OBVIOUS
    <2>1. CASE i <= level
      <3>1. i \in 1..level
        BY <1>0, <2>1
      <3> QED
        BY <2>1, <3>1, UpdateIs
    <2>2. CASE ~(i <= level)
      <3>1. i \in DOMAIN forward[Header] /\ Header \in Blocks
        BY <1>0, LinksAre, BlocksAre
      <3>2. NextIs(pos, Header, i, forward[Header][i])
        BY <3>1 DEF Linked
      <3>3. \A b \in Allocated : i \notin DOMAIN forward[b]
        BY <2>2, <1>0, LinksAre, BlocksAre DEF SkipTypes
      <3>4. forward[Header][i] = Null
        BY <3>2, <3>3 DEF NextIs
      <3>5. up[i] = Header
        BY <2>2
      <3> QED
        BY <3>1, <3>4, <3>5 DEF Last, Behind, Before
    <2> QED
      BY <2>1, <2>2
  <1>3. forward' = [m \in D |->
                      IF m = n THEN [i \in 1..drawn |-> forward[up[i]][i]]
                      ELSE [i \in DOMAIN forward[m] |->
                              IF i <= drawn /\ up[i] = m THEN n ELSE forward[m][i]]]
    BY <1>0 DEF SkipInsert
  <1>4. keyof' = [keyof EXCEPT ![n] = k] /\ length' = length + 1 /\ level' = Max({level, drawn})
    BY DEF SkipInsert
  <1>5. level' \in Nat /\ level' <= SkipMaxLevel /\ level <= level' /\ drawn <= level'
    <2>1. level <= SkipMaxLevel
      BY LinksAre
    <2> QED
      BY <1>0, <1>4, <2>1, HigherOf
  <1>6. ASSUME NEW i \in 1..drawn PROVE forward[up[i]][i] \in SkipNodes \cup {Null}
    <2>1. up[i] \in Blocks /\ i \in DOMAIN forward[up[i]]
      BY <1>2 DEF Last, Behind
    <2> HIDE DEF up
    <2> QED
      BY <2>1, LinksAre, BlocksAre
  <1> HIDE DEF n, up, found
  <1>7. /\ forward'[n] \in Seq(SkipNodes \cup {Null}) /\ Len(forward'[n]) = drawn
        /\ \A i \in 1..drawn : forward'[n][i] = forward[up[i]][i]
    <2> DEFINE new == [i \in 1..drawn |-> forward[up[i]][i]]
    <2>1. forward'[n] = new
      BY <1>1, <1>3
    <2>2. new \in Seq(SkipNodes \cup {Null}) /\ Len(new) = drawn
      BY <1>0, <1>6
    <2> QED
      BY <2>1, <2>2
  <1>8. ASSUME NEW m \in D \ {n}
        PROVE  /\ forward'[m] \in Seq(SkipNodes \cup {Null}) /\ Len(forward'[m]) = Len(forward[m])
               /\ \A i \in DOMAIN forward[m] :
                     forward'[m][i] = IF i <= drawn /\ up[i] = m THEN n ELSE forward[m][i]
    <2> DEFINE new == [i \in DOMAIN forward[m] |->
                          IF i <= drawn /\ up[i] = m THEN n ELSE forward[m][i]]
    <2>1. forward'[m] = new
      BY <1>3
    <2>2. DOMAIN forward[m] = 1..Len(forward[m]) /\ Len(forward[m]) \in Nat
          /\ \A i \in DOMAIN forward[m] : forward[m][i] \in SkipNodes \cup {Null}
      BY LinksAre
    <2>3. new \in Seq(SkipNodes \cup {Null}) /\ Len(new) = Len(forward[m])
      BY <1>1, <2>2
    <2> QED
      BY <2>1, <2>3
  <1>9. forward' \in [D -> Seq(SkipNodes \cup {Null})]
    <2>1. \A m \in D : forward'[m] \in Seq(SkipNodes \cup {Null})
      BY <1>7, <1>8
    <2>2. forward' = [m \in D |-> forward'[m]]
      BY <1>3
    <2> QED
      BY <2>1, <2>2
  <1>10. Adds(k, n, drawn, up)
    BY <1>0, <1>1, <1>2, <1>4, <1>5, <1>7, <1>8, <1>9 DEF Adds
  <1> QED
    BY <1>10

LEMMA AddTypes ==
    ASSUME SkipTypes, NEW k \in Nat, NEW n, NEW drawn, NEW up, Adds(k, n, drawn, up)
    PROVE  /\ SkipTypes' /\ Allocated' = Allocated \cup {n} /\ Blocks' = Blocks \cup {n}
           /\ DOMAIN forward'[n] = 1..drawn
           /\ \A m \in Blocks : m # n /\ DOMAIN forward'[m] = DOMAIN forward[m]
           /\ n # Header /\ n # Null /\ drawn \in Nat /\ 1 \in 1..drawn
  <1> DEFINE D == SkipNodes \cup {Header}
             L == SkipNodes \cup {Null}
  <1>0. /\ n \in SkipNodes /\ n \notin Allocated /\ n # Header /\ n # Null /\ n \in D
        /\ drawn \in Nat /\ drawn >= 1 /\ SkipMaxLevel \in Nat /\ level \in Nat /\ level <= SkipMaxLevel
    BY BlocksAre, LinksAre DEF Adds
  <1>1. forward' \in [D -> Seq(L)]
    BY DEF Adds
  <1>2. \A m \in D : forward'[m] \in Seq(L) /\ Len(forward'[m]) \in Nat
                     /\ DOMAIN forward'[m] = 1..Len(forward'[m])
    BY <1>1
  <1>3. ASSUME NEW m \in SkipNodes PROVE forward'[m] # <<>> <=> Len(forward'[m]) >= 1
    BY <1>2
  <1>4. Allocated' = {m \in SkipNodes : Len(forward'[m]) >= 1}
    BY <1>3 DEF Allocated
  <1>5. \A m \in D : m # n => Len(forward'[m]) = Len(forward[m])
    BY DEF Adds
  <1>6. Len(forward'[n]) = drawn
    BY DEF Adds
  <1>7. Allocated' = Allocated \cup {n}
    <2>1. \A m : m \in Allocated <=> m \in SkipNodes /\ Len(forward[m]) >= 1
      BY LinksAre
    <2> QED
      BY <2>1, <1>0, <1>4, <1>5, <1>6
  <1>8. Blocks' = Blocks \cup {n}
    BY <1>7 DEF Blocks
  <1>9. ASSUME NEW m \in Blocks PROVE m # n /\ DOMAIN forward'[m] = DOMAIN forward[m]
    <2>1. m # n /\ m \in D
      BY <1>0, BlocksAre DEF Blocks
    <2> QED
      BY <2>1, <1>2, <1>5, LinksAre
  <1>10. SkipTypes'
    <2>1. keyof' \in [SkipNodes -> Nat] /\ level' \in 0..SkipMaxLevel /\ length' \in Nat
      BY <1>0 DEF Adds, SkipTypes
    <2>2. length' = Cardinality(Allocated')
      <3>1. Cardinality(Allocated \cup {n}) = Cardinality(Allocated) + 1
        BY <1>0, BlocksAre, FS_AddElement
      <3> QED
        BY <3>1, <1>7 DEF Adds, SkipTypes
    <2>3. Len(forward'[Header]) = IF level' = 0 THEN 0 ELSE SkipMaxLevel
      <3>1. Len(forward'[Header]) = Len(forward[Header])
        BY <1>0, <1>5
      <3>2. level > 0 /\ level' # 0
        BY <1>0 DEF Adds
      <3> QED
        BY <3>1, <3>2, <1>0 DEF SkipTypes
    <2>4. ASSUME NEW m \in SkipNodes PROVE Len(forward'[m]) <= level'
      <3>1. m # n => Len(forward'[m]) <= level /\ Len(forward'[m]) \in Nat
        BY <1>2, <1>5 DEF SkipTypes
      <3>2. level <= level' /\ drawn <= level' /\ level' \in Nat
        BY DEF Adds
      <3> QED
        BY <3>1, <3>2, <1>0, <1>6
    <2> QED
      BY <1>1, <2>1, <2>2, <2>3, <2>4 DEF SkipTypes
  <1>11. DOMAIN forward'[n] = 1..drawn
    BY <1>0, <1>2, <1>6
  <1> QED
    BY <1>0, <1>7, <1>8, <1>9, <1>10, <1>11

(* The other blocks keep their order.                                      *)
Fits(pos, n, p, q) ==
    InRow(pos) /\ n \notin Blocks /\ p \in 1..length + 1 /\ q = Comes(pos, n, p)

InOrder(pos, n, p, q) ==
    /\ q \in [Blocks \cup {n} -> 0..length + 1] /\ q[n] = p /\ q[Header] = 0
    /\ p \in Nat /\ \A a \in Blocks : pos[a] \in Nat
    /\ \A a \in Blocks : q[a] = IF pos[a] >= p THEN pos[a] + 1 ELSE pos[a]
    /\ \A a, b \in Blocks : (q[a] < q[b] <=> pos[a] < pos[b]) /\ (q[a] <= q[b] <=> pos[a] <= pos[b])
    /\ \A a \in Blocks : /\ q[a] < p <=> pos[a] < p
                         /\ p < q[a] <=> p <= pos[a]
                         /\ p <= q[a] <=> p <= pos[a]
    /\ \A a, b \in Blocks \cup {n} : q[a] = q[b] => a = b
    /\ \A s \in 0..length + 1 : \E a \in Blocks \cup {n} : q[a] = s

LEMMA ComesInOrder ==
    ASSUME SkipTypes, NEW pos, NEW n, NEW p, NEW q, Fits(pos, n, p, q)
    PROVE  InOrder(pos, n, p, q)
  <1> USE DEF Fits
  <1>1. \A a \in Blocks : q[a] = (IF pos[a] >= p THEN pos[a] + 1 ELSE pos[a]) /\ a # n
    BY DEF Comes
  <1>2. q[n] = p
    BY DEF Comes
  <1>3. \A a \in Blocks : pos[a] \in Nat /\ pos[a] <= length /\ length \in Nat
    BY PlacesAre
  <1>4. p \in Nat /\ p >= 1 /\ p <= length + 1 /\ length \in Nat
    BY DEF SkipTypes
  <1>5. \A a, b \in Blocks : (q[a] < q[b] <=> pos[a] < pos[b]) /\ (q[a] <= q[b] <=> pos[a] <= pos[b])
    BY <1>1, <1>3, <1>4
  <1>6. \A a \in Blocks : (q[a] < p <=> pos[a] < p) /\ (p < q[a] <=> p <= pos[a])
                          /\ (p <= q[a] <=> p <= pos[a]) /\ q[a] # p
    BY <1>1, <1>3, <1>4
  <1>7. q[Header] = 0
    BY <1>1, <1>4, BlocksAre DEF InRow
  <1>8. ASSUME NEW a \in Blocks \cup {n}, NEW b \in Blocks \cup {n}, q[a] = q[b]
        PROVE  a = b
    <2>1. CASE a \in Blocks /\ b \in Blocks
      <3>1. pos[a] = pos[b]
        BY <2>1, <1>8, <1>1, <1>3, <1>4
      <3> QED
        BY <2>1, <3>1 DEF InRow
    <2> QED
      BY <2>1, <1>2, <1>6, <1>8
  <1>9. \A a \in Blocks \cup {n} : q[a] \in 0..length + 1
    BY <1>1, <1>2, <1>3, <1>4
  <1>10. q \in [Blocks \cup {n} -> 0..length + 1]
    <2>1. q = [a \in Blocks \cup {n} |-> q[a]]
      BY DEF Comes
    <2> QED
      BY <2>1, <1>9
  <1>11. ASSUME NEW s \in 0..length + 1 PROVE \E a \in Blocks \cup {n} : q[a] = s
    <2>1. CASE s = p
      BY <2>1, <1>2
    <2>2. CASE s < p
      <3>1. s \in 0..length
        BY <2>2, <1>4
      <3>2. PICK a \in Blocks : pos[a] = s
        BY <3>1 DEF InRow
      <3> QED
        BY <3>2, <2>2, <1>1, <1>4
    <2>3. CASE s > p
      <3>1. s-1 \in 0..length /\ s-1 >= p /\ (s-1) + 1 = s
        BY <2>3, <1>4
      <3>2. PICK a \in Blocks : pos[a] = s-1
        BY <3>1 DEF InRow
      <3> QED
        BY <3>1, <3>2, <1>1
    <2> QED
      BY <2>1, <2>2, <2>3, <1>4
  <1> QED
    BY <1>1, <1>2, <1>3, <1>4, <1>5, <1>6, <1>7, <1>8, <1>10, <1>11 DEF InOrder

(* Block n comes into the row pos, at place p, which makes it the row q.   *)
Enters(pos, k, n, drawn, up, p, q) ==
    /\ Linked(pos) /\ k \in Nat /\ Adds(k, n, drawn, up)
    /\ p = pos[up[1]] + 1 /\ q = Comes(pos, n, p)

(* Where the new block goes: behind the smaller keys, and on each level    *)
(* behind the block that the search found for that level.                  *)
LEMMA AddPlace ==
    ASSUME SkipTypes, NEW pos, NEW k, NEW n, NEW drawn, NEW up, NEW p, NEW q,
           Enters(pos, k, n, drawn, up, p, q)
    PROVE  /\ p \in 1..length + 1
           /\ \A b \in Allocated : (keyof[b] < k <=> pos[b] < p) /\ (keyof[b] >= k <=> p <= pos[b])
           /\ \A i \in 1..drawn :
                 /\ up[i] \in Blocks /\ i \in DOMAIN forward[up[i]] /\ pos[up[i]] < p
                 /\ NextIs(pos, up[i], i, forward[up[i]][i])
                 /\ \A b \in Blocks : i \in DOMAIN forward[b] /\ pos[b] < p => pos[b] <= pos[up[i]]
  <1> DEFINE m == up[1]
  <1> USE DEF Enters
  <1>0. 1 \in 1..drawn /\ \A i \in 1..drawn : Last(k, i, up[i])
    BY AddTypes DEF Adds
  <1>1. Last(k, 1, m)
    BY <1>0
  <1>2. InRow(pos) /\ m \in Blocks
    BY <1>1 DEF Last, Behind, Linked
  <1>3. pos[m] \in Nat /\ pos[m] <= length /\ length \in Nat
    BY <1>2, PlacesAre
  <1>4. ASSUME NEW b \in Allocated
        PROVE  (keyof[b] < k <=> pos[b] < p) /\ (keyof[b] >= k <=> p <= pos[b])
    <2>1. keyof[b] < k <=> pos[b] <= pos[m]
      BY <1>1, LowestSplits
    <2>2. pos[b] \in Nat /\ keyof[b] \in Nat
      BY <1>2, PlacesAre, BlocksAre DEF SkipTypes
    <2> QED
      BY <2>1, <2>2, <1>3
  <1>5. ASSUME NEW i \in 1..drawn
        PROVE  /\ up[i] \in Blocks /\ i \in DOMAIN forward[up[i]] /\ pos[up[i]] < p
               /\ NextIs(pos, up[i], i, forward[up[i]][i])
               /\ \A b \in Blocks : i \in DOMAIN forward[b] /\ pos[b] < p => pos[b] <= pos[up[i]]
    <2> DEFINE u == up[i]
    <2>1. Last(k, i, u)
      BY <1>0
    <2>2. u \in Blocks /\ i \in DOMAIN forward[u] /\ (u # Header => keyof[u] < k)
      BY <2>1 DEF Last, Behind
    <2>3. NextIs(pos, u, i, forward[u][i])
      BY <2>2 DEF Linked
    <2>4. pos[u] < p
      <3>1. CASE u = Header
        BY <3>1, <1>3 DEF Linked, InRow
      <3>2. CASE u # Header
        BY <3>2, <2>2, <1>4, BlocksAre
      <3> QED
        BY <3>1, <3>2
    <2>5. ASSUME NEW b \in Blocks, i \in DOMAIN forward[b], pos[b] < p PROVE pos[b] <= pos[u]
      <3>1. b # Header => keyof[b] < k
        BY <2>5, <1>4, BlocksAre
      <3>2. b \in Behind(k, i)
        BY <3>1, <2>5 DEF Behind
      <3> QED
        BY <3>2, <2>1, LastIsLast
    <2> QED
      BY <2>2, <2>3, <2>4, <2>5
  <1> QED
    BY <1>3, <1>4, <1>5

LEMMA AddOrder ==
    ASSUME SkipTypes, NEW pos, NEW k, NEW n, NEW drawn, NEW up, NEW p, NEW q,
           Enters(pos, k, n, drawn, up, p, q)
    PROVE  InOrder(pos, n, p, q) /\ InRow(pos) /\ n \notin Blocks
  <1>1. p \in 1..length + 1
    BY AddPlace
  <1>0. Linked(pos) /\ k \in Nat /\ Adds(k, n, drawn, up) /\ q = Comes(pos, n, p)
    BY DEF Enters
  <1>2. InRow(pos) /\ n \notin Blocks /\ q = Comes(pos, n, p)
    BY <1>0, AddTypes DEF Linked
  <1>3. p \in Nat /\ \A a \in Blocks : pos[a] \in Nat
    BY <1>1, <1>2, PlacesAre DEF SkipTypes
  <1>4. Fits(pos, n, p, q)
    BY <1>1, <1>2 DEF Fits
  <1> QED
    BY <1>2, <1>4, ComesInOrder

LEMMA AddSorted ==
    ASSUME SkipTypes, NEW pos, NEW k, NEW n, NEW drawn, NEW up, NEW p, NEW q,
           Enters(pos, k, n, drawn, up, p, q)
    PROVE  InRow(q)' /\ Sorted(q)'
  <1>a. Linked(pos) /\ k \in Nat /\ Adds(k, n, drawn, up)
    BY DEF Enters
  <1>b. p \in 1..length + 1
    BY AddPlace
  <1>c. InOrder(pos, n, p, q)
    BY AddOrder
  <1>0. InRow(pos) /\ Sorted(pos) /\ p \in 1..length + 1 /\ n \notin Blocks
    BY <1>a, <1>b, AddTypes DEF Linked
  <1>1. InRow(q)'
    <2>0. Blocks' = Blocks \cup {n}
      BY <1>a, AddTypes
    <2>1. Blocks' = Blocks \cup {n} /\ length' = length + 1
      BY <1>a, <2>0 DEF Adds
    <2>2. /\ q \in [Blocks \cup {n} -> 0..length + 1] /\ q[Header] = 0
          /\ \A a, b \in Blocks \cup {n} : q[a] = q[b] => a = b
          /\ \A s \in 0..length + 1 : \E a \in Blocks \cup {n} : q[a] = s
      BY <1>c DEF InOrder
    <2> QED
      BY <2>1, <2>2 DEF InRow
  <1>2. ASSUME NEW a \in Allocated', NEW b \in Allocated', q[a] < q[b]
        PROVE  keyof'[a] <= keyof'[b]
    <2>1. Allocated' = Allocated \cup {n} /\ Allocated \subseteq Blocks /\ Allocated \subseteq SkipNodes
      BY <1>a, AddTypes, BlocksAre
    <2>2. \A c \in Allocated : keyof'[c] = keyof[c] /\ keyof[c] \in Nat
      BY <1>0, <1>a, <2>1 DEF Adds, SkipTypes
    <2>3. keyof'[n] = k
      BY DEF Enters, Adds, SkipTypes
    <2>4. q[n] = p /\ p \in Nat
      BY <1>c DEF InOrder
    <2>5. CASE a = n /\ b = n
      BY <2>4, <2>5, <1>2
    <2>6. CASE a = n /\ b # n
      <3>1. p < q[b] /\ b \in Allocated
        BY <2>1, <2>4, <2>6, <1>2
      <3>2. p <= pos[b]
        BY <3>1, <1>0, <2>1, <1>c DEF InOrder
      <3>3. keyof[b] >= k
        BY <3>1, <3>2, AddPlace
      <3> QED
        BY <3>1, <3>3, <2>2, <2>3, <2>6
    <2>7. CASE a # n /\ b = n
      <3>1. q[a] < p /\ a \in Allocated
        BY <2>1, <2>4, <2>7, <1>2
      <3>2. pos[a] < p
        BY <3>1, <1>0, <2>1, <1>c DEF InOrder
      <3>3. keyof[a] < k
        BY <3>1, <3>2, AddPlace
      <3> QED
        BY <1>a, <3>1, <3>3, <2>2, <2>3, <2>7
    <2>8. CASE a # n /\ b # n
      <3>1. a \in Allocated /\ b \in Allocated
        BY <2>1, <2>8
      <3>2. pos[a] < pos[b]
        BY <3>1, <1>0, <1>2, <2>1, <1>c DEF InOrder
      <3> QED
        BY <3>1, <3>2, <1>0, <2>2 DEF Sorted
    <2> QED
      BY <2>5, <2>6, <2>7, <2>8
  <1> QED
    BY <1>1, <1>2 DEF Sorted

LEMMA AddLinks ==
    ASSUME SkipTypes, NEW pos, NEW k, NEW n, NEW drawn, NEW up, NEW p, NEW q,
           Enters(pos, k, n, drawn, up, p, q),
           NEW m \in Blocks', NEW i \in DOMAIN forward'[m]
    PROVE  NextIs(q, m, i, forward[m][i])'
  <1> DEFINE x == forward'[m][i]
  <1>a. Linked(pos) /\ k \in Nat /\ Adds(k, n, drawn, up)
    BY DEF Enters
  <1>b. p \in 1..length + 1
    BY AddPlace
  <1>c. InOrder(pos, n, p, q)
    BY AddOrder
  <1>0. InRow(pos) /\ p \in 1..length + 1 /\ n \notin Blocks /\ n # Null
        /\ Blocks' = Blocks \cup {n} /\ Allocated' = Allocated \cup {n}
        /\ Allocated \subseteq Blocks /\ Null \notin Blocks
        /\ DOMAIN forward'[n] = 1..drawn /\ \A c \in Blocks : DOMAIN forward'[c] = DOMAIN forward[c]
    BY <1>a, <1>b, AddTypes, BlocksAre DEF Linked
  <1>1. /\ q[n] = p
        /\ \A a, b \in Blocks : (q[a] < q[b] <=> pos[a] < pos[b]) /\ (q[a] <= q[b] <=> pos[a] <= pos[b])
        /\ \A a \in Blocks : /\ q[a] < p <=> pos[a] < p
                             /\ p < q[a] <=> p <= pos[a]
                             /\ p <= q[a] <=> p <= pos[a]
    BY <1>0, <1>c DEF InOrder
  <1>2. \A b \in Blocks : pos[b] \in Nat
    BY <1>c DEF InOrder
  <1>3. p \in Nat
    BY <1>0 DEF SkipTypes
  <1>4. SUFFICES /\ x # Null => /\ x \in Allocated \cup {n} /\ i \in DOMAIN forward'[x]
                                /\ q[m] < q[x]
                 /\ \A b \in Allocated \cup {n} : i \in DOMAIN forward'[b] /\ q[m] < q[b] =>
                        x # Null /\ q[x] <= q[b]
    BY <1>0 DEF NextIs
  <1>5. CASE m = n
    <2> DEFINE u == up[i]
    <2>1. i \in 1..drawn
      BY <1>0, <1>5
    <2>2. x = forward[u][i]
      BY <1>a, <1>5, <2>1 DEF Adds
    <2>3. u \in Blocks /\ NextIs(pos, u, i, x) /\ pos[u] < p
      BY <2>1, <2>2, AddPlace
    <2>4. \A b \in Allocated : i \in DOMAIN forward[b] /\ pos[b] < p => pos[b] <= pos[u]
      BY <2>1, <1>0, AddPlace
    <2> HIDE DEF x, u
    <2>5. ASSUME x # Null
          PROVE  x \in Allocated /\ i \in DOMAIN forward[x] /\ p <= pos[x]
      <3>1. x \in Allocated /\ i \in DOMAIN forward[x] /\ pos[u] < pos[x]
        BY <2>3, <2>5 DEF NextIs
      <3>2. pos[x] \in Nat /\ pos[u] \in Nat
        BY <3>1, <2>3, <1>0, <1>2
      <3> QED
        BY <3>1, <3>2, <1>3, <2>4
    <2>6. ASSUME NEW b \in Allocated \cup {n}, i \in DOMAIN forward'[b], q[m] < q[b]
          PROVE  x # Null /\ q[x] <= q[b]
      <3>1. b \in Allocated /\ b \in Blocks /\ p < q[b]
        BY <2>6, <1>0, <1>1, <1>3, <1>5
      <3>2. p <= pos[b] /\ i \in DOMAIN forward[b] /\ pos[u] < pos[b]
        <4>1. p <= pos[b] /\ i \in DOMAIN forward[b]
          BY <3>1, <2>6, <1>0, <1>1
        <4> QED
          BY <4>1, <3>1, <2>3, <1>2, <1>3
      <3>3. x # Null /\ pos[x] <= pos[b]
        BY <3>1, <3>2, <2>3 DEF NextIs
      <3>4. x \in Blocks
        BY <3>3, <2>5, <1>0
      <3> QED
        BY <3>1, <3>3, <3>4, <1>1
    <2>7. x # Null => x \in Allocated \cup {n} /\ i \in DOMAIN forward'[x] /\ q[m] < q[x]
      BY <2>5, <1>0, <1>1, <1>5
    <2> QED
      BY <2>6, <2>7
  <1>6. CASE m # n
    <2>1. m \in Blocks /\ i \in DOMAIN forward[m]
      BY <1>0, <1>6
    <2>2. x = IF i <= drawn /\ up[i] = m THEN n ELSE forward[m][i]
      BY <2>1, <1>6, BlocksAre, <1>a DEF Adds
    <2>3. drawn \in Nat /\ i \in Nat /\ i >= 1
      BY <2>1, <1>a, LinksAre, BlocksAre, AddTypes
    <2>4. CASE i <= drawn /\ up[i] = m
      <3>1. i \in 1..drawn /\ x = n
        BY <2>2, <2>3, <2>4
      <3>2. pos[m] < p /\ \A b \in Blocks : i \in DOMAIN forward[b] /\ pos[b] < p => pos[b] <= pos[m]
        BY <3>1, <2>4, AddPlace
      <3>3. x \in Allocated \cup {n} /\ i \in DOMAIN forward'[x] /\ q[m] < q[x] /\ x # Null
        BY <3>1, <3>2, <2>1, <1>0, <1>1
      <3>4. ASSUME NEW b \in Allocated \cup {n}, i \in DOMAIN forward'[b], q[m] < q[b]
            PROVE  q[x] <= q[b]
        <4>1. CASE b = n
          BY <4>1, <3>1, <1>1, <1>3
        <4>2. CASE b # n
          <5>1. b \in Blocks /\ i \in DOMAIN forward[b] /\ pos[m] < pos[b]
            BY <4>2, <3>4, <2>1, <1>0, <1>1
          <5>2. p <= pos[b]
            BY <5>1, <3>2, <2>1, <1>2, <1>3
          <5> QED
            BY <5>1, <5>2, <3>1, <1>1
        <4> QED
          BY <4>1, <4>2
      <3> HIDE DEF x
      <3> QED
        BY <3>3, <3>4
    <2>5. CASE ~(i <= drawn /\ up[i] = m)
      <3>1. x = forward[m][i]
        BY <2>2, <2>5
      <3>2. NextIs(pos, m, i, x)
        BY <1>a, <2>1, <3>1 DEF Linked
      <3> HIDE DEF x
      <3>3. x # Null => /\ x \in Allocated /\ x \in Blocks /\ i \in DOMAIN forward'[x] /\ q[m] < q[x]
        BY <3>2, <2>1, <1>0, <1>1 DEF NextIs
      <3>4. ASSUME NEW b \in Allocated \cup {n}, i \in DOMAIN forward'[b], q[m] < q[b]
            PROVE  x # Null /\ q[x] <= q[b]
        <4>1. CASE b # n
          <5>1. b \in Allocated /\ b \in Blocks /\ i \in DOMAIN forward[b] /\ pos[m] < pos[b]
            BY <4>1, <3>4, <2>1, <1>0, <1>1
          <5>2. x # Null /\ pos[x] <= pos[b]
            BY <5>1, <3>2 DEF NextIs
          <5> QED
            BY <5>1, <5>2, <3>3, <1>1
        <4>2. CASE b = n
          <5> DEFINE u == up[i]
          <5>1. i \in 1..drawn /\ u # m /\ pos[m] < p
            BY <4>2, <3>4, <2>1, <2>3, <2>5, <1>0, <1>1
          <5>2. u \in Blocks /\ i \in DOMAIN forward[u] /\ pos[u] < p /\ pos[m] <= pos[u]
            BY <5>1, <2>1, AddPlace
          <5> HIDE DEF u
          <5>3. pos[m] < pos[u] /\ u \in Allocated
            <6>1. pos[m] \in Nat /\ pos[u] \in Nat /\ pos[m] # pos[u]
              BY <5>1, <5>2, <2>1, <1>0, <1>2 DEF InRow
            <6>2. u # Header
              BY <6>1, <5>2, <1>0 DEF InRow
            <6> QED
              BY <6>1, <6>2, <5>2, BlocksAre
          <5>4. x # Null /\ pos[x] <= pos[u]
            BY <5>2, <5>3, <3>2 DEF NextIs
          <5>5. x \in Blocks /\ pos[x] < p
            BY <5>2, <5>4, <3>3, <1>2, <1>3
          <5>6. q[x] < p /\ q[x] \in Nat /\ q[b] = p
            <6>1. q[x] < p /\ q[b] = p
              BY <5>5, <4>2, <1>1
            <6>2. q[x] = IF pos[x] >= p THEN pos[x] + 1 ELSE pos[x]
              BY <5>5, <1>0, <1>c DEF InOrder
            <6> QED
              BY <6>1, <6>2, <5>5, <1>2
          <5> QED
            BY <5>4, <5>6, <1>3
        <4> QED
          BY <4>1, <4>2
      <3>5. x # Null => x \in Allocated \cup {n}
        BY <3>3
      <3> QED
        BY <3>3, <3>4, <3>5
    <2> QED
      BY <2>4, <2>5
  <1> QED
    BY <1>5, <1>6, <1>0

LEMMA AddKeeps ==
    ASSUME SkipTypes, NEW pos, NEW k, NEW n, NEW drawn, NEW up, NEW p, NEW q,
           Enters(pos, k, n, drawn, up, p, q)
    PROVE  SkipTypes' /\ Linked(q)'
  <1>0. k \in Nat /\ Adds(k, n, drawn, up)
    BY DEF Enters
  <1>1. SkipTypes' /\ InRow(q)' /\ Sorted(q)'
    BY <1>0, AddTypes, AddSorted
  <1>2. \A m \in Blocks' : \A i \in DOMAIN forward'[m] : NextIs(q, m, i, forward[m][i])'
    BY AddLinks
  <1> QED
    BY <1>1, <1>2 DEF Linked

-----------------------------------------------------------------------------
(* Block n leaves the row; those behind it move down.                      *)
Goes(pos, n) ==
    [x \in Blocks \ {n} |-> IF pos[x] > pos[n] THEN pos[x] - 1 ELSE pos[x]]

(* What jk_skip_delete does to the links.                                  *)
Drops(n) ==
    /\ n \in Allocated
    /\ forward' \in [SkipNodes \cup {Header} -> Seq(SkipNodes \cup {Null})]
    /\ Len(forward'[n]) = 0
    /\ \A m \in (SkipNodes \cup {Header}) \ {n} :
          /\ Len(forward'[m]) = Len(forward[m])
          /\ \A i \in DOMAIN forward[m] :
                forward'[m][i] = IF forward[m][i] = n THEN forward[n][i] ELSE forward[m][i]
    /\ keyof' = [keyof EXCEPT ![n] = 0] /\ length' = length - 1
    /\ level > 0 /\ level' \in Nat /\ level' >= 1 /\ level' <= level
    /\ \A b \in Allocated : b # n => Len(forward[b]) <= level'

(* The search has found, on every level, the only link that leads to n.    *)
Leads(k, n, update) ==
    /\ \A i \in 1..level : Last(k, i, update[i])
    /\ n \in Allocated /\ keyof[n] = k

LEMMA OneLink ==
    ASSUME SkipTypes, NEW pos, Linked(pos), NEW k \in Nat, NEW n, NEW update,
           Leads(k, n, update), \A b \in Allocated : keyof[b] < k <=> pos[b] < pos[n]
    PROVE  /\ \A i \in 1..level : forward[update[i]][i] = n <=> i \in DOMAIN forward[n]
           /\ \A m \in SkipNodes \cup {Header} : \A i \in DOMAIN forward[m] :
                 forward[m][i] = n <=> i \in DOMAIN forward[n] /\ update[i] = m
  <1>0. /\ InRow(pos) /\ n \in Allocated /\ n \in Blocks /\ n # Null /\ Allocated \subseteq Blocks
        /\ level \in Nat
    BY BlocksAre, LinksAre DEF Leads, Linked
  <1>1. \A b \in Blocks : pos[b] \in Nat
    BY <1>0, PlacesAre
  <1>2. DOMAIN forward[n] \subseteq 1..level
    <2>1. DOMAIN forward[n] = 1..Len(forward[n]) /\ Len(forward[n]) \in Nat /\ Len(forward[n]) <= level
      BY <1>0, LinksAre, BlocksAre DEF SkipTypes
    <2> QED
      BY <1>0, <2>1
  <1>3. ASSUME NEW i \in 1..level
        PROVE  /\ update[i] \in Behind(k, i) /\ update[i] \in Blocks /\ i \in DOMAIN forward[update[i]]
               /\ pos[update[i]] < pos[n]
               /\ NextIs(pos, update[i], i, forward[update[i]][i])
               /\ forward[update[i]][i] # Null => ~(keyof[forward[update[i]][i]] < k)
    <2> DEFINE u == update[i]
    <2>1. Last(k, i, u)
      BY DEF Leads
    <2>2. u \in Behind(k, i) /\ u \in Blocks /\ i \in DOMAIN forward[u] /\ (u # Header => keyof[u] < k)
          /\ (forward[u][i] # Null => ~(keyof[forward[u][i]] < k))
      BY <2>1 DEF Last, Behind, Before
    <2> HIDE DEF u
    <2>3. u = Header => pos[u] < pos[n]
      BY <1>0, PlacesAre
    <2>4. u # Header => u \in Allocated /\ keyof[u] < k
      BY <2>2, BlocksAre
    <2>5. NextIs(pos, u, i, forward[u][i])
      BY <2>2 DEF Linked
    <2>6. pos[u] < pos[n]
      BY <2>3, <2>4
    <2> QED
      BY <2>2, <2>5, <2>6 DEF u
  <1>4. ASSUME NEW i \in 1..level
        PROVE  forward[update[i]][i] = n <=> i \in DOMAIN forward[n]
    <2> DEFINE u == update[i]
               x == forward[u][i]
    <2>1. u \in Blocks /\ pos[u] < pos[n] /\ NextIs(pos, u, i, x) /\ (x # Null => ~(keyof[x] < k))
      BY <1>3
    <2> HIDE DEF u, x
    <2>2. x = n => i \in DOMAIN forward[n]
      BY <1>0, <2>1 DEF NextIs
    <2>3. ASSUME i \in DOMAIN forward[n] PROVE x = n
      <3>1. x # Null /\ x \in Allocated /\ pos[x] <= pos[n]
        BY <2>1, <2>3, <1>0 DEF NextIs
      <3>2. ~(pos[x] < pos[n])
        BY <3>1, <2>1
      <3>3. pos[x] \in Nat /\ pos[n] \in Nat /\ x \in Blocks
        BY <3>1, <1>0, <1>1
      <3>4. pos[x] = pos[n]
        BY <3>1, <3>2, <3>3
      <3> QED
        BY <3>3, <3>4, <1>0 DEF InRow
    <2>4. x = n <=> i \in DOMAIN forward[n]
      BY <2>2, <2>3
    <2> QED
      BY <2>4 DEF x, u
  <1>5. ASSUME NEW m \in SkipNodes \cup {Header}, NEW i \in DOMAIN forward[m]
        PROVE  forward[m][i] = n <=> i \in DOMAIN forward[n] /\ update[i] = m
    <2>1. m \in Blocks
      BY LinksAre, BlocksAre DEF Blocks
    <2>2. ASSUME i \in DOMAIN forward[n], update[i] = m PROVE forward[m][i] = n
      BY <2>2, <1>2, <1>4
    <2>3. ASSUME forward[m][i] = n PROVE i \in DOMAIN forward[n] /\ update[i] = m
      <3>1. NextIs(pos, m, i, n)
        BY <2>1, <2>3 DEF Linked
      <3>2. i \in DOMAIN forward[n] /\ pos[m] < pos[n]
        BY <3>1, <1>0 DEF NextIs
      <3>3. i \in 1..level
        BY <3>2, <1>2
      <3> DEFINE u == update[i]
      <3>4. u \in Blocks /\ pos[u] < pos[n] /\ i \in DOMAIN forward[u] /\ Last(k, i, u)
        BY <3>3, <1>3 DEF Leads
      <3>5. m \in Behind(k, i)
        <4>1. m # Header => m \in Allocated
          BY <2>1, BlocksAre
        <4>2. m # Header => keyof[m] < k
          BY <4>1, <3>2
        <4> QED
          BY <2>1, <4>2 DEF Behind
      <3> HIDE DEF u
      <3>6. pos[m] <= pos[u]
        BY <3>4, <3>5, LastIsLast
      <3>7. u = m
        <4> SUFFICES ASSUME u # m PROVE FALSE
          OBVIOUS
        <4>1. pos[m] < pos[u]
          BY <2>1, <3>4, <3>6, <1>0, <1>1 DEF InRow
        <4>2. u # Header
          BY <4>1, <2>1, <3>4, <1>0, <1>1 DEF InRow
        <4>3. u \in Allocated
          BY <3>4, <4>2, BlocksAre
        <4>4. pos[n] <= pos[u]
          BY <3>1, <3>4, <4>1, <4>3 DEF NextIs
        <4> QED
          BY <3>4, <4>4, <1>0, <1>1
      <3> QED
        BY <3>2, <3>7 DEF u
    <2> QED
      BY <2>2, <2>3
  <1> QED
    BY <1>4, <1>5

LEMMA HighestOf ==
    ASSUME NEW S \in SUBSET Nat, S # {}, NEW n \in Nat, \A x \in S : x <= n
    PROVE  Max(S) \in S /\ \A x \in S : x <= Max(S)
  <1> DEFINE T == {n - x : x \in S}
  <1>1. T \in SUBSET Nat /\ T # {}
    <2>1. \A x \in S : n - x \in Nat
      <3> TAKE x \in S
      <3>1. x \in Nat /\ x <= n
        OBVIOUS
      <3> QED
        BY <3>1
    <2> QED
      BY <2>1
  <1>2. PICK t \in T : \A u \in T : t <= u
    <2> HIDE DEF T
    <2> QED
      BY <1>1, LeastNumber
  <1>3. PICK x \in S : t = n - x
    OBVIOUS
  <1>4. ASSUME NEW y \in S PROVE x >= y
    <2>1. n - y \in T
      OBVIOUS
    <2>2. n - x <= n - y
      <3> HIDE DEF T
      <3> QED
        BY <1>2, <1>3, <2>1
    <2>3. x \in Nat /\ y \in Nat
      OBVIOUS
    <2> QED
      BY <2>2, <2>3
  <1>5. \E z \in S : \A y \in S : z >= y
    BY <1>4
  <1>6. Max(S) \in S /\ \A y \in S : Max(S) >= y
    BY <1>5 DEF Max
  <1> QED
    BY <1>6

LEMMA DeleteDrops ==
    ASSUME SkipTypes, NEW pos, Linked(pos), NEW k \in Nat, SkipDelete(k)
    PROVE  \E n : /\ Drops(n) /\ keyof[n] = k
                  /\ \A b \in Allocated : keyof[b] < k <=> pos[b] < pos[n]
  <1> DEFINE n == SkipFind(k)
             update == Update(k)
             D == SkipNodes \cup {Header}
             L == SkipNodes \cup {Null}
             levels == LinkedLevels(update, n)
             links == [m \in DOMAIN forward |-> [i \in DOMAIN forward[m] |->
                        IF i \in levels /\ update[i] = m THEN forward[n][i]
                        ELSE forward[m][i]]]
  <1>0. level > 0 /\ n # Null /\ level \in Nat /\ DOMAIN forward = D
    BY LinksAre DEF SkipDelete, SkipTypes
  <1>1. n \in Allocated /\ keyof[n] = k /\ \A b \in Allocated : keyof[b] < k <=> pos[b] < pos[n]
    BY <1>0, FindIs
  <1>2. \A i \in 1..level : Last(k, i, update[i])
    BY UpdateIs
  <1>3. /\ forward' = [links EXCEPT ![n] = <<>>]
        /\ keyof' = [keyof EXCEPT ![n] = 0]
        /\ level' = Lowered(links[Header])
        /\ length' = length - 1
    BY DEF SkipDelete
  <1>4. Leads(k, n, update)
    <2> HIDE DEF n, update
    <2> QED
      BY <1>1, <1>2 DEF Leads
  <1> HIDE DEF n, update
  <1>5. /\ \A i \in 1..level : forward[update[i]][i] = n <=> i \in DOMAIN forward[n]
        /\ \A m \in D : \A i \in DOMAIN forward[m] :
              forward[m][i] = n <=> i \in DOMAIN forward[n] /\ update[i] = m
    BY <1>1, <1>4, OneLink
  <1>6. n \in SkipNodes /\ n \in D /\ n # Header /\ n \in Blocks
    BY <1>1, BlocksAre
  <1>7. DOMAIN forward[n] = 1..Len(forward[n]) /\ Len(forward[n]) \in Nat /\ Len(forward[n]) <= level
        /\ \A i \in DOMAIN forward[n] : forward[n][i] \in L
    BY <1>6, LinksAre DEF SkipTypes
  <1>8. levels = DOMAIN forward[n]
    <2>1. \A i \in levels : i \in DOMAIN forward[n]
      <3> SUFFICES ASSUME NEW i \in levels PROVE i \in DOMAIN forward[n]
        OBVIOUS
      <3>1. i \in 1..level /\ i \in 1..i /\ \A j \in 1..i : forward[update[j]][j] = n
        BY <1>0 DEF LinkedLevels
      <3> QED
        BY <3>1, <1>5
    <2>2. ASSUME NEW i \in DOMAIN forward[n] PROVE i \in levels
      <3>1. i \in 1..level /\ \A j \in 1..i : j \in DOMAIN forward[n] /\ j \in 1..level
        BY <1>0, <1>7
      <3> QED
        BY <3>1, <1>5 DEF LinkedLevels
    <2> QED
      BY <2>1, <2>2
  <1> HIDE DEF levels
  <1>9. ASSUME NEW m \in D
        PROVE  /\ DOMAIN links[m] = DOMAIN forward[m]
               /\ \A i \in DOMAIN forward[m] :
                     links[m][i] = IF forward[m][i] = n THEN forward[n][i] ELSE forward[m][i]
               /\ links[m] \in Seq(L) /\ Len(links[m]) = Len(forward[m])
    <2> DEFINE new == [i \in DOMAIN forward[m] |->
                        IF i \in levels /\ update[i] = m THEN forward[n][i] ELSE forward[m][i]]
    <2>1. links[m] = new
      BY <1>0
    <2>2. DOMAIN forward[m] = 1..Len(forward[m]) /\ Len(forward[m]) \in Nat
          /\ \A i \in DOMAIN forward[m] : forward[m][i] \in L
      BY LinksAre
    <2>3. new \in Seq(L) /\ Len(new) = Len(forward[m])
      BY <2>2, <1>7, <1>8
    <2>4. \A i \in DOMAIN forward[m] :
             (i \in levels /\ update[i] = m) <=> forward[m][i] = n
      BY <1>5, <1>8
    <2> HIDE DEF levels, links
    <2> QED
      BY <2>1, <2>3, <2>4
  <1>10. DOMAIN links = D /\ links = [m \in D |-> links[m]]
    BY <1>0
  <1> HIDE DEF links
  <1>11. forward' = [m \in D |-> IF m = n THEN <<>> ELSE links[m]]
    BY <1>3, <1>10
  <1>12. forward' \in [D -> Seq(L)] /\ Len(forward'[n]) = 0
    BY <1>6, <1>9, <1>11
  <1>13. \A m \in D \ {n} :
            /\ Len(forward'[m]) = Len(forward[m])
            /\ \A i \in DOMAIN forward[m] :
                  forward'[m][i] = IF forward[m][i] = n THEN forward[n][i] ELSE forward[m][i]
    BY <1>9, <1>11
  <1> DEFINE used == {1} \cup {i \in 1..level : links[Header][i] # Null}
  <1>14. level' = Max(used)
    BY <1>3 DEF Lowered
  <1>15. Max(used) \in used /\ \A i \in used : i <= Max(used)
    <2>1. used \in SUBSET Nat /\ used # {} /\ \A i \in used : i <= level
      BY <1>0
    <2> HIDE DEF used
    <2> QED
      BY <1>0, <2>1, HighestOf
  <1>16. level' \in Nat /\ level' >= 1 /\ level' <= level
    <2>1. 1 \in used /\ \A i \in used : i \in Nat /\ i <= level
      BY <1>0
    <2> HIDE DEF used
    <2> QED
      BY <1>14, <1>15, <2>1
  <1>17. ASSUME NEW b \in Allocated, b # n PROVE Len(forward[b]) <= level'
    <2> DEFINE h == Len(forward[b])
    <2>1. h \in Nat /\ h >= 1 /\ h <= level /\ h \in DOMAIN forward[b] /\ h \in 1..level
      BY <1>0, LinksAre, BlocksAre DEF SkipTypes
    <2>2. h \in DOMAIN forward[Header] /\ Header \in D /\ Header \in Blocks
      BY <2>1, LinksAre, BlocksAre
    <2> HIDE DEF h
    <2>3. InRow(pos) /\ pos[Header] < pos[b] /\ b \in Blocks
      BY PlacesAre, BlocksAre DEF Linked
    <2> DEFINE x == forward[Header][h]
    <2>4. NextIs(pos, Header, h, x)
      BY <2>2 DEF Linked
    <2>5. x # Null /\ pos[x] <= pos[b]
      BY <2>1, <2>3, <2>4 DEF NextIs
    <2>6. CASE x = n
      <3>1. h \in DOMAIN forward[n]
        BY <2>2, <2>6, <1>5
      <3>2. NextIs(pos, n, h, forward[n][h])
        BY <3>1, <1>6 DEF Linked
      <3>3. pos[n] < pos[b]
        <4>1. pos[n] \in Nat /\ pos[b] \in Nat /\ pos[n] # pos[b]
          BY <2>3, <1>6, <1>17, PlacesAre
        <4> QED
          BY <4>1, <2>5, <2>6
      <3>4. forward[n][h] # Null
        BY <2>1, <3>2, <3>3 DEF NextIs
      <3>5. links[Header][h] # Null
        BY <2>2, <2>6, <3>4, <1>9
      <3> QED
        BY <2>1, <3>5, <1>14, <1>15 DEF h
    <2>7. CASE x # n
      <3>1. links[Header][h] # Null
        BY <2>2, <2>5, <2>7, <1>9
      <3> QED
        BY <2>1, <3>1, <1>14, <1>15 DEF h
    <2> QED
      BY <2>6, <2>7
  <1>18. Drops(n)
    BY <1>0, <1>1, <1>3, <1>12, <1>13, <1>16, <1>17 DEF Drops
  <1> QED
    BY <1>1, <1>18

LEMMA DropTypes ==
    ASSUME SkipTypes, NEW n, Drops(n)
    PROVE  /\ SkipTypes' /\ Allocated' = Allocated \ {n} /\ Blocks' = Blocks \ {n}
           /\ \A m \in Blocks : m # n => DOMAIN forward'[m] = DOMAIN forward[m]
           /\ n # Header /\ n # Null /\ n \in Blocks /\ n \in SkipNodes
  <1> DEFINE D == SkipNodes \cup {Header}
             L == SkipNodes \cup {Null}
  <1>0. n \in Allocated /\ n \in SkipNodes /\ n # Header /\ n # Null /\ n \in Blocks
    BY BlocksAre DEF Drops
  <1>1. forward' \in [D -> Seq(L)]
    BY DEF Drops
  <1>2. \A m \in D : forward'[m] \in Seq(L) /\ Len(forward'[m]) \in Nat
                     /\ DOMAIN forward'[m] = 1..Len(forward'[m])
    BY <1>1
  <1>3. ASSUME NEW m \in SkipNodes PROVE forward'[m] # <<>> <=> Len(forward'[m]) >= 1
    BY <1>2
  <1>4. Allocated' = {m \in SkipNodes : Len(forward'[m]) >= 1}
    BY <1>3 DEF Allocated
  <1>5. Len(forward'[n]) = 0 /\ \A m \in D : m # n => Len(forward'[m]) = Len(forward[m])
    BY DEF Drops
  <1>6. Allocated' = Allocated \ {n}
    <2>1. \A m : m \in Allocated <=> m \in SkipNodes /\ Len(forward[m]) >= 1
      BY LinksAre
    <2> QED
      BY <2>1, <1>4, <1>5
  <1>7. Blocks' = Blocks \ {n}
    BY <1>0, <1>6 DEF Blocks
  <1>8. ASSUME NEW m \in Blocks, m # n PROVE DOMAIN forward'[m] = DOMAIN forward[m]
    <2>1. m \in D
      BY BlocksAre
    <2> QED
      BY <2>1, <1>2, <1>5, <1>8, LinksAre
  <1>9. SkipTypes'
    <2>1. keyof' \in [SkipNodes -> Nat] /\ level' \in 0..SkipMaxLevel
      <3>1. level <= SkipMaxLevel /\ level \in Nat /\ SkipMaxLevel \in Nat
        BY LinksAre
      <3>2. level' \in Nat /\ level' <= level
        BY DEF Drops
      <3>3. level' \in 0..SkipMaxLevel
        BY <3>1, <3>2
      <3>4. keyof' = [keyof EXCEPT ![n] = 0] /\ keyof \in [SkipNodes -> Nat]
        BY DEF Drops, SkipTypes
      <3> QED
        BY <3>3, <3>4
    <2>2. length' = Cardinality(Allocated') /\ length' \in Nat
      <3>1. Cardinality(Allocated \ {n}) = Cardinality(Allocated) - 1 /\ IsFiniteSet(Allocated \ {n})
        BY <1>0, BlocksAre, FS_RemoveElement
      <3>2. Cardinality(Allocated \ {n}) \in Nat
        BY <3>1, FS_CardinalityType
      <3> QED
        BY <3>1, <3>2, <1>6 DEF Drops, SkipTypes
    <2>3. Len(forward'[Header]) = IF level' = 0 THEN 0 ELSE SkipMaxLevel
      <3>1. Len(forward'[Header]) = Len(forward[Header])
        BY <1>0, <1>5
      <3>2. level # 0 /\ level' # 0
        BY LinksAre DEF Drops
      <3> QED
        BY <3>1, <3>2 DEF SkipTypes
    <2>4. ASSUME NEW m \in SkipNodes PROVE Len(forward'[m]) <= level'
      <3>1. CASE m \in Allocated /\ m # n
        BY <3>1, <1>5 DEF Drops
      <3>2. CASE m = n
        BY <3>2, <1>5 DEF Drops
      <3>3. CASE m \notin Allocated
        <4>1. Len(forward[m]) = 0 /\ m # n
          BY <3>3, <1>0, LinksAre
        <4> QED
          BY <4>1, <1>5 DEF Drops
      <3> QED
        BY <3>1, <3>2, <3>3
    <2> QED
      BY <1>1, <2>1, <2>2, <2>3, <2>4 DEF SkipTypes
  <1> QED
    BY <1>0, <1>6, <1>7, <1>8, <1>9

Leaves(pos, n, q) == Linked(pos) /\ Drops(n) /\ q = Goes(pos, n)

OutOfOrder(pos, n, q) ==
    /\ q \in [Blocks \ {n} -> 0..length - 1] /\ q[Header] = 0
    /\ \A a \in Blocks : pos[a] \in Nat
    /\ \A a \in Blocks \ {n} : q[a] = IF pos[a] > pos[n] THEN pos[a] - 1 ELSE pos[a]
    /\ \A a, b \in Blocks \ {n} : (q[a] < q[b] <=> pos[a] < pos[b]) /\ (q[a] <= q[b] <=> pos[a] <= pos[b])
    /\ \A a, b \in Blocks \ {n} : q[a] = q[b] => a = b
    /\ \A s \in 0..length - 1 : \E a \in Blocks \ {n} : q[a] = s

LEMMA LeavesInOrder ==
    ASSUME SkipTypes, NEW pos, NEW n, NEW q, Leaves(pos, n, q)
    PROVE  OutOfOrder(pos, n, q)
  <1>0. InRow(pos) /\ n \in Blocks /\ n \in Allocated /\ Drops(n) /\ n # Header
    BY BlocksAre DEF Leaves, Linked, Drops
  <1>1. \A a \in Blocks \ {n} : q[a] = (IF pos[a] > pos[n] THEN pos[a] - 1 ELSE pos[a])
    BY DEF Leaves, Goes
  <1>2. \A a \in Blocks : pos[a] \in Nat /\ pos[a] <= length
    BY <1>0, PlacesAre
  <1>3. pos[n] \in Nat /\ pos[n] >= 1 /\ pos[n] <= length /\ length \in Nat
    BY <1>0, PlacesAre
  <1>4. \A a \in Blocks \ {n} : pos[a] # pos[n]
    BY <1>0 DEF InRow
  <1>5. \A a, b \in Blocks \ {n} : (q[a] < q[b] <=> pos[a] < pos[b]) /\ (q[a] <= q[b] <=> pos[a] <= pos[b])
    BY <1>1, <1>2, <1>3, <1>4
  <1>6. q[Header] = 0
    BY <1>0, <1>1, <1>3, BlocksAre DEF InRow
  <1>7. ASSUME NEW a \in Blocks \ {n}, NEW b \in Blocks \ {n}, q[a] = q[b] PROVE a = b
    <2>1. pos[a] = pos[b]
      BY <1>7, <1>1, <1>2, <1>3, <1>4
    <2> QED
      BY <2>1, <1>0 DEF InRow
  <1>8. \A a \in Blocks \ {n} : q[a] \in 0..length - 1
    BY <1>1, <1>2, <1>3, <1>4
  <1>9. q \in [Blocks \ {n} -> 0..length - 1]
    <2>1. q = [a \in Blocks \ {n} |-> q[a]]
      BY DEF Leaves, Goes
    <2> QED
      BY <2>1, <1>8
  <1>10. ASSUME NEW s \in 0..length - 1 PROVE \E a \in Blocks \ {n} : q[a] = s
    <2>1. CASE s < pos[n]
      <3>1. PICK a \in Blocks : pos[a] = s
        BY <1>0, <1>3 DEF InRow
      <3>2. a # n
        BY <3>1, <2>1, <1>3
      <3> QED
        BY <3>1, <3>2, <2>1, <1>1, <1>3
    <2>2. CASE ~(s < pos[n])
      <3>1. s + 1 \in 0..length /\ s + 1 > pos[n] /\ (s + 1) - 1 = s
        BY <2>2, <1>3
      <3>2. PICK a \in Blocks : pos[a] = s + 1
        BY <3>1, <1>0 DEF InRow
      <3>3. a # n
        BY <3>1, <3>2, <1>3
      <3> QED
        BY <3>1, <3>2, <3>3, <1>1
    <2> QED
      BY <2>1, <2>2
  <1> QED
    BY <1>1, <1>2, <1>5, <1>6, <1>7, <1>9, <1>10 DEF OutOfOrder

LEMMA DropKeeps ==
    ASSUME SkipTypes, NEW pos, NEW n, NEW q, Leaves(pos, n, q)
    PROVE  SkipTypes' /\ Linked(q)'
  <1>0. Linked(pos) /\ Drops(n) /\ InRow(pos) /\ Sorted(pos) /\ Drops(n)
    BY DEF Leaves, Linked
  <1>1. OutOfOrder(pos, n, q)
    BY LeavesInOrder
  <1>2. /\ SkipTypes' /\ Allocated' = Allocated \ {n} /\ Blocks' = Blocks \ {n}
        /\ \A m \in Blocks : m # n => DOMAIN forward'[m] = DOMAIN forward[m]
        /\ n # Header /\ n # Null /\ n \in Blocks /\ n \in SkipNodes
    BY <1>0, DropTypes
  <1>3. InRow(q)'
    <2>1. length' = length - 1
      BY <1>0 DEF Drops
    <2> QED
      BY <2>1, <1>1, <1>2 DEF OutOfOrder, InRow
  <1>4. Sorted(q)'
    <2> SUFFICES ASSUME NEW a \in Allocated \ {n}, NEW b \in Allocated \ {n}, q[a] < q[b]
                 PROVE  keyof'[a] <= keyof'[b]
      BY <1>2 DEF Sorted
    <2>1. a \in Blocks \ {n} /\ b \in Blocks \ {n} /\ a \in SkipNodes /\ b \in SkipNodes
      BY BlocksAre
    <2>2. pos[a] < pos[b]
      BY <2>1, <1>1 DEF OutOfOrder
    <2>3. keyof'[a] = keyof[a] /\ keyof'[b] = keyof[b]
      BY <2>1, <1>0 DEF Drops, SkipTypes
    <2> QED
      BY <2>2, <2>3, <1>0 DEF Sorted
  <1>5. ASSUME NEW m \in Blocks', NEW i \in DOMAIN forward'[m]
        PROVE  NextIs(q, m, i, forward[m][i])'
    <2> DEFINE x == forward'[m][i]
    <2>1. m \in Blocks /\ m # n /\ i \in DOMAIN forward[m] /\ m \in SkipNodes \cup {Header}
      BY <1>2, BlocksAre
    <2>2. x = IF forward[m][i] = n THEN forward[n][i] ELSE forward[m][i]
      BY <2>1, <1>0 DEF Drops
    <2>3. NextIs(pos, m, i, forward[m][i])
      BY <2>1, <1>0 DEF Linked
    <2>4. SUFFICES /\ x # Null => /\ x \in Allocated \ {n} /\ i \in DOMAIN forward'[x]
                                  /\ q[m] < q[x]
                   /\ \A b \in Allocated \ {n} : i \in DOMAIN forward'[b] /\ q[m] < q[b] =>
                          x # Null /\ q[x] <= q[b]
      BY <1>2 DEF NextIs
    <2> HIDE DEF x
    <2>5. /\ x # Null => /\ x \in Allocated \ {n} /\ i \in DOMAIN forward[x] /\ pos[m] < pos[x]
          /\ \A b \in Allocated \ {n} : i \in DOMAIN forward[b] /\ pos[m] < pos[b] =>
                 x # Null /\ pos[x] <= pos[b]
      <3>1. CASE forward[m][i] # n
        BY <3>1, <2>2, <2>3 DEF NextIs
      <3>2. CASE forward[m][i] = n
        <4>1. i \in DOMAIN forward[n] /\ pos[m] < pos[n] /\ x = forward[n][i]
          BY <3>2, <2>2, <2>3, <1>2 DEF NextIs
        <4>2. NextIs(pos, n, i, x)
          BY <4>1, <1>0, <1>2 DEF Linked
        <4>3. pos[n] \in Nat /\ pos[m] \in Nat /\ \A b \in Allocated : pos[b] \in Nat
          BY <2>1, <1>1, <1>2, BlocksAre DEF OutOfOrder
        <4>4. x # Null => x \in Allocated /\ x # n /\ i \in DOMAIN forward[x] /\ pos[m] < pos[x]
          BY <4>1, <4>2, <4>3 DEF NextIs
        <4>5. ASSUME NEW b \in Allocated \ {n}, i \in DOMAIN forward[b], pos[m] < pos[b]
              PROVE  x # Null /\ pos[x] <= pos[b]
          <5>1. pos[n] <= pos[b]
            BY <4>5, <3>2, <2>3 DEF NextIs
          <5>2. pos[n] < pos[b]
            BY <5>1, <4>3, <1>0, <1>2, BlocksAre DEF InRow
          <5> QED
            BY <5>2, <4>2, <4>5 DEF NextIs
        <4> QED
          BY <4>4, <4>5
      <3> QED
        BY <3>1, <3>2
    <2>6. Allocated \ {n} \subseteq Blocks \ {n}
      BY BlocksAre
    <2>7. x # Null => x \in Allocated \ {n} /\ i \in DOMAIN forward'[x] /\ q[m] < q[x]
      BY <2>1, <2>5, <2>6, <1>1, <1>2 DEF OutOfOrder
    <2>8. ASSUME NEW b \in Allocated \ {n}, i \in DOMAIN forward'[b], q[m] < q[b]
          PROVE  x # Null /\ q[x] <= q[b]
      <3>1. i \in DOMAIN forward[b] /\ pos[m] < pos[b]
        BY <2>1, <2>6, <2>8, <1>1, <1>2 DEF OutOfOrder
      <3>2. x # Null /\ pos[x] <= pos[b] /\ x \in Allocated \ {n}
        BY <3>1, <2>5
      <3> QED
        BY <3>2, <2>6, <1>1 DEF OutOfOrder
    <2> QED
      BY <2>7, <2>8
  <1> QED
    BY <1>2, <1>3, <1>4, <1>5 DEF Linked

-----------------------------------------------------------------------------
(* Row has the blocks in the order of their places.                        *)
RowOf(pos) ==
    /\ Len(Row) = length /\ DOMAIN Row = 1..length /\ Row \in Seq(Allocated)
    /\ \A s \in 1..length : Row[s] \in Allocated /\ pos[Row[s]] = s
    /\ \A x \in Allocated : pos[x] \in 1..length /\ Row[pos[x]] = x

(* Where the walk along the lowest level gets.                             *)
ThePlace(pos, s) == CHOOSE m \in Blocks : pos[m] = s

LEMMA NextPlace ==
    ASSUME SkipTypes, NEW pos, Linked(pos), NEW m \in Blocks
    PROVE  /\ pos[m] < length => NextOf[m] \in Allocated /\ pos[NextOf[m]] = pos[m] + 1
           /\ ~(pos[m] < length) => NextOf[m] = Null
  <1>0. InRow(pos) /\ m # Null /\ m \in SkipNodes \cup {Header} /\ DOMAIN forward = SkipNodes \cup {Header}
    BY BlocksAre DEF Linked, SkipTypes
  <1>1. NextOf[m] = IF forward[m] = <<>> THEN Null ELSE forward[m][1]
    BY <1>0 DEF NextOf
  <1>2. length \in Nat /\ pos[m] \in Nat /\ pos[m] <= length
    BY <1>0, PlacesAre
  <1>3. Len(forward[m]) \in Nat /\ DOMAIN forward[m] = 1..Len(forward[m])
        /\ (forward[m] = <<>> <=> Len(forward[m]) = 0)
    <2>1. forward[m] \in Seq(SkipNodes \cup {Null})
      BY <1>0, LinksAre
    <2> QED
      BY <2>1
  <1>4. CASE forward[m] = <<>>
    <2>1. m = Header
      BY <1>3, <1>4, LinksAre, BlocksAre
    <2>2. level = 0
      <3>1. ~(1 \in DOMAIN forward[Header])
        BY <1>3, <1>4, <2>1
      <3> QED
        BY <3>1, LinksAre
    <2>3. Allocated = {}
      BY <2>2, LinksAre, BlocksAre DEF SkipTypes
    <2>4. length = 0
      BY <2>3, FS_EmptySet DEF SkipTypes
    <2> QED
      BY <1>1, <1>2, <1>4, <2>4
  <1>5. CASE forward[m] # <<>>
    <2> DEFINE x == forward[m][1]
    <2>1. 1 \in DOMAIN forward[m]
      BY <1>3, <1>5
    <2>2. NextOf[m] = x
      BY <1>1, <1>5
    <2>3. NextIs(pos, m, 1, x)
      BY <2>1 DEF Linked
    <2> HIDE DEF x
    <2>4. x # Null => x \in Allocated /\ pos[m] < pos[x] /\ pos[x] \in Nat /\ pos[x] <= length /\ x \in Blocks
      BY <2>3, <1>0, PlacesAre, BlocksAre DEF NextIs
    <2>5. CASE pos[m] < length
      <3>1. pos[m] + 1 \in 1..length
        BY <2>5, <1>2
      <3>2. PICK b \in Allocated : pos[b] = pos[m] + 1
        BY <3>1, <1>0, PlacesAre
      <3>3. 1 \in DOMAIN forward[b] /\ pos[m] < pos[b] /\ b \in Blocks
        BY <3>2, <1>2, LinksAre, BlocksAre
      <3>4. x # Null /\ pos[x] <= pos[b]
        BY <2>3, <3>3 DEF NextIs
      <3>5. pos[x] = pos[m] + 1
        BY <2>4, <3>2, <3>4, <1>2
      <3> QED
        BY <2>2, <2>4, <2>5, <3>4, <3>5
    <2>6. CASE ~(pos[m] < length)
      BY <1>2, <2>2, <2>4, <2>6
    <2> QED
      BY <2>5, <2>6
  <1> QED
    BY <1>4, <1>5

LEMMA RowIs ==
    ASSUME SkipTypes, NEW pos, Linked(pos)
    PROVE  RowOf(pos)
  <1> DEFINE N == Cardinality(SkipNodes)
             Eq(g) == g = [s \in 0..N |-> IF s = 0 THEN Header ELSE NextOf[g[s-1]]]
             walk == CHOOSE g : Eq(g)
             at == [s \in 0..N |-> IF s <= length THEN ThePlace(pos, s) ELSE Null]
  <1>0. InRow(pos) /\ N \in Nat /\ length \in Nat /\ length <= N
    BY BlocksAre DEF Linked, SkipTypes
  <1>1. \A s \in 0..length : ThePlace(pos, s) \in Blocks /\ pos[ThePlace(pos, s)] = s
    BY <1>0 DEF InRow, ThePlace
  <1>2. \A m \in Blocks : ThePlace(pos, pos[m]) = m /\ pos[m] \in 0..length
    BY <1>0, <1>1, PlacesAre DEF InRow
  <1>3. ThePlace(pos, 0) = Header
    BY <1>0, <1>2, BlocksAre DEF InRow
  <1>4. NextOf[Null] = Null
    BY DEF NextOf
  <1>5. ASSUME NEW s \in 1..N
        PROVE  s-1 \in 0..N /\ NextOf[at[s-1]] = at[s]
    <2>1. s \in 0..N /\ s-1 \in 0..N /\ s-1 \in Nat /\ s \in Nat
      BY <1>0
    <2>2. CASE s <= length
      <3>1. s-1 \in 0..length /\ s \in 0..length /\ s-1 < length /\ (s-1) + 1 = s /\ s-1 <= length
        BY <1>0, <2>1, <2>2
      <3> DEFINE m == ThePlace(pos, s-1)
      <3>2. m \in Blocks /\ pos[m] = s-1 /\ at[s-1] = m /\ at[s] = ThePlace(pos, s)
        BY <1>1, <2>1, <2>2, <3>1
      <3> HIDE DEF m, at
      <3>3. NextOf[m] \in Allocated /\ pos[NextOf[m]] = s
        BY <3>1, <3>2, NextPlace
      <3>4. NextOf[m] = ThePlace(pos, s)
        BY <3>3, <1>2, BlocksAre
      <3> QED
        BY <2>1, <3>2, <3>4
    <2>3. CASE s = length + 1
      <3>1. s-1 = length /\ length \in 0..length /\ ~(s <= length)
        BY <1>0, <2>3
      <3> DEFINE m == ThePlace(pos, length)
      <3>2. m \in Blocks /\ pos[m] = length /\ at[s-1] = m /\ at[s] = Null
        BY <1>0, <1>1, <2>1, <3>1
      <3> HIDE DEF m, at
      <3>3. NextOf[m] = Null
        BY <1>0, <3>2, NextPlace
      <3> QED
        BY <2>1, <3>2, <3>3
    <2>4. CASE s > length + 1
      <3>1. at[s-1] = Null /\ at[s] = Null
        BY <1>0, <2>1, <2>4
      <3> HIDE DEF at
      <3> QED
        BY <2>1, <3>1, <1>4
    <2> QED
      BY <1>0, <2>1, <2>2, <2>3, <2>4
  <1>6. at[0] = Header /\ DOMAIN at = 0..N
    BY <1>0, <1>3
  <1>7. Eq(at)
    <2>1. \A s \in 0..N : at[s] = IF s = 0 THEN Header ELSE NextOf[at[s-1]]
      <3>1. \A s \in 0..N : s # 0 => s \in 1..N
        BY <1>0
      <3> HIDE DEF at, N
      <3> QED
        BY <3>1, <1>5, <1>6
    <2>2. at = [s \in 0..N |-> at[s]]
      OBVIOUS
    <2> HIDE DEF at, N
    <2> QED
      BY <2>1, <2>2
  <1>8. Eq(walk)
    <2> HIDE DEF Eq, at
    <2> QED
      BY <1>7
  <1>9. walk[0] = Header /\ \A s \in 1..N : walk[s] = NextOf[walk[s-1]]
    <2>1. 0 \in 0..N /\ \A s \in 1..N : s \in 0..N /\ s # 0
      BY <1>0
    <2> HIDE DEF walk, N
    <2> QED
      BY <1>8, <2>1
  <1>10. Row = SubSeq([s \in 1..N |-> walk[s]], 1, Cardinality({s \in 1..N : walk[s] # Null}))
    BY DEF Row
  <1> HIDE DEF walk, Eq
  <1> DEFINE Bad == {s \in 0..N : walk[s] # at[s]}
  <1>11. Bad = {}
    <2>1. SUFFICES ASSUME Bad # {} PROVE FALSE
      BY <2>1
    <2>2. Bad \in SUBSET Nat
      BY <1>0
    <2>3. PICK s \in Bad : \A t \in Bad : s <= t
      <3> HIDE DEF Bad
      <3> QED
        BY <2>1, <2>2, LeastNumber
    <2>4. s # 0 /\ s \in 0..N
      <3> HIDE DEF at
      <3> QED
        BY <1>6, <1>9
    <2>5. s \in 1..N /\ s-1 \in 0..N /\ ~(s <= s-1)
      BY <2>4, <1>0
    <2>6. s-1 \notin Bad
      <3> HIDE DEF Bad
      <3> QED
        BY <2>3, <2>5
    <2>7. walk[s-1] = at[s-1]
      <3> HIDE DEF at
      <3> QED
        BY <2>5, <2>6
    <2> HIDE DEF at
    <2>8. walk[s] = at[s]
      BY <2>5, <2>7, <1>5, <1>9
    <2> QED
      BY <2>8
  <1>12. \A s \in 1..N : walk[s] = IF s <= length THEN ThePlace(pos, s) ELSE Null
    <2>1. \A s \in 1..N : s \in 0..N
      BY <1>0
    <2> QED
      BY <1>11, <2>1
  <1> HIDE DEF at, Bad
  <1>13. ASSUME NEW s \in 1..length
         PROVE  s \in 1..N /\ ThePlace(pos, s) \in Allocated /\ pos[ThePlace(pos, s)] = s
    <2>1. s \in 1..N /\ s \in 0..length /\ s # 0 /\ s <= length
      BY <1>0
    <2>2. ThePlace(pos, s) # Header
      BY <2>1, <1>0, <1>1 DEF InRow
    <2> QED
      BY <2>1, <2>2, <1>1, BlocksAre
  <1>14. {s \in 1..N : walk[s] # Null} = 1..length
    <2>1. \A s \in 1..N : s \in 1..length <=> s <= length
      BY <1>0
    <2>2. \A s \in 1..length : walk[s] # Null
      <3> TAKE s \in 1..length
      <3>1. s \in 1..N /\ s <= length /\ ThePlace(pos, s) \in Allocated
        BY <1>13, <1>0
      <3> QED
        BY <3>1, <1>12, BlocksAre
    <2> HIDE DEF N
    <2> QED
      BY <2>1, <2>2, <1>12, <1>13
  <1>15. Cardinality(1..length) = length
    <2>1. 1 \in Int /\ length \in Int
      BY <1>0
    <2>2. Cardinality(1..length) = IF 1 > length THEN 0 ELSE length - 1 + 1
      BY <2>1, FS_Interval
    <2> QED
      BY <2>2, <1>0
  <1> DEFINE w == [s \in 1..N |-> walk[s]]
  <1>16. Row = SubSeq(w, 1, length)
    BY <1>10, <1>14, <1>15
  <1>17. Row = [s \in 1..length |-> w[s]]
    <2>1. SubSeq(w, 1, length) = [s \in 1..length |-> w[s + 1 - 1]]
      BY <1>0
    <2>2. \A s \in 1..length : s + 1 - 1 = s
      BY <1>0
    <2> HIDE DEF w
    <2> QED
      BY <1>16, <2>1, <2>2
  <1>18. \A s \in 1..length : Row[s] = ThePlace(pos, s)
    <2> TAKE s \in 1..length
    <2>1. s \in 1..N /\ s <= length
      BY <1>13, <1>0
    <2>2. w[s] = walk[s]
      BY <2>1
    <2> HIDE DEF w
    <2> QED
      BY <2>1, <2>2, <1>12, <1>17
  <1>19. DOMAIN Row = 1..length /\ Row = [s \in 1..length |-> Row[s]]
    <2> HIDE DEF w
    <2> QED
      BY <1>17
  <1>20. \A s \in 1..length : Row[s] \in Allocated /\ pos[Row[s]] = s
    BY <1>13, <1>18
  <1>21. Row \in Seq(Allocated) /\ Len(Row) = length
    BY <1>0, <1>19, <1>20
  <1>22. ASSUME NEW x \in Allocated PROVE pos[x] \in 1..length /\ Row[pos[x]] = x
    <2>1. x \in Blocks /\ pos[x] \in Nat /\ pos[x] >= 1 /\ pos[x] <= length
      BY <1>0, PlacesAre, BlocksAre
    <2>2. pos[x] \in 1..length
      BY <2>1, <1>0
    <2> QED
      BY <2>1, <2>2, <1>2, <1>18
  <1> QED
    BY <1>19, <1>20, <1>21, <1>22 DEF RowOf

-----------------------------------------------------------------------------
(* The keys divide the row.                                                *)
Lo(k) == Cardinality({n \in Allocated : keyof[n] < k})
Hi(k) == Cardinality({n \in Allocated : keyof[n] <= k})

LEMMA CountIs ==
    ASSUME SkipTypes, NEW pos, RowOf(pos), NEW P \in 0..length
    PROVE  Cardinality({x \in Allocated : pos[x] <= P}) = P
  <1> DEFINE S == {x \in Allocated : pos[x] <= P}
             f == [s \in 1..P |-> Row[s]]
  <1>0. length \in Nat /\ P \in Nat /\ P <= length
    BY DEF SkipTypes
  <1>1. \A s \in 1..P : s \in 1..length /\ s <= P
    BY <1>0
  <1>2. f \in [1..P -> S]
    BY <1>1 DEF RowOf
  <1>3. \A s, t \in 1..P : f[s] = f[t] => s = t
    BY <1>1 DEF RowOf
  <1>4. ASSUME NEW x \in S PROVE \E s \in 1..P : f[s] = x
    <2>1. pos[x] \in 1..length /\ pos[x] <= P /\ Row[pos[x]] = x
      BY DEF RowOf
    <2>2. pos[x] \in 1..P
      BY <1>0, <2>1
    <2> QED
      BY <2>1, <2>2
  <1>5. ExistsBijection(1..P, S)
    <2> HIDE DEF f, S
    <2>1. f \in Bijection(1..P, S)
      BY <1>2, <1>3, <1>4 DEF Bijection, Injection, Surjection, IsInjective
    <2> QED
      BY <2>1 DEF ExistsBijection
  <1>6. IsFiniteSet(1..P) /\ Cardinality(1..P) = P
    <2>1. 1 \in Int /\ P \in Int
      BY <1>0
    <2>2. IsFiniteSet(1..P) /\ Cardinality(1..P) = IF 1 > P THEN 0 ELSE P - 1 + 1
      BY <2>1, FS_Interval
    <2> QED
      BY <2>2, <1>0
  <1>7. Cardinality(S) = Cardinality(1..P)
    <2> HIDE DEF S
    <2> QED
      BY <1>5, <1>6, FS_Bijection
  <1> QED
    BY <1>6, <1>7

LEMMA CutsAt ==
    ASSUME SkipTypes, NEW pos, Linked(pos), NEW k \in Nat
    PROVE  /\ Lo(k) \in 0..length
           /\ \A x \in Allocated : keyof[x] < k <=> pos[x] <= Lo(k)
  <1>0. RowOf(pos) /\ Sorted(pos) /\ length \in Nat /\ InRow(pos)
    BY RowIs DEF Linked, SkipTypes
  <1>1. \A x \in Allocated : keyof[x] \in Nat /\ pos[x] \in Nat /\ pos[x] >= 1 /\ pos[x] <= length
    BY <1>0, BlocksAre, PlacesAre DEF SkipTypes
  <1> DEFINE Stops == {s \in Nat : s >= 1 /\ (s = length + 1 \/ (s <= length /\ ~(keyof[Row[s]] < k)))}
  <1>2. PICK s \in Stops : \A t \in Stops : s <= t
    <2>1. length + 1 \in Stops /\ Stops \in SUBSET Nat
      BY <1>0
    <2> HIDE DEF Stops
    <2> QED
      BY <2>1, LeastNumber
  <1>3. s \in Nat /\ s >= 1 /\ s <= length + 1
    BY <1>0
  <1>4. ASSUME NEW x \in Allocated PROVE keyof[x] < k <=> pos[x] <= s-1
    <2>1. Row[pos[x]] = x
      BY <1>0 DEF RowOf
    <2>2. ASSUME pos[x] <= s-1 PROVE keyof[x] < k
      <3>1. ~(s <= pos[x])
        BY <2>2, <1>1, <1>3
      <3>2. pos[x] \notin Stops
        <4> HIDE DEF Stops
        <4> QED
          BY <3>1, <1>2
      <3> QED
        BY <3>2, <2>1, <1>1
    <2>3. ASSUME ~(pos[x] <= s-1) PROVE ~(keyof[x] < k)
      <3>1. s <= pos[x] /\ s <= length /\ s \in 1..length
        BY <2>3, <1>0, <1>1, <1>3
      <3>2. ~(keyof[Row[s]] < k)
        BY <3>1, <1>0
      <3>3. Row[s] \in Allocated /\ pos[Row[s]] = s
        BY <3>1, <1>0 DEF RowOf
      <3>4. s = pos[x] \/ s < pos[x]
        BY <3>1, <1>1, <1>3
      <3>5. keyof[Row[s]] <= keyof[x]
        <4>1. CASE s = pos[x]
          BY <4>1, <2>1, <1>1
        <4>2. CASE s < pos[x]
          BY <4>2, <3>3, <1>0 DEF Sorted
        <4> QED
          BY <3>4, <4>1, <4>2
      <3>6. keyof[Row[s]] \in Nat /\ keyof[x] \in Nat
        BY <3>3, <1>1
      <3> QED
        BY <3>2, <3>5, <3>6
    <2> QED
      BY <2>2, <2>3
  <1>5. s-1 \in 0..length
    BY <1>0, <1>3
  <1>6. {n \in Allocated : keyof[n] < k} = {x \in Allocated : pos[x] <= s-1}
    BY <1>4
  <1> DEFINE P == s-1
  <1>7. Lo(k) = P
    <2>1. P \in 0..length /\ {n \in Allocated : keyof[n] < k} = {x \in Allocated : pos[x] <= P}
      BY <1>5, <1>6
    <2> HIDE DEF P
    <2>2. Cardinality({x \in Allocated : pos[x] <= P}) = P
      BY <2>1, <1>0, CountIs
    <2> QED
      BY <2>1, <2>2 DEF Lo
  <1> QED
    BY <1>4, <1>5, <1>7

LEMMA CutsBehind ==
    ASSUME SkipTypes, NEW pos, Linked(pos), NEW k \in Nat
    PROVE  /\ Hi(k) \in 0..length /\ Lo(k) <= Hi(k) /\ Hi(k) = Lo(k + 1)
           /\ \A x \in Allocated : keyof[x] <= k <=> pos[x] <= Hi(k)
  <1> DEFINE j == k + 1
  <1>1. \A x \in Allocated : keyof[x] \in Nat
    BY BlocksAre DEF SkipTypes
  <1>2. {n \in Allocated : keyof[n] <= k} = {n \in Allocated : keyof[n] < j} /\ j \in Nat
    BY <1>1
  <1> HIDE DEF j
  <1>3. Hi(k) = Lo(j)
    BY <1>2 DEF Hi, Lo
  <1>4. Lo(j) \in 0..length /\ \A x \in Allocated : keyof[x] < j <=> pos[x] <= Lo(j)
    BY <1>2, CutsAt
  <1>5. \A x \in Allocated : keyof[x] < j <=> keyof[x] <= k
    BY <1>1 DEF j
  <1>6. Lo(k) <= Hi(k)
    <2>1. {n \in Allocated : keyof[n] < k} \in SUBSET {n \in Allocated : keyof[n] <= k}
      BY <1>1
    <2>2. IsFiniteSet({n \in Allocated : keyof[n] <= k})
      <3>1. {n \in Allocated : keyof[n] <= k} \in SUBSET Allocated
        OBVIOUS
      <3> QED
        BY <3>1, BlocksAre, FS_Subset
    <2> QED
      BY <2>1, <2>2, FS_Subset DEF Lo, Hi
  <1> QED
    BY <1>3, <1>4, <1>5, <1>6 DEF j

(* The stack of a key is the part of the row that lies between the cuts.   *)
LEMMA UnderIs ==
    ASSUME SkipTypes, NEW pos, Linked(pos), NEW k \in Nat
    PROVE  /\ Under(k) \in Seq(Allocated) /\ Len(Under(k)) = Hi(k) - Lo(k)
           /\ DOMAIN Under(k) = 1..Hi(k) - Lo(k) /\ Hi(k) - Lo(k) \in Nat
           /\ \A j \in 1..Hi(k) - Lo(k) : Under(k)[j] = Row[Lo(k) + j] /\ Lo(k) + j \in 1..length
  <1> DEFINE l == Lo(k)
             h == Hi(k)
  <1>0. RowOf(pos) /\ length \in Nat /\ l \in Nat /\ h \in Nat /\ l <= h /\ h <= length
    <2>1. RowOf(pos) /\ length \in Nat
      BY RowIs DEF SkipTypes
    <2>2. l \in 0..length
      BY CutsAt
    <2>3. h \in 0..length /\ l <= h
      BY CutsBehind
    <2> HIDE DEF l, h
    <2> QED
      BY <2>1, <2>2, <2>3
  <1>1. Under(k) = SubSeq(Row, l + 1, h)
    BY DEF Under, Lo, Hi
  <1> HIDE DEF l, h
  <1>2. SubSeq(Row, l + 1, h) = [j \in 1..h - l |-> Row[l + j]]
    <2>1. SubSeq(Row, l + 1, h) = [j \in 1..(1 + h - (l + 1)) |-> Row[(l + 1) + j - 1]]
      BY <1>0
    <2>2. 1 + h - (l + 1) = h - l /\ \A j \in 1..h - l : (l + 1) + j - 1 = l + j
      BY <1>0
    <2> QED
      BY <2>1, <2>2
  <1>3. \A j \in 1..h - l : l + j \in 1..length
    BY <1>0
  <1>4. \A j \in 1..h - l : Row[l + j] \in Allocated
    BY <1>0, <1>3 DEF RowOf
  <1>5. h - l \in Nat
    BY <1>0
  <1>6. Under(k) = [j \in 1..h - l |-> Row[l + j]]
    BY <1>1, <1>2
  <1>7. Under(k) \in Seq(Allocated) /\ Len(Under(k)) = h - l
    BY <1>4, <1>5, <1>6
  <1> QED
    BY <1>3, <1>5, <1>6, <1>7 DEF l, h

-----------------------------------------------------------------------------
LEMMA FirstIs ==
    ASSUME SkipTypes, NEW pos, Linked(pos), NEW m \in Blocks, NEW i, NEW x,
           NextIs(pos, m, i, x), NEW s, s = pos[m]
    PROVE  x = FirstWith(Row, i, s)
  <1> DEFINE later == {t \in DOMAIN Row : t > s /\ i \in DOMAIN forward[Row[t]]}
  <1>0. RowOf(pos) /\ InRow(pos) /\ DOMAIN Row = 1..length /\ length \in Nat
    BY RowIs DEF Linked, RowOf, SkipTypes
  <1>1. FirstWith(Row, i, s) = IF later = {} THEN Null ELSE Row[Min(later)]
    BY DEF FirstWith
  <1>2. s \in Nat /\ \A b \in Allocated : pos[b] \in Nat
    BY <1>0, PlacesAre, BlocksAre
  <1>3. \A t \in later : /\ Row[t] \in Allocated /\ pos[Row[t]] = t /\ t > s /\ t \in Nat
                         /\ i \in DOMAIN forward[Row[t]]
    BY <1>0 DEF RowOf
  <1>4. \A b \in Allocated : i \in DOMAIN forward[b] /\ pos[m] < pos[b] => pos[b] \in later
    BY <1>0, <1>2 DEF RowOf
  <1> HIDE DEF later
  <1>5. CASE x = Null
    <2>1. later = {}
      BY <1>3, <1>2, <1>5 DEF NextIs
    <2> QED
      BY <2>1, <1>1, <1>5
  <1>6. CASE x # Null
    <2>1. x \in Allocated /\ i \in DOMAIN forward[x] /\ pos[m] < pos[x]
      BY <1>6 DEF NextIs
    <2>2. pos[x] \in later /\ pos[x] \in Nat
      BY <2>1, <1>2, <1>4
    <2>3. \A t \in later : pos[x] <= t
      BY <1>2, <1>3 DEF NextIs
    <2>4. \A t \in later : (\A u \in later : t <= u) => t = pos[x]
      BY <1>3, <2>2, <2>3
    <2>5. Min(later) = pos[x]
      <3>1. \E t \in later : \A u \in later : t <= u
        BY <2>2, <2>3
      <3>2. Min(later) \in later /\ \A u \in later : Min(later) <= u
        BY <3>1 DEF Min
      <3> QED
        BY <3>2, <2>4
    <2>6. Row[pos[x]] = x
      BY <2>1, <1>0 DEF RowOf
    <2> QED
      BY <2>2, <2>5, <2>6, <1>1
  <1> QED
    BY <1>5, <1>6

LEMMA ShapeIs == SkipInv => SkipShape
  <1> SUFFICES ASSUME SkipInv PROVE SkipShape
    OBVIOUS
  <1>0. SkipTypes
    BY DEF SkipInv
  <1>1. PICK pos : Linked(pos)
    BY DEF SkipInv
  <1>2. RowOf(pos) /\ InRow(pos) /\ Sorted(pos)
    BY <1>0, <1>1, RowIs DEF Linked
  <1>3. LevelsNested
    <2>1. ASSUME NEW i \in DOMAIN forward[Header]
          PROVE  /\ forward[Header][i] = FirstWith(Row, i, 0)
                 /\ i > level => forward[Header][i] = Null
      <3> DEFINE x == forward[Header][i]
      <3>1. Header \in Blocks /\ pos[Header] = 0
        BY <1>2, BlocksAre DEF InRow
      <3>2. NextIs(pos, Header, i, x)
        BY <3>1, <1>1 DEF Linked
      <3>3. x = FirstWith(Row, i, 0)
        <4> DEFINE z == 0
        <4>1. z = pos[Header]
          BY <3>1
        <4> HIDE DEF x, z
        <4>2. x = FirstWith(Row, i, z)
          BY <1>0, <1>1, <3>1, <3>2, <4>1, FirstIs
        <4> QED
          BY <4>2 DEF z
      <3>4. ASSUME i > level PROVE x = Null
        <4>1. i \in Nat /\ level \in Nat
          BY <1>0, LinksAre, BlocksAre
        <4>2. \A b \in Allocated : i \notin DOMAIN forward[b]
          BY <1>0, <3>4, <4>1, LinksAre, BlocksAre DEF SkipTypes
        <4> QED
          BY <3>2, <4>2 DEF NextIs
      <3> QED
        BY <3>3, <3>4
    <2>2. ASSUME NEW s \in DOMAIN Row, NEW i \in DOMAIN forward[Row[s]]
          PROVE  forward[Row[s]][i] = FirstWith(Row, i, s)
      <3> DEFINE m == Row[s]
                 x == forward[m][i]
      <3>1. m \in Allocated /\ pos[m] = s /\ m \in Blocks
        BY <1>2, BlocksAre DEF RowOf
      <3>2. NextIs(pos, m, i, x)
        BY <3>1, <1>1 DEF Linked
      <3> HIDE DEF m, x
      <3>3. x = FirstWith(Row, i, s)
        BY <1>0, <1>1, <3>1, <3>2, FirstIs
      <3> QED
        BY <3>3 DEF x, m
    <2> QED
      BY <2>1, <2>2 DEF LevelsNested
  <1>4. LowestHasAll
    <2>1. {Row[s] : s \in DOMAIN Row} = Allocated
      BY <1>2 DEF RowOf
    <2>2. length \in Nat /\ length = Cardinality(Allocated) /\ DOMAIN Row = 1..length
      BY <1>0, <1>2 DEF SkipTypes, RowOf
    <2>3. Cardinality(1..length) = length
      <3>1. 1 \in Int /\ length \in Int
        BY <2>2
      <3>2. Cardinality(1..length) = IF 1 > length THEN 0 ELSE length - 1 + 1
        BY <3>1, FS_Interval
      <3> QED
        BY <3>2, <2>2
    <2>4. ASSUME NEW s \in DOMAIN Row, NEW t \in DOMAIN Row, s < t
          PROVE  keyof[Row[s]] <= keyof[Row[t]]
      BY <1>2, <2>4 DEF RowOf, Sorted
    <2> QED
      BY <2>1, <2>2, <2>3, <2>4 DEF LowestHasAll
  <1>5. ASSUME level > 0, NEW k \in SkipKeys
        PROVE  SkipFind(k) = IF Under(k) = <<>> THEN Null ELSE Head(Under(k))
    <2> DEFINE l == Lo(k)
               h == Hi(k)
               n == SkipFind(k)
    <2>0. k \in Nat
      BY SkipAssumption
    <2>1. /\ n = Null => \A b \in Allocated : keyof[b] # k
          /\ n # Null => n \in Allocated /\ keyof[n] = k
                         /\ \A b \in Allocated : keyof[b] < k <=> pos[b] < pos[n]
      BY <1>0, <1>1, <1>5, <2>0, FindIs
    <2>2. /\ Under(k) \in Seq(Allocated) /\ Len(Under(k)) = h - l
          /\ \A j \in 1..h - l : Under(k)[j] = Row[l + j] /\ l + j \in 1..length
      BY <1>0, <1>1, <2>0, UnderIs
    <2>3. l \in 0..length /\ \A x \in Allocated : keyof[x] < k <=> pos[x] <= l
      BY <1>0, <1>1, <2>0, CutsAt
    <2>4. h \in 0..length /\ l <= h /\ \A x \in Allocated : keyof[x] <= k <=> pos[x] <= h
      BY <1>0, <1>1, <2>0, CutsBehind
    <2>5. length \in Nat /\ l \in Nat /\ h \in Nat
      BY <2>3, <2>4, <1>0 DEF SkipTypes
    <2>6. \A b \in Allocated : keyof[b] \in Nat /\ pos[b] \in Nat
      BY <1>0, <1>2, PlacesAre, BlocksAre DEF SkipTypes
    <2> HIDE DEF l, h, n
    <2>7. CASE l = h
      <3>1. Under(k) = <<>>
        BY <2>2, <2>5, <2>7
      <3>2. \A b \in Allocated : keyof[b] # k
        BY <2>3, <2>4, <2>6, <2>7, <2>0
      <3>3. n = Null
        BY <3>2, <2>1
      <3> QED
        BY <3>1, <3>3 DEF n
    <2>8. CASE l # h
      <3>1. h - l \in Nat /\ 1 \in 1..h - l /\ l + 1 \in 1..length /\ l + 1 <= h
        BY <2>4, <2>5, <2>8
      <3> DEFINE x == Row[l + 1]
      <3>2. Under(k) # <<>> /\ Head(Under(k)) = x
        BY <2>2, <3>1
      <3>3. x \in Allocated /\ pos[x] = l + 1
        BY <3>1, <1>2 DEF RowOf
      <3>4. keyof[x] = k
        <4>1. ~(pos[x] <= l) /\ pos[x] <= h
          BY <3>1, <3>3, <2>5
        <4>2. ~(keyof[x] < k) /\ keyof[x] <= k
          BY <4>1, <3>3, <2>3, <2>4
        <4> QED
          BY <4>2, <3>3, <2>0, <2>6
      <3>5. n # Null /\ n \in Allocated /\ keyof[n] = k
        BY <2>1, <3>3, <3>4
      <3>6. pos[n] = l + 1
        <4>1. ~(keyof[n] < k)
          BY <3>5, <2>0
        <4>2. ~(pos[n] <= l)
          BY <3>5, <4>1, <2>3
        <4>3. ~(pos[x] < pos[n])
          BY <3>3, <3>4, <3>5, <2>0, <2>1
        <4> QED
          BY <4>2, <4>3, <3>3, <3>5, <2>5, <2>6
      <3>7. n = x
        <4> HIDE DEF x
        <4>1. n \in Blocks /\ x \in Blocks /\ pos[n] = pos[x]
          BY <3>3, <3>5, <3>6, BlocksAre
        <4> QED
          BY <4>1, <1>2 DEF InRow
      <3> QED
        BY <3>2, <3>7 DEF n
    <2> QED
      BY <2>7, <2>8
  <1> QED
    BY <1>3, <1>4, <1>5 DEF SkipShape

-----------------------------------------------------------------------------
(* The steps.                                                              *)
EmptyList ==
    /\ forward \in [SkipNodes \cup {Header} -> Seq(SkipNodes \cup {Null})]
    /\ keyof \in [SkipNodes -> Nat] /\ level \in 0..SkipMaxLevel /\ length = 0
    /\ Len(forward[Header]) = IF level = 0 THEN 0 ELSE SkipMaxLevel
    /\ \A n \in SkipNodes : forward[n] = <<>>
    /\ \A i \in DOMAIN forward[Header] : forward[Header][i] = Null

LEMMA EmptyIs == EmptyList => SkipInv /\ \A k \in SkipKeys : Under(k) = <<>>
  <1> SUFFICES ASSUME EmptyList PROVE SkipInv /\ \A k \in SkipKeys : Under(k) = <<>>
    OBVIOUS
  <1>1. Allocated = {} /\ Blocks = {Header}
    BY DEF EmptyList, Allocated, Blocks
  <1>2. SkipTypes
    <2>1. length = Cardinality(Allocated) /\ length \in Nat
      BY <1>1, FS_EmptySet DEF EmptyList
    <2>2. \A n \in SkipNodes : Len(forward[n]) <= level
      <3>1. level \in Nat
        BY SkipAssumption DEF EmptyList
      <3>2. Len(<<>>) = 0
        OBVIOUS
      <3> QED
        BY <3>1, <3>2 DEF EmptyList
    <2> QED
      BY <2>1, <2>2 DEF EmptyList, SkipTypes
  <1>3. PICK pos : pos = [m \in {Header} |-> 0]
    OBVIOUS
  <1>4. InRow(pos)
    <2>1. length = 0 /\ 0..length = {0}
      BY DEF EmptyList
    <2> QED
      BY <2>1, <1>1, <1>3 DEF InRow
  <1>5. Linked(pos)
    BY <1>1, <1>4 DEF EmptyList, Linked, Sorted, NextIs
  <1>6. ASSUME NEW k \in SkipKeys PROVE Under(k) = <<>>
    <2>1. k \in Nat
      BY SkipAssumption
    <2>2. Under(k) \in Seq(Allocated) /\ Len(Under(k)) \in Nat /\ Len(Under(k)) = Hi(k) - Lo(k)
      BY <1>2, <1>5, <2>1, UnderIs
    <2>3. Hi(k) = 0 /\ Lo(k) = 0
      <3>1. {n \in Allocated : keyof[n] <= k} = {} /\ {n \in Allocated : keyof[n] < k} = {}
        BY <1>1
      <3> QED
        BY <3>1, FS_EmptySet DEF Hi, Lo
    <2> QED
      BY <2>2, <2>3
  <1> QED
    BY <1>2, <1>5, <1>6 DEF SkipInv

LEMMA StartsEmpty == SkipInit => EmptyList
  <1> SUFFICES ASSUME SkipInit PROVE EmptyList
    OBVIOUS
  <1>1. forward = [n \in SkipNodes \cup {Header} |-> <<>>] /\ keyof = [n \in SkipNodes |-> 0]
        /\ level = 0 /\ length = 0
    BY DEF SkipInit
  <1>2. <<>> \in Seq(SkipNodes \cup {Null}) /\ Len(<<>>) = 0 /\ DOMAIN <<>> = {}
    OBVIOUS
  <1>3. level \in 0..SkipMaxLevel
    BY <1>1, SkipAssumption
  <1> QED
    BY <1>1, <1>2, <1>3 DEF EmptyList

LEMMA NewEmpty == ASSUME SkipInv, SkipNew PROVE EmptyList /\ EmptyList'
  <1>1. SkipTypes /\ level = 0
    BY DEF SkipInv, SkipNew
  <1>2. Allocated = {}
    BY <1>1, LinksAre, BlocksAre DEF SkipTypes
  <1>3. length = 0
    BY <1>1, <1>2, FS_EmptySet DEF SkipTypes
  <1>4. \A n \in SkipNodes : forward[n] = <<>>
    BY <1>2 DEF Allocated
  <1>5. DOMAIN forward[Header] = {} /\ Len(forward[Header]) = 0
    <2>1. DOMAIN forward[Header] = 1..Len(forward[Header]) /\ Len(forward[Header]) = 0
      BY <1>1, LinksAre DEF SkipTypes
    <2> QED
      BY <2>1
  <1>6. EmptyList
    BY <1>1, <1>3, <1>4, <1>5 DEF EmptyList, SkipTypes
  <1> DEFINE h == [i \in 1..SkipMaxLevel |-> Null]
  <1>7. forward' = [forward EXCEPT ![Header] = h] /\ level' = 1 /\ keyof' = keyof /\ length' = length
    BY DEF SkipNew
  <1>8. SkipMaxLevel \in Nat /\ 1 <= SkipMaxLevel
    BY SkipAssumption
  <1>9. h \in Seq(SkipNodes \cup {Null}) /\ Len(h) = SkipMaxLevel /\ \A i \in DOMAIN h : h[i] = Null
    BY <1>8
  <1> HIDE DEF h
  <1>10. /\ forward' \in [SkipNodes \cup {Header} -> Seq(SkipNodes \cup {Null})]
         /\ forward'[Header] = h /\ \A n \in SkipNodes : forward'[n] = <<>>
    BY <1>6, <1>7, <1>9, BlocksAre DEF EmptyList
  <1>11. EmptyList'
    BY <1>6, <1>7, <1>8, <1>9, <1>10 DEF EmptyList
  <1> QED
    BY <1>6, <1>11

LEMMA FreeEmpty == ASSUME SkipInv, SkipFree PROVE EmptyList'
  <1> DEFINE freed == {Header} \cup {Row[s] : s \in DOMAIN Row}
             D == SkipNodes \cup {Header}
  <1>0. SkipTypes /\ DOMAIN forward = D
    BY DEF SkipInv, SkipTypes
  <1>1. PICK pos : Linked(pos)
    BY DEF SkipInv
  <1>2. freed = Blocks
    BY <1>0, <1>1, RowIs DEF RowOf, Blocks
  <1>3. /\ forward' = [n \in D |-> IF n \in freed THEN <<>> ELSE forward[n]]
        /\ keyof' = [n \in SkipNodes |-> IF n \in freed THEN 0 ELSE keyof[n]]
        /\ level' = 0 /\ length' = 0
    BY <1>0 DEF SkipFree
  <1> HIDE DEF freed
  <1>4. \A n \in D : forward'[n] = <<>>
    BY <1>2, <1>3 DEF Blocks, Allocated
  <1>5. <<>> \in Seq(SkipNodes \cup {Null}) /\ Len(<<>>) = 0 /\ DOMAIN <<>> = {}
    OBVIOUS
  <1>6. forward' \in [D -> Seq(SkipNodes \cup {Null})]
    <2>1. forward' = [n \in D |-> forward'[n]]
      BY <1>3
    <2> QED
      BY <2>1, <1>4, <1>5
  <1>7. keyof' \in [SkipNodes -> Nat]
    BY <1>0, <1>3 DEF SkipTypes
  <1>8. level' \in 0..SkipMaxLevel
    BY <1>3, SkipAssumption
  <1> QED
    <2>1. forward'[Header] = <<>> /\ \A n \in SkipNodes : forward'[n] = <<>>
      BY <1>4
    <2>2. Len(forward'[Header]) = IF level' = 0 THEN 0 ELSE SkipMaxLevel
      BY <1>3, <1>5, <2>1
    <2>3. \A i \in DOMAIN forward'[Header] : forward'[Header][i] = Null
      BY <1>5, <2>1
    <2> QED
      BY <1>3, <1>6, <1>7, <1>8, <2>1, <2>2, <2>3 DEF EmptyList

LEMMA NoMemKeeps ==
    ASSUME SkipInv, NEW drawn \in 1..SkipMaxLevel, SkipNoMem(drawn)
    PROVE  SkipInv' /\ \A k \in SkipKeys : Under(k)' = Under(k)
  <1>0. SkipTypes /\ UNCHANGED <<forward, keyof, length>> /\ level > 0 /\ level' = Max({level, drawn})
    BY DEF SkipInv, SkipNoMem
  <1>1. PICK pos : Linked(pos)
    BY DEF SkipInv
  <1>2. level' \in Nat /\ level' >= level /\ level' <= SkipMaxLevel /\ level \in Nat /\ SkipMaxLevel \in Nat
    BY <1>0, LinksAre, HigherOf
  <1>3. Allocated' = Allocated /\ Blocks' = Blocks
    BY <1>0 DEF Allocated, Blocks
  <1>4. SkipTypes'
    <2>1. \A n \in SkipNodes : Len(forward'[n]) <= level'
      BY <1>0, <1>2, LinksAre DEF SkipTypes
    <2>2. level' \in 0..SkipMaxLevel /\ level' # 0 /\ level # 0
      BY <1>0, <1>2
    <2> QED
      BY <1>0, <1>3, <2>1, <2>2 DEF SkipTypes
  <1>5. Linked(pos)'
    BY <1>0, <1>1, <1>3 DEF Linked, InRow, Sorted, NextIs
  <1>6. \A k \in SkipKeys : Under(k)' = Under(k)
    <2>1. NextOf' = NextOf
      BY <1>0 DEF NextOf
    <2>2. Row' = Row
      BY <2>1 DEF Row
    <2> QED
      BY <1>0, <1>3, <2>2 DEF Under
  <1> QED
    BY <1>4, <1>5, <1>6 DEF SkipInv

LEMMA InsertKeeps ==
    ASSUME SkipInv, NEW k \in SkipKeys, NEW drawn \in 1..SkipMaxLevel, SkipInsert(k, drawn)
    PROVE  /\ SkipInv'
           /\ \E pos, n, up, p, q : Enters(pos, k, n, drawn, up, p, q) /\ Linked(q)'
  <1>0. SkipTypes /\ k \in Nat
    BY SkipAssumption DEF SkipInv
  <1>1. PICK pos : Linked(pos)
    BY DEF SkipInv
  <1>2. PICK n, up : Adds(k, n, drawn, up)
    BY <1>0, <1>1, InsertAdds
  <1>3. PICK p : p = pos[up[1]] + 1
    OBVIOUS
  <1>4. PICK q : q = Comes(pos, n, p)
    OBVIOUS
  <1>5. Enters(pos, k, n, drawn, up, p, q)
    BY <1>0, <1>1, <1>2, <1>3, <1>4 DEF Enters
  <1>6. SkipTypes' /\ Linked(q)'
    BY <1>0, <1>5, AddKeeps
  <1> QED
    BY <1>5, <1>6 DEF SkipInv

LEMMA DeleteKeeps ==
    ASSUME SkipInv, NEW k \in SkipKeys, SkipDelete(k)
    PROVE  /\ SkipInv'
           /\ \E pos, n, q : /\ Leaves(pos, n, q) /\ Linked(q)' /\ keyof[n] = k
                             /\ \A b \in Allocated : keyof[b] < k <=> pos[b] < pos[n]
  <1>0. SkipTypes /\ k \in Nat
    BY SkipAssumption DEF SkipInv
  <1>1. PICK pos : Linked(pos)
    BY DEF SkipInv
  <1>2. PICK n : Drops(n) /\ keyof[n] = k /\ \A b \in Allocated : keyof[b] < k <=> pos[b] < pos[n]
    BY <1>0, <1>1, DeleteDrops
  <1>3. PICK q : q = Goes(pos, n)
    OBVIOUS
  <1>4. Leaves(pos, n, q)
    BY <1>1, <1>2, <1>3 DEF Leaves
  <1>5. SkipTypes' /\ Linked(q)'
    BY <1>0, <1>4, DropKeeps
  <1> QED
    BY <1>2, <1>4, <1>5 DEF SkipInv

LEMMA SkipStep == SkipInv /\ [SkipNext]_skipVars => SkipInv'
  <1> SUFFICES ASSUME SkipInv, [SkipNext]_skipVars PROVE SkipInv'
    OBVIOUS
  <1>1. EmptyList' => SkipInv'
    BY EmptyIs, PTL
  <1>2. CASE SkipNew
    BY <1>1, <1>2, NewEmpty
  <1>3. CASE SkipFree
    BY <1>1, <1>3, FreeEmpty
  <1>4. ASSUME NEW k \in SkipKeys, SkipDelete(k) PROVE SkipInv'
    BY <1>4, DeleteKeeps
  <1>5. ASSUME NEW drawn \in 1..SkipMaxLevel, SkipNoMem(drawn) PROVE SkipInv'
    BY <1>5, NoMemKeeps
  <1>6. ASSUME NEW drawn \in 1..SkipMaxLevel, NEW k \in SkipKeys, SkipInsert(k, drawn)
        PROVE  SkipInv'
    BY <1>6, InsertKeeps
  <1>7. CASE UNCHANGED skipVars
    <2>1. forward' = forward /\ keyof' = keyof /\ level' = level /\ length' = length
      BY <1>7 DEF skipVars
    <2>2. Allocated' = Allocated /\ Blocks' = Blocks
      BY <2>1 DEF Allocated, Blocks
    <2> QED
      BY <2>1, <2>2 DEF SkipInv, SkipTypes, Linked, InRow, Sorted, NextIs
  <1> QED
    BY <1>2, <1>3, <1>4, <1>5, <1>6, <1>7 DEF SkipNext

(***************************************************************************)
(* Whatever levels are drawn, and whichever failures of malloc leave the   *)
(* level of the list raised: each link of jk_skip leads to the next node   *)
(* of its level, jk_skip_delete unlinks a node from all of its levels, and *)
(* jk_skip_find_node finds the first node of a key if there is one.        *)
(***************************************************************************)
THEOREM SkipStaysShaped == SkipSpec => []SkipShape
  <1>1. SkipInit => SkipInv
    BY StartsEmpty, EmptyIs
  <1>2. SkipInv /\ [SkipNext]_skipVars => SkipInv'
    BY SkipStep
  <1>3. SkipInv => SkipShape
    BY ShapeIs
  <1> QED
    BY <1>1, <1>2, <1>3, PTL DEF SkipSpec

-----------------------------------------------------------------------------
(* The stacks.                                                             *)
Part(j) ==
    /\ Lo(j) \in Nat /\ Hi(j) \in Nat /\ Lo(j) <= Hi(j) /\ Hi(j) <= length /\ Hi(j) = Lo(j + 1)
    /\ Under(j) \in Seq(Allocated) /\ Len(Under(j)) = Hi(j) - Lo(j)
    /\ DOMAIN Under(j) = 1..Hi(j) - Lo(j) /\ Under(j) = [t \in 1..Hi(j) - Lo(j) |-> Under(j)[t]]
    /\ \A t \in 1..Hi(j) - Lo(j) : Under(j)[t] = Row[Lo(j) + t] /\ Lo(j) + t \in 1..length

LEMMA PartIs ==
    ASSUME SkipTypes, NEW pos, Linked(pos), NEW j \in Nat
    PROVE  Part(j)
  <1>0. length \in Nat
    BY DEF SkipTypes
  <1>1. Lo(j) \in 0..length
    BY CutsAt
  <1>2. Hi(j) \in 0..length /\ Lo(j) <= Hi(j) /\ Hi(j) = Lo(j + 1)
    BY CutsBehind
  <1>3. Lo(j) \in Nat /\ Hi(j) \in Nat /\ Hi(j) <= length
    BY <1>0, <1>1, <1>2
  <1>4. /\ Under(j) \in Seq(Allocated) /\ Len(Under(j)) = Hi(j) - Lo(j)
        /\ DOMAIN Under(j) = 1..Hi(j) - Lo(j)
        /\ \A t \in 1..Hi(j) - Lo(j) : Under(j)[t] = Row[Lo(j) + t] /\ Lo(j) + t \in 1..length
    BY UnderIs
  <1>5. Under(j) = [t \in 1..Hi(j) - Lo(j) |-> Under(j)[t]]
    BY <1>4
  <1> QED
    BY <1>2, <1>3, <1>4, <1>5 DEF Part

LEMMA PartNext ==
    ASSUME SkipTypes', NEW pos, Linked(pos)', NEW j \in Nat
    PROVE  Part(j)' /\ RowOf(pos)'
  <1>1. (SkipTypes /\ Linked(pos) => Part(j))'
    BY PartIs, PTL
  <1>2. (SkipTypes /\ Linked(pos) => RowOf(pos))'
    BY RowIs, PTL
  <1> QED
    BY <1>1, <1>2

LEMMA LoIsBefore ==
    ASSUME SkipTypes, NEW pos, RowOf(pos), NEW k \in Nat, NEW P \in 0..length,
           \A b \in Allocated : keyof[b] < k <=> pos[b] <= P
    PROVE  Lo(k) = P
  <1>1. {n \in Allocated : keyof[n] < k} = {x \in Allocated : pos[x] <= P}
    OBVIOUS
  <1>2. Cardinality({x \in Allocated : pos[x] <= P}) = P
    BY CountIs
  <1> QED
    BY <1>1, <1>2 DEF Lo

LEMMA FiniteBelow ==
    ASSUME NEW j
    PROVE  LET S == {n \in Allocated : keyof[n] < j} IN IsFiniteSet(S) /\ Cardinality(S) \in Nat
  <1> DEFINE S == {n \in Allocated : keyof[n] < j}
  <1>1. S \in SUBSET Allocated
    OBVIOUS
  <1> HIDE DEF S
  <1>2. IsFiniteSet(S)
    BY <1>1, BlocksAre, FS_Subset
  <1>3. Cardinality(S) \in Nat
    BY <1>2, FS_CardinalityType
  <1> QED
    BY <1>2, <1>3 DEF S

(* The row and the cuts after an insertion.                                *)
LEMMA AddCuts ==
    ASSUME SkipTypes, NEW pos, NEW k, NEW n, NEW drawn, NEW up, NEW p, NEW q,
           Enters(pos, k, n, drawn, up, p, q), NEW j \in Nat
    PROVE  Lo(j)' = IF k < j THEN Lo(j) + 1 ELSE Lo(j)
  <1>0. Linked(pos) /\ k \in Nat /\ Adds(k, n, drawn, up)
    BY DEF Enters
  <1>1. Allocated' = Allocated \cup {n} /\ n \notin Allocated /\ n \in SkipNodes
    <2>1. Allocated' = Allocated \cup {n}
      BY <1>0, AddTypes
    <2> QED
      BY <1>0, <2>1 DEF Adds
  <1>2. keyof'[n] = k /\ \A b \in Allocated : keyof'[b] = keyof[b]
    BY <1>0, <1>1, BlocksAre DEF Adds, SkipTypes
  <1> DEFINE S == {b \in Allocated : keyof[b] < j}
             T == {b \in Allocated' : keyof'[b] < j}
  <1>3. Lo(j) = Cardinality(S) /\ Lo(j)' = Cardinality(T)
    BY DEF Lo
  <1>4. IsFiniteSet(S) /\ n \notin S
    BY <1>1, FiniteBelow
  <1>5. CASE k < j
    <2>1. T = S \cup {n}
      BY <1>1, <1>2, <1>5
    <2> HIDE DEF S, T
    <2>2. Cardinality(S \cup {n}) = Cardinality(S) + 1
      BY <1>4, FS_AddElement
    <2> QED
      BY <2>1, <2>2, <1>3, <1>5
  <1>6. CASE ~(k < j)
    <2>1. T = S
      BY <1>1, <1>2, <1>6
    <2> HIDE DEF S, T
    <2> QED
      BY <2>1, <1>3, <1>6
  <1> QED
    BY <1>5, <1>6

LEMMA AddRow ==
    ASSUME SkipTypes, NEW pos, NEW k, NEW n, NEW drawn, NEW up, NEW p, NEW q,
           Enters(pos, k, n, drawn, up, p, q), RowOf(q)'
    PROVE  /\ p = Lo(k) + 1 /\ Row'[p] = n
           /\ \A s \in 1..length : s < p => Row'[s] = Row[s]
           /\ \A s \in 1..length : s >= p => Row'[s + 1] = Row[s]
  <1>0. Linked(pos) /\ k \in Nat /\ Adds(k, n, drawn, up) /\ length \in Nat
    BY DEF Enters, SkipTypes
  <1>1. InOrder(pos, n, p, q)
    BY AddOrder
  <1>2. p \in 1..length + 1 /\ \A b \in Allocated : keyof[b] < k <=> pos[b] < p
    BY AddPlace
  <1>3. RowOf(pos) /\ InRow(pos)
    BY <1>0, RowIs DEF Linked
  <1>4. Allocated' = Allocated \cup {n}
    BY <1>0, AddTypes
  <1>5. \A x \in Allocated \cup {n} : Row'[q[x]] = x
    BY <1>4 DEF RowOf
  <1>6. p = Lo(k) + 1
    <2> DEFINE P == p - 1
    <2>1. P \in 0..length /\ P + 1 = p
      BY <1>0, <1>2
    <2>2. \A b \in Allocated : keyof[b] < k <=> pos[b] <= P
      <3>1. \A b \in Allocated : pos[b] \in Nat
        BY <1>1, BlocksAre DEF InOrder
      <3> QED
        BY <3>1, <2>1, <1>0, <1>2
    <2> HIDE DEF P
    <2>3. Lo(k) = P
      BY <2>1, <2>2, <1>0, <1>3, LoIsBefore
    <2> QED
      BY <2>1, <2>3
  <1>7. ASSUME NEW s \in 1..length
        PROVE  Row[s] \in Allocated /\ q[Row[s]] = IF s >= p THEN s + 1 ELSE s
    <2>1. Row[s] \in Allocated /\ pos[Row[s]] = s /\ Row[s] \in Blocks
      BY <1>3, BlocksAre DEF RowOf
    <2> QED
      BY <2>1, <1>1 DEF InOrder
  <1>8. \A s \in 1..length : s < p => Row'[s] = Row[s]
    <2> SUFFICES ASSUME NEW s \in 1..length, s < p PROVE Row'[s] = Row[s]
      OBVIOUS
    <2>1. q[Row[s]] = s /\ Row[s] \in Allocated
      BY <1>0, <1>2, <1>7
    <2> QED
      BY <2>1, <1>5
  <1>9. \A s \in 1..length : s >= p => Row'[s + 1] = Row[s]
    <2> SUFFICES ASSUME NEW s \in 1..length, s >= p PROVE Row'[s + 1] = Row[s]
      OBVIOUS
    <2>1. q[Row[s]] = s + 1 /\ Row[s] \in Allocated
      BY <1>7
    <2> QED
      BY <2>1, <1>5
  <1>10. Row'[p] = n
    BY <1>1, <1>5 DEF InOrder
  <1> QED
    BY <1>6, <1>8, <1>9, <1>10

LEMMA TailLess ==
    ASSUME NEW S, NEW T, NEW v \in Seq(S), NEW u \in Seq(T), Len(v) = Len(u) + 1,
           \A t \in 1..Len(u) : v[t + 1] = u[t]
    PROVE  v # <<>> /\ Head(v) = v[1] /\ Tail(v) = u
  <1>1. v # <<>> /\ Len(u) \in Nat
    <2>1. Len(u) \in Nat /\ Len(v) # 0
      OBVIOUS
    <2> QED
      BY <2>1
  <1>2. Tail(v) \in Seq(S) /\ Len(Tail(v)) = Len(v) - 1
    BY <1>1
  <1>3. \A t \in 1..Len(Tail(v)) : Tail(v)[t] = v[t + 1]
    BY <1>1
  <1>4. Len(Tail(v)) = Len(u)
    BY <1>1, <1>2
  <1>5. \A t \in 1..Len(u) : Tail(v)[t] = u[t]
    BY <1>3, <1>4
  <1>6. Tail(v) = u
    BY <1>2, <1>4, <1>5
  <1>7. Head(v) = v[1]
    BY <1>1
  <1> QED
    BY <1>1, <1>6, <1>7

LEMMA Shifted ==
    ASSUME NEW d \in Nat, NEW l \in Nat, NEW t \in Nat, d <= l, t >= 1
    PROVE  l + t >= d + 1 /\ l + 1 + t = (l + t) + 1 /\ l + (t + 1) = (l + t) + 1
  OBVIOUS

LEMMA CutsOrder ==
    ASSUME SkipTypes, NEW i \in Nat, NEW j \in Nat, i < j
    PROVE  Hi(i) <= Lo(j)
  <1>1. \A b \in Allocated : keyof[b] \in Nat
    BY BlocksAre DEF SkipTypes
  <1>2. \A b \in Allocated : keyof[b] <= i => keyof[b] < j
    BY <1>1
  <1> DEFINE S == {b \in Allocated : keyof[b] <= i}
             T == {b \in Allocated : keyof[b] < j}
  <1>3. S \in SUBSET T /\ IsFiniteSet(T)
    BY <1>2, FiniteBelow
  <1> HIDE DEF S, T
  <1>4. Cardinality(S) <= Cardinality(T)
    BY <1>3, FS_Subset
  <1> QED
    BY <1>4 DEF S, T, Lo, Hi

LEMMA AddPushes ==
    ASSUME SkipTypes, SkipTypes', NEW pos, NEW k, NEW n, NEW drawn, NEW up, NEW p, NEW q,
           Enters(pos, k, n, drawn, up, p, q), Linked(q)', NEW j \in Nat
    PROVE  /\ j # k => Under(j)' = Under(j)
           /\ j = k => /\ Under(j)' # <<>> /\ Tail(Under(j)') = Under(j)
                       /\ Head(Under(j)') \in SkipNodes
  <1>0. Linked(pos) /\ k \in Nat /\ Adds(k, n, drawn, up) /\ length \in Nat /\ n \in SkipNodes
        /\ length' = length + 1
    BY DEF Enters, SkipTypes, Adds
  <1>1. Part(j) /\ Part(k)
    BY <1>0, PartIs
  <1>2. Part(j)' /\ RowOf(q)'
    BY <1>0, PartNext
  <1>3. /\ p = Lo(k) + 1 /\ Row'[p] = n
        /\ \A s \in 1..length : s < p => Row'[s] = Row[s]
        /\ \A s \in 1..length : s >= p => Row'[s + 1] = Row[s]
    BY <1>2, AddRow
  <1>4. Lo(j)' = IF k < j THEN Lo(j) + 1 ELSE Lo(j)
    BY AddCuts
  <1>5. Hi(j)' = IF k < j + 1 THEN Hi(j) + 1 ELSE Hi(j)
    <2> DEFINE i == j + 1
    <2>1. i \in Nat
      OBVIOUS
    <2>2. Hi(j) = Lo(i) /\ Hi(j)' = Lo(i)'
      BY <1>1, <1>2 DEF Part
    <2> HIDE DEF i
    <2>3. Lo(i)' = IF k < i THEN Lo(i) + 1 ELSE Lo(i)
      BY <2>1, AddCuts
    <2> QED
      BY <2>2, <2>3 DEF i
  <1> DEFINE u == Under(j)
             v == Under(j)'
             l == Lo(j)
             h == Hi(j)
             d == Lo(k)
             e == Hi(k)
  <1>6. /\ l \in Nat /\ h \in Nat /\ l <= h /\ h <= length
        /\ u = [t \in 1..h - l |-> u[t]] /\ u \in Seq(Allocated) /\ Len(u) = h - l
        /\ \A t \in 1..h - l : u[t] = Row[l + t] /\ l + t \in 1..length
        /\ d \in Nat /\ e \in Nat /\ d <= e
    BY <1>1 DEF Part
  <1>7. /\ v = [t \in 1..Hi(j)' - Lo(j)' |-> v[t]] /\ v \in Seq(Allocated') /\ Len(v) = Hi(j)' - Lo(j)'
        /\ \A t \in 1..Hi(j)' - Lo(j)' : v[t] = Row'[Lo(j)' + t]
    BY <1>2 DEF Part
  <1>8. p = d + 1 /\ Lo(j)' = (IF k < j THEN l + 1 ELSE l) /\ Hi(j)' = (IF k < j + 1 THEN h + 1 ELSE h)
    BY <1>3, <1>4, <1>5
  <1>9. (j < k => h <= d) /\ (k < j => d <= l) /\ (j = k => l = d)
    <2>1. (j < k => h <= d) /\ (k < j => e <= l) /\ (j = k => l = d)
      BY <1>0, CutsOrder
    <2> HIDE DEF l, h, d, e
    <2> QED
      BY <2>1, <1>0, <1>6
  <1>10. \A t \in 1..h - l : l + t \in 1..length /\ t \in Nat /\ t >= 1 /\ l + t <= h
    BY <1>6
  <1> HIDE DEF u, v, l, h, d, e
  <1>11. CASE j < k
    <2>1. Lo(j)' = l /\ Hi(j)' = h /\ h <= d
      BY <1>0, <1>8, <1>9, <1>11
    <2>2. \A t \in 1..h - l : Row'[l + t] = Row[l + t]
      <3> TAKE t \in 1..h - l
      <3>1. l + t < p /\ l + t \in 1..length
        BY <2>1, <1>6, <1>8, <1>10
      <3> QED
        BY <3>1, <1>3
    <2>3. \A t \in 1..h - l : v[t] = u[t]
      BY <2>1, <2>2, <1>6, <1>7
    <2>4. v = [t \in 1..h - l |-> v[t]]
      BY <2>1, <1>7
    <2>5. v = u
      BY <2>3, <2>4, <1>6
    <2> QED
      BY <2>5, <1>0, <1>11 DEF u, v
  <1>12. CASE k < j
    <2>1. Lo(j)' = l + 1 /\ Hi(j)' = h + 1 /\ d <= l /\ Hi(j)' - Lo(j)' = h - l
      BY <1>0, <1>6, <1>8, <1>9, <1>12
    <2>2. \A t \in 1..h - l : Row'[l + 1 + t] = Row[l + t]
      <3> TAKE t \in 1..h - l
      <3> DEFINE s == l + t
      <3>0. t \in Nat /\ t >= 1 /\ s \in 1..length
        BY <1>10
      <3>1. l + t >= p /\ l + 1 + t = (l + t) + 1
        BY <3>0, <2>1, <1>6, <1>8, Shifted
      <3>9. s >= p /\ s \in 1..length /\ l + 1 + t = s + 1
        BY <3>0, <3>1
      <3> HIDE DEF s
      <3>2. Row'[l + 1 + t] = Row[s]
        BY <3>9, <1>3
      <3> QED
        BY <3>2 DEF s
    <2>3. \A t \in 1..h - l : v[t] = u[t]
      BY <2>1, <2>2, <1>6, <1>7
    <2>4. v = [t \in 1..h - l |-> v[t]]
      BY <2>1, <1>7
    <2>5. v = u
      BY <2>3, <2>4, <1>6
    <2> QED
      BY <2>5, <1>0, <1>12 DEF u, v
  <1>13. CASE j = k
    <2>1. Lo(j)' = l /\ Hi(j)' = h + 1 /\ d = l /\ p = l + 1
      BY <1>0, <1>6, <1>8, <1>9, <1>13
    <2> DEFINE c == h - l
    <2>2. c \in Nat /\ h + 1 - l = c + 1 /\ Len(v) = c + 1 /\ Len(u) = c /\ 1 \in 1..c + 1
      BY <2>1, <1>6, <1>7
    <2>3. v \in Seq(Allocated') /\ v # <<>>
      <3> HIDE DEF c
      <3>1. v \in Seq(Allocated')
        BY <1>7
      <3>2. Len(v) # 0
        BY <2>2
      <3> QED
        BY <3>1, <3>2
    <2>4. \A t \in 1..c + 1 : v[t] = Row'[l + t]
      BY <2>1, <2>2, <1>7
    <2>5. v[1] = n
      <3>1. v[1] = Row'[l + 1]
        BY <2>2, <2>4
      <3> QED
        BY <3>1, <2>1, <1>3
    <2>6. \A t \in 1..c : v[t + 1] = u[t]
      <3> TAKE t \in 1..c
      <3> DEFINE s == l + t
      <3>0. t \in Nat /\ t >= 1 /\ s \in 1..length /\ t <= c
        BY <2>2, <1>10
      <3>9. l + t >= p /\ l + (t + 1) = (l + t) + 1
        <4>1. l <= l /\ p = l + 1
          BY <2>1, <1>6
        <4> QED
          BY <3>0, <4>1, <1>6, Shifted
      <3>8. t + 1 \in 1..c + 1
        BY <3>0, <2>2
      <3>1. s >= p /\ s \in 1..length /\ l + (t + 1) = s + 1 /\ t + 1 \in 1..c + 1
        BY <3>0, <3>8, <3>9
      <3>2. u[t] = Row[s]
        BY <1>6
      <3> HIDE DEF s
      <3>3. v[t + 1] = Row'[s + 1]
        BY <3>1, <2>4
      <3> QED
        BY <3>1, <3>2, <3>3, <1>3
    <2> HIDE DEF c
    <2>7. u \in Seq(Allocated) /\ Len(v) = Len(u) + 1
      BY <1>6, <2>2
    <2>8. \A t \in 1..Len(u) : v[t + 1] = u[t]
      BY <2>2, <2>6
    <2>9. Tail(v) = u /\ Head(v) = v[1]
      BY <2>3, <2>7, <2>8, TailLess
    <2>10. Head(v) = n
      BY <2>5, <2>9
    <2> QED
      BY <2>3, <2>9, <2>10, <1>0, <1>13 DEF u, v
  <1> QED
    BY <1>0, <1>11, <1>12, <1>13

(* The row and the cuts after a deletion.                                  *)
Vanishes(pos, k, n, q) ==
    /\ Leaves(pos, n, q) /\ keyof[n] = k
    /\ \A b \in Allocated : keyof[b] < k <=> pos[b] < pos[n]

LEMMA DropCuts ==
    ASSUME SkipTypes, NEW pos, NEW k \in Nat, NEW n, NEW q, Vanishes(pos, k, n, q), NEW j \in Nat
    PROVE  IF k < j THEN Lo(j)' = Lo(j) - 1 ELSE Lo(j)' = Lo(j)
  <1>0. Linked(pos) /\ Drops(n) /\ keyof[n] = k
    BY DEF Vanishes, Leaves
  <1>1. Allocated' = Allocated \ {n} /\ n \in Allocated
    <2>1. Allocated' = Allocated \ {n}
      BY <1>0, DropTypes
    <2> QED
      BY <1>0, <2>1 DEF Drops
  <1>2. \A b \in Allocated \ {n} : keyof'[b] = keyof[b]
    BY <1>0, BlocksAre DEF Drops, SkipTypes
  <1> DEFINE S == {b \in Allocated : keyof[b] < j}
             T == {b \in Allocated' : keyof'[b] < j}
  <1>3. Lo(j) = Cardinality(S) /\ Lo(j)' = Cardinality(T)
    BY DEF Lo
  <1>4. IsFiniteSet(S)
    BY FiniteBelow
  <1>5. CASE k < j
    <2>1. T = S \ {n} /\ n \in S
      BY <1>0, <1>1, <1>2, <1>5
    <2> HIDE DEF S, T
    <2>2. Cardinality(S \ {n}) = Cardinality(S) - 1
      BY <1>4, <2>1, FS_RemoveElement
    <2> QED
      BY <2>1, <2>2, <1>3, <1>5
  <1>6. CASE ~(k < j)
    <2>1. T = S
      BY <1>0, <1>1, <1>2, <1>6
    <2> HIDE DEF S, T
    <2> QED
      BY <2>1, <1>3, <1>6
  <1> QED
    BY <1>5, <1>6

LEMMA DropRow ==
    ASSUME SkipTypes, NEW pos, NEW k \in Nat, NEW n, NEW q, Vanishes(pos, k, n, q), RowOf(q)'
    PROVE  /\ pos[n] = Lo(k) + 1
           /\ \A s \in 1..length' : s < pos[n] => Row'[s] = Row[s]
           /\ \A s \in 1..length' : s >= pos[n] => Row'[s] = Row[s + 1]
  <1>0. Leaves(pos, n, q) /\ Linked(pos) /\ Drops(n) /\ InRow(pos) /\ length \in Nat
        /\ length' = length - 1
    BY DEF Vanishes, Leaves, Linked, Drops, SkipTypes
  <1>1. OutOfOrder(pos, n, q)
    BY <1>0, LeavesInOrder
  <1>2. RowOf(pos)
    BY <1>0, RowIs
  <1>3. Allocated' = Allocated \ {n} /\ n \in Allocated /\ n \in Blocks
    <2>1. Allocated' = Allocated \ {n}
      BY <1>0, DropTypes
    <2>2. n \in Allocated
      BY <1>0 DEF Drops
    <2> QED
      BY <2>1, <2>2, BlocksAre
  <1> DEFINE p == pos[n]
  <1>4. p \in Nat /\ p >= 1 /\ p <= length /\ \A b \in Allocated : pos[b] \in Nat
    <2>1. \A b \in Allocated : pos[b] \in 1..length
      BY <1>2 DEF RowOf
    <2> QED
      BY <2>1, <1>0, <1>3
  <1>5. p = Lo(k) + 1
    <2> DEFINE P == p - 1
    <2>1. P \in 0..length /\ P + 1 = p
      BY <1>0, <1>4
    <2>2. \A b \in Allocated : keyof[b] < k <=> pos[b] < p
      BY DEF Vanishes
    <2>3. \A b \in Allocated : keyof[b] < k <=> pos[b] <= P
      <3> HIDE DEF p
      <3> QED
        BY <2>1, <2>2, <1>0, <1>4
    <2> HIDE DEF P, p
    <2>4. Lo(k) = P
      BY <2>1, <2>3, <1>0, <1>2, LoIsBefore
    <2> QED
      BY <2>1, <2>4
  <1>6. ASSUME NEW s \in 1..length'
        PROVE  /\ Row'[s] \in Allocated /\ Row'[s] # n
               /\ s = IF pos[Row'[s]] > p THEN pos[Row'[s]] - 1 ELSE pos[Row'[s]]
               /\ Row[pos[Row'[s]]] = Row'[s]
    <2>1. Row'[s] \in Allocated /\ Row'[s] # n /\ q[Row'[s]] = s
      BY <1>3 DEF RowOf
    <2>2. Row'[s] \in Blocks \ {n}
      BY <2>1, BlocksAre
    <2>3. Row[pos[Row'[s]]] = Row'[s]
      BY <2>1, <1>2 DEF RowOf
    <2> QED
      BY <2>1, <2>2, <2>3, <1>1 DEF OutOfOrder
  <1>7. \A b \in Allocated : b # n => pos[b] # p
    BY <1>0, <1>3, BlocksAre DEF InRow
  <1> HIDE DEF p
  <1>8. ASSUME NEW s \in 1..length' PROVE s \in Nat /\ s >= 1
    <2>1. length' \in Int
      BY <1>0
    <2> QED
      BY <2>1
  <1>9. ASSUME NEW s \in 1..length', s < p PROVE Row'[s] = Row[s]
    <2> DEFINE b == Row'[s]
    <2>1. b \in Allocated /\ b # n /\ s = (IF pos[b] > p THEN pos[b] - 1 ELSE pos[b]) /\ Row[pos[b]] = b
      BY <1>6
    <2> HIDE DEF b
    <2>2. pos[b] \in Nat /\ pos[b] # p /\ s \in Nat
      BY <2>1, <1>4, <1>7, <1>8
    <2>3. pos[b] = s
      BY <2>1, <2>2, <1>4, <1>9
    <2> QED
      BY <2>1, <2>3 DEF b
  <1>10. ASSUME NEW s \in 1..length', s >= p PROVE Row'[s] = Row[s + 1]
    <2> DEFINE b == Row'[s]
    <2>1. b \in Allocated /\ b # n /\ s = (IF pos[b] > p THEN pos[b] - 1 ELSE pos[b]) /\ Row[pos[b]] = b
      BY <1>6
    <2> HIDE DEF b
    <2>2. pos[b] \in Nat /\ pos[b] # p /\ s \in Nat
      BY <2>1, <1>4, <1>7, <1>8
    <2>3. pos[b] = s + 1
      BY <2>1, <2>2, <1>4, <1>10
    <2> QED
      BY <2>1, <2>3 DEF b
  <1> QED
    BY <1>5, <1>9, <1>10 DEF p

LEMMA DropPops ==
    ASSUME SkipTypes, SkipTypes', NEW pos, NEW k \in Nat, NEW n, NEW q, Vanishes(pos, k, n, q),
           Linked(q)', NEW j \in Nat
    PROVE  /\ j # k => Under(j)' = Under(j)
           /\ j = k => Under(j) # <<>> /\ Under(j)' = Tail(Under(j))
  <1>0. Linked(pos) /\ Drops(n) /\ keyof[n] = k /\ length \in Nat /\ length' = length - 1
        /\ n \in Allocated
    BY DEF Vanishes, Leaves, Drops, SkipTypes
  <1>1. Part(j) /\ Part(k)
    BY <1>0, PartIs
  <1>2. Part(j)' /\ RowOf(q)'
    BY PartNext
  <1> DEFINE p == pos[n]
  <1>3. /\ p = Lo(k) + 1
        /\ \A s \in 1..length' : s < p => Row'[s] = Row[s]
        /\ \A s \in 1..length' : s >= p => Row'[s] = Row[s + 1]
    BY <1>2, DropRow
  <1> HIDE DEF p
  <1>4. IF k < j THEN Lo(j)' = Lo(j) - 1 ELSE Lo(j)' = Lo(j)
    BY DropCuts
  <1>5. IF k < j + 1 THEN Hi(j)' = Hi(j) - 1 ELSE Hi(j)' = Hi(j)
    <2> DEFINE i == j + 1
    <2>1. i \in Nat
      OBVIOUS
    <2>2. Hi(j) = Lo(i) /\ Hi(j)' = Lo(i)'
      BY <1>1, <1>2 DEF Part
    <2> HIDE DEF i
    <2>3. IF k < i THEN Lo(i)' = Lo(i) - 1 ELSE Lo(i)' = Lo(i)
      BY <2>1, DropCuts
    <2> QED
      BY <2>2, <2>3 DEF i
  <1> DEFINE u == Under(j)
             v == Under(j)'
             l == Lo(j)
             h == Hi(j)
             d == Lo(k)
             e == Hi(k)
             g == length
  <1>6. /\ l \in Nat /\ h \in Nat /\ l <= h /\ h <= g
        /\ u = [t \in 1..h - l |-> u[t]] /\ u \in Seq(Allocated) /\ Len(u) = h - l
        /\ \A t \in 1..h - l : u[t] = Row[l + t]
        /\ d \in Nat /\ e \in Nat /\ d <= e
    BY <1>1 DEF Part
  <1>7. /\ v = [t \in 1..Hi(j)' - Lo(j)' |-> v[t]] /\ v \in Seq(Allocated') /\ Len(v) = Hi(j)' - Lo(j)'
        /\ \A t \in 1..Hi(j)' - Lo(j)' : v[t] = Row'[Lo(j)' + t] /\ Lo(j)' + t \in 1..g - 1
    BY <1>0, <1>2 DEF Part
  <1>8. /\ p = d + 1
        /\ IF k < j THEN Lo(j)' = l - 1 ELSE Lo(j)' = l
        /\ IF k < j + 1 THEN Hi(j)' = h - 1 ELSE Hi(j)' = h
    BY <1>3, <1>4, <1>5
  <1>9. (j < k => h <= d) /\ (k < j => e <= l) /\ (j = k => l = d /\ h = e)
    BY CutsOrder
  <1>10. p <= e
    <2>1. keyof[n] <= k
      BY <1>0
    <2> QED
      BY <2>1, <1>0, CutsBehind DEF p
  <1>11. \A s \in 1..g - 1 : (s < p => Row'[s] = Row[s]) /\ (s >= p => Row'[s] = Row[s + 1])
    BY <1>0, <1>3
  <1> HIDE DEF u, v, l, h, d, e, g
  <1>12. CASE j < k
    <2>1. Lo(j)' = l /\ Hi(j)' = h /\ h <= d
      BY <1>0, <1>8, <1>9, <1>12
    <2>2. ASSUME NEW t \in 1..h - l PROVE v[t] = u[t]
      <3>1. v[t] = Row'[l + t] /\ l + t \in 1..g - 1 /\ u[t] = Row[l + t]
        BY <2>1, <1>6, <1>7
      <3>2. l + t < p
        BY <2>1, <1>6, <1>8
      <3> QED
        BY <3>1, <3>2, <1>11
    <2>3. v = [t \in 1..h - l |-> v[t]]
      BY <2>1, <1>7
    <2>4. v = u
      BY <2>2, <2>3, <1>6
    <2> QED
      BY <2>4, <1>0, <1>12 DEF u, v
  <1>13. CASE k < j
    <2>1. Lo(j)' = l - 1 /\ Hi(j)' = h - 1 /\ e <= l /\ Hi(j)' - Lo(j)' = h - l
      BY <1>0, <1>6, <1>8, <1>9, <1>13
    <2>2. ASSUME NEW t \in 1..h - l PROVE v[t] = u[t]
      <3> DEFINE s == (l - 1) + t
      <3>1. v[t] = Row'[s] /\ s \in 1..g - 1 /\ u[t] = Row[l + t]
        BY <2>1, <1>6, <1>7
      <3>2. t \in Nat /\ t >= 1
        BY <1>6
      <3>3. s >= l /\ s + 1 = l + t
        BY <3>2, <1>6
      <3>4. p \in Nat /\ p <= l
        BY <2>1, <1>6, <1>8, <1>10
      <3>5. s >= p
        <4>1. s \in Int
          BY <3>2, <1>6
        <4> HIDE DEF s
        <4> QED
          BY <4>1, <3>3, <3>4, <1>6
      <3> HIDE DEF s
      <3> QED
        BY <3>1, <3>3, <3>5, <1>11
    <2>3. v = [t \in 1..h - l |-> v[t]]
      BY <2>1, <1>7
    <2>4. v = u
      BY <2>2, <2>3, <1>6
    <2> QED
      BY <2>4, <1>0, <1>13 DEF u, v
  <1>14. CASE j = k
    <2>1. Lo(j)' = l /\ Hi(j)' = h - 1 /\ p = l + 1 /\ p <= h
      BY <1>0, <1>6, <1>8, <1>9, <1>10, <1>14
    <2> DEFINE c == (h - 1) - l
    <2>2. c \in Nat /\ Len(v) = c /\ Len(u) = c + 1
      BY <2>1, <1>6, <1>7
    <2>3. ASSUME NEW t \in 1..c PROVE u[t + 1] = v[t]
      <3> DEFINE s == l + t
      <3>1. v[t] = Row'[s] /\ s \in 1..g - 1
        BY <2>1, <1>7
      <3>2. t \in Nat /\ t >= 1 /\ t + 1 \in 1..h - l
        BY <1>6
      <3>3. s >= p /\ l + (t + 1) = s + 1
        BY <3>2, <2>1, <1>6
      <3>4. u[t + 1] = Row[l + (t + 1)]
        BY <3>2, <1>6
      <3> HIDE DEF s
      <3> QED
        BY <3>1, <3>3, <3>4, <1>11
    <2> HIDE DEF c
    <2>4. Len(u) = Len(v) + 1 /\ \A t \in 1..Len(v) : u[t + 1] = v[t]
      BY <2>2, <2>3
    <2>5. u \in Seq(Allocated) /\ v \in Seq(Allocated')
      BY <1>6, <1>7
    <2>6. u # <<>> /\ Tail(u) = v
      BY <2>4, <2>5, TailLess
    <2> QED
      BY <2>6, <1>0, <1>14 DEF u, v
  <1> QED
    BY <1>0, <1>12, <1>13, <1>14

(* What each call does to the stacks.                                      *)
AsStacks == [k \in SkipKeys |-> Under(k)]
CallsOnStacks ==
    /\ SkipFree => Stacks!Clear
    /\ \A k \in SkipKeys : SkipDelete(k) => Stacks!Pop(k)
    /\ \A drawn \in 1..SkipMaxLevel :
          /\ SkipNoMem(drawn) => UNCHANGED AsStacks
          /\ \A k \in SkipKeys : SkipInsert(k, drawn) => Stacks!Push(k)
    /\ SkipNew => UNCHANGED AsStacks

LEMMA CallsAct == SkipInv /\ SkipInv' => CallsOnStacks
  <1> DEFINE stacks == [k \in SkipKeys |-> Under(k)]
  <1> SUFFICES ASSUME SkipInv, SkipInv' PROVE CallsOnStacks
    OBVIOUS
  <1>0. /\ stacks' = [k \in SkipKeys |-> Under(k)'] /\ SkipInv' /\ SkipTypes /\ SkipTypes'
        /\ \A k \in SkipKeys : k \in Nat
    BY SkipAssumption DEF SkipInv
  <1>1. EmptyList' => \A k \in SkipKeys : Under(k)' = <<>>
    <2>1. (EmptyList => SkipInv /\ \A k \in SkipKeys : Under(k) = <<>>)'
      BY EmptyIs, PTL
    <2> QED
      BY <2>1
  <1>2. ASSUME SkipNew PROVE stacks' = stacks
    <2>1. \A k \in SkipKeys : Under(k) = <<>> /\ Under(k)' = <<>>
      BY <1>1, <1>2, NewEmpty, EmptyIs
    <2> QED
      BY <2>1, <1>0
  <1>3. ASSUME SkipFree PROVE Stacks!Clear
    <2>1. \A k \in SkipKeys : Under(k)' = <<>>
      BY <1>1, <1>3, FreeEmpty
    <2> QED
      BY <2>1 DEF Stacks!Clear
  <1>4. ASSUME NEW k \in SkipKeys, SkipDelete(k) PROVE Stacks!Pop(k)
    <2>1. PICK pos, n, q : /\ Leaves(pos, n, q) /\ Linked(q)' /\ keyof[n] = k
                           /\ \A b \in Allocated : keyof[b] < k <=> pos[b] < pos[n]
      BY <1>4, DeleteKeeps
    <2>2. Vanishes(pos, k, n, q)
      BY <2>1 DEF Vanishes
    <2>3. \A j \in SkipKeys : /\ j # k => Under(j)' = Under(j)
                              /\ j = k => Under(j) # <<>> /\ Under(j)' = Tail(Under(j))
      BY <2>1, <2>2, <1>0, DropPops
    <2>4. stacks[k] # <<>>
      BY <2>3
    <2>5. stacks' = [stacks EXCEPT ![k] = Tail(@)]
      BY <2>3, <1>0
    <2> QED
      BY <2>4, <2>5 DEF Stacks!Pop
  <1>5. ASSUME NEW drawn \in 1..SkipMaxLevel, SkipNoMem(drawn) PROVE stacks' = stacks
    <2>1. \A k \in SkipKeys : Under(k)' = Under(k)
      BY <1>5, NoMemKeeps
    <2> QED
      BY <2>1, <1>0
  <1>6. ASSUME NEW drawn \in 1..SkipMaxLevel, NEW k \in SkipKeys, SkipInsert(k, drawn)
        PROVE  Stacks!Push(k)
    <2>1. PICK pos, n, up, p, q : Enters(pos, k, n, drawn, up, p, q) /\ Linked(q)'
      BY <1>6, InsertKeeps
    <2>2. \A j \in SkipKeys : /\ j # k => Under(j)' = Under(j)
                              /\ j = k => /\ Under(j)' # <<>> /\ Tail(Under(j)') = Under(j)
                                          /\ Head(Under(j)') \in SkipNodes
      BY <2>1, <1>0, AddPushes
    <2>3. stacks'[k] = Under(k)' /\ stacks[k] = Under(k)
      BY <1>0
    <2>4. stacks'[k] # <<>> /\ Tail(stacks'[k]) = stacks[k] /\ Head(stacks'[k]) \in SkipNodes
      BY <2>3, <2>2
    <2>5. stacks' = [stacks EXCEPT ![k] = stacks'[k]]
      BY <2>2, <1>0
    <2> QED
      BY <2>4, <2>5 DEF Stacks!Push
  <1> QED
    BY <1>2, <1>3, <1>4, <1>5, <1>6 DEF CallsOnStacks, AsStacks

(* Every step of the list is a step of the stacks.                         *)
LEMMA StacksStep == SkipInv /\ [SkipNext]_skipVars => [Stacks!Next]_AsStacks
  <1> SUFFICES ASSUME SkipInv, [SkipNext]_skipVars
               PROVE  Stacks!Next \/ UNCHANGED AsStacks
    OBVIOUS
  <1>1. CallsOnStacks
    BY SkipStep, CallsAct
  <1>2. CASE SkipNext
    BY <1>1, <1>2 DEF SkipNext, CallsOnStacks, Stacks!Next
  <1>3. CASE UNCHANGED skipVars
    <2>1. forward' = forward /\ keyof' = keyof
      BY <1>3 DEF skipVars
    <2>2. NextOf' = NextOf /\ Allocated' = Allocated
      BY <2>1 DEF NextOf, Allocated
    <2>3. Row' = Row
      BY <2>2 DEF Row
    <2>4. \A k \in SkipKeys : Under(k)' = Under(k)
      BY <2>1, <2>2, <2>3 DEF Under
    <2> QED
      BY <2>4 DEF AsStacks
  <1> QED
    BY <1>2, <1>3

(***************************************************************************)
(* Whatever levels are drawn: jk_skip_insert pushes a value on the stack   *)
(* of its key, jk_skip_delete pops the last one that was inserted under    *)
(* the key, neither touches the values of another key, jk_skip_free        *)
(* empties the stacks, and a failure of malloc changes none.               *)
(***************************************************************************)
THEOREM SkipCallsOnStacks == SkipSpec => [][CallsOnStacks]_skipVars
  <1>1. SkipInit => SkipInv
    BY StartsEmpty, EmptyIs
  <1>2. SkipInv /\ [SkipNext]_skipVars => SkipInv'
    BY SkipStep
  <1> QED
    BY <1>1, <1>2, CallsAct, PTL DEF SkipSpec

(***************************************************************************)
(* The code of jk_skip implements KeyedStacks: levels and links, and the   *)
(* failures of malloc, show in nothing that it promises.                   *)
(***************************************************************************)
THEOREM SkipImplementsStacks == SkipSpec => ImplementsStacks
  <1>1. SkipInit => Stacks!Init
    <2> SUFFICES ASSUME SkipInit PROVE \A k \in SkipKeys : Under(k) = <<>>
      BY DEF Stacks!Init
    <2> QED
      BY StartsEmpty, EmptyIs
  <1>2. SkipInit => SkipInv
    BY StartsEmpty, EmptyIs
  <1>3. SkipInv /\ [SkipNext]_skipVars => SkipInv'
    BY SkipStep
  <1> QED
    BY <1>1, <1>2, <1>3, StacksStep, PTL DEF SkipSpec, ImplementsStacks, Stacks!Spec, AsStacks
=============================================================================
