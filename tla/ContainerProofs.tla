---------------------------- MODULE ContainerProofs ----------------------------
(***************************************************************************)
(* Three of the containers, for any size of them.  Bloom filters forget no *)
(* key, as long as the salts of a filter are those its keys were set with. *)
(* The loops over lists visit every node, whatever their bodies do to the  *)
(* lists.  The array of a heap stays a heap, and is a priority queue.      *)
(***************************************************************************)
EXTENDS Bloom, List, Heap, Iteration

(***************************************************************************)
(* Bloom filters                                                           *)
(***************************************************************************)
FilterShape == /\ hash \in [Filters -> {"none", "default", "own"}]
         /\ bits = [f \in Filters |-> bits[f]]
         /\ added \in [Filters -> SUBSET BloomKeys]

(* Every bit of a key that was set is set, and no bit if no key was.       *)
Remembers(f) == hash[f] # "none" =>
                    /\ \A k \in added[f], i \in 1..HashCount : Index(f, k, i) \in bits[f]
                    /\ f \notin touched => bits[f] = {}

FilterInv == FilterShape /\ \A f \in Filters : Remembers(f)

LEMMA InvInit == BloomInit => FilterInv
  BY DEF BloomInit, FilterInv, FilterShape, Remembers

(* Setting up one filter with the default hash changes the bits that all   *)
(* others with that hash look at, but takes back what they promise.        *)
LEMMA SetUpKeeps == ASSUME FilterInv, NEW f \in Filters, SetUp(f) PROVE FilterInv'
  <1>1. \/ /\ hash' = [hash EXCEPT ![f] = "default"]
           /\ added' = [g \in Filters |-> IF hash'[g] = "default" THEN {} ELSE added[g]]
        \/ /\ hash' = [hash EXCEPT ![f] = "own"]
           /\ added' = [added EXCEPT ![f] = {}]
           /\ salts' = salts
    BY DEF SetUp, SetUpDefault, SetUpOwn
  <1>2. bits' = [bits EXCEPT ![f] = {}] /\ touched' = touched \ {f}
    BY DEF SetUp, BitsCleared
  <1>3. FilterShape'
    BY <1>1, <1>2 DEF FilterInv, FilterShape
  <1>4. Remembers(f)'
    BY <1>1, <1>2 DEF FilterInv, FilterShape, Remembers
  <1>5. ASSUME NEW g \in Filters \ {f} PROVE Remembers(g)'
    <2>1. hash'[g] = hash[g] /\ bits'[g] = bits[g] /\ (g \in touched' <=> g \in touched)
      BY <1>1, <1>2 DEF FilterInv, FilterShape
    <2>2. \A k \in added'[g], i \in 1..HashCount :
              hash[g] # "none" => k \in added[g] /\ Index(g, k, i)' = Index(g, k, i)
      BY <1>1, <2>1 DEF FilterInv, FilterShape, Index
    <2> QED
      BY <2>1, <2>2 DEF FilterInv, Remembers
  <1> QED
    BY <1>3, <1>4, <1>5 DEF FilterInv

LEMMA SetKeeps ==
    ASSUME FilterInv, NEW f \in Filters, NEW k \in BloomKeys, BloomSet(f, k) PROVE FilterInv'
  <1>1. /\ bits' = [bits EXCEPT ![f] = @ \cup {Index(f, k, i) : i \in 1..HashCount}]
        /\ added' = [added EXCEPT ![f] = @ \cup {k}]
        /\ touched' = touched \cup {f} /\ hash' = hash /\ salts' = salts
    BY DEF BloomSet
  <1>2. FilterShape'
    BY <1>1 DEF FilterInv, FilterShape
  <1>3. \A g \in Filters, j \in BloomKeys, i \in 1..HashCount :
            Index(g, j, i)' = Index(g, j, i)
    BY <1>1 DEF Index
  <1>4. ASSUME NEW g \in Filters PROVE Remembers(g)'
    <2>1. g # f => added'[g] = added[g] /\ bits'[g] = bits[g]
      BY <1>1 DEF FilterInv, FilterShape
    <2>2. added'[f] = added[f] \cup {k}
          /\ bits'[f] = bits[f] \cup {Index(f, k, i) : i \in 1..HashCount}
      BY <1>1 DEF FilterInv, FilterShape
    <2>3. added[g] \subseteq BloomKeys
      BY DEF FilterInv, FilterShape
    <2> QED
      BY <1>1, <1>3, <2>1, <2>2, <2>3 DEF FilterInv, Remembers
  <1> QED
    BY <1>2, <1>4 DEF FilterInv

LEMMA FreeKeeps == ASSUME FilterInv, NEW f \in Filters, BloomFree(f) PROVE FilterInv'
  BY DEF BloomFree, FilterInv, FilterShape, Remembers, Index

LEMMA InvStep == FilterInv /\ [BloomNext]_bloomVars => FilterInv'
  <1>1. FilterInv /\ UNCHANGED bloomVars => FilterInv'
    BY DEF bloomVars, FilterInv, FilterShape, Remembers, Index
  <1> QED
    BY <1>1, SetUpKeeps, SetKeeps, FreeKeeps DEF BloomNext

(* A filter reports each key that was set in it since the salts of its     *)
(* hash were drawn, and reports none if none was set.                      *)
THEOREM NoKeyForgotten == BloomSpec => []NoFalseNegative
  <1>1. FilterInv => NoFalseNegative
    <2>1. 1 \in 1..HashCount
      BY BloomAssumption
    <2> QED
      BY <2>1 DEF FilterInv, Remembers, NoFalseNegative, IsSet
  <1> QED
    BY <1>1, InvInit, InvStep, PTL DEF BloomSpec

-----------------------------------------------------------------------------
(***************************************************************************)
(* Lists                                                                   *)
(***************************************************************************)

(***************************************************************************)
(* A list and its head as one ring: its places are 0..Len(s)+1, and the    *)
(* head stands at both ends.                                               *)
(***************************************************************************)
At(h, s, k) == IF k \in 1..Len(s) THEN s[k] ELSE h

Closed(nx, pv, h, s) ==
    \A k \in 0..Len(s) : /\ nx[At(h, s, k)] = At(h, s, k+1)
                         /\ pv[At(h, s, k+1)] = At(h, s, k)

(* A node is in one place of one list.                                     *)
Apart == \A g, h \in Heads : \A i \in 1..Len(order[g]), j \in 1..Len(order[h]) :
             order[g][i] = order[h][j] => g = h /\ i = j

Links == Heads \cup ListNodes
Loops == [head : Heads, node : ListNodes, n : Links \cup {Nowhere},
          safe : BOOLEAN, back : BOOLEAN]

ListTypes == /\ next \in [Links -> Links \cup {Nowhere}]
             /\ prev \in [Links -> Links \cup {Nowhere}]
             /\ order \in [Heads -> Seq(ListNodes)]
             /\ loop \in Loops \cup {NoLoop}
             /\ loop # NoLoop => (loop.safe => loop.n \in Links)

(* The places from the k-th in the direction of the loop                   *)
From(k, back, n) == {i \in 1..n : IF back THEN i <= k ELSE i >= k}

(***************************************************************************)
(* The loop goes on at a place of its list, before which nothing is left   *)
(* to visit, and its body is at another node.  Only a safe loop may have   *)
(* moved that node to another list.                                        *)
(***************************************************************************)
GoesOn(h, back, s, to, left) ==
    \E k \in 0..Len(s)+1 :
        /\ IF back THEN k <= Len(s) ELSE k >= 1
        /\ to = At(h, s, k)
        /\ left \subseteq {s[i] : i \in From(k, back, Len(s))}

Looping == IF loop = NoLoop THEN todo = {}
           ELSE /\ GoesOn(loop.head, loop.back, order[loop.head], NextNode, todo)
                /\ loop.node \notin todo \cup {NextNode}
                /\ ~loop.safe => \A g \in Heads : \A i \in 1..Len(order[g]) :
                                     order[g][i] = loop.node => g = loop.head

Rings == \A h \in Heads : Closed(next, prev, h, order[h])

ListInv == ListTypes /\ Apart /\ Rings /\ Looping

-----------------------------------------------------------------------------
LEMMA ListStart == ListInit => ListInv
  <1> SUFFICES ASSUME ListInit PROVE ListInv
    OBVIOUS
  <1>1. order = [h \in Heads |-> <<>>] /\ loop = NoLoop /\ todo = {}
    BY DEF ListInit
  <1>2. /\ next \in [Links -> Links \cup {Nowhere}] /\ prev = next
        /\ \A h \in Heads : next[h] = h
    BY DEF ListInit, Links
  <1>3. ListTypes
    BY <1>1, <1>2 DEF ListTypes
  <1>4. \A h \in Heads : Len(order[h]) = 0
    BY <1>1
  <1>5. Apart
    BY <1>4 DEF Apart
  <1>6. Rings
    BY <1>2, <1>4 DEF Rings, Closed, At
  <1> QED
    BY <1>1, <1>3, <1>5, <1>6 DEF ListInv, Looping

(* The places of all rings are different, but for the two ends of each.    *)
LEMMA PlacesDiffer ==
    ASSUME ListInv, NEW g \in Heads, NEW h \in Heads,
           NEW i \in 0..Len(order[g])+1, NEW j \in 0..Len(order[h])+1,
           At(g, order[g], i) = At(h, order[h], j)
    PROVE  /\ g = h
           /\ i = j \/ (i \in {0, Len(order[g])+1} /\ j \in {0, Len(order[h])+1})
  <1>1. /\ order[g] \in Seq(ListNodes) /\ order[h] \in Seq(ListNodes)
        /\ Len(order[g]) \in Nat /\ Len(order[h]) \in Nat
    BY DEF ListInv, ListTypes
  <1>2. i \in 1..Len(order[g]) => order[g][i] \in ListNodes
    BY <1>1
  <1>3. j \in 1..Len(order[h]) => order[h][j] \in ListNodes
    BY <1>1
  <1>4. Heads \cap ListNodes = {}
    BY ListAssumption
  <1>5. i \in 1..Len(order[g]) /\ j \in 1..Len(order[h]) => g = h /\ i = j
    BY DEF ListInv, Apart, At
  <1>6. i \in 1..Len(order[g]) <=> j \in 1..Len(order[h])
    BY <1>2, <1>3, <1>4 DEF At
  <1> QED
    BY <1>1, <1>5, <1>6 DEF At

LEMMA PlacesLink ==
    ASSUME ListInv, NEW h \in Heads, NEW k \in 0..Len(order[h])+1
    PROVE  At(h, order[h], k) \in Links /\ At(h, order[h], k) # Nowhere
  BY ListAssumption DEF ListInv, ListTypes, Links, At

(* A loop that is there is one of the loops.                               *)
LEMMA LoopIsLoop == ASSUME ListInv, loop # NoLoop PROVE loop \in Loops
  BY DEF ListInv, ListTypes

-----------------------------------------------------------------------------
LEMMA RingAppended ==
    ASSUME NEW h, NEW s \in Seq(ListNodes), NEW x \in ListNodes
    PROVE  /\ Append(s, x) \in Seq(ListNodes) /\ Len(Append(s, x)) = Len(s) + 1
           /\ \A k \in 0..Len(s) : At(h, Append(s, x), k) = At(h, s, k)
           /\ At(h, Append(s, x), Len(s)+1) = x /\ At(h, Append(s, x), Len(s)+2) = h
  <1>1. Append(s, x) \in Seq(ListNodes) /\ Len(Append(s, x)) = Len(s) + 1 /\ Len(s) \in Nat
    OBVIOUS
  <1>2. \A k \in 1..Len(s) : Append(s, x)[k] = s[k]
    OBVIOUS
  <1>3. Append(s, x)[Len(s)+1] = x
    OBVIOUS
  <1> QED
    BY <1>1, <1>2, <1>3 DEF At

LEMMA RingWithout ==
    ASSUME NEW h, NEW s \in Seq(ListNodes), NEW i \in 1..Len(s)
    PROVE  /\ RemoveAt(s, i) \in Seq(ListNodes) /\ Len(RemoveAt(s, i)) = Len(s) - 1
           /\ \A k \in 0..Len(s) : At(h, RemoveAt(s, i), k) = At(h, s, IF k < i THEN k ELSE k+1)
  <1> DEFINE a == SubSeq(s, 1, i-1)
             b == SubSeq(s, i+1, Len(s))
  <1>1. Len(s) \in Nat /\ i \in Int /\ 1 <= i /\ i <= Len(s)
    OBVIOUS
  <1>2. a \in Seq(ListNodes) /\ Len(a) = i-1
    OBVIOUS
  <1>3. \A k \in 1..i-1 : a[k] = s[k]
    OBVIOUS
  <1>4. b \in Seq(ListNodes) /\ Len(b) = Len(s)-i
    OBVIOUS
  <1>5. \A k \in 1..Len(s)-i : b[k] = s[k+i]
    OBVIOUS
  <1>6. RemoveAt(s, i) = a \o b
    BY DEF RemoveAt
  <1> HIDE DEF a, b
  <1>7. a \o b \in Seq(ListNodes) /\ Len(a \o b) = Len(a) + Len(b)
    BY <1>2, <1>4
  <1>8. Len(a \o b) = Len(s) - 1
    BY <1>1, <1>2, <1>4, <1>7
  <1>9. ASSUME NEW k \in 1..Len(s)-1
        PROVE  (a \o b)[k] = IF k < i THEN s[k] ELSE s[k+1]
    <2>1. CASE k < i
      <3>1. k \in 1..Len(a)
        BY <1>1, <1>2, <2>1
      <3>2. (a \o b)[k] = a[k]
        BY <1>2, <1>4, <3>1
      <3> QED
        BY <1>2, <1>3, <2>1, <3>1, <3>2
    <2>2. CASE k >= i
      <3>1. k-(i-1) \in 1..Len(b) /\ (k-(i-1))+i = k+1 /\ k \in Len(a)+1..Len(a)+Len(b)
        BY <1>1, <1>2, <1>4, <2>2
      <3>2. (a \o b)[k] = b[k-Len(a)]
        BY <1>2, <1>4, <3>1
      <3>3. k-Len(a) = k-(i-1) /\ k-(i-1) \in 1..Len(s)-i
        BY <1>1, <1>2, <1>4, <3>1
      <3>4. b[k-(i-1)] = s[k+1]
        BY <1>5, <3>1, <3>3
      <3>5. ~(k < i)
        BY <1>1, <2>2
      <3>6. (a \o b)[k] = s[k+1]
        BY <3>2, <3>3, <3>4
      <3> QED
        BY <3>5, <3>6
    <2>3. k < i \/ k >= i
      BY <1>1
    <2> QED
      BY <2>1, <2>2, <2>3
  <1> QED
    BY <1>1, <1>6, <1>7, <1>8, <1>9 DEF At

(* What jk_list_add does to the rings                                      *)
LEMMA AddKeepsTypes ==
    ASSUME ListInv, NEW h \in Heads, NEW x \in ListNodes, ListAdd(h, x)
    PROVE  /\ next' \in [Links -> Links \cup {Nowhere}]
           /\ prev' \in [Links -> Links \cup {Nowhere}]
           /\ order' \in [Heads -> Seq(ListNodes)]
           /\ order'[h] = Append(order[h], x)
           /\ \A g \in Heads \ {h} : order'[g] = order[g]
           /\ \A g \in Heads : \A i \in 1..Len(order[g]) : order[g][i] # x
  <1>1. prev[h] \in Links
    <2>1. Len(order[h]) \in 0..Len(order[h])
      BY DEF ListInv, ListTypes
    <2>2. At(h, order[h], Len(order[h])) \in Links /\ At(h, order[h], Len(order[h])+1) = h
      BY <2>1, PlacesLink DEF ListInv, ListTypes, At
    <2> QED
      BY <2>1, <2>2 DEF ListInv, Rings, Closed
  <1>2. \A g \in Heads : \A i \in 1..Len(order[g]) : order[g][i] # x
    BY DEF ListAdd, InAList, ToSet, ListInv, ListTypes
  <1>3. x \in Links /\ h \in Links
    BY DEF Links
  <1> QED
    BY <1>1, <1>2, <1>3, RingAppended DEF ListAdd, ListInv, ListTypes

LEMMA AddKeepsApart ==
    ASSUME ListInv, NEW h \in Heads, NEW x \in ListNodes, ListAdd(h, x)
    PROVE  Apart'
  <1> SUFFICES ASSUME NEW g \in Heads, NEW f \in Heads,
                      NEW i \in 1..Len(order'[g]), NEW j \in 1..Len(order'[f]),
                      order'[g][i] = order'[f][j]
               PROVE  g = f /\ i = j
    BY DEF Apart
  <1>1. /\ order'[h] = Append(order[h], x)
        /\ \A e \in Heads \ {h} : order'[e] = order[e]
        /\ \A e \in Heads : \A k \in 1..Len(order[e]) : order[e][k] # x
        /\ \A e \in Heads : order[e] \in Seq(ListNodes)
    BY AddKeepsTypes DEF ListInv, ListTypes
  <1>2. ASSUME NEW e \in Heads, NEW k \in 1..Len(order'[e])
        PROVE  \/ k \in 1..Len(order[e]) /\ order'[e][k] = order[e][k]
               \/ e = h /\ k = Len(order[h]) + 1 /\ order'[e][k] = x
    <2>1. CASE e = h
      <3>1. Len(Append(order[h], x)) = Len(order[h]) + 1 /\ Len(order[h]) \in Nat
        BY <1>1
      <3>2. CASE k = Len(order[h]) + 1
        BY <1>1, <2>1, <3>2
      <3>3. CASE k \in 1..Len(order[h])
        <4>1. order[h] \in Seq(ListNodes)
          BY <1>1
        <4>2. Append(order[h], x)[k] = order[h][k]
          BY <3>3, <4>1
        <4> QED
          BY <1>1, <2>1, <3>3, <4>2
      <3> QED
        BY <1>1, <2>1, <3>1, <3>2, <3>3
    <2>2. CASE e # h
      BY <1>1, <2>2
    <2> QED
      BY <2>1, <2>2
  <1>3. /\ \/ i \in 1..Len(order[g]) /\ order'[g][i] = order[g][i]
           \/ g = h /\ i = Len(order[h]) + 1 /\ order'[g][i] = x
        /\ \/ j \in 1..Len(order[f]) /\ order'[f][j] = order[f][j]
           \/ f = h /\ j = Len(order[h]) + 1 /\ order'[f][j] = x
    BY <1>2
  <1> QED
    BY <1>1, <1>3 DEF ListInv, Apart

LEMMA AddKeepsRings ==
    ASSUME ListInv, NEW h \in Heads, NEW x \in ListNodes, ListAdd(h, x)
    PROVE  Rings'
  <1> DEFINE n == Len(order[h])
             last == At(h, order[h], n)
  <1>0. n \in Nat /\ n \in 0..n /\ n \in 0..n+1 /\ order[h] \in Seq(ListNodes)
    BY DEF ListInv, ListTypes
  <1>1. prev[h] = last /\ last \in Links /\ x \in Links /\ h \in Links /\ last # x /\ x # h
    <2>1. At(h, order[h], n+1) = h
      BY <1>0 DEF At
    <2>2. x # h /\ h \in Links /\ x \in Links
      BY ListAssumption DEF Links
    <2>3. last # x
      BY <2>2, AddKeepsTypes DEF At
    <2> QED
      BY <1>0, <2>1, <2>2, <2>3, PlacesLink DEF ListInv, Rings, Closed
  <1>2. /\ next' = [next EXCEPT ![x] = h, ![last] = x]
        /\ prev' = [prev EXCEPT ![x] = last, ![h] = x]
    BY <1>1 DEF ListAdd
  <1>3. /\ next'[x] = h /\ next'[last] = x /\ \A y \in Links \ {x, last} : next'[y] = next[y]
        /\ prev'[x] = last /\ prev'[h] = x /\ \A y \in Links \ {x, h} : prev'[y] = prev[y]
    BY <1>1, <1>2 DEF ListInv, ListTypes
  <1>4. ASSUME NEW g \in Heads, NEW k \in 0..Len(order[g])+1 PROVE At(g, order[g], k) # x
    BY <1>1, AddKeepsTypes, ListAssumption DEF At
  <1>5. ASSUME NEW g \in Heads \ {h} PROVE Closed(next', prev', g, order'[g])
    <2>1. order'[g] = order[g] /\ Len(order[g]) \in Nat
      BY AddKeepsTypes DEF ListInv, ListTypes
    <2>2. ASSUME NEW k \in 0..Len(order[g])
          PROVE  /\ next'[At(g, order[g], k)] = At(g, order[g], k+1)
                 /\ prev'[At(g, order[g], k+1)] = At(g, order[g], k)
      <3>1. k \in 0..Len(order[g])+1 /\ k+1 \in 0..Len(order[g])+1
        BY <2>1
      <3>2. At(g, order[g], k) # last
        BY <1>0, <3>1, PlacesDiffer
      <3>3. At(g, order[g], k+1) # h
        <4>1. At(h, order[h], 0) = h /\ 0 \in 0..n+1
          BY <1>0 DEF At
        <4> QED
          BY <3>1, <4>1, PlacesDiffer
      <3>4. At(g, order[g], k) \in Links /\ At(g, order[g], k+1) \in Links
        BY <3>1, PlacesLink
      <3>5. At(g, order[g], k) # x /\ At(g, order[g], k+1) # x
        BY <1>4, <3>1
      <3> HIDE DEF last
      <3> QED
        BY <1>3, <3>2, <3>3, <3>4, <3>5 DEF ListInv, Rings, Closed
    <2> QED
      BY <2>1, <2>2 DEF Closed
  <1>6. Closed(next', prev', h, order'[h])
    <2> DEFINE t == Append(order[h], x)
    <2>1. /\ order'[h] = t /\ Len(t) = n + 1
          /\ \A k \in 0..n : At(h, t, k) = At(h, order[h], k)
          /\ At(h, t, n+1) = x /\ At(h, t, n+2) = h
      <3>1. order'[h] = t
        BY AddKeepsTypes
      <3> HIDE DEF n
      <3> QED
        BY <3>1, RingAppended DEF ListInv, ListTypes, n
    <2> HIDE DEF t
    <2>2. ASSUME NEW k \in 0..n+1
          PROVE  next'[At(h, t, k)] = At(h, t, k+1) /\ prev'[At(h, t, k+1)] = At(h, t, k)
      <3>1. CASE k = n+1
        BY <1>0, <1>3, <2>1, <3>1
      <3>2. CASE k = n
        BY <1>0, <1>3, <2>1, <3>2
      <3>3. CASE k < n
        <4>1. /\ k \in 0..n /\ k+1 \in 0..n /\ k \in 0..n+1 /\ k+1 \in 1..n
          BY <1>0, <3>3
        <4>2. At(h, order[h], k) # last
          BY <1>0, <3>3, <4>1, PlacesDiffer
        <4>3. At(h, order[h], k+1) # h
          BY <1>0, <4>1, ListAssumption DEF At
        <4>4. /\ At(h, order[h], k) \in Links \ {x, last}
              /\ At(h, order[h], k+1) \in Links \ {x, h}
          BY <1>4, <4>1, <4>2, <4>3, PlacesLink
        <4>5. /\ At(h, t, k) = At(h, order[h], k) /\ At(h, t, k+1) = At(h, order[h], k+1)
          BY <2>1, <4>1
        <4>6. /\ next[At(h, order[h], k)] = At(h, order[h], k+1)
              /\ prev[At(h, order[h], k+1)] = At(h, order[h], k)
          BY <4>1 DEF ListInv, Rings, Closed
        <4> HIDE DEF last, n
        <4> QED
          BY <1>3, <4>4, <4>5, <4>6
      <3> QED
        BY <1>0, <3>1, <3>2, <3>3
    <2> QED
      BY <2>1, <2>2 DEF Closed
  <1> QED
    BY <1>5, <1>6 DEF Rings

(* A loop that has not reached the end goes on when nodes are appended, or *)
(* when one it is not waiting for is taken out.                            *)
LEMMA GoesOnAppended ==
    ASSUME NEW s \in Seq(ListNodes), NEW x \in ListNodes, NEW h, NEW back, NEW to, NEW left,
           GoesOn(h, back, s, to, left)
    PROVE  GoesOn(h, back, Append(s, x), to, left)
  <1> DEFINE t == Append(s, x)
  <1>1. /\ Len(t) = Len(s) + 1 /\ Len(s) \in Nat
        /\ \A k \in 0..Len(s) : At(h, t, k) = At(h, s, k)
        /\ At(h, t, Len(s)+2) = h
    BY RingAppended
  <1>2. \A i \in 1..Len(s) : t[i] = s[i]
    OBVIOUS
  <1>3. PICK k \in 0..Len(s)+1 : /\ IF back THEN k <= Len(s) ELSE k >= 1
                                 /\ to = At(h, s, k)
                                 /\ left \subseteq {s[i] : i \in From(k, back, Len(s))}
    BY DEF GoesOn
  <1> HIDE DEF t
  <1>4. CASE k <= Len(s)
    <2>1. to = At(h, t, k) /\ k \in 0..Len(t)+1
          /\ IF back THEN k <= Len(t) ELSE k >= 1
      BY <1>1, <1>3, <1>4
    <2>2. left \subseteq {t[i] : i \in From(k, back, Len(t))}
      <3>1. \A i \in From(k, back, Len(s)) :
                i \in From(k, back, Len(t)) /\ t[i] = s[i]
        BY <1>1, <1>2 DEF From
      <3> QED
        BY <1>3, <3>1
    <2> QED
      BY <2>1, <2>2 DEF GoesOn, t
  <1>5. CASE k = Len(s)+1
    <2>1. to = At(h, t, Len(s)+2) /\ Len(s)+2 \in 0..Len(t)+1 /\ ~back
          /\ Len(s)+2 >= 1
      BY <1>1, <1>3, <1>5 DEF At
    <2>2. left = {}
      BY <1>1, <1>3, <1>5, <2>1 DEF From
    <2> QED
      BY <2>1, <2>2 DEF GoesOn, t
  <1> QED
    BY <1>1, <1>4, <1>5

LEMMA GoesOnWithout ==
    ASSUME NEW s \in Seq(ListNodes), NEW i \in 1..Len(s), NEW h, NEW back, NEW to, NEW left,
           GoesOn(h, back, s, to, left), s[i] \notin left, s[i] # to
    PROVE  GoesOn(h, back, RemoveAt(s, i), to, left)
  <1> DEFINE t == RemoveAt(s, i)
  <1>1. /\ Len(t) = Len(s) - 1 /\ Len(s) \in Nat
        /\ \A k \in 0..Len(s) :
               At(h, t, k) = At(h, s, IF k < i THEN k ELSE k+1)
    BY RingWithout
  <1>2. PICK k \in 0..Len(s)+1 : /\ IF back THEN k <= Len(s) ELSE k >= 1
                                 /\ to = At(h, s, k)
                                 /\ left \subseteq {s[j] : j \in From(k, back, Len(s))}
    BY DEF GoesOn
  <1> HIDE DEF t
  <1>3. k # i
    BY <1>2 DEF At
  <1> DEFINE Down(j) == IF j < i THEN j ELSE j-1
  <1>4. /\ Down(k) \in 0..Len(t)+1
        /\ IF back THEN Down(k) <= Len(t) ELSE Down(k) >= 1
    BY <1>1, <1>2, <1>3
  <1>5. At(h, t, Down(k)) = to
    <2>1. Down(k) \in 0..Len(s) /\ (IF Down(k) < i THEN Down(k) ELSE Down(k)+1) = k
      BY <1>1, <1>3
    <2> HIDE DEF Down
    <2> QED
      BY <1>1, <1>2, <2>1
  <1>6. left \subseteq {t[j] : j \in From(Down(k), back, Len(t))}
    <2>1. ASSUME NEW j \in From(k, back, Len(s)), j # i
          PROVE  Down(j) \in From(Down(k), back, Len(t)) /\ t[Down(j)] = s[j]
      <3>1. j \in 1..Len(s) /\ (IF back THEN j <= k ELSE j >= k)
        BY DEF From
      <3>2. Down(j) \in 1..Len(t) /\ (IF back THEN Down(j) <= Down(k) ELSE Down(j) >= Down(k))
        BY <1>1, <1>3, <2>1, <3>1
      <3>3. Down(j) \in 0..Len(s) /\ (IF Down(j) < i THEN Down(j) ELSE Down(j)+1) = j
        BY <1>1, <2>1, <3>1
      <3> HIDE DEF Down
      <3>4. At(h, t, Down(j)) = At(h, s, j)
        BY <1>1, <3>3
      <3> QED
        BY <3>1, <3>2, <3>4 DEF From, At
    <2> HIDE DEF Down
    <2> QED
      BY <1>2, <2>1
  <1> HIDE DEF Down
  <1> QED
    BY <1>4, <1>5, <1>6 DEF GoesOn, t

(* NextNode after a step of the body                                       *)
LEMMA NextNodeIs ==
    /\ NextNode = IF loop.safe THEN loop.n
                  ELSE IF loop.back THEN prev[loop.node] ELSE next[loop.node]
    /\ NextNode' = IF loop'.safe THEN loop'.n
                   ELSE IF loop'.back THEN prev'[loop'.node] ELSE next'[loop'.node]
  BY DEF NextNode, Beyond

LEMMA AddKeepsLoop ==
    ASSUME ListInv, NEW h \in Heads, NEW x \in ListNodes, ListAdd(h, x)
    PROVE  Looping'
  <1>1. loop' = loop /\ todo' = todo /\ (loop # NoLoop /\ x = loop.node => loop.safe)
    BY DEF ListAdd
  <1>2. CASE loop = NoLoop
    BY <1>1, <1>2 DEF ListInv, Looping
  <1>3. CASE loop # NoLoop
    <2> DEFINE s == order[loop.head]
               t == order'[loop.head]
               n == Len(order[h])
    <2>1. /\ loop.head \in Heads /\ loop.node \in ListNodes
          /\ loop.safe \in BOOLEAN /\ loop.back \in BOOLEAN
      BY <1>3, LoopIsLoop DEF Loops
    <2>2. /\ GoesOn(loop.head, loop.back, s, NextNode, todo) /\ loop.node \notin todo \cup {NextNode}
          /\ ~loop.safe => \A g \in Heads : \A i \in 1..Len(order[g]) :
                               order[g][i] = loop.node => g = loop.head
      BY <1>3 DEF ListInv, Looping
    <2>3. /\ order'[h] = Append(order[h], x) /\ \A g \in Heads \ {h} : order'[g] = order[g]
          /\ s \in Seq(ListNodes) /\ order[h] \in Seq(ListNodes)
      BY <2>1, AddKeepsTypes DEF ListInv, ListTypes
    <2>4. GoesOn(loop.head, loop.back, t, NextNode, todo)
      <3>1. CASE loop.head = h
        BY <2>2, <2>3, <3>1, GoesOnAppended
      <3>2. CASE loop.head # h
        BY <2>1, <2>2, <2>3, <3>2
      <3> QED
        BY <3>1, <3>2
    <2>5. ~loop.safe => \A g \in Heads : \A i \in 1..Len(order'[g]) :
                            order'[g][i] = loop.node => g = loop.head
      <3> SUFFICES ASSUME ~loop.safe, NEW g \in Heads, NEW i \in 1..Len(order'[g]),
                          order'[g][i] = loop.node
                   PROVE  g = loop.head
        OBVIOUS
      <3>1. x # loop.node
        BY <1>1, <1>3
      <3>2. CASE g = h
        <4>1. Len(Append(order[h], x)) = n + 1 /\ n \in Nat
          BY <2>3
        <4>2. Append(order[h], x)[n+1] = x
          BY <2>3
        <4>3. i \in 1..n
          BY <2>3, <3>1, <3>2, <4>1, <4>2
        <4>4. Append(order[h], x)[i] = order[h][i]
          BY <2>3, <4>3
        <4> QED
          BY <2>2, <2>3, <3>2, <4>3, <4>4
      <3>3. CASE g # h
        BY <2>2, <2>3, <3>3
      <3> QED
        BY <3>2, <3>3
    <2>6. CASE NextNode' = NextNode
      BY <1>1, <1>3, <2>2, <2>4, <2>5, <2>6 DEF Looping
    <2>7. CASE NextNode' # NextNode
      <3> DEFINE last == At(h, order[h], n)
      <3>1. ~loop.safe
        BY <1>1, <2>7, NextNodeIs
      <3>2. prev[h] = last /\ next[last] = h /\ last \in Links /\ n \in Nat
        <4>1. At(h, order[h], n+1) = h /\ n \in 0..n /\ n \in 0..n+1 /\ n \in Nat
          BY <2>3 DEF At
        <4> QED
          BY <4>1, PlacesLink DEF ListInv, Rings, Closed
      <3>3. x # loop.node /\ loop.node \in Links /\ loop.node # h /\ x \in Links /\ h \in Links
        BY <1>1, <1>3, <2>1, <3>1, ListAssumption DEF Links
      <3>4. /\ next' = [next EXCEPT ![x] = h, ![last] = x]
            /\ prev' = [prev EXCEPT ![x] = last, ![h] = x]
        BY <3>2 DEF ListAdd
      <3>5. /\ prev'[loop.node] = prev[loop.node]
            /\ loop.node # last => next'[loop.node] = next[loop.node]
            /\ loop.node = last => next'[loop.node] = x
        BY <3>3, <3>4 DEF ListInv, ListTypes
      <3>6. ~loop.back /\ loop.node = last /\ NextNode = h /\ NextNode' = x
        <4>1. ~loop.back /\ loop.node = last
          BY <1>1, <2>7, <3>1, <3>5, NextNodeIs
        <4> QED
          BY <1>1, <3>1, <3>2, <3>5, <4>1, NextNodeIs
      <3>7. loop.head = h
        <4>1. last # h => n \in 1..n /\ last = order[h][n]
          BY <3>2 DEF At
        <4> QED
          BY <2>2, <3>1, <3>3, <3>6, <4>1
      <3>8. todo = {}
        <4>1. PICK k \in 0..n+1 : /\ k >= 1 /\ h = At(h, order[h], k)
                                  /\ todo \subseteq {s[i] : i \in From(k, loop.back, n)}
          BY <2>2, <3>6, <3>7 DEF GoesOn
        <4>2. k = n + 1
          BY <2>3, <3>2, <4>1, ListAssumption DEF At
        <4> QED
          BY <3>2, <3>6, <4>1, <4>2 DEF From
      <3>9. GoesOn(loop.head, loop.back, t, x, {})
        <4>1. t = Append(order[h], x)
          BY <2>3, <3>7
        <4>2. Len(t) = n+1 /\ At(h, t, n+1) = x
          BY <2>3, <4>1, RingAppended
        <4>3. n+1 \in 0..Len(t)+1 /\ n+1 >= 1
          BY <3>2, <4>2
        <4> HIDE DEF t
        <4> QED
          BY <3>6, <3>7, <4>2, <4>3 DEF GoesOn
      <3> QED
        BY <1>1, <1>3, <2>5, <3>3, <3>6, <3>8, <3>9 DEF Looping
    <2> QED
      BY <2>6, <2>7
  <1> QED
    BY <1>2, <1>3

-----------------------------------------------------------------------------
(* What jk_list_del does to the rings, to the list of the node and to the  *)
(* pointers of the node, which it leaves alone                             *)
Takes(h, i, x) ==
    /\ order[h][i] = x
    /\ loop # NoLoop => x = loop.node
    /\ next' = [next EXCEPT ![prev[x]] = next[x]]
    /\ prev' = [prev EXCEPT ![next[x]] = prev[x]]
    /\ order' = [order EXCEPT ![h] = RemoveAt(@, i)]
    /\ UNCHANGED <<loop, todo, appends>>

LEMMA DelKeepsTypes ==
    ASSUME ListInv, NEW h \in Heads, NEW i \in 1..Len(order[h]), NEW x \in ListNodes,
           Takes(h, i, x)
    PROVE  /\ prev[x] = At(h, order[h], i-1) /\ next[x] = At(h, order[h], i+1)
           /\ next' \in [Links -> Links \cup {Nowhere}]
           /\ prev' \in [Links -> Links \cup {Nowhere}]
           /\ order' \in [Heads -> Seq(ListNodes)]
           /\ order'[h] = RemoveAt(order[h], i)
           /\ \A g \in Heads \ {h} : order'[g] = order[g]
           /\ next'[prev[x]] = next[x] /\ \A y \in Links \ {prev[x]} : next'[y] = next[y]
           /\ prev'[next[x]] = prev[x] /\ \A y \in Links \ {next[x]} : prev'[y] = prev[y]
           /\ next'[x] = next[x] /\ prev'[x] = prev[x]
  <1>1. /\ order[h] \in Seq(ListNodes) /\ Len(order[h]) \in Nat
        /\ At(h, order[h], i) = x /\ order[h][i] = x
    BY DEF ListInv, ListTypes, Takes, At
  <1>2. /\ i \in 0..Len(order[h]) /\ i-1 \in 0..Len(order[h]) /\ (i-1)+1 = i
        /\ i-1 \in 0..Len(order[h])+1 /\ i \in 0..Len(order[h])+1 /\ i+1 \in 0..Len(order[h])+1
    BY <1>1
  <1>3. prev[x] = At(h, order[h], i-1) /\ next[x] = At(h, order[h], i+1)
    BY <1>1, <1>2 DEF ListInv, Rings, Closed
  <1>4. prev[x] \in Links /\ next[x] \in Links /\ x \in Links
    BY <1>2, <1>3, PlacesLink DEF Links
  <1>5. prev[x] # x /\ next[x] # x
    BY <1>1, <1>2, <1>3, PlacesDiffer
  <1>6. RemoveAt(order[h], i) \in Seq(ListNodes)
    BY <1>1, RingWithout
  <1>7. order' = [order EXCEPT ![h] = RemoveAt(@, i)]
    BY DEF Takes
  <1>8. /\ order' \in [Heads -> Seq(ListNodes)] /\ order'[h] = RemoveAt(order[h], i)
        /\ \A g \in Heads \ {h} : order'[g] = order[g]
    BY <1>6, <1>7 DEF ListInv, ListTypes
  <1>9. /\ next' = [next EXCEPT ![prev[x]] = next[x]]
        /\ prev' = [prev EXCEPT ![next[x]] = prev[x]]
        /\ next \in [Links -> Links \cup {Nowhere}] /\ prev \in [Links -> Links \cup {Nowhere}]
    BY DEF Takes, ListInv, ListTypes
  <1> QED
    BY <1>3, <1>4, <1>5, <1>8, <1>9

(* What is in a list after a deletion was there before, in the same order. *)
LEMMA StillThere ==
    ASSUME NEW s \in Seq(ListNodes), NEW i \in 1..Len(s), NEW j \in 1..Len(RemoveAt(s, i))
    PROVE  /\ (IF j < i THEN j ELSE j+1) \in 1..Len(s)
           /\ RemoveAt(s, i)[j] = s[IF j < i THEN j ELSE j+1]
  <1> DEFINE t == RemoveAt(s, i)
  <1>1. PICK h : h = 0
    OBVIOUS
  <1>2. /\ Len(t) = Len(s) - 1 /\ Len(s) \in Nat
        /\ \A k \in 0..Len(s) : At(h, t, k) = At(h, s, IF k < i THEN k ELSE k+1)
    BY RingWithout
  <1>4. j \in 0..Len(s) /\ j \in 1..Len(t) /\ (IF j < i THEN j ELSE j+1) \in 1..Len(s)
    BY <1>2
  <1> HIDE DEF t
  <1>5. At(h, t, j) = t[j]
    BY <1>4 DEF At
  <1>6. At(h, s, IF j < i THEN j ELSE j+1) = s[IF j < i THEN j ELSE j+1]
    BY <1>4 DEF At
  <1> QED
    BY <1>2, <1>4, <1>5, <1>6 DEF t

LEMMA DelKeepsApart ==
    ASSUME ListInv, NEW h \in Heads, NEW i \in 1..Len(order[h]), NEW x \in ListNodes,
           Takes(h, i, x)
    PROVE  Apart'
  <1> SUFFICES ASSUME NEW g \in Heads, NEW f \in Heads,
                      NEW j \in 1..Len(order'[g]), NEW k \in 1..Len(order'[f]),
                      order'[g][j] = order'[f][k]
               PROVE  g = f /\ j = k
    BY DEF Apart
  <1> DEFINE Old(e, l) == IF e = h /\ l >= i THEN l+1 ELSE l
  <1>1. ASSUME NEW e \in Heads, NEW l \in 1..Len(order'[e])
        PROVE  Old(e, l) \in 1..Len(order[e]) /\ order'[e][l] = order[e][Old(e, l)]
    <2>1. CASE e = h
      <3>1. order[h] \in Seq(ListNodes) /\ order'[h] = RemoveAt(order[h], i)
        BY DelKeepsTypes DEF ListInv, ListTypes
      <3>2. Old(e, l) = IF l < i THEN l ELSE l+1
        BY <2>1
      <3> QED
        BY <2>1, <3>1, <3>2, StillThere
    <2>2. CASE e # h
      BY <2>2, DelKeepsTypes
    <2> QED
      BY <2>1, <2>2
  <1>2. /\ Old(g, j) \in 1..Len(order[g]) /\ order'[g][j] = order[g][Old(g, j)]
        /\ Old(f, k) \in 1..Len(order[f]) /\ order'[f][k] = order[f][Old(f, k)]
    BY <1>1
  <1>3. PICK p \in 1..Len(order[g]), q \in 1..Len(order[f]) : p = Old(g, j) /\ q = Old(f, k)
    BY <1>2
  <1>4. order[g][p] = order[f][q]
    BY <1>2, <1>3
  <1>5. g = f /\ p = q
    BY <1>4 DEF ListInv, Apart
  <1>6. Len(order'[g]) \in Nat /\ Len(order'[f]) \in Nat
    BY DelKeepsTypes
  <1> QED
    BY <1>3, <1>5, <1>6

LEMMA DelKeepsRings ==
    ASSUME ListInv, NEW h \in Heads, NEW i \in 1..Len(order[h]), NEW x \in ListNodes,
           Takes(h, i, x)
    PROVE  Rings'
  <1> DEFINE s == order[h]
             n == Len(order[h])
             a == At(h, order[h], i-1)
             b == At(h, order[h], i+1)
  <1>1. n \in Nat /\ s \in Seq(ListNodes) /\ i-1 \in 0..n+1 /\ i+1 \in 0..n+1 /\ i \in 1..n
    BY DEF ListInv, ListTypes
  <1>2. /\ order'[h] = RemoveAt(s, i) /\ \A g \in Heads \ {h} : order'[g] = order[g]
        /\ next'[a] = b /\ \A y \in Links \ {a} : next'[y] = next[y]
        /\ prev'[b] = a /\ \A y \in Links \ {b} : prev'[y] = prev[y]
    BY DelKeepsTypes
  <1>3. ASSUME NEW g \in Heads \ {h} PROVE Closed(next', prev', g, order'[g])
    <2>1. order'[g] = order[g] /\ Len(order[g]) \in Nat
      BY <1>2 DEF ListInv, ListTypes
    <2>2. ASSUME NEW k \in 0..Len(order[g])
          PROVE  /\ next'[At(g, order[g], k)] = At(g, order[g], k+1)
                 /\ prev'[At(g, order[g], k+1)] = At(g, order[g], k)
      <3>1. k \in 0..Len(order[g])+1 /\ k+1 \in 0..Len(order[g])+1
        BY <2>1
      <3>2. At(g, order[g], k) # a /\ At(g, order[g], k+1) # b
        BY <1>1, <3>1, PlacesDiffer
      <3>3. At(g, order[g], k) \in Links /\ At(g, order[g], k+1) \in Links
        BY <3>1, PlacesLink
      <3> HIDE DEF a, b
      <3> QED
        BY <1>2, <3>2, <3>3 DEF ListInv, Rings, Closed
    <2> QED
      BY <2>1, <2>2 DEF Closed
  <1>4. Closed(next', prev', h, order'[h])
    <2> DEFINE t == RemoveAt(s, i)
    <2>1. /\ order'[h] = t /\ Len(t) = n - 1
          /\ \A k \in 0..n : At(h, t, k) = At(h, s, IF k < i THEN k ELSE k+1)
      BY <1>1, <1>2, RingWithout
    <2> HIDE DEF t
    <2>2. ASSUME NEW k \in 0..n-1
          PROVE  next'[At(h, t, k)] = At(h, t, k+1) /\ prev'[At(h, t, k+1)] = At(h, t, k)
      <3>1. k \in 0..n /\ k+1 \in 0..n
        BY <1>1
      <3>2. CASE k = i-1
        <4>1. At(h, t, k) = a /\ At(h, t, k+1) = b
          BY <1>1, <2>1, <3>1, <3>2
        <4> QED
          BY <1>2, <4>1
      <3>3. ASSUME NEW l \in 0..n, l # i-1, l # i,
                   At(h, t, k) = At(h, s, l), At(h, t, k+1) = At(h, s, l+1)
            PROVE  next'[At(h, t, k)] = At(h, t, k+1) /\ prev'[At(h, t, k+1)] = At(h, t, k)
        <4>1. l \in 0..n+1 /\ l+1 \in 0..n+1 /\ l+1 # i+1 /\ l # n+1 /\ l+1 # 0
          BY <1>1, <3>3
        <4>2. i-1 # n+1 /\ i+1 # 0
          BY <1>1
        <4>3. At(h, s, l) # a
          BY <1>1, <3>3, <4>1, <4>2, PlacesDiffer
        <4>4. At(h, s, l+1) # b
          BY <1>1, <4>1, <4>2, PlacesDiffer
        <4>5. At(h, s, l) \in Links /\ At(h, s, l+1) \in Links
          BY <4>1, PlacesLink
        <4>6. next[At(h, s, l)] = At(h, s, l+1) /\ prev[At(h, s, l+1)] = At(h, s, l)
          BY DEF ListInv, Rings, Closed
        <4> HIDE DEF a, b, s
        <4> QED
          BY <1>2, <3>3, <4>3, <4>4, <4>5, <4>6
      <3>4. CASE k < i-1
        <4>1. At(h, t, k) = At(h, s, k) /\ At(h, t, k+1) = At(h, s, k+1)
          BY <1>1, <2>1, <3>1, <3>4
        <4>2. k # i-1 /\ k # i
          BY <1>1, <3>4
        <4> QED
          BY <3>1, <3>3, <4>1, <4>2
      <3>5. CASE k >= i
        <4>1. At(h, t, k) = At(h, s, k+1) /\ At(h, t, k+1) = At(h, s, (k+1)+1)
          BY <1>1, <2>1, <3>1, <3>5
        <4>2. k+1 # i-1 /\ k+1 # i
          BY <1>1, <3>5
        <4> QED
          BY <3>1, <3>3, <4>1, <4>2
      <3> QED
        BY <1>1, <3>2, <3>4, <3>5
    <2> QED
      BY <2>1, <2>2 DEF Closed
  <1> QED
    BY <1>3, <1>4 DEF Rings

LEMMA DelKeepsLoop ==
    ASSUME ListInv, NEW h \in Heads, NEW i \in 1..Len(order[h]), NEW x \in ListNodes,
           Takes(h, i, x)
    PROVE  Looping'
  <1>1. loop' = loop /\ todo' = todo /\ (loop # NoLoop => x = loop.node) /\ order[h][i] = x
    BY DEF Takes
  <1>2. CASE loop = NoLoop
    BY <1>1, <1>2 DEF ListInv, Looping
  <1>3. CASE loop # NoLoop
    <2> DEFINE s == order[loop.head]
               t == order'[loop.head]
    <2>1. loop.head \in Heads /\ x = loop.node
      BY <1>1, <1>3, LoopIsLoop DEF Loops
    <2>2. /\ GoesOn(loop.head, loop.back, s, NextNode, todo)
          /\ loop.node \notin todo \cup {NextNode}
          /\ ~loop.safe => \A g \in Heads : \A j \in 1..Len(order[g]) :
                               order[g][j] = loop.node => g = loop.head
      BY <1>3 DEF ListInv, Looping
    <2>3. NextNode' = NextNode
      BY <1>1, <2>1, DelKeepsTypes, NextNodeIs
    <2>4. /\ order'[h] = RemoveAt(order[h], i) /\ \A g \in Heads \ {h} : order'[g] = order[g]
          /\ order[h] \in Seq(ListNodes)
      BY DelKeepsTypes DEF ListInv, ListTypes
    <2>5. GoesOn(loop.head, loop.back, t, NextNode, todo)
      <3>1. CASE loop.head = h
        <4>1. order[h][i] \notin todo /\ order[h][i] # NextNode
          BY <1>1, <2>1, <2>2
        <4> QED
          BY <2>2, <2>4, <3>1, <4>1, GoesOnWithout
      <3>2. CASE loop.head # h
        BY <2>1, <2>2, <2>4, <3>2
      <3> QED
        BY <3>1, <3>2
    <2>6. ~loop.safe => \A g \in Heads : \A j \in 1..Len(order'[g]) :
                            order'[g][j] = loop.node => g = loop.head
      <3> SUFFICES ASSUME ~loop.safe, NEW g \in Heads, NEW j \in 1..Len(order'[g]),
                          order'[g][j] = loop.node
                   PROVE  g = loop.head
        OBVIOUS
      <3>1. CASE g = h
        BY <1>1, <2>1, <2>2, <3>1
      <3>2. CASE g # h
        BY <2>2, <2>4, <3>2
      <3> QED
        BY <3>1, <3>2
    <2> HIDE DEF s, t
    <2> QED
      BY <1>1, <1>3, <2>2, <2>3, <2>5, <2>6 DEF Looping, t
  <1> QED
    BY <1>2, <1>3

-----------------------------------------------------------------------------
(* The places on both sides of a place                                     *)
LEMMA Neighbours ==
    ASSUME ListInv, NEW h \in Heads, NEW k \in 0..Len(order[h])+1
    PROVE  /\ k <= Len(order[h]) => next[At(h, order[h], k)] = At(h, order[h], k+1)
           /\ k >= 1 => prev[At(h, order[h], k)] = At(h, order[h], k-1)
  <1>1. Len(order[h]) \in Nat
    BY DEF ListInv, ListTypes
  <1>2. k <= Len(order[h]) => k \in 0..Len(order[h])
    BY <1>1
  <1>3. k >= 1 => k-1 \in 0..Len(order[h]) /\ (k-1)+1 = k
    BY <1>1
  <1> QED
    BY <1>2, <1>3 DEF ListInv, Rings, Closed

(* A step to the k-th node of a list, before which nothing is left.        *)
LEMMA StepsTo ==
    ASSUME ListInv, NEW h \in Heads, NEW k \in 1..Len(order[h]),
           NEW safe \in BOOLEAN, NEW back \in BOOLEAN, NEW left,
           loop' = [head |-> h, node |-> order[h][k], safe |-> safe, back |-> back,
                    n |-> IF safe THEN Beyond(order[h][k], back) ELSE Nowhere],
           left \subseteq {order[h][i] : i \in From(k, back, Len(order[h]))},
           todo' = left \ {order[h][k]}, UNCHANGED <<next, prev, order>>
    PROVE  Looping' /\ loop' \in Loops /\ (loop'.safe => loop'.n \in Links)
  <1> DEFINE s == order[h]
             n == Len(order[h])
             x == order[h][k]
             m == IF back THEN k-1 ELSE k+1
  <1>1. /\ n \in Nat /\ s \in Seq(ListNodes) /\ x \in ListNodes /\ k \in 0..n+1 /\ m \in 0..n+1
        /\ IF back THEN m <= n ELSE m >= 1
        /\ At(h, s, k) = x
    BY DEF ListInv, ListTypes, At
  <1>2. Beyond(x, back) = At(h, s, m)
    <2>1. k <= n /\ k >= 1
      BY <1>1
    <2> QED
      BY <1>1, <2>1, Neighbours DEF Beyond
  <1>3. At(h, s, m) \in Links
    BY <1>1, PlacesLink
  <1>4. At(h, s, m) # x
    <2>1. m # k /\ k \notin {0, n+1}
      BY <1>1
    <2> QED
      BY <1>1, <2>1, PlacesDiffer
  <1>5. /\ loop'.head = h /\ loop'.node = x /\ loop'.safe = safe /\ loop'.back = back
        /\ loop'.n = IF safe THEN At(h, s, m) ELSE Nowhere
    BY <1>2
  <1>6. NextNode' = At(h, s, m)
    BY <1>2, <1>5, NextNodeIs DEF Beyond
  <1>7. loop' \in Loops /\ (loop'.safe => loop'.n \in Links) /\ loop' # NoLoop
    <2>1. loop'.n \in Links \cup {Nowhere}
      BY <1>3, <1>5
    <2>2. loop' = [head |-> h, node |-> x, n |-> loop'.n, safe |-> safe, back |-> back]
      BY <1>5
    <2>3. h # Nowhere
      BY ListAssumption
    <2> QED
      BY <1>1, <1>3, <1>5, <2>1, <2>2, <2>3 DEF Loops, NoLoop
  <1>8. GoesOn(h, back, s, At(h, s, m), left \ {x})
    <2>1. left \ {x} \subseteq {s[i] : i \in From(m, back, n)}
      <3>1. \A i \in From(k, back, n) : i # k => i \in From(m, back, n)
        BY <1>1 DEF From
      <3> QED
        BY <3>1
    <2> HIDE DEF m, s, x
    <2> QED
      BY <1>1, <2>1 DEF GoesOn, n, s
  <1>9. \A g \in Heads : \A i \in 1..Len(order[g]) : order[g][i] = x => g = h
    BY DEF ListInv, Apart
  <1>10. x \notin (left \ {x}) \cup {At(h, s, m)}
    BY <1>4
  <1> HIDE DEF m, x
  <1> QED
    BY <1>5, <1>6, <1>7, <1>8, <1>9, <1>10 DEF Looping, x

LEMMA BeginSteps ==
    ASSUME ListInv, NEW h \in Heads, NEW safe \in BOOLEAN, NEW back \in BOOLEAN,
           LoopBegin(h, safe, back)
    PROVE  Looping' /\ loop' \in Loops /\ (loop'.safe => loop'.n \in Links)
  <1> DEFINE s == order[h]
             n == Len(order[h])
             k == IF back THEN n ELSE 1
  <1>1. n \in Nat /\ s \in Seq(ListNodes) /\ 0 \in 0..n+1 /\ n+1 \in 0..n+1
    BY DEF ListInv, ListTypes
  <1>2. Beyond(h, back) = At(h, s, k)
    <2>1. At(h, s, 0) = h /\ At(h, s, n+1) = h /\ 0 <= n /\ n+1 >= 1 /\ 0+1 = 1 /\ (n+1)-1 = n
      BY <1>1 DEF At
    <2>2. next[h] = At(h, s, 1)
      BY <1>1, <2>1, Neighbours
    <2>3. prev[h] = At(h, s, n)
      BY <1>1, <2>1, Neighbours
    <2> QED
      BY <2>2, <2>3 DEF Beyond
  <1>3. At(h, s, k) # h
    BY <1>2 DEF LoopBegin
  <1>4. k \in 1..n /\ At(h, s, k) = s[k]
    BY <1>3 DEF At
  <1>5. /\ loop' = [head |-> h, node |-> s[k], safe |-> safe, back |-> back,
                    n |-> IF safe THEN Beyond(s[k], back) ELSE Nowhere]
        /\ todo' = ToSet(s) \ {s[k]} /\ UNCHANGED <<next, prev, order>>
    BY <1>2, <1>4 DEF LoopBegin
  <1>6. ToSet(s) \subseteq {s[i] : i \in From(k, back, n)}
    <2>1. ToSet(s) = {s[i] : i \in 1..n}
      BY <1>1 DEF ToSet
    <2>2. From(k, back, n) = 1..n
      BY <1>1 DEF From
    <2> QED
      BY <2>1, <2>2
  <1> HIDE DEF k
  <1> QED
    BY <1>4, <1>5, <1>6, StepsTo

LEMMA LoopSteps ==
    ASSUME ListInv, LoopStep
    PROVE  /\ Looping' /\ loop' \in Loops \cup {NoLoop}
           /\ (loop' # NoLoop => (loop'.safe => loop'.n \in Links))
  <1> DEFINE h == loop.head
             s == order[loop.head]
             n == Len(order[loop.head])
  <1>1. loop # NoLoop /\ UNCHANGED <<next, prev, order>> /\ todo' = todo \ {NextNode}
    BY DEF LoopStep
  <1>2. /\ h \in Heads /\ loop.safe \in BOOLEAN /\ loop.back \in BOOLEAN
        /\ loop = [head |-> h, node |-> loop.node, n |-> loop.n,
                   safe |-> loop.safe, back |-> loop.back]
    BY <1>1, LoopIsLoop DEF Loops
  <1>3. n \in Nat /\ s \in Seq(ListNodes)
    BY <1>2 DEF ListInv, ListTypes
  <1>4. PICK k \in 0..n+1 : /\ IF loop.back THEN k <= n ELSE k >= 1
                            /\ NextNode = At(h, s, k)
                            /\ todo \subseteq {s[i] : i \in From(k, loop.back, n)}
    BY <1>1 DEF ListInv, Looping, GoesOn
  <1>5. CASE NextNode = h
    <2>1. k \notin 1..n
      BY <1>2, <1>3, <1>4, <1>5, ListAssumption DEF At
    <2>2. todo = {}
      BY <1>3, <1>4, <2>1 DEF From
    <2>3. loop' = NoLoop /\ todo' = {}
      BY <1>1, <1>5, <2>2 DEF LoopStep
    <2> QED
      BY <2>3 DEF Looping
  <1>6. CASE NextNode # h
    <2>1. k \in 1..n /\ NextNode = s[k]
      BY <1>4, <1>6 DEF At
    <2>2. loop' = [loop EXCEPT !.node = s[k],
                               !.n = IF loop.safe THEN Beyond(s[k], loop.back) ELSE Nowhere]
      BY <1>6, <2>1 DEF LoopStep
    <2>3. loop' = [head |-> h, node |-> s[k], safe |-> loop.safe, back |-> loop.back,
                   n |-> IF loop.safe THEN Beyond(s[k], loop.back) ELSE Nowhere]
      BY <1>2, <2>2
    <2>4. Looping' /\ loop' \in Loops /\ (loop'.safe => loop'.n \in Links)
      BY <1>1, <1>2, <1>4, <2>1, <2>3, StepsTo
    <2> QED
      BY <2>4
  <1> QED
    BY <1>5, <1>6

LEMMA ListStep == ListInv /\ [ListNext]_listVars => ListInv'
  <1> SUFFICES ASSUME ListInv, [ListNext]_listVars PROVE ListInv'
    OBVIOUS
  <1>1. ASSUME NEW x \in ListNodes, NEW h \in Heads, ListAdd(h, x) PROVE ListInv'
    <2>1. loop' = loop
      BY <1>1 DEF ListAdd
    <2>2. ListTypes'
      BY <1>1, <2>1, AddKeepsTypes DEF ListInv, ListTypes
    <2> QED
      BY <1>1, <2>2, AddKeepsApart, AddKeepsRings, AddKeepsLoop DEF ListInv
  <1>2. ASSUME NEW x \in ListNodes, ListDel(x) PROVE ListInv'
    <2>0. PICK h \in Heads : \E i \in DOMAIN order[h] : Takes(h, i, x)
      BY <1>2 DEF ListDel, Takes
    <2>1. PICK i \in 1..Len(order[h]) : Takes(h, i, x)
      <3>1. DOMAIN order[h] = 1..Len(order[h])
        BY DEF ListInv, ListTypes
      <3> QED
        BY <2>0, <3>1
    <2>2. loop' = loop
      BY <2>1 DEF Takes
    <2>3. ListTypes'
      BY <2>1, <2>2, DelKeepsTypes DEF ListInv, ListTypes
    <2> QED
      BY <2>1, <2>3, DelKeepsApart, DelKeepsRings, DelKeepsLoop DEF ListInv
  <1>3. ASSUME UNCHANGED <<next, prev, order>>, Looping', loop' \in Loops \cup {NoLoop},
               loop' # NoLoop => (loop'.safe => loop'.n \in Links)
        PROVE  ListInv'
    BY <1>3 DEF ListInv, ListTypes, Apart, Rings
  <1>4. ASSUME NEW h \in Heads, NEW safe \in BOOLEAN, NEW back \in BOOLEAN,
               LoopBegin(h, safe, back)
        PROVE  ListInv'
    <2>1. UNCHANGED <<next, prev, order>>
      BY <1>4 DEF LoopBegin
    <2> QED
      BY <1>3, <1>4, <2>1, BeginSteps
  <1>5. CASE LoopStep
    <2>1. UNCHANGED <<next, prev, order>>
      BY <1>5 DEF LoopStep
    <2> QED
      BY <1>3, <1>5, <2>1, LoopSteps
  <1>6. CASE UNCHANGED listVars
    BY <1>6 DEF listVars, ListInv, ListTypes, Apart, Rings, Looping, NextNode, Beyond
  <1> QED
    BY <1>1, <1>2, <1>4, <1>5, <1>6 DEF ListNext

(***************************************************************************)
(* A loop visits every node that was in its list when it began and is      *)
(* never led out of the list, whatever its body takes out, moves and       *)
(* appends, and the rings of all lists stay closed: for any number of      *)
(* heads and nodes and loops in either direction, safe or not.             *)
(***************************************************************************)
THEOREM LoopsVisitAll == ListSpec => []LoopsComplete
  <1>1. ListInv => LoopsComplete
    <2> SUFFICES ASSUME ListInv PROVE LoopsComplete
      OBVIOUS
    <2>1. RingsClosed
      <3> SUFFICES ASSUME NEW h \in Heads,
                          NEW i \in 1..Len(<<h>> \o order[h] \o <<h>>)-1
                   PROVE  /\ next[(<<h>> \o order[h] \o <<h>>)[i]]
                                = (<<h>> \o order[h] \o <<h>>)[i+1]
                          /\ prev[(<<h>> \o order[h] \o <<h>>)[i+1]]
                                = (<<h>> \o order[h] \o <<h>>)[i]
        BY DEF RingsClosed
      <3> DEFINE s == order[h]
                 ring == <<h>> \o s \o <<h>>
      <3>1. s \in Seq(Links) /\ Len(s) \in Nat /\ h \in Links
        BY DEF ListInv, ListTypes, Links
      <3>0. i \in 1..Len(ring)-1
        OBVIOUS
      <3> HIDE DEF s
      <3>2. Len(ring) = Len(s) + 2
        BY <3>1
      <3>3. \A k \in 1..Len(s)+2 : ring[k] = At(h, s, k-1)
        BY <3>1 DEF At
      <3>4. i-1 \in 0..Len(s) /\ i \in 1..Len(s)+2 /\ i+1 \in 1..Len(s)+2 /\ (i-1)+1 = (i+1)-1
        BY <3>0, <3>1, <3>2
      <3> HIDE DEF ring
      <3>5. next[At(h, s, i-1)] = At(h, s, (i-1)+1) /\ prev[At(h, s, (i-1)+1)] = At(h, s, i-1)
        BY <3>4 DEF ListInv, Rings, Closed, s
      <3>6. next[ring[i]] = ring[i+1] /\ prev[ring[i+1]] = ring[i]
        BY <3>3, <3>4, <3>5
      <3> QED
        BY <3>6 DEF ring, s
    <2>2. loop = NoLoop => todo = {}
      BY DEF ListInv, Looping
    <2>3. ASSUME loop # NoLoop
          PROVE  /\ todo \subseteq ToSet(order[loop.head])
                 /\ NextNode \in {loop.head} \cup ToSet(order[loop.head])
      <3> DEFINE s == order[loop.head]
      <3>1. s \in Seq(ListNodes)
        BY <2>3, LoopIsLoop DEF Loops, ListInv, ListTypes
      <3>2. ToSet(s) = {s[i] : i \in 1..Len(s)}
        BY <3>1 DEF ToSet
      <3>3. GoesOn(loop.head, loop.back, s, NextNode, todo)
        BY <2>3 DEF ListInv, Looping
      <3> HIDE DEF s
      <3>4. /\ NextNode \in {loop.head} \cup {s[i] : i \in 1..Len(s)}
            /\ todo \subseteq {s[i] : i \in 1..Len(s)}
        BY <3>3 DEF GoesOn, At, From
      <3> QED
        BY <3>2, <3>4 DEF s
    <2> QED
      BY <2>1, <2>2, <2>3 DEF LoopsComplete, NextNode
  <1> QED
    BY <1>1, ListStart, ListStep, PTL DEF ListSpec

-----------------------------------------------------------------------------
(***************************************************************************)
(* Heaps.  An item that is put into the tree goes a way of places; every   *)
(* item it passes moves by one place, so that none is doubled or lost.     *)
(***************************************************************************)
(* What T becomes when x goes to d and the item at step[p] to each p of P. *)
Shifted(T, x, step, P, d) ==
    [p \in DOMAIN T |-> IF p = d THEN x ELSE IF p \in P THEN T[step[p]] ELSE T[p]]

(* The items at the places 0 to n-1 but for the place a.                   *)
Held(T, n, a) == {T[p] : p \in (0..n-1) \ {a}}

(* They are items, none stands twice, and x is another one.                *)
Differ(T, n, a, x) ==
    /\ n \in Nat /\ 0..n-1 \subseteq DOMAIN T /\ a \in 0..n-1 /\ x \in HeapItems
    /\ \A p \in (0..n-1) \ {a} : T[p] \in HeapItems /\ T[p] # x
    /\ \A p, q \in (0..n-1) \ {a} : T[p] = T[q] => p = q

(* The first n places hold items of the heap, none of them twice.          *)
Once(T, n) == /\ \A p \in 0..n-1 : T[p] \in HeapItems
              /\ \A p, q \in 0..n-1 : T[p] = T[q] => p = q

Keeps(U, T, n, a, x) == Once(U, n) /\ Held(U, n, n) = Held(T, n, a) \cup {x}

(* No exchange doubles or loses an item.                                   *)
LEMMA ShiftKeeps ==
    ASSUME NEW T, NEW n, NEW a, NEW x, NEW S, NEW step, NEW rank, NEW P, NEW d,
           Differ(T, n, a, x), Path(S, step, rank, a, P, d), S = 0..n-1
    PROVE  Keeps(Shifted(T, x, step, P, d), T, n, a, x)
  <1> DEFINE U == Shifted(T, x, step, P, d)
             Rest == (0..n-1) \ {a}
             src(p) == IF p \in P THEN step[p] ELSE p
  <1>1. /\ n \in Nat /\ P \subseteq 0..n-1 /\ d \in 0..n-1 /\ d \notin P
        /\ a \in P \cup {d} /\ x \in HeapItems
    BY DEF Differ, Path
  <1>2. U[d] = x
    BY <1>1 DEF Shifted, Differ
  <1>3. ASSUME NEW p \in 0..n-1, p # d
        PROVE  src(p) \in Rest /\ U[p] = T[src(p)]
    <2>1. CASE p \in P
      <3>1. step[p] \in Rest
        BY <1>1, <2>1 DEF Path
      <3> QED
        BY <1>3, <2>1, <3>1 DEF Shifted, Differ
    <2>2. CASE p \notin P
      BY <1>1, <1>3, <2>2 DEF Shifted, Differ
    <2> QED
      BY <2>1, <2>2
  <1>4. ASSUME NEW p \in 0..n-1, NEW q \in 0..n-1, p # d, q # d, src(p) = src(q)
        PROVE  p = q
    BY <1>4 DEF Path
  <1>5. ASSUME NEW e \in Rest PROVE \E p \in 0..n-1 : p # d /\ src(p) = e
    <2>1. CASE e \in P \cup {d}
      <3>1. PICK q \in P : e = step[q]
        BY <2>1 DEF Path
      <3> QED
        BY <1>1, <3>1
    <2>2. CASE e \notin P \cup {d}
      BY <2>2
    <2> QED
      BY <2>1, <2>2
  <1> HIDE DEF U, src
  <1>6. \A p \in 0..n-1 : U[p] \in HeapItems
    BY <1>1, <1>2, <1>3 DEF Differ
  <1>7. ASSUME NEW p \in 0..n-1, NEW q \in 0..n-1, U[p] = U[q] PROVE p = q
    <2>1. CASE p # d /\ q # d
      <3>1. T[src(p)] = T[src(q)] /\ src(p) \in Rest /\ src(q) \in Rest
        BY <1>3, <1>7, <2>1
      <3>2. src(p) = src(q)
        BY <3>1 DEF Differ
      <3> QED
        BY <1>4, <2>1, <3>2
    <2>2. CASE p = d \/ q = d
      BY <1>2, <1>3, <1>7, <2>2 DEF Differ
    <2> QED
      BY <2>1, <2>2
  <1>8. Held(U, n, n) = {U[p] : p \in 0..n-1}
    <2>1. (0..n-1) \ {n} = 0..n-1
      BY <1>1
    <2> QED
      BY <2>1 DEF Held
  <1>9. {U[p] : p \in 0..n-1} = Held(T, n, a) \cup {x}
    <2>1. ASSUME NEW p \in 0..n-1 PROVE U[p] \in Held(T, n, a) \cup {x}
      BY <1>2, <1>3 DEF Held
    <2>2. ASSUME NEW e \in Rest PROVE T[e] \in {U[p] : p \in 0..n-1}
      BY <1>3, <1>5
    <2>3. x \in {U[p] : p \in 0..n-1}
      BY <1>1, <1>2
    <2> QED
      BY <2>1, <2>2, <2>3 DEF Held
  <1> QED
    BY <1>6, <1>7, <1>8, <1>9 DEF Once, Keeps, U

-----------------------------------------------------------------------------
(* Places and their parents                                                *)
LEMMA ParentIs ==
    /\ \A p \in Nat : p > 0 => Parent(p) \in 0..p-1 /\ p \in {2*Parent(p)+1, 2*Parent(p)+2}
    /\ \A p, q \in Nat : q \in {2*p+1, 2*p+2} => q > 0 /\ p = Parent(q)
  <1>1. ASSUME NEW p \in Nat, p > 0
        PROVE  Parent(p) \in 0..p-1 /\ p \in {2*Parent(p)+1, 2*Parent(p)+2}
    BY <1>1 DEF Parent
  <1>2. ASSUME NEW p \in Nat, NEW q \in Nat, q \in {2*p+1, 2*p+2} PROVE q > 0 /\ p = Parent(q)
    BY <1>2 DEF Parent
  <1> QED
    BY <1>1, <1>2

(***************************************************************************)
(* The way of x in SiftUp begins at the last place and goes through the    *)
(* parents of lower priority.                                              *)
(***************************************************************************)
GoesUp(T, x, last, P, d, step, rank) ==
    /\ Path(0..last, step, rank, last, P, d)
    /\ step = [i \in 0..last |-> LowerParent(T, x, i)]
    /\ rank = [i \in 0..last |-> i]
    /\ SiftUp(T, x, last) = Shifted(T, x, step, P, d)

LEMMA WayUp ==
    ASSUME NEW T, NEW x, NEW last \in Nat
    PROVE  \E P, d, step, rank : GoesUp(T, x, last, P, d, step, rank)
  <1> DEFINE S == 0..last
             step == [i \in S |-> LowerParent(T, x, i)]
             rank == [i \in S |-> i]
             Eq(f) == f = [k \in 0..last |->
                              IF k = 0 THEN last ELSE LowerParent(T, x, f[k-1])]
             ipos == CHOOSE f : Eq(f)
  <1>1. /\ step \in [S -> S] /\ last \in S
        /\ \A s \in S : step[s] # s => step[s] < s
    <2>1. ASSUME NEW s \in S
          PROVE  LowerParent(T, x, s) \in S /\ (LowerParent(T, x, s) # s => LowerParent(T, x, s) < s)
      BY ParentIs DEF LowerParent
    <2> QED
      BY <2>1
  <1>2. PICK g : Iterates(S, last, step, last, g)
    <2>1. IsStep(S, last, step, last)
      BY <1>1 DEF IsStep
    <2> HIDE DEF step, S
    <2> QED
      BY <2>1, Iterated
  <1>3. Eq(g)
    <2>1. \A k \in 1..last : k-1 \in 0..last
      OBVIOUS
    <2>2. \A k \in 1..last : g[k] = LowerParent(T, x, g[k-1])
      BY <1>2, <2>1 DEF Iterates
    <2>3. \A k \in 0..last : g[k] = IF k = 0 THEN last ELSE LowerParent(T, x, g[k-1])
      BY <1>2, <2>2 DEF Iterates
    <2> QED
      BY <1>2, <2>3 DEF Iterates
  <1>4. Eq(ipos)
    <2> HIDE DEF Eq
    <2> QED
      BY <1>3
  <1>5. /\ DOMAIN ipos = 0..last /\ ipos[0] = last
        /\ \A k \in 1..last : ipos[k] = LowerParent(T, x, ipos[k-1])
    <2> HIDE DEF ipos
    <2> QED
      BY <1>4
  <1>6. \A k \in 0..last : ipos[k] \in S
    <2>1. \A k \in 1..last : ipos[k-1] \in S => ipos[k] = step[ipos[k-1]]
      <3> HIDE DEF ipos, S
      <3> QED
        BY <1>5
    <2>2. IsStep(S, last, step, last)
      BY <1>1 DEF IsStep
    <2>3. Repeats(S, last, step, last, ipos)
      <3> HIDE DEF ipos, S, step
      <3> QED
        BY <1>5, <2>1 DEF Repeats
    <2> HIDE DEF step, S, ipos
    <2> QED
      BY <2>2, <2>3, StaysInside
  <1>7. IsWay(S, step, rank, last, ipos)
    <2>1. \A k \in 1..last : k-1 \in 0..last
      OBVIOUS
    <2>2. ipos \in [0..last -> S]
      <3> HIDE DEF ipos, S, Eq
      <3>1. ipos = [k \in 0..last |-> ipos[k]]
        <4> USE DEF Eq
        <4> QED
          BY <1>4
      <3> QED
        BY <1>6, <3>1
    <2>3. \A k \in 1..last : ipos[k] = step[ipos[k-1]]
      <3> HIDE DEF ipos, S
      <3> QED
        BY <1>5, <1>6, <2>1
    <2>4. \A s \in S : step[s] # s => rank[step[s]] < rank[s]
      <3> HIDE DEF step
      <3> QED
        BY <1>1
    <2>5. rank \in [S -> Nat] /\ rank[last] <= last
      OBVIOUS
    <2> HIDE DEF step, ipos, rank, S
    <2> QED
      BY <1>1, <1>5, <2>2, <2>3, <2>4, <2>5 DEF IsWay
  <1>8. SiftUp(T, x, last) =
            [p \in DOMAIN T |-> IF p = ipos[last] THEN x
                                ELSE IF \E k \in Moves(last, ipos) : p = ipos[k-1]
                                     THEN T[Parent(p)]
                                ELSE T[p]]
    BY DEF SiftUp, Moves
  <1>9. Path(S, step, rank, last, WayLeft(last, ipos), ipos[last])
    <2>1. Path(S, step, rank, ipos[0], WayLeft(last, ipos), ipos[last])
      <3> HIDE DEF ipos, step, rank, S
      <3> QED
        BY <1>7, WayPath
    <2> HIDE DEF ipos, step, rank, S
    <2> QED
      BY <1>5, <2>1
  <1>10. SiftUp(T, x, last) = Shifted(T, x, step, WayLeft(last, ipos), ipos[last])
    <2>1. \A q \in WayLeft(last, ipos) : Parent(q) = step[q]
      <3> HIDE DEF ipos, rank
      <3>1. \A q \in WayLeft(last, ipos) : q \in S /\ step[q] # q
        <4> HIDE DEF step, S
        <4> QED
          BY <1>9 DEF Path
      <3> QED
        BY <3>1 DEF LowerParent
    <2>2. \A p \in DOMAIN T :
              (\E k \in Moves(last, ipos) : p = ipos[k-1]) <=> p \in WayLeft(last, ipos)
      <3> HIDE DEF ipos
      <3> QED
        BY DEF WayLeft
    <2> HIDE DEF ipos, step, rank, S
    <2> QED
      BY <1>8, <2>1, <2>2 DEF Shifted
  <1>11. GoesUp(T, x, last, WayLeft(last, ipos), ipos[last], step, rank)
    <2> HIDE DEF ipos
    <2> QED
      BY <1>9, <1>10 DEF GoesUp
  <1> HIDE DEF ipos, step, rank
  <1> QED
    BY <1>11

(* No item has a higher priority than its parent, whatever is at place a.  *)
Ordered(T, n, a) ==
    \A p, q \in (0..n-1) \ {a} : q \in {2*p+1, 2*p+2} => Prio[T[p]] >= Prio[T[q]]

LEMMA UpOrders ==
    ASSUME NEW T, NEW x, NEW last \in Nat, NEW P, NEW d, NEW step, NEW rank,
           GoesUp(T, x, last, P, d, step, rank),
           Differ(T, last+1, last, x), Ordered(T, last+1, last)
    PROVE  Ordered(Shifted(T, x, step, P, d), last+1, last+1)
  <1> DEFINE U == Shifted(T, x, step, P, d)
             S == 0..last
  <1>1. /\ 0..(last+1)-1 = S /\ S \subseteq DOMAIN T /\ last \in S
        /\ \A p \in S \ {last} : T[p] \in HeapItems
        /\ x \in HeapItems
    <2>1. (last+1)-1 = last
      OBVIOUS
    <2> QED
      BY <2>1 DEF Differ
  <1>2. Path(S, step, rank, last, P, d)
    BY DEF GoesUp
  <1>3. P \subseteq S /\ d \in S /\ d \notin P /\ last \in P \cup {d}
    BY <1>2 DEF Path
  <1>4. \A p \in S \ {last} : Prio[T[p]] \in Int
    BY <1>1, HeapAssumption
  <1>5. Prio[x] \in Int
    BY <1>1, HeapAssumption
  <1>6. \A i \in S : step[i] = LowerParent(T, x, i) /\ rank[i] = i
    BY DEF GoesUp
  <1>7. \A q \in S : q > 0 => Parent(q) \in S \ {last} /\ Parent(q) < q
    BY ParentIs
  <1>8. ASSUME NEW q \in P
        PROVE  /\ q > 0 /\ step[q] = Parent(q) /\ Prio[T[Parent(q)]] < Prio[x]
               /\ Parent(q) \in P \cup {d} /\ d < q
    <2>1. q \in S /\ step[q] # q /\ step[q] \in P \cup {d} /\ rank[d] < rank[q]
      BY <1>2, <1>3 DEF Path
    <2>2. q > 0 /\ Comp(T[Parent(q)], x) < 0 /\ step[q] = Parent(q)
      BY <1>6, <2>1 DEF LowerParent
    <2>3. Prio[T[Parent(q)]] \in Int
      BY <1>4, <1>7, <2>1, <2>2
    <2> QED
      BY <1>3, <1>5, <1>6, <2>1, <2>2, <2>3 DEF Comp
  <1>9. /\ U[d] = x
        /\ \A p \in P : U[p] = T[Parent(p)]
        /\ \A p \in S : p # d /\ p \notin P => U[p] = T[p]
    BY <1>1, <1>3, <1>8 DEF Shifted
  <1>10. \A q \in S \ {last} : q > 0 => Prio[T[Parent(q)]] >= Prio[T[q]]
    <2>1. ASSUME NEW q \in S \ {last}, q > 0 PROVE Prio[T[Parent(q)]] >= Prio[T[q]]
      <3>1. Parent(q) \in S \ {last} /\ q \in {2*Parent(q)+1, 2*Parent(q)+2}
        BY <1>7, <2>1, ParentIs
      <3> QED
        BY <1>1, <2>1, <3>1 DEF Ordered
    <2> QED
      BY <2>1
  <1> HIDE DEF U
  <1>11. ASSUME NEW q \in S, q > 0 PROVE Prio[U[Parent(q)]] >= Prio[U[q]]
    <2> DEFINE p == Parent(q)
    <2>1. p \in S \ {last} /\ p < q /\ (p > 0 => Parent(p) \in S \ {last})
      BY <1>7, <1>11
    <2> HIDE DEF p
    <2>2. CASE q \in P
      <3>1. U[q] = T[p] /\ p \in P \cup {d} /\ Prio[T[p]] < Prio[x]
        BY <1>8, <1>9, <2>2 DEF p
      <3>2. CASE p = d
        BY <1>4, <1>5, <1>9, <2>1, <3>1, <3>2 DEF p
      <3>3. CASE p \in P
        <4>1. p > 0 /\ U[p] = T[Parent(p)]
          BY <1>8, <1>9, <3>3
        <4>2. Prio[T[Parent(p)]] >= Prio[T[p]]
          BY <1>10, <2>1, <4>1
        <4> QED
          BY <3>1, <4>1, <4>2 DEF p
      <3> QED
        BY <3>1, <3>2, <3>3
    <2>3. CASE q = d
      <3>1. p \notin P
        <4>1. p \in P => d < p
          BY <1>8
        <4> QED
          BY <1>3, <2>1, <2>3, <4>1
      <3>2. p # d
        BY <1>3, <2>1, <2>3
      <3>3. U[q] = x /\ U[p] = T[p]
        BY <1>9, <2>1, <2>3, <3>1, <3>2
      <3>4. step[d] = d
        BY <1>2 DEF Path
      <3>5. ~(Comp(T[p], x) < 0)
        BY <1>6, <1>3, <1>11, <2>1, <2>3, <3>2, <3>4 DEF LowerParent, p
      <3> QED
        BY <1>4, <1>5, <2>1, <3>3, <3>5 DEF Comp, p
    <2>4. CASE q \notin P /\ q # d
      <3>1. q \in S \ {last} /\ U[q] = T[q]
        BY <1>3, <1>9, <1>11, <2>4
      <3>2. Prio[T[p]] >= Prio[T[q]] /\ Prio[T[p]] \in Int /\ Prio[T[q]] \in Int
        BY <1>4, <1>10, <1>11, <2>1, <3>1 DEF p
      <3>3. CASE p = d
        <4>1. PICK r \in P : p = step[r]
          BY <1>2, <2>1, <3>3 DEF Path
        <4>2. Prio[T[p]] < Prio[x] /\ U[p] = x
          BY <1>8, <1>9, <3>3, <4>1
        <4> QED
          BY <1>5, <3>1, <3>2, <4>2 DEF p
      <3>4. CASE p \in P
        <4>1. p > 0 /\ U[p] = T[Parent(p)]
          BY <1>8, <1>9, <3>4
        <4>2. Prio[T[Parent(p)]] >= Prio[T[p]] /\ Prio[T[Parent(p)]] \in Int
          BY <1>4, <1>10, <2>1, <4>1
        <4>3. Prio[T[Parent(p)]] >= Prio[T[q]]
          BY <3>2, <4>2
        <4> QED
          BY <3>1, <4>1, <4>3 DEF p
      <3>5. CASE p # d /\ p \notin P
        <4>1. U[p] = T[p]
          BY <1>9, <2>1, <3>5
        <4> QED
          BY <3>1, <3>2, <4>1 DEF p
      <3> QED
        BY <3>3, <3>4, <3>5
    <2> QED
      BY <2>2, <2>3, <2>4
  <1>12. \A p, q \in S : q \in {2*p+1, 2*p+2} => q > 0 /\ p = Parent(q)
    BY ParentIs
  <1>13. (0..(last+1)-1) \ {last+1} = S
    BY <1>1
  <1>14. Ordered(U, last+1, last+1)
    <2> HIDE DEF S
    <2> QED
      BY <1>11, <1>12, <1>13 DEF Ordered
  <1> QED
    BY <1>14 DEF U

(***************************************************************************)
(* The way of x in SiftDown begins at the root and goes through the        *)
(* children of highest priority.                                           *)
(***************************************************************************)
GoesDown(T, n, x, P, d, step, rank) ==
    /\ Path(0..n-1, step, rank, 0, P, d)
    /\ step = [i \in 0..n-1 |-> HighestChild(T, n, x, i)]
    /\ SiftDown(T, n, x) = Shifted(T, x, step, P, d)

LEMMA WayDown ==
    ASSUME NEW T, NEW x, NEW n \in Nat \ {0}
    PROVE  \E P, d, step, rank : GoesDown(T, n, x, P, d, step, rank)
  <1> DEFINE S == 0..n-1
             step == [i \in S |-> HighestChild(T, n, x, i)]
             rank == [i \in S |-> n - i]
             Eq(f) == f = [k \in 0..n |->
                              IF k = 0 THEN 0 ELSE HighestChild(T, n, x, f[k-1])]
             ipos == CHOOSE f : Eq(f)
  <1>1. /\ step \in [S -> S] /\ 0 \in S
        /\ \A s \in S : step[s] # s => step[s] > s
    <2>1. ASSUME NEW s \in S
          PROVE  /\ HighestChild(T, n, x, s) \in S
                 /\ HighestChild(T, n, x, s) # s => HighestChild(T, n, x, s) > s
      BY DEF HighestChild, LeftPlace, RightPlace
    <2> QED
      BY <2>1
  <1>2. PICK g : Iterates(S, 0, step, n, g)
    <2>1. IsStep(S, 0, step, n)
      BY <1>1 DEF IsStep
    <2> HIDE DEF step, S
    <2> QED
      BY <2>1, Iterated
  <1>3. Eq(g)
    <2>1. \A k \in 1..n : k-1 \in 0..n
      OBVIOUS
    <2>2. \A k \in 1..n : g[k] = HighestChild(T, n, x, g[k-1])
      BY <1>2, <2>1 DEF Iterates
    <2>3. \A k \in 0..n : g[k] = IF k = 0 THEN 0 ELSE HighestChild(T, n, x, g[k-1])
      BY <1>2, <2>2 DEF Iterates
    <2> QED
      BY <1>2, <2>3 DEF Iterates
  <1>4. Eq(ipos)
    <2> HIDE DEF Eq
    <2> QED
      BY <1>3
  <1>5. /\ DOMAIN ipos = 0..n /\ ipos[0] = 0
        /\ \A k \in 1..n : ipos[k] = HighestChild(T, n, x, ipos[k-1])
    <2> HIDE DEF ipos
    <2> QED
      BY <1>4
  <1>6. \A k \in 0..n : ipos[k] \in S
    <2>1. \A k \in 1..n : ipos[k-1] \in S => ipos[k] = step[ipos[k-1]]
      <3> HIDE DEF ipos, S
      <3> QED
        BY <1>5
    <2>2. IsStep(S, 0, step, n)
      BY <1>1 DEF IsStep
    <2>3. Repeats(S, 0, step, n, ipos)
      <3> HIDE DEF ipos, S, step
      <3> QED
        BY <1>5, <2>1 DEF Repeats
    <2> HIDE DEF step, S, ipos
    <2> QED
      BY <2>2, <2>3, StaysInside
  <1>7. \A k \in 1..n : ipos[k] = step[ipos[k-1]]
    <2>1. \A k \in 1..n : k-1 \in 0..n
      OBVIOUS
    <2> HIDE DEF ipos, S
    <2> QED
      BY <1>5, <1>6, <2>1
  <1>8. IsWay(S, step, rank, n, ipos)
    <2>1. ipos \in [0..n -> S]
      <3> HIDE DEF ipos, S, Eq
      <3>1. ipos = [k \in 0..n |-> ipos[k]]
        <4> USE DEF Eq
        <4> QED
          BY <1>4
      <3> QED
        BY <1>6, <3>1
    <2>2. \A s \in S : step[s] # s => rank[step[s]] < rank[s]
      <3>1. \A s \in S : step[s] \in S
        <4> HIDE DEF step, S
        <4> QED
          BY <1>1
      <3> HIDE DEF step
      <3> QED
        BY <1>1, <3>1
    <2>3. rank \in [S -> Nat] /\ rank[0] <= n
      OBVIOUS
    <2> HIDE DEF step, ipos, rank, S
    <2> QED
      BY <1>1, <1>5, <1>7, <2>1, <2>2, <2>3 DEF IsWay
  <1> DEFINE from(p) == CHOOSE k \in Moves(n, ipos) : p = ipos[k-1]
  <1>9. SiftDown(T, n, x) =
            [p \in DOMAIN T |->
                IF p = ipos[n] THEN x
                ELSE IF \E k \in Moves(n, ipos) : p = ipos[k-1]
                     THEN T[ipos[from(p)]]
                ELSE T[p]]
    BY DEF SiftDown, Moves
  <1>10. Path(S, step, rank, 0, WayLeft(n, ipos), ipos[n])
    <2>1. Path(S, step, rank, ipos[0], WayLeft(n, ipos), ipos[n])
      <3> HIDE DEF ipos, step, rank, S
      <3> QED
        BY <1>8, WayPath
    <2> HIDE DEF ipos, step, rank, S
    <2> QED
      BY <1>5, <2>1
  <1>11. SiftDown(T, n, x) = Shifted(T, x, step, WayLeft(n, ipos), ipos[n])
    <2> HIDE DEF ipos, step, rank, S
    <2>1. ASSUME NEW p, \E k \in Moves(n, ipos) : p = ipos[k-1]
          PROVE  ipos[from(p)] = step[p]
      <3>1. from(p) \in Moves(n, ipos) /\ p = ipos[from(p)-1]
        BY <2>1
      <3> HIDE DEF from
      <3> QED
        BY <1>7, <3>1 DEF Moves
    <2>2. \A p : (\E k \in Moves(n, ipos) : p = ipos[k-1]) <=> p \in WayLeft(n, ipos)
      BY DEF WayLeft
    <2> HIDE DEF from
    <2> QED
      BY <1>9, <2>1, <2>2 DEF Shifted
  <1>12. GoesDown(T, n, x, WayLeft(n, ipos), ipos[n], step, rank)
    <2> HIDE DEF ipos
    <2> QED
      BY <1>10, <1>11 DEF GoesDown
  <1> HIDE DEF ipos, step, rank
  <1> QED
    BY <1>12

LEMMA DownOrders ==
    ASSUME NEW T, NEW x, NEW n \in Nat \ {0}, NEW P, NEW d, NEW step, NEW rank,
           GoesDown(T, n, x, P, d, step, rank), Differ(T, n, 0, x), Ordered(T, n, 0)
    PROVE  Ordered(Shifted(T, x, step, P, d), n, n)
  <1> DEFINE U == Shifted(T, x, step, P, d)
             S == 0..n-1
             Child(p, q) == q \in S /\ q \in {2*p+1, 2*p+2}
  <1>1. /\ S \subseteq DOMAIN T /\ 0 \in S /\ x \in HeapItems
        /\ \A p \in S \ {0} : T[p] \in HeapItems
    BY DEF Differ
  <1>2. Path(S, step, rank, 0, P, d)
    BY DEF GoesDown
  <1>3. P \subseteq S /\ d \in S /\ d \notin P /\ 0 \in P \cup {d}
    BY <1>2 DEF Path
  <1>4. Prio[x] \in Int /\ \A p \in S \ {0} : Prio[T[p]] \in Int
    BY <1>1, HeapAssumption
  <1>5. \A i \in S : step[i] = HighestChild(T, n, x, i)
    BY DEF GoesDown
  <1>6. \A p, q \in S : Child(p, q) => q \in S \ {0} /\ q > p
    OBVIOUS
  <1>7. \A p, r, q \in S : Child(p, q) /\ Child(r, q) => p = r
    BY ParentIs
  <1>8. ASSUME NEW p \in S
        PROVE  /\ step[p] = p => \A q \in S : Child(p, q) => Prio[x] >= Prio[T[q]]
               /\ step[p] # p => /\ Child(p, step[p]) /\ Prio[T[step[p]]] > Prio[x]
                                 /\ \A q \in S : Child(p, q) => Prio[T[step[p]]] >= Prio[T[q]]
    <2> DEFINE l == 2*p+1
               r == 2*p+2
    <2>1. /\ l \in Int /\ r \in Int /\ l # p /\ r # p /\ l # r
          /\ (l < n => l \in S \ {0}) /\ (r < n => r \in S \ {0})
          /\ \A q \in S : Child(p, q) => (q = l /\ l < n) \/ (q = r /\ r < n)
          /\ (l < n => Child(p, l)) /\ (r < n => Child(p, r))
      OBVIOUS
    <2>2. step[p] = IF r < n /\ Prio[T[r]] - Prio[IF l < n /\ Prio[T[l]] - Prio[x] > 0
                                                  THEN T[l] ELSE x] > 0
                    THEN r
                    ELSE IF l < n /\ Prio[T[l]] - Prio[x] > 0 THEN l ELSE p
      <3>1. LeftPlace(p) = l /\ RightPlace(p) = r
        BY DEF LeftPlace, RightPlace
      <3> HIDE DEF l, r
      <3> QED
        BY <1>5, <3>1 DEF HighestChild, Comp
    <2>3. /\ (l < n => Prio[T[l]] \in Int) /\ (r < n => Prio[T[r]] \in Int)
      BY <1>4, <2>1
    <2> HIDE DEF l, r, Child, S
    <2>4. CASE l < n /\ Prio[T[l]] - Prio[x] > 0
      <3>1. step[p] = IF r < n /\ Prio[T[r]] - Prio[T[l]] > 0 THEN r ELSE l
        BY <2>2, <2>4
      <3>2. CASE r < n /\ Prio[T[r]] - Prio[T[l]] > 0
        BY <1>4, <2>1, <2>3, <2>4, <3>1, <3>2
      <3>3. CASE ~(r < n /\ Prio[T[r]] - Prio[T[l]] > 0)
        BY <1>4, <2>1, <2>3, <2>4, <3>1, <3>3
      <3> QED
        BY <3>2, <3>3
    <2>5. CASE ~(l < n /\ Prio[T[l]] - Prio[x] > 0)
      <3>1. step[p] = IF r < n /\ Prio[T[r]] - Prio[x] > 0 THEN r ELSE p
        BY <2>2, <2>5
      <3>2. CASE r < n /\ Prio[T[r]] - Prio[x] > 0
        BY <1>4, <2>1, <2>3, <2>5, <3>1, <3>2
      <3>3. CASE ~(r < n /\ Prio[T[r]] - Prio[x] > 0)
        BY <1>4, <2>1, <2>3, <2>5, <3>1, <3>3
      <3> QED
        BY <3>2, <3>3
    <2> QED
      BY <2>4, <2>5
  <1>9. /\ U[d] = x
        /\ \A p \in P : U[p] = T[step[p]]
        /\ \A p \in S : p # d /\ p \notin P => U[p] = T[p]
    BY <1>1, <1>3 DEF Shifted
  <1>10. \A p, q \in S : Child(p, q) /\ p # 0 => Prio[T[p]] >= Prio[T[q]]
    BY DEF Ordered
  <1>11. ASSUME NEW p \in S, NEW q \in S, Child(p, q), q \in P \cup {d}
         PROVE  p \in P /\ q = step[p]
    <2>1. q # 0
      BY <1>6, <1>11
    <2>2. PICK r \in P : q = step[r]
      BY <1>2, <1>11, <2>1 DEF Path
    <2>3. step[r] # r /\ r \in S
      BY <1>2, <2>2 DEF Path
    <2>4. Child(r, q)
      BY <1>8, <2>2, <2>3
    <2>5. p = r
      <3> HIDE DEF Child
      <3> QED
        BY <1>7, <1>11, <2>3, <2>4
    <2> QED
      BY <2>2, <2>5
  <1> HIDE DEF U, Child, S
  <1>12. ASSUME NEW p \in S, NEW q \in S, Child(p, q) PROVE Prio[U[p]] >= Prio[U[q]]
    <2>1. q \in S \ {0} /\ Prio[T[q]] \in Int
      BY <1>4, <1>6, <1>12
    <2>2. CASE p = d
      <3>1. q \notin P \cup {d} /\ step[d] = d
        BY <1>2, <1>3, <1>11, <1>12, <2>2 DEF Path
      <3>2. U[p] = x /\ U[q] = T[q]
        BY <1>9, <2>2, <3>1
      <3> QED
        BY <1>3, <1>8, <1>12, <2>2, <3>1, <3>2
    <2>3. CASE p \in P
      <3>1. step[p] # p /\ U[p] = T[step[p]]
        BY <1>2, <1>9, <2>3 DEF Path
      <3>2. /\ Child(p, step[p]) /\ step[p] \in P \cup {d} /\ step[p] \in S
            /\ Prio[T[step[p]]] > Prio[x] /\ Prio[T[step[p]]] >= Prio[T[q]]
        BY <1>2, <1>3, <1>8, <1>12, <2>3, <3>1 DEF Path
      <3>3. CASE q = step[p]
        <4>1. CASE q = d
          <5>1. Prio[T[step[p]]] \in Int
            BY <2>1, <3>3
          <5> QED
            BY <1>4, <1>9, <3>1, <3>2, <4>1, <5>1
        <4>2. CASE q \in P
          <5>1. /\ step[q] # q /\ U[q] = T[step[q]] /\ step[q] \in S
            BY <1>2, <1>3, <1>9, <4>2 DEF Path
          <5>2. Child(q, step[q])
            BY <1>8, <2>1, <5>1
          <5>3. Prio[T[q]] >= Prio[T[step[q]]]
            BY <1>10, <2>1, <5>1, <5>2
          <5> QED
            BY <3>1, <3>3, <5>1, <5>3
        <4> QED
          BY <3>2, <3>3, <4>1, <4>2
      <3>4. CASE q # step[p]
        <4>1. q \notin P \cup {d}
          BY <1>11, <1>12, <3>4
        <4>2. U[q] = T[q]
          BY <1>9, <4>1
        <4> QED
          BY <3>1, <3>2, <4>2
      <3> QED
        BY <3>3, <3>4
    <2>4. CASE p # d /\ p \notin P
      <3>1. q \notin P \cup {d}
        BY <1>11, <1>12, <2>4
      <3>2. U[p] = T[p] /\ U[q] = T[q] /\ p # 0
        BY <1>3, <1>9, <2>4, <3>1
      <3> QED
        BY <1>10, <1>12, <3>2
    <2> QED
      BY <2>2, <2>3, <2>4
  <1>13. (0..n-1) \ {n} = S
    BY DEF S
  <1>14. Ordered(U, n, n)
    BY <1>12, <1>13 DEF Ordered, Child
  <1> QED
    BY <1>14 DEF U

-----------------------------------------------------------------------------
(* What SiftUp and SiftDown do to the items.                               *)
LEMMA SiftingUp ==
    ASSUME NEW T, NEW x, NEW last \in Nat, Differ(T, last+1, last, x), Ordered(T, last+1, last)
    PROVE  LET U == SiftUp(T, x, last)
           IN  /\ Once(U, last+1) /\ Ordered(U, last+1, last+1)
               /\ Held(U, last+1, last+1) = Held(T, last+1, last) \cup {x}
               /\ \A B : T \in [DOMAIN T -> B] /\ x \in B => U \in [DOMAIN T -> B]
  <1>1. PICK P, d, step, rank : GoesUp(T, x, last, P, d, step, rank)
    BY WayUp
  <1> DEFINE U == Shifted(T, x, step, P, d)
  <1>2. SiftUp(T, x, last) = U
    BY <1>1 DEF GoesUp
  <1>3. Path(0..last, step, rank, last, P, d) /\ 0..last = 0..(last+1)-1
    BY <1>1 DEF GoesUp
  <1>4. Once(U, last+1) /\ Held(U, last+1, last+1) = Held(T, last+1, last) \cup {x}
    <2>1. Keeps(U, T, last+1, last, x)
      BY <1>3, ShiftKeeps
    <2> QED
      BY <2>1 DEF Keeps
  <1>5. Ordered(U, last+1, last+1)
    BY <1>1, UpOrders
  <1>6. ASSUME NEW B, T \in [DOMAIN T -> B], x \in B PROVE U \in [DOMAIN T -> B]
    <2>1. \A p \in P : step[p] \in DOMAIN T
      BY <1>3 DEF Path, Differ
    <2> QED
      BY <1>6, <2>1 DEF Shifted
  <1> HIDE DEF U
  <1> QED
    BY <1>2, <1>4, <1>5, <1>6

LEMMA SiftingDown ==
    ASSUME NEW T, NEW x, NEW n \in Nat \ {0}, Differ(T, n, 0, x), Ordered(T, n, 0)
    PROVE  LET U == SiftDown(T, n, x)
           IN  /\ Once(U, n) /\ Ordered(U, n, n)
               /\ Held(U, n, n) = Held(T, n, 0) \cup {x}
               /\ \A B : T \in [DOMAIN T -> B] /\ x \in B => U \in [DOMAIN T -> B]
  <1>1. PICK P, d, step, rank : GoesDown(T, n, x, P, d, step, rank)
    BY WayDown
  <1> DEFINE U == Shifted(T, x, step, P, d)
  <1>2. SiftDown(T, n, x) = U
    BY <1>1 DEF GoesDown
  <1>3. Path(0..n-1, step, rank, 0, P, d)
    BY <1>1 DEF GoesDown
  <1>4. Once(U, n) /\ Held(U, n, n) = Held(T, n, 0) \cup {x}
    <2>1. Keeps(U, T, n, 0, x)
      BY <1>3, ShiftKeeps
    <2> QED
      BY <2>1 DEF Keeps
  <1>5. Ordered(U, n, n)
    BY <1>1, DownOrders
  <1>6. ASSUME NEW B, T \in [DOMAIN T -> B], x \in B PROVE U \in [DOMAIN T -> B]
    <2>1. \A p \in P : step[p] \in DOMAIN T
      BY <1>3 DEF Path, Differ
    <2> QED
      BY <1>6, <2>1 DEF Shifted
  <1> HIDE DEF U
  <1> QED
    BY <1>2, <1>4, <1>5, <1>6

(* A tree of n items in an array of "size" places is the state of a heap.  *)
Shape(T, size, n) ==
    /\ size \in Nat /\ n \in 0..size /\ T \in [0..size-1 -> HeapItems \cup {Junk}]
    /\ Once(T, n) /\ Ordered(T, n, n)

LEMMA ShapeIs ==
    /\ HeapShape <=> Shape(heap.tree, heap.size, heap.used)
    /\ HeapFits => HeapMembers = Held(heap.tree, heap.used, heap.used)
  <1>1. HeapFits => (0..heap.used-1) \ {heap.used} = 0..heap.used-1
    BY DEF HeapFits
  <1>2. HeapFits => (Ordered(heap.tree, heap.used, heap.used) <=> HeapOrdered)
    BY <1>1 DEF Ordered, HeapOrdered
  <1>3. HoldsOnce <=> Once(heap.tree, heap.used)
    BY DEF HoldsOnce, Once, HeapMembers
  <1>4. HeapFits => HeapMembers = Held(heap.tree, heap.used, heap.used)
    BY <1>1 DEF HeapMembers, Held
  <1> QED
    BY <1>2, <1>3, <1>4 DEF HeapShape, Shape, HeapFits

LEMMA Insertion ==
    ASSUME HeapShape, NEW x \in HeapItems, HeapInsert(x)
    PROVE  /\ Shape(heap'.tree, heap'.size, heap'.used)
           /\ Held(heap'.tree, heap'.used, heap'.used) = HeapMembers \cup {x}
  <1> DEFINE n == heap.used
             size == IF heap.used >= heap.size THEN heap.size + HeapIncrSize ELSE heap.size
             T == Resized(heap.tree, n, size)
             U == SiftUp(T, x, n)
  <1>1. /\ heap.size \in Nat /\ n \in 0..heap.size
        /\ heap.tree \in [0..heap.size-1 -> HeapItems \cup {Junk}]
        /\ Once(heap.tree, n) /\ Ordered(heap.tree, n, n)
        /\ HeapMembers = Held(heap.tree, n, n)
    BY ShapeIs DEF HeapShape, Shape
  <1>2. x \notin HeapMembers
        /\ heap' = [tree |-> U, size |-> size, used |-> n + 1]
    BY DEF HeapInsert
  <1>3. n \in Nat /\ size \in Nat /\ n + 1 \in 0..size /\ n + 1 \in Nat
    BY <1>1, HeapAssumption
  <1>4. (n+1)-1 = n /\ (0..(n+1)-1) \ {n} = 0..n-1 /\ 0..(n+1)-1 \subseteq 0..size-1
        /\ (0..n-1) \ {n} = 0..n-1 /\ 0..n-1 \subseteq 0..heap.size-1
    BY <1>1, <1>3
  <1> HIDE DEF size
  <1>5. DOMAIN T = 0..size-1 /\ \A p \in 0..n-1 : T[p] = heap.tree[p]
    BY <1>3, <1>4 DEF Resized
  <1>6. T \in [DOMAIN T -> HeapItems \cup {Junk}]
    <2>1. \A p \in 0..size-1 : p < n => p \in 0..heap.size-1
      BY <1>1, <1>3
    <2> QED
      BY <1>1, <1>5, <2>1 DEF Resized
  <1> HIDE DEF T, n
  <1>7. Differ(T, n+1, n, x)
    <2>1. \A p \in 0..n-1 : heap.tree[p] # x
      BY <1>1, <1>2, <1>4 DEF Held
    <2>2. \A p, q \in 0..n-1 : T[p] = T[q] => p = q
      BY <1>1, <1>5 DEF Once
    <2>3. \A p \in 0..n-1 : T[p] \in HeapItems /\ T[p] # x
      BY <1>1, <1>5, <2>1 DEF Once
    <2>4. n \in 0..(n+1)-1
      BY <1>3
    <2> QED
      BY <1>3, <1>4, <1>5, <2>2, <2>3, <2>4 DEF Differ
  <1>8. Ordered(T, n+1, n)
    <2>1. \A p, q \in 0..n-1 : q \in {2*p+1, 2*p+2} => Prio[heap.tree[p]] >= Prio[heap.tree[q]]
      BY <1>1, <1>4 DEF Ordered
    <2>2. \A p, q \in 0..n-1 : q \in {2*p+1, 2*p+2} => Prio[T[p]] >= Prio[T[q]]
      BY <1>5, <2>1
    <2> QED
      BY <1>4, <2>2 DEF Ordered
  <1>9. Held(T, n+1, n) = Held(heap.tree, n, n)
    BY <1>4, <1>5 DEF Held
  <1>10. /\ Once(U, n+1) /\ Ordered(U, n+1, n+1)
         /\ Held(U, n+1, n+1) = Held(T, n+1, n) \cup {x}
         /\ U \in [DOMAIN T -> HeapItems \cup {Junk}]
    BY <1>3, <1>6, <1>7, <1>8, SiftingUp
  <1> HIDE DEF U
  <1>11. Shape(U, size, n+1)
    BY <1>3, <1>5, <1>10 DEF Shape
  <1> QED
    BY <1>1, <1>2, <1>9, <1>10, <1>11 DEF n

LEMMA Extraction ==
    ASSUME HeapShape, NEW x \in HeapItems, HeapExtract(x)
    PROVE  /\ Shape(heap'.tree, heap'.size, heap'.used)
           /\ Held(heap'.tree, heap'.used, heap'.used) = HeapMembers \ {x}
           /\ x \in HeapMembers /\ x = heap.tree[0] /\ heap.used > 0
  <1> DEFINE n == heap.used - 1
             save == heap.tree[n]
  <1>1. /\ heap.size \in Nat /\ heap.used \in 0..heap.size
        /\ heap.tree \in [0..heap.size-1 -> HeapItems \cup {Junk}]
        /\ Once(heap.tree, heap.used) /\ Ordered(heap.tree, heap.used, heap.used)
        /\ HeapMembers = Held(heap.tree, heap.used, heap.used)
    BY ShapeIs DEF HeapShape, Shape
  <1>2. heap.used > 0 /\ x = heap.tree[0]
    BY DEF HeapExtract
  <1>3. PICK size \in {heap.size, CutSize(heap.size, n)} :
            LET tree == Resized(heap.tree, n, size)
            IN  heap' = [tree |-> IF n = 0 THEN tree ELSE SiftDown(tree, n, save),
                         size |-> size, used |-> n]
    BY DEF HeapExtract
  <1> DEFINE T == Resized(heap.tree, n, size)
             U == IF n = 0 THEN T ELSE SiftDown(T, n, save)
  <1>4. heap' = [tree |-> U, size |-> size, used |-> n]
    BY <1>3
  <1>5. n \in Nat /\ n + 1 = heap.used /\ heap.used - 1 = n /\ n \in 0..heap.size
    BY <1>1, <1>2
  <1>6. size \in Nat /\ n \in 0..size
    <2>1. CutSize(heap.size, n) \in Nat /\ n <= CutSize(heap.size, n)
      BY <1>1, <1>5, HeapAssumption DEF CutSize
    <2> QED
      BY <1>1, <1>5, <2>1
  <1> HIDE DEF n
  <1>7. /\ 0..heap.used-1 = 0..n /\ (0..heap.used-1) \ {heap.used} = 0..n
        /\ 0..n-1 \subseteq 0..size-1 /\ (0..n-1) \ {n} = 0..n-1
        /\ 0..n = (0..n-1) \cup {n} /\ n \notin 0..n-1
        /\ \A p \in 0..size-1 : p < n => p \in 0..heap.size-1
    BY <1>1, <1>5, <1>6
  <1>8. DOMAIN T = 0..size-1 /\ \A p \in 0..n-1 : T[p] = heap.tree[p]
    BY <1>5, <1>6, <1>7 DEF Resized
  <1>9. T \in [DOMAIN T -> HeapItems \cup {Junk}]
    BY <1>1, <1>7, <1>8 DEF Resized
  <1>10. /\ \A p \in 0..n : heap.tree[p] \in HeapItems
         /\ \A p, q \in 0..n : heap.tree[p] = heap.tree[q] => p = q
         /\ HeapMembers = {heap.tree[p] : p \in 0..n}
         /\ 0 \in 0..n
    <2>1. \A p \in 0..n : heap.tree[p] \in HeapItems
      BY <1>1, <1>7 DEF Once
    <2>2. \A p, q \in 0..n : heap.tree[p] = heap.tree[q] => p = q
      BY <1>1, <1>7 DEF Once
    <2>3. HeapMembers = {heap.tree[p] : p \in 0..n}
      BY <1>1, <1>7 DEF Held
    <2>4. 0 \in 0..n
      BY <1>5
    <2> QED
      BY <2>1, <2>2, <2>3, <2>4
  <1>11. x \in HeapMembers
    BY <1>2, <1>10
  <1> HIDE DEF T
  <1>12. CASE n = 0
    <2>1. 0..n-1 = {} /\ 0..n = {0}
      BY <1>12
    <2>2. Held(T, n, n) = {} /\ HeapMembers = {x}
      BY <1>2, <1>10, <2>1 DEF Held
    <2>3. Once(T, n) /\ Ordered(T, n, n)
      BY <2>1 DEF Once, Ordered
    <2>4. Shape(T, size, n)
      BY <1>6, <1>8, <1>9, <2>3 DEF Shape
    <2> QED
      BY <1>2, <1>4, <1>11, <1>12, <2>2, <2>4
  <1>13. CASE n # 0
    <2>1. n \in Nat \ {0} /\ 0 \in 0..n-1 /\ (0..n-1) \ {0} \subseteq 0..n-1
      BY <1>5, <1>13
    <2>2. Differ(T, n, 0, save)
      <3>1. \A p \in 0..n-1 : T[p] \in HeapItems /\ T[p] # save
        BY <1>7, <1>8, <1>10
      <3>2. \A p, q \in 0..n-1 : T[p] = T[q] => p = q
        BY <1>7, <1>8, <1>10
      <3>3. save \in HeapItems
        BY <1>7, <1>10
      <3> QED
        BY <1>7, <1>8, <2>1, <3>1, <3>2, <3>3 DEF Differ
    <2>3. Ordered(T, n, 0)
      BY <1>1, <1>7, <1>8 DEF Ordered
    <2>4. Held(T, n, 0) \cup {save} = HeapMembers \ {x}
      <3>1. Held(T, n, 0) = {heap.tree[p] : p \in (0..n-1) \ {0}}
        BY <1>8 DEF Held
      <3>2. 0..n = ((0..n-1) \ {0}) \cup {0, n}
        BY <1>7, <2>1
      <3>3. HeapMembers = {heap.tree[p] : p \in (0..n-1) \ {0}} \cup {x, save}
        BY <1>2, <1>10, <3>2
      <3>4. save # x /\ x \notin {heap.tree[p] : p \in (0..n-1) \ {0}}
        BY <1>2, <1>7, <1>10, <1>13
      <3> HIDE DEF save
      <3> QED
        BY <3>1, <3>3, <3>4
    <2>5. save \in HeapItems \cup {Junk}
      BY <1>7, <1>10
    <2> HIDE DEF save
    <2>6. LET V == SiftDown(T, n, save)
          IN  /\ Once(V, n) /\ Ordered(V, n, n)
              /\ Held(V, n, n) = Held(T, n, 0) \cup {save}
              /\ V \in [DOMAIN T -> HeapItems \cup {Junk}]
      BY <1>9, <2>1, <2>2, <2>3, <2>5, SiftingDown
    <2>7. U = SiftDown(T, n, save)
      BY <1>13
    <2> HIDE DEF U
    <2>8. Shape(U, size, n)
      BY <1>6, <1>8, <2>6, <2>7 DEF Shape
    <2> QED
      BY <1>2, <1>4, <1>11, <2>4, <2>6, <2>7, <2>8
  <1> QED
    BY <1>12, <1>13

-----------------------------------------------------------------------------
EmptyShape(size) == [tree |-> NoTree(size), size |-> size, used |-> 0]

LEMMA EmptyIs ==
    ASSUME NEW size \in Nat
    PROVE  LET e == EmptyShape(size)
           IN  Shape(e.tree, e.size, e.used) /\ Held(e.tree, e.used, e.used) = {}
  <1>1. 0..0-1 = {} /\ 0 \in 0..size
    OBVIOUS
  <1>2. NoTree(size) \in [0..size-1 -> HeapItems \cup {Junk}]
    BY DEF NoTree
  <1>3. Shape(NoTree(size), size, 0) /\ Held(NoTree(size), 0, 0) = {}
    BY <1>1, <1>2 DEF Shape, Once, Ordered, Held
  <1> QED
    BY <1>3 DEF EmptyShape

LEMMA ShapeIsNext ==
    /\ HeapShape' <=> Shape(heap'.tree, heap'.size, heap'.used)
    /\ HeapFits' => HeapMembers' = Held(heap'.tree, heap'.used, heap'.used)
  <1>1. (/\ HeapShape <=> Shape(heap.tree, heap.size, heap.used)
         /\ HeapFits => HeapMembers = Held(heap.tree, heap.used, heap.used))'
    BY ShapeIs, PTL
  <1> QED
    BY <1>1

LEMMA HeapStarts == HeapInit => HeapShape /\ HeapMembers = {}
  <1> SUFFICES ASSUME HeapInit PROVE HeapShape /\ HeapMembers = {}
    OBVIOUS
  <1>1. heap = EmptyShape(0)
    BY DEF HeapInit, NoHeap, EmptyShape
  <1>2. Shape(heap.tree, heap.size, heap.used) /\ Held(heap.tree, heap.used, heap.used) = {}
    BY <1>1, EmptyIs
  <1> QED
    BY <1>2, ShapeIs DEF HeapShape

LEMMA HeapStep == HeapShape /\ [HeapNext]_heap => HeapShape'
  <1> SUFFICES ASSUME HeapShape, [HeapNext]_heap PROVE HeapShape'
    OBVIOUS
  <1>1. CASE HeapCreate
    <2>1. heap' = EmptyShape(HeapInitSize)
      BY <1>1 DEF HeapCreate, EmptyShape
    <2>2. Shape(heap'.tree, heap'.size, heap'.used)
      BY <2>1, EmptyIs, HeapAssumption
    <2> QED
      BY <2>2, ShapeIsNext
  <1>2. CASE HeapFree
    <2>1. heap' = EmptyShape(0)
      BY <1>2 DEF HeapFree, NoHeap, EmptyShape
    <2>2. Shape(heap'.tree, heap'.size, heap'.used)
      BY <2>1, EmptyIs
    <2> QED
      BY <2>2, ShapeIsNext
  <1>3. ASSUME NEW x \in HeapItems, HeapInsert(x) PROVE HeapShape'
    BY <1>3, Insertion, ShapeIsNext
  <1>4. ASSUME NEW x \in HeapItems, HeapExtract(x) PROVE HeapShape'
    BY <1>4, Extraction, ShapeIsNext
  <1>5. CASE UNCHANGED heap
    BY <1>5, ShapeIs, ShapeIsNext
  <1> QED
    BY <1>1, <1>2, <1>3, <1>4, <1>5 DEF HeapNext

(***************************************************************************)
(* After any sequence of jk_heap_create, jk_heap_insert, jk_heap_extract   *)
(* and jk_heap_free, whichever realloc fails, the array is a heap of the   *)
(* items that were inserted and not extracted, each of them once.          *)
(***************************************************************************)
THEOREM HeapStaysHeap == HeapSpec => []HeapShape
  <1>1. HeapInit => HeapShape
    BY HeapStarts
  <1> QED
    BY <1>1, HeapStep, PTL DEF HeapSpec

-----------------------------------------------------------------------------
(***************************************************************************)
(* No item has a higher priority than the root: of the items that had, the *)
(* one at the least place would hang from an item that has not.            *)
(***************************************************************************)
LEMMA RootIsTop ==
    ASSUME HeapShape, heap.used > 0, NEW y \in HeapMembers
    PROVE  Prio[y] <= Prio[heap.tree[0]]
  <1> DEFINE T == heap.tree
             n == heap.used
             Above == {p \in 0..n-1 : ~(Prio[T[p]] <= Prio[T[0]])}
  <1>1. /\ n \in Nat /\ 0 \in 0..n-1
        /\ \A p \in 0..n-1 : T[p] \in HeapItems /\ Prio[T[p]] \in Int
        /\ \A p, q \in 0..n-1 : q \in {2*p+1, 2*p+2} => Prio[T[p]] >= Prio[T[q]]
        /\ HeapMembers = {T[p] : p \in 0..n-1}
    <2>1. n \in Nat /\ 0 \in 0..n-1
      BY DEF HeapShape, HeapFits
    <2>2. HeapMembers = {T[p] : p \in 0..n-1}
      BY DEF HeapMembers
    <2>3. \A p \in 0..n-1 : T[p] \in HeapItems
      BY <2>2 DEF HeapShape, HoldsOnce
    <2>4. \A p \in 0..n-1 : Prio[T[p]] \in Int
      BY <2>3, HeapAssumption
    <2>5. \A p, q \in 0..n-1 : q \in {2*p+1, 2*p+2} => Prio[T[p]] >= Prio[T[q]]
      BY DEF HeapShape, HeapOrdered
    <2> QED
      BY <2>1, <2>2, <2>3, <2>4, <2>5
  <1> HIDE DEF T, n
  <1>2. Above = {}
    <2> SUFFICES ASSUME Above # {} PROVE FALSE
      OBVIOUS
    <2>1. PICK p \in Above : \A q \in Above : p <= q
      <3>1. Above \in SUBSET Nat
        BY <1>1
      <3> HIDE DEF Above
      <3> QED
        BY <3>1, LeastNumber
    <2>2. p \in 0..n-1 /\ p > 0 /\ p \in Nat
      BY <1>1
    <2>3. Parent(p) \in 0..n-1 /\ p \in {2*Parent(p)+1, 2*Parent(p)+2} /\ ~(p <= Parent(p))
      BY <1>1, <2>2, ParentIs
    <2>4. Parent(p) \notin Above
      <3> HIDE DEF Above
      <3> QED
        BY <2>1, <2>3
    <2>5. Prio[T[Parent(p)]] <= Prio[T[0]] /\ Prio[T[Parent(p)]] >= Prio[T[p]]
      BY <1>1, <2>2, <2>3, <2>4
    <2>6. ~(Prio[T[p]] <= Prio[T[0]])
      BY <2>1
    <2> QED
      BY <1>1, <2>2, <2>3, <2>5, <2>6
  <1>3. PICK p \in 0..n-1 : y = T[p]
    BY <1>1
  <1> QED
    BY <1>2, <1>3 DEF T

LEMMA QueueStep == HeapShape /\ HeapShape' /\ [HeapNext]_heap => [Queue!Next]_HeapMembers
  <1> SUFFICES ASSUME HeapShape, HeapShape', [HeapNext]_heap
               PROVE  Queue!Next \/ HeapMembers' = HeapMembers
    OBVIOUS
  <1>0. HeapMembers' = Held(heap'.tree, heap'.used, heap'.used)
    BY ShapeIsNext DEF HeapShape
  <1>1. CASE HeapCreate
    <2>1. heap' = EmptyShape(HeapInitSize)
      BY <1>1 DEF HeapCreate, EmptyShape
    <2>2. HeapMembers' = {}
      BY <1>0, <2>1, EmptyIs, HeapAssumption
    <2> QED
      BY <2>2 DEF Queue!Next, Queue!Clear
  <1>2. CASE HeapFree
    <2>1. heap' = EmptyShape(0)
      BY <1>2 DEF HeapFree, NoHeap, EmptyShape
    <2>2. HeapMembers' = {}
      BY <1>0, <2>1, EmptyIs
    <2> QED
      BY <2>2 DEF Queue!Next, Queue!Clear
  <1>3. ASSUME NEW x \in HeapItems, HeapInsert(x) PROVE Queue!Next
    <2>1. x \notin HeapMembers /\ HeapMembers' = HeapMembers \cup {x}
      BY <1>0, <1>3, Insertion DEF HeapInsert
    <2> QED
      BY <2>1 DEF Queue!Next, Queue!Insert
  <1>4. ASSUME NEW x \in HeapItems, HeapExtract(x) PROVE Queue!Next
    <2>1. x \in HeapMembers /\ HeapMembers' = HeapMembers \ {x}
          /\ x = heap.tree[0] /\ heap.used > 0
      BY <1>0, <1>4, Extraction
    <2>2. \A y \in HeapMembers : Prio[y] <= Prio[x]
      BY <2>1, RootIsTop
    <2> QED
      BY <2>1, <2>2 DEF Queue!Next, Queue!TakeTop
  <1>5. CASE UNCHANGED heap
    BY <1>5 DEF HeapMembers
  <1> QED
    BY <1>1, <1>2, <1>3, <1>4, <1>5 DEF HeapNext

(***************************************************************************)
(* The heap in its array is a priority queue: an insertion adds the item,  *)
(* jk_heap_extract takes one that no other exceeds, and nothing else       *)
(* changes what the heap holds.                                            *)
(***************************************************************************)
THEOREM HeapImplementsQueue == HeapSpec => ImplementsPriorityQueue
  <1>1. HeapInit => Queue!Init
    BY HeapStarts DEF Queue!Init
  <1>2. HeapSpec => []HeapShape
    BY HeapStaysHeap
  <1> QED
    BY <1>1, <1>2, QueueStep, PTL DEF HeapSpec, ImplementsPriorityQueue, Queue!Spec
=============================================================================
