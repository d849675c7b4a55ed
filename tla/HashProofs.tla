------------------------------ MODULE HashProofs ------------------------------
(***************************************************************************)
(* Theorems about HashTable.  Where the entries hang matters only to the   *)
(* search: for the rest a table is the set of its entries.                 *)
(***************************************************************************)
EXTENDS HashTable, Iteration

Chains(B, n) == n \in Nat /\ B \in [0..n-1 -> Seq(Entry)]

EntriesOf(B) == {EntryAt(B, p) : p \in Places(B)}
DataOf(B) == {EntryAt(B, p).data : p \in Places(B)}

(* No two entries have the same data.                                      *)
Distinct(B) ==
    \A p, q \in Places(B) : EntryAt(B, p).data = EntryAt(B, q).data => p = q

(* An entry of a key whose hash fits an int hangs where it is looked for.  *)
Located(B, n) ==
    \A p \in Places(B) : EntryAt(B, p).key \in Narrow => p[1] = BucketOf(EntryAt(B, p).key, n)

LEMMA PlacesAre ==
    ASSUME NEW B, NEW n, Chains(B, n)
    PROVE  /\ \A i, j : <<i, j>> \in Places(B) <=> i \in 0..n-1 /\ j \in 1..Len(B[i])
           /\ \A p \in Places(B) : /\ p = <<p[1], p[2]>> /\ p[1] \in 0..n-1
                                   /\ p[2] \in 1..Len(B[p[1]])
                                   /\ EntryAt(B, p) = B[p[1]][p[2]] /\ EntryAt(B, p) \in Entry
           /\ \A i \in 0..n-1 : B[i] \in Seq(Entry) /\ DOMAIN B[i] = 1..Len(B[i]) /\ Len(B[i]) \in Nat
  <1>1. \A i \in 0..n-1 : B[i] \in Seq(Entry) /\ DOMAIN B[i] = 1..Len(B[i]) /\ Len(B[i]) \in Nat
    <2> HIDE DEF Entry
    <2> QED
      BY DEF Chains
  <1>2. DOMAIN B = 0..n-1
    BY DEF Chains
  <1>3. \A i, j : <<i, j>> \in Places(B) <=> i \in 0..n-1 /\ j \in 1..Len(B[i])
    BY <1>1, <1>2 DEF Places
  <1>4. \A p \in Places(B) : p = <<p[1], p[2]>>
    BY DEF Places
  <1>5. \A p \in Places(B) : p[1] \in 0..n-1 /\ p[2] \in 1..Len(B[p[1]])
    BY <1>3, <1>4
  <1>6. \A p \in Places(B) : EntryAt(B, p) = B[p[1]][p[2]] /\ EntryAt(B, p) \in Entry
    <2> HIDE DEF Entry
    <2> QED
      BY <1>1, <1>5 DEF EntryAt
  <1> QED
    BY <1>1, <1>3, <1>4, <1>5, <1>6

-----------------------------------------------------------------------------
(* t is the chain s without its entry j.                                   *)
ChainLess(s, t, j) ==
    /\ s \in Seq(Entry) /\ t \in Seq(Entry) /\ j \in 1..Len(s) /\ Len(t) = Len(s) - 1
    /\ \A l \in 1..Len(t) : t[l] = s[IF l < j THEN l ELSE l + 1]

(* C has the entries of B, each in its bucket, but for the one at x.       *)
Keeps(B, C, x, g) ==
    /\ g \in [Places(C) -> Places(B) \ {x}]
    /\ \A p, q \in Places(C) : g[p] = g[q] => p = q
    /\ \A q \in Places(B) \ {x} : \E p \in Places(C) : g[p] = q
    /\ \A p \in Places(C) : g[p][1] = p[1] /\ EntryAt(C, p) = EntryAt(B, g[p])

Minus(B, C, x) == x \in Places(B) /\ \E g : Keeps(B, C, x, g)

LEMMA ChainMinus ==
    ASSUME NEW B, NEW C, NEW n, Chains(B, n), Chains(C, n),
           NEW b \in 0..n-1, NEW j, ChainLess(B[b], C[b], j),
           \A i \in 0..n-1 : i # b => C[i] = B[i]
    PROVE  Minus(B, C, <<b, j>>)
  <1> DEFINE x == <<b, j>>
             back(p) == IF p[1] = b /\ ~(p[2] < j) THEN <<b, p[2] + 1>> ELSE p
             g == [p \in Places(C) |-> back(p)]
  <1>1. n \in Nat /\ j \in 1..Len(B[b]) /\ Len(B[b]) \in Nat /\ Len(C[b]) = Len(B[b]) - 1
    BY PlacesAre DEF ChainLess, Chains
  <1>2. x \in Places(B)
    BY <1>1, PlacesAre
  <1>3. ASSUME NEW p \in Places(C)
        PROVE  /\ p = <<p[1], p[2]>> /\ p[1] \in 0..n-1 /\ p[2] \in 1..Len(C[p[1]])
               /\ back(p) \in Places(B) \ {x} /\ back(p)[1] = p[1]
               /\ EntryAt(C, p) = EntryAt(B, back(p))
    <2>1. p = <<p[1], p[2]>> /\ p[1] \in 0..n-1 /\ p[2] \in 1..Len(C[p[1]])
      BY PlacesAre
    <2>2. CASE p[1] # b
      <3>1. back(p) = p /\ C[p[1]] = B[p[1]]
        BY <2>1, <2>2
      <3>2. p \in Places(B) /\ p # x
        BY <2>1, <2>2, <3>1, PlacesAre
      <3> QED
        BY <2>1, <3>1, <3>2 DEF EntryAt
    <2>3. CASE p[1] = b /\ p[2] < j
      <3>1. back(p) = p /\ p[2] \in 1..Len(B[b]) /\ p[2] # j
        BY <1>1, <2>1, <2>3
      <3>2. p \in Places(B) /\ p # x
        BY <2>1, <2>3, <3>1, PlacesAre
      <3>3. C[b][p[2]] = B[b][p[2]]
        BY <2>1, <2>3 DEF ChainLess
      <3> QED
        BY <2>1, <2>3, <3>1, <3>2, <3>3 DEF EntryAt
    <2>4. CASE p[1] = b /\ ~(p[2] < j)
      <3>1. back(p) = <<b, p[2]+1>> /\ p[2]+1 \in 1..Len(B[b]) /\ p[2]+1 # j
        BY <1>1, <2>1, <2>4
      <3>2. back(p) \in Places(B) /\ back(p) # x
        BY <3>1, PlacesAre
      <3>3. C[b][p[2]] = B[b][p[2]+1]
        BY <2>1, <2>4 DEF ChainLess
      <3> QED
        BY <2>1, <2>4, <3>1, <3>2, <3>3 DEF EntryAt
    <2> QED
      BY <2>2, <2>3, <2>4
  <1>4. ASSUME NEW p \in Places(C), NEW q \in Places(C), back(p) = back(q) PROVE p = q
    <2>1. p[1] = q[1] /\ p = <<p[1], p[2]>> /\ q = <<q[1], q[2]>>
      BY <1>3, <1>4
    <2>2. CASE p[1] # b
      BY <1>4, <2>1, <2>2
    <2>3. CASE p[1] = b
      <3>0. Len(C[b]) \in Int /\ p[2] \in 1..Len(C[b]) /\ q[2] \in 1..Len(C[b])
        <4>1. p[2] \in 1..Len(C[p[1]]) /\ q[2] \in 1..Len(C[q[1]])
          BY <1>3
        <4> QED
          BY <1>1, <2>1, <2>3, <4>1
      <3>1. p[2] \in Int /\ q[2] \in Int /\ j \in Int
        BY <1>1, <3>0
      <3>2. (IF p[2] < j THEN p[2] ELSE p[2] + 1) = (IF q[2] < j THEN q[2] ELSE q[2] + 1)
        BY <1>4, <2>1, <2>3
      <3>3. p[2] = q[2]
        BY <3>1, <3>2
      <3> QED
        BY <2>1, <3>3
    <2> QED
      BY <2>2, <2>3
  <1>5. ASSUME NEW q \in Places(B), q # x PROVE \E p \in Places(C) : back(p) = q
    <2>1. q = <<q[1], q[2]>> /\ q[1] \in 0..n-1 /\ q[2] \in 1..Len(B[q[1]])
      BY PlacesAre
    <2>2. CASE q[1] # b
      <3>1. q \in Places(C)
        BY <2>1, <2>2, PlacesAre
      <3> QED
        BY <2>2, <3>1
    <2>3. CASE q[1] = b /\ q[2] < j
      <3>1. q[2] \in 1..Len(C[b])
        BY <1>1, <2>1, <2>3
      <3>2. q \in Places(C)
        BY <2>1, <2>3, <3>1, PlacesAre
      <3> QED
        BY <2>3, <3>2
    <2>4. CASE q[1] = b /\ ~(q[2] < j)
      <3>1. q[2] # j
        BY <1>5, <2>1, <2>4
      <3>2. q[2]-1 \in 1..Len(C[b]) /\ ~(q[2]-1 < j) /\ (q[2]-1)+1 = q[2]
        BY <1>1, <2>1, <2>4, <3>1
      <3>3. <<b, q[2]-1>> \in Places(C)
        BY <3>2, PlacesAre
      <3>4. back(<<b, q[2]-1>>) = q
        BY <2>1, <2>4, <3>2
      <3> QED
        BY <3>3, <3>4
    <2> QED
      BY <2>2, <2>3, <2>4
  <1> HIDE DEF x, back
  <1>6. Keeps(B, C, x, g)
    BY <1>3, <1>4, <1>5 DEF Keeps
  <1>7. Minus(B, C, x)
    <2> HIDE DEF g
    <2> QED
      BY <1>2, <1>6 DEF Minus
  <1> QED
    BY <1>7 DEF x

LEMMA MinusEntries ==
    ASSUME NEW B, NEW C, NEW x, Minus(B, C, x)
    PROVE  EntriesOf(C) = {EntryAt(B, q) : q \in Places(B) \ {x}}
  <1>1. PICK g : Keeps(B, C, x, g)
    BY DEF Minus
  <1>2. \A p \in Places(C) : g[p] \in Places(B) \ {x} /\ EntryAt(C, p) = EntryAt(B, g[p])
    BY <1>1 DEF Keeps
  <1>3. \A q \in Places(B) \ {x} : \E p \in Places(C) : EntryAt(C, p) = EntryAt(B, q)
    BY <1>1, <1>2 DEF Keeps
  <1> QED
    BY <1>2, <1>3 DEF EntriesOf

(* An entry leaves.                                                        *)
LEMMA EntryLeaves ==
    ASSUME NEW B, NEW C, NEW x, Minus(B, C, x), Distinct(B)
    PROVE  /\ Distinct(C) /\ EntriesOf(C) = EntriesOf(B) \ {EntryAt(B, x)}
           /\ \A n : Located(B, n) => Located(C, n)
  <1>1. PICK g : Keeps(B, C, x, g)
    BY DEF Minus
  <1>2. \A p \in Places(C) : g[p] \in Places(B) /\ EntryAt(C, p) = EntryAt(B, g[p]) /\ g[p][1] = p[1]
    BY <1>1 DEF Keeps
  <1>3. Distinct(C)
    BY <1>1, <1>2 DEF Distinct, Keeps
  <1>4. \A n : Located(B, n) => Located(C, n)
    BY <1>2 DEF Located
  <1>5. \A q \in Places(B) \ {x} : EntryAt(B, q) # EntryAt(B, x)
    BY DEF Distinct, Minus
  <1>6. EntriesOf(C) = {EntryAt(B, q) : q \in Places(B) \ {x}}
    BY MinusEntries
  <1> QED
    BY <1>3, <1>4, <1>5, <1>6 DEF EntriesOf

(* An entry whose data no other has comes in.                              *)
LEMMA EntryComes ==
    ASSUME NEW B, NEW C, NEW x, Minus(B, C, x), Distinct(C),
           \A e \in EntriesOf(C) : e.data # EntryAt(B, x).data
    PROVE  /\ Distinct(B) /\ EntriesOf(B) = EntriesOf(C) \cup {EntryAt(B, x)}
           /\ \A n : /\ Located(C, n)
                     /\ EntryAt(B, x).key \in Narrow => x[1] = BucketOf(EntryAt(B, x).key, n)
                     => Located(B, n)
  <1>1. PICK g : Keeps(B, C, x, g)
    BY DEF Minus
  <1>2. \A q \in Places(B) : q # x => \E p \in Places(C) :
            g[p] = q /\ EntryAt(C, p) = EntryAt(B, q) /\ q[1] = p[1]
    BY <1>1 DEF Keeps
  <1>3. EntriesOf(C) = {EntryAt(B, q) : q \in Places(B) \ {x}}
    BY MinusEntries
  <1>4. x \in Places(B)
    BY DEF Minus
  <1>5. \A q \in Places(B) \ {x} : EntryAt(B, q).data # EntryAt(B, x).data
    BY <1>3
  <1>6. Distinct(B)
    <2> SUFFICES ASSUME NEW p \in Places(B), NEW q \in Places(B),
                        EntryAt(B, p).data = EntryAt(B, q).data
                 PROVE  p = q
      BY DEF Distinct
    <2>1. CASE p = x \/ q = x
      BY <1>5, <2>1
    <2>2. CASE p # x /\ q # x
      <3>1. PICK u \in Places(C) : g[u] = p /\ EntryAt(C, u) = EntryAt(B, p)
        BY <1>2, <2>2
      <3>2. PICK v \in Places(C) : g[v] = q /\ EntryAt(C, v) = EntryAt(B, q)
        BY <1>2, <2>2
      <3>3. u = v
        BY <3>1, <3>2 DEF Distinct
      <3> QED
        BY <3>1, <3>2, <3>3
    <2> QED
      BY <2>1, <2>2
  <1>7. EntriesOf(B) = EntriesOf(C) \cup {EntryAt(B, x)}
    BY <1>3, <1>4 DEF EntriesOf
  <1>8. ASSUME NEW n, Located(C, n),
               EntryAt(B, x).key \in Narrow => x[1] = BucketOf(EntryAt(B, x).key, n)
        PROVE  Located(B, n)
    BY <1>2, <1>8 DEF Located
  <1> QED
    BY <1>6, <1>7, <1>8

-----------------------------------------------------------------------------
(* The chains that the operations make.                                    *)
LEMMA Appended ==
    ASSUME NEW s \in Seq(Entry), NEW e \in Entry
    PROVE  LET t == s \o <<e>>
           IN  ChainLess(t, s, Len(s)+1) /\ t[Len(s)+1] = e /\ Len(s)+1 \in 1..Len(t)
  <1> DEFINE t == s \o <<e>>
  <1> HIDE DEF Entry
  <1>1. t \in Seq(Entry) /\ Len(t) = Len(s)+1 /\ Len(s) \in Nat
    OBVIOUS
  <1>2. \A l \in 1..Len(s) : t[l] = s[l] /\ l < Len(s)+1
    OBVIOUS
  <1>3. t[Len(s)+1] = e
    OBVIOUS
  <1> HIDE DEF t
  <1>4. ChainLess(t, s, Len(s)+1)
    BY <1>1, <1>2 DEF ChainLess
  <1> QED
    BY <1>1, <1>3, <1>4 DEF t

LEMMA Prepended ==
    ASSUME NEW s \in Seq(Entry), NEW e \in Entry
    PROVE  LET t == <<e>> \o s
           IN  ChainLess(t, s, 1) /\ t[1] = e /\ 1 \in 1..Len(t)
  <1> DEFINE t == <<e>> \o s
  <1> HIDE DEF Entry
  <1>1. t \in Seq(Entry) /\ Len(t) = Len(s)+1 /\ Len(s) \in Nat
    OBVIOUS
  <1>2. \A l \in 1..Len(s) : t[l+1] = s[l] /\ ~(l < 1)
    OBVIOUS
  <1>3. t[1] = e
    OBVIOUS
  <1> HIDE DEF t
  <1>4. ChainLess(t, s, 1)
    BY <1>1, <1>2 DEF ChainLess
  <1> QED
    BY <1>1, <1>3, <1>4 DEF t

LEMMA TailLess ==
    ASSUME NEW s \in Seq(Entry), s # <<>>
    PROVE  ChainLess(s, Tail(s), 1) /\ Head(s) = s[1] /\ Head(s) \in Entry
  <1> HIDE DEF Entry
  <1>1. Tail(s) \in Seq(Entry) /\ Len(s) \in Nat /\ 1 \in 1..Len(s) /\ Len(Tail(s)) = Len(s)-1
    OBVIOUS
  <1>2. \A l \in 1..Len(Tail(s)) : Tail(s)[l] = s[l+1] /\ ~(l < 1)
    OBVIOUS
  <1>3. Head(s) = s[1] /\ Head(s) \in Entry
    OBVIOUS
  <1> QED
    BY <1>1, <1>2, <1>3 DEF ChainLess

LEMMA RemovedLess ==
    ASSUME NEW s \in Seq(Entry), NEW j \in 1..Len(s)
    PROVE  ChainLess(s, RemoveAt(s, j), j)
  <1> DEFINE t == RemoveAt(s, j)
  <1> HIDE DEF Entry
  <1>1. Len(s) \in Nat /\ j-1 \in 0..Len(s) /\ j+1 \in Int
    OBVIOUS
  <1>2. /\ SubSeq(s, 1, j-1) \in Seq(Entry) /\ Len(SubSeq(s, 1, j-1)) = j-1
        /\ \A l \in 1..j-1 : SubSeq(s, 1, j-1)[l] = s[l]
    OBVIOUS
  <1>3. /\ SubSeq(s, j+1, Len(s)) \in Seq(Entry) /\ Len(SubSeq(s, j+1, Len(s))) = Len(s)-j
        /\ \A l \in 1..Len(s)-j : SubSeq(s, j+1, Len(s))[l] = s[l+j]
    OBVIOUS
  <1>4. t = SubSeq(s, 1, j-1) \o SubSeq(s, j+1, Len(s))
    BY DEF RemoveAt
  <1> DEFINE u == SubSeq(s, 1, j-1)
             v == SubSeq(s, j+1, Len(s))
  <1> HIDE DEF t, u, v
  <1>5. /\ u \in Seq(Entry) /\ Len(u) = j-1 /\ (\A l \in 1..j-1 : u[l] = s[l])
        /\ v \in Seq(Entry) /\ Len(v) = Len(s)-j /\ (\A l \in 1..Len(s)-j : v[l] = s[l+j])
        /\ t = u \o v
    BY <1>2, <1>3, <1>4 DEF u, v
  <1>6. t \in Seq(Entry) /\ Len(t) = Len(s)-1
    BY <1>1, <1>5
  <1>7. ASSUME NEW l \in 1..Len(t) PROVE t[l] = s[IF l < j THEN l ELSE l+1]
    <2>1. CASE l < j
      <3>1. l \in 1..j-1
        BY <1>1, <1>6, <2>1
      <3> QED
        BY <1>1, <1>5, <2>1, <3>1
    <2>2. CASE ~(l < j)
      <3>1. l-(j-1) \in 1..Len(s)-j /\ (l-(j-1))+j = l+1 /\ l > j-1 /\ l <= (j-1)+(Len(s)-j)
        BY <1>1, <1>6, <2>2
      <3>2. t[l] = v[l-(j-1)]
        BY <1>1, <1>5, <3>1
      <3> QED
        BY <1>5, <2>2, <3>1, <3>2
    <2> QED
      BY <2>1, <2>2
  <1> QED
    BY <1>5, <1>6, <1>7 DEF ChainLess, t

-----------------------------------------------------------------------------
(* Distinct entries are as many as their data, and as their places.        *)
LEMMA CountByData ==
    ASSUME NEW B, Distinct(B), IsFiniteSet(DataOf(B))
    PROVE  /\ IsFiniteSet(EntriesOf(B)) /\ Cardinality(EntriesOf(B)) = Cardinality(Places(B))
           /\ IsFiniteSet(Places(B)) /\ Cardinality(Places(B)) = Cardinality(DataOf(B))
  <1> DEFINE f == [p \in Places(B) |-> EntryAt(B, p).data]
             g == [e \in EntriesOf(B) |-> e.data]
  <1>1. f \in [Places(B) -> DataOf(B)] /\ g \in [EntriesOf(B) -> DataOf(B)]
    BY DEF DataOf, EntriesOf
  <1>2. \A p, q \in Places(B) : f[p] = f[q] => p = q
    BY DEF Distinct
  <1>3. \A d \in DataOf(B) : \E p \in Places(B) : f[p] = d
    BY DEF DataOf
  <1>4. \A e, h \in EntriesOf(B) : g[e] = g[h] => e = h
    BY DEF Distinct, EntriesOf
  <1>5. \A d \in DataOf(B) : \E e \in EntriesOf(B) : g[e] = d
    BY DEF DataOf, EntriesOf
  <1> HIDE DEF f, g
  <1>6. f \in Injection(Places(B), DataOf(B)) /\ f \in Surjection(Places(B), DataOf(B))
    BY <1>1, <1>2, <1>3 DEF Injection, Surjection, IsInjective
  <1>7. g \in Injection(EntriesOf(B), DataOf(B)) /\ g \in Surjection(EntriesOf(B), DataOf(B))
    BY <1>1, <1>4, <1>5 DEF Injection, Surjection, IsInjective
  <1>8. IsFiniteSet(Places(B)) /\ Cardinality(Places(B)) = Cardinality(DataOf(B))
    BY <1>6, FS_Injection
  <1>9. IsFiniteSet(EntriesOf(B)) /\ Cardinality(EntriesOf(B)) = Cardinality(DataOf(B))
    BY <1>7, FS_Injection
  <1> QED
    BY <1>8, <1>9

LEMMA Buckets ==
    ASSUME NEW m \in Nat \ {0}, NEW e \in Entry
    PROVE  /\ BucketOfInt(e, m) \in 0..m-1
           /\ e.key \in Narrow /\ e.hashval = ToInt(HashOf[e.key])
                  => BucketOfInt(e, m) = BucketOf(e.key, m)
  <1>1. e.hashval \in Int /\ e.key \in Keys /\ IntLimit \in Nat \ {0} /\ HashOf[e.key] \in Nat
    BY HashAssumption DEF Entry
  <1>2. e.hashval % (2 * IntLimit) \in Nat
    BY <1>1
  <1>3. BucketOfInt(e, m) \in 0..m-1
    BY <1>2 DEF BucketOfInt
  <1>4. ASSUME e.key \in Narrow, e.hashval = ToInt(HashOf[e.key])
        PROVE  BucketOfInt(e, m) = BucketOf(e.key, m)
    <2>1. e.hashval = HashOf[e.key] /\ ToInt(HashOf[e.key]) = HashOf[e.key]
      BY <1>4 DEF Narrow
    <2>2. HashOf[e.key] < 2 * IntLimit
      <3>1. HashOf[e.key] % (2 * IntLimit) \in 0..2*IntLimit-1
        BY <1>1
      <3> QED
        BY <1>1, <2>1, <3>1 DEF ToInt
    <2>3. e.hashval % (2 * IntLimit) = HashOf[e.key]
      BY <1>1, <2>1, <2>2
    <2> QED
      BY <2>3 DEF BucketOfInt, BucketOf
  <1> QED
    BY <1>3, <1>4

-----------------------------------------------------------------------------
(***************************************************************************)
(* The rehash.  The entries E are in the old and in the new buckets, each  *)
(* once, and in the new ones they hang where they are looked for.          *)
(***************************************************************************)
HashesKept(E) == \A e \in E : e.hashval = ToInt(HashOf[e.key])

Moving(s, E, n, m) ==
    /\ s \in [old : [0..n-1 -> Seq(Entry)], new : [0..m-1 -> Seq(Entry)]]
    /\ Distinct(s.old) /\ Distinct(s.new)
    /\ EntriesOf(s.old) \cup EntriesOf(s.new) = E
    /\ \A e \in EntriesOf(s.old), f \in EntriesOf(s.new) : e.data # f.data
    /\ Located(s.new, m)

LEMMA MoveStep ==
    ASSUME NEW n \in Nat, NEW m \in Nat \ {0}, NEW E, HashesKept(E),
           NEW s, Moving(s, E, n, m)
    PROVE  /\ Moving(MoveEntry(s, m), E, n, m)
           /\ \/ MoveEntry(s, m) = s /\ EntriesOf(s.old) = {}
              \/ \E e \in EntriesOf(s.old) :
                    EntriesOf(MoveEntry(s, m).old) = EntriesOf(s.old) \ {e}
  <1> DEFINE left == {i \in DOMAIN s.old : s.old[i] # <<>>}
             i == Min(left)
             e == Head(s.old[i])
             b == BucketOfInt(e, m)
             oldT == FirstTaken(s.old, i)
             newT == [s.new EXCEPT ![b] = <<e>> \o @]
             t == [old |-> oldT, new |-> newT]
  <1>1. Chains(s.old, n) /\ Chains(s.new, m) /\ DOMAIN s.old = 0..n-1 /\ DOMAIN s.new = 0..m-1
    <2> HIDE DEF Entry
    <2> QED
      BY DEF Moving, Chains
  <1>2. CASE left = {}
    <2>1. MoveEntry(s, m) = s
      BY <1>2 DEF MoveEntry
    <2>2. \A p \in Places(s.old) : FALSE
      <3> SUFFICES ASSUME NEW p \in Places(s.old) PROVE FALSE
        OBVIOUS
      <3>1. p[1] \in 0..n-1 /\ p[2] \in 1..Len(s.old[p[1]])
        BY <1>1, PlacesAre
      <3>2. s.old[p[1]] = <<>>
        BY <1>1, <1>2, <3>1
      <3> QED
        BY <3>1, <3>2
    <2> QED
      BY <2>1, <2>2 DEF EntriesOf
  <1>3. CASE left # {}
    <2>1. i \in left /\ i \in 0..n-1
      <3>1. left \in SUBSET Nat
        BY <1>1
      <3>2. \E x \in left : \A y \in left : x <= y
        <4> HIDE DEF left
        <4> QED
          BY <1>3, <3>1, LeastNumber
      <3>3. i \in left
        <4> HIDE DEF left
        <4> QED
          BY <3>2 DEF Min
      <3> QED
        BY <1>1, <3>3
    <2>2. s.old[i] \in Seq(Entry) /\ s.old[i] # <<>>
      <3>1. s.old[i] \in Seq(Entry)
        BY <1>1, <2>1, PlacesAre
      <3> QED
        BY <2>1, <3>1
    <2> HIDE DEF left, i
    <2>3. ChainLess(s.old[i], Tail(s.old[i]), 1) /\ e = s.old[i][1] /\ e \in Entry
      <3> HIDE DEF Entry
      <3> QED
        BY <2>2, TailLess
    <2> HIDE DEF e
    <2>4. b \in 0..m-1 /\ (e.key \in Narrow /\ e.hashval = ToInt(HashOf[e.key])
                              => b = BucketOf(e.key, m))
      BY <2>3, Buckets
    <2>5. s.new[b] \in Seq(Entry)
      <3> HIDE DEF b
      <3> QED
        BY <1>1, <2>4, PlacesAre
    <2>6. ChainLess(<<e>> \o s.new[b], s.new[b], 1) /\ (<<e>> \o s.new[b])[1] = e
      <3> HIDE DEF Entry, b
      <3> QED
        BY <2>3, <2>5, Prepended
    <2> HIDE DEF b
    <2>7. MoveEntry(s, m) = t
      BY <1>3 DEF MoveEntry, left, i, e, b
    <2>8. /\ Chains(oldT, n) /\ oldT[i] = Tail(s.old[i])
          /\ \A k \in 0..n-1 : k # i => oldT[k] = s.old[k]
      <3> HIDE DEF Entry
      <3>1. Tail(s.old[i]) \in Seq(Entry)
        BY <2>3 DEF ChainLess
      <3> QED
        BY <1>1, <2>1, <3>1 DEF FirstTaken, Chains
    <2>9. /\ Chains(newT, m) /\ newT[b] = <<e>> \o s.new[b]
          /\ \A k \in 0..m-1 : k # b => newT[k] = s.new[k]
      <3> HIDE DEF Entry
      <3>1. <<e>> \o s.new[b] \in Seq(Entry)
        BY <2>6 DEF ChainLess
      <3> QED
        BY <1>1, <2>4, <3>1 DEF Chains
    <2> HIDE DEF oldT, newT
    <2>10. Minus(s.old, oldT, <<i, 1>>)
      BY <1>1, <2>1, <2>3, <2>8, ChainMinus
    <2>11. Minus(newT, s.new, <<b, 1>>)
      <3>1. ChainLess(newT[b], s.new[b], 1) /\ \A k \in 0..m-1 : k # b => s.new[k] = newT[k]
        BY <2>6, <2>9
      <3> QED
        BY <1>1, <2>4, <2>9, <3>1, ChainMinus
    <2>12. EntryAt(s.old, <<i, 1>>) = e /\ EntryAt(newT, <<b, 1>>) = e
      BY <2>3, <2>6, <2>9 DEF EntryAt
    <2>13. e \in EntriesOf(s.old)
      BY <2>10, <2>12 DEF Minus, EntriesOf
    <2>14. Distinct(oldT) /\ EntriesOf(oldT) = EntriesOf(s.old) \ {e}
      BY <2>10, <2>12, EntryLeaves DEF Moving
    <2>15. \A f \in EntriesOf(s.new) : f.data # e.data
      BY <2>13 DEF Moving
    <2>16. /\ Distinct(newT) /\ EntriesOf(newT) = EntriesOf(s.new) \cup {e}
           /\ (e.key \in Narrow => b = BucketOf(e.key, m)) => Located(newT, m)
      <3>1. Distinct(s.new) /\ Located(s.new, m)
        BY DEF Moving
      <3>2. <<b, 1>>[1] = b
        OBVIOUS
      <3> QED
        BY <2>11, <2>12, <2>15, <3>1, <3>2, EntryComes
    <2>17. e.hashval = ToInt(HashOf[e.key])
      BY <2>13 DEF Moving, HashesKept
    <2>18. \A f \in EntriesOf(oldT) : f.data # e.data
      <3> SUFFICES ASSUME NEW f \in EntriesOf(s.old), f # e PROVE f.data # e.data
        BY <2>14
      <3>1. PICK p \in Places(s.old) : f = EntryAt(s.old, p)
        BY DEF EntriesOf
      <3>2. PICK q \in Places(s.old) : e = EntryAt(s.old, q)
        BY <2>13 DEF EntriesOf
      <3> QED
        BY <3>1, <3>2 DEF Moving, Distinct
    <2>19. Moving(t, E, n, m)
      <3>1. t \in [old : [0..n-1 -> Seq(Entry)], new : [0..m-1 -> Seq(Entry)]]
        <4> HIDE DEF Entry
        <4> QED
          BY <2>8, <2>9 DEF Chains
      <3>2. t.old = oldT /\ t.new = newT
        OBVIOUS
      <3> HIDE DEF t
      <3>3. Located(t.new, m)
        BY <2>4, <2>16, <2>17, <3>2
      <3>4. EntriesOf(t.old) \cup EntriesOf(t.new) = E
        BY <2>13, <2>14, <2>16, <3>2 DEF Moving
      <3>5. \A g \in EntriesOf(t.old), f \in EntriesOf(t.new) : g.data # f.data
        BY <2>14, <2>16, <2>18, <3>2 DEF Moving
      <3> QED
        BY <2>14, <2>16, <3>1, <3>2, <3>3, <3>4, <3>5 DEF Moving
    <2> QED
      BY <2>7, <2>13, <2>14, <2>19
  <1> QED
    BY <1>2, <1>3

(* No rehash loses an entry, and each hangs where it is looked for.        *)
LEMMA RehashKeeps ==
    ASSUME NEW B, NEW n \in Nat, NEW m \in Nat \ {0}, Chains(B, n), Distinct(B),
           HashesKept(EntriesOf(B)), IsFiniteSet(DataOf(B))
    PROVE  /\ Chains(Rehashed(B, m), m) /\ Distinct(Rehashed(B, m))
           /\ Located(Rehashed(B, m), m)
           /\ EntriesOf(Rehashed(B, m)) = EntriesOf(B)
  <1> DEFINE E == EntriesOf(B)
             N == Cardinality(Places(B))
             a == [old |-> B, new |-> NoChains(m)]
             S == {s \in [old : [0..n-1 -> Seq(Entry)], new : [0..m-1 -> Seq(Entry)]] :
                      Moving(s, E, n, m)}
             step == [s \in S |-> MoveEntry(s, m)]
             rank == [s \in S |-> Cardinality(EntriesOf(s.old))]
             Eq(f) == f = [k \in 0..N |-> IF k = 0 THEN a ELSE MoveEntry(f[k-1], m)]
             moved == CHOOSE f : Eq(f)
  <1>1. IsFiniteSet(E) /\ Cardinality(E) = N /\ N \in Nat
    <2>1. IsFiniteSet(E) /\ Cardinality(E) = N
      BY CountByData
    <2> QED
      BY <2>1, FS_CardinalityType
  <1>2. \A s : s \in S <=> Moving(s, E, n, m)
    BY DEF Moving
  <1>3. a \in S
    <2>1. Places(NoChains(m)) = {}
      BY DEF Places, NoChains
    <2>2. Distinct(NoChains(m)) /\ Located(NoChains(m), m) /\ EntriesOf(NoChains(m)) = {}
      BY <2>1 DEF Distinct, Located, EntriesOf
    <2>3. a \in [old : [0..n-1 -> Seq(Entry)], new : [0..m-1 -> Seq(Entry)]]
      <3> HIDE DEF Entry
      <3> QED
        BY DEF Chains, NoChains
    <2>4. a.old = B /\ a.new = NoChains(m)
      OBVIOUS
    <2> HIDE DEF a
    <2>5. Moving(a, E, n, m)
      BY <2>2, <2>3, <2>4 DEF Moving
    <2> HIDE DEF S
    <2> QED
      BY <1>2, <2>5
  <1>4. ASSUME NEW s \in S
        PROVE  /\ MoveEntry(s, m) \in S /\ IsFiniteSet(EntriesOf(s.old))
               /\ Cardinality(EntriesOf(s.old)) \in Nat
               /\ MoveEntry(s, m) # s =>
                     Cardinality(EntriesOf(MoveEntry(s, m).old)) < Cardinality(EntriesOf(s.old))
               /\ MoveEntry(s, m) = s => EntriesOf(s.old) = {}
    <2> HIDE DEF S
    <2>1. Moving(s, E, n, m)
      BY <1>2
    <2>0. HashesKept(E)
      OBVIOUS
    <2>5. /\ Moving(MoveEntry(s, m), E, n, m)
          /\ \/ MoveEntry(s, m) = s /\ EntriesOf(s.old) = {}
             \/ \E e \in EntriesOf(s.old) :
                    EntriesOf(MoveEntry(s, m).old) = EntriesOf(s.old) \ {e}
      <3> HIDE DEF E
      <3> QED
        BY <2>0, <2>1, MoveStep
    <2>2. Moving(MoveEntry(s, m), E, n, m)
      BY <2>5
    <2>3. IsFiniteSet(EntriesOf(s.old))
      <3>1. EntriesOf(s.old) \subseteq E
        BY <2>1 DEF Moving
      <3> HIDE DEF E
      <3> QED
        BY <1>1, <3>1, FS_Subset
    <2>4. Cardinality(EntriesOf(s.old)) \in Nat
      BY <2>3, FS_CardinalityType
    <2>6. ASSUME NEW e \in EntriesOf(s.old),
                 EntriesOf(MoveEntry(s, m).old) = EntriesOf(s.old) \ {e}
          PROVE  /\ Cardinality(EntriesOf(MoveEntry(s, m).old)) < Cardinality(EntriesOf(s.old))
                 /\ MoveEntry(s, m) # s
      <3>1. Cardinality(EntriesOf(s.old) \ {e}) = Cardinality(EntriesOf(s.old)) - 1
        BY <2>3, FS_RemoveElement
      <3>2. MoveEntry(s, m) # s
        BY <2>6
      <3> QED
        BY <2>4, <2>6, <3>1, <3>2
    <2> QED
      BY <1>2, <2>2, <2>3, <2>4, <2>5, <2>6
  <1>5. step \in [S -> S] /\ rank \in [S -> Nat] /\ rank[a] = N
    <2>1. rank[a] = N
      BY <1>1, <1>3
    <2> HIDE DEF S, a, N, E
    <2> QED
      BY <1>4, <2>1
  <1>6. IsStep(S, a, step, N)
    <2> HIDE DEF S, a, step, N
    <2> QED
      BY <1>1, <1>3, <1>5 DEF IsStep
  <1>7. PICK g : Iterates(S, a, step, N, g)
    <2> HIDE DEF S, a, step, N
    <2> QED
      BY <1>6, Iterated
  <1>8. Eq(g)
    <2> HIDE DEF S, a, N, E
    <2>1. \A k \in 1..N : k-1 \in 0..N
      BY <1>1
    <2>2. \A k \in 1..N : g[k] = MoveEntry(g[k-1], m)
      BY <1>7, <2>1 DEF Iterates
    <2>3. \A k \in 0..N : k = 0 \/ k \in 1..N
      BY <1>1
    <2>4. \A k \in 0..N : g[k] = IF k = 0 THEN a ELSE MoveEntry(g[k-1], m)
      BY <1>7, <2>2, <2>3 DEF Iterates
    <2> QED
      BY <1>7, <2>4 DEF Iterates
  <1>9. Eq(moved)
    <2> HIDE DEF Eq
    <2> QED
      BY <1>8
  <1>10. /\ moved[0] = a
         /\ \A k \in 1..N : moved[k] = MoveEntry(moved[k-1], m)
    <2>1. 0 \in 0..N /\ \A k \in 1..N : k \in 0..N /\ k # 0
      <3> HIDE DEF N
      <3> QED
        BY <1>1
    <2> HIDE DEF moved, a, N, E
    <2> QED
      BY <1>9, <2>1
  <1>11. \A k \in 0..N : moved[k] \in S
    <2>1. Repeats(S, a, step, N, moved)
      <3> HIDE DEF moved, a, N, E, S
      <3> QED
        BY <1>10 DEF Repeats
    <2> HIDE DEF S, a, step, N, moved
    <2> QED
      BY <1>6, <2>1, StaysInside
  <1>12. IsWay(S, step, rank, N, moved)
    <2>1. \A k \in 1..N : k-1 \in 0..N
      <3> HIDE DEF N
      <3> QED
        BY <1>1
    <2>2. moved \in [0..N -> S]
      <3>1. moved = [k \in 0..N |-> moved[k]]
        <4> HIDE DEF moved, a, N, E, S
        <4> QED
          BY <1>9
      <3> HIDE DEF moved, N, S
      <3> QED
        BY <1>11, <3>1
    <2>3. \A k \in 1..N : moved[k] = step[moved[k-1]]
      <3> HIDE DEF moved, N, S
      <3> QED
        BY <1>10, <1>11, <2>1
    <2>4. \A s \in S : step[s] # s => rank[step[s]] < rank[s]
      <3> HIDE DEF S, E
      <3> QED
        BY <1>4
    <2>5. rank[moved[0]] <= N
      <3> HIDE DEF rank, moved, a, N
      <3> QED
        BY <1>1, <1>5, <1>10
    <2> HIDE DEF step, moved, rank, S, N
    <2> QED
      BY <1>1, <1>5, <2>2, <2>3, <2>4, <2>5 DEF IsWay
  <1>13. moved[N] \in S /\ MoveEntry(moved[N], m) = moved[N]
    <2>1. step[moved[N]] = moved[N]
      <3> HIDE DEF step, moved, rank, S, N
      <3> QED
        BY <1>12, WayEnds
    <2>2. moved[N] \in S
      <3> HIDE DEF step, moved, rank, S, N
      <3> QED
        BY <1>1, <1>11
    <2> HIDE DEF moved, S, N
    <2> QED
      BY <2>1, <2>2
  <1>14. Rehashed(B, m) = moved[N].new
    BY DEF Rehashed
  <1>15. EntriesOf(moved[N].old) = {} /\ Moving(moved[N], E, n, m)
    <2> HIDE DEF moved, S, N, E
    <2> QED
      BY <1>2, <1>4, <1>13
  <1>16. Chains(moved[N].new, m)
    <2> HIDE DEF moved, S, N, E, Entry
    <2> QED
      BY <1>15 DEF Moving, Chains
  <1> HIDE DEF moved, S, N
  <1> QED
    BY <1>14, <1>15, <1>16 DEF Moving

-----------------------------------------------------------------------------
(***************************************************************************)
(* What is always true of the table, as a property of its entries.         *)
(***************************************************************************)
OnlyOnce(E) == \A e, f \in E : e.key = f.key /\ e.key \in Narrow => e = f

Good(B, n, owned, count) ==
    /\ Chains(B, n) /\ Distinct(B) /\ Located(B, n)
    /\ HashesKept(EntriesOf(B)) /\ OnlyOnce(EntriesOf(B))
    /\ owned = DataOf(B) /\ IsFiniteSet(owned) /\ count = Cardinality(owned)

HashInv ==
    /\ live \in BOOLEAN /\ misfreed \in BOOLEAN
    /\ live <=> buckets_size # 0
    /\ Good(buckets, buckets_size, stored, elm_nums)

LEMMA DataAre ==
    ASSUME NEW B PROVE DataOf(B) = {e.data : e \in EntriesOf(B)}
  BY DEF DataOf, EntriesOf

LEMMA EntriesAre ==
    ASSUME NEW B, NEW n, Chains(B, n) PROVE EntriesOf(B) \subseteq Entry
  <1> HIDE DEF Entry
  <1> QED
    BY PlacesAre DEF EntriesOf

LEMMA DataApart ==
    ASSUME NEW B, Distinct(B), NEW e \in EntriesOf(B), NEW f \in EntriesOf(B), e.data = f.data
    PROVE  e = f
  BY DEF EntriesOf, Distinct

(* One entry more, and one less.                                           *)
LEMMA GoodMore ==
    ASSUME NEW B, NEW n, NEW owned, NEW count, Good(B, n, owned, count),
           NEW C, NEW m, NEW e, Chains(C, m), Distinct(C), Located(C, m),
           EntriesOf(C) = EntriesOf(B) \cup {e},
           e.hashval = ToInt(HashOf[e.key]), e.data \notin owned,
           e.key \in Narrow => \A f \in EntriesOf(B) : f.key # e.key
    PROVE  Good(C, m, owned \cup {e.data}, count + 1)
  <1>1. HashesKept(EntriesOf(C)) /\ OnlyOnce(EntriesOf(C))
    BY DEF Good, HashesKept, OnlyOnce
  <1>2. DataOf(C) = owned \cup {e.data}
    BY DataAre DEF Good
  <1>3. IsFiniteSet(owned \cup {e.data}) /\ Cardinality(owned \cup {e.data}) = count + 1
    BY FS_AddElement DEF Good
  <1> QED
    BY <1>1, <1>2, <1>3 DEF Good

LEMMA GoodLess ==
    ASSUME NEW B, NEW n, NEW owned, NEW count, Good(B, n, owned, count),
           NEW C, NEW m, NEW e \in EntriesOf(B), Chains(C, m), Distinct(C), Located(C, m),
           EntriesOf(C) = EntriesOf(B) \ {e}
    PROVE  Good(C, m, owned \ {e.data}, count - 1)
  <1>1. HashesKept(EntriesOf(C)) /\ OnlyOnce(EntriesOf(C))
    BY DEF Good, HashesKept, OnlyOnce
  <1>2. e.data \in owned
    BY DataAre DEF Good
  <1>3. DataOf(C) = owned \ {e.data}
    <2>1. \A f \in EntriesOf(B) : f # e => f.data # e.data
      BY DataApart DEF Good
    <2> QED
      BY <2>1, DataAre DEF Good
  <1>4. IsFiniteSet(owned \ {e.data}) /\ Cardinality(owned \ {e.data}) = count - 1
    BY <1>2, FS_RemoveElement DEF Good
  <1> QED
    BY <1>1, <1>3, <1>4 DEF Good

LEMMA Sizes ==
    \A n \in Nat : NextSize(n) \in Nat \ {0} /\ Clamp(n) \in Nat \ {0}
  <1>1. /\ BucketSizes \in Seq(Nat \ {0}) /\ Len(BucketSizes) \in 1..Len(BucketSizes)
        /\ 1 \in 1..Len(BucketSizes)
    BY HashAssumption
  <1>2. \A i \in 1..Len(BucketSizes) : BucketSizes[i] \in Nat \ {0}
    BY <1>1
  <1> SUFFICES ASSUME NEW n \in Nat PROVE NextSize(n) \in Nat \ {0} /\ Clamp(n) \in Nat \ {0}
    OBVIOUS
  <1>3. Clamp(n) \in Nat \ {0}
    BY <1>1, <1>2 DEF Clamp
  <1> DEFINE larger == {s \in ToSet(BucketSizes) : s > n}
  <1>4. larger \subseteq Nat \ {0}
    BY <1>1, <1>2 DEF ToSet
  <1>5. CASE larger = {}
    BY <1>3, <1>1, <1>2, <1>5 DEF NextSize
  <1>6. CASE larger # {}
    <2>1. larger \in SUBSET Nat
      BY <1>4
    <2> HIDE DEF larger
    <2>2. \E x \in larger : \A y \in larger : x <= y
      BY <1>6, <2>1, LeastNumber
    <2>3. Min(larger) \in larger
      BY <2>2 DEF Min
    <2>4. NextSize(n) = Min(larger)
      BY <1>6 DEF NextSize, larger
    <2> QED
      BY <1>3, <1>4, <2>3, <2>4
  <1> QED
    BY <1>3, <1>5, <1>6

(* What a search finds.                                                    *)
LEMMA PlaceIs ==
    ASSUME Chains(buckets, buckets_size), buckets_size # 0, NEW k \in Keys
    PROVE  LET b == BucketOf(k, buckets_size)
               j == PlaceOf(k)
           IN  /\ b \in 0..buckets_size-1
               /\ j = 0 => \A l \in 1..Len(buckets[b]) : ~SameEntry(buckets[b][l], k)
               /\ j # 0 => /\ j \in 1..Len(buckets[b]) /\ SameEntry(buckets[b][j], k)
                           /\ <<b, j>> \in Places(buckets)
                           /\ EntryAt(buckets, <<b, j>>) = buckets[b][j]
                           /\ Find(k) = buckets[b][j].data
               /\ j = 0 => Find(k) = None
  <1> DEFINE b == BucketOf(k, buckets_size)
             c == buckets[b]
             I == {i \in 1..Len(c) : SameEntry(c[i], k)}
             j == PlaceOf(k)
  <1>1. b \in 0..buckets_size-1
    BY HashAssumption DEF BucketOf, Chains
  <1>2. j = IF I # {} THEN Min(I) ELSE 0
    BY DEF PlaceOf, SelectInSeq
  <1>3. CASE I = {}
    <2>1. j = 0
      BY <1>2, <1>3
    <2> QED
      BY <1>1, <1>3, <2>1 DEF Find
  <1>4. CASE I # {}
    <2>1. I \in SUBSET Nat
      OBVIOUS
    <2>2. \E x \in I : \A y \in I : x <= y
      <3> HIDE DEF I
      <3> QED
        BY <1>4, <2>1, LeastNumber
    <2>3. j \in I
      <3> HIDE DEF I, j
      <3> QED
        BY <1>2, <1>4, <2>2 DEF Min
    <2>4. j # 0 /\ j \in 1..Len(c) /\ SameEntry(c[j], k)
      <3> HIDE DEF j
      <3> QED
        BY <2>3
    <2>5. <<b, j>> \in Places(buckets)
      <3> HIDE DEF j, b
      <3> QED
        BY <1>1, <2>4, PlacesAre
    <2>6. Find(k) = c[j].data
      BY <2>4 DEF Find
    <2> QED
      BY <1>1, <2>4, <2>5, <2>6 DEF EntryAt
  <1> QED
    BY <1>3, <1>4

(***************************************************************************)
(* Every operation keeps the table good and changes its entries as its     *)
(* name says.                                                              *)
(***************************************************************************)
LEMMA NewStep ==
    ASSUME HashInv, NEW n \in InitSizes, New(n)
    PROVE  HashInv' /\ EntriesOf(buckets') = EntriesOf(buckets)
  <1>1. Clamp(n) \in Nat \ {0}
    BY Sizes, HashAssumption DEF New
  <1>2. \A m : Places(NoChains(m)) = {}
    BY DEF Places, NoChains
  <1>3. Places(buckets) = {}
    <2>1. buckets_size = 0 /\ Chains(buckets, 0)
      BY DEF HashInv, New, Good
    <2>2. DOMAIN buckets = {}
      <3> HIDE DEF Entry
      <3> QED
        BY <2>1 DEF Chains
    <2> QED
      BY <2>2 DEF Places
  <1>4. Places(buckets') = {}
    BY <1>2 DEF New
  <1>5. Chains(buckets', buckets_size')
    <2> HIDE DEF Entry
    <2> QED
      BY <1>1 DEF New, Chains, NoChains
  <1>6. EntriesOf(buckets) = {} /\ EntriesOf(buckets') = {} /\ DataOf(buckets) = {} /\ DataOf(buckets') = {}
    BY <1>3, <1>4 DEF EntriesOf, DataOf
  <1>7. Distinct(buckets') /\ Located(buckets', buckets_size')
    BY <1>4 DEF Distinct, Located
  <1>8. stored' = {} /\ elm_nums' = 0 /\ live' = TRUE /\ buckets_size' # 0 /\ misfreed' = misfreed
    BY <1>1, <1>6 DEF New, HashInv, Good
  <1>9. Good(buckets', buckets_size', stored', elm_nums')
    BY <1>5, <1>6, <1>7, <1>8, FS_EmptySet DEF Good, HashesKept, OnlyOnce
  <1> QED
    BY <1>6, <1>8, <1>9 DEF HashInv

NewEntry(k, d) == [key |-> k, hashval |-> ToInt(HashOf[k]), data |-> d]

LEMMA AddStep ==
    ASSUME HashInv, NEW k \in Keys, NEW d \in Data, Add(k, d)
    PROVE  /\ HashInv' /\ live' = live
           /\ EntriesOf(buckets') = EntriesOf(buckets) \cup {NewEntry(k, d)}
           /\ k \in Narrow => \A f \in EntriesOf(buckets) : f.key # k
  <1> DEFINE e == NewEntry(k, d)
             n == buckets_size
             b == BucketOf(k, n)
             B == [buckets EXCEPT ![b] = @ \o <<e>>]
             x == <<b, Len(buckets[b])+1>>
  <1>1. /\ e.key = k /\ e.hashval = ToInt(HashOf[k]) /\ e.data = d /\ e \in Entry
    <2>1. HashOf[k] \in Nat /\ IntLimit \in Nat \ {0}
      BY HashAssumption
    <2>2. HashOf[k] % (2 * IntLimit) \in 0..2*IntLimit-1
      BY <2>1
    <2>3. ToInt(HashOf[k]) \in -IntLimit..IntLimit-1
      BY <2>1, <2>2 DEF ToInt
    <2> QED
      BY <2>3 DEF NewEntry, Entry
  <1>2. Good(buckets, n, stored, elm_nums) /\ Chains(buckets, n) /\ n # 0 /\ n \in Nat /\ live
    BY DEF HashInv, Good, Add, Chains
  <1>3. b \in 0..n-1 /\ \A l \in 1..Len(buckets[b]) : ~SameEntry(buckets[b][l], k)
    <2>1. PlaceOf(k) = 0
      BY DEF Add
    <2> QED
      BY <1>2, <2>1, PlaceIs
  <1>4. ASSUME k \in Narrow PROVE \A f \in EntriesOf(buckets) : f.key # k
    <2> SUFFICES ASSUME NEW p \in Places(buckets), EntryAt(buckets, p).key = k PROVE FALSE
      BY DEF EntriesOf
    <2>1. p[1] = b
      BY <1>2, <1>4 DEF Good, Located
    <2>2. EntryAt(buckets, p) \in EntriesOf(buckets)
      BY DEF EntriesOf
    <2>3. EntryAt(buckets, p).hashval = HashOf[k]
      BY <1>2, <1>4, <2>2 DEF Good, HashesKept, Narrow
    <2>4. p[2] \in 1..Len(buckets[b]) /\ EntryAt(buckets, p) = buckets[b][p[2]]
      BY <1>2, <2>1, PlacesAre
    <2>5. SameEntry(buckets[b][p[2]], k)
      BY <2>3, <2>4 DEF SameEntry
    <2> QED
      BY <1>3, <2>4, <2>5
  <1>5. buckets[b] \in Seq(Entry)
    <2> HIDE DEF b
    <2> QED
      BY <1>2, <1>3, PlacesAre
  <1> HIDE DEF e, b
  <1>6. /\ ChainLess(buckets[b] \o <<e>>, buckets[b], Len(buckets[b])+1)
        /\ (buckets[b] \o <<e>>)[Len(buckets[b])+1] = e
    <2> HIDE DEF Entry
    <2> QED
      BY <1>1, <1>5, Appended
  <1>7. /\ Chains(B, n) /\ B[b] = buckets[b] \o <<e>>
        /\ \A i \in 0..n-1 : i # b => B[i] = buckets[i]
    <2> HIDE DEF Entry
    <2>1. buckets[b] \o <<e>> \in Seq(Entry)
      BY <1>6 DEF ChainLess
    <2> QED
      BY <1>2, <1>3, <2>1 DEF Chains
  <1> HIDE DEF B
  <1>8. Minus(B, buckets, x)
    <2>1. /\ ChainLess(B[b], buckets[b], Len(buckets[b])+1)
          /\ \A i \in 0..n-1 : i # b => buckets[i] = B[i]
      BY <1>6, <1>7
    <2> QED
      BY <1>2, <1>3, <1>7, <2>1, ChainMinus
  <1>9. EntryAt(B, x) = e /\ x[1] = b
    BY <1>6, <1>7 DEF EntryAt
  <1>10. d \notin stored
    BY DEF Add
  <1>11. \A f \in EntriesOf(buckets) : f.data # d
    BY <1>2, <1>10, DataAre DEF Good
  <1>12. Distinct(B) /\ Located(B, n) /\ EntriesOf(B) = EntriesOf(buckets) \cup {e}
    <2>1. \A f \in EntriesOf(buckets) : f.data # EntryAt(B, x).data
      BY <1>1, <1>9, <1>11
    <2>2. EntryAt(B, x).key \in Narrow => x[1] = BucketOf(EntryAt(B, x).key, n)
      BY <1>1, <1>9 DEF b
    <2>3. Distinct(buckets) /\ Located(buckets, n)
      BY <1>2 DEF Good
    <2> HIDE DEF x
    <2>4. Distinct(B) /\ EntriesOf(B) = EntriesOf(buckets) \cup {EntryAt(B, x)}
      BY <1>8, <2>1, <2>3, EntryComes
    <2>5. Located(B, n)
      BY <1>8, <2>1, <2>2, <2>3, EntryComes
    <2> QED
      BY <1>9, <2>4, <2>5
  <1>13. Good(B, n, stored \cup {d}, elm_nums + 1)
    <2>1. e.key \in Narrow => \A f \in EntriesOf(buckets) : f.key # e.key
      BY <1>1, <1>4
    <2>2. e.hashval = ToInt(HashOf[e.key]) /\ e.data \notin stored
      BY <1>1, <1>10
    <2>3. Good(B, n, stored \cup {e.data}, elm_nums + 1)
      BY <1>2, <1>7, <1>12, <2>1, <2>2, GoodMore
    <2> QED
      BY <1>1, <2>3
  <1>14. /\ live' = live /\ misfreed' = misfreed /\ elm_nums' = elm_nums + 1 /\ stored' = stored \cup {d}
         /\ \/ buckets' = B /\ buckets_size' = n
            \/ buckets' = Rehashed(B, NextSize(n)) /\ buckets_size' = NextSize(n)
    BY DEF Add, NewEntry, e, B, b
  <1>15. CASE buckets' = B /\ buckets_size' = n
    <2>1. Good(buckets', buckets_size', stored', elm_nums')
      BY <1>13, <1>14, <1>15
    <2> QED
      BY <1>2, <1>4, <1>12, <1>14, <1>15, <2>1 DEF HashInv, e
  <1>16. CASE buckets' = Rehashed(B, NextSize(n)) /\ buckets_size' = NextSize(n)
    <2> DEFINE m == NextSize(n)
               R == Rehashed(B, m)
    <2>1. m \in Nat \ {0}
      BY <1>2, Sizes
    <2>2. Distinct(B) /\ HashesKept(EntriesOf(B)) /\ IsFiniteSet(DataOf(B)) /\ OnlyOnce(EntriesOf(B))
      BY <1>13 DEF Good
    <2>3. /\ Chains(R, m) /\ Distinct(R) /\ Located(R, m) /\ EntriesOf(R) = EntriesOf(B)
      <3> HIDE DEF m
      <3> QED
        BY <1>2, <1>7, <2>1, <2>2, RehashKeeps
    <2>4. DataOf(R) = DataOf(B)
      BY <2>3, DataAre
    <2>5. Good(R, m, stored \cup {d}, elm_nums + 1)
      <3> HIDE DEF m, R
      <3> QED
        BY <1>13, <2>2, <2>3, <2>4 DEF Good
    <2>6. Good(buckets', buckets_size', stored', elm_nums')
      BY <1>14, <1>16, <2>5
    <2>7. EntriesOf(buckets') = EntriesOf(buckets) \cup {e}
      BY <1>12, <1>16, <2>3
    <2> QED
      BY <1>2, <1>4, <1>14, <1>16, <2>1, <2>6, <2>7 DEF HashInv, e
  <1> QED
    BY <1>14, <1>15, <1>16

(* The entry that a search finds is the entry of a narrow key.             *)
Holds(e, k) == /\ e \in EntriesOf(buckets) /\ e.key = k /\ k \in Narrow
               /\ Find(k) = e.data

LEMMA FoundEntry ==
    ASSUME HashInv, live, NEW k \in Keys, PlaceOf(k) # 0
    PROVE  LET b == BucketOf(k, buckets_size)
               j == PlaceOf(k)
           IN  /\ b \in 0..buckets_size-1 /\ buckets[b] \in Seq(Entry)
               /\ j \in 1..Len(buckets[b])
               /\ EntryAt(buckets, <<b, j>>) = buckets[b][j]
               /\ Holds(buckets[b][j], k)
  <1> DEFINE b == BucketOf(k, buckets_size)
             j == PlaceOf(k)
  <1>1. Chains(buckets, buckets_size) /\ buckets_size # 0
    BY DEF HashInv, Good
  <1>2. /\ b \in 0..buckets_size-1 /\ j \in 1..Len(buckets[b])
        /\ SameEntry(buckets[b][j], k) /\ <<b, j>> \in Places(buckets)
        /\ EntryAt(buckets, <<b, j>>) = buckets[b][j] /\ Find(k) = buckets[b][j].data
    BY <1>1, PlaceIs
  <1> HIDE DEF b, j
  <1>3. buckets[b] \in Seq(Entry)
    BY <1>1, <1>2, PlacesAre
  <1>4. buckets[b][j] \in EntriesOf(buckets)
    BY <1>2 DEF EntriesOf
  <1>5. buckets[b][j].key = k /\ buckets[b][j].hashval = HashOf[k]
    BY <1>2 DEF SameEntry
  <1>6. k \in Narrow
    BY <1>4, <1>5 DEF HashInv, Good, HashesKept, Narrow
  <1> QED
    BY <1>2, <1>3, <1>4, <1>5, <1>6 DEF Holds, b, j

(* A search finds the entry of a narrow key.                               *)
LEMMA FindNarrow ==
    ASSUME HashInv, NEW k \in Narrow, NEW e \in EntriesOf(buckets), e.key = k
    PROVE  Find(k) = e.data
  <1>1. Good(buckets, buckets_size, stored, elm_nums) /\ Chains(buckets, buckets_size) /\ k \in Keys
    BY DEF HashInv, Good, Narrow
  <1>2. PICK p \in Places(buckets) : e = EntryAt(buckets, p)
    BY DEF EntriesOf
  <1>3. p[1] = BucketOf(k, buckets_size)
    BY <1>1, <1>2 DEF Good, Located
  <1>4. /\ p[1] \in 0..buckets_size-1 /\ p[2] \in 1..Len(buckets[p[1]])
        /\ e = buckets[p[1]][p[2]]
    BY <1>1, <1>2, PlacesAre
  <1>5. buckets_size # 0
    BY <1>4
  <1>6. SameEntry(e, k)
    BY <1>1 DEF Good, HashesKept, Narrow, SameEntry
  <1>7. PlaceOf(k) # 0
    BY <1>1, <1>3, <1>4, <1>5, <1>6, PlaceIs
  <1>8. live
    BY <1>5 DEF HashInv
  <1>9. \E f : Holds(f, k)
    BY <1>1, <1>7, <1>8, FoundEntry
  <1> QED
    BY <1>1, <1>9 DEF Holds, Good, OnlyOnce

LEMMA DropStep ==
    ASSUME HashInv, NEW k \in Keys, Drop(k)
    PROVE  /\ HashInv' /\ live' = live /\ live
           /\ \E e : /\ Holds(e, k)
                     /\ EntriesOf(buckets') = EntriesOf(buckets) \ {e}
  <1> DEFINE n == buckets_size
             b == BucketOf(k, n)
             j == PlaceOf(k)
             e == buckets[b][j]
             x == <<b, j>>
             C == [buckets EXCEPT ![b] = RemoveAt(@, j)]
  <1>1. /\ live /\ Good(buckets, n, stored, elm_nums) /\ Chains(buckets, n) /\ n # 0 /\ n \in Nat
    BY DEF HashInv, Good, Drop, Chains
  <1>2. /\ b \in 0..n-1 /\ buckets[b] \in Seq(Entry) /\ j \in 1..Len(buckets[b])
        /\ EntryAt(buckets, x) = e /\ Holds(e, k)
    <2>1. PlaceOf(k) # 0
      BY DEF Drop
    <2> QED
      BY <1>1, <2>1, FoundEntry
  <1>3. /\ buckets' = C /\ live' = live /\ buckets_size' = n /\ misfreed' = misfreed
        /\ stored' = stored \ {e.data} /\ elm_nums' = elm_nums - 1
    BY <1>2 DEF Drop, Holds
  <1> HIDE DEF b, j
  <1>4. ChainLess(buckets[b], RemoveAt(buckets[b], j), j)
    BY <1>2, RemovedLess
  <1>5. /\ Chains(C, n) /\ C[b] = RemoveAt(buckets[b], j)
        /\ \A i \in 0..n-1 : i # b => C[i] = buckets[i]
    <2> HIDE DEF Entry
    <2>1. RemoveAt(buckets[b], j) \in Seq(Entry)
      BY <1>4 DEF ChainLess
    <2> QED
      BY <1>1, <1>2, <2>1 DEF Chains
  <1> HIDE DEF C
  <1>6. Minus(buckets, C, x)
    <2>1. ChainLess(buckets[b], C[b], j)
      BY <1>4, <1>5
    <2> QED
      BY <1>1, <1>2, <1>5, <2>1, ChainMinus
  <1>7. Distinct(C) /\ Located(C, n) /\ EntriesOf(C) = EntriesOf(buckets) \ {e}
    <2>1. Distinct(buckets) /\ Located(buckets, n)
      BY <1>1 DEF Good
    <2> HIDE DEF x, e
    <2> QED
      BY <1>2, <1>6, <2>1, EntryLeaves
  <1> HIDE DEF e
  <1>8. Good(C, n, stored \ {e.data}, elm_nums - 1)
    <2>1. e \in EntriesOf(buckets)
      BY <1>2 DEF Holds
    <2> QED
      BY <1>1, <1>5, <1>7, <2>1, GoodLess
  <1>9. Good(buckets', buckets_size', stored', elm_nums')
    BY <1>3, <1>8
  <1>10. HashInv'
    BY <1>1, <1>3, <1>9 DEF HashInv
  <1>11. EntriesOf(buckets') = EntriesOf(buckets) \ {e}
    BY <1>3, <1>7
  <1> QED
    BY <1>1, <1>2, <1>3, <1>10, <1>11

(* An entry with new data is one less and then one more.                   *)
LEMMA ReplaceStep ==
    ASSUME HashInv, NEW k \in Keys, NEW d \in Data, Replace(k, d)
    PROVE  /\ HashInv' /\ live' = live /\ live /\ d \notin stored
           /\ \E e, f : /\ Holds(e, k) /\ f.key = k /\ f.data = d
                        /\ EntriesOf(buckets') = (EntriesOf(buckets) \ {e}) \cup {f}
  <1> DEFINE n == buckets_size
             b == BucketOf(k, n)
             j == PlaceOf(k)
             s == buckets[b]
             e == s[j]
             f == [e EXCEPT !.data = d]
             t == [s EXCEPT ![j] = f]
             r == RemoveAt(s, j)
             x == <<b, j>>
             C == [buckets EXCEPT ![b] = t]
             R == [buckets EXCEPT ![b] = r]
  <1>1. /\ live /\ Good(buckets, n, stored, elm_nums) /\ Chains(buckets, n) /\ n # 0 /\ n \in Nat
        /\ d \notin stored
    BY DEF HashInv, Good, Replace, Chains
  <1>2. /\ b \in 0..n-1 /\ s \in Seq(Entry) /\ j \in 1..Len(s)
        /\ EntryAt(buckets, x) = e /\ Holds(e, k)
    <2>1. PlaceOf(k) # 0
      BY DEF Replace
    <2> QED
      BY <1>1, <2>1, FoundEntry
  <1>3. /\ buckets' = C /\ live' = live /\ buckets_size' = n /\ misfreed' = misfreed
        /\ stored' = (stored \ {e.data}) \cup {d} /\ elm_nums' = elm_nums
    <2>1. buckets' = [buckets EXCEPT ![b][j].data = d]
      BY DEF Replace
    <2>2. buckets' = C
      BY <2>1
    <2>3. Find(k) = e.data
      BY <1>2 DEF Holds
    <2>4. stored' = (stored \ {Find(k)}) \cup {d}
      BY DEF Replace, HandOver
    <2> QED
      BY <2>2, <2>3, <2>4 DEF Replace
  <1> HIDE DEF b, j
  <1>4. e \in Entry /\ e \in EntriesOf(buckets) /\ e.key = k
    BY <1>1, <1>2, EntriesAre DEF Holds
  <1>5. /\ f \in Entry /\ f.key = k /\ f.hashval = e.hashval /\ f.data = d
    <2> HIDE DEF e
    <2> QED
      BY <1>4 DEF Entry
  <1> HIDE DEF f, e
  <1>6. t \in Seq(Entry) /\ Len(t) = Len(s) /\ t[j] = f /\ \A l \in 1..Len(s) : l # j => t[l] = s[l]
    <2> HIDE DEF Entry, s
    <2> QED
      BY <1>2, <1>5
  <1>7. ChainLess(s, r, j)
    <2> HIDE DEF s
    <2> QED
      BY <1>2, RemovedLess
  <1>8. ChainLess(t, r, j)
    <2> HIDE DEF s, r, t
    <2>1. Len(s) \in Nat /\ Len(r) = Len(s) - 1 /\ j \in 1..Len(s)
      BY <1>2, <1>7 DEF ChainLess
    <2>2. \A l \in 1..Len(r) : (IF l < j THEN l ELSE l + 1) \in 1..Len(s)
                               /\ (IF l < j THEN l ELSE l + 1) # j
      BY <2>1
    <2> QED
      BY <1>6, <1>7, <2>1, <2>2 DEF ChainLess
  <1> HIDE DEF t, r
  <1>9. /\ Chains(C, n) /\ C[b] = t /\ Chains(R, n) /\ R[b] = r
        /\ \A i \in 0..n-1 : i # b => C[i] = buckets[i] /\ R[i] = buckets[i]
    <2> HIDE DEF Entry
    <2>1. r \in Seq(Entry)
      BY <1>7 DEF ChainLess
    <2> QED
      BY <1>1, <1>2, <1>6, <2>1 DEF Chains
  <1> HIDE DEF C, R
  <1>10. Minus(buckets, R, x) /\ Minus(C, R, x)
    <2>1. ChainLess(buckets[b], R[b], j) /\ ChainLess(C[b], R[b], j)
      BY <1>7, <1>8, <1>9
    <2>2. \A i \in 0..n-1 : i # b => R[i] = C[i] /\ R[i] = buckets[i]
      BY <1>9
    <2>3. Minus(buckets, R, x)
      BY <1>1, <1>2, <1>9, <2>1, <2>2, ChainMinus
    <2>4. Minus(C, R, x)
      BY <1>1, <1>2, <1>9, <2>1, <2>2, ChainMinus
    <2> QED
      BY <2>3, <2>4
  <1>11. EntryAt(C, x) = f /\ x[1] = b
    BY <1>6, <1>9 DEF EntryAt
  <1> HIDE DEF x
  <1>12. Distinct(R) /\ Located(R, n) /\ EntriesOf(R) = EntriesOf(buckets) \ {e}
    <2>1. Distinct(buckets) /\ Located(buckets, n)
      BY <1>1 DEF Good
    <2> QED
      BY <1>2, <1>10, <2>1, EntryLeaves
  <1>13. Good(R, n, stored \ {e.data}, elm_nums - 1)
    BY <1>1, <1>4, <1>9, <1>12, GoodLess
  <1>14. \A g \in EntriesOf(R) : g.data # EntryAt(C, x).data
    <2>1. d \notin stored \ {e.data}
      BY <1>1
    <2> QED
      BY <1>5, <1>11, <1>13, <2>1, DataAre DEF Good
  <1>15. Distinct(C) /\ Located(C, n) /\ EntriesOf(C) = EntriesOf(R) \cup {f}
    <2>1. EntryAt(C, x).key \in Narrow => x[1] = BucketOf(EntryAt(C, x).key, n)
      BY <1>5, <1>11 DEF b
    <2>2. Distinct(C) /\ EntriesOf(C) = EntriesOf(R) \cup {EntryAt(C, x)}
      BY <1>10, <1>12, <1>14, EntryComes
    <2>3. Located(C, n)
      BY <1>10, <1>12, <1>14, <2>1, EntryComes
    <2> QED
      BY <1>11, <2>2, <2>3
  <1>16. Good(C, n, (stored \ {e.data}) \cup {d}, elm_nums)
    <2>1. f.hashval = ToInt(HashOf[f.key]) /\ f.data \notin stored \ {e.data}
      BY <1>1, <1>4, <1>5 DEF Good, HashesKept
    <2>2. f.key \in Narrow => \A g \in EntriesOf(R) : g.key # f.key
      <3>1. \A g \in EntriesOf(buckets) : g.key = k => g = e
        BY <1>1, <1>2, <1>4 DEF Good, OnlyOnce, Holds
      <3> QED
        BY <1>5, <1>12, <3>1
    <2>3. Good(C, n, (stored \ {e.data}) \cup {f.data}, (elm_nums - 1) + 1)
      BY <1>9, <1>13, <1>15, <2>1, <2>2, GoodMore
    <2>4. elm_nums \in Int
      BY <1>1, FS_CardinalityType DEF Good
    <2>5. (elm_nums - 1) + 1 = elm_nums
      BY <2>4
    <2> QED
      BY <1>5, <2>3, <2>5
  <1>17. Good(buckets', buckets_size', stored', elm_nums')
    BY <1>3, <1>16
  <1>18. HashInv'
    BY <1>1, <1>3, <1>17 DEF HashInv
  <1>19. EntriesOf(buckets') = (EntriesOf(buckets) \ {e}) \cup {f}
    BY <1>3, <1>12, <1>15
  <1> QED
    BY <1>1, <1>2, <1>3, <1>5, <1>18, <1>19

LEMMA DestroyStep ==
    ASSUME HashInv, Destroy
    PROVE  HashInv' /\ ~live' /\ EntriesOf(buckets') = {}
  <1>1. Places(buckets') = {}
    BY DEF Destroy, Places, NoChains
  <1>2. EntriesOf(buckets') = {} /\ DataOf(buckets') = {}
    BY <1>1 DEF EntriesOf, DataOf
  <1>3. Distinct(buckets') /\ Located(buckets', 0)
    BY <1>1 DEF Distinct, Located
  <1>4. Chains(buckets', 0)
    <2> HIDE DEF Entry
    <2> QED
      BY DEF Destroy, Chains, NoChains
  <1>5. stored' = {}
    BY DEF Destroy, HashInv, Good, DataOf
  <1>6. live' = FALSE /\ buckets_size' = 0 /\ elm_nums' = 0 /\ misfreed' = misfreed
    BY DEF Destroy
  <1>7. Good(buckets', 0, {}, 0)
    BY <1>2, <1>3, <1>4, FS_EmptySet DEF Good, HashesKept, OnlyOnce
  <1> QED
    BY <1>2, <1>5, <1>6, <1>7 DEF HashInv

(* The failed calloc of jk_hash_new leaves everything else as it was.      *)
LEMMA NoBucketsStep ==
    ASSUME HashInv, NewNoBuckets
    PROVE  HashInv' /\ EntriesOf(buckets') = EntriesOf(buckets)
  BY DEF NewNoBuckets, HashInv

-----------------------------------------------------------------------------
LEMMA InvInit ==
    ASSUME Init PROVE HashInv
  <1>1. Places(buckets) = {}
    BY DEF Init, Places, NoChains
  <1>2. EntriesOf(buckets) = {} /\ DataOf(buckets) = {}
    BY <1>1 DEF EntriesOf, DataOf
  <1>3. Distinct(buckets) /\ Located(buckets, 0)
    BY <1>1 DEF Distinct, Located
  <1>4. Chains(buckets, 0)
    <2> HIDE DEF Entry
    <2> QED
      BY DEF Init, Chains, NoChains
  <1>5. Good(buckets, 0, {}, 0)
    BY <1>2, <1>3, <1>4, FS_EmptySet DEF Good, HashesKept, OnlyOnce
  <1> QED
    BY <1>5 DEF Init, HashInv

LEMMA InvNext ==
    HashInv /\ [Next]_vars => HashInv'
  <1> SUFFICES ASSUME HashInv, [Next]_vars PROVE HashInv'
    OBVIOUS
  <1>1. CASE \E n \in InitSizes : New(n)
    BY <1>1, NewStep
  <1>2. CASE \E k \in Keys, d \in Data : Add(k, d) \/ Replace(k, d)
    BY <1>2, AddStep, ReplaceStep
  <1>3. CASE \E k \in Keys : Drop(k)
    BY <1>3, DropStep
  <1>4. CASE Destroy
    BY <1>4, DestroyStep
  <1>5. CASE NewNoBuckets
    BY <1>5, NoBucketsStep
  <1>6. CASE UNCHANGED vars
    BY <1>6 DEF HashInv, vars
  <1> QED
    BY <1>1, <1>2, <1>3, <1>4, <1>5, <1>6 DEF Next

(***************************************************************************)
(* The inductive invariant: the entries of the table are as many as        *)
(* elm_nums says, no two have the same value or the same narrow key, each  *)
(* keeps the hash of its key, and those of narrow keys hang where a search *)
(* looks for them.                                                         *)
(***************************************************************************)
THEOREM HashInvariant == Spec => []HashInv
  BY InvInit, InvNext, PTL DEF Spec

(* For every key, hash function and table of sizes: no growth loses an     *)
(* entry or a count of one, and a key whose hash fits an int has at most   *)
(* one entry, which a search finds.                                        *)
THEOREM TableStaysExact == Spec => []TableExact
  <1>1. HashInv => TableExact
    <2> SUFFICES ASSUME HashInv PROVE TableExact
      OBVIOUS
    <2>1. Good(buckets, buckets_size, stored, elm_nums) /\ Chains(buckets, buckets_size)
      BY DEF HashInv, Good
    <2>2. CountExact /\ elm_nums \in Nat
      BY <2>1, CountByData, FS_CardinalityType DEF Good, CountExact
    <2>3. stored \subseteq Data
      <3>1. \A e \in EntriesOf(buckets) : e.data \in Data
        BY <2>1, EntriesAre DEF Entry
      <3> QED
        BY <2>1, <3>1, DataAre DEF Good
    <2>4. TypeOK
      <3> HIDE DEF Entry
      <3> QED
        BY <2>1, <2>2, <2>3 DEF TypeOK, HashInv, Chains
    <2>5. ASSUME NEW k \in Narrow, NEW p \in Places(buckets), NEW q \in Places(buckets),
                 EntryAt(buckets, p).key = k, EntryAt(buckets, q).key = k
          PROVE  p = q /\ Find(k) = EntryAt(buckets, p).data
      <3>1. EntryAt(buckets, p) \in EntriesOf(buckets) /\ EntryAt(buckets, q) \in EntriesOf(buckets)
        BY DEF EntriesOf
      <3>2. EntryAt(buckets, p) = EntryAt(buckets, q)
        BY <2>1, <2>5, <3>1 DEF Good, OnlyOnce
      <3>3. p = q
        BY <2>1, <3>2 DEF Good, Distinct
      <3>4. Find(k) = EntryAt(buckets, p).data
        BY <2>1, <2>5, <3>1, FindNarrow
      <3> QED
        BY <3>3, <3>4
    <2>6. OneEntryPerKey
      BY <2>5 DEF OneEntryPerKey
    <2> QED
      BY <2>2, <2>4, <2>6 DEF TableExact
  <1> QED
    BY <1>1, HashInvariant, PTL

(* Whatever is inserted, replaced, removed and rehashed: a value is in one *)
(* entry from the time the table is given it until o->free is called.      *)
THEOREM ValuesOwnedOnce == Spec => []DataOwnedOnce
  <1>1. HashInv => DataOwnedOnce
    BY DEF HashInv, Good, DataOwnedOnce, DataOf, Distinct
  <1> QED
    BY <1>1, HashInvariant, PTL

-----------------------------------------------------------------------------
(* What the table maps a narrow key to, read from its entries.             *)
ValueIn(E, k) == IF \E e \in E : e.key = k THEN (CHOOSE e \in E : e.key = k).data ELSE None

Table(E) == [k \in Narrow |-> ValueIn(E, k)]

LEMMA ValueOfOnly ==
    ASSUME NEW E, OnlyOnce(E), NEW e \in E, e.key \in Narrow
    PROVE  ValueIn(E, e.key) = e.data
  <1>1. (CHOOSE f \in E : f.key = e.key) = e
    BY DEF OnlyOnce
  <1> QED
    BY <1>1 DEF ValueIn

LEMMA ValueIs == HashInv => Value = Table(EntriesOf(buckets))
  <1> SUFFICES ASSUME HashInv, NEW k \in Narrow
               PROVE  (IF live THEN Find(k) ELSE None) = ValueIn(EntriesOf(buckets), k)
    BY DEF Value, Table
  <1>1. Good(buckets, buckets_size, stored, elm_nums) /\ Chains(buckets, buckets_size) /\ k \in Keys
    BY DEF HashInv, Good, Narrow
  <1>2. CASE ~live
    <2>1. buckets_size = 0 /\ Chains(buckets, 0)
      BY <1>1, <1>2 DEF HashInv
    <2>2. DOMAIN buckets = {}
      <3> HIDE DEF Entry
      <3> QED
        BY <2>1 DEF Chains
    <2> QED
      BY <1>2, <2>2 DEF ValueIn, EntriesOf, Places
  <1>3. CASE live /\ \E e \in EntriesOf(buckets) : e.key = k
    <2>1. PICK e \in EntriesOf(buckets) : e.key = k
      BY <1>3
    <2>2. Find(k) = e.data
      BY <1>1, <2>1, FindNarrow
    <2>3. ValueIn(EntriesOf(buckets), k) = e.data
      BY <1>1, <2>1, ValueOfOnly DEF Good
    <2> QED
      BY <1>3, <2>2, <2>3
  <1>4. CASE live /\ ~\E e \in EntriesOf(buckets) : e.key = k
    <2>1. PlaceOf(k) = 0
      BY <1>1, <1>4, FoundEntry DEF Holds
    <2>2. buckets_size # 0
      BY <1>4 DEF HashInv
    <2>3. Find(k) = None
      BY <2>1 DEF Find
    <2> QED
      BY <1>4, <2>3 DEF ValueIn
  <1> QED
    BY <1>2, <1>3, <1>4

LEMMA ValueIsNext == HashInv' => Value' = Table(EntriesOf(buckets'))
  <1>1. HashInv' => (Value = Table(EntriesOf(buckets)))'
    BY ValueIs, PTL
  <1> QED
    BY <1>1

(* What one entry more and one less are to the dictionary.                 *)
LEMMA TableMore ==
    ASSUME NEW E, NEW e, OnlyOnce(E \cup {e}), e \notin E
    PROVE  Table(E \cup {e}) = IF e.key \in Narrow THEN [Table(E) EXCEPT ![e.key] = e.data]
                               ELSE Table(E)
  <1> DEFINE F == E \cup {e}
  <1>1. ASSUME NEW k \in Narrow, k # e.key PROVE ValueIn(F, k) = ValueIn(E, k)
    <2>1. CASE \E f \in E : f.key = k
      <3>1. PICK f \in E : f.key = k
        BY <2>1
      <3>2. OnlyOnce(E) /\ f \in F
        BY DEF OnlyOnce
      <3> HIDE DEF F
      <3>3. ValueIn(E, k) = f.data
        BY <3>1, <3>2, ValueOfOnly
      <3>4. ValueIn(F, k) = f.data
        BY <3>1, <3>2, ValueOfOnly DEF F
      <3> QED
        BY <3>3, <3>4
    <2>2. CASE ~\E f \in E : f.key = k
      BY <1>1, <2>2 DEF ValueIn
    <2> QED
      BY <2>1, <2>2
  <1>2. ASSUME e.key \in Narrow PROVE ValueIn(F, e.key) = e.data
    BY <1>2, ValueOfOnly
  <1> HIDE DEF F
  <1>3. CASE e.key \in Narrow
    <2>1. Table(F) = [Table(E) EXCEPT ![e.key] = e.data]
      BY <1>1, <1>2, <1>3 DEF Table
    <2> QED
      BY <1>3, <2>1 DEF F
  <1>4. CASE e.key \notin Narrow
    <2>1. Table(F) = Table(E)
      BY <1>1, <1>4 DEF Table
    <2> QED
      BY <1>4, <2>1 DEF F
  <1> QED
    BY <1>3, <1>4

LEMMA TableLess ==
    ASSUME NEW E, NEW e \in E, OnlyOnce(E), e.key \in Narrow
    PROVE  /\ Table(E \ {e}) = [Table(E) EXCEPT ![e.key] = None]
           /\ Table(E)[e.key] = e.data
  <1> DEFINE F == E \ {e}
  <1>1. OnlyOnce(F) /\ e \notin F /\ E = F \cup {e}
    BY DEF OnlyOnce
  <1>2. ValueIn(F, e.key) = None
    BY DEF ValueIn, OnlyOnce
  <1>3. Table(E) = [Table(F) EXCEPT ![e.key] = e.data]
    <2> HIDE DEF F
    <2> QED
      BY <1>1, TableMore
  <1> HIDE DEF F
  <1>4. Table(F) = [Table(E) EXCEPT ![e.key] = None]
    BY <1>2, <1>3 DEF Table
  <1>5. Table(E)[e.key] = e.data
    BY <1>3 DEF Table
  <1> QED
    BY <1>4, <1>5 DEF F

LEMMA FreshData ==
    ASSUME HashInv, NEW d \in Data, d \notin stored PROVE Promise!Fresh(d)
  <1> SUFFICES ASSUME NEW k \in Narrow PROVE Value[k] # d
    BY DEF Promise!Fresh
  <1>1. Value[k] = ValueIn(EntriesOf(buckets), k)
    BY ValueIs DEF Table
  <1>2. CASE \E e \in EntriesOf(buckets) : e.key = k
    <2>1. PICK e \in EntriesOf(buckets) : e.key = k
      BY <1>2
    <2>2. ValueIn(EntriesOf(buckets), k) = e.data
      BY <2>1, ValueOfOnly DEF HashInv, Good
    <2>3. e.data \in stored
      BY DataAre DEF HashInv, Good
    <2> QED
      BY <1>1, <2>2, <2>3
  <1>3. CASE ~\E e \in EntriesOf(buckets) : e.key = k
    BY <1>1, <1>3, HashAssumption DEF ValueIn
  <1> QED
    BY <1>2, <1>3

LEMMA NarrowData ==
    ASSUME HashInv, NEW e \in EntriesOf(buckets) PROVE e.data # None
  <1>1. e.data \in Data
    BY EntriesAre DEF HashInv, Good, Entry
  <1> QED
    BY <1>1, HashAssumption

LEMMA DictionaryStep == HashInv /\ HashInv' /\ [Next]_vars => [Promise!Next]_Value
  <1> SUFFICES ASSUME HashInv, HashInv', [Next]_vars
               PROVE  Promise!Next \/ Value' = Value
    OBVIOUS
  <1> DEFINE E == EntriesOf(buckets)
             F == EntriesOf(buckets')
  <1>0. /\ Value = Table(E) /\ Value' = Table(F)
        /\ OnlyOnce(E) /\ OnlyOnce(F)
    BY ValueIs, ValueIsNext DEF HashInv, Good
  <1>1. ASSUME NEW n \in InitSizes, New(n) PROVE Value' = Value
    BY <1>0, <1>1, NewStep
  <1>2. ASSUME NEW k \in Keys, NEW d \in Data, Add(k, d)
        PROVE  Promise!Next \/ Value' = Value
    <2> DEFINE e == NewEntry(k, d)
    <2>1. F = E \cup {e} /\ (k \in Narrow => \A f \in E : f.key # k)
      BY <1>2, AddStep
    <2>2. e.key = k /\ e.data = d /\ d \notin stored
      BY <1>2 DEF NewEntry, Add
    <2> HIDE DEF e
    <2>3. e \notin E
      BY <2>2, DataAre DEF HashInv, Good
    <2> HIDE DEF E, F
    <2>4. Table(F) = IF k \in Narrow THEN [Table(E) EXCEPT ![k] = d] ELSE Table(E)
      BY <1>0, <2>1, <2>2, <2>3, TableMore
    <2>5. CASE k \in Narrow
      <3>1. Value' = [Value EXCEPT ![k] = d]
        BY <1>0, <2>4, <2>5
      <3>2. Value[k] = None
        BY <1>0, <2>1, <2>5 DEF Table, ValueIn
      <3>3. Promise!Fresh(d)
        BY <2>2, FreshData
      <3>4. Promise!Put(k, d)
        BY <3>1, <3>2, <3>3 DEF Promise!Put
      <3> QED
        BY <2>5, <3>4 DEF Promise!Next
    <2> QED
      BY <1>0, <2>4, <2>5
  <1>3. ASSUME NEW k \in Keys, NEW d \in Data, Replace(k, d)
        PROVE  Promise!Next
    <2>1. PICK e, f : /\ Holds(e, k) /\ f.key = k /\ f.data = d
                      /\ F = (E \ {e}) \cup {f}
      BY <1>3, ReplaceStep
    <2>2. d \notin stored
      BY <1>3, ReplaceStep
    <2>3. e \in E /\ e.key = k /\ k \in Narrow /\ e.data # None
      BY <2>1, NarrowData DEF Holds
    <2>4. f \notin E
      BY <2>1, <2>2, DataAre DEF HashInv, Good
    <2> HIDE DEF E, F
    <2>5. Table(E \ {e}) = [Table(E) EXCEPT ![k] = None] /\ Table(E)[k] = e.data
      BY <1>0, <2>3, TableLess
    <2>6. Table(F) = [Table(E \ {e}) EXCEPT ![k] = d]
      <3> DEFINE G == E \ {e}
      <3>1. OnlyOnce(G \cup {f}) /\ f \notin G /\ F = G \cup {f}
        BY <1>0, <2>1, <2>4
      <3> HIDE DEF G
      <3>2. Table(F) = [Table(G) EXCEPT ![k] = d]
        BY <2>1, <2>3, <3>1, TableMore
      <3> QED
        BY <3>2 DEF G
    <2>7. Value' = [Value EXCEPT ![k] = d]
      BY <1>0, <2>3, <2>5, <2>6 DEF Table
    <2>8. Value[k] # None
      BY <1>0, <2>3, <2>5
    <2>9. Promise!Fresh(d)
      BY <2>2, FreshData
    <2>10. Promise!Replace(k, d)
      BY <2>7, <2>8, <2>9 DEF Promise!Replace
    <2> QED
      BY <2>3, <2>10 DEF Promise!Next
  <1>4. ASSUME NEW k \in Keys, Drop(k) PROVE Promise!Next
    <2>1. PICK e : Holds(e, k) /\ F = E \ {e}
      BY <1>4, DropStep
    <2>2. e \in E /\ e.key = k /\ k \in Narrow /\ e.data # None
      BY <2>1, NarrowData DEF Holds
    <2> HIDE DEF E, F
    <2>3. Table(F) = [Table(E) EXCEPT ![k] = None] /\ Table(E)[k] = e.data
      BY <1>0, <2>1, <2>2, TableLess
    <2>4. Promise!Drop(k)
      BY <1>0, <2>2, <2>3 DEF Promise!Drop
    <2> QED
      BY <2>2, <2>4 DEF Promise!Next
  <1>5. CASE Destroy
    <2>1. F = {}
      BY <1>5, DestroyStep
    <2>2. Table({}) = [k \in Narrow |-> None]
      BY DEF Table, ValueIn
    <2> QED
      BY <1>0, <2>1, <2>2 DEF Promise!Next, Promise!Clear
  <1>6. CASE NewNoBuckets
    BY <1>0, <1>6, NoBucketsStep
  <1>7. CASE UNCHANGED vars
    BY <1>0, <1>7 DEF vars
  <1> QED
    BY <1>1, <1>2, <1>3, <1>4, <1>5, <1>6, <1>7 DEF Next

(***************************************************************************)
(* For the keys whose hash fits an int the table implements a dictionary,  *)
(* whatever other keys share its buckets and however it grows: what was    *)
(* put is found until it is replaced or removed, and nothing else is.      *)
(***************************************************************************)
THEOREM TableImplementsDictionary == Spec => ImplementsDictionary
  <1>1. Init => Promise!Init
    BY DEF Init, Promise!Init, Value
  <1> QED
    BY <1>1, HashInvariant, DictionaryStep, PTL DEF Spec, ImplementsDictionary, Promise!Spec
=============================================================================
