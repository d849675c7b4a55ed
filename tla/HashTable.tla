------------------------------- MODULE HashTable -------------------------------
(***************************************************************************)
(* jk_hash.c: a chained hash table that grows.  The hash function returns  *)
(* a long; the entry keeps it in an int, and the three places that use it  *)
(* do not agree: a search compares the int with the long, an insertion     *)
(* takes the bucket of the long, and a rehash takes the bucket of the int, *)
(* converted to unsigned.                                                  *)
(*                                                                         *)
(* A key whose hash fits the int is found again; one whose hash does not   *)
(* is never found and gets an entry at every insertion.  Keys of both      *)
(* sorts share the table here.  A negative hash is outside the model: the  *)
(* code would index before the buckets.                                    *)
(***************************************************************************)
EXTENDS Integers, Sequences, SequencesExt, FiniteSets, FiniteSetsExt

CONSTANTS
    Keys,           \* keys that differ as strings
    Data,           \* the values users store
    None,           \* no value
    HashOf,         \* what o->hash returns for a key, a long
    IntLimit,       \* INT_MAX + 1
    BucketSizes,    \* jk_hash_buckets_size without the 0 at its end
    InitSizes       \* the values of init_buckets

ASSUME HashAssumption ==
    /\ None \notin Data
    /\ IntLimit \in Nat \ {0}
    /\ HashOf \in [Keys -> Nat]
    /\ BucketSizes \in Seq(Nat \ {0}) /\ BucketSizes # <<>>
    /\ \A i, j \in DOMAIN BucketSizes : i < j => BucketSizes[i] < BucketSizes[j]
    /\ InitSizes \subseteq Nat

VARIABLES
    live,           \* whether the table exists
    buckets,        \* the chain of every bucket
    buckets_size,
    elm_nums,
    stored,         \* history: the values in the table, for which o->free was not called
    misfreed        \* history: whether the user's free function was given a table

vars == <<live, buckets, buckets_size, elm_nums, stored, misfreed>>

-----------------------------------------------------------------------------
(* What an int keeps of a long.                                            *)
ToInt(h) == LET low == h % (2 * IntLimit)
            IN  IF low < IntLimit THEN low ELSE low - 2 * IntLimit

\* the keys whose hash an int can hold
Narrow == {k \in Keys : ToInt(HashOf[k]) = HashOf[k]}

(* Faulty variants, named for the fault, stand before the definition they  *)
(* would replace; no specification uses them.                              *)
BucketIgnoresGrowth(k, n) == HashOf[k] % BucketSizes[1]
BucketOf(k, n) == HashOf[k] % n

SameEntry(e, k) == e.hashval = HashOf[k] /\ e.key = k

(* The place of a key in its chain, or 0: the loop of jk_hash_find, of     *)
(* jk_hash_insert and of jk_hash_remove.                                   *)
PlaceOf(k) == SelectInSeq(buckets[BucketOf(k, buckets_size)],
                          LAMBDA e : SameEntry(e, k))

(* jk_hash_find: the data the caller gets, if any.                         *)
Find(k) == IF PlaceOf(k) = 0 THEN None
           ELSE buckets[BucketOf(k, buckets_size)][PlaceOf(k)].data

Clamp(n) == LET least == BucketSizes[1]
                most == BucketSizes[Len(BucketSizes)]
            IN  IF n < least THEN least ELSE IF n > most THEN most ELSE n

NoChains(n) == [i \in 0..n-1 |-> <<>>]

-----------------------------------------------------------------------------
(***************************************************************************)
(* jk_hash_rehash: the next size, and every entry moved to the front of    *)
(* its new chain, in the order of the old buckets and chains.              *)
(***************************************************************************)
NextSize(n) == LET larger == {s \in ToSet(BucketSizes) : s > n}
               IN  IF larger = {} THEN BucketSizes[Len(BucketSizes)] ELSE Min(larger)

(* Where the entries of the buckets B hang: a bucket and a place of its     *)
(* chain.                                                                  *)
Places(B) == UNION {{i} \X DOMAIN B[i] : i \in DOMAIN B}
EntryAt(B, p) == B[p[1]][p[2]]

BucketOfInt(e, m) == (e.hashval % (2 * IntLimit)) % m

(* e = next: the loop goes on behind the first entry of chain i.           *)
ChainLeft(B, i) == [B EXCEPT ![i] = <<>>]
FirstTaken(B, i) == [B EXCEPT ![i] = Tail(@)]

(* One round of the loop: the first entry of those that are left goes to   *)
(* the front of its new chain.                                             *)
MoveEntry(s, m) ==
    LET left == {i \in DOMAIN s.old : s.old[i] # <<>>}
        i == Min(left)
        e == Head(s.old[i])
    IN  IF left = {} THEN s
        ELSE [old |-> FirstTaken(s.old, i),
              new |-> [s.new EXCEPT ![BucketOfInt(e, m)] = <<e>> \o @]]

Rehashed(B, m) ==
    LET N == Cardinality(Places(B))
        moved[k \in 0..N] == IF k = 0 THEN [old |-> B, new |-> NoChains(m)]
                             ELSE MoveEntry(moved[k-1], m)
    IN  moved[N].new

MustGrow == 3 * elm_nums' > 2 * buckets_size

-----------------------------------------------------------------------------
Init == /\ live = FALSE
        /\ buckets = NoChains(0)
        /\ buckets_size = 0
        /\ elm_nums = 0
        /\ stored = {}
        /\ misfreed = FALSE

(* jk_hash_new or jk_hash_init; in the latter a calloc that fails changes  *)
(* nothing.                                                                *)
New(n) == /\ ~live /\ live' = TRUE
          /\ buckets_size' = Clamp(n)
          /\ buckets' = NoChains(Clamp(n))
          /\ elm_nums' = 0
          /\ UNCHANGED <<stored, misfreed>>

(***************************************************************************)
(* The calloc of jk_hash_new fails.  In free(o) the name is that of the    *)
(* parameter: the function for the values is called with the table, which  *)
(* is lost unless that function frees it.  With a null pointer the program *)
(* ends there; otherwise the caller goes on without a table.               *)
(***************************************************************************)
NewNoBuckets == /\ ~live
                /\ misfreed' = TRUE
                /\ UNCHANGED <<live, buckets, buckets_size, elm_nums, stored>>

(***************************************************************************)
(* jk_hash_insert of a key that is found, with "replace".  Without it the  *)
(* table does not change, nor does it when malloc fails.                   *)
(***************************************************************************)
ReplaceUnreleased(k, d) == stored' = stored \cup {d}
HandOver(k, d) == stored' = (stored \ {Find(k)}) \cup {d}

Replace(k, d) == /\ live /\ d \notin stored
                 /\ PlaceOf(k) # 0
                 /\ buckets' = [buckets EXCEPT
                        ![BucketOf(k, buckets_size)][PlaceOf(k)].data = d]
                 /\ HandOver(k, d)
                 /\ UNCHANGED <<live, buckets_size, elm_nums, misfreed>>

(* jk_hash_insert of a key that is not found, and the rehash that may      *)
(* follow.  When calloc fails in the rehash the table keeps its buckets, so *)
(* a table that should grow may always be found not to have grown.         *)
Add(k, d) ==
    /\ live /\ d \notin stored
    /\ PlaceOf(k) = 0
    /\ elm_nums' = elm_nums + 1
    /\ stored' = stored \cup {d}
    /\ LET e == [key |-> k, hashval |-> ToInt(HashOf[k]), data |-> d]
           B == [buckets EXCEPT ![BucketOf(k, buckets_size)] = @ \o <<e>>]
           m == NextSize(buckets_size)
       IN  \/ /\ buckets' = B     \* there is room, or calloc fails
              /\ UNCHANGED buckets_size
           \/ /\ MustGrow /\ m # buckets_size
              /\ buckets' = Rehashed(B, m)
              /\ buckets_size' = m
    /\ UNCHANGED <<live, misfreed>>

(* jk_hash_remove of a key that is found                                   *)
Drop(k) == /\ live
           /\ PlaceOf(k) # 0
           /\ buckets' = [buckets EXCEPT
                  ![BucketOf(k, buckets_size)] = RemoveAt(@, PlaceOf(k))]
           /\ stored' = stored \ {Find(k)}
           /\ elm_nums' = elm_nums - 1
           /\ UNCHANGED <<live, buckets_size, misfreed>>

(* jk_hash_free                                                            *)
Destroy == /\ live /\ live' = FALSE
           /\ stored' = stored \ {EntryAt(buckets, p).data : p \in Places(buckets)}
           /\ buckets' = NoChains(0)
           /\ buckets_size' = 0
           /\ elm_nums' = 0
           /\ UNCHANGED misfreed

Next == \/ NewNoBuckets \/ \E n \in InitSizes : New(n)
        \/ \E k \in Keys, d \in Data : Add(k, d) \/ Replace(k, d)
        \/ \E k \in Keys : Drop(k)
        \/ Destroy

Spec == Init /\ [][Next]_vars

-----------------------------------------------------------------------------
Entry == [key : Keys, hashval : -IntLimit..IntLimit-1, data : Data]

(* Every field keeps its type.                                             *)
TypeOK == /\ live \in BOOLEAN /\ misfreed \in BOOLEAN
          /\ buckets_size \in Nat /\ elm_nums \in Nat
          /\ stored \subseteq Data
          /\ buckets \in [0..buckets_size-1 -> Seq(Entry)]

(* elm_nums, which decides when the table grows, counts the entries.       *)
CountExact == elm_nums = Cardinality(Places(buckets))

(* A key whose hash fits an int has one entry, where a search looks for it. *)
OneEntryPerKey ==
    \A k \in Narrow : \A p, q \in Places(buckets) :
        EntryAt(buckets, p).key = k /\ EntryAt(buckets, q).key = k
            => p = q /\ Find(k) = EntryAt(buckets, p).data

(***************************************************************************)
(* No rehash loses an entry or a count of one, also when keys are inserted *)
(* that the table will not find, and whatever the table has grown through  *)
(* an entry hangs where a search in a table of the present size looks for  *)
(* it: only keys whose hash does not fit an int get a second one.          *)
(***************************************************************************)
TableExact == TypeOK /\ CountExact /\ OneEntryPerKey

(***************************************************************************)
(* A value the table was given is in one entry until o->free is called for *)
(* it, and in none after: none is leaked, and none is freed twice.         *)
(***************************************************************************)
DataOwnedOnce ==
    /\ stored = {EntryAt(buckets, p).data : p \in Places(buckets)}
    /\ \A p, q \in Places(buckets) :
          EntryAt(buckets, p).data = EntryAt(buckets, q).data => p = q

-----------------------------------------------------------------------------
(* What the table maps the keys to whose hash fits an int.                 *)
Value == [k \in Narrow |-> IF live THEN Find(k) ELSE None]

Promise == INSTANCE Dictionary WITH Keys <- Narrow, value <- Value

(* For the keys whose hash fits an int the table implements a dictionary,  *)
(* also when other keys share its buckets.                                 *)
ImplementsDictionary == Promise!Spec
=============================================================================
