------------------------------- MODULE SkipList -------------------------------
(***************************************************************************)
(* jk_skip.c: a skip list.  A node is a block that malloc hands out with   *)
(* as many links as the level drawn for it; the node does not record how   *)
(* many that is, so that jk_skip_delete has to find out from the links     *)
(* that lead to it.  A value is opaque, and a node stands for its value.   *)
(*                                                                         *)
(* No address is compared with another one, so that it does not matter     *)
(* which block malloc hands out: the model takes the first that is free.   *)
(*                                                                         *)
(* The level drawn has no bound in the code, whose arrays have 32 places;  *)
(* the model draws levels up to SkipMaxLevel.                              *)
(***************************************************************************)
EXTENDS Integers, Sequences, FiniteSets, FiniteSetsExt

CONSTANTS
    SkipNodes,          \* the blocks malloc may hand out
    Header,             \* list->header
    Null,
    SkipKeys,
    SkipMaxLevel        \* JK_SKIP_MAX_LEVEL

ASSUME SkipAssumption ==
    /\ SkipNodes \subseteq Nat /\ IsFiniteSet(SkipNodes)
    /\ Header \notin SkipNodes /\ Null \notin SkipNodes \cup {Header}
    /\ SkipKeys \subseteq Nat
    /\ SkipMaxLevel \in Nat \ {0}

VARIABLES
    forward,            \* the links of every block, as many as were allocated
    keyof,              \* the key of every block
    level,              \* list->level, 0 when there is no list
    length              \* list->length

skipVars == <<forward, keyof, level, length>>

Allocated == {n \in SkipNodes : forward[n] # <<>>}

SkipInit == /\ forward = [n \in SkipNodes \cup {Header} |-> <<>>]
            /\ keyof = [n \in SkipNodes |-> 0]
            /\ level = 0
            /\ length = 0

(* jk_skip_new                                                             *)
SkipNew == /\ level = 0
           /\ forward' = [forward EXCEPT ![Header] = [i \in 1..SkipMaxLevel |-> Null]]
           /\ level' = 1
           /\ UNCHANGED <<keyof, length>>

-----------------------------------------------------------------------------
(* Faulty variants, named for the fault, stand before the definition they  *)
(* would replace; no specification uses them.                              *)
BeforeOrAt(k, i, n) == forward[n][i] # Null /\ keyof[forward[n][i]] <= k
Before(k, i, n) == forward[n][i] # Null /\ keyof[forward[n][i]] < k

(***************************************************************************)
(* The search that insertion, deletion and find begin with: on each level, *)
(* from the top, the last node whose key is smaller, beginning where the   *)
(* level above left off.                                                   *)
(***************************************************************************)
LastBefore(k, i, from) ==
    LET N == Cardinality(SkipNodes)
        n[s \in 0..N] ==
            IF s = 0 THEN from
            ELSE LET m == n[s-1] IN IF Before(k, i, m) THEN forward[m][i] ELSE m
    IN  n[N]

Update(k) ==
    LET update[i \in 1..level] ==
            LastBefore(k, i, IF i = level THEN Header ELSE update[i + 1])
    IN  update

\* jk_skip_find_node
SkipFind(k) == LET n == forward[Update(k)[1]][1]
               IN  IF n # Null /\ keyof[n] = k THEN n ELSE Null

(* The blocks of the lowest level behind the header, in the order of its    *)
(* links: the loop of jk_skip_free.                                        *)
NextOf == [n \in DOMAIN forward \cup {Null} |->
              IF n = Null \/ forward[n] = <<>> THEN Null ELSE forward[n][1]]

Row == LET N == Cardinality(SkipNodes)
           n[s \in 0..N] == IF s = 0 THEN Header ELSE NextOf[n[s-1]]
       IN  SubSeq([s \in 1..N |-> n[s]], 1, Cardinality({s \in 1..N : n[s] # Null}))

-----------------------------------------------------------------------------
(* malloc of a node                                                        *)
FreeBlocks == SkipNodes \ Allocated
Block == Min(FreeBlocks)

(* jk_skip_insert with the level that was drawn.  The levels that the list *)
(* did not have begin at the header.                                       *)
SkipInsert(k, drawn) ==
    /\ level > 0 /\ FreeBlocks # {}
    /\ level' = Max({level, drawn})
    /\ keyof' = [keyof EXCEPT ![Block] = k]
    /\ LET n == Block
           found == Update(k)
           update == [i \in 1..drawn |-> IF i <= level THEN found[i] ELSE Header]
       IN  forward' = [m \in DOMAIN forward |->
                IF m = n THEN [i \in 1..drawn |-> forward[update[i]][i]]
                ELSE [i \in DOMAIN forward[m] |->
                        IF i <= drawn /\ update[i] = m THEN n ELSE forward[m][i]]]
    /\ length' = length + 1

(* malloc fails after list->level was raised.                              *)
SkipNoMem(drawn) == /\ level > 0
                    /\ level' = Max({level, drawn})
                    /\ UNCHANGED <<forward, keyof, length>>

(* The levels from which jk_skip_delete unlinks node n: those below the    *)
(* first one on which update[i] does not lead to n.                        *)
LowestOnly(update, n) == {1}
LinkedLevels(update, n) ==
    {i \in 1..level : \A j \in 1..i : forward[update[j]][j] = n}

\* list->level after the levels without a node are given up
Lowered(links) == Max({1} \cup {i \in 1..level : links[i] # Null})

(* jk_skip_delete of a key that is found                                   *)
SkipDelete(k) ==
    /\ level > 0 /\ SkipFind(k) # Null
    /\ LET n == SkipFind(k)
           update == Update(k)
           levels == LinkedLevels(update, n)
           links == [m \in DOMAIN forward |-> [i \in DOMAIN forward[m] |->
                        IF i \in levels /\ update[i] = m THEN forward[n][i]
                        ELSE forward[m][i]]]
       IN  /\ forward' = [links EXCEPT ![n] = <<>>]
           /\ keyof' = [keyof EXCEPT ![n] = 0]
           /\ level' = Lowered(links[Header])
    /\ length' = length - 1

(* jk_skip_free frees the header and the nodes of the lowest level.        *)
SkipFree == /\ level > 0
            /\ LET freed == {Header} \cup {Row[s] : s \in DOMAIN Row}
               IN  /\ forward' = [n \in DOMAIN forward |->
                                    IF n \in freed THEN <<>> ELSE forward[n]]
                   /\ keyof' = [n \in SkipNodes |-> IF n \in freed THEN 0 ELSE keyof[n]]
            /\ level' = 0
            /\ length' = 0

SkipNext == \/ SkipNew \/ SkipFree
            \/ \E k \in SkipKeys : SkipDelete(k)
            \/ \E drawn \in 1..SkipMaxLevel :
                  SkipNoMem(drawn) \/ \E k \in SkipKeys : SkipInsert(k, drawn)

SkipSpec == SkipInit /\ [][SkipNext]_skipVars

-----------------------------------------------------------------------------
(* The first block of a row behind place s that has a link i.              *)
FirstWith(row, i, s) ==
    LET later == {t \in DOMAIN row : t > s /\ i \in DOMAIN forward[row[t]]}
    IN  IF later = {} THEN Null ELSE row[Min(later)]

(* Every link leads to the next block that has a link of its level, and    *)
(* the levels above list->level are empty.                                 *)
LevelsNested ==
    LET row == Row
    IN  /\ \A i \in DOMAIN forward[Header] :
              /\ forward[Header][i] = FirstWith(row, i, 0)
              /\ i > level => forward[Header][i] = Null
        /\ \A s \in DOMAIN row : \A i \in DOMAIN forward[row[s]] :
              forward[row[s]][i] = FirstWith(row, i, s)

(* The lowest level has every node that is allocated, once and by key.     *)
LowestHasAll ==
    LET row == Row
    IN  /\ {row[s] : s \in DOMAIN row} = Allocated
        /\ Cardinality(DOMAIN row) = Cardinality(Allocated)
        /\ length = Cardinality(Allocated)
        /\ \A s, t \in DOMAIN row : s < t => keyof[row[s]] <= keyof[row[t]]

(* The nodes of one key: they stand behind those with smaller keys.        *)
Under(k) == SubSeq(Row, Cardinality({n \in Allocated : keyof[n] < k}) + 1,
                        Cardinality({n \in Allocated : keyof[n] <= k}))

(***************************************************************************)
(* Through insertions of equal keys, deletions and failures of malloc that *)
(* leave the level of the list raised, no link leads to a node that was    *)
(* freed, no node is lost, and every search that descends through the      *)
(* levels ends where a search of the lowest level would.                   *)
(***************************************************************************)
SkipShape == /\ LevelsNested /\ LowestHasAll
             /\ level > 0 => \A k \in SkipKeys :
                    SkipFind(k) = IF Under(k) = <<>> THEN Null ELSE Head(Under(k))

Stacks == INSTANCE KeyedStacks WITH
                Keys <- SkipKeys, Values <- SkipNodes,
                stacks <- [k \in SkipKeys |-> Under(k)]

(* The list keeps the values of a key as a stack, whatever levels are      *)
(* drawn for their nodes.                                                  *)
ImplementsStacks == Stacks!Spec
=============================================================================
