--------------------------------- MODULE Bloom ---------------------------------
(***************************************************************************)
(* jk_bloom_filter.c: filters in bit arrays of their users.  The default   *)
(* hash functions depend on salts that belong to the program, not to a     *)
(* filter, and that are drawn again whenever a filter is set up with them. *)
(***************************************************************************)
EXTENDS Integers

CONSTANTS
    Filters,
    BloomKeys,
    HashCount,          \* the 8 functions of a filter
    BitCount,           \* filter->size
    Salts,              \* what rand may give, 0 among it
    DefaultHash,        \* jk_bloom_filter_default_hash, of a salt and a key
    OwnHash             \* a hash function of the user, of an index and a key

ASSUME BloomAssumption ==
    /\ 0 \in Salts
    /\ HashCount \in Nat \ {0} /\ BitCount \in Nat \ {0}
    /\ DefaultHash \in [Salts \X BloomKeys -> Nat]
    /\ OwnHash \in [(1..HashCount) \X BloomKeys -> Nat]

VARIABLES
    salts,              \* __salts
    hash,               \* filter->hash, or none if there is no filter
    bits,               \* the bits of the array that are set
    added,              \* history: the keys a filter must still report
    touched             \* history: the filters in which a key was set

bloomVars == <<salts, hash, bits, added, touched>>

BloomInit == /\ salts = [i \in 1..HashCount |-> 0]
             /\ hash = [f \in Filters |-> "none"]
             /\ bits = [f \in Filters |-> {}]
             /\ added = [f \in Filters |-> {}]
             /\ touched = {}

(***************************************************************************)
(* jk_bloom_filter_init_salts.  The continue of the loop that compares the *)
(* new salt with the earlier ones ends no more than one turn of that loop: *)
(* any salts can come out.                                                 *)
(***************************************************************************)
DrawnSalts == [1..HashCount -> Salts]

(* jk_bloom_filter_init of an array, alone or in jk_bloom_filter_new; the  *)
(* keys that were set with the former salts are no longer promised.        *)
SetUpDefault(f) ==
    /\ hash' = [hash EXCEPT ![f] = "default"]
    /\ salts' \in DrawnSalts
    /\ added' = [g \in Filters |-> IF hash'[g] = "default" THEN {} ELSE added[g]]

SetUpOwn(f) == /\ hash' = [hash EXCEPT ![f] = "own"]
               /\ added' = [added EXCEPT ![f] = {}]
               /\ UNCHANGED salts

(* Faulty variants, named for the fault, stand before the definition they  *)
(* would replace; no specification uses them.                              *)
BitsKept(f) == bits[f]
BitsCleared(f) == {}

SetUp(f) == /\ SetUpDefault(f) \/ SetUpOwn(f)
            /\ bits' = [bits EXCEPT ![f] = BitsCleared(f)]
            /\ touched' = touched \ {f}

\* the bit of the key in filter f for one of its functions
Index(f, k, i) == (IF hash[f] = "own" THEN OwnHash[<<i, k>>] ELSE DefaultHash[<<salts[i], k>>])
                      % BitCount

(* jk_bloom_filter_set                                                     *)
BloomSet(f, k) == /\ hash[f] # "none"
                  /\ bits' = [bits EXCEPT ![f] = @ \cup {Index(f, k, i) : i \in 1..HashCount}]
                  /\ added' = [added EXCEPT ![f] = @ \cup {k}]
                  /\ touched' = touched \cup {f}
                  /\ UNCHANGED <<salts, hash>>

(* jk_bloom_filter_isset                                                   *)
IsSet(f, k) == \A i \in 1..HashCount : Index(f, k, i) \in bits[f]

(* jk_bloom_filter_free                                                    *)
BloomFree(f) == /\ hash[f] # "none"
                /\ hash' = [hash EXCEPT ![f] = "none"]
                /\ added' = [added EXCEPT ![f] = {}]
                /\ touched' = touched \ {f}
                /\ UNCHANGED <<salts, bits>>

BloomNext == \E f \in Filters : \/ SetUp(f) \/ BloomFree(f)
                                \/ \E k \in BloomKeys : BloomSet(f, k)

BloomSpec == BloomInit /\ [][BloomNext]_bloomVars

-----------------------------------------------------------------------------
(***************************************************************************)
(* A filter reports every key that was set in it, as long as no filter was *)
(* set up with the default hash since, or its own hash is another one; and *)
(* a filter in which no key was set reports none.  The salts that all      *)
(* filters share make the first condition necessary.                       *)
(***************************************************************************)
NoFalseNegative ==
    \A f \in Filters : hash[f] # "none" =>
        \A k \in BloomKeys : /\ k \in added[f] => IsSet(f, k)
                             /\ f \notin touched => ~IsSet(f, k)

(* "make sure all salts are different", once they were drawn.              *)
SaltsDiffer ==
    (\E f \in Filters : hash[f] = "default") =>
        \A i, j \in 1..HashCount : salts[i] = salts[j] => i = j
=============================================================================
