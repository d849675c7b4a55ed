----------------------------- MODULE MCHashTable -----------------------------
(***************************************************************************)
(* The instance of HashTable that TLC checks, with the default hash on     *)
(* words of eight bits: two keys with one hash, one that meets them in a   *)
(* table of two buckets, and one for which a carry leaves the word and     *)
(* whose int is the hash of the third key.                                 *)
(***************************************************************************)
EXTENDS HashTable, TLC

CONSTANTS
    WordBits,           \* of the unsigned int in jk_hash_default_hash
    Shift

ASSUME IntOfThatWidth == IntLimit = 2^(WordBits - 1)

Default == INSTANCE ByteHash

FourKeys == {<<5>>, <<1, 1>>, <<3>>, <<2, 6, 7, 7>>}

TheirHashes == <<5>> :> 5 @@ <<1, 1>> :> 5 @@ <<3>> :> 3 @@ <<2, 6, 7, 7>> :> 259

ASSUME HashesOfKeys == \A k \in FourKeys : TheirHashes[k] = Default!JkHash(k)

ThreeSizes == <<2, 3, 7>>

DataSymmetry == Permutations(Data)
=============================================================================
