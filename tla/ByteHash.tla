------------------------------- MODULE ByteHash -------------------------------
(***************************************************************************)
(* The hash function that jk_hash_default_hash and the default hash of     *)
(* jk_bloom_filter share, on words of WordBits bits for 32 and with shifts *)
(* of Shift bits for 4.  The first computes in a long, which is wider, and *)
(* clears the top bits of 32 in each step; a carry beyond them stays.  The *)
(* second computes in an unsigned int and begins with a salt.              *)
(***************************************************************************)
EXTENDS Integers, Sequences, SequencesExt, Bitwise

CONSTANTS
    WordBits,
    Shift

Top == 2^WordBits - 2^(WordBits - Shift)        \* 0xF0000000

\* h ^ (g >> 24) ^ g, where g has the top bits of h
Folded(h) == LET g == h & Top
             IN  (h ^^ (g \div 2^(WordBits - 2 * Shift))) ^^ g

JkHash(key) == FoldLeft(LAMBDA h, c : Folded(h * 2^Shift + c), 0, key)

SaltedHash(salt, key) ==
    FoldLeft(LAMBDA h, c : Folded((h * 2^Shift + c) % 2^WordBits), salt, key)
=============================================================================
