------------------------------ MODULE Dictionary ------------------------------
(***************************************************************************)
(* What jk_hash promises its users, with no buckets and no chains: at most *)
(* one value for each key, found again until it is replaced or removed.    *)
(***************************************************************************)

CONSTANTS
    Keys,
    Data,       \* the values users store
    None        \* the value of a key that is not in the dictionary

VARIABLE value

TypeOK == value \in [Keys -> Data \cup {None}]

Init == value = [k \in Keys |-> None]

(* A value is in the dictionary once.                                      *)
Fresh(d) == \A k \in Keys : value[k] # d

Put(k, d) == /\ value[k] = None /\ Fresh(d)
             /\ value' = [value EXCEPT ![k] = d]

Replace(k, d) == /\ value[k] # None /\ Fresh(d)
                 /\ value' = [value EXCEPT ![k] = d]

Drop(k) == /\ value[k] # None
           /\ value' = [value EXCEPT ![k] = None]

Clear == value' = [k \in Keys |-> None]

Next == \/ \E k \in Keys, d \in Data : Put(k, d) \/ Replace(k, d)
        \/ \E k \in Keys : Drop(k)
        \/ Clear

Spec == Init /\ [][Next]_value
=============================================================================
