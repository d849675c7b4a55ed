-------------------------------- MODULE MCBloom --------------------------------
(***************************************************************************)
(* The filters that TLC checks: the default hash on words of eight bits,   *)
(* with a salt that gives other bits to a key than the salt 0, and one     *)
(* that gives the same.                                                    *)
(***************************************************************************)
EXTENDS Bloom, TLC

Default == INSTANCE ByteHash WITH WordBits <- 8, Shift <- 2

TwoKeys == {<<1>>, <<2>>}

SomeDefaultHash ==
    <<0, <<1>>>> :> 1 @@ <<1, <<1>>>> :> 5 @@ <<200, <<1>>>> :> 33 @@
    <<0, <<2>>>> :> 2 @@ <<1, <<2>>>> :> 6 @@ <<200, <<2>>>> :> 34

ASSUME HashesOfSalts ==
    \A p \in Salts \X TwoKeys : SomeDefaultHash[p] = Default!SaltedHash(p[1], p[2])

SomeOwnHash == [p \in (1..HashCount) \X BloomKeys |-> p[1] * p[2][1]]
=============================================================================
