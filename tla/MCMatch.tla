------------------------------ MODULE MCMatch ------------------------------
(***************************************************************************)
(* Instances of Match for TLC.                                             *)
(***************************************************************************)
EXTENDS Match, TLC

TwoWaves   == <<2, 1>>
OneEach    == <<1, 1>>
NoBoss     == <<"none", "none">>
LastBoss   == <<"none", "summoner">>
TitanLast  == <<"none", "titan">>
SmallHp    == [runner |-> 3, titan |-> 3, summoner |-> 3]
TinyHp     == [runner |-> 1, titan |-> 1, summoner |-> 1]
Symmetry   == Permutations(Ids)
=============================================================================
