---------------------------- MODULE MCMysteryBox ----------------------------
(* Small worlds for MysteryBox: the house's box, one tower's, two players.   *)
EXTENDS MysteryBox, TLC

CONSTANTS h, t1, p1, p2, s1, s2, s3

MCTowers  == {t1}
MCPlayers == {p1, p2}
OnePlayer == {p1}
TwoSlots  == {s1, s2}
MCSlots   == {s1, s2, s3}
MCSymmetry == Permutations(MCSlots)
MCWorlds   == {{"stop"}, {"blow", "unload", "reset"}}
BlowsAndUnload == {{"blow", "unload"}}
=============================================================================
