------------------------------ MODULE MCEmerge ------------------------------
(* Small worlds for Emerge: a chunk of two blocks, of which the database      *)
(* may hold one, and a position beyond the limit of the map.                 *)
EXTENDS Emerge

CONSTANTS b1, b2, far, p1, server

MCBlocks == {b1, b2, far}
MCChunkOf == [x \in MCBlocks |-> IF x = far THEN {far} ELSE {b1, b2}]
MCAround == MCChunkOf

MCWorlds == {{}, {"blank", "script"}, {"chained", "invalid", "slow"}}
MCMaxAsks == [w \in SUBSET AllPerils |-> IF "script" \in w THEN 1 ELSE 2]
MCOnDisk == [w \in SUBSET AllPerils |-> IF "invalid" \in w THEN {b2} ELSE {}]
Chained == {{"chained"}}
=============================================================================
