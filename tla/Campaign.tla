------------------------------ MODULE Campaign ------------------------------
(***************************************************************************)
(* What a match promises to those who play it: from the lobby, waves       *)
(* 1, 2, ... in order, each rewarded when it is cleared and before the     *)
(* next one comes; after the last one the match is won, and while waves    *)
(* are left it may be lost. Either end leaves one line in the Hall of Fame *)
(* and leads back to the lobby. The server may die at any time, and what   *)
(* was being fought is then given up. No invader, no count of them, no     *)
(* door, callback or time here; Match implements this.                     *)
(***************************************************************************)
EXTENDS Integers, Sequences

CONSTANT Waves

VARIABLES
  stage,   \* "lobby", "fight", "pause", "won", "lost", or "dead": nobody serves
  round,   \* the wave that is fought, or was last; 0 in the lobby
  paid,    \* the waves rewarded since START
  lines    \* what the Hall of Fame was told since START

vars == <<stage, round, paid, lines>>

Init == stage = "lobby" /\ round = 0 /\ paid = 0 /\ lines = <<>>

Start ==
  /\ stage = "lobby" /\ stage' = "fight"
  /\ round' = 1 /\ paid' = 0 /\ lines' = <<>>

Clear ==
  /\ stage = "fight" /\ round < Waves /\ stage' = "pause"
  /\ paid' = round
  /\ UNCHANGED <<round, lines>>

Advance ==
  /\ stage = "pause" /\ stage' = "fight"
  /\ round' = round + 1
  /\ UNCHANGED <<paid, lines>>

Win ==
  /\ stage = "fight" /\ round = Waves /\ stage' = "won"
  /\ paid' = round /\ lines' = <<Waves>>
  /\ UNCHANGED round

Lose ==
  /\ stage \in {"fight", "pause"} /\ stage' = "lost"
  /\ round' = 0 /\ lines' = <<-1>>
  /\ UNCHANGED paid

Die ==
  /\ stage \in {"lobby", "fight", "pause", "won"} /\ stage' = "dead"
  /\ UNCHANGED <<round, paid, lines>>

\* The reset after a victory, or a new process.
Return ==
  /\ stage \in {"won", "lost", "dead"} /\ stage' = "lobby"
  /\ round' = 0
  /\ UNCHANGED <<paid, lines>>

Next == Start \/ Clear \/ Advance \/ Win \/ Lose \/ Die \/ Return

Spec == Init /\ [][Next]_vars
=============================================================================
