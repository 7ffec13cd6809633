------------------------------- MODULE Vending -------------------------------
(***************************************************************************)
(* What the mystery boxes promise to those who pay: one game at a time at a *)
(* box, of whoever paid for it; the prize is shown before it is taken, and  *)
(* taken by that player, once. A game may also be lost: it times out, or    *)
(* something ends it. No node, table, spinner or map block here; MysteryBox *)
(* implements this.                                                         *)
(***************************************************************************)
EXTENDS Naturals

CONSTANTS Boxes, Players

VARIABLES
  games,   \* the games that are played: at which box, whose, is the prize shown
  paid,    \* paid[p]: the games p paid for
  taken    \* taken[p]: the prizes p was given

vars == <<games, paid, taken>>

Game(b, p, s) == [box |-> b, player |-> p, shown |-> s]

Init ==
  /\ games = {}
  /\ paid = [p \in Players |-> 0] /\ taken = [p \in Players |-> 0]

Pay(p, b) ==
  /\ \A g \in games : g.box # b
  /\ games' = games \cup {Game(b, p, FALSE)}
  /\ paid' = [paid EXCEPT ![p] = @ + 1]
  /\ UNCHANGED taken

Show(g) ==
  /\ ~g.shown
  /\ games' = (games \ {g}) \cup {Game(g.box, g.player, TRUE)}
  /\ UNCHANGED <<paid, taken>>

Take(g) ==
  /\ g.shown
  /\ games' = games \ {g}
  /\ taken' = [taken EXCEPT ![g.player] = @ + 1]
  /\ UNCHANGED paid

Lose(G) ==
  /\ games' = games \ G
  /\ UNCHANGED <<paid, taken>>

Next ==
  \/ \E p \in Players, b \in Boxes : Pay(p, b)
  \/ \E g \in games : Show(g) \/ Take(g)
  \/ \E G \in SUBSET games : Lose(G)

Spec == Init /\ [][Next]_vars
=============================================================================
