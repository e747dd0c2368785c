----------------------------- MODULE MCWindows -----------------------------
(* A small instance of Windows for TLC: a chest a structure stocked with one *)
(* item, a dispenser to be placed, and two players with nothing, one of whom *)
(* may walk to a seam.  Every place holds one item at most, so a second item *)
(* (of a chest broken and placed again) finds no room.                      *)
EXTENDS Windows

CONSTANTS alice, bob, chest, dispenser

MCPlayers == {alice, bob}
MCRoamers == {alice}
MCChests == {chest}
MCBins == {dispenser}
MCStock == [p \in {chest, dispenser} |-> IF p = chest THEN 1 ELSE 0]
MCStart == [s \in MCPlayers |-> 0]

\* What follows one of the cases Conserved excepts is not explored.
Sound == ~stale /\ ~torn
=============================================================================
