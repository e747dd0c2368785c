--------------------------- MODULE MCWorldCaches ---------------------------
(* Small instances of WorldCaches for TLC. *)
EXTENDS WorldCaches, TLC

CONSTANTS air, leaf, stone, torch, hub, conn, builder

MCFilter   == air :> 0 @@ leaf :> 1 @@ stone :> Opaque @@ torch :> 0
MCEmission == air :> 0 @@ leaf :> 0 @@ stone :> 0 @@ torch :> MaxLevel

\* A floor, and a roof over columns 4 to 9: a tunnel across the border of
\* chunks 1 and 2, dark in the middle, with the sky at both mouths.
Tunnel == [c \in Cells |->
    IF c[2] = 0 \/ (c[2] = 2 /\ c[1] \in 4..9) THEN stone ELSE air]

\* Either side of the border: a hole in the roof, and a torch or a wall below it.
BorderSites == <<7, 2>> :> {air, leaf} @@ <<8, 1>> :> {torch, stone}

\* Two cells of one column: its roof, and what is under it.
ColumnSites == <<7, 2>> :> {air, leaf} @@ <<7, 1>> :> {torch, stone}
=============================================================================
