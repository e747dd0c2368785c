------------------------------ MODULE MCShadow ------------------------------
(* Three pods with a common corner, one of which runs the overworld only.    *)
EXTENDS Shadow

CONSTANTS west, east, south, alice, zombie, overworld, nether, none

MCPods == {west, east, south}
MCPlayers == {alice}
MCMobs == {zombie}
MCDims == {overworld, nether}
MCDimsOf == [p \in MCPods |-> IF p = south THEN {overworld} ELSE MCDims]

\* A common corner; south is narrow, all of it near one of the others.
MCReaches ==
    [p \in MCPods |-> {MCPods \ {p}, IF p = south THEN {east} ELSE {}}]
=============================================================================
