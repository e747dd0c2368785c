--------------------------- MODULE MCChunkStream ---------------------------
(* Small instances of ChunkStream for TLC: one dimension with two workers,  *)
(* and two dimensions with one.                                             *)
EXTENDS ChunkStream

CONSTANTS overworld, nether, w1, w2

MCWorkers == {w1, w2}
MCOneWorker == {w1}

\* chunk_fill: nobody owns the chunk in the west, and the gate may hold back
\* the one in the east.
MCLine == 0 .. 4
MCMiddle == <<overworld, 2>>
MCDims == {overworld}
MCOwned == MCDims \X (1 .. 4)
MCGates == {MCOwned, MCDims \X (1 .. 3)}
MCNone == {}

\* chunk_stream: a short line of chunks, and one beyond the portal.
MCShort == 1 .. 2
MCHome == <<overworld, 1>>
MCBusy == {MCHome}
MCTwoDims == {overworld, nether}
MCTwoOwned == MCDims \X MCShort \cup {<<nether, 1>>}
MCTwoGates == {MCTwoOwned}
=============================================================================
