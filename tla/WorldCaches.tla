---------------------------- MODULE WorldCaches ----------------------------
(***************************************************************************)
(* What a world keeps beside its blocks (package world): the edit overlay  *)
(* over the generated chunks, and three things derived from them, each     *)
(* under a lock of its own: the light cache (lightMu), the heightmaps      *)
(* (hmMu) and the index of points of interest (poi.mu).  Connections and   *)
(* the hub edit; chunk builders and the hub read light; the hub asks for   *)
(* heights and points of interest.                                         *)
(*                                                                         *)
(* SetBlock is four critical sections in a row: the overlay write and the  *)
(* relight, both under lightMu, then the index, then the heightmaps.  A    *)
(* light fill notes the version of its chunk, reads three overlays one by  *)
(* one, and comes back to the lock.  The version itself is only ever       *)
(* compared with the one noted, so the model keeps who was overtaken.      *)
(***************************************************************************)
EXTENDS LightEngine, Functions

CONSTANTS
    Editors,     \* threads that edit: the hub, connections
    Fillers,     \* threads that read light: chunk builders, the hub
    Askers,      \* threads that ask for heights and points of interest: the hub
    NoOne,       \* lightMu is free
    Terrain,     \* [Cells -> States]: what generation makes
    Placeable,   \* sites that edits reach, and the states they are given
    Blocking,    \* states a heightmap counts
    Points,      \* states that are points of interest
    Ticketed,    \* chunks the memory cache never drops
    Asked,       \* chunks whose light, heights or points anyone asks for
    LightCap     \* chunks the light cache holds

Threads == Editors \union Fillers \union Askers
Sites   == DOMAIN Placeable

ASSUME CachesAssumption ==
    /\ NoOne \notin Threads
    /\ Terrain \in [Cells -> States]
    /\ Sites \subseteq Cells
    /\ \A c \in Sites : Placeable[c] \subseteq States
    /\ Blocking \subseteq States /\ Points \subseteq States
    /\ Ticketed \subseteq Chunks /\ Asked \subseteq Chunks
    /\ LightCap \in Nat \ {0}

VARIABLES
    loaded,     \* chunks in the memory cache of generated chunks
    edits,      \* the overlay: states of the edited sites
    lightMu,    \* the thread that holds it, or NoOne
    light,      \* cached light, by chunk
    heights,    \* heightmaps of loaded chunks: the first free y of each column
    points,     \* points of interest, by chunk
    pc,         \* "idle", "relight", "index", "height", "fill", "store"
    job,        \* what a busy thread is about
    overtaken,  \* fillers whose chunk's lightVer moved since they noted it
    missed,     \* history: chunks edited between a scan's look and its store
    crossed     \* history: columns one of whose cells had two edits in flight

vars == <<loaded, edits, lightMu, light, heights, points, pc, job, overtaken, missed, crossed>>

Idle == [cell |-> <<0, 0>>]

Init ==
    /\ loaded = Ticketed
    /\ edits = <<>>
    /\ lightMu = NoOne
    /\ light = <<>>
    /\ heights = <<>>
    /\ points = <<>>
    /\ pc = [t \in Threads |-> "idle"]
    /\ job = [t \in Threads |-> Idle]
    /\ overtaken = {}
    /\ missed = {}
    /\ crossed = {}

Without(f, S) == [x \in DOMAIN f \ S |-> f[x]]
With(f, x, v) == [y \in DOMAIN f \union {x} |-> IF y = x THEN v ELSE f[y]]

\* World.At: the edit if there is one, what generation made if not.
At(c)  == IF c \in DOMAIN edits THEN edits[c] ELSE Terrain[c]
Blocks == [c \in Cells |-> At(c)]

Become(t, step, what) == pc' = [pc EXCEPT ![t] = step] /\ job' = [job EXCEPT ![t] = what]
Done(t) == Become(t, "idle", Idle)

-----------------------------------------------------------------------------
(* SetBlock and RevertEdit.                                                *)

\* Threads between the overlay write and the heightmap update of cell c.
Editing   == {t \in Editors : pc[t] \in {"relight", "index", "height"}}
Pending(c) == {t \in Editing : job[t].cell = c}
Column(x)  == {t \in Editing : job[t].cell[1] = x}

\* Askers between a look at chunk k and the store of what they saw.
Looking(k) == {t \in Askers : pc[t] = "store" /\ job[t].chunk = k}

\* What both do first, under lightMu and mu: the overlay now says now.  The
\* lock is kept for the relight, which an edit that was not there needs not.
Write(t, c, now, relights) ==
    /\ pc[t] = "idle"
    /\ lightMu = NoOne
    /\ edits' = now
    /\ lightMu' = IF relights THEN t ELSE NoOne
    /\ Become(t, IF relights THEN "relight" ELSE "index",
              [cell |-> c, old |-> At(c),
               state |-> IF c \in DOMAIN now THEN now[c] ELSE Terrain[c]])
    /\ crossed' = crossed \union {c[1] : u \in Pending(c) \ {t}}
    /\ missed' = missed \union {ChunkOf(c) : u \in Looking(ChunkOf(c))}
    /\ UNCHANGED <<loaded, light, heights, points, overtaken>>

\* A cell set to what generation made there carries no edit.
RevertEdit(t, c) == Write(t, c, Without(edits, {c}), c \in DOMAIN edits)

\* Only a chunk in memory is compared with generation.
SetBlock(t, c, s) ==
    IF ChunkOf(c) \in loaded /\ Terrain[c] = s
    THEN RevertEdit(t, c)
    ELSE Write(t, c, With(edits, c, s), TRUE)

\* relightLocked: the chunks within light's reach of the cell are relit in
\* place when all of them are cached; if not, the 3x3 is dropped.
Window(c) == {ChunkOf(<<(c[1] + Width + d) % Width, 0>>) : d \in (-MaxLevel)..MaxLevel}

Relight(t) ==
    LET c     == job[t].cell
        W     == Window(c)
        old   == [sky   |-> [d \in CellsOf(W) |-> light[ChunkOf(d)].sky[d]],
                  block |-> [d \in CellsOf(W) |-> light[ChunkOf(d)].block[d]]]
        relit == Relit(Blocks, old, c, job[t].old)
    IN /\ pc[t] = "relight"
       /\ overtaken' = overtaken \union
              {u \in Fillers : pc[u] = "fill" /\ job[u].chunk \in Around(ChunkOf(c))}
       /\ light' = IF W \subseteq DOMAIN light
                   THEN [k \in DOMAIN light |->
                           IF k \in W
                           THEN [sky   |-> [d \in CellsOf({k}) |-> relit.sky[d]],
                                 block |-> [d \in CellsOf({k}) |-> relit.block[d]]]
                           ELSE light[k]]
                   ELSE Without(light, Around(ChunkOf(c)))
       /\ lightMu' = NoOne
       /\ Become(t, "index", job[t])
       /\ UNCHANGED <<loaded, edits, heights, points, missed, crossed>>

\* Fault: the index of the edited chunk survives.
IndexKept(t) ==
    /\ pc[t] = "index"
    /\ Become(t, "height", job[t])
    /\ UNCHANGED <<loaded, edits, lightMu, light, heights, points, overtaken, missed, crossed>>
\* poiInvalidate.
DropIndex(t) ==
    LET k == ChunkOf(job[t].cell) IN
    /\ pc[t] = "index"
    /\ points' = Without(points, {k})
    /\ missed' = IF Looking(k) = {} THEN missed \ {k} ELSE missed
    /\ Become(t, "height", job[t])
    /\ UNCHANGED <<loaded, edits, lightMu, light, heights, overtaken, crossed>>

\* Fault: the top block goes and the column is left one lower, not scanned.
OneLower(x, y) == y
\* The first free y of column x below y, as the blocks are.
TopBelow(x, y) ==
    LET solid == {z \in 0..(y - 1) : At(<<x, z>>) \in Blocking}
    IN IF solid = {} THEN 0 ELSE 1 + CHOOSE z \in solid : \A w \in solid : w <= z

\* heightmapUpdate, with the state that edit set.
UpdateHeight(t) ==
    LET x     == job[t].cell[1]
        y     == job[t].cell[2]
        k     == ChunkOf(job[t].cell)
        first == heights[k][x]
        next  == CASE job[t].state \in Blocking /\ y >= first -> y + 1
                   [] job[t].state \notin Blocking /\ y = first - 1 -> TopBelow(x, y)
                   [] OTHER -> first
    IN /\ pc[t] = "height"
       /\ heights' = IF k \in DOMAIN heights THEN [heights EXCEPT ![k][x] = next] ELSE heights
       /\ Done(t)
       /\ UNCHANGED <<loaded, edits, lightMu, light, points, overtaken, missed, crossed>>

-----------------------------------------------------------------------------
(* World.Light on a miss.                                                  *)

BeginFill(t, k) ==
    /\ pc[t] = "idle"
    /\ lightMu = NoOne
    /\ k \notin DOMAIN light
    /\ overtaken' = overtaken \ {t}
    /\ Become(t, "fill", [cell |-> <<0, 0>>, chunk |-> k, seen |-> <<>>])
    /\ UNCHANGED <<loaded, edits, lightMu, light, heights, points, missed, crossed>>

\* One chunk of the neighbourhood: its generated blocks and a copy of its edits.
ReadChunk(t) ==
    LET k  == job[t].chunk
        js == <<Beside(k, -1), k, Beside(k, 1)>>
        n  == Len(job[t].seen) + 1
    IN /\ pc[t] = "fill"
       /\ n <= 3
       /\ loaded' = loaded \union {js[n]}
       /\ Become(t, "fill", [job[t] EXCEPT
              !.seen = Append(@, Restrict(edits, DOMAIN edits \intersect CellsOf({js[n]})))])
       /\ UNCHANGED <<edits, lightMu, light, heights, points, overtaken, missed, crossed>>

\* The blocks a fill has seen.
Seen(j) ==
    LET saw == [i \in 1..3 |-> j.seen[i]]
        all == [c \in UNION {DOMAIN saw[i] : i \in 1..3} |->
                   saw[CHOOSE i \in 1..3 : c \in DOMAIN saw[i]][c]]
    IN [c \in CellsOf(Around(j.chunk)) |-> IF c \in DOMAIN all THEN all[c] ELSE Terrain[c]]

\* Fault: a fill is cached without a look at the version it noted.
NeverOvertaken(t) == FALSE
Overtaken(t) == t \in overtaken

\* Fault: the cap is never applied.
CacheGrown(full, k) == {full}
\* Over the cap, some other entry goes: the code's LRU says which.
CacheTrimmed(full, k) ==
    IF Cardinality(DOMAIN full) <= LightCap THEN {full}
    ELSE {Without(full, {old}) : old \in DOMAIN full \ {k}}

\* An entry that was put there meanwhile stays; a fill that an edit overtook
\* is handed out uncached.
EndFill(t) ==
    LET k == job[t].chunk IN
    /\ pc[t] = "fill"
    /\ Len(job[t].seen) = 3
    /\ lightMu = NoOne
    /\ IF k \in DOMAIN light \/ Overtaken(t)
       THEN UNCHANGED light
       ELSE light' \in CacheTrimmed(With(light, k, Fill(Seen(job[t]), k)), k)
    /\ overtaken' = overtaken \ {t}
    /\ Done(t)
    /\ UNCHANGED <<loaded, edits, lightMu, heights, points, missed, crossed>>

-----------------------------------------------------------------------------
(* The heightmaps, the index and the memory cache.                         *)

\* heightmapsLocked on the first ask: primed from the blocks as they are.
PrimeHeights(t, k) ==
    /\ pc[t] = "idle"
    /\ k \in loaded
    /\ k \notin DOMAIN heights
    /\ heights' = With(heights, k,
           [x \in {c[1] : c \in CellsOf({k})} |-> TopBelow(x, Height)])
    /\ crossed' = crossed \ {c[1] : c \in {c \in CellsOf({k}) : Column(c[1]) = {}}}
    /\ UNCHANGED <<loaded, edits, lightMu, light, points, pc, job, overtaken, missed>>

PointsIn(k) == {c \in CellsOf({k}) : At(c) \in Points}

\* POIsInChunk on a miss: scanned under mu, and stored under poi.mu later.
LookForPoints(t, k) ==
    /\ pc[t] = "idle"
    /\ k \in loaded
    /\ k \notin DOMAIN points
    /\ Become(t, "store", [cell |-> <<0, 0>>, chunk |-> k, found |-> PointsIn(k)])
    /\ UNCHANGED <<loaded, edits, lightMu, light, heights, points, overtaken, missed, crossed>>

StorePoints(t) ==
    /\ pc[t] = "store"
    /\ points' = With(points, job[t].chunk, job[t].found)
    /\ Done(t)
    /\ UNCHANGED <<loaded, edits, lightMu, light, heights, overtaken, missed, crossed>>

Load(k) ==
    /\ k \notin loaded
    /\ loaded' = loaded \union {k}
    /\ UNCHANGED <<edits, lightMu, light, heights, points, pc, job, overtaken, missed, crossed>>

\* The LRU drops a chunk, and its heightmaps with it.
Unload(k) ==
    /\ k \in loaded \ Ticketed
    /\ loaded' = loaded \ {k}
    /\ heights' = Without(heights, {k})
    /\ UNCHANGED <<edits, lightMu, light, points, pc, job, overtaken, missed, crossed>>

-----------------------------------------------------------------------------
Edit(t) ==
    \/ \E c \in Sites : \E s \in Placeable[c] : SetBlock(t, c, s)
    \/ \E c \in Sites : RevertEdit(t, c)
    \/ Relight(t)
    \/ DropIndex(t)
    \/ UpdateHeight(t)

ReadLight(t) ==
    \/ \E k \in Asked : BeginFill(t, k)
    \/ ReadChunk(t)
    \/ EndFill(t)

Ask(t) ==
    \/ \E k \in Asked : PrimeHeights(t, k) \/ LookForPoints(t, k)
    \/ StorePoints(t)

Next ==
    \/ \E t \in Editors : Edit(t)
    \/ \E t \in Fillers : ReadLight(t)
    \/ \E t \in Askers : Ask(t)
    \/ \E k \in Chunks : Load(k) \/ Unload(k)

Spec == Init /\ [][Next]_vars

-----------------------------------------------------------------------------
\* Type correctness, with what the locks and the cap promise: lightMu is held
\* exactly between an overlay write and its relight, the light cache keeps to
\* its cap, and heightmaps live and die with the chunk in memory.
TypeOK ==
    /\ Ticketed \subseteq loaded /\ loaded \subseteq Chunks
    /\ DOMAIN edits \subseteq Sites /\ \A c \in DOMAIN edits : edits[c] \in States
    /\ lightMu \in Editors \union {NoOne}
    /\ lightMu # NoOne <=> \E t \in Editors : pc[t] = "relight"
    /\ DOMAIN light \subseteq Chunks /\ Cardinality(DOMAIN light) <= LightCap
    /\ DOMAIN heights \subseteq loaded
    /\ DOMAIN points \subseteq Chunks
    /\ overtaken \subseteq {t \in Fillers : pc[t] = "fill"}
    /\ missed \subseteq Chunks /\ crossed \subseteq Columns

\* Whatever fills and edits went on at once, every chunk in the light cache
\* holds the light that the blocks of the whole world give it: no fill that an
\* edit overtook is cached (light.go), no neighbour of an edit keeps what the
\* edit made stale, and the cell-by-cell relight (lightinc.go) ends where a
\* full fill would, whatever its two queues went through.
LightRight ==
    lightMu = NoOne /\ light # <<>> =>
        LET sky   == TrueLight(Blocks, TRUE)
            block == TrueLight(Blocks, FALSE)
        IN \A k \in DOMAIN light : \A c \in CellsOf({k}) :
               light[k].sky[c] = sky[c] /\ light[k].block[c] = block[c]

InFlight(k) == {t \in Editing : ChunkOf(job[t].cell) = k}

\* A stored height is what a scan of its column from the top would find once
\* the updates of the column have been applied, in whatever order edits of
\* different cells, the first ask and the LRU came (heightmap.go).  Left out
\* are columns one of whose cells had two edits under way at once: SetBlock
\* applies the heightmap after it let go of the overlay, with its own state.
HeightsRight ==
    \A k \in DOMAIN heights : \A x \in DOMAIN heights[k] :
        x \in crossed \/ Column(x) # {} \/ heights[k][x] = TopBelow(x, Height)

\* An indexed chunk lists the points of interest its blocks have, once the
\* edits of the chunk have reached the index (poi.go).  Left out are lists
\* that an edit passed between the look and the store.
PointsRight ==
    \A k \in DOMAIN points \ missed :
        (\E t \in InFlight(k) : pc[t] # "height") \/ points[k] = PointsIn(k)
=============================================================================
