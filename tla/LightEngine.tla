---------------------------- MODULE LightEngine ----------------------------
(***************************************************************************)
(* How the world computes light (light.go, lightinc.go): the full flood    *)
(* fill of a chunk, the relight of one changed cell, and what both are     *)
(* meant to compute.                                                       *)
(*                                                                         *)
(* The world is a slice: one horizontal axis, closed into a ring of        *)
(* NChunks chunks so that no chunk is at an edge, and a height.  A cell is *)
(* <<column, y>>.  Light is measured 0..MaxLevel (15 in the code), and a   *)
(* chunk is at least as wide as light reaches, as in the code (16 and 15). *)
(* A fill and a relight look at three chunks of the ring at most, so they  *)
(* never meet their own far end.                                           *)
(***************************************************************************)
EXTENDS Integers, Sequences, FiniteSets

CONSTANTS
    ChunkWidth,  \* columns in a chunk (16)
    NChunks,     \* chunks in the ring
    Height,      \* cells in a column
    MaxLevel,    \* full light (15), also how far an edit's light can matter
    States,      \* block states
    Filter,      \* [States -> 0..Opaque]: LightFilterFast
    Emission     \* [States -> 0..MaxLevel]: LightEmissionFast

Opaque == MaxLevel

ASSUME LightAssumption ==
    /\ MaxLevel \in Nat \ {0}
    /\ ChunkWidth \in Nat /\ ChunkWidth >= MaxLevel
    /\ NChunks \in Nat /\ NChunks >= 4
    /\ Height \in Nat \ {0}
    /\ Filter \in [States -> 0..Opaque]
    /\ Emission \in [States -> 0..MaxLevel]

Width   == ChunkWidth * NChunks
Columns == 0..(Width - 1)
Heights == 0..(Height - 1)
Cells   == Columns \X Heights
Chunks  == 0..(NChunks - 1)

ChunkOf(c)    == c[1] \div ChunkWidth
Beside(k, d)  == (k + NChunks + d) % NChunks
Around(k)     == {Beside(k, d) : d \in {-1, 0, 1}}
CellsOf(ks)   == {c \in Cells : ChunkOf(c) \in ks}

AllDirs   == {"down", "up", "west", "east"}
Back      == [down |-> "up", up |-> "down", west |-> "east", east |-> "west"]
ColumnStep == [down |-> 0, up |-> 0, west |-> -1, east |-> 1]
HeightStep == [down |-> -1, up |-> 1, west |-> 0, east |-> 0]

\* The cell one step in direction d; its height may be off the world.
Step(c, d) == <<(c[1] + Width + ColumnStep[d]) % Width, c[2] + HeightStep[d]>>

Larger(a, b) == IF a > b THEN a ELSE b

\* Fault: a translucent cell is charged its filter on top of the step.
StepAndFilter(s) == 1 + Filter[s]
\* What a step into a cell of state s costs.
Cost(s) == Larger(1, Filter[s])

-----------------------------------------------------------------------------
(* What light is meant to be.  A cell is lit to level v when it is itself  *)
(* a source of v or more, or when a neighbour is lit to v and the step.    *)

\* A cell the sky reaches straight down: nothing from it up filters light.
SkySource(blocks, c) == \A y \in c[2]..(Height - 1) : Filter[blocks[<<c[1], y>>]] = 0

TrueLight(blocks, sky) ==
    LET step(c) == Larger(1, Filter[blocks[c]])
        source(c) == IF sky THEN (IF SkySource(blocks, c) THEN MaxLevel ELSE 0)
                            ELSE Emission[blocks[c]]
        atLeast[v \in 1..MaxLevel] ==
            {c \in Cells :
                \/ source(c) >= v
                \/ /\ Filter[blocks[c]] < Opaque
                   /\ v + step(c) <= MaxLevel
                   /\ \E d \in AllDirs : Step(c, d) \in atLeast[v + step(c)]}
    IN [c \in Cells |-> Cardinality({v \in 1..MaxLevel : c \in atLeast[v]})]

-----------------------------------------------------------------------------
(* The full fill.  Where the code queues one cell at a time, a wave here   *)
(* is every cell raised since the last one: a cell is queued again         *)
(* whenever it is raised, so the order does not show in the result.        *)

\* The light of the cells of D, and the ones raised last.
Waves(D) == [level: [D -> 0..MaxLevel], queue: SUBSET D]

\* One wave: every cell of the region that a queued neighbour can raise.
Spread(blocks, wave) ==
    LET level == wave.level
        pushed(c) == {level[Step(c, d)] - Cost(blocks[c]) :
                         d \in {e \in AllDirs : Step(c, e) \in wave.queue}}
        better(c) == {l \in pushed(c) : l > level[c]}
        raised    == {c \in DOMAIN level : Filter[blocks[c]] < Opaque /\ better(c) # {}}
    IN [level |-> [c \in DOMAIN level |->
                      IF c \in raised
                      THEN CHOOSE l \in better(c) : \A m \in better(c) : m <= l
                      ELSE level[c]],
        queue |-> raised]

\* Waves until nothing is raised.
Propagate(blocks, seeds, queue) ==
    LET rest[w \in Waves(DOMAIN seeds)] ==
            IF w.queue = {} THEN w ELSE rest[Spread(blocks, w)]
    IN rest[[level |-> seeds, queue |-> queue]].level

\* The sources of a region: straight down from the sky, or the emitters.
Seeded(blocks, sky) ==
    [c \in DOMAIN blocks |->
        IF sky THEN (IF SkySource(blocks, c) THEN MaxLevel ELSE 0)
               ELSE Emission[blocks[c]]]

\* computeLight: flood the chunk with its two neighbours, keep the centre.
Fill(blocks, k) ==
    LET flood(sky) == LET seeds == Seeded(blocks, sky)
                      IN Propagate(blocks, seeds, {c \in DOMAIN seeds : seeds[c] > 0})
        centre(level) == [c \in CellsOf({k}) |-> level[c]]
    IN [sky |-> centre(flood(TRUE)), block |-> centre(flood(FALSE))]

-----------------------------------------------------------------------------
(* The relight of one cell.  work is the light being rewritten, over the   *)
(* cells of a window of chunks, with the two queues.                       *)

Entry(c, level, dirs)    == [at |-> c, level |-> level, dirs |-> dirs, emit |-> FALSE]
FromEmission(c, level)   == [at |-> c, level |-> level, dirs |-> AllDirs, emit |-> TRUE]

\* The entries of some directions, in the code's order.
QueuedTo(entries, d) == IF d \in DOMAIN entries THEN <<entries[d]>> ELSE <<>>
Queued(entries) == QueuedTo(entries, "down") \o QueuedTo(entries, "up")
                       \o QueuedTo(entries, "west") \o QueuedTo(entries, "east")

Lights(blocks, sky, c) == IF sky THEN 0 ELSE Emission[blocks[c]]

PropagateDecrease(blocks, sky, work, e) ==
    LET lit     == work.lit
        reached == {d \in e.dirs : Step(e.at, d) \in DOMAIN lit /\ lit[Step(e.at, d)] > 0}
        dimmer  == {d \in reached : lit[Step(e.at, d)] <= e.level - 1}
        emits(d) == Lights(blocks, sky, Step(e.at, d))
        darkened == {d \in dimmer : emits(d) < lit[Step(e.at, d)]}
        again    == (reached \ dimmer) \union {d \in dimmer : emits(d) > 0}
    IN [lit |-> [c \in DOMAIN lit |->
                    IF \E d \in dimmer : Step(e.at, d) = c THEN 0 ELSE lit[c]],
        dec |-> work.dec \o Queued([d \in darkened |->
                    Entry(Step(e.at, d), lit[Step(e.at, d)], AllDirs \ {Back[d]})]),
        inc |-> work.inc \o Queued([d \in again |->
                    IF d \in dimmer THEN FromEmission(Step(e.at, d), emits(d))
                    ELSE Entry(Step(e.at, d), lit[Step(e.at, d)], {Back[d]})])]

PropagateIncrease(blocks, work, e) ==
    LET lit     == work.lit
        left(d) == e.level - Cost(blocks[Step(e.at, d)])
        raised  == {d \in e.dirs :
                       /\ Step(e.at, d) \in DOMAIN lit
                       /\ Filter[blocks[Step(e.at, d)]] < Opaque
                       /\ left(d) > lit[Step(e.at, d)]}
    IN [work EXCEPT
        !.lit = [c \in DOMAIN lit |->
                    IF \E d \in raised : Step(e.at, d) = c
                    THEN left(CHOOSE d \in raised : Step(e.at, d) = c) ELSE lit[c]],
        !.inc = @ \o Queued([d \in {d \in raised : left(d) > 1} |->
                    Entry(Step(e.at, d), left(d), AllDirs \ {Back[d]})])]

\* The light of a window D and the queues, while it is rewritten.
Entries(D) == [at: D, level: 0..MaxLevel, dirs: SUBSET AllDirs, emit: BOOLEAN]
Works(D)   == [lit: [D -> 0..MaxLevel], dec: Seq(Entries(D)), inc: Seq(Entries(D))]

Decreases(blocks, sky, work) ==
    LET rest[w \in Works(DOMAIN work.lit)] ==
            IF w.dec = <<>> THEN w
            ELSE rest[PropagateDecrease(blocks, sky, [w EXCEPT !.dec = Tail(@)], Head(w.dec))]
    IN rest[work]

\* An emission lights its own cell first.
Lifted(work, e) == IF e.emit /\ work.lit[e.at] < e.level
                   THEN [work EXCEPT !.lit[e.at] = e.level] ELSE work

\* An increase whose cell has changed level since is stale, and skipped.
Increase(blocks, work, e) ==
    LET lift == Lifted(work, e)
    IN IF lift.lit[e.at] = e.level THEN PropagateIncrease(blocks, lift, e) ELSE lift

Increases(blocks, work) ==
    LET rest[w \in Works(DOMAIN work.lit)] ==
            IF w.inc = <<>> THEN w
            ELSE rest[Increase(blocks, [w EXCEPT !.inc = Tail(@)], Head(w.inc))]
    IN rest[work]

\* Every decrease, then every increase.
Run(blocks, sky, work) == Increases(blocks, Decreases(blocks, sky, work)).lit

\* The cell may hold more light than it can have now, or less.
Recheck(lit, n) ==
    IF lit[n] > 0
    THEN [lit |-> [lit EXCEPT ![n] = 0], dec |-> <<Entry(n, lit[n], AllDirs)>>, inc |-> <<>>]
    ELSE [lit |-> lit, dec |-> <<Entry(n, 1, AllDirs)>>, inc |-> <<>>]

CheckBlockNode(blocks, lit, n) ==
    LET emission == Emission[blocks[n]]
        checked  == IF emission < lit[n] THEN Recheck(lit, n)
                    ELSE [lit |-> lit, dec |-> <<Entry(n, 1, AllDirs)>>, inc |-> <<>>]
    IN [checked EXCEPT !.inc = IF emission > 0 THEN <<FromEmission(n, emission)>> ELSE <<>>]

\* The cells of column x from y on, up or down, as long as they are in good.
UpWhile(x, y, good) ==
    {<<x, z>> : z \in {z \in y..(Height - 1) : \A u \in y..z : <<x, u>> \in good}}
DownWhile(x, y, good) ==
    {<<x, z>> : z \in {z \in 0..y : \A u \in z..y : <<x, u>> \in good}}

\* The cells that hold full light.
Bright(lit) == {c \in DOMAIN lit : lit[c] = MaxLevel}

\* Fault: a closed column keeps the sources under the block that closed it.
NoneRemoved(lit, x, lowest) == {}
\* The sources of column x under its new lowest one.
RemovedSources(lit, x, lowest) == DownWhile(x, lowest - 1, Bright(lit))
\* The cells from the new lowest source up to the old one.
AddedSources(lit, x, lowest) == UpWhile(x, lowest, DOMAIN lit \ Bright(lit))

CheckSkyNode(blocks, lit, n) ==
    LET x == n[1]
        aboveOpen == n[2] = Height - 1 \/ lit[<<x, n[2] + 1>>] = MaxLevel
        clear  == DownWhile(x, n[2], {c \in Cells : Filter[blocks[c]] = 0})
        lowest == n[2] + 1 - Cardinality(clear)
        gone   == IF aboveOpen THEN RemovedSources(lit, x, lowest) ELSE {}
        new    == IF aboveOpen THEN AddedSources(lit, x, lowest) ELSE {}
        moved  == [c \in DOMAIN lit |->
                     IF c \in gone THEN 0 ELSE IF c \in new THEN MaxLevel ELSE lit[c]]
        down   == [i \in 1..Cardinality(gone) |->
                     Entry(<<x, lowest - i>>, MaxLevel,
                           IF i = 1 THEN AllDirs ELSE AllDirs \ {"up"})]
        up     == [i \in 1..Cardinality(new) |->
                     Entry(<<x, lowest + i - 1>>, MaxLevel, AllDirs \ {"up"})]
        self   == Entry(n, MaxLevel, AllDirs \ {"up"})
    IN IF aboveOpen /\ clear # {}
       THEN [lit |-> moved, dec |-> Append(down, self), inc |-> Append(up, self)]
       ELSE LET own == Recheck(moved, n)
            IN [own EXCEPT !.dec = down \o @, !.inc = up]

\* The new light of a window after cell n went from state old to what blocks
\* holds: only a change of filter or emission moves light.
Relit(blocks, light, n, old) ==
    LET new == blocks[n]
        filterMoved == Filter[old] # Filter[new]
    IN [block |-> IF filterMoved \/ Emission[old] # Emission[new]
                  THEN Run(blocks, FALSE, CheckBlockNode(blocks, light.block, n))
                  ELSE light.block,
        sky   |-> IF filterMoved THEN Run(blocks, TRUE, CheckSkyNode(blocks, light.sky, n))
                  ELSE light.sky]
=============================================================================
