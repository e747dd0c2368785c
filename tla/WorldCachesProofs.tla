------------------------- MODULE WorldCachesProofs -------------------------
(***************************************************************************)
(* Proofs about WorldCaches: its types, the heightmaps, the index of       *)
(* points of interest and the light cache.                                 *)
(*                                                                         *)
(* Light takes up most of the module.  A lighting of the world is right    *)
(* when it is grounded (light that is not a cell's own comes from a        *)
(* brighter neighbour) and spreads (a cell has what its neighbours send):  *)
(* there is one such lighting, and it is TrueLight.  The loops of the fill *)
(* and of the relight are functions over all their states, which exist     *)
(* because a measure falls with every turn; what a turn keeps, the loop    *)
(* ends with.  The waves of a fill and the increases of a relight stay     *)
(* below the truth and end spread; before them, the decreases leave no     *)
(* light that is not grounded.  So both end at the truth, and under the    *)
(* lock the cache follows the blocks.                                      *)
(***************************************************************************)
EXTENDS WorldCaches, FiniteSetTheorems, SequenceTheorems, WellFoundedInduction, TLAPS

-----------------------------------------------------------------------------
(* Numbers, cells and sets.                                                *)

\* A nonempty set of naturals with an upper bound has a greatest element.
LEMMA Greatest ==
  ASSUME NEW y \in Nat, NEW S, S \subseteq 0..(y - 1), S # {}
  PROVE  \E z \in S : \A w \in S : w <= z
<1>. DEFINE R == {p \in Nat \X Nat : p[1] < p[2]}
<1>. DEFINE T == {y - z : z \in S}
<1>1. T \subseteq Nat /\ T # {}
  OBVIOUS
<1>2. IsWellFoundedOn(R, Nat)
  BY NatLessThanWellFounded, Zenon DEF OpToRel
<1>. HIDE DEF R, T
<1>3. PICK m \in T : \A n \in T : ~(<<n, m>> \in R)
  BY <1>1, <1>2, WFMin
<1>4. \A n \in T : ~(n < m)
  BY <1>1, <1>3 DEF R
<1>5. PICK z \in S : m = y - z
  BY <1>3 DEF T
<1>6. ASSUME NEW w \in S PROVE w <= z
  <2>1. y - w \in T
    BY DEF T
  <2>. QED  BY <1>4, <1>5, <2>1
<1>. QED  BY <1>5, <1>6

\* The chunk of a cell is one of the chunks.
LEMMA ChunkType == \A c \in Cells : ChunkOf(c) \in Chunks
<1>. SUFFICES ASSUME NEW c \in Cells PROVE ChunkOf(c) \in Chunks
  OBVIOUS
<1>. DEFINE x == c[1]  W == ChunkWidth  N == NChunks  q == x \div W
<1>1. W \in Nat \ {0} /\ N \in Nat \ {0}
  BY LightAssumption
<1>2. x \in Nat /\ x < W * N
  BY <1>1 DEF Cells, Columns, Width
<1>. HIDE DEF x, W, N
<1>3. q \in Nat /\ q * W <= x
  BY <1>1, <1>2, Z3
<1>. HIDE DEF q
<1>4. q < N
  <2>1. SUFFICES ASSUME q >= N PROVE FALSE
    BY <1>1, <1>3
  <2>2. q * W >= N * W
    BY <1>1, <1>3, <2>1, Z3
  <2>. QED  BY <1>1, <1>2, <1>3, <2>2, Z3
<1>. QED  BY <1>1, <1>3, <1>4 DEF ChunkOf, Chunks, x, W, N, q

\* So is the chunk beside a chunk, on the ring.
LEMMA BesideType == \A k \in Chunks, d \in {-1, 0, 1} : Beside(k, d) \in Chunks
  BY LightAssumption DEF Beside, Chunks

\* There are finitely many chunks.
LEMMA ChunksFinite == IsFiniteSet(Chunks)
  BY LightAssumption, FS_Interval DEF Chunks

-----------------------------------------------------------------------------
(* What every kind of busy thread is about, and which types hold besides.  *)

Phases == {"idle", "relight", "index", "height", "fill", "store"}
Edits  == {"relight", "index", "height"}

\* What a fill may have copied of an overlay.
Overlays == UNION {[D -> States] : D \in SUBSET Cells}

Threaded ==
    /\ pc \in [Threads -> Phases]
    /\ DOMAIN job = Threads
    /\ \A t \in Threads : pc[t] \in Edits => job[t].cell \in Sites /\ job[t].state \in States
    /\ \A t \in Threads : pc[t] \in {"fill", "store"} => job[t].chunk \in Chunks
    /\ \A t \in Threads : pc[t] = "fill" => job[t].seen \in Seq(Overlays)

\* The lock is held by the one thread between a write and its relight.
Locked ==
    /\ lightMu \in Editors \union {NoOne}
    /\ lightMu # NoOne => pc[lightMu] = "relight"
    /\ \A t \in Threads : pc[t] = "relight" => lightMu = t

TypeInv == TypeOK /\ Threaded /\ Locked

\* Thread t goes to a step, with what it is about.
LEMMA Becoming ==
  ASSUME NEW t \in Threads, NEW step \in Phases, NEW what, Threaded, Become(t, step, what)
  PROVE  /\ pc' \in [Threads -> Phases] /\ DOMAIN job' = Threads
         /\ pc'[t] = step /\ job'[t] = what
         /\ \A u \in Threads \ {t} : pc'[u] = pc[u] /\ job'[u] = job[u]
  BY DEF Threaded, Become

\* The state of every cell is a state.
LEMMA AtType == ASSUME TypeInv, NEW c \in Cells PROVE At(c) \in States
  BY CachesAssumption DEF At, TypeInv, TypeOK

\* What both edits do to the overlay and their thread: cell c, and no other,
\* has a new state, which is the one the thread goes on with.
Edited(t, c) ==
    /\ pc[t] = "idle" /\ lightMu = NoOne
    /\ \/ pc'[t] = "relight" /\ lightMu' = t
       \/ pc'[t] = "index" /\ lightMu' = NoOne
    /\ pc' \in [Threads -> Phases] /\ DOMAIN job' = Threads
    /\ \A u \in Threads \ {t} : pc'[u] = pc[u] /\ job'[u] = job[u]
    /\ job'[t].cell = c /\ job'[t].state = At(c)' /\ At(c)' \in States
    /\ \A d \in Cells \ {c} : At(d)' = At(d)
    /\ DOMAIN edits' \subseteq Sites /\ \A d \in DOMAIN edits' : edits'[d] \in States
    /\ crossed' = crossed \union {c[1] : u \in Pending(c) \ {t}}
    /\ missed' = missed \union {ChunkOf(c) : u \in Looking(ChunkOf(c))}
    /\ UNCHANGED <<loaded, light, heights, points, overtaken>>

\* A write of the overlay that concerns one cell is such an edit.
LEMMA WriteEdits ==
  ASSUME TypeInv, NEW t \in Editors, NEW c \in Sites, NEW now, NEW relights \in BOOLEAN,
         Write(t, c, now, relights),
         DOMAIN now \subseteq Sites, \A d \in DOMAIN now : now[d] \in States,
         \A d \in Cells \ {c} : /\ d \in DOMAIN now <=> d \in DOMAIN edits
                                /\ d \in DOMAIN now => now[d] = edits[d]
  PROVE  Edited(t, c)
<1>. DEFINE step == IF relights THEN "relight" ELSE "index"
            new  == IF c \in DOMAIN now THEN now[c] ELSE Terrain[c]
            what == [cell |-> c, old |-> At(c), state |-> new]
<1>1. t \in Threads /\ step \in Phases /\ Threaded /\ c \in Cells
  BY CachesAssumption DEF Threads, Phases, TypeInv
<1>2. Become(t, step, what)
  BY DEF Write
<1>3. what.cell = c /\ what.state = new
  OBVIOUS
<1>. HIDE DEF what, step
<1>4. /\ pc' \in [Threads -> Phases] /\ DOMAIN job' = Threads
      /\ pc'[t] = step /\ job'[t] = what
      /\ \A u \in Threads \ {t} : pc'[u] = pc[u] /\ job'[u] = job[u]
  BY <1>1, <1>2, Becoming
<1>5. edits' = now
  BY DEF Write
<1>6. At(c)' = new /\ new \in States
  BY <1>1, <1>5, CachesAssumption DEF At
<1>7. ASSUME NEW d \in Cells \ {c} PROVE At(d)' = At(d)
  <2>1. At(d)' = IF d \in DOMAIN now THEN now[d] ELSE Terrain[d]
    BY <1>5 DEF At
  <2>2. At(d) = IF d \in DOMAIN edits THEN edits[d] ELSE Terrain[d]
    BY DEF At
  <2>. QED  BY <2>1, <2>2
<1>8. /\ pc[t] = "idle" /\ lightMu = NoOne
      /\ lightMu' = IF relights THEN t ELSE NoOne
      /\ crossed' = crossed \union {c[1] : u \in Pending(c) \ {t}}
      /\ missed' = missed \union {ChunkOf(c) : u \in Looking(ChunkOf(c))}
      /\ UNCHANGED <<loaded, light, heights, points, overtaken>>
  BY DEF Write
<1>. HIDE DEF new
<1>. QED  BY <1>3, <1>4, <1>5, <1>6, <1>7, <1>8 DEF Edited, step

\* SetBlock and RevertEdit are edits of one cell.
LEMMA EditOfOne ==
  ASSUME TypeInv, NEW t \in Editors, NEW c \in Sites,
         RevertEdit(t, c) \/ \E s \in Placeable[c] : SetBlock(t, c, s)
  PROVE  Edited(t, c)
<1>1. ASSUME RevertEdit(t, c) PROVE Edited(t, c)
  <2>. DEFINE now == Without(edits, {c})
  <2>1. /\ DOMAIN now \subseteq Sites /\ \A d \in DOMAIN now : now[d] \in States
        /\ \A d \in Cells \ {c} : /\ d \in DOMAIN now <=> d \in DOMAIN edits
                                  /\ d \in DOMAIN now => now[d] = edits[d]
    BY DEF Without, TypeInv, TypeOK
  <2>2. Write(t, c, now, c \in DOMAIN edits) /\ (c \in DOMAIN edits) \in BOOLEAN
    BY <1>1 DEF RevertEdit
  <2>. HIDE DEF now
  <2>. QED  BY <2>1, <2>2, WriteEdits
<1>2. ASSUME NEW s \in Placeable[c], SetBlock(t, c, s) PROVE Edited(t, c)
  <2>1. CASE ChunkOf(c) \in loaded /\ Terrain[c] = s
    BY <1>1, <1>2, <2>1 DEF SetBlock
  <2>2. CASE ~(ChunkOf(c) \in loaded /\ Terrain[c] = s)
    <3>. DEFINE now == With(edits, c, s)
    <3>1. /\ DOMAIN now \subseteq Sites /\ \A d \in DOMAIN now : now[d] \in States
          /\ \A d \in Cells \ {c} : /\ d \in DOMAIN now <=> d \in DOMAIN edits
                                    /\ d \in DOMAIN now => now[d] = edits[d]
      BY CachesAssumption DEF With, TypeInv, TypeOK
    <3>2. Write(t, c, now, TRUE)
      BY <1>2, <2>2 DEF SetBlock
    <3>. HIDE DEF now
    <3>. QED  BY <3>1, <3>2, WriteEdits
  <2>. QED  BY <2>1, <2>2
<1>. QED  BY <1>1, <1>2

-----------------------------------------------------------------------------
(* Types.                                                                  *)

\* At the start every thread is idle and nothing is cached.
LEMMA TypeInit == Init => TypeInv
<1>. SUFFICES ASSUME Init PROVE TypeInv
  OBVIOUS
<1>1. DOMAIN light = {} /\ Cardinality(DOMAIN light) <= LightCap
  BY CachesAssumption, FS_EmptySet DEF Init
<1>2. TypeOK
  BY <1>1, CachesAssumption DEF Init, TypeOK, Threads
<1>3. Threaded
  BY DEF Init, Threaded, Phases, Edits
<1>4. Locked
  BY DEF Init, Locked
<1>. QED  BY <1>2, <1>3, <1>4 DEF TypeInv

\* A step that goes on with a thread and leaves the overlay, the lock and the
\* light alone keeps the types, if it keeps those of what it changes.
LEMMA TypeGoes ==
  ASSUME TypeInv, NEW t \in Threads, NEW step \in Phases \ {"relight"}, NEW what,
         Become(t, step, what), pc[t] # "relight", UNCHANGED <<edits, lightMu, light>>,
         step \in Edits => what.cell \in Sites /\ what.state \in States,
         step \in {"fill", "store"} => what.chunk \in Chunks,
         step = "fill" => what.seen \in Seq(Overlays),
         Ticketed \subseteq loaded' /\ loaded' \subseteq Chunks,
         DOMAIN heights' \subseteq loaded', DOMAIN points' \subseteq Chunks,
         overtaken' \subseteq overtaken,
         pc[t] = "fill" /\ step # "fill" => t \notin overtaken',
         missed' \subseteq Chunks, crossed' \subseteq Columns
  PROVE  TypeInv'
<1>1. /\ pc' \in [Threads -> Phases] /\ DOMAIN job' = Threads
      /\ pc'[t] = step /\ job'[t] = what
      /\ \A u \in Threads \ {t} : pc'[u] = pc[u] /\ job'[u] = job[u]
  BY Becoming DEF TypeInv
<1>2. Threaded'
  BY <1>1 DEF TypeInv, Threaded
<1>3. Locked'
  BY <1>1, CachesAssumption DEF TypeInv, Locked, Threads
<1>4. overtaken' \subseteq {u \in Fillers : pc'[u] = "fill"}
  BY <1>1 DEF TypeInv, TypeOK, Threads
<1>5. (lightMu # NoOne <=> \E u \in Editors : pc[u] = "relight")'
  BY <1>1, <1>3, CachesAssumption DEF Locked, Threads
<1>. QED  BY <1>2, <1>3, <1>4, <1>5 DEF TypeInv, TypeOK

\* An edit changes the state of a site, and takes the lock if it relights.
LEMMA TypeEdit ==
  ASSUME TypeInv, NEW t \in Editors, NEW c \in Sites, Edited(t, c)
  PROVE  TypeInv'
<1>1. t \in Threads /\ c \in Cells /\ ChunkOf(c) \in Chunks /\ c[1] \in Columns
  BY CachesAssumption, ChunkType DEF Threads, Cells
<1>2. Threaded'
  BY <1>1 DEF TypeInv, Threaded, Edited, Edits
<1>3. Locked'
  BY <1>1, CachesAssumption DEF TypeInv, Locked, Edited, Threads
<1>4. overtaken' \subseteq {u \in Fillers : pc'[u] = "fill"}
  BY <1>1 DEF TypeInv, TypeOK, Edited, Threads
<1>5. (lightMu # NoOne <=> \E u \in Editors : pc[u] = "relight")'
  BY <1>1, <1>3, CachesAssumption DEF Locked, Threads
<1>6. missed' \subseteq Chunks /\ crossed' \subseteq Columns
  BY <1>1 DEF TypeInv, TypeOK, Edited
<1>. QED  BY <1>2, <1>3, <1>4, <1>5, <1>6 DEF TypeInv, TypeOK, Edited

\* A relight gives the lock back, and caches no chunk that was not cached.
LEMMA TypeRelight ==
  ASSUME TypeInv, NEW t \in Editors, Relight(t)
  PROVE  TypeInv'
<1>1. t \in Threads /\ pc[t] = "relight" /\ lightMu' = NoOne /\ Become(t, "index", job[t])
  BY DEF Relight, Threads
<1>2. /\ pc' \in [Threads -> Phases] /\ DOMAIN job' = Threads
      /\ pc'[t] = "index" /\ job'[t] = job[t]
      /\ \A u \in Threads \ {t} : pc'[u] = pc[u] /\ job'[u] = job[u]
  BY <1>1, Becoming DEF TypeInv, Phases
<1>3. Threaded'
  BY <1>1, <1>2 DEF TypeInv, Threaded, Edits
<1>4. Locked'
  BY <1>1, <1>2 DEF TypeInv, Locked
<1>5. DOMAIN light' \subseteq DOMAIN light
  BY DEF Relight, Without
<1>6. DOMAIN light' \subseteq Chunks /\ Cardinality(DOMAIN light') <= LightCap
  <2>1. IsFiniteSet(DOMAIN light)
    BY ChunksFinite, FS_Subset DEF TypeInv, TypeOK
  <2>2. /\ Cardinality(DOMAIN light) \in Nat /\ Cardinality(DOMAIN light') \in Nat
        /\ Cardinality(DOMAIN light') <= Cardinality(DOMAIN light)
    BY <1>5, <2>1, FS_Subset, FS_CardinalityType
  <2>. QED  BY <1>5, <2>2, CachesAssumption DEF TypeInv, TypeOK
<1>7. overtaken' \subseteq {u \in Fillers : pc'[u] = "fill"}
  BY <1>1, <1>2 DEF TypeInv, TypeOK, Threads, Relight
<1>8. (lightMu # NoOne <=> \E u \in Editors : pc[u] = "relight")'
  BY <1>1, <1>2, <1>4, CachesAssumption DEF Locked, Threads
<1>9. UNCHANGED <<loaded, edits, heights, points, missed, crossed>>
  BY DEF Relight
<1>. QED  BY <1>1, <1>3, <1>4, <1>6, <1>7, <1>8, <1>9 DEF TypeInv, TypeOK

\* A fill that is cached puts one chunk in the light cache, which is trimmed.
LEMMA TypeEndFill ==
  ASSUME TypeInv, NEW t \in Fillers, EndFill(t)
  PROVE  TypeInv'
<1>. DEFINE k == job[t].chunk
<1>1. /\ t \in Threads /\ pc[t] = "fill" /\ Become(t, "idle", Idle)
      /\ overtaken' = overtaken \ {t}
      /\ UNCHANGED <<loaded, edits, lightMu, heights, points, missed, crossed>>
  BY DEF EndFill, Done, Threads
<1>2. /\ pc' \in [Threads -> Phases] /\ DOMAIN job' = Threads
      /\ pc'[t] = "idle" /\ job'[t] = Idle
      /\ \A u \in Threads \ {t} : pc'[u] = pc[u] /\ job'[u] = job[u]
  BY <1>1, Becoming DEF TypeInv, Phases
<1>3. Threaded'
  BY <1>1, <1>2 DEF TypeInv, Threaded, Edits
<1>4. Locked'
  BY <1>1, <1>2, CachesAssumption DEF TypeInv, Locked, Threads
<1>5. DOMAIN light' \subseteq Chunks /\ Cardinality(DOMAIN light') <= LightCap
  <2>1. k \in Chunks
    BY <1>1 DEF TypeInv, Threaded
  <2>2. CASE light' = light
    BY <2>2 DEF TypeInv, TypeOK
  <2>3. CASE light' # light
    <3>. DEFINE new == Fill(Seen(job[t]), k)
    <3>1. k \notin DOMAIN light /\ light' \in CacheTrimmed(With(light, k, new), k)
      BY <2>3 DEF EndFill
    <3>. HIDE DEF new
    <3>. DEFINE full == With(light, k, new)
    <3>2. DOMAIN full = DOMAIN light \union {k}
      BY DEF With
    <3>. HIDE DEF full
    <3>3. IsFiniteSet(DOMAIN light)
      BY ChunksFinite, FS_Subset DEF TypeInv, TypeOK
    <3>4. /\ IsFiniteSet(DOMAIN full)
          /\ Cardinality(DOMAIN full) = Cardinality(DOMAIN light) + 1
      BY <3>1, <3>2, <3>3, FS_AddElement
    <3>5. Cardinality(DOMAIN light) \in Nat
      BY <3>3, FS_CardinalityType
    <3>6. light' \in CacheTrimmed(full, k)
      BY <3>1 DEF full
    <3>7. CASE Cardinality(DOMAIN full) <= LightCap
      <4>1. light' = full
        BY <3>6, <3>7 DEF CacheTrimmed
      <4>. QED  BY <2>1, <3>2, <3>7, <4>1 DEF TypeInv, TypeOK
    <3>8. CASE ~(Cardinality(DOMAIN full) <= LightCap)
      <4>1. PICK old \in DOMAIN full : light' = Without(full, {old})
        BY <3>6, <3>8 DEF CacheTrimmed
      <4>2. DOMAIN light' = DOMAIN full \ {old}
        BY <4>1 DEF Without
      <4>3. Cardinality(DOMAIN light') = Cardinality(DOMAIN full) - 1
        BY <3>4, <4>2, FS_RemoveElement
      <4>4. Cardinality(DOMAIN light) <= LightCap
        BY DEF TypeInv, TypeOK
      <4>. QED  BY <2>1, <3>2, <3>4, <3>5, <4>2, <4>3, <4>4, CachesAssumption DEF TypeInv, TypeOK
    <3>. QED  BY <3>7, <3>8
  <2>. QED  BY <2>2, <2>3
<1>6. overtaken' \subseteq {u \in Fillers : pc'[u] = "fill"}
  BY <1>1, <1>2 DEF TypeInv, TypeOK, Threads
<1>7. (lightMu # NoOne <=> \E u \in Editors : pc[u] = "relight")'
  BY <1>1, <1>2, <1>4, CachesAssumption DEF Locked, Threads
<1>. QED  BY <1>1, <1>3, <1>4, <1>5, <1>6, <1>7 DEF TypeInv, TypeOK

\* What is left of SetBlock after its relight.
LEMMA TypeIndexHeight ==
  ASSUME TypeInv, NEW t \in Editors, DropIndex(t) \/ UpdateHeight(t)
  PROVE  TypeInv'
<1>1. t \in Threads
  BY DEF Threads
<1>2. CASE DropIndex(t)
  <2>1. Become(t, "height", job[t]) /\ pc[t] = "index"
    BY <1>2 DEF DropIndex
  <2>2. job[t].cell \in Sites /\ job[t].state \in States
    BY <1>1, <2>1 DEF TypeInv, Threaded, Edits
  <2>3. /\ UNCHANGED <<loaded, edits, lightMu, light, heights, overtaken, crossed>>
        /\ DOMAIN points' \subseteq DOMAIN points /\ missed' \subseteq missed
    BY <1>2 DEF DropIndex, Without
  <2>. QED  BY <1>1, <2>1, <2>2, <2>3, TypeGoes DEF Phases, TypeInv, TypeOK
<1>3. CASE UpdateHeight(t)
  <2>1. Become(t, "idle", Idle) /\ pc[t] = "height"
    BY <1>3 DEF UpdateHeight, Done
  <2>2. /\ UNCHANGED <<loaded, edits, lightMu, light, points, overtaken, missed, crossed>>
        /\ DOMAIN heights' = DOMAIN heights
    BY <1>3 DEF UpdateHeight
  <2>. QED  BY <1>1, <2>1, <2>2, TypeGoes DEF Phases, Edits, TypeInv, TypeOK
<1>. QED  BY <1>2, <1>3

\* A fill begins, and reads its three chunks.
LEMMA TypeFill ==
  ASSUME TypeInv, NEW t \in Fillers, ReadChunk(t) \/ \E k \in Asked : BeginFill(t, k)
  PROVE  TypeInv'
<1>1. t \in Threads
  BY DEF Threads
<1>2. ASSUME NEW k \in Asked, BeginFill(t, k) PROVE TypeInv'
  <2>. DEFINE what == [cell |-> <<0, 0>>, chunk |-> k, seen |-> <<>>]
  <2>1. Become(t, "fill", what) /\ pc[t] = "idle"
    BY <1>2 DEF BeginFill
  <2>2. what.chunk \in Chunks /\ what.seen \in Seq(Overlays)
    BY CachesAssumption
  <2>3. /\ UNCHANGED <<loaded, edits, lightMu, light, heights, points, missed, crossed>>
        /\ overtaken' \subseteq overtaken
    BY <1>2 DEF BeginFill
  <2>. HIDE DEF what
  <2>. QED  BY <1>1, <2>1, <2>2, <2>3, TypeGoes DEF Phases, Edits, TypeInv, TypeOK
<1>3. CASE ReadChunk(t)
  <2>. DEFINE k == job[t].chunk
              js == <<Beside(k, -1), k, Beside(k, 1)>>
              n == Len(job[t].seen) + 1
              seen == Append(job[t].seen, Restrict(edits, DOMAIN edits \intersect CellsOf({js[n]})))
              what == [job[t] EXCEPT !.seen = seen]
  <2>1. pc[t] = "fill" /\ n <= 3 /\ loaded' = loaded \union {js[n]} /\ Become(t, "fill", what)
    BY <1>3 DEF ReadChunk
  <2>2. k \in Chunks
    BY <1>1, <2>1 DEF TypeInv, Threaded
  <2>3. job[t].seen \in Seq(Overlays)
    BY <1>1, <2>1 DEF TypeInv, Threaded
  <2>4. n \in 1..3 /\ js[n] \in Chunks
    <3>1. n \in 1..3
      BY <2>1, <2>3
    <3>2. Beside(k, -1) \in Chunks /\ Beside(k, 1) \in Chunks
      BY <2>2, BesideType
    <3>3. js[1] \in Chunks /\ js[2] \in Chunks /\ js[3] \in Chunks
      BY <2>2, <3>2
    <3>. HIDE DEF js, n
    <3>4. n = 1 \/ n = 2 \/ n = 3
      BY <3>1
    <3>. QED  BY <3>1, <3>3, <3>4
  <2>5. Restrict(edits, DOMAIN edits \intersect CellsOf({js[n]})) \in Overlays
    <3>. DEFINE D == DOMAIN edits \intersect CellsOf({js[n]})
    <3>1. D \in SUBSET Cells /\ \A d \in D : edits[d] \in States
      BY CachesAssumption DEF TypeInv, TypeOK, CellsOf
    <3>. HIDE DEF D
    <3>2. Restrict(edits, D) \in [D -> States]
      BY <3>1 DEF Restrict
    <3>3. Restrict(edits, D) \in Overlays
      BY <3>1, <3>2 DEF Overlays
    <3>. QED  BY <3>3 DEF D
  <2>6. seen \in Seq(Overlays)
    BY <2>3, <2>5
  <2>. HIDE DEF seen
  <2>7. what.chunk = k
    BY DEF what
  <2>8. what.seen = seen
    BY <2>3 DEF what
  <2>9. /\ UNCHANGED <<edits, lightMu, light, heights, points, overtaken, missed, crossed>>
        /\ Ticketed \subseteq loaded' /\ loaded' \subseteq Chunks
        /\ DOMAIN heights' \subseteq loaded' /\ DOMAIN points' \subseteq Chunks
        /\ missed' \subseteq Chunks /\ crossed' \subseteq Columns
    BY <1>3, <2>1, <2>4 DEF ReadChunk, TypeInv, TypeOK
  <2>. HIDE DEF what, js, n
  <2>. QED  BY <1>1, <2>1, <2>2, <2>6, <2>7, <2>8, <2>9, TypeGoes DEF Phases, Edits
<1>. QED  BY <1>2, <1>3

\* Heights are asked for, points are looked up and stored.
LEMMA TypeAsk ==
  ASSUME TypeInv, NEW t \in Askers, Ask(t)
  PROVE  TypeInv'
<1>1. t \in Threads
  BY DEF Threads
<1>2. ASSUME NEW k \in Asked, PrimeHeights(t, k) PROVE TypeInv'
  <2>1. /\ UNCHANGED <<loaded, edits, lightMu, light, points, pc, job, overtaken, missed>>
        /\ DOMAIN heights' = DOMAIN heights \union {k} /\ k \in loaded
        /\ crossed' \subseteq crossed
    BY <1>2 DEF PrimeHeights, With
  <2>. QED  BY <2>1 DEF TypeInv, TypeOK, Threaded, Locked
<1>3. ASSUME NEW k \in Asked, LookForPoints(t, k) PROVE TypeInv'
  <2>. DEFINE what == [cell |-> <<0, 0>>, chunk |-> k, found |-> PointsIn(k)]
  <2>1. Become(t, "store", what) /\ pc[t] = "idle"
    BY <1>3 DEF LookForPoints
  <2>2. what.chunk \in Chunks
    BY CachesAssumption
  <2>3. UNCHANGED <<loaded, edits, lightMu, light, heights, points, overtaken, missed, crossed>>
    BY <1>3 DEF LookForPoints
  <2>. HIDE DEF what
  <2>. QED  BY <1>1, <2>1, <2>2, <2>3, TypeGoes DEF Phases, Edits, TypeInv, TypeOK
<1>4. CASE StorePoints(t)
  <2>1. Become(t, "idle", Idle) /\ pc[t] = "store"
    BY <1>4 DEF StorePoints, Done
  <2>2. /\ UNCHANGED <<loaded, edits, lightMu, light, heights, overtaken, missed, crossed>>
        /\ DOMAIN points' = DOMAIN points \union {job[t].chunk}
    BY <1>4 DEF StorePoints, With
  <2>3. job[t].chunk \in Chunks
    BY <1>1, <2>1 DEF TypeInv, Threaded
  <2>. QED  BY <1>1, <2>1, <2>2, <2>3, TypeGoes DEF Phases, Edits, TypeInv, TypeOK
<1>. QED  BY <1>2, <1>3, <1>4 DEF Ask

\* The memory cache loads and drops chunks.
LEMMA TypeMemory ==
  ASSUME TypeInv, NEW k \in Chunks, Load(k) \/ Unload(k)
  PROVE  TypeInv'
<1>1. CASE Load(k)
  BY <1>1 DEF Load, TypeInv, TypeOK, Threaded, Locked
<1>2. CASE Unload(k)
  <2>1. /\ UNCHANGED <<edits, lightMu, light, points, pc, job, overtaken, missed, crossed>>
        /\ loaded' = loaded \ {k} /\ k \notin Ticketed
        /\ DOMAIN heights' = DOMAIN heights \ {k}
    BY <1>2 DEF Unload, Without
  <2>. QED  BY <2>1 DEF TypeInv, TypeOK, Threaded, Locked
<1>. QED  BY <1>1, <1>2

\* Every step keeps the types.
LEMMA TypeStep == TypeInv /\ [Next]_vars => TypeInv'
<1>. SUFFICES ASSUME TypeInv, [Next]_vars PROVE TypeInv'
  OBVIOUS
<1>1. ASSUME NEW t \in Editors, Edit(t) PROVE TypeInv'
  <2>1. ASSUME NEW c \in Sites, RevertEdit(t, c) \/ \E s \in Placeable[c] : SetBlock(t, c, s)
        PROVE  TypeInv'
    BY <2>1, EditOfOne, TypeEdit
  <2>. QED  BY <1>1, <2>1, TypeRelight, TypeIndexHeight DEF Edit
<1>2. ASSUME NEW t \in Fillers, ReadLight(t) PROVE TypeInv'
  BY <1>2, TypeFill, TypeEndFill DEF ReadLight
<1>3. CASE UNCHANGED vars
  BY <1>3 DEF vars, TypeInv, TypeOK, Threaded, Locked
<1>. QED  BY <1>1, <1>2, <1>3, TypeAsk, TypeMemory DEF Next

\* The types of the caches are right in every state: lightMu is held exactly
\* between an overlay write and its relight, the light cache keeps to its cap,
\* and no heightmap outlives its chunk's stay in memory.
THEOREM TypeAlways == Spec => []TypeOK
<1>1. Spec => []TypeInv
  BY TypeInit, TypeStep, PTL DEF Spec
<1>2. TypeInv => TypeOK
  BY DEF TypeInv
<1>. QED  BY <1>1, <1>2, PTL

-----------------------------------------------------------------------------
(* Heightmaps.                                                             *)

ColumnsOf(k) == {c[1] : c \in CellsOf({k})}

\* A heightmap has an entry for every column of its chunk.
Mapped ==
    \A k \in DOMAIN heights :
        /\ DOMAIN heights[k] = ColumnsOf(k)
        /\ \A x \in DOMAIN heights[k] : heights[k][x] \in 0..Height

\* The edits under way in column x are of different cells, and each has the
\* state its cell has now.
Fresh(x) ==
    \A t \in Column(x) :
        /\ job[t].state = At(job[t].cell)
        /\ \A u \in Column(x) : job[u].cell = job[t].cell => u = t

\* But for cells whose update is under way, nothing from h up in column x
\* blocks, and the cell below h does.
Topped(x, h) ==
    /\ \A y \in h..(Height - 1) : At(<<x, y>>) \in Blocking => Pending(<<x, y>>) # {}
    /\ h > 0 => At(<<x, h - 1>>) \in Blocking \/ Pending(<<x, h - 1>>) # {}

HeightInv ==
    /\ Mapped
    /\ \A x \in Columns \ crossed : Fresh(x)
    /\ \A k \in DOMAIN heights : \A x \in DOMAIN heights[k] \ crossed : Topped(x, heights[k][x])

\* What TopBelow finds: the cell below it blocks, and none from it up to y.
LEMMA TopFound ==
  ASSUME NEW x, NEW y \in Nat
  PROVE  /\ TopBelow(x, y) \in 0..y
         /\ \A z \in TopBelow(x, y)..(y - 1) : At(<<x, z>>) \notin Blocking
         /\ TopBelow(x, y) > 0 => At(<<x, TopBelow(x, y) - 1>>) \in Blocking
<1>. DEFINE solid == {z \in 0..(y - 1) : At(<<x, z>>) \in Blocking}
<1>1. CASE solid = {}
  <2>1. TopBelow(x, y) = 0
    BY <1>1 DEF TopBelow
  <2>. QED  BY <1>1, <2>1
<1>2. CASE solid # {}
  <2>. DEFINE top == CHOOSE z \in solid : \A w \in solid : w <= z
  <2>1. TopBelow(x, y) = 1 + top
    BY <1>2 DEF TopBelow
  <2>2. solid \subseteq 0..(y - 1)
    OBVIOUS
  <2>. HIDE DEF solid
  <2>3. top \in solid /\ \A w \in solid : w <= top
    BY <1>2, <2>2, Greatest
  <2>. HIDE DEF top
  <2>4. top \in 0..(y - 1) /\ At(<<x, top>>) \in Blocking
    BY <2>3 DEF solid
  <2>5. ASSUME NEW z \in (1 + top)..(y - 1) PROVE At(<<x, z>>) \notin Blocking
    <3>1. z \in 0..(y - 1) /\ ~(z <= top)
      BY <2>4
    <3>. QED  BY <2>3, <3>1 DEF solid
  <2>6. 1 + top \in 0..y /\ (1 + top) - 1 = top
    BY <2>4
  <2>. QED  BY <2>1, <2>4, <2>5, <2>6
<1>. QED  BY <1>1, <1>2

\* There is only one such height.
LEMMA TopUnique ==
  ASSUME NEW x, NEW y \in Nat, NEW h \in 0..y,
         \A z \in h..(y - 1) : At(<<x, z>>) \notin Blocking,
         h > 0 => At(<<x, h - 1>>) \in Blocking
  PROVE  h = TopBelow(x, y)
<1>. DEFINE g == TopBelow(x, y)
<1>1. /\ g \in 0..y
      /\ \A z \in g..(y - 1) : At(<<x, z>>) \notin Blocking
      /\ g > 0 => At(<<x, g - 1>>) \in Blocking
  BY TopFound
<1>. HIDE DEF g
<1>2. ~(g < h)
  <2>. SUFFICES ASSUME g < h PROVE FALSE
    OBVIOUS
  <2>1. h - 1 \in g..(y - 1) /\ h > 0
    BY <1>1
  <2>. QED  BY <1>1, <2>1
<1>3. ~(h < g)
  <2>. SUFFICES ASSUME h < g PROVE FALSE
    OBVIOUS
  <2>1. g - 1 \in h..(y - 1) /\ g > 0
    BY <1>1
  <2>. QED  BY <1>1, <2>1
<1>. QED  BY <1>1, <1>2, <1>3 DEF g

\* The columns of two chunks are different.
LEMMA ColumnsApart ==
  \A k, l : ColumnsOf(k) \intersect ColumnsOf(l) # {} => k = l
  BY DEF ColumnsOf, CellsOf, ChunkOf

\* The columns of a chunk are columns.
LEMMA ColumnsType == \A k : ColumnsOf(k) \subseteq Columns
  BY DEF ColumnsOf, CellsOf, Cells

\* A step that leaves the blocks and the edits under way alone, forgets no
\* crossing, and at most drops heightmaps, keeps them right.
LEMMA HeightSteady ==
  ASSUME HeightInv, UNCHANGED edits, crossed \subseteq crossed',
         Editing' = Editing, \A t \in Editing : job'[t] = job[t],
         DOMAIN heights' \subseteq DOMAIN heights,
         \A k \in DOMAIN heights' : heights'[k] = heights[k]
  PROVE  HeightInv'
<1>1. \A c : At(c)' = At(c)
  BY DEF At
<1>2. \A c : Pending(c)' = Pending(c)
  BY DEF Pending
<1>3. \A x : Column(x)' = Column(x) /\ Column(x) \subseteq Editing
  BY DEF Column
<1>4. Mapped'
  BY DEF HeightInv, Mapped
<1>5. ASSUME NEW x \in Columns \ crossed' PROVE Fresh(x)'
  <2>1. Fresh(x)
    BY DEF HeightInv
  <2>. QED  BY <1>1, <1>3, <2>1 DEF Fresh
<1>6. ASSUME NEW k \in DOMAIN heights', NEW x \in DOMAIN heights'[k] \ crossed'
      PROVE  Topped(x, heights[k][x])'
  <2>1. Topped(x, heights[k][x])
    BY DEF HeightInv
  <2>. QED  BY <1>1, <1>2, <2>1 DEF Topped
<1>. QED  BY <1>4, <1>5, <1>6 DEF HeightInv

\* An edit adds itself to those under way, which its column may not survive
\* uncrossed.
LEMMA HeightEdit ==
  ASSUME TypeInv, HeightInv, NEW t \in Editors, NEW c \in Sites, Edited(t, c)
  PROVE  HeightInv'
<1>1. /\ t \in Threads /\ c \in Cells /\ c[1] \in Columns
      /\ pc[t] = "idle" /\ pc'[t] \in Edits /\ job'[t].cell = c /\ job'[t].state = At(c)'
      /\ \A u \in Threads \ {t} : pc'[u] = pc[u] /\ job'[u] = job[u]
      /\ \A d \in Cells \ {c} : At(d)' = At(d)
      /\ crossed' = crossed \union {c[1] : u \in Pending(c) \ {t}}
      /\ heights' = heights
  BY CachesAssumption DEF Edited, Threads, Edits, Cells
<1>2. t \notin Editing /\ Editing' = Editing \union {t}
  BY <1>1 DEF Editing, Edits, Threads
<1>3. \A u \in Editing : job'[u] = job[u] /\ u # t /\ job[u].cell \in Cells
  BY <1>1, <1>2, CachesAssumption DEF Editing, Threads, TypeInv, Threaded, Edits
<1>4. \A d : Pending(d)' = IF d = c THEN Pending(d) \union {t} ELSE Pending(d)
  BY <1>1, <1>2, <1>3 DEF Pending
<1>5. \A x : Column(x)' = IF x = c[1] THEN Column(x) \union {t} ELSE Column(x)
  BY <1>1, <1>2, <1>3 DEF Column
<1>6. Mapped'
  BY <1>1 DEF HeightInv, Mapped
<1>7. ASSUME NEW x \in Columns \ crossed' PROVE Fresh(x)'
  <2>1. x \notin crossed /\ Fresh(x)
    BY <1>1, <1>7 DEF HeightInv
  <2>2. x = c[1] => Pending(c) = {}
    BY <1>1, <1>2, <1>7 DEF Pending
  <2>3. ASSUME NEW u \in Column(x), u # t PROVE job[u].cell # c
    <3>1. u \in Editing /\ job[u].cell[1] = x
      BY DEF Column
    <3>2. CASE x = c[1]
      BY <2>2, <3>1, <3>2 DEF Pending
    <3>3. CASE x # c[1]
      BY <3>1, <3>3
    <3>. QED  BY <3>2, <3>3
  <2>4. ASSUME NEW u \in Column(x)' PROVE (job[u].state = At(job[u].cell))'
    <3>1. CASE u = t
      BY <1>1, <3>1
    <3>2. CASE u # t
      <4>1. u \in Column(x) /\ u \in Editing
        BY <1>5, <3>2 DEF Column
      <4>2. job[u].state = At(job[u].cell) /\ job'[u] = job[u]
        BY <1>3, <2>1, <4>1 DEF Fresh
      <4>3. job[u].cell \in Cells \ {c}
        BY <1>3, <2>3, <3>2, <4>1
      <4>. QED  BY <1>1, <4>2, <4>3
    <3>. QED  BY <3>1, <3>2
  <2>5. ASSUME NEW u \in Column(x)', NEW v \in Column(x)', job'[v].cell = job'[u].cell
        PROVE  v = u
    <3>1. /\ u # t => u \in Column(x) /\ job'[u] = job[u] /\ job[u].cell # c
          /\ v # t => v \in Column(x) /\ job'[v] = job[v] /\ job[v].cell # c
      BY <1>3, <1>5, <2>3 DEF Column
    <3>2. u = t <=> v = t
      BY <1>1, <2>5, <3>1
    <3>. QED  BY <2>1, <2>5, <3>1, <3>2 DEF Fresh
  <2>. QED  BY <2>4, <2>5 DEF Fresh
<1>8. ASSUME NEW k \in DOMAIN heights, NEW x \in DOMAIN heights[k] \ crossed'
      PROVE  Topped(x, heights[k][x])'
  <2>0. SUFFICES ASSUME NEW h, h = heights[k][x] PROVE Topped(x, h)'
    BY <1>1
  <2>1. x \in Columns /\ h \in 0..Height /\ x \notin crossed /\ Topped(x, h)
    BY <1>1, <2>0, ColumnsType DEF HeightInv, Mapped
  <2>2. ASSUME NEW y \in h..(Height - 1), At(<<x, y>>)' \in Blocking
        PROVE  Pending(<<x, y>>)' # {}
    <3>1. CASE <<x, y>> = c
      BY <1>4, <3>1
    <3>2. CASE <<x, y>> # c
      <4>1. <<x, y>> \in Cells \ {c}
        BY <2>1, <3>2, LightAssumption DEF Cells, Heights
      <4>2. At(<<x, y>>) \in Blocking
        BY <1>1, <2>2, <4>1
      <4>. QED  BY <1>4, <2>1, <4>2 DEF Topped
    <3>. QED  BY <3>1, <3>2
  <2>3. ASSUME h > 0 PROVE (At(<<x, h - 1>>) \in Blocking \/ Pending(<<x, h - 1>>) # {})'
    <3>. DEFINE d == <<x, h - 1>>
    <3>1. d \in Cells
      BY <2>1, <2>3, LightAssumption DEF Cells, Heights
    <3>2. At(d) \in Blocking \/ Pending(d) # {}
      BY <2>1, <2>3 DEF Topped
    <3>. HIDE DEF d
    <3>3. At(d)' \in Blocking \/ Pending(d)' # {}
      BY <1>1, <1>4, <3>1, <3>2
    <3>. QED  BY <3>3 DEF d
  <2>. QED  BY <2>2, <2>3 DEF Topped
<1>9. DOMAIN heights' = DOMAIN heights /\ heights' = heights
  BY <1>1
<1>. QED  BY <1>6, <1>7, <1>8, <1>9 DEF HeightInv

\* The update of a column counts its edit in, and ends it.
LEMMA HeightUpdate ==
  ASSUME TypeInv, HeightInv, NEW t \in Editors, UpdateHeight(t)
  PROVE  HeightInv'
<1>0. SUFFICES ASSUME NEW c, c = job[t].cell, NEW x, x = c[1], NEW y, y = c[2],
                      NEW k, k = ChunkOf(c), NEW s, s = job[t].state,
                      NEW first, first = heights[k][x],
                      NEW next,
                      next = CASE s \in Blocking /\ y >= first -> y + 1
                               [] s \notin Blocking /\ y = first - 1 -> TopBelow(x, y)
                               [] OTHER -> first
               PROVE  HeightInv'
  OBVIOUS
<1>1. /\ t \in Threads /\ pc[t] = "height" /\ Become(t, "idle", Idle)
      /\ heights' = IF k \in DOMAIN heights THEN [heights EXCEPT ![k][x] = next] ELSE heights
      /\ UNCHANGED <<edits, crossed>>
  BY <1>0 DEF UpdateHeight, Done, Threads
<1>2. c \in Cells /\ c = <<x, y>> /\ x \in Columns /\ y \in 0..(Height - 1) /\ x \in ColumnsOf(k)
  <2>1. c \in Cells /\ x = c[1] /\ y = c[2] /\ k = ChunkOf(c)
    BY <1>0, <1>1, CachesAssumption DEF TypeInv, Threaded, Edits
  <2>. QED  BY <2>1 DEF Cells, Heights, ColumnsOf, CellsOf
<1>3. t \in Column(x) /\ t \in Pending(c) /\ t \in Editing
  BY <1>0, <1>1 DEF Column, Pending, Editing
<1>4. /\ Editing' = Editing \ {t}
      /\ \A u \in Editing \ {t} : job'[u] = job[u]
  BY <1>1, Becoming DEF TypeInv, Phases, Editing, Threads
<1>5. \A d : Pending(d)' = Pending(d) \ {t}
  BY <1>4 DEF Pending
<1>6. \A z : Column(z)' = Column(z) \ {t}
  BY <1>4 DEF Column
<1>7. \A d : At(d)' = At(d)
  BY <1>1 DEF At
<1>8. \A d : d # c => Pending(d)' = Pending(d)
  BY <1>0, <1>5 DEF Pending
<1>9. ASSUME NEW z \in Columns \ crossed' PROVE Fresh(z)'
  <2>1. Fresh(z) /\ Column(z) \subseteq Editing
    BY <1>1 DEF HeightInv, Column
  <2>. QED  BY <1>4, <1>6, <1>7, <2>1 DEF Fresh
<1>10. ASSUME NEW z, NEW h, z # x, Topped(z, h) PROVE Topped(z, h)'
  <2>1. \A w : <<z, w>> # c
    BY <1>2, <1>10
  <2>. QED  BY <1>7, <1>8, <1>10, <2>1 DEF Topped
<1>11. ASSUME k \in DOMAIN heights
       PROVE  next \in 0..Height /\ (x \notin crossed => Topped(x, next)')
  <2>1. first \in 0..Height
    <3>1. heights[k][x] \in 0..Height
      BY <1>2, <1>11 DEF HeightInv, Mapped
    <3>2. first = heights[k][x]
      BY <1>0
    <3>. QED  BY <3>1, <3>2
  <2>2. next \in 0..Height
    <3>1. y \in Nat
      BY <1>2
    <3>2. TopBelow(x, y) \in 0..y
      BY <3>1, TopFound
    <3>3. next = y + 1 \/ next = TopBelow(x, y) \/ next = first
      BY <1>0
    <3>4. y + 1 \in 0..Height /\ TopBelow(x, y) \in 0..Height
      BY <1>2, <3>2, LightAssumption
    <3>. QED  BY <2>1, <3>3, <3>4
  <2>3. ASSUME x \notin crossed PROVE Topped(x, next)'
    <3>1. Topped(x, first) /\ Fresh(x)
      BY <1>0, <1>2, <1>11, <2>3 DEF HeightInv, Mapped
    <3>2. s = At(c) /\ Pending(c) = {t}
      <4>1. Pending(c) \subseteq Column(x)
        BY <1>0 DEF Pending, Column
      <4>. QED  BY <1>0, <1>3, <3>1, <4>1 DEF Fresh, Pending
    <3>3. /\ \A z \in first..(Height - 1) : z # y => (At(<<x, z>>) \in Blocking => Pending(<<x, z>>)' # {})
          /\ first > 0 /\ first - 1 # y =>
                 At(<<x, first - 1>>) \in Blocking \/ Pending(<<x, first - 1>>)' # {}
      BY <1>2, <1>8, <3>1 DEF Topped
    <3>4. At(<<x, y>>) = s
      BY <1>2, <3>2
    <3>5. CASE s \in Blocking /\ y >= first
      <4>1. next = y + 1
        BY <1>0, <3>5
      <4>2. \A z \in next..(Height - 1) : z \in first..(Height - 1) /\ z # y
        BY <1>2, <2>1, <3>5, <4>1
      <4>3. next - 1 = y
        BY <1>2, <4>1
      <4>. QED  BY <1>7, <3>3, <3>4, <3>5, <4>2, <4>3 DEF Topped
    <3>6. CASE s \notin Blocking /\ y = first - 1
      <4>1. next = TopBelow(x, y)
        BY <1>0, <1>2, <2>1, <3>6
      <4>2. /\ next \in 0..y
            /\ \A z \in next..(y - 1) : At(<<x, z>>) \notin Blocking
            /\ next > 0 => At(<<x, next - 1>>) \in Blocking
        BY <1>2, <4>1, TopFound
      <4>3. ASSUME NEW z \in next..(Height - 1), At(<<x, z>>) \in Blocking
            PROVE  Pending(<<x, z>>)' # {}
        <5>1. z # y
          BY <3>4, <3>6, <4>3
        <5>2. ~(z \in next..(y - 1))
          BY <4>2, <4>3
        <5>3. z \in first..(Height - 1)
          BY <1>2, <2>1, <2>2, <3>6, <5>1, <5>2
        <5>. QED  BY <3>3, <4>3, <5>1, <5>3
      <4>. QED  BY <1>7, <4>2, <4>3 DEF Topped
    <3>7. CASE /\ ~(s \in Blocking /\ y >= first)
               /\ ~(s \notin Blocking /\ y = first - 1)
      <4>1. next = first
        BY <1>0, <3>7
      <4>2. ASSUME NEW z \in first..(Height - 1), At(<<x, z>>) \in Blocking
            PROVE  Pending(<<x, z>>)' # {}
        <5>1. z # y
          BY <1>2, <2>1, <3>4, <3>7, <4>2
        <5>. QED  BY <3>3, <4>2, <5>1
      <4>3. ASSUME first > 0
            PROVE  At(<<x, first - 1>>) \in Blocking \/ Pending(<<x, first - 1>>)' # {}
        <5>1. CASE first - 1 = y
          BY <3>4, <3>7, <5>1
        <5>2. CASE first - 1 # y
          BY <3>3, <4>3, <5>2
        <5>. QED  BY <5>1, <5>2
      <4>. QED  BY <1>7, <4>1, <4>2, <4>3 DEF Topped
    <3>. QED  BY <3>5, <3>6, <3>7
  <2>. QED  BY <2>2, <2>3
<1>12. ASSUME NEW l \in DOMAIN heights', NEW z \in DOMAIN heights'[l]
       PROVE  /\ l \in DOMAIN heights /\ z \in DOMAIN heights[l]
              /\ l = k /\ z = x => heights'[l][z] = next
              /\ z # x => heights'[l][z] = heights[l][z]
              /\ z = x => l = k
  <2>1. l \in DOMAIN heights /\ DOMAIN heights'[l] = DOMAIN heights[l]
    BY <1>1
  <2>2. z \in ColumnsOf(l)
    BY <2>1 DEF HeightInv, Mapped
  <2>3. z = x => l = k
    BY <1>2, <2>2, ColumnsApart
  <2>. QED  BY <1>1, <2>1, <2>3
<1>13. Mapped'
  <2>. SUFFICES ASSUME NEW l \in DOMAIN heights'
                PROVE  /\ DOMAIN heights'[l] = ColumnsOf(l)
                       /\ \A z \in DOMAIN heights'[l] : heights'[l][z] \in 0..Height
    BY DEF Mapped, ColumnsOf
  <2>1. l \in DOMAIN heights /\ DOMAIN heights'[l] = DOMAIN heights[l]
    BY <1>1
  <2>. QED  BY <1>11, <1>12, <2>1 DEF HeightInv, Mapped
<1>14. ASSUME NEW l \in DOMAIN heights', NEW z \in DOMAIN heights'[l] \ crossed'
       PROVE  Topped(z, heights[l][z])'
  <2>1. z \notin crossed /\ l \in DOMAIN heights /\ z \in DOMAIN heights[l]
    BY <1>1, <1>12
  <2>2. CASE z = x
    BY <1>11, <1>12, <2>1, <2>2
  <2>3. CASE z # x
    BY <1>10, <1>12, <2>1, <2>3 DEF HeightInv
  <2>. QED  BY <2>2, <2>3
<1>. QED  BY <1>9, <1>13, <1>14 DEF HeightInv

\* A column is primed from the blocks as they are.
LEMMA HeightPrime ==
  ASSUME TypeInv, HeightInv, NEW t \in Askers, NEW k \in Asked, PrimeHeights(t, k)
  PROVE  HeightInv'
<1>. DEFINE new == [x \in ColumnsOf(k) |-> TopBelow(x, Height)]
<1>1. /\ k \notin DOMAIN heights
      /\ heights' = With(heights, k, new)
      /\ crossed' = crossed \ {c[1] : c \in {c \in CellsOf({k}) : Column(c[1]) = {}}}
      /\ UNCHANGED <<edits, pc, job>>
  BY DEF PrimeHeights, ColumnsOf
<1>2. /\ \A c : At(c)' = At(c) /\ Pending(c)' = Pending(c)
      /\ \A x : Column(x)' = Column(x)
  BY <1>1 DEF At, Pending, Column, Editing
<1>3. \A x : x \in crossed /\ x \notin crossed' => Column(x) = {} /\ x \in ColumnsOf(k)
  BY <1>1 DEF ColumnsOf
<1>4. /\ DOMAIN heights' = DOMAIN heights \union {k}
      /\ heights'[k] = new
      /\ \A l \in DOMAIN heights : l # k /\ heights'[l] = heights[l]
  BY <1>1 DEF With
<1>5. \A x \in ColumnsOf(k) : new[x] = TopBelow(x, Height) /\ new[x] \in 0..Height
  BY TopFound, LightAssumption
<1>6. DOMAIN new = ColumnsOf(k)
  OBVIOUS
<1>. HIDE DEF new
<1>7. Mapped'
  BY <1>4, <1>5, <1>6 DEF HeightInv, Mapped, ColumnsOf
<1>8. ASSUME NEW x \in Columns \ crossed' PROVE Fresh(x)'
  <2>1. Fresh(x)
    BY <1>3 DEF HeightInv, Fresh
  <2>. QED  BY <1>1, <1>2, <2>1 DEF Fresh
<1>9. ASSUME NEW l \in DOMAIN heights', NEW x \in DOMAIN heights'[l] \ crossed'
      PROVE  Topped(x, heights[l][x])'
  <2>1. CASE l = k
    <3>1. x \in ColumnsOf(k) /\ heights'[l][x] = TopBelow(x, Height)
      BY <1>4, <1>5, <1>6, <2>1
    <3>2. Topped(x, TopBelow(x, Height))
      BY TopFound, LightAssumption DEF Topped
    <3>3. Topped(x, heights'[l][x])
      BY <3>1, <3>2
    <3>. QED  BY <1>2, <3>3 DEF Topped
  <2>2. CASE l # k
    <3>1. l \in DOMAIN heights /\ heights'[l] = heights[l] /\ x \in ColumnsOf(l)
      BY <1>4, <2>2 DEF HeightInv, Mapped
    <3>2. x \notin ColumnsOf(k)
      BY <2>2, <3>1, ColumnsApart
    <3>3. Topped(x, heights'[l][x])
      BY <1>3, <3>1, <3>2 DEF HeightInv
    <3>. QED  BY <1>2, <3>3 DEF Topped
  <2>. QED  BY <2>1, <2>2
<1>. QED  BY <1>7, <1>8, <1>9 DEF HeightInv

\* Every step keeps the heightmaps right.
LEMMA HeightsKept == TypeInv /\ HeightInv /\ [Next]_vars => HeightInv'
<1>. SUFFICES ASSUME TypeInv, HeightInv, [Next]_vars PROVE HeightInv'
  OBVIOUS
<1>1. ASSUME NEW t \in Editors, Edit(t) PROVE HeightInv'
  <2>1. ASSUME NEW c \in Sites, RevertEdit(t, c) \/ \E s \in Placeable[c] : SetBlock(t, c, s)
        PROVE  HeightInv'
    BY <2>1, EditOfOne, HeightEdit
  <2>2. ASSUME Relight(t) \/ DropIndex(t) PROVE HeightInv'
    <3>1. /\ t \in Threads /\ pc[t] \in {"relight", "index"}
          /\ Become(t, "index", job[t]) \/ Become(t, "height", job[t])
          /\ UNCHANGED <<edits, heights, crossed>>
      BY <2>2 DEF Relight, DropIndex, Threads
    <3>2. pc'[t] \in Edits /\ \A u \in Threads : job'[u] = job[u] /\ (u # t => pc'[u] = pc[u])
      BY <3>1, Becoming DEF TypeInv, Phases, Edits
    <3>3. Editing' = Editing /\ \A u \in Editing : job'[u] = job[u]
      BY <3>1, <3>2 DEF Editing, Edits, Threads
    <3>. QED  BY <3>1, <3>3, HeightSteady
  <2>. QED  BY <1>1, <2>1, <2>2, HeightUpdate DEF Edit
<1>2. ASSUME NEW t \in Threads, NEW step \in Phases \ Edits, NEW what,
             pc[t] \notin Edits, Become(t, step, what), UNCHANGED <<edits, heights, crossed>>
      PROVE  HeightInv'
  <2>1. pc'[t] = step /\ \A u \in Threads \ {t} : pc'[u] = pc[u] /\ job'[u] = job[u]
    BY <1>2, Becoming DEF TypeInv
  <2>2. Editing' = Editing /\ \A u \in Editing : job'[u] = job[u]
    BY <1>2, <2>1 DEF Editing, Edits, Threads
  <2>. QED  BY <1>2, <2>2, HeightSteady
<1>3. ASSUME NEW t \in Fillers, ReadLight(t) PROVE HeightInv'
  <2>1. t \in Threads
    BY DEF Threads
  <2>2. /\ pc[t] \in {"idle", "fill"} /\ UNCHANGED <<edits, heights, crossed>>
        /\ \E step \in {"idle", "fill"} : \E what : Become(t, step, what)
    BY <1>3 DEF ReadLight, BeginFill, ReadChunk, EndFill, Done
  <2>. QED  BY <1>2, <2>1, <2>2 DEF Phases, Edits
<1>4. ASSUME NEW t \in Askers, Ask(t) PROVE HeightInv'
  <2>1. t \in Threads
    BY DEF Threads
  <2>2. ASSUME StorePoints(t) \/ \E k \in Asked : LookForPoints(t, k) PROVE HeightInv'
    <3>1. /\ pc[t] \in {"idle", "store"} /\ UNCHANGED <<edits, heights, crossed>>
          /\ \E step \in {"idle", "store"} : \E what : Become(t, step, what)
      BY <2>2 DEF LookForPoints, StorePoints, Done
    <3>. QED  BY <1>2, <2>1, <3>1 DEF Phases, Edits
  <2>. QED  BY <1>4, <2>2, HeightPrime DEF Ask
<1>5. ASSUME NEW k \in Chunks, Load(k) \/ Unload(k) PROVE HeightInv'
  <2>1. /\ UNCHANGED <<edits, crossed, pc, job>>
        /\ DOMAIN heights' \subseteq DOMAIN heights
        /\ \A l \in DOMAIN heights' : heights'[l] = heights[l]
    BY <1>5 DEF Load, Unload, Without
  <2>. QED  BY <2>1, HeightSteady DEF Editing
<1>6. CASE UNCHANGED vars
  BY <1>6, HeightSteady DEF vars, Editing
<1>. QED  BY <1>1, <1>3, <1>4, <1>5, <1>6 DEF Next

\* A column that no edit is under way in, and that was not crossed, is topped
\* where a scan would find its top.
LEMMA HeightsFollow == TypeInv /\ HeightInv => HeightsRight
<1>. SUFFICES ASSUME HeightInv, NEW k \in DOMAIN heights, NEW x \in DOMAIN heights[k],
                     x \notin crossed, Column(x) = {}
              PROVE  heights[k][x] = TopBelow(x, Height)
  BY DEF HeightsRight
<1>. DEFINE h == heights[k][x]
<1>1. h \in 0..Height /\ Topped(x, h)
  BY DEF HeightInv, Mapped
<1>. HIDE DEF h
<1>2. \A y : Pending(<<x, y>>) = {}
  BY DEF Pending, Column
<1>3. /\ \A z \in h..(Height - 1) : At(<<x, z>>) \notin Blocking
      /\ h > 0 => At(<<x, h - 1>>) \in Blocking
  BY <1>1, <1>2 DEF Topped
<1>4. h = TopBelow(x, Height)
  BY <1>1, <1>3, TopUnique, LightAssumption
<1>. QED  BY <1>4 DEF h

\* Whatever the order in which edits of different cells, their updates, the
\* first ask and the memory cache come, a stored height is what a scan of its
\* column would find.
THEOREM HeightsAlways == Spec => []HeightsRight
<1>1. ASSUME Init PROVE HeightInv
  <2>1. Editing = {} /\ DOMAIN heights = {}
    BY <1>1 DEF Init, Editing, Threads
  <2>. QED  BY <2>1 DEF HeightInv, Mapped, Fresh, Column
<1>2. Spec => [](TypeInv /\ HeightInv)
  BY <1>1, TypeInit, TypeStep, HeightsKept, PTL DEF Spec
<1>. QED  BY <1>2, HeightsFollow, PTL

-----------------------------------------------------------------------------
(* Points of interest.                                                     *)

\* Editors of a chunk who have not yet come past its index.
Unindexed(k) == {t \in InFlight(k) : pc[t] # "height"}

\* A chunk's list, and what anyone is about to store for it, is what its blocks
\* have, unless an edit has yet to reach the index.
PointInv ==
    /\ \A k \in DOMAIN points \ missed : Unindexed(k) # {} \/ points[k] = PointsIn(k)
    /\ \A k \in Chunks \ missed : \A t \in Looking(k) : job[t].found = PointsIn(k)

\* An edit of chunk c[1] is missed by whoever looks at it, and is not indexed.
LEMMA PointEdit ==
  ASSUME TypeInv, PointInv, NEW t \in Editors, NEW c \in Sites, Edited(t, c)
  PROVE  PointInv'
<1>1. /\ t \in Threads /\ c \in Cells /\ ChunkOf(c) \in Chunks
      /\ pc[t] = "idle" /\ pc'[t] \in {"relight", "index"} /\ job'[t].cell = c
      /\ \A u \in Threads \ {t} : pc'[u] = pc[u] /\ job'[u] = job[u]
      /\ \A d \in Cells \ {c} : At(d)' = At(d)
      /\ missed' = missed \union {ChunkOf(c) : u \in Looking(ChunkOf(c))}
      /\ points' = points
  BY CachesAssumption, ChunkType DEF Edited, Threads
<1>2. \A k : Unindexed(k) \subseteq Unindexed(k)'
  BY <1>1 DEF Unindexed, InFlight, Editing, Threads
<1>3. t \in Unindexed(ChunkOf(c))'
  BY <1>1 DEF Unindexed, InFlight, Editing
<1>4. \A k : Looking(k)' = Looking(k) /\ \A u \in Looking(k) : job'[u] = job[u]
  BY <1>1 DEF Looking, Threads
<1>5. \A k : k # ChunkOf(c) => PointsIn(k)' = PointsIn(k)
  BY <1>1 DEF PointsIn, CellsOf
<1>6. ASSUME NEW k \in DOMAIN points' \ missed'
      PROVE  (Unindexed(k) # {} \/ points[k] = PointsIn(k))'
  <2>1. CASE k = ChunkOf(c)
    BY <1>3, <2>1
  <2>2. CASE k # ChunkOf(c)
    BY <1>1, <1>2, <1>5, <2>2 DEF PointInv
  <2>. QED  BY <2>1, <2>2
<1>7. ASSUME NEW k \in Chunks \ missed', NEW u \in Looking(k)'
      PROVE  (job[u].found = PointsIn(k))'
  BY <1>1, <1>4, <1>5, <1>7 DEF PointInv
<1>. QED  BY <1>6, <1>7 DEF PointInv

\* What changes neither blocks nor lists, and no edit's or look's standing.
LEMMA PointSteady ==
  ASSUME PointInv, UNCHANGED <<edits, points, missed>>,
         \A k : Unindexed(k) \subseteq Unindexed(k)',
         \A k : Looking(k)' \subseteq Looking(k) /\ \A t \in Looking(k)' : job'[t] = job[t]
  PROVE  PointInv'
<1>1. \A k : PointsIn(k)' = PointsIn(k)
  BY DEF PointsIn, At
<1>. QED  BY <1>1 DEF PointInv

\* The index of the edited chunk is dropped; a look that is still on will store
\* what it saw all the same, and the chunk stays missed.
LEMMA PointDrop ==
  ASSUME TypeInv, PointInv, NEW t \in Editors, DropIndex(t)
  PROVE  PointInv'
<1>. DEFINE c == ChunkOf(job[t].cell)
<1>1. /\ t \in Threads /\ pc[t] = "index" /\ Become(t, "height", job[t])
      /\ points' = Without(points, {c})
      /\ missed' = IF Looking(c) = {} THEN missed \ {c} ELSE missed
      /\ UNCHANGED edits
  BY DEF DropIndex, Threads
<1>2. /\ pc'[t] = "height" /\ \A u \in Threads : job'[u] = job[u]
      /\ \A u \in Threads \ {t} : pc'[u] = pc[u]
  BY <1>1, Becoming DEF TypeInv, Phases
<1>3. \A k : k # c => Unindexed(k)' = Unindexed(k)
  BY <1>1, <1>2 DEF Unindexed, InFlight, Editing, Threads
<1>4. \A k : Looking(k)' = Looking(k)
  BY <1>1, <1>2 DEF Looking, Threads
<1>5. \A k : PointsIn(k)' = PointsIn(k)
  BY <1>1 DEF PointsIn, At
<1>6. ASSUME NEW k \in DOMAIN points' \ missed'
      PROVE  (Unindexed(k) # {} \/ points[k] = PointsIn(k))'
  <2>1. k # c /\ k \in DOMAIN points \ missed /\ points'[k] = points[k]
    BY <1>1 DEF Without
  <2>. QED  BY <1>3, <1>5, <2>1 DEF PointInv
<1>7. ASSUME NEW k \in Chunks \ missed', NEW u \in Looking(k)'
      PROVE  (job[u].found = PointsIn(k))'
  <2>1. u \in Looking(k) /\ u \in Threads /\ k \notin missed
    BY <1>1, <1>4 DEF Looking, Threads
  <2>. QED  BY <1>2, <1>5, <2>1 DEF PointInv
<1>. QED  BY <1>6, <1>7 DEF PointInv

\* A look finds the points the blocks have; what it saw is stored.
LEMMA PointLook ==
  ASSUME TypeInv, PointInv, NEW t \in Askers, StorePoints(t) \/ \E k \in Asked : LookForPoints(t, k)
  PROVE  PointInv'
<1>1. t \in Threads
  BY DEF Threads
<1>2. ASSUME NEW step \in Phases \ Edits, NEW what, pc[t] \notin Edits,
             Become(t, step, what), UNCHANGED edits
      PROVE  /\ \A k : Unindexed(k)' = Unindexed(k) /\ PointsIn(k)' = PointsIn(k)
             /\ pc'[t] = step /\ job'[t] = what
             /\ \A u \in Threads \ {t} : pc'[u] = pc[u] /\ job'[u] = job[u]
             /\ \A k : Looking(k)' \ {t} = Looking(k) \ {t}
  <2>1. /\ pc'[t] = step /\ job'[t] = what
        /\ \A u \in Threads \ {t} : pc'[u] = pc[u] /\ job'[u] = job[u]
    BY <1>1, <1>2, Becoming DEF TypeInv
  <2>2. \A k : Unindexed(k)' = Unindexed(k)
    BY <1>2, <2>1 DEF Unindexed, InFlight, Editing, Edits, Threads
  <2>3. \A k : PointsIn(k)' = PointsIn(k)
    BY <1>2 DEF PointsIn, At
  <2>4. \A k : Looking(k)' \ {t} = Looking(k) \ {t}
    BY <2>1 DEF Looking, Threads
  <2>. QED  BY <2>1, <2>2, <2>3, <2>4
<1>3. ASSUME NEW k \in Asked, LookForPoints(t, k) PROVE PointInv'
  <2>. DEFINE what == [cell |-> <<0, 0>>, chunk |-> k, found |-> PointsIn(k)]
  <2>1. pc[t] = "idle" /\ Become(t, "store", what) /\ UNCHANGED <<edits, points, missed>>
    BY <1>3 DEF LookForPoints
  <2>2. what.chunk = k /\ what.found = PointsIn(k)
    OBVIOUS
  <2>. HIDE DEF what
  <2>3. /\ \A l : Unindexed(l)' = Unindexed(l) /\ PointsIn(l)' = PointsIn(l)
        /\ pc'[t] = "store" /\ job'[t] = what
        /\ \A u \in Threads \ {t} : pc'[u] = pc[u] /\ job'[u] = job[u]
        /\ \A l : Looking(l)' \ {t} = Looking(l) \ {t}
    BY <1>2, <2>1 DEF Phases, Edits
  <2>4. ASSUME NEW l \in DOMAIN points' \ missed'
        PROVE  (Unindexed(l) # {} \/ points[l] = PointsIn(l))'
    BY <2>1, <2>3 DEF PointInv
  <2>5. ASSUME NEW l \in Chunks \ missed', NEW u \in Looking(l)'
        PROVE  (job[u].found = PointsIn(l))'
    <3>1. CASE u = t
      <4>1. l = k
        BY <2>2, <2>3, <2>5, <3>1 DEF Looking
      <4>. QED  BY <2>2, <2>3, <3>1, <4>1
    <3>2. CASE u # t
      <4>1. u \in Looking(l) /\ u \in Threads /\ l \notin missed
        BY <2>1, <2>3, <2>5, <3>2 DEF Looking, Threads
      <4>. QED  BY <2>3, <2>5, <3>2, <4>1 DEF PointInv
    <3>. QED  BY <3>1, <3>2
  <2>. QED  BY <2>4, <2>5 DEF PointInv
<1>4. CASE StorePoints(t)
  <2>1. /\ pc[t] = "store" /\ Become(t, "idle", Idle) /\ UNCHANGED <<edits, missed>>
        /\ points' = With(points, job[t].chunk, job[t].found)
    BY <1>4 DEF StorePoints, Done
  <2>2. /\ \A l : Unindexed(l)' = Unindexed(l) /\ PointsIn(l)' = PointsIn(l)
        /\ pc'[t] = "idle"
        /\ \A u \in Threads \ {t} : pc'[u] = pc[u] /\ job'[u] = job[u]
        /\ \A l : Looking(l)' \ {t} = Looking(l) \ {t}
    BY <1>2, <2>1 DEF Phases, Edits
  <2>3. t \in Looking(job[t].chunk) /\ job[t].chunk \in Chunks
    BY <1>1, <2>1 DEF Looking, TypeInv, Threaded
  <2>4. ASSUME NEW l \in DOMAIN points' \ missed'
        PROVE  (Unindexed(l) # {} \/ points[l] = PointsIn(l))'
    <3>1. CASE l = job[t].chunk
      <4>1. points'[l] = job[t].found
        BY <2>1, <3>1 DEF With
      <4>2. job[t].found = PointsIn(l)
        BY <2>1, <2>3, <2>4, <3>1 DEF PointInv
      <4>. QED  BY <2>2, <4>1, <4>2
    <3>2. CASE l # job[t].chunk
      <4>1. l \in DOMAIN points \ missed /\ points'[l] = points[l]
        BY <2>1, <2>4, <3>2 DEF With
      <4>. QED  BY <2>2, <4>1 DEF PointInv
    <3>. QED  BY <3>1, <3>2
  <2>5. ASSUME NEW l \in Chunks \ missed', NEW u \in Looking(l)'
        PROVE  (job[u].found = PointsIn(l))'
    <3>1. u # t
      BY <2>2, <2>5 DEF Looking
    <3>2. u \in Looking(l) /\ u \in Threads /\ l \notin missed
      BY <2>1, <2>2, <2>5, <3>1 DEF Looking, Threads
    <3>. QED  BY <2>2, <2>5, <3>1, <3>2 DEF PointInv
  <2>. QED  BY <2>4, <2>5 DEF PointInv
<1>. QED  BY <1>3, <1>4

\* Every step keeps the index right.
LEMMA PointsKept == TypeInv /\ PointInv /\ [Next]_vars => PointInv'
<1>. SUFFICES ASSUME TypeInv, PointInv, [Next]_vars PROVE PointInv'
  OBVIOUS
<1>1. ASSUME NEW t \in Threads, NEW step \in Phases \ {"store"}, NEW what,
             Become(t, step, what), UNCHANGED <<edits, points, missed>>,
             \/ pc[t] \in {"idle", "fill", "height"}
             \/ pc[t] = "relight" /\ step = "index" /\ what = job[t]
      PROVE  PointInv'
  <2>1. /\ pc'[t] = step /\ job'[t] = what
        /\ \A u \in Threads \ {t} : pc'[u] = pc[u] /\ job'[u] = job[u]
    BY <1>1, Becoming DEF TypeInv
  <2>2. \A k : Unindexed(k) \subseteq Unindexed(k)'
    BY <1>1, <2>1 DEF Unindexed, InFlight, Editing, Threads
  <2>3. \A k : Looking(k)' \subseteq Looking(k) /\ \A u \in Looking(k)' : job'[u] = job[u]
    BY <1>1, <2>1 DEF Looking, Threads
  <2>. QED  BY <1>1, <2>2, <2>3, PointSteady
<1>2. ASSUME NEW t \in Editors, Edit(t) PROVE PointInv'
  <2>1. ASSUME NEW c \in Sites, RevertEdit(t, c) \/ \E s \in Placeable[c] : SetBlock(t, c, s)
        PROVE  PointInv'
    BY <2>1, EditOfOne, PointEdit
  <2>2. ASSUME Relight(t) PROVE PointInv'
    <3>1. /\ t \in Threads /\ pc[t] = "relight" /\ Become(t, "index", job[t])
          /\ UNCHANGED <<edits, points, missed>>
      BY <2>2 DEF Relight, Threads
    <3>. QED  BY <1>1, <3>1 DEF Phases
  <2>3. ASSUME UpdateHeight(t) PROVE PointInv'
    <3>1. /\ t \in Threads /\ pc[t] = "height" /\ Become(t, "idle", Idle)
          /\ UNCHANGED <<edits, points, missed>>
      BY <2>3 DEF UpdateHeight, Done, Threads
    <3>. QED  BY <1>1, <3>1 DEF Phases
  <2>. QED  BY <1>2, <2>1, <2>2, <2>3, PointDrop DEF Edit
<1>3. ASSUME NEW t \in Fillers, ReadLight(t) PROVE PointInv'
  <2>1. t \in Threads
    BY DEF Threads
  <2>2. /\ pc[t] \in {"idle", "fill"} /\ UNCHANGED <<edits, points, missed>>
        /\ \E step \in {"idle", "fill"} : \E what : Become(t, step, what)
    BY <1>3 DEF ReadLight, BeginFill, ReadChunk, EndFill, Done
  <2>. QED  BY <1>1, <2>1, <2>2 DEF Phases
<1>4. ASSUME UNCHANGED <<edits, points, missed, pc, job>> PROVE PointInv'
  <2>1. \A k : Unindexed(k)' = Unindexed(k) /\ Looking(k)' = Looking(k)
    BY <1>4 DEF Unindexed, InFlight, Editing, Looking
  <2>. QED  BY <1>4, <2>1, PointSteady
<1>5. ASSUME NEW t \in Askers, Ask(t) PROVE PointInv'
  <2>1. ASSUME NEW k \in Asked, PrimeHeights(t, k) PROVE PointInv'
    BY <1>4, <2>1 DEF PrimeHeights
  <2>. QED  BY <1>5, <2>1, PointLook DEF Ask
<1>6. ASSUME NEW k \in Chunks, Load(k) \/ Unload(k) PROVE PointInv'
  BY <1>4, <1>6 DEF Load, Unload
<1>7. CASE UNCHANGED vars
  BY <1>4, <1>7 DEF vars
<1>. QED  BY <1>2, <1>3, <1>5, <1>6, <1>7 DEF Next

\* A chunk's list is what its blocks have once the edits of the chunk have
\* reached the index, unless an edit passed between the look and the store.
THEOREM PointsAlways == Spec => []PointsRight
<1>1. ASSUME Init PROVE PointInv
  <2>1. DOMAIN points = {} /\ \A k : Looking(k) = {}
    BY <1>1 DEF Init, Looking, Threads
  <2>. QED  BY <2>1 DEF PointInv
<1>2. PointInv => PointsRight
  BY DEF PointInv, PointsRight, Unindexed
<1>3. Spec => [](TypeInv /\ PointInv)
  BY <1>1, TypeInit, TypeStep, PointsKept, PTL DEF Spec
<1>. QED  BY <1>2, <1>3, PTL
\* A nonempty set of naturals has a least element.
LEMMA Smallest ==
  ASSUME NEW S, S \subseteq Nat, S # {}
  PROVE  \E z \in S : \A w \in S : z <= w
<1>. DEFINE R == {p \in Nat \X Nat : p[1] < p[2]}
<1>1. IsWellFoundedOn(R, Nat)
  BY NatLessThanWellFounded, Zenon DEF OpToRel
<1>. HIDE DEF R
<1>2. PICK m \in S : \A n \in S : ~(<<n, m>> \in R)
  BY <1>1, WFMin
<1>3. ASSUME NEW w \in S PROVE m <= w
  <2>1. ~(<<w, m>> \in R) /\ w \in Nat /\ m \in Nat
    BY <1>2
  <2>2. <<w, m>> \in R <=> w < m
    BY <2>1 DEF R
  <2>. QED  BY <2>1, <2>2
<1>. QED  BY <1>3

-----------------------------------------------------------------------------
(* The ring of columns.                                                    *)

\* Where a column number comes to on the ring, once round at most.
LEMMA Remainder ==
  ASSUME NEW W \in Nat \ {0}, NEW a \in Int, 0 <= a, a < 3 * W
  PROVE  /\ a < W => a % W = a
         /\ W <= a /\ a < 2 * W => a % W = a - W
         /\ 2 * W <= a => a % W = a - 2 * W
<1>. DEFINE q == a \div W  r == a % W
<1>1. q \in Int /\ r \in 0..(W - 1) /\ a = W * q + r
  BY Z3
<1>. HIDE DEF q, r
<1>2. q < 3 /\ q >= 0
  <2>1. ASSUME q >= 3 PROVE FALSE
    <3>1. W * q >= W * 3
      BY <1>1, <2>1, Z3
    <3>. QED  BY <1>1, <3>1
  <2>2. ASSUME q <= -1 PROVE FALSE
    <3>1. W * q <= W * (-1)
      BY <1>1, <2>2, Z3
    <3>. QED  BY <1>1, <3>1
  <2>. QED  BY <1>1, <2>1, <2>2
<1>3. q = 0 \/ q = 1 \/ q = 2
  BY <1>1, <1>2
<1>4. r = a \/ r = a - W \/ r = a - 2 * W
  <2>1. CASE q = 0
    BY <1>1, <2>1
  <2>2. CASE q = 1
    BY <1>1, <2>2
  <2>3. CASE q = 2
    BY <1>1, <2>3
  <2>. QED  BY <1>3, <2>1, <2>2, <2>3
<1>. QED  BY <1>1, <1>4 DEF r

\* The column i away from x, to the east if i is positive.
Off(x, i) == (x + Width + i) % Width

\* The ring is wider than light reaches on both sides of a column.
LEMMA WidthType ==
  /\ Width \in Nat \ {0} /\ MaxLevel \in Nat \ {0} /\ ChunkWidth \in Nat
  /\ 2 * MaxLevel + 2 <= Width /\ MaxLevel <= ChunkWidth
  /\ Columns \subseteq Nat /\ \A x \in Columns : x < Width
<1>1. ChunkWidth * NChunks >= ChunkWidth * 4
  BY LightAssumption, Z3
<1>. QED
  BY <1>1, LightAssumption DEF Width, Columns

\* Going round by less than the ring.
LEMMA OffIs ==
  ASSUME NEW x \in Columns, NEW i \in Int, -Width <= i, i <= Width
  PROVE  /\ Off(x, i) \in Columns
         /\ Off(x, i) = IF x + i < 0 THEN x + i + Width
                        ELSE IF x + i < Width THEN x + i ELSE x + i - Width
<1>1. x + Width + i \in Int /\ 0 <= x + Width + i /\ x + Width + i < 3 * Width
  BY WidthType
<1>2. Off(x, i) = IF x + i < 0 THEN x + i + Width
                        ELSE IF x + i < Width THEN x + i ELSE x + i - Width
  <2>. DEFINE a == x + Width + i
  <2>1. /\ a < Width => a % Width = a
        /\ Width <= a /\ a < 2 * Width => a % Width = a - Width
        /\ 2 * Width <= a => a % Width = a - 2 * Width
    BY <1>1, Remainder, WidthType
  <2>. QED  BY <1>1, <2>1, WidthType DEF Off
<1>. QED
  BY <1>2, WidthType DEF Columns

\* No column away is the column itself.
LEMMA OffZero ==
  ASSUME NEW x \in Columns
  PROVE  Off(x, 0) = x
<1>1. Width \in Nat /\ x \in Nat /\ x < Width /\ -Width <= 0 /\ 0 <= Width
  BY WidthType
<1>2. Off(x, 0) = IF x + 0 < 0 THEN x + 0 + Width
                  ELSE IF x + 0 < Width THEN x + 0 ELSE x + 0 - Width
  BY <1>1, OffIs
<1>. QED  BY <1>1, <1>2

\* One step more.
LEMMA OffStep ==
  ASSUME NEW x \in Columns, NEW i \in Int, NEW j \in {-1, 0, 1},
         -Width < i, i < Width
  PROVE  Off(Off(x, i), j) = Off(x, i + j)
<1>. DEFINE y == Off(x, i)
<1>1. /\ y \in Columns /\ y \in Nat /\ x \in Nat /\ y < Width /\ x < Width
      /\ y = IF x + i < 0 THEN x + i + Width
             ELSE IF x + i < Width THEN x + i ELSE x + i - Width
  BY OffIs, WidthType
<1>2. Off(y, j) = IF y + j < 0 THEN y + j + Width
                  ELSE IF y + j < Width THEN y + j ELSE y + j - Width
  BY <1>1, OffIs, WidthType
<1>3. Off(x, i + j) = IF x + i + j < 0 THEN x + i + j + Width
                  ELSE IF x + i + j < Width THEN x + i + j ELSE x + i + j - Width
  BY <1>1, OffIs, WidthType
<1>. HIDE DEF y
<1>4. Off(y, j) = Off(x, i + j)
  BY <1>1, <1>2, <1>3, WidthType
<1>. QED  BY <1>4 DEF y

\* Where a step leads.
LEMMA StepIs ==
  ASSUME NEW c \in Cells, NEW d \in AllDirs
  PROVE  /\ Step(c, d) = <<Off(c[1], ColumnStep[d]), c[2] + HeightStep[d]>>
         /\ ColumnStep[d] \in {-1, 0, 1} /\ HeightStep[d] \in {-1, 0, 1}
         /\ Step(c, d)[1] \in Columns
<1>1. c[1] \in Columns
  BY DEF Cells
<1>2. ColumnStep[d] \in {-1, 0, 1} /\ HeightStep[d] \in {-1, 0, 1}
  BY DEF ColumnStep, HeightStep, AllDirs
<1>3. Step(c, d) = <<Off(c[1], ColumnStep[d]), c[2] + HeightStep[d]>>
  BY DEF Step, Off
<1>4. Off(c[1], ColumnStep[d]) \in Columns
  <2>. DEFINE i == ColumnStep[d]
  <2>1. i \in Int /\ -Width <= i /\ i <= Width
    BY <1>2, WidthType
  <2>. HIDE DEF i
  <2>2. Off(c[1], i) \in Columns
    BY <1>1, <2>1, OffIs
  <2>. QED  BY <2>2 DEF i
<1>. QED  BY <1>2, <1>3, <1>4

\* The way back from the way back.
LEMMA BackDir == \A d \in AllDirs : Back[d] \in AllDirs /\ Back[Back[d]] = d
  BY DEF AllDirs, Back

\* A step back.
LEMMA StepBack ==
  ASSUME NEW c \in Cells, NEW d \in AllDirs, Step(c, d) \in Cells
  PROVE  Step(Step(c, d), Back[d]) = c
<1>1. c \in Columns \X Heights /\ c = <<c[1], c[2]>> /\ c[1] \in Columns /\ c[2] \in Int
  BY DEF Cells, Heights
<1>2. /\ ColumnStep[Back[d]] = -ColumnStep[d] /\ HeightStep[Back[d]] = -HeightStep[d]
  BY DEF ColumnStep, HeightStep, AllDirs, Back
<1>3. Step(c, d) = <<Off(c[1], ColumnStep[d]), c[2] + HeightStep[d]>>
      /\ ColumnStep[d] \in {-1, 0, 1} /\ HeightStep[d] \in {-1, 0, 1}
  BY StepIs
<1>4. Step(Step(c, d), Back[d]) = <<Off(Off(c[1], ColumnStep[d]), -ColumnStep[d]), c[2]>>
  <2>1. Step(Step(c, d), Back[d]) = <<Off(Step(c, d)[1], ColumnStep[Back[d]]),
                                      Step(c, d)[2] + HeightStep[Back[d]]>>
    BY StepIs, BackDir
  <2>2. (c[2] + HeightStep[d]) + (-HeightStep[d]) = c[2]
    BY <1>1, <1>3
  <2>. QED  BY <1>2, <1>3, <2>1, <2>2
<1>5. Off(Off(c[1], ColumnStep[d]), -ColumnStep[d]) = Off(c[1], 0)
  <2>. DEFINE i == ColumnStep[d]
  <2>1. i \in {-1, 0, 1} /\ -i \in {-1, 0, 1} /\ i \in Int /\ -Width < i /\ i < Width /\ i + (-i) = 0
    BY <1>3, WidthType
  <2>. HIDE DEF i
  <2>2. Off(Off(c[1], i), -i) = Off(c[1], i + (-i))
    BY <1>1, <2>1, OffStep
  <2>. QED  BY <2>1, <2>2 DEF i
<1>6. Off(c[1], 0) = c[1]
  BY <1>1, OffZero
<1>. QED  BY <1>1, <1>4, <1>5, <1>6

\* The columns at most j away.
Close(x, j) == {Off(x, i) : i \in (-j)..j}

\* The columns close by are among those less close.
LEMMA CloseMono ==
  ASSUME NEW x, NEW i \in Int, NEW j \in Int, i <= j
  PROVE  Close(x, i) \subseteq Close(x, j)
  BY DEF Close

\* A column is close to itself.
LEMMA CloseSelf ==
  ASSUME NEW x \in Columns, NEW j \in Nat
  PROVE  x \in Close(x, j)
<1>1. Off(x, 0) = x
  BY OffZero
<1>. QED  BY <1>1 DEF Close

\* A step leads one column further at most.
LEMMA CloseStep ==
  ASSUME NEW x \in Columns, NEW c \in Cells, NEW d \in AllDirs, NEW j \in Int, j < Width,
         c[1] \in Close(x, j)
  PROVE  Step(c, d)[1] \in Close(x, j + 1)
<1>1. PICK i \in (-j)..j : c[1] = Off(x, i)
  BY DEF Close
<1>2. Step(c, d)[1] = Off(c[1], ColumnStep[d]) /\ ColumnStep[d] \in {-1, 0, 1}
  BY StepIs
<1>3. Step(c, d)[1] = Off(x, i + ColumnStep[d])
  BY <1>1, <1>2, OffStep, WidthType
<1>. QED  BY <1>2, <1>3 DEF Close

\* A cell far from a column has neighbours nearly as far.
LEMMA FarStep ==
  ASSUME NEW x \in Columns, NEW c \in Cells, NEW d \in AllDirs, NEW j \in Int, j < Width,
         Step(c, d) \in Cells, c[1] \notin Close(x, j + 1)
  PROVE  Step(c, d)[1] \notin Close(x, j)
  BY CloseStep, StepBack, BackDir

-----------------------------------------------------------------------------
(* Loops.  A loop goes from w to F[w] until it is in T, and a measure falls *)
(* at every turn.                                                          *)

LoopOver(X, T, F, M) == /\ F \in [X -> X] /\ M \in [X -> Nat]
                        /\ \A w \in X \ T : M[F[w]] < M[w]
LoopKeeps(I, T, F)   == \A w \in I \ T : F[w] \in I
Looping(X, T, F, r)  == r = [w \in X |-> IF w \in T THEN w ELSE r[F[w]]]

\* The function of a loop exists.
LEMMA LoopExists ==
  ASSUME NEW X, NEW T, NEW F, NEW M, LoopOver(X, T, F, M)
  PROVE  \E r : Looping(X, T, F, r)
<1>. F \in [X -> X] /\ M \in [X -> Nat] /\ \A w \in X \ T : M[F[w]] < M[w]
  BY DEF LoopOver
<1>. DEFINE Below(n) == {w \in X : M[w] < n}
            Good(n, g) == \A w \in Below(n) : g[w] = IF w \in T THEN w ELSE g[F[w]]
            Bad == {n \in Nat : ~ \E g : Good(n, g)}
<1>0. ASSUME NEW n \in Nat, NEW w \in Below(n) \ T PROVE F[w] \in Below(n)
  BY <1>0
<1>1. Bad = {}
  <2>. SUFFICES ASSUME Bad # {} PROVE FALSE
    OBVIOUS
  <2>0. Bad \subseteq Nat
    OBVIOUS
  <2>. HIDE DEF Bad
  <2>1. PICK m \in Bad : \A n \in Bad : m <= n
    BY <2>0, Smallest
  <2>2. m \in Nat /\ ~ \E g : Good(m, g)
    BY <2>1 DEF Bad
  <2>3. m # 0
    <3>1. ASSUME m = 0 PROVE Good(m, X)
      BY <3>1
    <3>. QED  BY <2>2, <3>1
  <2>4. m - 1 \in Nat /\ m - 1 \notin Bad
    BY <2>1, <2>2, <2>3
  <2>5. PICK g : Good(m - 1, g)
    BY <2>4 DEF Bad
  <2>. DEFINE h == [w \in X |-> IF w \in T THEN w ELSE g[F[w]]]
  <2>6. ASSUME NEW w \in Below(m - 1) PROVE h[w] = g[w]
    BY <2>5
  <2>7. ASSUME NEW w \in Below(m), w \notin T PROVE F[w] \in Below(m - 1)
    <3>1. w \in X /\ M[w] < m /\ M[F[w]] < M[w] /\ F[w] \in X /\ M[w] \in Nat /\ M[F[w]] \in Nat
      BY <2>7
    <3>. QED  BY <3>1, <2>2
  <2>8. ASSUME NEW w \in Below(m) PROVE h[w] = IF w \in T THEN w ELSE h[F[w]]
    <3>1. CASE w \in T
      BY <3>1
    <3>2. CASE w \notin T
      <4>1. h[w] = g[F[w]]
        BY <3>2
      <4>2. h[F[w]] = g[F[w]]
        BY <2>6, <2>7, <3>2
      <4>. HIDE DEF h
      <4>. QED  BY <3>2, <4>1, <4>2
    <3>. QED  BY <3>1, <3>2
  <2>9. Good(m, h)
    BY <2>8
  <2>. QED  BY <2>2, <2>9
<1>. DEFINE gs == [n \in Nat |-> CHOOSE g : Good(n, g)]
            r == [w \in X |-> gs[M[w] + 1][w]]
<1>2. ASSUME NEW n \in Nat PROVE Good(n, gs[n])
  <2>1. \E g : Good(n, g)
    BY <1>1
  <2>2. gs[n] = CHOOSE g : Good(n, g)
    OBVIOUS
  <2>. HIDE DEF Good, gs
  <2>. QED  BY <2>1, <2>2
<1>3. ASSUME NEW n \in Nat, NEW m \in Nat
      PROVE  \A w \in Below(n) \intersect Below(m) : gs[n][w] = gs[m][w]
  <2>. DEFINE g == gs[n]  h == gs[m]
              S == {w \in Below(n) \intersect Below(m) : g[w] # h[w]}
  <2>0. /\ \A w \in Below(n) : g[w] = IF w \in T THEN w ELSE g[F[w]]
        /\ \A w \in Below(m) : h[w] = IF w \in T THEN w ELSE h[F[w]]
    BY <1>2
  <2>. HIDE DEF g, h
  <2>00. SUFFICES ASSUME S # {} PROVE FALSE
    BY DEF g, h
  <2>1. {M[w] : w \in S} \subseteq Nat /\ {M[w] : w \in S} # {}
    BY <2>00
  <2>2. PICK z \in {M[w] : w \in S} : \A y \in {M[w] : w \in S} : z <= y
    <3>. DEFINE N == {M[w] : w \in S}
    <3>1. N \subseteq Nat /\ N # {}
      BY <2>1
    <3>. HIDE DEF N
    <3>2. \E z \in N : \A y \in N : z <= y
      BY <3>1, Smallest
    <3>. QED  BY <3>2 DEF N
  <2>3. PICK w \in S : z = M[w]
    BY <2>2
  <2>4. w \notin T
    BY <2>0, <2>3
  <2>5. F[w] \in Below(n) /\ F[w] \in Below(m) /\ g[w] = g[F[w]] /\ h[w] = h[F[w]] /\ w \in X
    BY <1>0, <2>0, <2>3, <2>4
  <2>6. F[w] \in S /\ M[F[w]] < M[w]
    BY <2>3, <2>4, <2>5
  <2>7. M[w] <= M[F[w]] /\ M[w] \in Nat /\ M[F[w]] \in Nat
    BY <2>2, <2>3, <2>5, <2>6
  <2>. QED  BY <2>6, <2>7
<1>4. ASSUME NEW w \in X PROVE r[w] = IF w \in T THEN w ELSE r[F[w]]
  <2>. DEFINE n == M[w] + 1
  <2>1. n \in Nat /\ w \in Below(n)
    OBVIOUS
  <2>2. gs[n][w] = IF w \in T THEN w ELSE gs[n][F[w]]
    BY <1>2, <2>1
  <2>3. ASSUME w \notin T PROVE gs[n][F[w]] = gs[M[F[w]] + 1][F[w]]
    <3>1. F[w] \in Below(n) /\ F[w] \in X
      BY <1>0, <2>1, <2>3
    <3>2. M[F[w]] + 1 \in Nat /\ F[w] \in Below(M[F[w]] + 1)
      BY <3>1
    <3>. QED  BY <1>3, <2>1, <3>1, <3>2
  <2>4. r[w] = gs[n][w] /\ r[F[w]] = gs[M[F[w]] + 1][F[w]]
    OBVIOUS
  <2>. HIDE DEF gs, n, r
  <2>. QED  BY <2>2, <2>3, <2>4
<1>5. r = [w \in X |-> r[w]]
  OBVIOUS
<1>. HIDE DEF r
<1>6. r = [w \in X |-> IF w \in T THEN w ELSE r[F[w]]]
  BY <1>4, <1>5
<1>. QED  BY <1>6 DEF Looping

\* A loop keeps its invariant, and ends.
LEMMA LoopInvariant ==
  ASSUME NEW X, NEW T, NEW F, NEW M, LoopOver(X, T, F, M),
         NEW I, I \subseteq X, LoopKeeps(I, T, F),
         NEW r, Looping(X, T, F, r), NEW a, a \in I
  PROVE  r[a] \in I /\ r[a] \in T
<1>. /\ F \in [X -> X] /\ M \in [X -> Nat] /\ \A w \in X \ T : M[F[w]] < M[w]
     /\ \A w \in I \ T : F[w] \in I
     /\ r = [w \in X |-> IF w \in T THEN w ELSE r[F[w]]]
  BY DEF LoopOver, LoopKeeps, Looping
<1>. DEFINE S == {w \in I : ~(r[w] \in I /\ r[w] \in T)}
<1>. SUFFICES ASSUME S # {} PROVE FALSE
  OBVIOUS
<1>0. ASSUME NEW w \in X PROVE r[w] = IF w \in T THEN w ELSE r[F[w]]
  OBVIOUS
<1>1. {M[w] : w \in S} \subseteq Nat /\ {M[w] : w \in S} # {}
  OBVIOUS
<1>2. PICK z \in {M[w] : w \in S} : \A y \in {M[w] : w \in S} : z <= y
  BY <1>1, Smallest
<1>3. PICK w \in S : z = M[w]
  BY <1>2
<1>4. w \notin T
  BY <1>0, <1>3
<1>5. F[w] \in I /\ r[w] = r[F[w]] /\ w \in X
  BY <1>0, <1>3, <1>4
<1>6. F[w] \in S /\ M[F[w]] < M[w]
  BY <1>3, <1>4, <1>5
<1>7. M[w] <= M[F[w]] /\ M[w] \in Nat /\ M[F[w]] \in Nat
  BY <1>2, <1>3, <1>5, <1>6
<1>. QED  BY <1>6, <1>7

-----------------------------------------------------------------------------
(* What light is, as two conditions on a lighting of the world.            *)

Source(b, sky, c) == IF sky THEN (IF SkySource(b, c) THEN MaxLevel ELSE 0)
                            ELSE Emission[b[c]]
Lets(b, c)  == Filter[b[c]] < Opaque
Price(b, c) == Cost(b[c])

\* Light that is not of the cell's own comes from a brighter neighbour.
Grounded(b, sky, L) ==
    \A c \in Cells : L[c] > Source(b, sky, c) =>
        /\ Lets(b, c)
        /\ \E d \in AllDirs : Step(c, d) \in Cells /\ L[Step(c, d)] >= L[c] + Price(b, c)

\* Every cell has the light it gives itself and what its neighbours send.
Spreads(b, sky, L) ==
    \A c \in Cells :
        /\ L[c] >= Source(b, sky, c)
        /\ Lets(b, c) => \A d \in AllDirs :
               Step(c, d) \in Cells => L[c] >= L[Step(c, d)] - Price(b, c)

\* A nonempty set of levels has a greatest one.
LEMMA GreatestLevel ==
  ASSUME NEW S, S \subseteq 0..MaxLevel, S # {}
  PROVE  \E z \in S : \A w \in S : w <= z
<1>. DEFINE y == MaxLevel + 1
<1>1. y \in Nat /\ S \subseteq 0..(y - 1)
  BY LightAssumption
<1>. HIDE DEF y
<1>. QED  BY <1>1, Greatest

\* A cell's own light and what a step into it costs.
LEMMA LightTypes ==
  ASSUME NEW b \in [Cells -> States], NEW sky \in BOOLEAN, NEW c \in Cells
  PROVE  /\ Source(b, sky, c) \in 0..MaxLevel
         /\ Price(b, c) \in 1..MaxLevel
         /\ MaxLevel \in Nat \ {0}
         /\ Price(b, c) = Larger(1, Filter[b[c]])
<1>1. b[c] \in States /\ Filter[b[c]] \in 0..MaxLevel /\ Emission[b[c]] \in 0..MaxLevel
      /\ MaxLevel \in Nat \ {0}
  BY LightAssumption DEF Opaque
<1>2. Source(b, sky, c) \in 0..MaxLevel
  BY <1>1 DEF Source
<1>3. Price(b, c) \in 1..MaxLevel
  BY <1>1 DEF Price, Cost, Larger
<1>. QED  BY <1>1, <1>2, <1>3 DEF Price, Cost

\* The function that TrueLight is written with exists, and TrueLight counts it.
LEMMA TruthCounts ==
  ASSUME NEW b \in [Cells -> States], NEW sky \in BOOLEAN
  PROVE  \E A :
    /\ \A v \in 1..MaxLevel : A[v] =
          {c \in Cells : \/ Source(b, sky, c) >= v
                         \/ /\ Lets(b, c) /\ v + Price(b, c) <= MaxLevel
                            /\ \E d \in AllDirs : Step(c, d) \in A[v + Price(b, c)]}
    /\ TrueLight(b, sky) = [c \in Cells |-> Cardinality({v \in 1..MaxLevel : c \in A[v]})]
<1>. DEFINE Lit(g, v) ==
          {c \in Cells : \/ Source(b, sky, c) >= v
                         \/ /\ Lets(b, c) /\ v + Price(b, c) <= MaxLevel
                            /\ \E d \in AllDirs : Step(c, d) \in g[v + Price(b, c)]}
            From(n) == (MaxLevel - n + 1)..MaxLevel
            Good(n, g) == \A v \in From(n) : g[v] = Lit(g, v)
            Bad == {n \in 0..MaxLevel : ~ \E g : Good(n, g)}
<1>0. MaxLevel \in Nat \ {0} /\ \A c \in Cells : Price(b, c) \in 1..MaxLevel
  BY LightTypes, LightAssumption
<1>1. Bad = {}
  <2>. SUFFICES ASSUME Bad # {} PROVE FALSE
    OBVIOUS
  <2>0. Bad \subseteq Nat
    BY <1>0
  <2>. HIDE DEF Bad
  <2>1. PICK m \in Bad : \A n \in Bad : m <= n
    BY <2>0, Smallest
  <2>2. m \in 0..MaxLevel /\ ~ \E g : Good(m, g)
    BY <2>1 DEF Bad
  <2>3. m # 0
    <3>1. ASSUME m = 0 PROVE Good(m, <<>>)
      BY <3>1, <1>0
    <3>. QED  BY <2>2, <3>1
  <2>4. m - 1 \in 0..MaxLevel /\ m - 1 \notin Bad
    BY <2>1, <2>2, <2>3, <1>0
  <2>5. PICK g : Good(m - 1, g)
    BY <2>4 DEF Bad
  <2>. DEFINE u == MaxLevel - m + 1
              h == [v \in 1..MaxLevel |-> IF v = u THEN Lit(g, u) ELSE g[v]]
  <2>6. u \in 1..MaxLevel /\ From(m) = From(m - 1) \union {u} /\ From(m) \subseteq 1..MaxLevel
        /\ u \notin From(m - 1) /\ \A v \in From(m - 1) : v > u
    BY <2>2, <2>3, <1>0
  <2>7. ASSUME NEW v \in From(m), NEW c \in Cells, v + Price(b, c) <= MaxLevel
        PROVE  h[v + Price(b, c)] = g[v + Price(b, c)]
    <3>1. v + Price(b, c) \in 1..MaxLevel /\ v + Price(b, c) # u
      BY <1>0, <2>6, <2>7
    <3>. QED  BY <3>1
  <2>8. ASSUME NEW v \in From(m) PROVE h[v] = Lit(g, v)
    <3>1. CASE v = u
      BY <3>1, <2>6
    <3>2. CASE v # u
      <4>1. v \in From(m - 1) /\ v \in 1..MaxLevel
        BY <3>2, <2>6
      <4>2. h[v] = g[v]
        BY <4>1, <3>2
      <4>3. g[v] = Lit(g, v)
        BY <4>1, <2>5
      <4>. HIDE DEF h, Lit
      <4>. QED  BY <4>2, <4>3
    <3>. QED  BY <3>1, <3>2
  <2>9. ASSUME NEW v \in From(m) PROVE Lit(h, v) = Lit(g, v)
    <3>. HIDE DEF h
    <3>. QED  BY <2>7
  <2>10. Good(m, h)
    <3>. HIDE DEF h, Lit
    <3>. QED  BY <2>8, <2>9
  <2>. HIDE DEF Good, h
  <2>. QED  BY <2>2, <2>10
<1>2. PICK g : Good(MaxLevel, g)
  <2>1. MaxLevel \in 0..MaxLevel
    BY <1>0
  <2>. HIDE DEF Good
  <2>. QED  BY <1>1, <2>1
<1>. DEFINE G(f) == [v \in 1..MaxLevel |->
            {c \in Cells :
                \/ (IF sky THEN (IF SkySource(b, c) THEN MaxLevel ELSE 0)
                            ELSE Emission[b[c]]) >= v
                \/ /\ Filter[b[c]] < Opaque
                   /\ v + Larger(1, Filter[b[c]]) <= MaxLevel
                   /\ \E d \in AllDirs : Step(c, d) \in f[v + Larger(1, Filter[b[c]])]}]
            h == [v \in 1..MaxLevel |-> g[v]]
            A == CHOOSE f : f = G(f)
<1>3. \A f : G(f) = [v \in 1..MaxLevel |-> Lit(f, v)]
  <2>1. ASSUME NEW f, NEW v \in 1..MaxLevel
        PROVE  G(f)[v] = Lit(f, v)
    BY LightTypes DEF Source, Lets
  <2>. HIDE DEF Lit
  <2>. QED  BY <2>1
<1>4. h = G(h)
  <2>1. \A v \in 1..MaxLevel : h[v] = Lit(g, v)
    BY <1>0, <1>2
  <2>2. ASSUME NEW v \in 1..MaxLevel PROVE Lit(g, v) = Lit(h, v)
    <3>1. \A c \in Cells : v + Price(b, c) <= MaxLevel => h[v + Price(b, c)] = g[v + Price(b, c)]
      BY <1>0
    <3>. HIDE DEF h
    <3>. QED  BY <3>1
  <2>3. \A v \in 1..MaxLevel : h[v] = Lit(h, v)
    <3>. HIDE DEF h, Lit
    <3>. QED  BY <2>1, <2>2
  <2>4. h = [v \in 1..MaxLevel |-> h[v]]
    OBVIOUS
  <2>. HIDE DEF h, Lit, G
  <2>. QED  BY <2>3, <2>4, <1>3
<1>5. A = G(A)
  <2>. HIDE DEF h, G
  <2>. QED  BY <1>4
<1>6. \A v \in 1..MaxLevel : A[v] = Lit(A, v)
  <2>. HIDE DEF A, Lit, G
  <2>. QED  BY <1>3, <1>5
<1>7. TrueLight(b, sky) = [c \in Cells |-> Cardinality({v \in 1..MaxLevel : c \in A[v]})]
  BY DEF TrueLight
<1>. HIDE DEF A
<1>. QED  BY <1>6, <1>7

\* What TrueLight is: each cell's level is among the levels, and it is the
\* one lighting that is grounded and spreads.
LEMMA TruthIs ==
  ASSUME NEW b \in [Cells -> States], NEW sky \in BOOLEAN
  PROVE  /\ TrueLight(b, sky) \in [Cells -> 0..MaxLevel]
         /\ Grounded(b, sky, TrueLight(b, sky))
         /\ Spreads(b, sky, TrueLight(b, sky))
<1>. DEFINE T == TrueLight(b, sky)
<1>1. PICK A :
        /\ \A v \in 1..MaxLevel : A[v] =
             {c \in Cells : \/ Source(b, sky, c) >= v
                         \/ /\ Lets(b, c) /\ v + Price(b, c) <= MaxLevel
                            /\ \E d \in AllDirs : Step(c, d) \in A[v + Price(b, c)]}
        /\ T = [c \in Cells |-> Cardinality({v \in 1..MaxLevel : c \in A[v]})]
  BY TruthCounts
<1>. HIDE DEF T
<1>2. MaxLevel \in Nat \ {0}
      /\ \A c \in Cells : Price(b, c) \in 1..MaxLevel /\ Source(b, sky, c) \in 0..MaxLevel
  BY LightTypes, LightAssumption
<1>3. ASSUME NEW v \in 1..MaxLevel, NEW c
      PROVE  c \in A[v] <=> /\ c \in Cells
                            /\ \/ Source(b, sky, c) >= v
                               \/ /\ Lets(b, c) /\ v + Price(b, c) <= MaxLevel
                                  /\ \E d \in AllDirs : Step(c, d) \in A[v + Price(b, c)]
  BY <1>1
<1>4. ASSUME NEW u \in 1..MaxLevel, NEW v \in 1..MaxLevel, u <= v PROVE A[v] \subseteq A[u]
  <2>. DEFINE S == {z \in 1..MaxLevel : \E y \in 1..MaxLevel : z <= y /\ ~(A[y] \subseteq A[z])}
  <2>0. SUFFICES ASSUME S # {} PROVE FALSE
    BY <1>4
  <2>1. S \subseteq 0..MaxLevel
    BY <1>2
  <2>. HIDE DEF S
  <2>2. PICK z \in S : \A y \in S : y <= z
    BY <2>0, <2>1, GreatestLevel
  <2>a. PICK y \in 1..MaxLevel : z \in 1..MaxLevel /\ z <= y /\ ~(A[y] \subseteq A[z])
    BY <2>2 DEF S
  <2>b. PICK c \in A[y] : c \notin A[z]
    BY <2>a
  <2>3. y \in 1..MaxLevel /\ z \in 1..MaxLevel /\ z <= y /\ c \in A[y] /\ c \notin A[z]
    BY <2>a, <2>b
  <2>4. c \in Cells /\ ~(Source(b, sky, c) >= z) /\ ~(Source(b, sky, c) >= y)
    BY <1>2, <1>3, <2>3
  <2>5. /\ Lets(b, c) /\ y + Price(b, c) <= MaxLevel
        /\ \E d \in AllDirs : Step(c, d) \in A[y + Price(b, c)]
    BY <1>3, <2>3, <2>4
  <2>6. PICK d \in AllDirs : Step(c, d) \in A[y + Price(b, c)]
    BY <2>5
  <2>7. /\ z + Price(b, c) \in 1..MaxLevel /\ y + Price(b, c) \in 1..MaxLevel
        /\ z + Price(b, c) <= y + Price(b, c) /\ ~(z + Price(b, c) <= z)
    BY <1>2, <2>3, <2>4, <2>5
  <2>8. A[y + Price(b, c)] \subseteq A[z + Price(b, c)]
    BY <2>2, <2>7 DEF S
  <2>9. Step(c, d) \in A[z + Price(b, c)]
    BY <2>6, <2>8
  <2>10. c \in A[z]
    BY <1>3, <2>3, <2>4, <2>5, <2>7, <2>9
  <2>. QED  BY <2>3, <2>10
<1>5. ASSUME NEW c \in Cells
      PROVE  /\ T[c] \in 0..MaxLevel
             /\ \A v \in 1..MaxLevel : T[c] >= v <=> c \in A[v]
  <2>. DEFINE S == {v \in 1..MaxLevel : c \in A[v]}
  <2>0. T[c] = Cardinality(S)
    BY <1>1
  <2>1. CASE S = {}
    <3>1. T[c] = 0
      BY <2>0, <2>1, FS_EmptySet
    <3>. QED  BY <1>2, <2>1, <3>1
  <2>2. CASE S # {}
    <3>1. S \subseteq 0..MaxLevel
      BY <1>2
    <3>. HIDE DEF S
    <3>2. PICK m \in S : \A y \in S : y <= m
      BY <2>2, <3>1, GreatestLevel
    <3>3. m \in 1..MaxLevel /\ c \in A[m]
      BY <3>2 DEF S
    <3>4. S = 1..m
      BY <1>2, <1>4, <3>2, <3>3 DEF S
    <3>5. Cardinality(1..m) = m
      BY <3>3, <1>2, FS_Interval
    <3>6. T[c] = m
      BY <2>0, <3>4, <3>5
    <3>. QED  BY <1>2, <3>3, <3>4, <3>6 DEF S
  <2>. QED  BY <2>1, <2>2
<1>6. T \in [Cells -> 0..MaxLevel]
  <2>1. T = [c \in Cells |-> T[c]]
    BY <1>1
  <2>. QED  BY <1>5, <2>1
<1>7. Spreads(b, sky, T)
  <2>1. ASSUME NEW c \in Cells PROVE T[c] >= Source(b, sky, c)
    <3>1. CASE Source(b, sky, c) = 0
      BY <1>5, <3>1
    <3>2. CASE Source(b, sky, c) # 0
      <4>1. Source(b, sky, c) \in 1..MaxLevel
        BY <1>2, <3>2
      <4>2. c \in A[Source(b, sky, c)]
        BY <1>3, <1>2, <4>1
      <4>. QED  BY <1>5, <4>1, <4>2
    <3>. QED  BY <3>1, <3>2
  <2>2. ASSUME NEW c \in Cells, Lets(b, c), NEW d \in AllDirs, Step(c, d) \in Cells
        PROVE  T[c] >= T[Step(c, d)] - Price(b, c)
    <3>. DEFINE v == T[Step(c, d)] - Price(b, c)
    <3>1. T[Step(c, d)] \in 0..MaxLevel /\ T[c] \in 0..MaxLevel /\ Price(b, c) \in 1..MaxLevel
      BY <1>2, <1>5, <2>2
    <3>2. CASE v <= 0
      BY <3>1, <3>2
    <3>3. CASE v > 0
      <4>1. v \in 1..MaxLevel /\ v + Price(b, c) = T[Step(c, d)] /\ v + Price(b, c) \in 1..MaxLevel
        BY <1>2, <3>1, <3>3
      <4>. HIDE DEF v
      <4>2. Step(c, d) \in A[v + Price(b, c)]
        BY <1>5, <2>2, <4>1, <3>1
      <4>3. c \in A[v]
        BY <1>3, <2>2, <4>1, <4>2
      <4>4. T[c] >= v
        BY <1>5, <4>1, <4>3
      <4>. QED  BY <4>4 DEF v
    <3>. QED  BY <3>1, <3>2, <3>3
  <2>. QED  BY <2>1, <2>2 DEF Spreads
<1>8. Grounded(b, sky, T)
  <2>1. ASSUME NEW c \in Cells, T[c] > Source(b, sky, c)
        PROVE  /\ Lets(b, c)
               /\ \E d \in AllDirs : Step(c, d) \in Cells /\ T[Step(c, d)] >= T[c] + Price(b, c)
    <3>1. T[c] \in 1..MaxLevel /\ Price(b, c) \in 1..MaxLevel /\ ~(Source(b, sky, c) >= T[c])
      BY <1>2, <1>5, <2>1
    <3>2. c \in A[T[c]]
      BY <1>5, <3>1
    <3>3. Lets(b, c) /\ T[c] + Price(b, c) <= MaxLevel
          /\ \E d \in AllDirs : Step(c, d) \in A[T[c] + Price(b, c)]
      BY <1>3, <3>1, <3>2
    <3>4. PICK d \in AllDirs : Step(c, d) \in A[T[c] + Price(b, c)]
      BY <3>3
    <3>5. T[c] + Price(b, c) \in 1..MaxLevel
      BY <1>2, <3>1, <3>3
    <3>6. Step(c, d) \in Cells
      BY <1>3, <3>4, <3>5
    <3>7. T[Step(c, d)] >= T[c] + Price(b, c)
      BY <1>5, <3>4, <3>5, <3>6
    <3>. QED  BY <3>3, <3>6, <3>7
  <2>. QED  BY <2>1 DEF Grounded
<1>. QED  BY <1>6, <1>7, <1>8 DEF T

\* No light that is grounded is above light that spreads.
LEMMA GroundedBelow ==
  ASSUME NEW b \in [Cells -> States], NEW sky \in BOOLEAN,
         NEW L \in [Cells -> 0..MaxLevel], NEW M \in [Cells -> 0..MaxLevel],
         Grounded(b, sky, L), Spreads(b, sky, M)
  PROVE  \A c \in Cells : L[c] <= M[c]
<1>. DEFINE S == {L[c] : c \in {c \in Cells : ~(L[c] <= M[c])}}
<1>0. SUFFICES ASSUME S # {} PROVE FALSE
  OBVIOUS
<1>1. S \subseteq 0..MaxLevel
  BY LightAssumption
<1>2. PICK z \in S : \A y \in S : y <= z
  <2>. HIDE DEF S
  <2>. QED  BY <1>0, <1>1, GreatestLevel
<1>3. PICK c \in Cells : z = L[c] /\ ~(L[c] <= M[c])
  BY <1>2
<1>4. /\ L[c] \in 0..MaxLevel /\ M[c] \in 0..MaxLevel /\ Source(b, sky, c) \in 0..MaxLevel
      /\ Price(b, c) \in 1..MaxLevel /\ MaxLevel \in Nat
  BY LightTypes
<1>5. M[c] >= Source(b, sky, c)
  BY DEF Spreads
<1>6. L[c] > Source(b, sky, c)
  BY <1>3, <1>4, <1>5
<1>7. Lets(b, c) /\ \E d \in AllDirs : Step(c, d) \in Cells /\ L[Step(c, d)] >= L[c] + Price(b, c)
  BY <1>6 DEF Grounded
<1>8. PICK d \in AllDirs : Step(c, d) \in Cells /\ L[Step(c, d)] >= L[c] + Price(b, c)
  BY <1>7
<1>9. M[c] >= M[Step(c, d)] - Price(b, c)
  BY <1>7, <1>8 DEF Spreads
<1>10. L[Step(c, d)] \in 0..MaxLevel /\ M[Step(c, d)] \in 0..MaxLevel
  BY <1>8
<1>11. L[Step(c, d)] <= M[Step(c, d)]
  <2>1. ~(L[Step(c, d)] <= L[c])
    BY <1>4, <1>8, <1>10
  <2>2. ~(L[Step(c, d)] \in S)
    BY <1>2, <1>3, <2>1
  <2>. QED  BY <1>8, <2>2
<1>. QED  BY <1>3, <1>4, <1>8, <1>9, <1>10, <1>11

\* Blocks that give and stop light alike are lit alike.
LEMMA TruthSame ==
  ASSUME NEW b0 \in [Cells -> States], NEW b1 \in [Cells -> States], NEW sky \in BOOLEAN,
         \A c \in Cells : Filter[b0[c]] = Filter[b1[c]],
         sky \/ \A c \in Cells : Emission[b0[c]] = Emission[b1[c]]
  PROVE  TrueLight(b0, sky) = TrueLight(b1, sky)
<1>. DEFINE T0 == TrueLight(b0, sky)  T1 == TrueLight(b1, sky)
<1>1. ASSUME NEW c \in Cells
      PROVE  /\ Source(b0, sky, c) = Source(b1, sky, c)
             /\ Lets(b0, c) = Lets(b1, c) /\ Price(b0, c) = Price(b1, c)
  <2>1. SkySource(b0, c) = SkySource(b1, c)
    <3>1. c = <<c[1], c[2]>> /\ c[1] \in Columns /\ c[2] \in Heights
      BY DEF Cells
    <3>2. \A y \in c[2]..(Height - 1) : <<c[1], y>> \in Cells
      BY <3>1, LightAssumption DEF Cells, Heights
    <3>. QED  BY <3>2 DEF SkySource
  <2>2. Source(b0, sky, c) = Source(b1, sky, c)
    BY <2>1 DEF Source
  <2>. QED  BY <2>2 DEF Lets, Price, Cost
<1>2. /\ T0 \in [Cells -> 0..MaxLevel] /\ T1 \in [Cells -> 0..MaxLevel]
      /\ Grounded(b0, sky, T0) /\ Spreads(b0, sky, T0)
      /\ Grounded(b1, sky, T1) /\ Spreads(b1, sky, T1)
  BY TruthIs
<1>. HIDE DEF T0, T1
<1>3. Spreads(b1, sky, T0) /\ Spreads(b0, sky, T1)
  BY <1>1, <1>2 DEF Spreads
<1>4. (\A c \in Cells : T0[c] <= T1[c]) /\ (\A c \in Cells : T1[c] <= T0[c])
  BY <1>2, <1>3, GroundedBelow
<1>5. \A c \in Cells : T0[c] = T1[c]
  BY <1>2, <1>4
<1>6. T0 = T1
  BY <1>2, <1>5
<1>. QED  BY <1>6 DEF T0, T1

\* The cells of other columns give and stop light as before.
LEMMA ElsewhereSame ==
  ASSUME NEW b0 \in [Cells -> States], NEW b1 \in [Cells -> States], NEW sky \in BOOLEAN,
         NEW n \in Cells, \A c \in Cells : c # n => b0[c] = b1[c],
         NEW c \in Cells, c[1] # n[1]
  PROVE  /\ Source(b0, sky, c) = Source(b1, sky, c)
         /\ Lets(b0, c) = Lets(b1, c) /\ Price(b0, c) = Price(b1, c)
<1>1. c = <<c[1], c[2]>> /\ c[1] \in Columns /\ c[2] \in Heights /\ c # n
  BY DEF Cells
<1>2. \A y \in c[2]..(Height - 1) : <<c[1], y>> \in Cells /\ <<c[1], y>> # n
  BY <1>1, LightAssumption DEF Cells, Heights
<1>3. SkySource(b0, c) = SkySource(b1, c)
  BY <1>2 DEF SkySource
<1>4. Source(b0, sky, c) = Source(b1, sky, c)
  BY <1>1, <1>3 DEF Source
<1>. QED  BY <1>1, <1>4 DEF Lets, Price

\* Light that was there before one cell changed, and came from afar, is there
\* after.
LEMMA FarBelow ==
  ASSUME NEW b0 \in [Cells -> States], NEW b1 \in [Cells -> States], NEW sky \in BOOLEAN,
         NEW n \in Cells, \A c \in Cells : c # n => b0[c] = b1[c]
  PROVE  \A c \in Cells : c[1] \notin Close(n[1], MaxLevel - 1) =>
             TrueLight(b0, sky)[c] <= TrueLight(b1, sky)[c]
<1>. DEFINE T0 == TrueLight(b0, sky)  T1 == TrueLight(b1, sky)  x == n[1]
            Wrong == {c \in Cells : c[1] \notin Close(x, MaxLevel - T0[c]) /\ ~(T0[c] <= T1[c])}
            S == {T0[c] : c \in Wrong}
<1>1. /\ T0 \in [Cells -> 0..MaxLevel] /\ T1 \in [Cells -> 0..MaxLevel]
      /\ Grounded(b0, sky, T0) /\ Spreads(b1, sky, T1)
  BY TruthIs
<1>2. x \in Columns /\ MaxLevel \in Nat \ {0} /\ MaxLevel < Width /\ Width \in Nat
  BY WidthType DEF Cells
<1>. HIDE DEF T0, T1, x
<1>3. ASSUME S # {} PROVE FALSE
  <2>1. S \subseteq 0..MaxLevel
    BY <1>1
  <2>2. PICK z \in S : \A y \in S : y <= z
    <3>. HIDE DEF S
    <3>. QED  BY <1>3, <2>1, GreatestLevel
  <2>3. PICK c \in Wrong : z = T0[c]
    BY <2>2
  <2>4. /\ c \in Cells /\ T0[c] \in 0..MaxLevel /\ T1[c] \in 0..MaxLevel
        /\ Source(b0, sky, c) \in 0..MaxLevel /\ Price(b0, c) \in 1..MaxLevel
        /\ T1[c] >= Source(b1, sky, c)
    BY <1>1, <2>3, LightTypes DEF Spreads
  <2>5. x \in Close(x, MaxLevel - T0[c])
    BY <1>2, <2>4, CloseSelf
  <2>6. /\ Source(b0, sky, c) = Source(b1, sky, c)
        /\ Lets(b0, c) = Lets(b1, c) /\ Price(b0, c) = Price(b1, c)
    <3>1. c[1] # n[1]
      BY <2>3, <2>5 DEF x
    <3>. QED  BY <2>4, <3>1, ElsewhereSame
  <2>7. T0[c] > Source(b0, sky, c)
    BY <2>3, <2>4, <2>6
  <2>8. PICK d \in AllDirs : Step(c, d) \in Cells /\ T0[Step(c, d)] >= T0[c] + Price(b0, c)
    BY <1>1, <2>4, <2>7 DEF Grounded
  <2>9. Lets(b0, c)
    BY <1>1, <2>4, <2>7 DEF Grounded
  <2>10. T0[Step(c, d)] \in 0..MaxLevel /\ T1[Step(c, d)] \in 0..MaxLevel
    BY <1>1, <2>8
  <2>11. Step(c, d)[1] \notin Close(x, MaxLevel - T0[c] - 1)
    <3>. DEFINE j == MaxLevel - T0[c] - 1
    <3>1. j \in Int /\ j < Width /\ j + 1 = MaxLevel - T0[c]
      BY <1>2, <2>4
    <3>2. c[1] \notin Close(x, j + 1)
      BY <2>3, <3>1
    <3>. HIDE DEF j
    <3>3. Step(c, d)[1] \notin Close(x, j)
      BY <1>2, <2>4, <2>8, <3>1, <3>2, FarStep
    <3>. QED  BY <3>3 DEF j
  <2>12. Step(c, d)[1] \notin Close(x, MaxLevel - T0[Step(c, d)])
    <3>. DEFINE i == MaxLevel - T0[Step(c, d)]  j == MaxLevel - T0[c] - 1
    <3>1. i \in Int /\ j \in Int /\ i <= j
      BY <1>2, <2>4, <2>8, <2>10
    <3>. HIDE DEF i, j
    <3>2. Close(x, i) \subseteq Close(x, j)
      BY <3>1, CloseMono
    <3>. QED  BY <2>11, <3>2 DEF i, j
  <2>13. T0[Step(c, d)] <= T1[Step(c, d)]
    <3>1. ~(T0[Step(c, d)] <= T0[c])
      BY <2>4, <2>8, <2>10
    <3>2. T0[Step(c, d)] \notin S
      BY <2>2, <2>3, <3>1
    <3>. QED  BY <2>8, <2>12, <3>2
  <2>14. T1[c] >= T1[Step(c, d)] - Price(b1, c)
    BY <1>1, <2>4, <2>6, <2>8, <2>9 DEF Spreads
  <2>. QED  BY <2>3, <2>4, <2>6, <2>8, <2>10, <2>13, <2>14
<1>4. ASSUME NEW c \in Cells, c[1] \notin Close(x, MaxLevel - 1) PROVE T0[c] <= T1[c]
  <2>1. T0[c] \in 0..MaxLevel /\ T1[c] \in 0..MaxLevel
    BY <1>1
  <2>2. CASE T0[c] = 0
    BY <2>1, <2>2
  <2>3. CASE T0[c] # 0
    <3>. DEFINE i == MaxLevel - T0[c]  j == MaxLevel - 1
    <3>1. i \in Int /\ j \in Int /\ i <= j
      BY <1>2, <2>1, <2>3
    <3>. HIDE DEF i, j
    <3>2. Close(x, i) \subseteq Close(x, j)
      BY <3>1, CloseMono
    <3>3. c[1] \notin Close(x, i)
      BY <1>4, <3>2 DEF j
    <3>. QED  BY <1>3, <3>3 DEF i
  <2>. QED  BY <2>2, <2>3
<1>. QED  BY <1>4 DEF T0, T1, x

\* A changed cell moves no light farther than light reaches.
LEMMA TruthFar ==
  ASSUME NEW b0 \in [Cells -> States], NEW b1 \in [Cells -> States], NEW sky \in BOOLEAN,
         NEW n \in Cells, \A c \in Cells : c # n => b0[c] = b1[c],
         NEW c \in Cells, c[1] \notin Close(n[1], MaxLevel - 1)
  PROVE  TrueLight(b0, sky)[c] = TrueLight(b1, sky)[c]
<1>1. TrueLight(b0, sky)[c] <= TrueLight(b1, sky)[c]
  BY FarBelow
<1>2. TrueLight(b1, sky)[c] <= TrueLight(b0, sky)[c]
  BY FarBelow
<1>3. TrueLight(b0, sky)[c] \in 0..MaxLevel /\ TrueLight(b1, sky)[c] \in 0..MaxLevel
  BY TruthIs
<1>. QED  BY <1>1, <1>2, <1>3

-----------------------------------------------------------------------------
(* The full fill.                                                          *)

\* There are finitely many cells.
LEMMA CellsFinite == IsFiniteSet(Cells) /\ \A S : S \subseteq Cells => IsFiniteSet(S)
<1>1. IsFiniteSet(Columns) /\ IsFiniteSet(Heights)
  BY FS_Interval, WidthType, LightAssumption DEF Columns, Heights
<1>2. IsFiniteSet(Cells)
  BY <1>1, FS_Product DEF Cells
<1>. QED  BY <1>2, FS_Subset

\* How much the cells of R could still be raised.
Gap(R, level) == {p \in R \X (1..MaxLevel) : level[p[1]] < p[2]}

\* To raise a cell leaves less to raise.
LEMMA GapFalls ==
  ASSUME NEW R, R \subseteq Cells,
         NEW l \in [R -> 0..MaxLevel], NEW m \in [R -> 0..MaxLevel],
         \A c \in R : l[c] <= m[c],
         NEW c \in R, l[c] < m[c]
  PROVE  Cardinality(Gap(R, m)) < Cardinality(Gap(R, l))
<1>1. IsFiniteSet(R \X (1..MaxLevel))
  <2>1. IsFiniteSet(R) /\ IsFiniteSet(1..MaxLevel)
    BY CellsFinite, FS_Interval, LightAssumption
  <2>. QED  BY <2>1, FS_Product
<1>2. IsFiniteSet(Gap(R, l))
  BY <1>1, FS_Subset DEF Gap
<1>3. Gap(R, m) \subseteq Gap(R, l)
  <2>1. ASSUME NEW p \in Gap(R, m) PROVE p \in Gap(R, l)
    <3>1. p[1] \in R /\ p[2] \in 1..MaxLevel /\ m[p[1]] < p[2] /\ l[p[1]] <= m[p[1]]
          /\ p \in R \X (1..MaxLevel)
      BY DEF Gap
    <3>2. l[p[1]] \in 0..MaxLevel /\ m[p[1]] \in 0..MaxLevel /\ MaxLevel \in Nat
      BY <3>1, LightAssumption
    <3>. QED  BY <3>1, <3>2 DEF Gap
  <2>. QED  BY <2>1
<1>4. <<c, m[c]>> \in Gap(R, l) /\ <<c, m[c]>> \notin Gap(R, m)
  <2>1. l[c] \in 0..MaxLevel /\ m[c] \in 0..MaxLevel /\ MaxLevel \in Nat
    BY LightAssumption
  <2>. QED  BY <2>1 DEF Gap
<1>. QED  BY <1>2, <1>3, <1>4, FS_Subset, FS_CardinalityType

\* What is left to raise is a number.
LEMMA GapType ==
  ASSUME NEW R, R \subseteq Cells, NEW l
  PROVE  Cardinality(Gap(R, l)) \in Nat
<1>1. IsFiniteSet(R \X (1..MaxLevel))
  <2>1. IsFiniteSet(R) /\ IsFiniteSet(1..MaxLevel)
    BY CellsFinite, FS_Interval, LightAssumption
  <2>. QED  BY <2>1, FS_Product
<1>2. IsFiniteSet(Gap(R, l))
  BY <1>1, FS_Subset DEF Gap
<1>. QED  BY <1>2, FS_CardinalityType

\* What a wave does.
LEMMA SpreadIs ==
  ASSUME NEW b \in [Cells -> States], NEW R, R \subseteq Cells,
         NEW s, \A c \in R : s[c] = b[c],
         NEW w \in Waves(R)
  PROVE  LET q == Spread(s, w) IN
         /\ q \in Waves(R)
         /\ q.queue = {c \in R : Lets(b, c) /\ \E d \in AllDirs :
                /\ Step(c, d) \in w.queue
                /\ w.level[Step(c, d)] - Price(b, c) > w.level[c]}
         /\ \A c \in R \ q.queue : q.level[c] = w.level[c]
         /\ \A c \in q.queue :
                /\ q.level[c] > w.level[c]
                /\ \E d \in AllDirs : Step(c, d) \in w.queue
                       /\ q.level[c] = w.level[Step(c, d)] - Price(b, c)
                /\ \A d \in AllDirs : Step(c, d) \in w.queue =>
                       q.level[c] >= w.level[Step(c, d)] - Price(b, c)
<1>. DEFINE level == w.level
            pushed(c) == {level[Step(c, d)] - Cost(s[c]) :
                             d \in {e \in AllDirs : Step(c, e) \in w.queue}}
            better(c) == {l \in pushed(c) : l > level[c]}
            raised    == {c \in DOMAIN level : Filter[s[c]] < Opaque /\ better(c) # {}}
            top(c)    == CHOOSE l \in better(c) : \A m \in better(c) : m <= l
            q         == [level |-> [c \in DOMAIN level |->
                                        IF c \in raised THEN top(c) ELSE level[c]],
                          queue |-> raised]
<1>0. Spread(s, w) = q
  BY DEF Spread
<1>1. level \in [R -> 0..MaxLevel] /\ w.queue \subseteq R /\ DOMAIN level = R /\ MaxLevel \in Nat
  BY LightAssumption DEF Waves
<1>2. ASSUME NEW c \in R, NEW d \in AllDirs, Step(c, d) \in w.queue
      PROVE  /\ level[Step(c, d)] \in 0..MaxLevel /\ Price(b, c) \in 1..MaxLevel
             /\ level[c] \in 0..MaxLevel /\ Cost(s[c]) = Price(b, c)
  <2>1. Step(c, d) \in R /\ c \in Cells
    BY <1>1, <1>2
  <2>2. Price(b, c) \in 1..MaxLevel
    <3>1. TRUE \in BOOLEAN
      OBVIOUS
    <3>. QED  BY <2>1, <3>1, LightTypes
  <2>. QED  BY <1>1, <2>1, <2>2 DEF Price
<1>3. \A c \in R : pushed(c) = {level[Step(c, d)] - Price(b, c) :
                                   d \in {e \in AllDirs : Step(c, e) \in w.queue}}
  <2>1. \A c \in R : Cost(s[c]) = Price(b, c)
    BY DEF Price
  <2>. QED  BY <2>1
<1>. HIDE DEF level, q
<1>4. ASSUME NEW c \in R, better(c) # {}
      PROVE  /\ top(c) \in better(c)
             /\ \A m \in better(c) : m <= top(c)
             /\ better(c) \subseteq 0..MaxLevel
  <2>1. better(c) \subseteq 0..MaxLevel
    <3>1. ASSUME NEW l \in better(c) PROVE l \in 0..MaxLevel
      <4>1. PICK d \in AllDirs : Step(c, d) \in w.queue /\ l = level[Step(c, d)] - Price(b, c)
        BY <1>3
      <4>2. l > level[c]
        OBVIOUS
      <4>. QED  BY <1>1, <1>2, <4>1, <4>2
    <3>. QED  BY <3>1
  <2>. DEFINE S == better(c)
  <2>2. S # {} /\ S \subseteq 0..MaxLevel
    BY <1>4, <2>1
  <2>3. top(c) = CHOOSE l \in S : \A m \in S : m <= l
    OBVIOUS
  <2>. HIDE DEF S, top
  <2>4. \E l \in S : \A m \in S : m <= l
    BY <2>2, GreatestLevel
  <2>5. top(c) \in S /\ \A m \in S : m <= top(c)
    BY <2>3, <2>4
  <2>. QED  BY <2>2, <2>5 DEF S
<1>5. raised = {c \in R : Lets(b, c) /\ better(c) # {}}
  BY <1>1 DEF Lets
<1>6. ASSUME NEW c \in R
      PROVE  better(c) # {} <=> \E d \in AllDirs : Step(c, d) \in w.queue
                                   /\ level[Step(c, d)] - Price(b, c) > level[c]
  BY <1>3
<1>7. ASSUME NEW c \in raised
      PROVE  /\ top(c) > level[c] /\ top(c) \in 0..MaxLevel
             /\ \E d \in AllDirs : Step(c, d) \in w.queue
                       /\ top(c) = level[Step(c, d)] - Price(b, c)
             /\ \A d \in AllDirs : Step(c, d) \in w.queue =>
                       top(c) >= level[Step(c, d)] - Price(b, c)
  <2>1. c \in R /\ better(c) # {}
    BY <1>5
  <2>2. /\ top(c) \in better(c) /\ \A m \in better(c) : m <= top(c)
        /\ better(c) \subseteq 0..MaxLevel
    BY <1>4, <2>1
  <2>. HIDE DEF top, raised
  <2>3. top(c) > level[c] /\ top(c) \in 0..MaxLevel
    BY <2>2
  <2>4. \E d \in AllDirs : Step(c, d) \in w.queue /\ top(c) = level[Step(c, d)] - Price(b, c)
    BY <1>3, <2>1, <2>2
  <2>5. ASSUME NEW d \in AllDirs, Step(c, d) \in w.queue
        PROVE  top(c) >= level[Step(c, d)] - Price(b, c)
    <3>. DEFINE p == level[Step(c, d)] - Price(b, c)
    <3>1. p \in Int /\ level[c] \in Int /\ p \in pushed(c)
      BY <1>2, <1>3, <2>1, <2>5
    <3>. HIDE DEF p, pushed
    <3>2. p > level[c] => p \in better(c)
      BY <3>1
    <3>. HIDE DEF better
    <3>3. p > level[c] => p <= top(c)
      BY <2>2, <3>2
    <3>4. top(c) >= p
      BY <2>3, <3>1, <3>3
    <3>. QED  BY <3>4 DEF p
  <2>. QED  BY <2>3, <2>4, <2>5
<1>. HIDE DEF top, better, pushed
<1>8. /\ q.queue = raised /\ q = [level |-> q.level, queue |-> q.queue]
      /\ q.level = [c \in R |-> IF c \in raised THEN top(c) ELSE level[c]]
  BY <1>1 DEF q
<1>9. raised \subseteq R
  BY <1>1
<1>10. q.level \in [R -> 0..MaxLevel]
  <2>. HIDE DEF raised
  <2>. QED  BY <1>1, <1>7, <1>8
<1>11. q \in Waves(R)
  BY <1>8, <1>9, <1>10 DEF Waves
<1>12. raised = {c \in R : Lets(b, c) /\ \E d \in AllDirs :
                /\ Step(c, d) \in w.queue
                /\ level[Step(c, d)] - Price(b, c) > level[c]}
  <2>. HIDE DEF raised
  <2>. QED  BY <1>5, <1>6
<1>. HIDE DEF raised
<1>13. \A c \in raised : q.level[c] = top(c)
  BY <1>8, <1>9
<1>14. \A c \in R \ raised : q.level[c] = level[c]
  BY <1>8
<1>15. \A c \in q.queue :
                /\ q.level[c] > level[c]
                /\ \E d \in AllDirs : Step(c, d) \in w.queue
                       /\ q.level[c] = level[Step(c, d)] - Price(b, c)
                /\ \A d \in AllDirs : Step(c, d) \in w.queue =>
                       q.level[c] >= level[Step(c, d)] - Price(b, c)
  BY <1>7, <1>8, <1>13
<1>. QED  BY <1>0, <1>8, <1>11, <1>12, <1>14, <1>15 DEF level

\* What holds between two waves of a flood of the cells of R.
FillInv(b, sky, R, T, w) ==
    /\ w \in Waves(R)
    /\ \A c \in R : w.level[c] <= T[c] /\ w.level[c] >= Source(b, sky, c)
    /\ \A c \in R : Lets(b, c) => \A d \in AllDirs : Step(c, d) \in R =>
           w.level[c] >= w.level[Step(c, d)] - Price(b, c) \/ Step(c, d) \in w.queue

\* s is b as far as R goes.
SameOn(R, s, b) == \A c \in R : s[c] = b[c]

\* How a flood ends: between its sources and the truth, and every cell has
\* what its neighbours send it.
FillDone(b, sky, R, T, F) ==
    /\ F \in [R -> 0..MaxLevel]
    /\ \A c \in R : F[c] <= T[c] /\ F[c] >= Source(b, sky, c)
    /\ \A c \in R : Lets(b, c) => \A d \in AllDirs : Step(c, d) \in R =>
           F[c] >= F[Step(c, d)] - Price(b, c)

\* A wave keeps what the waves rest on.
LEMMA FillStep ==
  ASSUME NEW b \in [Cells -> States], NEW sky \in BOOLEAN, NEW R, R \subseteq Cells,
         NEW s, \A c \in R : s[c] = b[c],
         NEW T \in [Cells -> 0..MaxLevel], Spreads(b, sky, T),
         NEW w, FillInv(b, sky, R, T, w)
  PROVE  FillInv(b, sky, R, T, Spread(s, w))
<1>. DEFINE q == Spread(s, w)
<1>0. w \in Waves(R)
  BY DEF FillInv
<1>1. /\ q \in Waves(R)
      /\ q.queue = {c \in R : Lets(b, c) /\ \E d \in AllDirs :
                /\ Step(c, d) \in w.queue
                /\ w.level[Step(c, d)] - Price(b, c) > w.level[c]}
      /\ \A c \in R \ q.queue : q.level[c] = w.level[c]
      /\ \A c \in q.queue :
                /\ q.level[c] > w.level[c]
                /\ \E d \in AllDirs : Step(c, d) \in w.queue
                       /\ q.level[c] = w.level[Step(c, d)] - Price(b, c)
                /\ \A d \in AllDirs : Step(c, d) \in w.queue =>
                       q.level[c] >= w.level[Step(c, d)] - Price(b, c)
  BY <1>0, SpreadIs
<1>. HIDE DEF q
<1>2. ASSUME NEW c \in R
      PROVE  /\ c \in Cells /\ w.level[c] \in 0..MaxLevel /\ q.level[c] \in 0..MaxLevel
             /\ T[c] \in 0..MaxLevel /\ Price(b, c) \in 1..MaxLevel
             /\ Source(b, sky, c) \in 0..MaxLevel
             /\ w.level[c] <= T[c] /\ w.level[c] >= Source(b, sky, c)
             /\ q.level[c] >= w.level[c]
  <2>1. /\ c \in Cells /\ w.level[c] \in 0..MaxLevel /\ q.level[c] \in 0..MaxLevel
        /\ T[c] \in 0..MaxLevel
    BY <1>0, <1>1 DEF Waves
  <2>2. w.level[c] <= T[c] /\ w.level[c] >= Source(b, sky, c)
    BY DEF FillInv
  <2>3. q.level[c] >= w.level[c]
    BY <1>1, <2>1
  <2>. QED  BY <2>1, <2>2, <2>3, LightTypes
<1>3. w.queue \subseteq R /\ q.queue \subseteq R
  BY <1>0, <1>1 DEF Waves
<1>4. ASSUME NEW c \in R PROVE q.level[c] <= T[c] /\ q.level[c] >= Source(b, sky, c)
  <2>1. CASE c \in q.queue
    <3>1. PICK d \in AllDirs : Step(c, d) \in w.queue
                 /\ q.level[c] = w.level[Step(c, d)] - Price(b, c)
      BY <1>1, <2>1
    <3>2. T[c] >= T[Step(c, d)] - Price(b, c)
      BY <1>1, <1>3, <2>1, <3>1 DEF Spreads
    <3>3. w.level[Step(c, d)] <= T[Step(c, d)] /\ w.level[Step(c, d)] \in 0..MaxLevel
          /\ T[Step(c, d)] \in 0..MaxLevel
      BY <1>2, <1>3, <3>1
    <3>. QED  BY <1>2, <3>1, <3>2, <3>3
  <2>2. CASE c \notin q.queue
    BY <1>1, <1>2, <2>2
  <2>. QED  BY <2>1, <2>2
<1>5. ASSUME NEW c \in R, Lets(b, c), NEW d \in AllDirs, Step(c, d) \in R
      PROVE  q.level[c] >= q.level[Step(c, d)] - Price(b, c) \/ Step(c, d) \in q.queue
  <2>. DEFINE a == Step(c, d)
  <2>. SUFFICES ASSUME a \notin q.queue PROVE q.level[c] >= q.level[a] - Price(b, c)
    OBVIOUS
  <2>1. q.level[a] = w.level[a]
    BY <1>1, <1>5
  <2>2. w.level[c] >= w.level[a] - Price(b, c) \/ a \in w.queue
    BY <1>5 DEF FillInv
  <2>3. /\ w.level[c] \in 0..MaxLevel /\ q.level[c] \in 0..MaxLevel /\ Price(b, c) \in 1..MaxLevel
        /\ w.level[a] \in 0..MaxLevel /\ q.level[c] >= w.level[c]
    BY <1>2, <1>5
  <2>4. CASE w.level[c] >= w.level[a] - Price(b, c)
    BY <2>1, <2>3, <2>4
  <2>5. CASE ~(w.level[c] >= w.level[a] - Price(b, c))
    <3>1. a \in w.queue /\ w.level[a] - Price(b, c) > w.level[c]
      BY <2>2, <2>3, <2>5
    <3>2. c \in q.queue
      BY <1>1, <1>5, <3>1
    <3>3. q.level[c] >= w.level[a] - Price(b, c)
      BY <1>1, <3>1, <3>2
    <3>. QED  BY <2>1, <3>3
  <2>. QED  BY <2>4, <2>5
<1>6. FillInv(b, sky, R, T, q)
  BY <1>1, <1>4, <1>5 DEF FillInv
<1>. QED  BY <1>6 DEF q

\* Wave upon wave, what floods a region stays between its sources and the
\* truth, and ends when every cell has what its neighbours send it.
LEMMA PropagateIs ==
  ASSUME NEW b \in [Cells -> States], NEW sky \in BOOLEAN, NEW R, R \subseteq Cells,
         NEW s, SameOn(R, s, b),
         NEW T \in [Cells -> 0..MaxLevel], Spreads(b, sky, T),
         NEW seeds, NEW queue,
         FillInv(b, sky, R, T, [level |-> seeds, queue |-> queue])
  PROVE  FillDone(b, sky, R, T, Propagate(s, seeds, queue))
<1>. \A c \in R : s[c] = b[c]
  BY DEF SameOn
<1>. DEFINE X == Waves(R)
            E == {w \in X : w.queue = {}}
            F == [w \in X |-> IF w \in E THEN w ELSE Spread(s, w)]
            M == [w \in X |-> 2 * Cardinality(Gap(R, w.level))
                                  + IF w.queue = {} THEN 0 ELSE 1]
            I == {w \in X : FillInv(b, sky, R, T, w)}
            start == [level |-> seeds, queue |-> queue]
            r == CHOOSE r : r = [w \in Waves(DOMAIN seeds) |->
                    IF w.queue = {} THEN w ELSE r[Spread(s, w)]]
<1>1. ASSUME NEW w \in X
      PROVE  /\ Spread(s, w) \in X
             /\ \A c \in R \ Spread(s, w).queue : Spread(s, w).level[c] = w.level[c]
             /\ \A c \in Spread(s, w).queue : Spread(s, w).level[c] > w.level[c]
  <2>. DEFINE q == Spread(s, w)
  <2>1. /\ q \in Waves(R)
        /\ q.queue = {c \in R : Lets(b, c) /\ \E d \in AllDirs :
                /\ Step(c, d) \in w.queue
                /\ w.level[Step(c, d)] - Price(b, c) > w.level[c]}
        /\ \A c \in R \ q.queue : q.level[c] = w.level[c]
        /\ \A c \in q.queue :
                /\ q.level[c] > w.level[c]
                /\ \E d \in AllDirs : Step(c, d) \in w.queue
                       /\ q.level[c] = w.level[Step(c, d)] - Price(b, c)
                /\ \A d \in AllDirs : Step(c, d) \in w.queue =>
                       q.level[c] >= w.level[Step(c, d)] - Price(b, c)
    BY SpreadIs
  <2>. HIDE DEF q
  <2>2. /\ q \in X
        /\ \A c \in R \ q.queue : q.level[c] = w.level[c]
        /\ \A c \in q.queue : q.level[c] > w.level[c]
    BY <2>1
  <2>. QED  BY <2>2 DEF q
<1>2. F \in [X -> X]
  BY <1>1
<1>3. M \in [X -> Nat]
  BY GapType
<1>4. ASSUME NEW w \in X \ E PROVE M[F[w]] < M[w]
  <2>. DEFINE q == Spread(s, w)
  <2>1. q \in X /\ F[w] = q /\ w \in X
    BY <1>1
  <2>2. /\ \A c \in R \ q.queue : q.level[c] = w.level[c]
        /\ \A c \in q.queue : q.level[c] > w.level[c]
    BY <1>1
  <2>. HIDE DEF q
  <2>3. /\ q.level \in [R -> 0..MaxLevel] /\ w.level \in [R -> 0..MaxLevel] /\ q.queue \subseteq R
        /\ q.level = [c \in R |-> q.level[c]] /\ w.level = [c \in R |-> w.level[c]]
    BY <2>1 DEF Waves
  <2>4. M[w] = 2 * Cardinality(Gap(R, w.level)) + 1
    OBVIOUS
  <2>5. M[q] = 2 * Cardinality(Gap(R, q.level)) + IF q.queue = {} THEN 0 ELSE 1
    BY <2>1
  <2>6. Cardinality(Gap(R, w.level)) \in Nat /\ Cardinality(Gap(R, q.level)) \in Nat
    BY GapType
  <2>7. CASE q.queue = {}
    <3>1. q.level = w.level
      <4>1. \A c \in R : q.level[c] = w.level[c]
        BY <2>2, <2>7
      <4>. QED  BY <2>3, <4>1
    <3>. QED  BY <2>1, <2>4, <2>5, <2>6, <2>7, <3>1
  <2>8. CASE q.queue # {}
    <3>1. PICK c \in q.queue : TRUE
      BY <2>8
    <3>2. c \in R /\ w.level[c] < q.level[c]
      BY <2>2, <2>3, <3>1
    <3>3. \A e \in R : w.level[e] <= q.level[e]
      <4>1. ASSUME NEW e \in R PROVE w.level[e] <= q.level[e]
        <5>1. w.level[e] \in 0..MaxLevel /\ q.level[e] \in 0..MaxLevel
          BY <2>3
        <5>2. e \in q.queue \/ q.level[e] = w.level[e]
          BY <2>2
        <5>. QED  BY <2>2, <5>1, <5>2
      <4>. QED  BY <4>1
    <3>4. Cardinality(Gap(R, q.level)) < Cardinality(Gap(R, w.level))
      BY <2>3, <3>2, <3>3, GapFalls
    <3>. QED  BY <2>1, <2>4, <2>5, <2>6, <2>8, <3>4
  <2>. QED  BY <2>7, <2>8
<1>5. \A w \in I \ E : F[w] \in I
  <2>1. ASSUME NEW w \in I \ E PROVE F[w] \in I
    <3>1. FillInv(b, sky, R, T, Spread(s, w))
      BY FillStep
    <3>2. F[w] = Spread(s, w) /\ Spread(s, w) \in X
      BY <1>1
    <3>. QED  BY <3>1, <3>2
  <2>. QED  BY <2>1
<1>6. DOMAIN seeds = R
  <2>1. start \in Waves(R)
    BY DEF FillInv
  <2>2. seeds \in [R -> 0..MaxLevel]
    BY <2>1 DEF Waves
  <2>. QED  BY <2>2
<1>. HIDE DEF F, M
<1>L. LoopOver(X, E, F, M)
  <2>. HIDE DEF X, E
  <2>. QED  BY <1>2, <1>3, <1>4 DEF LoopOver
<1>7. \E g : Looping(X, E, F, g)
  <2>. HIDE DEF X, E
  <2>. QED  BY <1>L, LoopExists
<1>8. \A g : [w \in X |-> IF w \in E THEN w ELSE g[F[w]]]
               = [w \in Waves(DOMAIN seeds) |-> IF w.queue = {} THEN w ELSE g[Spread(s, w)]]
  <2>1. ASSUME NEW g, NEW w \in X
        PROVE (IF w \in E THEN w ELSE g[F[w]]) = (IF w.queue = {} THEN w ELSE g[Spread(s, w)])
    BY DEF F
  <2>2. X = Waves(DOMAIN seeds)
    BY <1>6
  <2>. HIDE DEF X, E
  <2>. QED  BY <2>1, <2>2
<1>9. r = [w \in X |-> IF w \in E THEN w ELSE r[F[w]]]
  <2>1. \E g : g = [w \in Waves(DOMAIN seeds) |-> IF w.queue = {} THEN w ELSE g[Spread(s, w)]]
    <3>. HIDE DEF X, E
    <3>. QED  BY <1>7, <1>8 DEF Looping
  <2>2. r = [w \in Waves(DOMAIN seeds) |-> IF w.queue = {} THEN w ELSE r[Spread(s, w)]]
    BY <2>1
  <2>. HIDE DEF r, X, E
  <2>. QED  BY <1>8, <2>2
<1>10. Propagate(s, seeds, queue) = r[start].level
  BY DEF Propagate
<1>. HIDE DEF r
<1>12. start \in I
  BY DEF FillInv
<1>13. r[start] \in I /\ r[start] \in E
  <2>1. I \subseteq X
    OBVIOUS
  <2>. HIDE DEF X, E, I, start
  <2>2. LoopKeeps(I, E, F)
    BY <1>5 DEF LoopKeeps
  <2>3. Looping(X, E, F, r)
    BY <1>9 DEF Looping
  <2>. QED  BY <1>L, <1>12, <2>1, <2>2, <2>3, LoopInvariant
<1>14. FillInv(b, sky, R, T, r[start]) /\ r[start].queue = {}
  BY <1>13
<1>. HIDE DEF start
<1>. QED  BY <1>10, <1>14 DEF FillDone, FillInv, Waves

\* The quotient, from a division with remainder.
LEMMA Quotient ==
  ASSUME NEW W \in Nat \ {0}, NEW q \in Int, NEW r \in 0..(W - 1), NEW a \in Int, a = W * q + r
  PROVE  a \div W = q
<1>. DEFINE p == a \div W  t == a % W
<1>1. p \in Int /\ t \in 0..(W - 1) /\ a = W * p + t
  BY Z3
<1>. HIDE DEF p, t
<1>2. ASSUME p >= q + 1 PROVE FALSE
  <2>1. W * p >= W * (q + 1)
    BY <1>1, <1>2, Z3
  <2>2. W * (q + 1) = W * q + W
    BY Z3
  <2>3. W * p \in Int /\ W * q \in Int
    BY <1>1
  <2>. QED  BY <1>1, <2>1, <2>2, <2>3
<1>3. ASSUME p + 1 <= q PROVE FALSE
  <2>1. W * q >= W * (p + 1)
    BY <1>1, <1>3, Z3
  <2>2. W * (p + 1) = W * p + W
    BY <1>1, Z3
  <2>3. W * p \in Int /\ W * q \in Int
    BY <1>1
  <2>. QED  BY <1>1, <2>1, <2>2, <2>3
<1>4. p = q
  BY <1>1, <1>2, <1>3
<1>. QED  BY <1>4 DEF p

\* The chunk of a column.
LEMMA ChunkIs ==
  ASSUME NEW x \in Columns
  PROVE  /\ x \div ChunkWidth \in Chunks
         /\ \E r \in 0..(ChunkWidth - 1) : x = ChunkWidth * (x \div ChunkWidth) + r
         /\ ChunkWidth \in Nat \ {0} /\ NChunks \in Nat /\ NChunks >= 4
<1>. DEFINE q == x \div ChunkWidth  r == x % ChunkWidth
<1>1. ChunkWidth \in Nat \ {0} /\ NChunks \in Nat /\ NChunks >= 4 /\ x \in Nat
      /\ Width = ChunkWidth * NChunks /\ x < Width
  BY WidthType, LightAssumption DEF Width
<1>2. q \in Int /\ r \in 0..(ChunkWidth - 1) /\ x = ChunkWidth * q + r
  BY <1>1, Z3
<1>. HIDE DEF q, r
<1>3. ASSUME q <= -1 PROVE FALSE
  <2>1. ChunkWidth * q <= ChunkWidth * (-1)
    BY <1>1, <1>2, <1>3, Z3
  <2>2. ChunkWidth * q \in Int
    BY <1>1, <1>2
  <2>. QED  BY <1>1, <1>2, <2>1, <2>2
<1>4. ASSUME q >= NChunks PROVE FALSE
  <2>1. ChunkWidth * q >= ChunkWidth * NChunks
    BY <1>1, <1>2, <1>4, Z3
  <2>2. ChunkWidth * q \in Int
    BY <1>1, <1>2
  <2>. QED  BY <1>1, <1>2, <2>1, <2>2
<1>5. q \in Chunks
  BY <1>1, <1>2, <1>3, <1>4 DEF Chunks
<1>. QED  BY <1>1, <1>2, <1>5 DEF q

\* A column less than a chunk away is in the same chunk or one beside it.
LEMMA NearChunk ==
  ASSUME NEW x \in Columns, NEW i \in Int, -ChunkWidth <= i, i <= ChunkWidth
  PROVE  Off(x, i) \div ChunkWidth \in Around(x \div ChunkWidth)
<1>. DEFINE C == ChunkWidth  N == NChunks  q == x \div ChunkWidth  o == Off(x, i)
<1>1. /\ C \in Nat \ {0} /\ N \in Nat /\ N >= 4 /\ q \in 0..(N - 1)
      /\ Width = C * N /\ C <= Width /\ x \in Nat
  <2>1. C * N >= C * 4
    BY LightAssumption, ChunkIs, Z3
  <2>. QED  BY <2>1, ChunkIs, WidthType DEF Chunks, Width
<1>2. PICK r \in 0..(C - 1) : x = C * q + r
  BY ChunkIs
<1>3. /\ o \in Columns
      /\ o = x + i \/ o = x + i + Width \/ o = x + i - Width
  <2>1. -Width <= i /\ i <= Width
    BY <1>1
  <2>. QED  BY <2>1, OffIs
<1>4. o \div C \in 0..(N - 1)
  BY <1>3, ChunkIs DEF Chunks
<1>. HIDE DEF q, o
<1>5. PICK e \in {-1, 0, 1} : r + i - C * e \in 0..(C - 1)
  <2>1. CASE r + i < 0
    <3>1. r + i - C * (-1) \in 0..(C - 1)
      BY <1>1, <1>2, <2>1
    <3>. QED  BY <3>1
  <2>2. CASE 0 <= r + i /\ r + i < C
    <3>1. r + i - C * 0 \in 0..(C - 1)
      BY <1>1, <1>2, <2>2
    <3>. QED  BY <3>1
  <2>3. CASE r + i >= C
    <3>1. r + i - C * 1 \in 0..(C - 1)
      BY <1>1, <1>2, <2>3
    <3>. QED  BY <3>1
  <2>. QED  BY <1>1, <1>2, <2>1, <2>2, <2>3
<1>. DEFINE t == r + i - C * e
<1>6. t \in 0..(C - 1) /\ x + i = C * q + C * e + t /\ C * e \in Int /\ C * q \in Int
  BY <1>1, <1>2, <1>5
<1>. HIDE DEF t
<1>7. PICK m \in {-1, 0, 1} : o = C * q + C * e + C * N * m + t
  <2>0. C * N \in Int /\ C * N * 0 = 0 /\ C * N * 1 = C * N /\ C * N * (-1) = -(C * N)
    BY <1>1, Z3
  <2>. DEFINE K == C * N  a == C * q  d == C * e
  <2>00. K \in Int /\ a \in Int /\ d \in Int /\ t \in Int /\ x + i = a + d + t /\ Width = K
         /\ x + i \in Int
    BY <1>1, <1>6, <2>0
  <2>. HIDE DEF K, a, d
  <2>1. CASE o = x + i
    <3>1. o = a + d + 0 + t
      BY <2>1, <2>00
    <3>. QED  BY <2>0, <3>1 DEF K, a, d
  <2>2. CASE o = x + i + Width
    <3>1. o = a + d + K + t
      BY <2>2, <2>00
    <3>. QED  BY <2>0, <3>1 DEF K, a, d
  <2>3. CASE o = x + i - Width
    <3>. DEFINE k == C * N * (-1)
    <3>1. k = -K /\ k \in Int
      BY <2>0, <2>00 DEF K
    <3>. HIDE DEF k
    <3>2. o = a + d + k + t
      BY <2>3, <2>00, <3>1, <1>1
    <3>. QED  BY <3>2 DEF k, a, d
  <2>. QED  BY <1>3, <2>1, <2>2, <2>3
<1>8. o \div C = q + e + N * m
  <2>. DEFINE p == q + e + N * m
  <2>1. p \in Int
    BY <1>1
  <2>2. o = C * p + t
    BY <1>1, <1>7, <1>6, Z3
  <2>3. o \in Int
    BY <1>3, WidthType
  <2>. HIDE DEF p
  <2>4. o \div C = p
    BY <1>1, <1>6, <2>1, <2>2, <2>3, Quotient
  <2>. QED  BY <2>4 DEF p
<1>9. Beside(q, e) = o \div C
  <2>. DEFINE a == q + N + e
  <2>1. /\ a < N => a % N = a
        /\ N <= a /\ a < 2 * N => a % N = a - N
        /\ 2 * N <= a => a % N = a - 2 * N
    <3>1. a \in Int /\ 0 <= a /\ a < 3 * N /\ N \in Nat \ {0}
      BY <1>1
    <3>. HIDE DEF a
    <3>. QED  BY <3>1, Remainder
  <2>2. o \div C = q + e \/ o \div C = q + e + N \/ o \div C = q + e - N
    BY <1>1, <1>8
  <2>3. a % N = o \div C
    BY <1>1, <1>4, <2>1, <2>2
  <2>. QED  BY <2>3 DEF Beside
<1>. QED  BY <1>9 DEF Around, o, q

\* The columns that light can reach are in the 3x3 of chunks.
LEMMA CloseChunk ==
  ASSUME NEW x \in Columns, NEW y \in Close(x, MaxLevel)
  PROVE  y \in Columns /\ y \div ChunkWidth \in Around(x \div ChunkWidth)
<1>1. PICK i \in (-MaxLevel)..MaxLevel : y = Off(x, i)
  BY DEF Close
<1>2. i \in Int /\ -ChunkWidth <= i /\ i <= ChunkWidth /\ -Width <= i /\ i <= Width
  BY WidthType
<1>. QED  BY <1>1, <1>2, NearChunk, OffIs

\* What a chunk and the two beside it hold decides the light of the chunk.
LEMMA FloodIs ==
  ASSUME NEW b \in [Cells -> States], NEW sky \in BOOLEAN, NEW k \in Chunks,
         NEW s, DOMAIN s = CellsOf(Around(k)), \A c \in CellsOf(Around(k)) : s[c] = b[c]
  PROVE  LET seeds == Seeded(s, sky)
             queue == {c \in DOMAIN seeds : seeds[c] > 0}
         IN \A c \in CellsOf({k}) : Propagate(s, seeds, queue)[c] = TrueLight(b, sky)[c]
<1>. DEFINE R == CellsOf(Around(k))  T == TrueLight(b, sky)
            seeds == Seeded(s, sky)  queue == {c \in DOMAIN seeds : seeds[c] > 0}
<1>1. /\ T \in [Cells -> 0..MaxLevel] /\ Grounded(b, sky, T) /\ Spreads(b, sky, T)
  BY TruthIs
<1>2. R \subseteq Cells
  BY DEF CellsOf
<1>3. ASSUME NEW c \in R
      PROVE  seeds[c] = Source(b, sky, c) /\ c \in Cells /\ Source(b, sky, c) \in 0..MaxLevel
  <2>1. c \in Cells /\ c = <<c[1], c[2]>> /\ c[1] \in Columns /\ c[2] \in Heights
    BY DEF CellsOf, Cells
  <2>2. \A y \in c[2]..(Height - 1) : <<c[1], y>> \in R
    BY <2>1, LightAssumption DEF CellsOf, Cells, Heights, ChunkOf
  <2>3. SkySource(s, c) = SkySource(b, c)
    BY <2>2 DEF SkySource
  <2>4. s[c] = b[c] /\ c \in DOMAIN s
    OBVIOUS
  <2>5. seeds[c] = Source(b, sky, c)
    BY <2>3, <2>4 DEF Seeded, Source
  <2>. QED  BY <2>1, <2>5, LightTypes
<1>4. DOMAIN seeds = R
  BY DEF Seeded
<1>5. seeds \in [R -> 0..MaxLevel]
  <2>1. seeds = [c \in R |-> seeds[c]]
    BY DEF Seeded
  <2>. HIDE DEF seeds, R
  <2>. QED  BY <1>3, <2>1
<1>. HIDE DEF seeds, R, T
<1>6. FillInv(b, sky, R, T, [level |-> seeds, queue |-> queue])
  <2>. DEFINE w == [level |-> seeds, queue |-> queue]
  <2>1. w.level = seeds /\ w.queue = queue /\ w \in Waves(R)
    BY <1>4, <1>5 DEF Waves
  <2>2. \A c \in R : seeds[c] <= T[c] /\ seeds[c] >= Source(b, sky, c)
    BY <1>1, <1>3 DEF Spreads
  <2>3. ASSUME NEW c \in R, NEW d \in AllDirs, Step(c, d) \in R
        PROVE  seeds[c] >= seeds[Step(c, d)] - Price(b, c) \/ Step(c, d) \in queue
    <3>1. seeds[c] \in 0..MaxLevel /\ seeds[Step(c, d)] \in 0..MaxLevel
          /\ Price(b, c) \in 1..MaxLevel /\ MaxLevel \in Nat
      BY <1>3, <1>5, <2>3, LightTypes
    <3>2. seeds[Step(c, d)] > 0 => Step(c, d) \in queue
      BY <1>4, <2>3
    <3>. HIDE DEF queue
    <3>. QED  BY <3>1, <3>2
  <2>. HIDE DEF w, queue
  <2>4. FillInv(b, sky, R, T, w)
    BY <2>1, <2>2, <2>3 DEF FillInv
  <2>. QED  BY <2>4 DEF w
<1>. DEFINE F == Propagate(s, seeds, queue)
<1>7. FillDone(b, sky, R, T, F)
  <2>1. SameOn(R, s, b)
    BY DEF R, SameOn
  <2>. HIDE DEF queue
  <2>. QED  BY <1>1, <1>2, <1>6, <2>1, PropagateIs
<1>8. /\ F \in [R -> 0..MaxLevel]
      /\ \A c \in R : F[c] <= T[c] /\ F[c] >= Source(b, sky, c)
      /\ \A c \in R : Lets(b, c) => \A d \in AllDirs : Step(c, d) \in R =>
             F[c] >= F[Step(c, d)] - Price(b, c)
  <2>. HIDE DEF F
  <2>. QED  BY <1>7 DEF FillDone
<1>. HIDE DEF F
<1>9. ASSUME NEW o \in CellsOf({k}) PROVE F[o] = T[o]
  <2>. DEFINE x == o[1]
              Wrong == {c \in R : c[1] \in Close(x, T[c] - 1) /\ ~(T[c] <= F[c])}
              S == {T[c] : c \in Wrong}
  <2>1. x \in Columns /\ x \div ChunkWidth = k /\ o \in Cells /\ o \in R
    <3>1. o \in Cells /\ ChunkOf(o) = k
      BY DEF CellsOf
    <3>2. o[1] \in Columns
      BY <3>1 DEF Cells
    <3>3. x \in Close(x, MaxLevel)
      BY <3>2, CloseSelf, WidthType
    <3>4. k \in Around(k)
      BY <3>1, <3>2, <3>3, CloseChunk DEF ChunkOf
    <3>. QED  BY <3>1, <3>2, <3>4 DEF ChunkOf, R, CellsOf
  <2>2. ASSUME NEW c \in Cells, c[1] \in Close(x, MaxLevel) PROVE c \in R
    BY <2>1, <2>2, CloseChunk DEF R, CellsOf, ChunkOf
  <2>. HIDE DEF x
  <2>3. ASSUME S # {} PROVE FALSE
    <3>1. S \subseteq 0..MaxLevel
      BY <1>1, <1>2
    <3>2. PICK z \in S : \A y \in S : y <= z
      <4>. HIDE DEF S
      <4>. QED  BY <2>3, <3>1, GreatestLevel
    <3>3. PICK c \in Wrong : z = T[c]
      BY <3>2
    <3>4. /\ c \in R /\ c \in Cells /\ T[c] \in 0..MaxLevel /\ F[c] \in 0..MaxLevel
          /\ Source(b, sky, c) \in 0..MaxLevel /\ Price(b, c) \in 1..MaxLevel
          /\ MaxLevel \in Nat /\ MaxLevel < Width /\ Width \in Nat
          /\ c[1] \in Close(x, T[c] - 1) /\ ~(T[c] <= F[c]) /\ F[c] >= Source(b, sky, c)
      <4>1. c \in R /\ c \in Cells /\ T[c] \in 0..MaxLevel /\ F[c] \in 0..MaxLevel
            /\ c[1] \in Close(x, T[c] - 1) /\ ~(T[c] <= F[c])
        BY <1>1, <1>2, <1>8, <3>3
      <4>. QED  BY <4>1, <1>8, LightTypes, WidthType
    <3>5. T[c] > Source(b, sky, c)
      BY <3>4
    <3>6. Lets(b, c)
      BY <1>1, <3>4, <3>5 DEF Grounded
    <3>7. PICK d \in AllDirs : Step(c, d) \in Cells /\ T[Step(c, d)] >= T[c] + Price(b, c)
      BY <1>1, <3>4, <3>5 DEF Grounded
    <3>. DEFINE a == Step(c, d)
    <3>8. T[a] \in 0..MaxLevel /\ T[a] >= T[c] + 1
      BY <1>1, <3>4, <3>7
    <3>9. a[1] \in Close(x, T[c])
      <4>. DEFINE j == T[c] - 1
      <4>1. j \in Int /\ j < Width /\ j + 1 = T[c]
        BY <3>4
      <4>. HIDE DEF j
      <4>2. c[1] \in Close(x, j)
        BY <3>4 DEF j
      <4>3. a[1] \in Close(x, j + 1)
        BY <2>1, <3>4, <4>1, <4>2, CloseStep
      <4>. QED  BY <4>1, <4>3
    <3>10. a[1] \in Close(x, T[a] - 1) /\ a[1] \in Close(x, MaxLevel)
      <4>. DEFINE i == T[c]  j == T[a] - 1
      <4>1. i \in Int /\ j \in Int /\ i <= j /\ i <= MaxLevel /\ MaxLevel \in Int
        BY <3>4, <3>8
      <4>. HIDE DEF i, j
      <4>2. Close(x, i) \subseteq Close(x, j) /\ Close(x, i) \subseteq Close(x, MaxLevel)
        BY <4>1, CloseMono
      <4>. QED  BY <3>9, <4>2 DEF i, j
    <3>11. a \in R
      BY <2>2, <3>7, <3>10
    <3>12. F[a] \in 0..MaxLevel /\ F[c] >= F[a] - Price(b, c)
      BY <1>8, <3>4, <3>6, <3>7, <3>11
    <3>13. T[a] <= F[a]
      <4>1. ~(T[a] <= T[c])
        BY <3>4, <3>8
      <4>2. T[a] \notin S
        BY <3>2, <3>3, <4>1
      <4>. QED  BY <3>10, <3>11, <4>2
    <3>. QED  BY <3>4, <3>7, <3>8, <3>12, <3>13
  <2>4. T[o] \in 0..MaxLevel /\ F[o] \in 0..MaxLevel /\ F[o] <= T[o]
    BY <1>1, <1>8, <2>1
  <2>5. CASE T[o] = 0
    BY <2>4, <2>5
  <2>6. CASE T[o] # 0
    <3>1. T[o] - 1 \in Nat
      BY <2>4, <2>6
    <3>2. o[1] \in Close(x, T[o] - 1)
      BY <2>1, <3>1, CloseSelf DEF x
    <3>3. T[o] <= F[o]
      BY <2>1, <2>3, <3>2
    <3>. QED  BY <2>4, <3>3
  <2>. QED  BY <2>5, <2>6
<1>. QED  BY <1>9 DEF F, T, seeds

\* computeLight: the flood fill of a chunk and its two neighbours gives the
\* chunk the light that the blocks of the whole world give it.
THEOREM FillIs ==
  ASSUME NEW b \in [Cells -> States], NEW k \in Chunks,
         NEW s, DOMAIN s = CellsOf(Around(k)), \A c \in CellsOf(Around(k)) : s[c] = b[c]
  PROVE  \A c \in CellsOf({k}) : /\ Fill(s, k).sky[c] = TrueLight(b, TRUE)[c]
                                 /\ Fill(s, k).block[c] = TrueLight(b, FALSE)[c]
<1>. DEFINE flood(sky) == Propagate(s, Seeded(s, sky),
                              {c \in DOMAIN Seeded(s, sky) : Seeded(s, sky)[c] > 0})
<1>1. Fill(s, k) = [sky   |-> [c \in CellsOf({k}) |-> flood(TRUE)[c]],
                    block |-> [c \in CellsOf({k}) |-> flood(FALSE)[c]]]
  BY DEF Fill
<1>2. ASSUME NEW sky \in BOOLEAN
      PROVE  \A c \in CellsOf({k}) : flood(sky)[c] = TrueLight(b, sky)[c]
  BY FloodIs
<1>. HIDE DEF flood
<1>3. \A c \in CellsOf({k}) : flood(TRUE)[c] = TrueLight(b, TRUE)[c]
  BY <1>2, Zenon
<1>4. \A c \in CellsOf({k}) : flood(FALSE)[c] = TrueLight(b, FALSE)[c]
  BY <1>2, Zenon
<1>5. /\ Fill(s, k).sky = [c \in CellsOf({k}) |-> flood(TRUE)[c]]
      /\ Fill(s, k).block = [c \in CellsOf({k}) |-> flood(FALSE)[c]]
  BY <1>1
<1>. QED  BY <1>3, <1>4, <1>5

-----------------------------------------------------------------------------
(* The queues of a relight.                                                *)

\* What a queue holds.
Among(s) == {s[i] : i \in 1..Len(s)}

\* A queue with entries behind it.
LEMMA AmongConcat ==
  ASSUME NEW S, NEW s \in Seq(S), NEW t \in Seq(S)
  PROVE  /\ s \o t \in Seq(S) /\ Len(s \o t) = Len(s) + Len(t)
         /\ Among(s \o t) = Among(s) \union Among(t)
<1>1. /\ s \o t \in Seq(S) /\ Len(s \o t) = Len(s) + Len(t)
      /\ Len(s) \in Nat /\ Len(t) \in Nat
      /\ \A i \in 1..(Len(s) + Len(t)) :
             (s \o t)[i] = IF i <= Len(s) THEN s[i] ELSE t[i - Len(s)]
  OBVIOUS
<1>2. Among(s \o t) \subseteq Among(s) \union Among(t)
  <2>1. ASSUME NEW i \in 1..(Len(s) + Len(t)) PROVE (s \o t)[i] \in Among(s) \union Among(t)
    <3>1. CASE i <= Len(s)
      <4>1. i \in 1..Len(s) /\ (s \o t)[i] = s[i]
        BY <1>1, <3>1
      <4>. QED  BY <4>1 DEF Among
    <3>2. CASE ~(i <= Len(s))
      <4>1. i - Len(s) \in 1..Len(t) /\ (s \o t)[i] = t[i - Len(s)]
        BY <1>1, <3>2
      <4>. QED  BY <4>1 DEF Among
    <3>. QED  BY <3>1, <3>2
  <2>. QED  BY <1>1, <2>1 DEF Among
<1>3. Among(s) \subseteq Among(s \o t)
  <2>1. ASSUME NEW i \in 1..Len(s) PROVE s[i] \in Among(s \o t)
    <3>1. i \in 1..(Len(s) + Len(t)) /\ (s \o t)[i] = s[i]
      BY <1>1
    <3>. QED  BY <1>1, <3>1 DEF Among
  <2>. QED  BY <2>1 DEF Among
<1>4. Among(t) \subseteq Among(s \o t)
  <2>1. ASSUME NEW i \in 1..Len(t) PROVE t[i] \in Among(s \o t)
    <3>1. i + Len(s) \in 1..(Len(s) + Len(t)) /\ (s \o t)[i + Len(s)] = t[i]
      <4>1. i + Len(s) \in 1..(Len(s) + Len(t)) /\ ~(i + Len(s) <= Len(s)) /\ i + Len(s) - Len(s) = i
        BY <1>1
      <4>. QED  BY <1>1, <4>1
    <3>. QED  BY <1>1, <3>1 DEF Among
  <2>. QED  BY <2>1 DEF Among
<1>. QED  BY <1>1, <1>2, <1>3, <1>4

\* A queue without its first entry.
LEMMA AmongHead ==
  ASSUME NEW S, NEW s \in Seq(S), s # <<>>
  PROVE  /\ Head(s) \in S /\ Tail(s) \in Seq(S) /\ Len(Tail(s)) = Len(s) - 1
         /\ Len(s) \in Nat \ {0} /\ Among(s) \subseteq S
         /\ Among(s) = {Head(s)} \union Among(Tail(s))
<1>1. /\ Tail(s) \in Seq(S) /\ Len(Tail(s)) = Len(s) - 1 /\ Len(s) \in Nat \ {0}
      /\ Head(s) = s[1] /\ \A i \in 1..(Len(s) - 1) : Tail(s)[i] = s[i + 1]
      /\ \A i \in 1..Len(s) : s[i] \in S
  OBVIOUS
<1>2. Among(s) \subseteq {Head(s)} \union Among(Tail(s))
  <2>1. ASSUME NEW i \in 1..Len(s), i # 1 PROVE s[i] \in Among(Tail(s))
    <3>1. i - 1 \in 1..(Len(s) - 1) /\ (i - 1) + 1 = i
      BY <1>1, <2>1
    <3>2. Tail(s)[i - 1] = s[i]
      BY <1>1, <3>1
    <3>. QED  BY <1>1, <3>1, <3>2 DEF Among
  <2>. QED  BY <1>1, <2>1 DEF Among
<1>3. Head(s) \in Among(s)
  <2>1. 1 \in 1..Len(s)
    BY <1>1
  <2>. QED  BY <1>1, <2>1 DEF Among
<1>4. Among(Tail(s)) \subseteq Among(s)
  <2>1. ASSUME NEW i \in 1..(Len(s) - 1) PROVE Tail(s)[i] \in Among(s)
    <3>1. i + 1 \in 1..Len(s)
      BY <1>1
    <3>. QED  BY <1>1, <3>1 DEF Among
  <2>. QED  BY <1>1, <2>1 DEF Among
<1>5. Among(s) \subseteq S
  BY <1>1 DEF Among
<1>. QED  BY <1>1, <1>2, <1>3, <1>4, <1>5

\* A queue of one entry.
LEMMA AmongSingle ==
  ASSUME NEW S, NEW e \in S
  PROVE  <<e>> \in Seq(S) /\ Len(<<e>>) = 1 /\ Among(<<e>>) = {e}
<1>1. <<e>> \in Seq(S) /\ Len(<<e>>) = 1 /\ <<e>>[1] = e /\ 1..1 = {1}
  OBVIOUS
<1>2. Among(<<e>>) = {e}
  BY <1>1 DEF Among
<1>. QED  BY <1>1, <1>2

\* An empty queue.
LEMMA AmongEmpty ==
  ASSUME NEW S
  PROVE  <<>> \in Seq(S) /\ Len(<<>>) = 0 /\ Among(<<>>) = {}
<1>1. <<>> \in Seq(S) /\ Len(<<>>) = 0 /\ 1..0 = {}
  OBVIOUS
<1>2. Among(<<>>) = {}
  BY <1>1 DEF Among
<1>. QED  BY <1>1, <1>2

\* The entries of some directions, one after the other.
LEMMA QueuedIs ==
  ASSUME NEW S, NEW f, DOMAIN f \subseteq AllDirs, \A d \in DOMAIN f : f[d] \in S
  PROVE  /\ Queued(f) \in Seq(S) /\ Len(Queued(f)) \in 0..4
         /\ DOMAIN f = {} => Len(Queued(f)) = 0
         /\ Among(Queued(f)) = {f[d] : d \in DOMAIN f}
<1>1. ASSUME NEW d \in AllDirs
      PROVE  /\ QueuedTo(f, d) \in Seq(S) /\ Len(QueuedTo(f, d)) \in 0..1
             /\ DOMAIN f = {} => Len(QueuedTo(f, d)) = 0
             /\ Among(QueuedTo(f, d)) = {f[e] : e \in DOMAIN f \intersect {d}}
  <2>1. CASE d \in DOMAIN f
    <3>1. QueuedTo(f, d) = <<f[d]>> /\ f[d] \in S
      BY <2>1 DEF QueuedTo
    <3>2. {f[e] : e \in DOMAIN f \intersect {d}} = {f[d]}
      BY <2>1
    <3>3. <<f[d]>> \in Seq(S) /\ Len(<<f[d]>>) = 1 /\ Among(<<f[d]>>) = {f[d]}
      BY <3>1, AmongSingle
    <3>. QED  BY <2>1, <3>1, <3>2, <3>3
  <2>2. CASE d \notin DOMAIN f
    <3>1. QueuedTo(f, d) = <<>>
      BY <2>2 DEF QueuedTo
    <3>2. {f[e] : e \in DOMAIN f \intersect {d}} = {}
      BY <2>2
    <3>. QED  BY <3>1, <3>2, AmongEmpty
  <2>. QED  BY <2>1, <2>2
<1>. DEFINE s1 == QueuedTo(f, "down")  s2 == QueuedTo(f, "up")
            s3 == QueuedTo(f, "west")  s4 == QueuedTo(f, "east")
            V(d) == {f[e] : e \in DOMAIN f \intersect {d}}
<1>2. /\ s1 \in Seq(S) /\ Len(s1) \in 0..1 /\ (DOMAIN f = {} => Len(s1) = 0)
      /\ Among(s1) = V("down")
  BY <1>1 DEF AllDirs
<1>3. /\ s2 \in Seq(S) /\ Len(s2) \in 0..1 /\ (DOMAIN f = {} => Len(s2) = 0)
      /\ Among(s2) = V("up")
  BY <1>1 DEF AllDirs
<1>4. /\ s3 \in Seq(S) /\ Len(s3) \in 0..1 /\ (DOMAIN f = {} => Len(s3) = 0)
      /\ Among(s3) = V("west")
  BY <1>1 DEF AllDirs
<1>5. /\ s4 \in Seq(S) /\ Len(s4) \in 0..1 /\ (DOMAIN f = {} => Len(s4) = 0)
      /\ Among(s4) = V("east")
  BY <1>1 DEF AllDirs
<1>. HIDE DEF s1, s2, s3, s4, V
<1>. DEFINE a == s1 \o s2  c == a \o s3  g == c \o s4
<1>6. a \in Seq(S) /\ Len(a) = Len(s1) + Len(s2) /\ Among(a) = V("down") \union V("up")
  BY <1>2, <1>3, AmongConcat
<1>. HIDE DEF a
<1>7. c \in Seq(S) /\ Len(c) = Len(a) + Len(s3) /\ Among(c) = Among(a) \union V("west")
  BY <1>4, <1>6, AmongConcat
<1>. HIDE DEF c
<1>8. g \in Seq(S) /\ Len(g) = Len(c) + Len(s4) /\ Among(g) = Among(c) \union V("east")
  BY <1>5, <1>7, AmongConcat
<1>. HIDE DEF g
<1>9. Queued(f) = g
  BY DEF Queued, s1, s2, s3, s4, a, c, g
<1>10. V("down") \union V("up") \union V("west") \union V("east") = {f[d] : d \in DOMAIN f}
  BY DEF V, AllDirs
<1>11. Len(s1) \in 0..1 /\ Len(s2) \in 0..1 /\ Len(s3) \in 0..1 /\ Len(s4) \in 0..1
       /\ Len(a) = Len(s1) + Len(s2) /\ Len(c) = Len(a) + Len(s3) /\ Len(g) = Len(c) + Len(s4)
  BY <1>2, <1>3, <1>4, <1>5, <1>6, <1>7, <1>8, Zenon
<1>12. Len(g) \in 0..4
  <2>. DEFINE n1 == Len(s1)  n2 == Len(s2)  n3 == Len(s3)  n4 == Len(s4)
  <2>1. n1 \in 0..1 /\ n2 \in 0..1 /\ n3 \in 0..1 /\ n4 \in 0..1
    BY <1>11
  <2>2. Len(g) = n1 + n2 + n3 + n4
    BY <1>11
  <2>. HIDE DEF n1, n2, n3, n4
  <2>3. n1 + n2 + n3 + n4 \in 0..4
    BY <2>1
  <2>. QED  BY <2>2, <2>3
<1>13. ASSUME DOMAIN f = {} PROVE Len(g) = 0
  <2>1. Len(s1) = 0 /\ Len(s2) = 0 /\ Len(s3) = 0 /\ Len(s4) = 0
    BY <1>2, <1>3, <1>4, <1>5, <1>13, Zenon
  <2>. QED  BY <1>11, <2>1
<1>14. Among(g) = {f[d] : d \in DOMAIN f}
  BY <1>6, <1>7, <1>8, <1>10
<1>. QED  BY <1>8, <1>9, <1>12, <1>13, <1>14

-----------------------------------------------------------------------------
(* The decreases of a relight.                                             *)

\* A window's light, with T around it.
Whole(lit, T) == [c \in Cells |-> IF c \in DOMAIN lit THEN lit[c] ELSE T[c]]

\* What a cell holds, or will when its source is queued.
Held(b, sky, X, c) == Larger(X[c], Source(b, sky, c))

\* An increase is queued that will push the light of neighbour d into c.
Promised(X, inc, c, d) ==
    \E e \in inc : e.at = Step(c, d) /\ Back[d] \in e.dirs /\ e.level = X[Step(c, d)]
\* A decrease is queued that will look again at neighbour d of c.
Reviewed(dec, c, d) == \E e \in dec : e.at = c /\ d \in e.dirs
\* A decrease is queued that will darken c.
Doomed(X, dec, c) ==
    \E e \in dec : \E d \in e.dirs : Step(e.at, d) = c /\ X[c] <= e.level - 1

\* An emission entry is about its cell's own light.
EmitsRight(b, sky, inc) ==
    \A e \in inc : e.emit => e.dirs = AllDirs /\ e.level = Source(b, sky, e.at)
\* A cell short of its own light has an emission queued.
SourcesKept(b, sky, X, inc) ==
    \A c \in Cells : X[c] >= Source(b, sky, c) \/ \E e \in inc : e.at = c /\ e.emit

\* What holds between two decreases.
DecReach(x, dec)  == \A e \in dec : e.level >= 1 /\ e.at[1] \in Close(x, MaxLevel - e.level)
DecSky(b, sky, X) == sky => \A c \in Cells : Source(b, sky, c) > 0 => X[c] = MaxLevel
DecGround(b, sky, X, dec) ==
    \A c \in Cells : X[c] > Source(b, sky, c) =>
        \/ /\ Lets(b, c)
           /\ \E d \in AllDirs : Step(c, d) \in Cells
                  /\ Held(b, sky, X, Step(c, d)) >= X[c] + Price(b, c)
        \/ Doomed(X, dec, c)
DecSpread(b, sky, D, X, dec, inc) ==
    \A c \in D : Lets(b, c) => \A d \in AllDirs : Step(c, d) \in Cells =>
        \/ Held(b, sky, X, c) >= X[Step(c, d)] - Price(b, c)
        \/ Promised(X, inc, c, d)
        \/ Reviewed(dec, c, d)
DecDark(b, sky, X, dec, inc) ==
    \A e \in dec :
        \/ X[e.at] = 0
        \/ e.level <= 1
        \/ /\ X[e.at] = MaxLevel /\ Source(b, sky, e.at) = MaxLevel
           /\ \E u \in inc : u.at = e.at /\ u.level = MaxLevel /\ e.dirs \subseteq u.dirs
DecParts(b, sky, x, D, X, dec, inc) ==
    /\ DecReach(x, dec)
    /\ DecSky(b, sky, X)
    /\ DecGround(b, sky, X, dec)
    /\ DecSpread(b, sky, D, X, dec, inc)
    /\ DecDark(b, sky, X, dec, inc)
    /\ EmitsRight(b, sky, inc)
    /\ SourcesKept(b, sky, X, inc)
DecInv(b, sky, x, D, T, w) ==
    /\ w \in Works(D)
    /\ DecParts(b, sky, x, D, Whole(w.lit, T), Among(w.dec), Among(w.inc))

\* The directions in which decrease e darkens.
Dims(D, X, e) == {d \in e.dirs : /\ Step(e.at, d) \in D
                                 /\ X[Step(e.at, d)] > 0
                                 /\ X[Step(e.at, d)] <= e.level - 1}

Dimmed(D, e, lit, dim) ==
    \A c \in D : dim[c] = IF \E d \in Dims(D, lit, e) : Step(e.at, d) = c THEN 0 ELSE lit[c]

\* One decrease, e, as seen from the lighting of the world: X, dec, inc are
\* what the window and its queues hold before, Y, ndec, ninc after.
DecTurn(b, sky, D, e, X, dec, inc, Y, ndec, ninc) ==
    /\ \A c \in Cells : Y[c] = IF \E d \in Dims(D, X, e) : Step(e.at, d) = c THEN 0 ELSE X[c]
    /\ \A d \in Dims(D, X, e) :
           Lights(b, sky, Step(e.at, d)) < X[Step(e.at, d)] =>
               Entry(Step(e.at, d), X[Step(e.at, d)], AllDirs \ {Back[d]}) \in ndec
    /\ \A d \in Dims(D, X, e) :
           Lights(b, sky, Step(e.at, d)) > 0 =>
               FromEmission(Step(e.at, d), Lights(b, sky, Step(e.at, d))) \in ninc
    /\ \A d \in e.dirs \ Dims(D, X, e) :
           Step(e.at, d) \in D /\ X[Step(e.at, d)] > 0 =>
               Entry(Step(e.at, d), X[Step(e.at, d)], {Back[d]}) \in ninc
    /\ \A u \in dec : u = e \/ u \in ndec
    /\ inc \subseteq ninc
    /\ \A u \in ndec : u \in dec \/ \E d \in Dims(D, X, e) :
           u = Entry(Step(e.at, d), X[Step(e.at, d)], AllDirs \ {Back[d]})
    /\ \A u \in ninc : u \in inc \/ ~u.emit \/ \E d \in Dims(D, X, e) :
           /\ Lights(b, sky, Step(e.at, d)) > 0
           /\ u = FromEmission(Step(e.at, d), Lights(b, sky, Step(e.at, d)))

\* What PropagateDecrease does.
LEMMA DecIs ==
  ASSUME NEW b \in [Cells -> States], NEW sky \in BOOLEAN, NEW D, D \subseteq Cells,
         NEW T, NEW w \in Works(D), w.dec # <<>>
  PROVE  LET e == Head(w.dec)
             q == PropagateDecrease(b, sky, [w EXCEPT !.dec = Tail(@)], e)
         IN /\ e \in Entries(D) /\ e \in Among(w.dec) /\ Among(w.dec) \subseteq Entries(D)
            /\ q \in Works(D)
            /\ DecTurn(b, sky, D, e, Whole(w.lit, T), Among(w.dec), Among(w.inc),
                       Whole(q.lit, T), Among(q.dec), Among(q.inc))
            /\ Len(q.dec) <= Len(w.dec) + 3 /\ Len(q.dec) \in Nat /\ Len(w.dec) \in Nat
            /\ Dims(D, w.lit, e) = {} => Len(q.dec) < Len(w.dec)
            /\ Dimmed(D, e, w.lit, q.lit)
<1>. DEFINE e == Head(w.dec)
            lit == w.lit
            w1 == [w EXCEPT !.dec = Tail(@)]
            reached == {d \in e.dirs : Step(e.at, d) \in DOMAIN lit /\ lit[Step(e.at, d)] > 0}
            dimmer  == {d \in reached : lit[Step(e.at, d)] <= e.level - 1}
            emits(d) == Lights(b, sky, Step(e.at, d))
            darkened == {d \in dimmer : emits(d) < lit[Step(e.at, d)]}
            again    == (reached \ dimmer) \union {d \in dimmer : emits(d) > 0}
            fd == [d \in darkened |->
                    Entry(Step(e.at, d), lit[Step(e.at, d)], AllDirs \ {Back[d]})]
            fi == [d \in again |->
                    IF d \in dimmer THEN FromEmission(Step(e.at, d), emits(d))
                    ELSE Entry(Step(e.at, d), lit[Step(e.at, d)], {Back[d]})]
            q == [lit |-> [c \in DOMAIN lit |->
                    IF \E d \in dimmer : Step(e.at, d) = c THEN 0 ELSE lit[c]],
                  dec |-> Tail(w.dec) \o Queued(fd),
                  inc |-> w.inc \o Queued(fi)]
<1>1. /\ w1.lit = w.lit /\ w1.dec = Tail(w.dec) /\ w1.inc = w.inc
      /\ lit \in [D -> 0..MaxLevel] /\ w.dec \in Seq(Entries(D)) /\ w.inc \in Seq(Entries(D))
  <2>1. w \in [lit: [D -> 0..MaxLevel], dec: Seq(Entries(D)), inc: Seq(Entries(D))]
    BY DEF Works
  <2>2. w1.lit = w.lit
    BY <2>1
  <2>3. w1.dec = Tail(w.dec)
    BY <2>1
  <2>4. w1.inc = w.inc
    BY <2>1
  <2>. HIDE DEF w1
  <2>. QED  BY <2>1, <2>2, <2>3, <2>4
<1>2. PropagateDecrease(b, sky, w1, e) = q
  <2>1. w1.lit = lit /\ w1.dec = Tail(w.dec) /\ w1.inc = w.inc
    BY <1>1
  <2>. HIDE DEF w1, lit, e
  <2>. QED  BY <2>1 DEF PropagateDecrease
<1>3. /\ e \in Entries(D) /\ Tail(w.dec) \in Seq(Entries(D)) /\ Len(Tail(w.dec)) = Len(w.dec) - 1
      /\ Len(w.dec) \in Nat \ {0} /\ Among(w.dec) \subseteq Entries(D)
      /\ Among(w.dec) = {e} \union Among(Tail(w.dec))
  BY <1>1, AmongHead
<1>. HIDE DEF e, lit, w1
<1>4. e.at \in D /\ e.level \in 0..MaxLevel /\ e.dirs \subseteq AllDirs /\ DOMAIN lit = D
      /\ MaxLevel \in Nat
  BY <1>1, <1>3, LightAssumption DEF Entries
<1>5. dimmer = Dims(D, lit, e) /\ dimmer \subseteq reached /\ reached \subseteq AllDirs
  BY <1>4 DEF Dims
<1>6. ASSUME NEW d \in reached
      PROVE  /\ Step(e.at, d) \in D /\ lit[Step(e.at, d)] \in 1..MaxLevel
             /\ emits(d) \in 0..MaxLevel /\ Back[d] \in AllDirs
  <2>1. Step(e.at, d) \in D /\ lit[Step(e.at, d)] > 0
    BY <1>4
  <2>2. lit[Step(e.at, d)] \in 1..MaxLevel
    BY <1>1, <1>4, <2>1
  <2>3. emits(d) \in 0..MaxLevel
    <3>1. Step(e.at, d) \in Cells
      BY <2>1
    <3>2. b[Step(e.at, d)] \in States
      BY <3>1
    <3>. QED  BY <3>2, <1>4, LightAssumption DEF Lights
  <2>4. Back[d] \in AllDirs
    BY <1>5, BackDir
  <2>. QED  BY <2>1, <2>2, <2>3, <2>4
<1>7. DOMAIN fd = darkened /\ DOMAIN fi = again /\ darkened \subseteq reached /\ again \subseteq reached
  OBVIOUS
<1>. HIDE DEF emits, reached
<1>8. \A d \in darkened : fd[d] \in Entries(D)
  BY <1>6, <1>7, <1>4 DEF Entries, Entry
<1>9. \A d \in again : fi[d] \in Entries(D)
  <2>1. ASSUME NEW d \in again PROVE fi[d] \in Entries(D)
    <3>1. d \in reached
      BY <1>7
    <3>2. FromEmission(Step(e.at, d), emits(d)) \in Entries(D)
      BY <1>6, <3>1 DEF FromEmission, Entries
    <3>3. Entry(Step(e.at, d), lit[Step(e.at, d)], {Back[d]}) \in Entries(D)
      BY <1>6, <3>1, <1>4 DEF Entry, Entries
    <3>. QED  BY <3>2, <3>3
  <2>. QED  BY <2>1
<1>. HIDE DEF fd, fi
<1>10. /\ Queued(fd) \in Seq(Entries(D)) /\ Len(Queued(fd)) \in 0..4
       /\ DOMAIN fd = {} => Len(Queued(fd)) = 0
       /\ Among(Queued(fd)) = {fd[d] : d \in DOMAIN fd}
  <2>1. DOMAIN fd \subseteq AllDirs /\ \A d \in DOMAIN fd : fd[d] \in Entries(D)
    BY <1>5, <1>7, <1>8
  <2>. QED  BY <2>1, QueuedIs
<1>11. /\ Queued(fi) \in Seq(Entries(D))
       /\ Among(Queued(fi)) = {fi[d] : d \in DOMAIN fi}
  <2>1. DOMAIN fi \subseteq AllDirs /\ \A d \in DOMAIN fi : fi[d] \in Entries(D)
    BY <1>5, <1>7, <1>9
  <2>. QED  BY <2>1, QueuedIs
<1>12. /\ Tail(w.dec) \o Queued(fd) \in Seq(Entries(D))
       /\ Len(Tail(w.dec) \o Queued(fd)) = Len(Tail(w.dec)) + Len(Queued(fd))
       /\ Among(Tail(w.dec) \o Queued(fd)) = Among(Tail(w.dec)) \union Among(Queued(fd))
  <2>. DEFINE s == Tail(w.dec)  t == Queued(fd)
  <2>1. s \in Seq(Entries(D)) /\ t \in Seq(Entries(D))
    BY <1>3, <1>10
  <2>. HIDE DEF s, t
  <2>2. /\ s \o t \in Seq(Entries(D)) /\ Len(s \o t) = Len(s) + Len(t)
        /\ Among(s \o t) = Among(s) \union Among(t)
    BY <2>1, AmongConcat
  <2>. QED  BY <2>2 DEF s, t
<1>13. /\ w.inc \o Queued(fi) \in Seq(Entries(D))
       /\ Among(w.inc \o Queued(fi)) = Among(w.inc) \union Among(Queued(fi))
  BY <1>1, <1>11, AmongConcat
<1>14. /\ q.dec = Tail(w.dec) \o Queued(fd) /\ q.inc = w.inc \o Queued(fi)
       /\ q.lit = [c \in D |-> IF \E d \in dimmer : Step(e.at, d) = c THEN 0 ELSE lit[c]]
       /\ q = [lit |-> q.lit, dec |-> q.dec, inc |-> q.inc]
  BY <1>4
<1>. HIDE DEF q, dimmer, darkened, again
<1>15. q.lit \in [D -> 0..MaxLevel]
  BY <1>1, <1>4, <1>14
<1>16. q \in Works(D)
  BY <1>12, <1>13, <1>14, <1>15 DEF Works
<1>17. /\ Len(q.dec) <= Len(w.dec) + 3 /\ Len(q.dec) \in Nat /\ Len(w.dec) \in Nat
       /\ Dims(D, lit, e) = {} => Len(q.dec) < Len(w.dec)
  <2>1. Len(q.dec) = Len(w.dec) - 1 + Len(Queued(fd)) /\ Len(Queued(fd)) \in 0..4
        /\ Len(w.dec) \in Nat \ {0}
    BY <1>3, <1>10, <1>12, <1>14
  <2>2. Dims(D, lit, e) = {} => Len(Queued(fd)) = 0
    <3>1. Dims(D, lit, e) = {} => darkened = {}
      BY <1>5 DEF darkened
    <3>. QED  BY <3>1, <1>7, <1>10
  <2>. DEFINE m == Len(q.dec)  n == Len(w.dec)  i == Len(Queued(fd))
  <2>3. m = n - 1 + i /\ i \in 0..4 /\ n \in Nat \ {0}
    BY <2>1
  <2>. HIDE DEF m, n, i
  <2>4. m <= n + 3 /\ m \in Nat /\ n \in Nat /\ (i = 0 => m < n)
    BY <2>3
  <2>. QED  BY <2>2, <2>4 DEF m, n, i
<1>. DEFINE X == Whole(lit, T)  Y == Whole(q.lit, T)
<1>18. /\ \A c \in D : X[c] = lit[c] /\ Y[c] = q.lit[c] /\ c \in Cells
       /\ \A c \in Cells \ D : X[c] = T[c] /\ Y[c] = T[c]
  BY <1>4, <1>15 DEF Whole
<1>. HIDE DEF X, Y
<1>19. Dims(D, X, e) = dimmer
  <2>1. \A d \in e.dirs : Step(e.at, d) \in D => X[Step(e.at, d)] = lit[Step(e.at, d)]
    BY <1>18
  <2>. QED  BY <1>5, <2>1 DEF Dims
<1>20. \A d \in reached : X[Step(e.at, d)] = lit[Step(e.at, d)]
  BY <1>6, <1>18
<1>21. DecTurn(b, sky, D, e, X, Among(w.dec), Among(w.inc), Y, Among(q.dec), Among(q.inc))
  <2>1. \A c \in Cells : Y[c] = IF \E d \in dimmer : Step(e.at, d) = c THEN 0 ELSE X[c]
    <3>1. ASSUME NEW c \in Cells, c \in D
          PROVE Y[c] = IF \E d \in dimmer : Step(e.at, d) = c THEN 0 ELSE X[c]
      BY <3>1, <1>14, <1>18
    <3>2. ASSUME NEW c \in Cells, c \notin D
          PROVE Y[c] = IF \E d \in dimmer : Step(e.at, d) = c THEN 0 ELSE X[c]
      <4>1. \A d \in dimmer : Step(e.at, d) \in D
        BY <1>5, <1>6
      <4>. QED  BY <3>2, <1>18, <4>1
    <3>. QED  BY <3>1, <3>2
  <2>2. Among(q.dec) = Among(Tail(w.dec)) \union {fd[d] : d \in darkened}
    BY <1>7, <1>10, <1>12, <1>14
  <2>3. Among(q.inc) = Among(w.inc) \union {fi[d] : d \in again}
    BY <1>7, <1>11, <1>13, <1>14
  <2>4. \A d \in darkened : fd[d] = Entry(Step(e.at, d), X[Step(e.at, d)], AllDirs \ {Back[d]})
    BY <1>7, <1>20 DEF fd
  <2>5. \A d \in again : fi[d] = IF d \in dimmer
                                 THEN FromEmission(Step(e.at, d), Lights(b, sky, Step(e.at, d)))
                                 ELSE Entry(Step(e.at, d), X[Step(e.at, d)], {Back[d]})
    BY <1>7, <1>20 DEF fi, emits
  <2>6. \A d \in dimmer : d \in darkened <=> Lights(b, sky, Step(e.at, d)) < X[Step(e.at, d)]
    BY <1>5, <1>20 DEF darkened, emits
  <2>7. \A d \in dimmer : d \in again <=> Lights(b, sky, Step(e.at, d)) > 0
    BY <1>5 DEF again, emits
  <2>8. \A d \in e.dirs \ dimmer : Step(e.at, d) \in D /\ X[Step(e.at, d)] > 0 => d \in again
    BY <1>4, <1>5, <1>18 DEF again, reached
  <2>9. darkened \subseteq dimmer
    BY DEF darkened
  <2>10. /\ \A d \in dimmer :
               Lights(b, sky, Step(e.at, d)) < X[Step(e.at, d)] =>
                 Entry(Step(e.at, d), X[Step(e.at, d)], AllDirs \ {Back[d]}) \in Among(q.dec)
         /\ \A u \in Among(q.dec) : u \in Among(w.dec) \/ \E d \in dimmer :
               u = Entry(Step(e.at, d), X[Step(e.at, d)], AllDirs \ {Back[d]})
         /\ \A u \in Among(w.dec) : u = e \/ u \in Among(q.dec)
    BY <1>3, <2>2, <2>4, <2>6, <2>9
  <2>11. \A d \in dimmer :
               Lights(b, sky, Step(e.at, d)) > 0 =>
               FromEmission(Step(e.at, d), Lights(b, sky, Step(e.at, d))) \in Among(q.inc)
    BY <2>3, <2>5, <2>7
  <2>12. \A d \in e.dirs \ dimmer :
           Step(e.at, d) \in D /\ X[Step(e.at, d)] > 0 =>
               Entry(Step(e.at, d), X[Step(e.at, d)], {Back[d]}) \in Among(q.inc)
    BY <2>3, <2>5, <2>8
  <2>13. \A u \in Among(q.inc) : u \in Among(w.inc) \/ ~u.emit \/ \E d \in dimmer :
           /\ Lights(b, sky, Step(e.at, d)) > 0
           /\ u = FromEmission(Step(e.at, d), Lights(b, sky, Step(e.at, d)))
    <3>1. ASSUME NEW d \in again, d \notin dimmer PROVE ~(fi[d].emit)
      <4>1. fi[d] = Entry(Step(e.at, d), X[Step(e.at, d)], {Back[d]})
        BY <3>1, <2>5
      <4>2. Entry(Step(e.at, d), X[Step(e.at, d)], {Back[d]}).emit = FALSE
        BY DEF Entry
      <4>. QED  BY <4>1, <4>2
    <3>2. ASSUME NEW d \in again, d \in dimmer
          PROVE /\ Lights(b, sky, Step(e.at, d)) > 0
                /\ fi[d] = FromEmission(Step(e.at, d), Lights(b, sky, Step(e.at, d)))
      BY <3>2, <2>5, <2>7
    <3>. QED  BY <2>3, <3>1, <3>2
  <2>14. Among(w.inc) \subseteq Among(q.inc)
    BY <2>3
  <2>. QED  BY <1>19, <2>1, <2>10, <2>11, <2>12, <2>13, <2>14 DEF DecTurn
<1>22. Dimmed(D, e, lit, q.lit)
  BY <1>5, <1>14 DEF Dimmed
<1>23. e \in Among(w.dec)
  BY <1>3
<1>. QED  BY <1>2, <1>3, <1>16, <1>17, <1>21, <1>22, <1>23 DEF e, lit, w1, X, Y

\* D is a window around column x.
Covers(x, D) == D \subseteq Cells /\ \A c \in Cells : c[1] \in Close(x, MaxLevel) => c \in D

\* A decrease keeps what the decreases rest on.
LEMMA DecKeeps ==
  ASSUME NEW b \in [Cells -> States], NEW sky \in BOOLEAN, NEW x \in Columns,
         NEW D, Covers(x, D), NEW X \in [Cells -> 0..MaxLevel],
         NEW dec, dec \subseteq Entries(D), NEW inc, inc \subseteq Entries(D),
         NEW e, e \in dec, NEW Y, NEW ndec, NEW ninc,
         DecTurn(b, sky, D, e, X, dec, inc, Y, ndec, ninc),
         DecParts(b, sky, x, D, X, dec, inc)
  PROVE  DecParts(b, sky, x, D, Y, ndec, ninc)
<1>. DEFINE Dim == Dims(D, X, e)
<1>0. /\ D \subseteq Cells /\ \A c \in Cells : c[1] \in Close(x, MaxLevel) => c \in D
      /\ MaxLevel \in Nat \ {0} /\ MaxLevel < Width /\ Width \in Nat
  BY WidthType DEF Covers
<1>1. e.at \in D /\ e.at \in Cells /\ e.level \in 0..MaxLevel /\ e.dirs \subseteq AllDirs
  BY <1>0 DEF Entries
<1>2. ASSUME NEW c \in Cells
      PROVE  /\ X[c] \in 0..MaxLevel /\ Source(b, sky, c) \in 0..MaxLevel
             /\ Price(b, c) \in 1..MaxLevel
  BY LightTypes
<1>3. e.level >= 1 /\ e.at[1] \in Close(x, MaxLevel - e.level)
  BY DEF DecParts, DecReach
<1>4. ASSUME NEW d \in e.dirs, Step(e.at, d) \in Cells PROVE Step(e.at, d) \in D
  <2>. DEFINE j == MaxLevel - e.level
  <2>1. j \in Int /\ j < Width /\ j + 1 \in Int /\ j + 1 <= MaxLevel
    BY <1>0, <1>1, <1>3
  <2>. HIDE DEF j
  <2>2. e.at[1] \in Close(x, j)
    BY <1>3 DEF j
  <2>3. Step(e.at, d)[1] \in Close(x, j + 1)
    BY <1>1, <2>1, <2>2, CloseStep
  <2>4. Close(x, j + 1) \subseteq Close(x, MaxLevel)
    BY <1>0, <2>1, CloseMono
  <2>. QED  BY <1>0, <1>4, <2>3, <2>4
<1>5. ASSUME NEW d \in Dim
      PROVE  /\ d \in e.dirs /\ d \in AllDirs /\ Step(e.at, d) \in D /\ Step(e.at, d) \in Cells
             /\ X[Step(e.at, d)] \in 1..MaxLevel /\ X[Step(e.at, d)] <= e.level - 1
             /\ X[Step(e.at, d)] < MaxLevel /\ e.level >= 2
             /\ Lights(b, sky, Step(e.at, d)) = Source(b, sky, Step(e.at, d))
             /\ Step(e.at, d)[1] \in Close(x, MaxLevel - X[Step(e.at, d)])
  <2>. DEFINE a == Step(e.at, d)
  <2>1. d \in e.dirs /\ a \in D /\ X[a] > 0 /\ X[a] <= e.level - 1
    BY DEF Dims
  <2>2. d \in AllDirs /\ a \in Cells
    BY <1>0, <1>1, <2>1
  <2>x. X[a] \in 0..MaxLevel
    BY <1>2, <2>2
  <2>3. X[a] \in 1..MaxLevel /\ X[a] < MaxLevel /\ e.level >= 2
    <3>. HIDE DEF a
    <3>. QED  BY <1>0, <1>1, <2>1, <2>x
  <2>4. Lights(b, sky, a) = Source(b, sky, a)
    <3>1. CASE sky = TRUE
      <4>0. sky => \A c \in Cells : Source(b, sky, c) > 0 => X[c] = MaxLevel
        BY DEF DecParts, DecSky
      <4>00. Source(b, sky, a) > 0 => X[a] = MaxLevel
        BY <2>2, <3>1, <4>0
      <4>1. ~(Source(b, sky, a) > 0)
        <5>. HIDE DEF a
        <5>. QED  BY <1>0, <2>3, <4>00
      <4>2. Source(b, sky, a) = 0
        BY <1>2, <2>2, <4>1
      <4>. QED  BY <3>1, <4>2 DEF Lights
    <3>2. CASE sky = FALSE
      BY <3>2 DEF Lights, Source
    <3>. QED  BY <3>1, <3>2
  <2>5. a[1] \in Close(x, MaxLevel - X[a])
    <3>. DEFINE j == MaxLevel - e.level  i == MaxLevel - X[a]
    <3>1. j \in Int /\ j < Width /\ j + 1 \in Int /\ i \in Int /\ j + 1 <= i
      BY <1>0, <1>1, <1>3, <2>1, <2>3
    <3>. HIDE DEF i, j
    <3>2. e.at[1] \in Close(x, j)
      BY <1>3 DEF j
    <3>3. a[1] \in Close(x, j + 1)
      BY <1>1, <2>2, <3>1, <3>2, CloseStep
    <3>4. Close(x, j + 1) \subseteq Close(x, i)
      BY <3>1, CloseMono
    <3>. QED  BY <3>3, <3>4 DEF i
  <2>. QED  BY <2>1, <2>2, <2>3, <2>4, <2>5
<1>6. \A c \in Cells : Y[c] = IF \E d \in Dim : Step(e.at, d) = c THEN 0 ELSE X[c]
  BY DEF DecTurn
<1>7. ASSUME NEW c \in Cells
      PROVE  /\ Y[c] \in 0..MaxLevel /\ Y[c] <= X[c]
             /\ Y[c] # X[c] => Y[c] = 0 /\ X[c] < MaxLevel /\ \E d \in Dim : Step(e.at, d) = c
  <2>1. CASE \E d \in Dim : Step(e.at, d) = c
    <3>1. Y[c] = 0 /\ X[c] < MaxLevel
      BY <1>5, <1>6, <2>1
    <3>. QED  BY <1>0, <1>2, <2>1, <3>1
  <2>2. CASE ~(\E d \in Dim : Step(e.at, d) = c)
    <3>1. Y[c] = X[c]
      BY <1>6, <2>2
    <3>. QED  BY <1>2, <3>1
  <2>. QED  BY <2>1, <2>2
<1>8. ASSUME Dim # {}
      PROVE  /\ Y[e.at] = X[e.at]
             /\ \/ X[e.at] = 0
                \/ /\ X[e.at] = MaxLevel /\ Source(b, sky, e.at) = MaxLevel
                   /\ \E u \in inc : u.at = e.at /\ u.level = MaxLevel /\ e.dirs \subseteq u.dirs
  <2>1. e.level >= 2
    BY <1>5, <1>8
  <2>2. \/ X[e.at] = 0
        \/ /\ X[e.at] = MaxLevel /\ Source(b, sky, e.at) = MaxLevel
           /\ \E u \in inc : u.at = e.at /\ u.level = MaxLevel /\ e.dirs \subseteq u.dirs
    BY <1>1, <2>1 DEF DecParts, DecDark
  <2>3. Y[e.at] = X[e.at]
    BY <1>0, <1>1, <1>7, <2>2
  <2>. QED  BY <2>2, <2>3
<1>9. ASSUME NEW a \in Cells, Y[a] # X[a], Held(b, sky, Y, a) # Held(b, sky, X, a)
      PROVE  \E d \in Dim : /\ a = Step(e.at, d)
                            /\ Held(b, sky, X, a) = X[a]
                            /\ Entry(a, X[a], AllDirs \ {Back[d]}) \in ndec
  <2>1. PICK d \in Dim : Step(e.at, d) = a
    BY <1>7, <1>9
  <2>2. Y[a] = 0
    BY <1>7, <1>9
  <2>3. X[a] > Source(b, sky, a) /\ Held(b, sky, X, a) = X[a]
    BY <1>2, <1>9, <2>2 DEF Held, Larger
  <2>4. Entry(Step(e.at, d), X[Step(e.at, d)], AllDirs \ {Back[d]}) \in ndec
    <3>1. Lights(b, sky, Step(e.at, d)) < X[Step(e.at, d)]
      BY <1>2, <1>5, <2>1, <2>3
    <3>. QED  BY <3>1 DEF DecTurn
  <2>. QED  BY <2>1, <2>3, <2>4
<1>10. inc \subseteq ninc /\ \A u \in dec : u = e \/ u \in ndec
  BY DEF DecTurn
<1>11. DecReach(x, ndec)
  <2>1. ASSUME NEW u \in ndec PROVE u.level >= 1 /\ u.at[1] \in Close(x, MaxLevel - u.level)
    <3>1. CASE u \in dec
      BY <3>1 DEF DecParts, DecReach
    <3>2. CASE u \notin dec
      <4>1. PICK d \in Dim : u = Entry(Step(e.at, d), X[Step(e.at, d)], AllDirs \ {Back[d]})
        BY <3>2 DEF DecTurn
      <4>2. u.at = Step(e.at, d) /\ u.level = X[Step(e.at, d)]
        BY <4>1 DEF Entry
      <4>. QED  BY <1>5, <4>2
    <3>. QED  BY <3>1, <3>2
  <2>. QED  BY <2>1 DEF DecReach
<1>12. DecSky(b, sky, Y)
  <2>1. ASSUME sky, NEW c \in Cells, Source(b, sky, c) > 0 PROVE Y[c] = MaxLevel
    <3>1. X[c] = MaxLevel
      BY <2>1 DEF DecParts, DecSky
    <3>. QED  BY <1>0, <1>7, <3>1
  <2>. QED  BY <2>1 DEF DecSky
<1>13. DecGround(b, sky, Y, ndec)
  <2>1. ASSUME NEW c \in Cells, Y[c] > Source(b, sky, c)
        PROVE \/ /\ Lets(b, c)
                 /\ \E d \in AllDirs : Step(c, d) \in Cells
                         /\ Held(b, sky, Y, Step(c, d)) >= Y[c] + Price(b, c)
              \/ Doomed(Y, ndec, c)
    <3>1. Y[c] = X[c] /\ X[c] \in 1..MaxLevel /\ X[c] > Source(b, sky, c)
      BY <1>2, <1>7, <2>1
    <3>2. \/ /\ Lets(b, c)
             /\ \E d \in AllDirs : Step(c, d) \in Cells
                    /\ Held(b, sky, X, Step(c, d)) >= X[c] + Price(b, c)
          \/ Doomed(X, dec, c)
      BY <3>1 DEF DecParts, DecGround
    <3>3. ASSUME Lets(b, c), NEW d \in AllDirs, Step(c, d) \in Cells,
                 Held(b, sky, X, Step(c, d)) >= X[c] + Price(b, c),
                 Held(b, sky, Y, Step(c, d)) # Held(b, sky, X, Step(c, d))
          PROVE  Doomed(Y, ndec, c)
      <4>. DEFINE a == Step(c, d)
      <4>1. Y[a] # X[a]
        BY <3>3 DEF Held
      <4>2. PICK g \in Dim : /\ a = Step(e.at, g)
                             /\ Held(b, sky, X, a) = X[a]
                             /\ Entry(a, X[a], AllDirs \ {Back[g]}) \in ndec
        BY <1>9, <3>3, <4>1
      <4>3. Step(a, Back[d]) = c /\ Back[d] \in AllDirs
        BY <3>3, StepBack, BackDir
      <4>4. Step(a, Back[g]) = e.at
        BY <1>1, <1>5, <4>2, StepBack
      <4>5. Back[d] # Back[g]
        <5>1. ASSUME c = e.at PROVE FALSE
          <6>1. X[c] = 0 \/ Source(b, sky, c) = MaxLevel
            BY <1>8, <5>1
          <6>. QED  BY <1>0, <1>2, <3>1, <6>1
        <5>. QED  BY <4>3, <4>4, <5>1
      <4>6. X[a] \in 0..MaxLevel /\ Price(b, c) \in 1..MaxLevel
        BY <1>2, <3>3
      <4>7. Y[c] <= X[a] - 1
        BY <1>0, <3>1, <3>3, <4>2, <4>6
      <4>. DEFINE u == Entry(a, X[a], AllDirs \ {Back[g]})
      <4>8. u.at = a /\ u.level = X[a] /\ u.dirs = AllDirs \ {Back[g]} /\ u \in ndec
        BY <4>2 DEF Entry
      <4>. HIDE DEF u, a
      <4>. QED  BY <4>3, <4>5, <4>7, <4>8 DEF Doomed
    <3>4. ASSUME Doomed(X, dec, c) PROVE Doomed(Y, ndec, c)
      <4>1. PICK u \in dec : \E d \in u.dirs : Step(u.at, d) = c /\ X[c] <= u.level - 1
        BY <3>4 DEF Doomed
      <4>2. PICK d \in u.dirs : Step(u.at, d) = c /\ X[c] <= u.level - 1
        BY <4>1
      <4>3. u # e
        <5>1. SUFFICES ASSUME u = e PROVE FALSE
          OBVIOUS
        <5>2. c \in D
          BY <1>4, <4>2, <5>1
        <5>3. d \in Dim
          BY <3>1, <4>2, <5>1, <5>2 DEF Dims
        <5>4. Y[c] = 0
          BY <1>6, <4>2, <5>1, <5>3
        <5>. QED  BY <3>1, <5>4
      <4>4. u \in ndec
        BY <1>10, <4>3
      <4>. QED  BY <3>1, <4>2, <4>4 DEF Doomed
    <3>5. CASE Doomed(X, dec, c)
      BY <3>4, <3>5
    <3>6. CASE ~Doomed(X, dec, c)
      <4>1. Lets(b, c)
        BY <3>2, <3>6
      <4>2. PICK d \in AllDirs : Step(c, d) \in Cells
                    /\ Held(b, sky, X, Step(c, d)) >= X[c] + Price(b, c)
        BY <3>2, <3>6
      <4>3. CASE Held(b, sky, Y, Step(c, d)) = Held(b, sky, X, Step(c, d))
        BY <3>1, <4>1, <4>2, <4>3
      <4>4. CASE Held(b, sky, Y, Step(c, d)) # Held(b, sky, X, Step(c, d))
        BY <3>3, <4>1, <4>2, <4>4
      <4>. QED  BY <4>3, <4>4
    <3>. QED  BY <3>5, <3>6
  <2>. QED  BY <2>1 DEF DecGround
<1>14. DecSpread(b, sky, D, Y, ndec, ninc)
  <2>1. ASSUME NEW c \in D, Lets(b, c), NEW d \in AllDirs, Step(c, d) \in Cells
        PROVE \/ Held(b, sky, Y, c) >= Y[Step(c, d)] - Price(b, c)
              \/ Promised(Y, ninc, c, d)
              \/ Reviewed(ndec, c, d)
    <3>. DEFINE a == Step(c, d)
    <3>0. c \in Cells /\ Back[d] \in AllDirs /\ Back[Back[d]] = d /\ Step(a, Back[d]) = c
      BY <1>0, <2>1, BackDir, StepBack
    <3>1. /\ X[a] \in 0..MaxLevel /\ Y[a] \in 0..MaxLevel /\ Price(b, c) \in 1..MaxLevel
          /\ X[c] \in 0..MaxLevel /\ Y[c] \in 0..MaxLevel /\ Source(b, sky, c) \in 0..MaxLevel
          /\ Held(b, sky, Y, c) \in 0..MaxLevel
      <4>1. /\ X[a] \in 0..MaxLevel /\ Y[a] \in 0..MaxLevel /\ Price(b, c) \in 1..MaxLevel
            /\ X[c] \in 0..MaxLevel /\ Y[c] \in 0..MaxLevel /\ Source(b, sky, c) \in 0..MaxLevel
        BY <1>2, <1>7, <2>1, <3>0
      <4>. QED  BY <4>1 DEF Held, Larger
    <3>2. CASE Y[a] = 0
      <4>1. Held(b, sky, Y, c) >= Y[a] - Price(b, c)
        BY <3>1, <3>2, <1>0
      <4>. QED  BY <4>1
    <3>3. CASE Y[a] # 0
      <4>1. Y[a] = X[a]
        BY <1>7, <2>1, <3>3
      <4>2. \/ Held(b, sky, X, c) >= X[a] - Price(b, c)
            \/ Promised(X, inc, c, d)
            \/ Reviewed(dec, c, d)
        BY <2>1 DEF DecParts, DecSpread
      <4>3. CASE Held(b, sky, X, c) >= X[a] - Price(b, c)
        <5>1. CASE Held(b, sky, Y, c) = Held(b, sky, X, c)
          BY <4>1, <4>3, <5>1
        <5>2. CASE Held(b, sky, Y, c) # Held(b, sky, X, c)
          <6>1. Y[c] # X[c]
            BY <5>2 DEF Held
          <6>2. PICK g \in Dim : /\ c = Step(e.at, g)
                                 /\ Entry(c, X[c], AllDirs \ {Back[g]}) \in ndec
            BY <1>9, <3>0, <5>2, <6>1
          <6>3. CASE d # Back[g]
            <7>. DEFINE u == Entry(c, X[c], AllDirs \ {Back[g]})
            <7>1. u.at = c /\ u.dirs = AllDirs \ {Back[g]} /\ u \in ndec
              BY <6>2 DEF Entry
            <7>. HIDE DEF u
            <7>2. Reviewed(ndec, c, d)
              BY <2>1, <6>3, <7>1 DEF Reviewed
            <7>. QED  BY <7>2
          <6>4. CASE d = Back[g]
            <7>1. a = e.at /\ Back[d] = g /\ g \in e.dirs
              BY <1>1, <1>5, <3>0, <6>2, <6>4, StepBack, BackDir
            <7>2. Dim # {} /\ X[e.at] # 0
              BY <3>3, <4>1, <6>2, <7>1
            <7>3. /\ X[e.at] = MaxLevel
                  /\ \E u \in inc : u.at = e.at /\ u.level = MaxLevel /\ e.dirs \subseteq u.dirs
              BY <1>8, <7>2
            <7>4. PICK u \in inc : u.at = e.at /\ u.level = MaxLevel /\ e.dirs \subseteq u.dirs
              BY <7>3
            <7>5. u \in ninc /\ u.at = Step(c, d) /\ Back[d] \in u.dirs /\ u.level = Y[Step(c, d)]
              BY <1>10, <4>1, <7>1, <7>3, <7>4
            <7>6. Promised(Y, ninc, c, d)
              BY <7>5 DEF Promised
            <7>. QED  BY <7>6
          <6>. QED  BY <6>3, <6>4
        <5>. QED  BY <5>1, <5>2
      <4>4. CASE Promised(X, inc, c, d)
        <5>1. Promised(Y, ninc, c, d)
          BY <1>10, <4>1, <4>4 DEF Promised
        <5>. QED  BY <5>1
      <4>5. CASE Reviewed(dec, c, d)
        <5>1. PICK u \in dec : u.at = c /\ d \in u.dirs
          BY <4>5 DEF Reviewed
        <5>2. CASE u # e
          <6>1. u \in ndec
            BY <1>10, <5>2
          <6>2. Reviewed(ndec, c, d)
            BY <5>1, <6>1 DEF Reviewed
          <6>. QED  BY <6>2
        <5>3. CASE u = e
          <6>1. e.at = c /\ d \in e.dirs /\ a = Step(e.at, d) /\ a \in D
            BY <1>4, <2>1, <5>1, <5>3
          <6>2. d \notin Dim
            BY <1>6, <2>1, <3>3, <6>1
          <6>3. X[a] > 0
            BY <3>1, <3>3, <4>1
          <6>4. Entry(a, X[a], {Back[d]}) \in ninc
            BY <6>1, <6>2, <6>3 DEF DecTurn
          <6>. DEFINE v == Entry(a, X[a], {Back[d]})
          <6>5. v \in ninc /\ v.at = a /\ v.level = Y[a] /\ Back[d] \in v.dirs
            BY <4>1, <6>4 DEF Entry
          <6>. HIDE DEF v
          <6>6. Promised(Y, ninc, c, d)
            BY <6>5 DEF Promised
          <6>. QED  BY <6>6
        <5>. QED  BY <5>2, <5>3
      <4>. QED  BY <4>2, <4>3, <4>4, <4>5
    <3>. QED  BY <3>2, <3>3
  <2>. QED  BY <2>1 DEF DecSpread
<1>15. DecDark(b, sky, Y, ndec, ninc)
  <2>1. ASSUME NEW u \in ndec
        PROVE  \/ Y[u.at] = 0
               \/ u.level <= 1
               \/ /\ Y[u.at] = MaxLevel /\ Source(b, sky, u.at) = MaxLevel
                  /\ \E v \in ninc : v.at = u.at /\ v.level = MaxLevel /\ u.dirs \subseteq v.dirs
    <3>1. CASE u \in dec
      <4>1. u.at \in Cells
        BY <1>0, <3>1 DEF Entries
      <4>2. \/ X[u.at] = 0
            \/ u.level <= 1
            \/ /\ X[u.at] = MaxLevel /\ Source(b, sky, u.at) = MaxLevel
               /\ \E v \in inc : v.at = u.at /\ v.level = MaxLevel /\ u.dirs \subseteq v.dirs
        BY <3>1 DEF DecParts, DecDark
      <4>3. X[u.at] = 0 => Y[u.at] = 0
        BY <1>7, <4>1
      <4>4. X[u.at] = MaxLevel => Y[u.at] = MaxLevel
        BY <1>0, <1>7, <4>1
      <4>. QED  BY <1>10, <4>2, <4>3, <4>4
    <3>2. CASE u \notin dec
      <4>1. PICK d \in Dim : u = Entry(Step(e.at, d), X[Step(e.at, d)], AllDirs \ {Back[d]})
        BY <3>2 DEF DecTurn
      <4>2. u.at = Step(e.at, d)
        BY <4>1 DEF Entry
      <4>3. Y[u.at] = 0
        BY <1>5, <1>6, <4>2
      <4>. QED  BY <4>3
    <3>. QED  BY <3>1, <3>2
  <2>. QED  BY <2>1 DEF DecDark
<1>16. EmitsRight(b, sky, ninc)
  <2>1. ASSUME NEW u \in ninc, u.emit PROVE u.dirs = AllDirs /\ u.level = Source(b, sky, u.at)
    <3>1. CASE u \in inc
      BY <2>1, <3>1 DEF DecParts, EmitsRight
    <3>2. CASE u \notin inc
      <4>1. PICK d \in Dim : u = FromEmission(Step(e.at, d), Lights(b, sky, Step(e.at, d)))
        BY <2>1, <3>2 DEF DecTurn
      <4>2. /\ u.at = Step(e.at, d) /\ u.dirs = AllDirs
            /\ u.level = Lights(b, sky, Step(e.at, d))
        BY <4>1 DEF FromEmission
      <4>. QED  BY <1>5, <4>2
    <3>. QED  BY <3>1, <3>2
  <2>. QED  BY <2>1 DEF EmitsRight
<1>17. SourcesKept(b, sky, Y, ninc)
  <2>1. ASSUME NEW c \in Cells
        PROVE  Y[c] >= Source(b, sky, c) \/ \E u \in ninc : u.at = c /\ u.emit
    <3>1. X[c] >= Source(b, sky, c) \/ \E u \in inc : u.at = c /\ u.emit
      BY DEF DecParts, SourcesKept
    <3>2. CASE \E u \in inc : u.at = c /\ u.emit
      BY <1>10, <3>2
    <3>3. CASE X[c] >= Source(b, sky, c)
      <4>1. CASE Y[c] = X[c]
        BY <3>3, <4>1
      <4>2. CASE Y[c] # X[c]
        <5>1. PICK d \in Dim : Step(e.at, d) = c
          BY <1>7, <4>2
        <5>2. Lights(b, sky, Step(e.at, d)) = Source(b, sky, c)
          BY <1>5, <5>1
        <5>3. CASE Source(b, sky, c) = 0
          BY <1>0, <1>7, <5>3
        <5>4. CASE Source(b, sky, c) # 0
          <6>1. Lights(b, sky, Step(e.at, d)) > 0
            BY <1>2, <5>2, <5>4
          <6>2. FromEmission(Step(e.at, d), Lights(b, sky, Step(e.at, d))) \in ninc
            BY <6>1 DEF DecTurn
          <6>. DEFINE u == FromEmission(Step(e.at, d), Lights(b, sky, Step(e.at, d)))
          <6>3. u \in ninc /\ u.at = c /\ u.emit
            BY <5>1, <6>2 DEF FromEmission
          <6>. HIDE DEF u
          <6>. QED  BY <6>3
        <5>. QED  BY <5>3, <5>4
      <4>. QED  BY <4>1, <4>2
    <3>. QED  BY <3>1, <3>2, <3>3
  <2>. QED  BY <2>1 DEF SourcesKept
<1>. QED  BY <1>11, <1>12, <1>13, <1>14, <1>15, <1>16, <1>17 DEF DecParts

-----------------------------------------------------------------------------
(* The increases of a relight.                                             *)

\* What holds between two increases.
IncSpread(b, sky, D, X, inc) ==
    \A c \in D : Lets(b, c) => \A d \in AllDirs : Step(c, d) \in Cells =>
        \/ Held(b, sky, X, c) >= X[Step(c, d)] - Price(b, c)
        \/ Promised(X, inc, c, d)
IncParts(b, sky, D, T, X, inc) ==
    /\ \A c \in Cells : X[c] <= T[c]
    /\ IncSpread(b, sky, D, X, inc)
    /\ EmitsRight(b, sky, inc)
    /\ SourcesKept(b, sky, X, inc)
IncInv(b, sky, D, T, w) ==
    /\ w \in Works(D)
    /\ IncParts(b, sky, D, T, Whole(w.lit, T), Among(w.inc))

\* The light of c once e has lit its own cell, if it is an emission.
Own(X, e, c) == IF c = e.at /\ e.emit /\ X[c] < e.level THEN e.level ELSE X[c]
\* The directions in which increase e raises.
Ups(b, D, X, e) ==
    {d \in e.dirs : /\ Own(X, e, e.at) = e.level
                    /\ Step(e.at, d) \in D
                    /\ Lets(b, Step(e.at, d))
                    /\ e.level - Price(b, Step(e.at, d)) > Own(X, e, Step(e.at, d))}

\* One increase, e, as seen from the lighting of the world.
IncTurn(b, D, e, X, inc, Y, ninc) ==
    /\ \A c \in Cells : Y[c] = IF \E d \in Ups(b, D, X, e) : Step(e.at, d) = c
                               THEN e.level - Price(b, c) ELSE Own(X, e, c)
    /\ \A d \in Ups(b, D, X, e) :
           e.level - Price(b, Step(e.at, d)) > 1 =>
               Entry(Step(e.at, d), e.level - Price(b, Step(e.at, d)), AllDirs \ {Back[d]})
                   \in ninc
    /\ \A u \in inc : u = e \/ u \in ninc
    /\ \A u \in ninc : u \in inc \/ ~u.emit

\* What Increase does.
LEMMA IncIs ==
  ASSUME NEW b \in [Cells -> States], NEW D, D \subseteq Cells,
         NEW T, NEW w \in Works(D), w.inc # <<>>
  PROVE  LET e == Head(w.inc)
             q == Increase(b, [w EXCEPT !.inc = Tail(@)], e)
         IN /\ e \in Entries(D) /\ e \in Among(w.inc) /\ Among(w.inc) \subseteq Entries(D)
            /\ q \in Works(D) /\ q.dec = w.dec
            /\ IncTurn(b, D, e, Whole(w.lit, T), Among(w.inc), Whole(q.lit, T), Among(q.inc))
            /\ Len(q.inc) <= Len(w.inc) + 3 /\ Len(q.inc) \in Nat /\ Len(w.inc) \in Nat
            /\ \A c \in D : w.lit[c] <= q.lit[c]
            /\ Len(q.inc) < Len(w.inc) \/ \E c \in D : w.lit[c] < q.lit[c]
<1>. DEFINE e == Head(w.inc)
            w1 == [w EXCEPT !.inc = Tail(@)]
            lift == Lifted(w1, e)
            lit == lift.lit
            left(d) == e.level - Cost(b[Step(e.at, d)])
            raised  == {d \in e.dirs : /\ Step(e.at, d) \in DOMAIN lit
                                       /\ Filter[b[Step(e.at, d)]] < Opaque
                                       /\ left(d) > lit[Step(e.at, d)]}
            far == {d \in raised : left(d) > 1}
            f == [d \in far |-> Entry(Step(e.at, d), left(d), AllDirs \ {Back[d]})]
            next == [c \in DOMAIN lit |->
                    IF \E d \in raised : Step(e.at, d) = c
                    THEN left(CHOOSE d \in raised : Step(e.at, d) = c) ELSE lit[c]]
            q == Increase(b, w1, e)
<1>1. /\ w1 \in Works(D) /\ w1.lit = w.lit /\ w1.dec = w.dec /\ w1.inc = Tail(w.inc)
      /\ w.lit \in [D -> 0..MaxLevel] /\ w.dec \in Seq(Entries(D)) /\ w.inc \in Seq(Entries(D))
      /\ e \in Entries(D) /\ Tail(w.inc) \in Seq(Entries(D)) /\ Len(Tail(w.inc)) = Len(w.inc) - 1
      /\ Len(w.inc) \in Nat \ {0} /\ Among(w.inc) \subseteq Entries(D)
      /\ Among(w.inc) = {e} \union Among(Tail(w.inc))
  <2>1. w \in [lit: [D -> 0..MaxLevel], dec: Seq(Entries(D)), inc: Seq(Entries(D))]
    BY DEF Works
  <2>2. w1.lit = w.lit
    BY <2>1
  <2>3. w1.dec = w.dec
    BY <2>1
  <2>4. w1.inc = Tail(w.inc)
    BY <2>1
  <2>5. w.lit \in [D -> 0..MaxLevel] /\ w.dec \in Seq(Entries(D)) /\ w.inc \in Seq(Entries(D))
    BY <2>1
  <2>6. /\ e \in Entries(D) /\ Tail(w.inc) \in Seq(Entries(D))
        /\ Len(Tail(w.inc)) = Len(w.inc) - 1
        /\ Len(w.inc) \in Nat \ {0} /\ Among(w.inc) \subseteq Entries(D)
        /\ Among(w.inc) = {e} \union Among(Tail(w.inc))
    BY <2>5, AmongHead
  <2>7. w1 \in [lit: [D -> 0..MaxLevel], dec: Seq(Entries(D)), inc: Seq(Entries(D))]
    <3>. DEFINE t == Tail(w.inc)
    <3>1. t \in Seq(Entries(D)) /\ w1 = [w EXCEPT !.inc = t]
      BY <2>6
    <3>. HIDE DEF t, w1
    <3>. QED  BY <2>1, <3>1
  <2>. HIDE DEF w1, e
  <2>. QED  BY <2>2, <2>3, <2>4, <2>5, <2>6, <2>7 DEF Works
<1>. HIDE DEF e, w1
<1>2. e.at \in D /\ e.level \in 0..MaxLevel /\ e.dirs \subseteq AllDirs /\ MaxLevel \in Nat
  BY <1>1, LightAssumption DEF Entries
<1>3. /\ lit \in [D -> 0..MaxLevel] /\ DOMAIN lit = D
      /\ \A c \in D : lit[c] = IF c = e.at /\ e.emit /\ w.lit[c] < e.level
                               THEN e.level ELSE w.lit[c]
      /\ lift.dec = w.dec /\ lift.inc = Tail(w.inc) /\ lift \in Works(D)
  <2>1. w1 \in [lit: [D -> 0..MaxLevel], dec: Seq(Entries(D)), inc: Seq(Entries(D))]
    BY <1>1 DEF Works
  <2>2. CASE e.emit /\ w1.lit[e.at] < e.level
    <3>. DEFINE v == [w1.lit EXCEPT ![e.at] = e.level]
    <3>1. v \in [D -> 0..MaxLevel]
      BY <1>1, <1>2
    <3>2. lift = [w1 EXCEPT !.lit = v]
      <4>1. lift = [w1 EXCEPT !.lit[e.at] = e.level]
        BY <2>2 DEF Lifted
      <4>2. [w1 EXCEPT !.lit[e.at] = e.level] = [w1 EXCEPT !.lit = v]
        OBVIOUS
      <4>. QED  BY <4>1, <4>2
    <3>3. \A c \in D : v[c] = IF c = e.at THEN e.level ELSE w.lit[c]
      BY <1>1
    <3>. HIDE DEF v, lift
    <3>4. lift.lit = v /\ lift.dec = w1.dec /\ lift.inc = w1.inc
      BY <2>1, <3>2
    <3>5. lift \in [lit: [D -> 0..MaxLevel], dec: Seq(Entries(D)), inc: Seq(Entries(D))]
      BY <2>1, <3>1, <3>2
    <3>6. \A c \in D : v[c] = IF c = e.at /\ e.emit /\ w.lit[c] < e.level
                               THEN e.level ELSE w.lit[c]
      BY <1>1, <2>2, <3>3
    <3>. QED  BY <1>1, <3>1, <3>4, <3>5, <3>6 DEF Works
  <2>3. CASE ~(e.emit /\ w1.lit[e.at] < e.level)
    <3>1. lift = w1
      BY <2>3 DEF Lifted
    <3>. HIDE DEF lift
    <3>. QED  BY <1>1, <2>3, <3>1
  <2>. QED  BY <2>2, <2>3
<1>. HIDE DEF lift, lit
<1>4. ASSUME NEW d \in raised
      PROVE  /\ d \in AllDirs /\ Step(e.at, d) \in D /\ Step(e.at, d) \in Cells
             /\ left(d) = e.level - Price(b, Step(e.at, d)) /\ Lets(b, Step(e.at, d))
             /\ left(d) > lit[Step(e.at, d)] /\ left(d) \in 0..MaxLevel
             /\ lit[Step(e.at, d)] \in 0..MaxLevel
  <2>1. d \in e.dirs /\ Step(e.at, d) \in D /\ left(d) > lit[Step(e.at, d)]
        /\ Lets(b, Step(e.at, d)) /\ left(d) = e.level - Price(b, Step(e.at, d))
    BY <1>3 DEF Lets, Price
  <2>2. Price(b, Step(e.at, d)) \in 1..MaxLevel
    <3>1. TRUE \in BOOLEAN /\ Step(e.at, d) \in Cells
      BY <2>1
    <3>. QED  BY <3>1, LightTypes
  <2>3. lit[Step(e.at, d)] \in 0..MaxLevel
    BY <1>3, <2>1
  <2>4. left(d) \in 0..MaxLevel
    <3>. DEFINE i == Price(b, Step(e.at, d))  j == lit[Step(e.at, d)]  m == left(d)
    <3>1. i \in 1..MaxLevel /\ j \in 0..MaxLevel /\ m = e.level - i /\ m > j
      BY <2>1, <2>2, <2>3
    <3>. HIDE DEF i, j, m
    <3>2. m \in 0..MaxLevel
      BY <1>2, <3>1
    <3>. QED  BY <3>2 DEF m
  <2>. QED  BY <1>2, <2>1, <2>3, <2>4
<1>5. ASSUME NEW d \in e.dirs, Step(e.at, d) \in D, Lets(b, Step(e.at, d)),
             e.level - Price(b, Step(e.at, d)) > lit[Step(e.at, d)]
      PROVE  d \in raised
  BY <1>3, <1>5 DEF Lets, Price
<1>6. DOMAIN f = far /\ far \subseteq raised
  OBVIOUS
<1>7. \A d \in raised : \A c : Step(e.at, d) = c => left(d) = e.level - Price(b, c)
  BY <1>4
<1>8. \A c \in D : next[c] = IF \E d \in raised : Step(e.at, d) = c
                             THEN e.level - Price(b, c) ELSE lit[c]
  <2>1. ASSUME NEW c \in D, NEW d \in raised, Step(e.at, d) = c
        PROVE  next[c] = e.level - Price(b, c)
    <3>1. next[c] = left(CHOOSE g \in raised : Step(e.at, g) = c)
      BY <1>3, <2>1
    <3>. DEFINE g == CHOOSE g \in raised : Step(e.at, g) = c
    <3>. HIDE DEF raised
    <3>2. g \in raised /\ Step(e.at, g) = c
      BY <2>1
    <3>. HIDE DEF g, left
    <3>3. left(g) = e.level - Price(b, c)
      BY <1>7, <3>2
    <3>. QED  BY <3>1, <3>3 DEF g
  <2>2. ASSUME NEW c \in D, ~ \E d \in raised : Step(e.at, d) = c PROVE next[c] = lit[c]
    BY <1>3, <2>2
  <2>. HIDE DEF next, raised
  <2>. QED  BY <2>1, <2>2
<1>9. next \in [D -> 0..MaxLevel] /\ \A c \in D : lit[c] <= next[c]
  <2>1. next = [c \in D |-> next[c]]
    BY <1>3
  <2>2. ASSUME NEW c \in D PROVE next[c] \in 0..MaxLevel /\ lit[c] <= next[c]
    <3>1. CASE \E d \in raised : Step(e.at, d) = c
      <4>1. PICK d \in raised : Step(e.at, d) = c
        BY <3>1
      <4>2. next[c] = left(d) /\ left(d) \in 0..MaxLevel /\ left(d) > lit[c]
            /\ lit[c] \in 0..MaxLevel
        <5>. HIDE DEF next, raised, left
        <5>. QED  BY <1>4, <1>7, <1>8, <4>1
      <4>. HIDE DEF next, left
      <4>. QED  BY <4>2
    <3>2. CASE ~ \E d \in raised : Step(e.at, d) = c
      <4>1. next[c] = lit[c] /\ lit[c] \in 0..MaxLevel
        <5>. HIDE DEF next, raised
        <5>. QED  BY <1>3, <1>8, <3>2
      <4>. HIDE DEF next
      <4>. QED  BY <4>1
    <3>. QED  BY <3>1, <3>2
  <2>. HIDE DEF next
  <2>. QED  BY <2>1, <2>2
<1>10. \A d \in far : f[d] \in Entries(D)
  <2>1. ASSUME NEW d \in far PROVE f[d] \in Entries(D)
    <3>1. d \in raised /\ f[d] = Entry(Step(e.at, d), left(d), AllDirs \ {Back[d]})
      OBVIOUS
    <3>2. Step(e.at, d) \in D /\ left(d) \in 0..MaxLevel
      BY <1>4, <3>1
    <3>. HIDE DEF left, f
    <3>. QED  BY <3>1, <3>2 DEF Entry, Entries
  <2>. QED  BY <2>1
<1>. HIDE DEF f
<1>11. /\ Queued(f) \in Seq(Entries(D)) /\ Len(Queued(f)) \in 0..4
       /\ DOMAIN f = {} => Len(Queued(f)) = 0
       /\ Among(Queued(f)) = {f[d] : d \in DOMAIN f}
  <2>1. DOMAIN f \subseteq AllDirs /\ \A d \in DOMAIN f : f[d] \in Entries(D)
    BY <1>4, <1>6, <1>10
  <2>. QED  BY <2>1, QueuedIs, SMTT(30)
<1>12. /\ Tail(w.inc) \o Queued(f) \in Seq(Entries(D))
       /\ Len(Tail(w.inc) \o Queued(f)) = Len(Tail(w.inc)) + Len(Queued(f))
       /\ Among(Tail(w.inc) \o Queued(f)) = Among(Tail(w.inc)) \union Among(Queued(f))
  <2>. DEFINE s == Tail(w.inc)  t == Queued(f)
  <2>1. s \in Seq(Entries(D)) /\ t \in Seq(Entries(D))
    BY <1>1, <1>11
  <2>. HIDE DEF s, t
  <2>2. /\ s \o t \in Seq(Entries(D)) /\ Len(s \o t) = Len(s) + Len(t)
        /\ Among(s \o t) = Among(s) \union Among(t)
    BY <2>1, AmongConcat
  <2>. QED  BY <2>2 DEF s, t
<1>13. PropagateIncrease(b, lift, e)
         = [lift EXCEPT !.lit = next, !.inc = Tail(w.inc) \o Queued(f)]
  <2>1. PropagateIncrease(b, lift, e)
          = [lift EXCEPT !.lit = next, !.inc = @ \o Queued(f)]
    BY DEF PropagateIncrease, lit, f
  <2>2. [lift EXCEPT !.lit = next, !.inc = @ \o Queued(f)]
          = [lift EXCEPT !.lit = next, !.inc = lift.inc \o Queued(f)]
    OBVIOUS
  <2>3. lift.inc = Tail(w.inc)
    BY <1>3
  <2>. QED  BY <2>1, <2>2, <2>3
<1>. HIDE DEF next, raised, left
<1>. DEFINE X == Whole(w.lit, T)  Y == Whole(q.lit, T)
<1>14. /\ \A c \in D : Own(X, e, c) = lit[c] /\ c \in Cells
       /\ \A c \in Cells \ D : Own(X, e, c) = T[c]
       /\ \A c \in D : w.lit[c] <= lit[c] /\ w.lit[c] \in 0..MaxLevel /\ lit[c] \in 0..MaxLevel
  <2>1. /\ \A c \in D : X[c] = w.lit[c] /\ c \in Cells
        /\ \A c \in Cells \ D : X[c] = T[c]
    BY <1>1 DEF Whole
  <2>2. \A c \in D : w.lit[c] \in 0..MaxLevel /\ lit[c] \in 0..MaxLevel
    BY <1>1, <1>3
  <2>3. \A c \in D : w.lit[c] <= lit[c]
    BY <1>2, <1>3, <2>2
  <2>. HIDE DEF X
  <2>4. \A c \in D : Own(X, e, c) = lit[c]
    BY <1>3, <2>1 DEF Own
  <2>5. \A c \in Cells \ D : Own(X, e, c) = T[c]
    BY <1>2, <2>1 DEF Own
  <2>. QED  BY <2>1, <2>2, <2>3, <2>4, <2>5
<1>15. lit[e.at] = e.level => Ups(b, D, X, e) = raised
  <2>1. \A d \in raised : /\ d \in e.dirs /\ Step(e.at, d) \in D /\ Lets(b, Step(e.at, d))
                           /\ e.level - Price(b, Step(e.at, d)) > lit[Step(e.at, d)]
    <3>1. raised \subseteq e.dirs
      BY DEF raised
    <3>. QED  BY <1>4, <3>1
  <2>. HIDE DEF X
  <2>2. lit[e.at] = e.level => Ups(b, D, X, e) \subseteq raised
    BY <1>5, <1>14 DEF Ups
  <2>3. lit[e.at] = e.level => raised \subseteq Ups(b, D, X, e)
    BY <1>2, <1>14, <2>1 DEF Ups
  <2>. QED  BY <2>2, <2>3
<1>16. lit[e.at] # e.level => Ups(b, D, X, e) = {}
  <2>. HIDE DEF X
  <2>. QED  BY <1>2, <1>14 DEF Ups
<1>17. /\ w1.lit = w.lit /\ w1.inc = Tail(w.inc)
       /\ q = IF lit[e.at] = e.level THEN PropagateIncrease(b, lift, e) ELSE lift
  BY <1>1 DEF Increase, lift, lit
<1>18. CASE lit[e.at] = e.level
  <2>. DEFINE t == Tail(w.inc) \o Queued(f)
  <2>1. q = [lift EXCEPT !.lit = next, !.inc = t]
    BY <1>13, <1>17, <1>18
  <2>2. t \in Seq(Entries(D)) /\ lift \in [lit: [D -> 0..MaxLevel], dec: Seq(Entries(D)), inc: Seq(Entries(D))]
    BY <1>3, <1>12 DEF Works
  <2>. HIDE DEF t, q
  <2>3. q.lit = next /\ q.dec = lift.dec /\ q.inc = t
    BY <2>1, <2>2
  <2>4. q \in Works(D)
    BY <1>9, <2>1, <2>2 DEF Works
  <2>5. /\ \A c \in D : Y[c] = next[c]
        /\ \A c \in Cells \ D : Y[c] = T[c]
    BY <1>9, <2>3 DEF Whole
  <2>. DEFINE m == Len(q.inc)  n == Len(w.inc)  i == Len(Queued(f))
  <2>6. m = n - 1 + i /\ i \in 0..4 /\ n \in Nat \ {0}
    BY <1>1, <1>11, <1>12, <2>3 DEF t
  <2>7. i = 0 \/ \E c \in D : w.lit[c] < next[c]
    <3>1. CASE raised = {}
      BY <3>1, <1>6, <1>11
    <3>2. CASE raised # {}
      <4>1. PICK d \in raised : TRUE
        BY <3>2
      <4>. DEFINE c == Step(e.at, d)
      <4>2. c \in D /\ next[c] > lit[c] /\ lit[c] \in 0..MaxLevel
        BY <1>4, <1>7, <1>8, <4>1
      <4>3. w.lit[c] <= lit[c] /\ w.lit[c] \in 0..MaxLevel /\ next[c] \in 0..MaxLevel
        BY <1>9, <1>14, <4>2
      <4>. HIDE DEF c
      <4>4. w.lit[c] < next[c]
        BY <4>2, <4>3
      <4>. QED  BY <4>2, <4>4
    <3>. QED  BY <3>1, <3>2
  <2>8. \A c \in D : w.lit[c] <= next[c]
    <3>1. \A c \in D : next[c] \in 0..MaxLevel
      BY <1>9
    <3>. QED  BY <1>9, <1>14, <3>1
  <2>9. m <= n + 3 /\ m \in Nat /\ n \in Nat /\ (i = 0 => m < n)
    <3>. HIDE DEF m, n, i
    <3>. QED  BY <2>6
  <2>. HIDE DEF X, Y
  <2>10. IncTurn(b, D, e, X, Among(w.inc), Y, Among(q.inc))
    <3>1. Ups(b, D, X, e) = raised
      BY <1>15, <1>18
    <3>2. Among(q.inc) = Among(Tail(w.inc)) \union {f[d] : d \in far}
      BY <1>6, <1>11, <1>12, <2>3 DEF t
    <3>3. \A c \in Cells : Y[c] = IF \E d \in raised : Step(e.at, d) = c
                               THEN e.level - Price(b, c) ELSE Own(X, e, c)
      <4>1. \A d \in raised : Step(e.at, d) \in D
        BY <1>4
      <4>. QED  BY <1>8, <1>14, <2>5, <4>1
    <3>4. \A d \in far : f[d] = Entry(Step(e.at, d), left(d), AllDirs \ {Back[d]})
                         /\ left(d) = e.level - Price(b, Step(e.at, d))
      <4>1. \A d \in far : f[d] = Entry(Step(e.at, d), left(d), AllDirs \ {Back[d]})
        BY DEF f
      <4>. QED  BY <1>4, <1>6, <4>1
    <3>5. \A d \in raised : e.level - Price(b, Step(e.at, d)) > 1 => d \in far
      BY <1>4
    <3>6. \A d \in far : ~(f[d].emit)
      <4>1. ASSUME NEW d \in far PROVE ~(f[d].emit)
        <5>1. f[d] = Entry(Step(e.at, d), left(d), AllDirs \ {Back[d]})
          BY <3>4
        <5>2. Entry(Step(e.at, d), left(d), AllDirs \ {Back[d]}).emit = FALSE
          BY DEF Entry
        <5>. QED  BY <5>1, <5>2
      <4>. QED  BY <4>1
    <3>7. \A u \in Among(w.inc) : u = e \/ u \in Among(q.inc)
      BY <1>1, <3>2
    <3>8. \A u \in Among(q.inc) : u \in Among(w.inc) \/ ~u.emit
      BY <1>1, <3>2, <3>6
    <3>9. \A d \in raised : e.level - Price(b, Step(e.at, d)) > 1 =>
               Entry(Step(e.at, d), e.level - Price(b, Step(e.at, d)), AllDirs \ {Back[d]})
                   \in Among(q.inc)
      BY <3>2, <3>4, <3>5
    <3>. QED  BY <3>1, <3>3, <3>7, <3>8, <3>9 DEF IncTurn
  <2>11. e \in Among(w.inc)
    BY <1>1
  <2>. QED  BY <1>1, <1>3, <2>3, <2>4, <2>7, <2>8, <2>9, <2>10, <2>11 DEF e, w1, q, X, Y
<1>19. CASE lit[e.at] # e.level
  <2>1. q = lift
    BY <1>17, <1>19
  <2>. HIDE DEF q
  <2>2. q.lit = lit /\ q.dec = w.dec /\ q.inc = Tail(w.inc) /\ q \in Works(D)
    BY <1>3, <2>1 DEF lit
  <2>3. /\ \A c \in D : Y[c] = lit[c]
        /\ \A c \in Cells \ D : Y[c] = T[c]
    BY <1>3, <2>2 DEF Whole
  <2>. DEFINE m == Len(q.inc)  n == Len(w.inc)
  <2>4. m = n - 1 /\ n \in Nat \ {0}
    BY <1>1, <2>2
  <2>5. m <= n + 3 /\ m \in Nat /\ n \in Nat /\ m < n
    <3>. HIDE DEF m, n
    <3>. QED  BY <2>4
  <2>. HIDE DEF X, Y
  <2>6. IncTurn(b, D, e, X, Among(w.inc), Y, Among(q.inc))
    <3>1. Ups(b, D, X, e) = {}
      BY <1>16, <1>19
    <3>2. \A c \in Cells : Y[c] = Own(X, e, c)
      BY <1>14, <2>3
    <3>3. Among(w.inc) = {e} \union Among(q.inc)
      BY <1>1, <2>2
    <3>. QED  BY <3>1, <3>2, <3>3 DEF IncTurn
  <2>7. e \in Among(w.inc)
    BY <1>1
  <2>. QED  BY <1>1, <1>14, <2>2, <2>5, <2>6, <2>7 DEF e, w1, q, X, Y
<1>. QED  BY <1>18, <1>19


\* An increase keeps what the increases rest on.
LEMMA IncKeeps ==
  ASSUME NEW b \in [Cells -> States], NEW sky \in BOOLEAN, NEW D, D \subseteq Cells,
         NEW T \in [Cells -> 0..MaxLevel], Spreads(b, sky, T),
         NEW X \in [Cells -> 0..MaxLevel], NEW inc, inc \subseteq Entries(D),
         NEW e, e \in inc, NEW Y, NEW ninc,
         IncTurn(b, D, e, X, inc, Y, ninc),
         IncParts(b, sky, D, T, X, inc)
  PROVE  IncParts(b, sky, D, T, Y, ninc)
<1>. DEFINE Up == Ups(b, D, X, e)
            O(c) == Own(X, e, c)
<1>1. e.at \in D /\ e.at \in Cells /\ e.level \in 0..MaxLevel /\ e.dirs \subseteq AllDirs
      /\ MaxLevel \in Nat
  BY LightAssumption DEF Entries
<1>2. ASSUME NEW c \in Cells
      PROVE  /\ X[c] \in 0..MaxLevel /\ Source(b, sky, c) \in 0..MaxLevel
             /\ Price(b, c) \in 1..MaxLevel /\ T[c] \in 0..MaxLevel
             /\ X[c] <= T[c] /\ Source(b, sky, c) <= T[c]
  <2>1. X[c] <= T[c]
    BY DEF IncParts
  <2>2. Source(b, sky, c) <= T[c]
    <3>1. T[c] >= Source(b, sky, c)
      BY DEF Spreads
    <3>2. Source(b, sky, c) \in 0..MaxLevel /\ T[c] \in 0..MaxLevel
      BY LightTypes
    <3>. QED  BY <1>1, <3>1, <3>2
  <2>. QED  BY <2>1, <2>2, LightTypes
<1>3. e.emit => e.dirs = AllDirs /\ e.level = Source(b, sky, e.at)
  BY DEF IncParts, EmitsRight
<1>4. ASSUME NEW c \in Cells
      PROVE  /\ O(c) \in 0..MaxLevel /\ X[c] <= O(c) /\ O(c) <= T[c]
             /\ O(c) # X[c] => c = e.at /\ e.emit /\ O(e.at) = e.level
  BY <1>1, <1>2, <1>3 DEF Own
<1>5. ASSUME NEW d \in Up
      PROVE  /\ d \in e.dirs /\ d \in AllDirs /\ Step(e.at, d) \in D /\ Step(e.at, d) \in Cells
             /\ O(e.at) = e.level /\ Lets(b, Step(e.at, d))
             /\ e.level - Price(b, Step(e.at, d)) > O(Step(e.at, d))
             /\ e.level - Price(b, Step(e.at, d)) \in 0..MaxLevel
             /\ e.level - Price(b, Step(e.at, d)) <= T[Step(e.at, d)]
  <2>. DEFINE a == Step(e.at, d)
  <2>1. /\ d \in e.dirs /\ a \in D /\ O(e.at) = e.level /\ Lets(b, a)
        /\ e.level - Price(b, a) > O(a)
    BY DEF Ups
  <2>2. d \in AllDirs /\ a \in Cells
    BY <1>1, <2>1
  <2>3. Step(a, Back[d]) = e.at /\ Back[d] \in AllDirs
    BY <1>1, <2>2, StepBack, BackDir
  <2>4. T[a] >= T[e.at] - Price(b, a)
    <3>. HIDE DEF a
    <3>1. T[a] >= T[Step(a, Back[d])] - Price(b, a)
      BY <1>1, <2>1, <2>2, <2>3 DEF Spreads
    <3>. QED  BY <2>3, <3>1
  <2>5. T[e.at] >= e.level /\ T[e.at] \in 0..MaxLevel
    BY <1>1, <1>2, <1>4, <2>1
  <2>6. Price(b, a) \in 1..MaxLevel /\ T[a] \in 0..MaxLevel /\ O(a) \in 0..MaxLevel
    BY <1>2, <1>4, <2>2
  <2>. HIDE DEF a, O
  <2>7. e.level - Price(b, a) \in 0..MaxLevel /\ e.level - Price(b, a) <= T[a]
    BY <1>1, <2>1, <2>4, <2>5, <2>6
  <2>. QED  BY <2>1, <2>2, <2>7 DEF a
<1>6. \A c \in Cells : Y[c] = IF \E d \in Up : Step(e.at, d) = c
                              THEN e.level - Price(b, c) ELSE O(c)
  BY DEF IncTurn
<1>. HIDE DEF Up, O
<1>7. ASSUME NEW c \in Cells
      PROVE  /\ Y[c] \in 0..MaxLevel /\ O(c) <= Y[c] /\ X[c] <= Y[c] /\ Y[c] <= T[c]
             /\ Y[c] # O(c) => \E d \in Up : Step(e.at, d) = c /\ Y[c] = e.level - Price(b, c)
  <2>1. CASE \E d \in Up : Step(e.at, d) = c
    <3>1. PICK d \in Up : Step(e.at, d) = c
      BY <2>1
    <3>2. Y[c] = e.level - Price(b, c)
      BY <1>6, <2>1
    <3>3. /\ e.level - Price(b, c) > O(c) /\ e.level - Price(b, c) \in 0..MaxLevel
          /\ e.level - Price(b, c) <= T[c]
      BY <1>5, <3>1
    <3>4. O(c) \in 0..MaxLevel /\ X[c] <= O(c) /\ X[c] \in 0..MaxLevel
      BY <1>2, <1>4
    <3>5. Y[c] > O(c) /\ Y[c] \in 0..MaxLevel /\ Y[c] <= T[c]
      BY <3>2, <3>3
    <3>6. O(c) <= Y[c] /\ X[c] <= Y[c]
      BY <3>4, <3>5
    <3>. QED  BY <3>1, <3>2, <3>5, <3>6
  <2>2. CASE ~(\E d \in Up : Step(e.at, d) = c)
    <3>1. Y[c] = O(c)
      BY <1>6, <2>2
    <3>. QED  BY <1>2, <1>4, <3>1
  <2>. QED  BY <2>1, <2>2
<1>8. ASSUME NEW c \in D, Lets(b, c), NEW g \in e.dirs, Step(e.at, g) = c, O(e.at) = e.level
      PROVE  Y[c] >= e.level - Price(b, c)
  <2>1. CASE e.level - Price(b, c) > O(c)
    <3>1. g \in Up
      BY <1>8, <2>1 DEF Ups, Up, O
    <3>2. Y[c] = e.level - Price(b, c)
      BY <1>6, <1>8, <3>1
    <3>. QED  BY <1>7, <3>2
  <2>2. CASE ~(e.level - Price(b, c) > O(c))
    BY <1>1, <1>2, <1>4, <1>7, <2>2
  <2>. QED  BY <2>1, <2>2
<1>9. ASSUME NEW c \in Cells
      PROVE  /\ Held(b, sky, Y, c) >= Y[c] /\ Held(b, sky, Y, c) \in 0..MaxLevel
             /\ Held(b, sky, Y, c) >= Held(b, sky, X, c) /\ Held(b, sky, X, c) \in 0..MaxLevel
  BY <1>2, <1>7 DEF Held, Larger
<1>10. /\ \A u \in inc : u = e \/ u \in ninc
       /\ \A u \in ninc : u \in inc \/ ~u.emit
       /\ \A d \in Up : e.level - Price(b, Step(e.at, d)) > 1 =>
               Entry(Step(e.at, d), e.level - Price(b, Step(e.at, d)), AllDirs \ {Back[d]})
                   \in ninc
  BY DEF IncTurn, Up
<1>11. IncSpread(b, sky, D, Y, ninc)
  <2>. SUFFICES ASSUME NEW c \in D, Lets(b, c), NEW d \in AllDirs, Step(c, d) \in Cells
                PROVE  \/ Held(b, sky, Y, c) >= Y[Step(c, d)] - Price(b, c)
                       \/ Promised(Y, ninc, c, d)
    BY DEF IncSpread
  <2>. DEFINE a == Step(c, d)
  <2>0. c \in Cells /\ a \in Cells /\ Step(a, Back[d]) = c /\ Back[d] \in AllDirs
    BY StepBack, BackDir
  <2>t. /\ Price(b, c) \in 1..MaxLevel /\ Y[a] \in 0..MaxLevel /\ X[a] \in 0..MaxLevel
        /\ Y[c] \in 0..MaxLevel /\ Held(b, sky, Y, c) \in 0..MaxLevel
        /\ Held(b, sky, Y, c) >= Y[c]
    BY <1>2, <1>7, <1>9, <2>0
  <2>1. ASSUME e.at = a, O(a) = e.level, Back[d] \in e.dirs, Y[a] = e.level
        PROVE  Held(b, sky, Y, c) >= Y[a] - Price(b, c)
    <3>1. Y[c] >= e.level - Price(b, c)
      BY <1>8, <2>0, <2>1
    <3>. HIDE DEF a
    <3>. QED  BY <1>1, <2>1, <2>t, <3>1
  <2>2. CASE Y[a] = X[a]
    <3>1. CASE Held(b, sky, X, c) >= X[a] - Price(b, c)
      <4>1. Held(b, sky, Y, c) >= Held(b, sky, X, c) /\ Held(b, sky, X, c) \in 0..MaxLevel
        BY <1>9, <2>0
      <4>. HIDE DEF a
      <4>2. Held(b, sky, Y, c) >= Y[a] - Price(b, c)
        BY <1>1, <2>2, <2>t, <3>1, <4>1
      <4>. QED  BY <4>2 DEF a
    <3>2. CASE Promised(X, inc, c, d)
      <4>1. PICK u \in inc : u.at = a /\ Back[d] \in u.dirs /\ u.level = X[a]
        BY <3>2 DEF Promised
      <4>2. CASE u # e
        BY <1>10, <2>2, <4>1, <4>2 DEF Promised
      <4>3. CASE u = e
        <5>1. O(a) = e.level
          BY <1>1, <1>4, <2>0, <2>2, <4>1, <4>3, <1>7 DEF O, Own
        <5>. QED  BY <2>1, <2>2, <4>1, <4>3, <5>1
      <4>. QED  BY <4>2, <4>3
    <3>3. \/ Held(b, sky, X, c) >= X[a] - Price(b, c)
          \/ Promised(X, inc, c, d)
      BY DEF IncParts, IncSpread
    <3>. QED  BY <3>1, <3>2, <3>3
  <2>3. CASE Y[a] # X[a] /\ Y[a] = O(a)
    <3>1. a = e.at /\ e.emit /\ O(e.at) = e.level
      BY <1>4, <2>0, <2>3
    <3>2. Back[d] \in e.dirs
      BY <1>3, <2>0, <3>1
    <3>. QED  BY <2>1, <2>3, <3>1, <3>2
  <2>4. CASE Y[a] # O(a)
    <3>1. PICK g \in Up : Step(e.at, g) = a /\ Y[a] = e.level - Price(b, a)
      BY <1>7, <2>0, <2>4
    <3>2. CASE Y[a] <= 1
      <4>. HIDE DEF a
      <4>1. Held(b, sky, Y, c) >= Y[a] - Price(b, c)
        BY <1>1, <2>t, <3>2
      <4>. QED  BY <4>1 DEF a
    <3>3. CASE ~(Y[a] <= 1)
      <4>1. Y[a] > 1
        BY <2>t, <3>3
      <4>2. Entry(a, Y[a], AllDirs \ {Back[g]}) \in ninc
        BY <1>10, <3>1, <4>1
      <4>3. CASE Back[d] # Back[g]
        <5>. DEFINE u == Entry(a, Y[a], AllDirs \ {Back[g]})
        <5>1. u.at = a /\ u.level = Y[a] /\ u.dirs = AllDirs \ {Back[g]}
          BY DEF Entry
        <5>2. u \in ninc /\ Back[d] \in u.dirs
          BY <2>0, <4>2, <4>3, <5>1
        <5>. HIDE DEF u
        <5>. QED  BY <5>1, <5>2 DEF Promised
      <4>4. CASE Back[d] = Back[g]
        <5>0. g \in AllDirs /\ Step(e.at, g) \in Cells /\ O(e.at) = e.level
          BY <1>5
        <5>1. Step(a, Back[g]) = e.at
          BY <1>1, <3>1, <5>0, StepBack
        <5>2. c = e.at
          BY <2>0, <4>4, <5>1
        <5>3. Y[c] >= e.level
          BY <1>7, <2>0, <5>0, <5>2
        <5>4. Price(b, a) \in 1..MaxLevel
          BY <1>2, <2>0
        <5>. HIDE DEF a
        <5>5. Held(b, sky, Y, c) >= Y[a] - Price(b, c)
          BY <1>1, <2>t, <3>1, <5>3, <5>4
        <5>. QED  BY <5>5 DEF a
      <4>. QED  BY <4>3, <4>4
    <3>. QED  BY <3>2, <3>3
  <2>. QED  BY <2>2, <2>3, <2>4
<1>12. EmitsRight(b, sky, ninc)
  BY <1>10 DEF IncParts, EmitsRight
<1>13. SourcesKept(b, sky, Y, ninc)
  <2>. SUFFICES ASSUME NEW c \in Cells
                PROVE  Y[c] >= Source(b, sky, c) \/ \E u \in ninc : u.at = c /\ u.emit
    BY DEF SourcesKept
  <2>1. CASE X[c] >= Source(b, sky, c)
    BY <1>1, <1>2, <1>7, <2>1
  <2>2. CASE \E u \in inc : u.at = c /\ u.emit
    <3>1. PICK u \in inc : u.at = c /\ u.emit
      BY <2>2
    <3>2. CASE u = e
      <4>1. O(c) >= Source(b, sky, c)
        BY <1>1, <1>2, <1>3, <3>1, <3>2 DEF O, Own
      <4>. QED  BY <1>1, <1>2, <1>4, <1>7, <4>1
    <3>3. CASE u # e
      BY <1>10, <3>1, <3>3
    <3>. QED  BY <3>2, <3>3
  <2>. QED  BY <2>1, <2>2 DEF IncParts, SourcesKept
<1>14. \A c \in Cells : Y[c] <= T[c]
  BY <1>7
<1>. QED  BY <1>11, <1>12, <1>13, <1>14 DEF IncParts

-----------------------------------------------------------------------------
(* The two loops of a relight, one after the other.                        *)

\* One turn of each loop.
Darken(b, sky, w) == PropagateDecrease(b, sky, [w EXCEPT !.dec = Tail(@)], Head(w.dec))
Brighten(b, w)    == Increase(b, [w EXCEPT !.inc = Tail(@)], Head(w.inc))

\* The cells of R that hold any light.
Shining(R, l) == {c \in R : l[c] > 0}

\* A queue of works is finite, and the light is over cells.
LEMMA WorkIs ==
  ASSUME NEW D, D \subseteq Cells, NEW w \in Works(D)
  PROVE  /\ w.lit \in [D -> 0..MaxLevel] /\ DOMAIN w.lit = D
         /\ Len(w.dec) \in Nat /\ Len(w.inc) \in Nat
         /\ Among(w.dec) \subseteq Entries(D) /\ Among(w.inc) \subseteq Entries(D)
         /\ Cardinality(Shining(D, w.lit)) \in Nat /\ IsFiniteSet(Shining(D, w.lit))
<1>1. w.lit \in [D -> 0..MaxLevel] /\ w.dec \in Seq(Entries(D)) /\ w.inc \in Seq(Entries(D))
  BY DEF Works
<1>2. \A s \in Seq(Entries(D)) : Len(s) \in Nat /\ Among(s) \subseteq Entries(D)
  BY DEF Among
<1>3. IsFiniteSet(Shining(D, w.lit))
  BY CellsFinite DEF Shining
<1>. QED  BY <1>1, <1>2, <1>3, FS_CardinalityType

\* A work's light with T around it is a lighting of the world.
LEMMA WholeIs ==
  ASSUME NEW D, D \subseteq Cells, NEW w \in Works(D), NEW T \in [Cells -> 0..MaxLevel]
  PROVE  /\ Whole(w.lit, T) \in [Cells -> 0..MaxLevel]
         /\ \A c \in D : Whole(w.lit, T)[c] = w.lit[c]
         /\ \A c \in Cells \ D : Whole(w.lit, T)[c] = T[c]
<1>1. w.lit \in [D -> 0..MaxLevel] /\ DOMAIN w.lit = D
  BY WorkIs
<1>. QED  BY <1>1 DEF Whole

\* A turn of the first loop keeps its invariant.
LEMMA DarkenKeeps ==
  ASSUME NEW b \in [Cells -> States], NEW sky \in BOOLEAN, NEW x \in Columns,
         NEW D, Covers(x, D), NEW T \in [Cells -> 0..MaxLevel],
         NEW w, DecInv(b, sky, x, D, T, w), w.dec # <<>>
  PROVE  DecInv(b, sky, x, D, T, Darken(b, sky, w))
<1>. DEFINE q == Darken(b, sky, w)  e == Head(w.dec)
<1>1. D \subseteq Cells /\ w \in Works(D)
      /\ DecParts(b, sky, x, D, Whole(w.lit, T), Among(w.dec), Among(w.inc))
  BY DEF Covers, DecInv
<1>2. /\ e \in Among(w.dec) /\ q \in Works(D)
      /\ DecTurn(b, sky, D, e, Whole(w.lit, T), Among(w.dec), Among(w.inc),
                 Whole(q.lit, T), Among(q.dec), Among(q.inc))
  BY <1>1, DecIs DEF Darken
<1>3. Whole(w.lit, T) \in [Cells -> 0..MaxLevel]
  BY <1>1, WholeIs
<1>4. Among(w.dec) \subseteq Entries(D) /\ Among(w.inc) \subseteq Entries(D)
  BY <1>1, WorkIs
<1>. HIDE DEF q, e
<1>5. DecParts(b, sky, x, D, Whole(q.lit, T), Among(q.dec), Among(q.inc))
  <2>. DEFINE X == Whole(w.lit, T)    dec == Among(w.dec)   inc == Among(w.inc)
              Y == Whole(q.lit, T)    ndec == Among(q.dec)  ninc == Among(q.inc)
  <2>1. /\ X \in [Cells -> 0..MaxLevel] /\ dec \subseteq Entries(D) /\ inc \subseteq Entries(D)
        /\ e \in dec /\ DecTurn(b, sky, D, e, X, dec, inc, Y, ndec, ninc)
        /\ DecParts(b, sky, x, D, X, dec, inc)
    BY <1>1, <1>2, <1>3, <1>4
  <2>. HIDE DEF X, Y, dec, inc, ndec, ninc
  <2>2. DecParts(b, sky, x, D, Y, ndec, ninc)
    BY <2>1, DecKeeps
  <2>. QED  BY <2>2 DEF Y, ndec, ninc
<1>6. DecInv(b, sky, x, D, T, q)
  BY <1>2, <1>5 DEF DecInv
<1>. QED  BY <1>6 DEF q

\* A turn of the second loop keeps its invariant.
LEMMA BrightenKeeps ==
  ASSUME NEW b \in [Cells -> States], NEW sky \in BOOLEAN, NEW D, D \subseteq Cells,
         NEW T \in [Cells -> 0..MaxLevel], Spreads(b, sky, T),
         NEW w, IncInv(b, sky, D, T, w), w.inc # <<>>
  PROVE  IncInv(b, sky, D, T, Brighten(b, w))
<1>. DEFINE q == Brighten(b, w)  e == Head(w.inc)
<1>1. w \in Works(D) /\ IncParts(b, sky, D, T, Whole(w.lit, T), Among(w.inc))
  BY DEF IncInv
<1>2. /\ e \in Among(w.inc) /\ q \in Works(D)
      /\ IncTurn(b, D, e, Whole(w.lit, T), Among(w.inc), Whole(q.lit, T), Among(q.inc))
  BY <1>1, IncIs DEF Brighten
<1>3. Whole(w.lit, T) \in [Cells -> 0..MaxLevel]
  BY <1>1, WholeIs
<1>4. Among(w.inc) \subseteq Entries(D)
  BY <1>1, WorkIs
<1>. HIDE DEF q, e
<1>5. IncParts(b, sky, D, T, Whole(q.lit, T), Among(q.inc))
  <2>. DEFINE X == Whole(w.lit, T)  inc == Among(w.inc)
              Y == Whole(q.lit, T)  ninc == Among(q.inc)
  <2>1. /\ X \in [Cells -> 0..MaxLevel] /\ inc \subseteq Entries(D) /\ e \in inc
        /\ IncTurn(b, D, e, X, inc, Y, ninc) /\ IncParts(b, sky, D, T, X, inc)
    BY <1>1, <1>2, <1>3, <1>4
  <2>. HIDE DEF X, Y, inc, ninc
  <2>2. IncParts(b, sky, D, T, Y, ninc)
    BY <2>1, IncKeeps
  <2>. QED  BY <2>2 DEF Y, ninc
<1>6. IncInv(b, sky, D, T, q)
  BY <1>2, <1>5 DEF IncInv
<1>. QED  BY <1>6 DEF q

\* A turn of the first loop brings its end nearer: a cell goes dark, or the
\* queue is shorter.
LEMMA DarkenFalls ==
  ASSUME NEW b \in [Cells -> States], NEW sky \in BOOLEAN,
         NEW D, D \subseteq Cells, NEW w \in Works(D), w.dec # <<>>
  PROVE  LET q == Darken(b, sky, w) IN
         /\ q \in Works(D)
         /\ 5 * Cardinality(Shining(D, q.lit)) + Len(q.dec)
              < 5 * Cardinality(Shining(D, w.lit)) + Len(w.dec)
<1>. DEFINE q == Darken(b, sky, w)  e == Head(w.dec)
<1>1. /\ q \in Works(D)
      /\ Len(q.dec) <= Len(w.dec) + 3 /\ Len(q.dec) \in Nat /\ Len(w.dec) \in Nat
      /\ Dims(D, w.lit, e) = {} => Len(q.dec) < Len(w.dec)
      /\ \A c \in D : q.lit[c] = IF \E d \in Dims(D, w.lit, e) : Step(e.at, d) = c
                                 THEN 0 ELSE w.lit[c]
  <2>1. /\ DecTurn(b, sky, D, e, Whole(w.lit, w.lit), Among(w.dec), Among(w.inc),
                   Whole(q.lit, w.lit), Among(q.dec), Among(q.inc))
        /\ q \in Works(D)
        /\ Len(q.dec) <= Len(w.dec) + 3 /\ Len(q.dec) \in Nat /\ Len(w.dec) \in Nat
        /\ Dims(D, w.lit, e) = {} => Len(q.dec) < Len(w.dec)
        /\ Dimmed(D, e, w.lit, q.lit)
    BY DecIs DEF Darken
  <2>. QED  BY <2>1 DEF Dimmed
<1>. HIDE DEF q, e
<1>2. /\ IsFiniteSet(Shining(D, w.lit))
      /\ Cardinality(Shining(D, w.lit)) \in Nat /\ Cardinality(Shining(D, q.lit)) \in Nat
  BY <1>1, WorkIs
<1>3. Shining(D, q.lit) \subseteq Shining(D, w.lit)
  BY <1>1 DEF Shining
<1>. DEFINE n == Cardinality(Shining(D, w.lit))  m == Cardinality(Shining(D, q.lit))
            i == Len(w.dec)  j == Len(q.dec)
<1>4. n \in Nat /\ m \in Nat /\ i \in Nat /\ j \in Nat /\ j <= i + 3
  BY <1>1, <1>2
<1>5. CASE Dims(D, w.lit, e) = {}
  <2>1. Shining(D, q.lit) = Shining(D, w.lit)
    BY <1>1, <1>5 DEF Shining
  <2>2. m = n /\ j < i
    BY <1>1, <1>5, <2>1
  <2>. HIDE DEF m, n, i, j
  <2>3. 5 * m + j < 5 * n + i
    BY <1>4, <2>2
  <2>. QED  BY <1>1, <2>3 DEF m, n, i, j, q
<1>6. CASE Dims(D, w.lit, e) # {}
  <2>1. PICK d \in Dims(D, w.lit, e) : TRUE
    BY <1>6
  <2>2. Step(e.at, d) \in Shining(D, w.lit) /\ Step(e.at, d) \notin Shining(D, q.lit)
    BY <1>1, <2>1 DEF Shining, Dims
  <2>3. m < n
    BY <1>2, <1>3, <2>2, FS_Subset, FS_CardinalityType
  <2>. HIDE DEF m, n, i, j
  <2>4. 5 * m + j < 5 * n + i
    BY <1>4, <2>3
  <2>. QED  BY <1>1, <2>4 DEF m, n, i, j, q
<1>. QED  BY <1>5, <1>6

\* A turn of the second loop brings its end nearer: a cell is raised, or the
\* queue is shorter.
LEMMA BrightenFalls ==
  ASSUME NEW b \in [Cells -> States],
         NEW D, D \subseteq Cells, NEW w \in Works(D), w.inc # <<>>
  PROVE  LET q == Brighten(b, w) IN
         /\ q \in Works(D)
         /\ 5 * Cardinality(Gap(D, q.lit)) + Len(q.inc)
              < 5 * Cardinality(Gap(D, w.lit)) + Len(w.inc)
<1>. DEFINE q == Brighten(b, w)
<1>1. /\ q \in Works(D)
      /\ Len(q.inc) <= Len(w.inc) + 3 /\ Len(q.inc) \in Nat /\ Len(w.inc) \in Nat
      /\ \A c \in D : w.lit[c] <= q.lit[c]
      /\ Len(q.inc) < Len(w.inc) \/ \E c \in D : w.lit[c] < q.lit[c]
  <2>. DEFINE T == w.lit
  <2>. HIDE DEF T
  <2>. QED  BY IncIs DEF Brighten
<1>. HIDE DEF q
<1>2. /\ w.lit \in [D -> 0..MaxLevel] /\ q.lit \in [D -> 0..MaxLevel]
      /\ Cardinality(Gap(D, w.lit)) \in Nat /\ Cardinality(Gap(D, q.lit)) \in Nat
  BY <1>1, WorkIs, GapType
<1>. DEFINE n == Cardinality(Gap(D, w.lit))  m == Cardinality(Gap(D, q.lit))
            i == Len(w.inc)  j == Len(q.inc)
<1>3. n \in Nat /\ m \in Nat /\ i \in Nat /\ j \in Nat /\ j <= i + 3
  BY <1>1, <1>2
<1>4. CASE \E c \in D : w.lit[c] < q.lit[c]
  <2>1. m < n
    BY <1>1, <1>2, <1>4, GapFalls
  <2>. HIDE DEF m, n, i, j
  <2>2. 5 * m + j < 5 * n + i
    BY <1>3, <2>1
  <2>. QED  BY <1>1, <2>2 DEF m, n, i, j, q
<1>5. CASE ~(\E c \in D : w.lit[c] < q.lit[c])
  <2>0. \A c \in D : w.lit[c] \in 0..MaxLevel /\ q.lit[c] \in 0..MaxLevel
    BY <1>2
  <2>1. \A c \in D : w.lit[c] = q.lit[c]
    BY <1>1, <1>5, <2>0, LightAssumption
  <2>2. w.lit = q.lit
    BY <1>2, <2>1
  <2>3. m = n /\ j < i
    BY <1>1, <1>5, <2>2
  <2>. HIDE DEF m, n, i, j
  <2>4. 5 * m + j < 5 * n + i
    BY <1>3, <2>3
  <2>. QED  BY <1>1, <2>4 DEF m, n, i, j, q
<1>. QED  BY <1>4, <1>5

\* The decreases end, with nothing queued and their invariant kept.
LEMMA DecreasesIs ==
  ASSUME NEW b \in [Cells -> States], NEW sky \in BOOLEAN, NEW x \in Columns,
         NEW D, Covers(x, D), NEW T \in [Cells -> 0..MaxLevel],
         NEW work, DecInv(b, sky, x, D, T, work)
  PROVE  /\ DecInv(b, sky, x, D, T, Decreases(b, sky, work))
         /\ Decreases(b, sky, work).dec = <<>>
<1>0. D \subseteq Cells
  BY DEF Covers
<1>. DEFINE X == Works(D)
            E == {w \in X : w.dec = <<>>}
            F == [w \in X |-> IF w \in E THEN w ELSE Darken(b, sky, w)]
            M == [w \in X |-> 5 * Cardinality(Shining(D, w.lit)) + Len(w.dec)]
            I == {w \in X : DecInv(b, sky, x, D, T, w)}
            Body(g) == [w \in Works(DOMAIN work.lit) |->
                          IF w.dec = <<>> THEN w
                          ELSE g[PropagateDecrease(b, sky, [w EXCEPT !.dec = Tail(@)],
                                                   Head(w.dec))]]
            r == CHOOSE r : r = Body(r)
<1>1. F \in [X -> X]
  BY <1>0, DarkenFalls
<1>2. M \in [X -> Nat]
  <2>1. ASSUME NEW w \in X PROVE 5 * Cardinality(Shining(D, w.lit)) + Len(w.dec) \in Nat
    <3>. DEFINE m == Cardinality(Shining(D, w.lit))  n == Len(w.dec)
    <3>1. m \in Nat /\ n \in Nat
      BY <1>0, WorkIs
    <3>. HIDE DEF m, n
    <3>2. 5 * m + n \in Nat
      BY <3>1
    <3>. QED  BY <3>2 DEF m, n
  <2>. QED  BY <2>1
<1>3. \A w \in X \ E : M[F[w]] < M[w]
  <2>1. ASSUME NEW w \in X \ E PROVE M[F[w]] < M[w]
    <3>. DEFINE q == Darken(b, sky, w)
    <3>1. /\ q \in X
          /\ 5 * Cardinality(Shining(D, q.lit)) + Len(q.dec)
              < 5 * Cardinality(Shining(D, w.lit)) + Len(w.dec)
      BY <1>0, DarkenFalls
    <3>2. F[w] = q
      OBVIOUS
    <3>. HIDE DEF q
    <3>. QED  BY <3>1, <3>2
  <2>. QED  BY <2>1
<1>4. \A w \in I \ E : F[w] \in I
  <2>1. ASSUME NEW w \in I \ E PROVE F[w] \in I
    <3>1. DecInv(b, sky, x, D, T, Darken(b, sky, w))
      BY DarkenKeeps
    <3>2. F[w] = Darken(b, sky, w) /\ F[w] \in X
      BY <1>1
    <3>. QED  BY <3>1, <3>2
  <2>. QED  BY <2>1
<1>5. work \in Works(D) /\ DOMAIN work.lit = D
  BY <1>0, WorkIs DEF DecInv
<1>. HIDE DEF M
<1>L. LoopOver(X, E, F, M)
  <2>. HIDE DEF X, E, F
  <2>. QED  BY <1>1, <1>2, <1>3 DEF LoopOver
<1>6. \A g : [w \in X |-> IF w \in E THEN w ELSE g[F[w]]] = Body(g)
  <2>1. ASSUME NEW g, NEW w \in X
        PROVE (IF w \in E THEN w ELSE g[F[w]])
                = (IF w.dec = <<>> THEN w
                   ELSE g[PropagateDecrease(b, sky, [w EXCEPT !.dec = Tail(@)], Head(w.dec))])
    BY DEF Darken
  <2>2. X = Works(DOMAIN work.lit)
    BY <1>5
  <2>. HIDE DEF X, E, F
  <2>. QED  BY <2>1, <2>2
<1>. HIDE DEF F, Body
<1>7. \E g : Looping(X, E, F, g)
  <2>. HIDE DEF X, E
  <2>. QED  BY <1>L, LoopExists
<1>8. r = Body(r)
  <2>1. \E g : g = Body(g)
    <3>. HIDE DEF X, E
    <3>. QED  BY <1>6, <1>7 DEF Looping
  <2>. QED  BY <2>1
<1>9. Decreases(b, sky, work) = r[work]
  BY DEF Decreases, Body
<1>. HIDE DEF r
<1>10. Looping(X, E, F, r)
  <2>. HIDE DEF X, E
  <2>. QED  BY <1>6, <1>8 DEF Looping
<1>11. work \in I
  BY <1>5
<1>12. r[work] \in I /\ r[work] \in E
  <2>1. I \subseteq X
    OBVIOUS
  <2>. HIDE DEF X, E, I
  <2>2. LoopKeeps(I, E, F)
    BY <1>4 DEF LoopKeeps
  <2>. QED  BY <1>L, <1>10, <1>11, <2>1, <2>2, LoopInvariant
<1>. QED  BY <1>9, <1>12

\* The increases end, with nothing queued and their invariant kept.
LEMMA IncreasesIs ==
  ASSUME NEW b \in [Cells -> States], NEW sky \in BOOLEAN, NEW D, D \subseteq Cells,
         NEW T \in [Cells -> 0..MaxLevel], Spreads(b, sky, T),
         NEW work, IncInv(b, sky, D, T, work)
  PROVE  /\ IncInv(b, sky, D, T, Increases(b, work))
         /\ Increases(b, work).inc = <<>>
<1>. DEFINE X == Works(D)
            E == {w \in X : w.inc = <<>>}
            F == [w \in X |-> IF w \in E THEN w ELSE Brighten(b, w)]
            M == [w \in X |-> 5 * Cardinality(Gap(D, w.lit)) + Len(w.inc)]
            I == {w \in X : IncInv(b, sky, D, T, w)}
            Body(g) == [w \in Works(DOMAIN work.lit) |->
                          IF w.inc = <<>> THEN w
                          ELSE g[Increase(b, [w EXCEPT !.inc = Tail(@)], Head(w.inc))]]
            r == CHOOSE r : r = Body(r)
<1>1. F \in [X -> X]
  BY BrightenFalls
<1>2. M \in [X -> Nat]
  <2>1. ASSUME NEW w \in X PROVE 5 * Cardinality(Gap(D, w.lit)) + Len(w.inc) \in Nat
    <3>. DEFINE m == Cardinality(Gap(D, w.lit))  n == Len(w.inc)
    <3>1. m \in Nat /\ n \in Nat
      BY WorkIs, GapType
    <3>. HIDE DEF m, n
    <3>2. 5 * m + n \in Nat
      BY <3>1
    <3>. QED  BY <3>2 DEF m, n
  <2>. QED  BY <2>1
<1>3. \A w \in X \ E : M[F[w]] < M[w]
  <2>1. ASSUME NEW w \in X \ E PROVE M[F[w]] < M[w]
    <3>. DEFINE q == Brighten(b, w)
    <3>1. /\ q \in X
          /\ 5 * Cardinality(Gap(D, q.lit)) + Len(q.inc)
              < 5 * Cardinality(Gap(D, w.lit)) + Len(w.inc)
      BY BrightenFalls
    <3>2. F[w] = q
      OBVIOUS
    <3>. HIDE DEF q
    <3>. QED  BY <3>1, <3>2
  <2>. QED  BY <2>1
<1>4. \A w \in I \ E : F[w] \in I
  <2>1. ASSUME NEW w \in I \ E PROVE F[w] \in I
    <3>1. IncInv(b, sky, D, T, Brighten(b, w))
      BY BrightenKeeps
    <3>2. F[w] = Brighten(b, w) /\ F[w] \in X
      BY <1>1
    <3>. QED  BY <3>1, <3>2
  <2>. QED  BY <2>1
<1>5. work \in Works(D) /\ DOMAIN work.lit = D
  BY WorkIs DEF IncInv
<1>. HIDE DEF M
<1>L. LoopOver(X, E, F, M)
  <2>. HIDE DEF X, E, F
  <2>. QED  BY <1>1, <1>2, <1>3 DEF LoopOver
<1>6. \A g : [w \in X |-> IF w \in E THEN w ELSE g[F[w]]] = Body(g)
  <2>1. ASSUME NEW g, NEW w \in X
        PROVE (IF w \in E THEN w ELSE g[F[w]])
                = (IF w.inc = <<>> THEN w
                   ELSE g[Increase(b, [w EXCEPT !.inc = Tail(@)], Head(w.inc))])
    BY DEF Brighten
  <2>2. X = Works(DOMAIN work.lit)
    BY <1>5
  <2>. HIDE DEF X, E, F
  <2>. QED  BY <2>1, <2>2
<1>. HIDE DEF F, Body
<1>7. \E g : Looping(X, E, F, g)
  <2>. HIDE DEF X, E
  <2>. QED  BY <1>L, LoopExists
<1>8. r = Body(r)
  <2>1. \E g : g = Body(g)
    <3>. HIDE DEF X, E
    <3>. QED  BY <1>6, <1>7 DEF Looping
  <2>. QED  BY <2>1
<1>9. Increases(b, work) = r[work]
  BY DEF Increases, Body
<1>. HIDE DEF r
<1>10. Looping(X, E, F, r)
  <2>. HIDE DEF X, E
  <2>. QED  BY <1>6, <1>8 DEF Looping
<1>11. work \in I
  BY <1>5
<1>12. r[work] \in I /\ r[work] \in E
  <2>1. I \subseteq X
    OBVIOUS
  <2>. HIDE DEF X, E, I
  <2>2. LoopKeeps(I, E, F)
    BY <1>4 DEF LoopKeeps
  <2>. QED  BY <1>L, <1>10, <1>11, <2>1, <2>2, LoopInvariant
<1>. QED  BY <1>9, <1>12

\* The two loops leave the window as light is meant to be, whatever the
\* queues began with, as long as the invariant of the decreases held.
LEMMA RunIs ==
  ASSUME NEW b \in [Cells -> States], NEW sky \in BOOLEAN, NEW x \in Columns,
         NEW D, Covers(x, D), NEW work, DecInv(b, sky, x, D, TrueLight(b, sky), work)
  PROVE  /\ Run(b, sky, work) \in [D -> 0..MaxLevel]
         /\ \A c \in D : Run(b, sky, work)[c] = TrueLight(b, sky)[c]
<1>. DEFINE T == TrueLight(b, sky)
            w == Decreases(b, sky, work)
            v == Increases(b, w)
            X == Whole(w.lit, T)
            Y == Whole(v.lit, T)
            H == [c \in Cells |-> Held(b, sky, X, c)]
<1>0. D \subseteq Cells /\ MaxLevel \in Nat
  BY LightAssumption DEF Covers
<1>1. T \in [Cells -> 0..MaxLevel] /\ Grounded(b, sky, T) /\ Spreads(b, sky, T)
  BY TruthIs
<1>. HIDE DEF T
<1>2. DecInv(b, sky, x, D, T, w) /\ w.dec = <<>>
  BY <1>1, DecreasesIs DEF T
<1>. HIDE DEF w
<1>3. /\ w \in Works(D) /\ DecParts(b, sky, x, D, X, {}, Among(w.inc))
      /\ X \in [Cells -> 0..MaxLevel]
  BY <1>0, <1>1, <1>2, AmongEmpty, WholeIs DEF DecInv
<1>. HIDE DEF X
<1>4. ASSUME NEW c \in Cells
      PROVE  /\ X[c] \in 0..MaxLevel /\ H[c] \in 0..MaxLevel /\ X[c] <= H[c]
             /\ Source(b, sky, c) \in 0..MaxLevel /\ Price(b, c) \in 1..MaxLevel
             /\ H[c] > Source(b, sky, c) => X[c] = H[c]
             /\ T[c] \in 0..MaxLevel
  <2>1. X[c] \in 0..MaxLevel /\ T[c] \in 0..MaxLevel
    BY <1>1, <1>3
  <2>. QED  BY <1>0, <2>1, LightTypes DEF Held, Larger
<1>5. Grounded(b, sky, H)
  <2>1. ASSUME NEW c \in Cells, H[c] > Source(b, sky, c)
        PROVE  /\ Lets(b, c)
               /\ \E d \in AllDirs : Step(c, d) \in Cells /\ H[Step(c, d)] >= H[c] + Price(b, c)
    <3>1. X[c] = H[c] /\ X[c] > Source(b, sky, c)
      BY <1>4, <2>1
    <3>2. ~Doomed(X, {}, c)
      BY DEF Doomed
    <3>3. Lets(b, c) /\ \E d \in AllDirs : Step(c, d) \in Cells
                  /\ Held(b, sky, X, Step(c, d)) >= X[c] + Price(b, c)
      BY <1>3, <3>1, <3>2 DEF DecParts, DecGround
    <3>. QED  BY <3>1, <3>3
  <2>. HIDE DEF H
  <2>. QED  BY <2>1 DEF Grounded
<1>6. H \in [Cells -> 0..MaxLevel]
  BY <1>4
<1>7. \A c \in Cells : H[c] <= T[c]
  <2>. HIDE DEF H
  <2>. QED  BY <1>1, <1>5, <1>6, GroundedBelow
<1>8. \A c \in Cells : X[c] <= T[c]
  <2>. HIDE DEF H
  <2>. QED  BY <1>0, <1>4, <1>7
<1>9. IncSpread(b, sky, D, X, Among(w.inc))
  <2>1. \A c, d : ~Reviewed({}, c, d)
    BY DEF Reviewed
  <2>. QED  BY <1>3, <2>1 DEF DecParts, DecSpread, IncSpread
<1>10. IncInv(b, sky, D, T, w)
  <2>1. EmitsRight(b, sky, Among(w.inc)) /\ SourcesKept(b, sky, X, Among(w.inc))
    BY <1>3 DEF DecParts
  <2>. QED  BY <1>3, <1>8, <1>9, <2>1 DEF IncInv, IncParts, X
<1>11. IncInv(b, sky, D, T, v) /\ v.inc = <<>>
  BY <1>0, <1>1, <1>10, IncreasesIs
<1>. HIDE DEF v
<1>12. /\ v \in Works(D) /\ IncParts(b, sky, D, T, Y, {})
       /\ Y \in [Cells -> 0..MaxLevel] /\ v.lit \in [D -> 0..MaxLevel]
       /\ \A c \in D : Y[c] = v.lit[c]
       /\ \A c \in Cells \ D : Y[c] = T[c]
  <2>1. v \in Works(D) /\ IncParts(b, sky, D, T, Y, Among(v.inc))
    BY <1>11 DEF IncInv
  <2>2. IncParts(b, sky, D, T, Y, {})
    BY <1>11, <2>1, AmongEmpty
  <2>3. v.lit \in [D -> 0..MaxLevel]
    BY <1>0, <2>1, WorkIs
  <2>4. /\ Y \in [Cells -> 0..MaxLevel] /\ \A c \in D : Y[c] = v.lit[c]
        /\ \A c \in Cells \ D : Y[c] = T[c]
    BY <1>0, <1>1, <2>1, WholeIs
  <2>. QED  BY <2>1, <2>2, <2>3, <2>4
<1>. HIDE DEF Y
<1>13. ASSUME NEW c \in Cells
       PROVE  /\ Y[c] \in 0..MaxLevel /\ Y[c] <= T[c]
              /\ Y[c] >= Source(b, sky, c) /\ Held(b, sky, Y, c) = Y[c]
  <2>1. Y[c] \in 0..MaxLevel /\ Y[c] <= T[c]
    BY <1>12 DEF IncParts
  <2>2. Y[c] >= Source(b, sky, c)
    BY <1>12 DEF IncParts, SourcesKept
  <2>. QED  BY <1>4, <2>1, <2>2 DEF Held, Larger
<1>14. Spreads(b, sky, Y)
  <2>1. ASSUME NEW c \in Cells, Lets(b, c), NEW d \in AllDirs, Step(c, d) \in Cells
        PROVE  Y[c] >= Y[Step(c, d)] - Price(b, c)
    <3>1. CASE c \in D
      <4>1. ~Promised(Y, {}, c, d)
        BY DEF Promised
      <4>2. Held(b, sky, Y, c) >= Y[Step(c, d)] - Price(b, c)
        BY <1>12, <2>1, <3>1, <4>1 DEF IncParts, IncSpread
      <4>. QED  BY <1>13, <4>2
    <3>2. CASE c \notin D
      <4>1. Y[c] = T[c]
        BY <1>12, <3>2
      <4>2. T[c] >= T[Step(c, d)] - Price(b, c)
        BY <1>1, <2>1 DEF Spreads
      <4>. DEFINE a == Step(c, d)
      <4>3. Y[a] \in 0..MaxLevel /\ T[a] \in 0..MaxLevel /\ Y[a] <= T[a]
            /\ Price(b, c) \in 1..MaxLevel /\ T[c] \in 0..MaxLevel
        BY <1>4, <1>13, <2>1
      <4>4. T[c] >= T[a] - Price(b, c)
        BY <4>2
      <4>. HIDE DEF a
      <4>5. Y[c] >= Y[a] - Price(b, c)
        BY <1>0, <4>1, <4>3, <4>4
      <4>. QED  BY <4>5 DEF a
    <3>. QED  BY <3>1, <3>2
  <2>. QED  BY <1>13, <2>1 DEF Spreads
<1>15. \A c \in Cells : T[c] <= Y[c]
  BY <1>1, <1>12, <1>14, GroundedBelow
<1>16. \A c \in D : v.lit[c] = T[c]
  BY <1>0, <1>4, <1>12, <1>13, <1>15
<1>17. Run(b, sky, work) = v.lit
  BY DEF Run, v, w
<1>. QED  BY <1>12, <1>16, <1>17 DEF T

-----------------------------------------------------------------------------
(* What a relight's queues begin with.                                     *)

\* The window's light is the truth of b0, which b1 differs from at n only.
Before(b0, b1, sky, n, D, lit) ==
    /\ \A c \in Cells : c # n => b0[c] = b1[c]
    /\ Covers(n[1], D)
    /\ lit \in [D -> 0..MaxLevel]
    /\ \A c \in D : lit[c] = TrueLight(b0, sky)[c]

\* The column of a change is in its window, and outside of the window light
\* stays.
LEMMA WindowIs ==
  ASSUME NEW b0 \in [Cells -> States], NEW b1 \in [Cells -> States], NEW sky \in BOOLEAN,
         NEW n \in Cells, NEW D, NEW lit, Before(b0, b1, sky, n, D, lit)
  PROVE  /\ D \subseteq Cells /\ n \in D /\ n[1] \in Columns
         /\ \A c \in Cells : c[1] = n[1] => c \in D
         /\ \A c \in Cells \ D : TrueLight(b1, sky)[c] = TrueLight(b0, sky)[c]
         /\ \A j \in 0..MaxLevel : n[1] \in Close(n[1], j)
<1>1. D \subseteq Cells /\ \A c \in Cells : c[1] \in Close(n[1], MaxLevel) => c \in D
  BY DEF Before, Covers
<1>2. n[1] \in Columns
  BY DEF Cells
<1>3. \A j \in 0..MaxLevel : n[1] \in Close(n[1], j)
  BY <1>2, CloseSelf, LightAssumption
<1>4. MaxLevel \in 0..MaxLevel
  BY LightAssumption
<1>5. \A c \in Cells : c[1] = n[1] => c \in D
  BY <1>1, <1>3, <1>4
<1>6. \A c \in Cells \ D : TrueLight(b1, sky)[c] = TrueLight(b0, sky)[c]
  <2>1. ASSUME NEW c \in Cells \ D PROVE TrueLight(b0, sky)[c] = TrueLight(b1, sky)[c]
    <3>. DEFINE j == MaxLevel - 1
    <3>1. j \in Int /\ j <= MaxLevel /\ MaxLevel \in Int
      BY LightAssumption
    <3>. HIDE DEF j
    <3>2. Close(n[1], j) \subseteq Close(n[1], MaxLevel)
      BY <3>1, CloseMono
    <3>3. c[1] \notin Close(n[1], j)
      BY <1>1, <3>2
    <3>4. \A a \in Cells : a # n => b0[a] = b1[a]
      BY DEF Before
    <3>. QED  BY <3>3, <3>4, TruthFar DEF j
  <2>. QED  BY <2>1
<1>. QED  BY <1>1, <1>2, <1>3, <1>5, <1>6

\* The block light's queues begin as the decreases need.
LEMMA BlockBegins ==
  ASSUME NEW b0 \in [Cells -> States], NEW b1 \in [Cells -> States],
         NEW n \in Cells, NEW D, NEW lit, Before(b0, b1, FALSE, n, D, lit)
  PROVE  DecInv(b1, FALSE, n[1], D, TrueLight(b1, FALSE), CheckBlockNode(b1, lit, n))
<1>. DEFINE sky == FALSE
            x == n[1]
            T0 == TrueLight(b0, sky)
            T1 == TrueLight(b1, sky)
            w == CheckBlockNode(b1, lit, n)
            emission == Emission[b1[n]]
            e == Entry(n, IF emission < lit[n] THEN lit[n] ELSE 1, AllDirs)
            X == Whole(w.lit, T1)
            fresh == IF emission > 0 THEN {FromEmission(n, emission)} ELSE {}
<1>0. MaxLevel \in Nat \ {0} /\ MaxLevel < Width /\ sky \in BOOLEAN
  BY WidthType
<1>1. /\ D \subseteq Cells /\ n \in D /\ x \in Columns
      /\ \A c \in Cells \ D : T1[c] = T0[c]
      /\ \A j \in 0..MaxLevel : x \in Close(x, j)
  <2>1. Before(b0, b1, sky, n, D, lit)
    OBVIOUS
  <2>. HIDE DEF sky
  <2>. QED  BY <1>0, <2>1, WindowIs
<1>2. /\ \A c \in Cells : c # n => b0[c] = b1[c]
      /\ lit \in [D -> 0..MaxLevel] /\ DOMAIN lit = D
      /\ \A c \in D : lit[c] = T0[c]
  BY DEF Before
<1>3. /\ T0 \in [Cells -> 0..MaxLevel] /\ T1 \in [Cells -> 0..MaxLevel]
      /\ Grounded(b0, sky, T0) /\ Spreads(b0, sky, T0)
  BY <1>0, TruthIs
<1>. HIDE DEF T0, T1
<1>4. emission \in 0..MaxLevel /\ lit[n] \in 0..MaxLevel /\ lit[n] = T0[n]
  <2>1. b1[n] \in States
    OBVIOUS
  <2>. QED  BY <1>1, <1>2, <2>1, LightAssumption
<1>5. /\ w.lit = IF emission < lit[n] THEN [lit EXCEPT ![n] = 0] ELSE lit
      /\ w.dec = <<e>>
      /\ w.inc = IF emission > 0 THEN <<FromEmission(n, emission)>> ELSE <<>>
      /\ w = [lit |-> w.lit, dec |-> w.dec, inc |-> w.inc]
  <2>. DEFINE q == IF emission < lit[n] THEN <<FromEmission(n, emission)>> ELSE <<>>
  <2>1. CASE emission < lit[n]
    <3>1. lit[n] > 0
      BY <1>4, <2>1
    <3>2. Recheck(lit, n) = [lit |-> [lit EXCEPT ![n] = 0], dec |-> <<e>>, inc |-> <<>>]
      BY <2>1, <3>1 DEF Recheck
    <3>3. w = [[lit |-> [lit EXCEPT ![n] = 0], dec |-> <<e>>, inc |-> <<>>] EXCEPT
                 !.inc = IF emission > 0 THEN <<FromEmission(n, emission)>> ELSE <<>>]
      BY <2>1, <3>2 DEF CheckBlockNode
    <3>. HIDE DEF w, e, emission
    <3>. QED  BY <2>1, <3>3
  <2>2. CASE ~(emission < lit[n])
    <3>1. w = [[lit |-> lit, dec |-> <<e>>, inc |-> <<>>] EXCEPT
                 !.inc = IF emission > 0 THEN <<FromEmission(n, emission)>> ELSE <<>>]
      BY <2>2 DEF CheckBlockNode
    <3>. HIDE DEF w, e, emission
    <3>. QED  BY <2>2, <3>1
  <2>. QED  BY <2>1, <2>2
<1>. HIDE DEF w
<1>6. /\ e \in Entries(D) /\ FromEmission(n, emission) \in Entries(D)
      /\ e.at = n /\ e.dirs = AllDirs /\ e.level >= 1 /\ e.level \in 0..MaxLevel
      /\ e.level = IF emission < lit[n] THEN lit[n] ELSE 1
      /\ FromEmission(n, emission).at = n /\ FromEmission(n, emission).dirs = AllDirs
      /\ FromEmission(n, emission).level = emission /\ FromEmission(n, emission).emit
  <2>1. (IF emission < lit[n] THEN lit[n] ELSE 1) \in 1..MaxLevel
    BY <1>0, <1>4
  <2>. DEFINE l == IF emission < lit[n] THEN lit[n] ELSE 1
  <2>2. l \in 1..MaxLevel
    BY <2>1
  <2>x. e = Entry(n, l, AllDirs)
    OBVIOUS
  <2>. HIDE DEF l, emission, e
  <2>3. /\ e.at = n /\ e.dirs = AllDirs /\ e.level = l /\ e \in Entries(D)
    BY <1>0, <1>1, <2>2, <2>x DEF Entry, Entries
  <2>4. FromEmission(n, emission) \in Entries(D)
    BY <1>0, <1>1, <1>4 DEF FromEmission, Entries
  <2>5. /\ FromEmission(n, emission).at = n /\ FromEmission(n, emission).dirs = AllDirs
        /\ FromEmission(n, emission).level = emission /\ FromEmission(n, emission).emit = TRUE
    BY DEF FromEmission
  <2>. QED  BY <1>0, <2>2, <2>3, <2>4, <2>5 DEF l
<1>. HIDE DEF e
<1>7. w \in Works(D)
  <2>1. w.lit \in [D -> 0..MaxLevel]
    BY <1>0, <1>1, <1>2, <1>5
  <2>2. w.dec \in Seq(Entries(D)) /\ w.inc \in Seq(Entries(D))
    <3>. HIDE DEF emission
    <3>. QED  BY <1>5, <1>6
  <2>. QED  BY <1>5, <2>1, <2>2 DEF Works
<1>8. Among(w.dec) = {e} /\ Among(w.inc) = fresh
  <2>. HIDE DEF emission
  <2>. QED  BY <1>5, AmongSingle, AmongEmpty
<1>9. /\ \A c \in Cells : c # n => X[c] = T0[c]
      /\ X[n] = IF emission < lit[n] THEN 0 ELSE T0[n]
  <2>1. /\ \A c \in D : X[c] = w.lit[c] /\ c \in Cells
        /\ \A c \in Cells \ D : X[c] = T1[c]
    BY <1>1, <1>3, <1>7, WholeIs
  <2>. HIDE DEF X, emission
  <2>. QED  BY <1>1, <1>2, <1>4, <1>5, <2>1
<1>. HIDE DEF X
<1>10. ASSUME NEW c \in Cells
       PROVE  /\ T0[c] \in 0..MaxLevel /\ X[c] \in 0..MaxLevel /\ X[c] <= T0[c]
              /\ Source(b1, sky, c) = Emission[b1[c]] /\ Source(b1, sky, c) \in 0..MaxLevel
              /\ Price(b1, c) \in 1..MaxLevel
              /\ c # n => /\ Source(b1, sky, c) = Source(b0, sky, c)
                          /\ Lets(b1, c) = Lets(b0, c) /\ Price(b1, c) = Price(b0, c)
  <2>1. T0[c] \in 0..MaxLevel
    BY <1>3
  <2>2. X[c] \in 0..MaxLevel /\ X[c] <= T0[c]
    <3>1. T0[n] \in 0..MaxLevel
      BY <1>3
    <3>. HIDE DEF emission
    <3>. QED  BY <1>0, <1>9, <2>1, <3>1
  <2>3. Source(b1, sky, c) = Emission[b1[c]]
    BY DEF Source
  <2>4. Source(b1, sky, c) \in 0..MaxLevel /\ Price(b1, c) \in 1..MaxLevel
    BY <1>0, LightTypes
  <2>5. c # n => /\ Source(b1, sky, c) = Source(b0, sky, c)
                 /\ Lets(b1, c) = Lets(b0, c) /\ Price(b1, c) = Price(b0, c)
    BY <1>2 DEF Source, Lets, Price
  <2>. QED  BY <2>1, <2>2, <2>3, <2>4, <2>5
<1>11. Source(b1, sky, n) = emission
  BY <1>10
<1>. HIDE DEF sky, emission, x
<1>12. DecReach(x, {e})
  <2>. DEFINE j == MaxLevel - e.level
  <2>1. j \in 0..MaxLevel
    BY <1>0, <1>6
  <2>. HIDE DEF j
  <2>2. x \in Close(x, j)
    BY <1>1, <2>1
  <2>3. e.at[1] = x
    BY <1>6 DEF x
  <2>. QED  BY <1>6, <2>2, <2>3 DEF DecReach, j
<1>13. DecSky(b1, sky, X)
  BY DEF DecSky, sky
<1>14. DecGround(b1, sky, X, {e})
  <2>1. ASSUME NEW c \in Cells, X[c] > Source(b1, sky, c)
        PROVE  \/ /\ Lets(b1, c)
                  /\ \E d \in AllDirs : Step(c, d) \in Cells
                        /\ Held(b1, sky, X, Step(c, d)) >= X[c] + Price(b1, c)
               \/ Doomed(X, {e}, c)
    <3>1. c # n
      BY <1>4, <1>9, <1>10, <1>11, <2>1
    <3>2. X[c] = T0[c] /\ T0[c] > Source(b0, sky, c)
      BY <1>9, <1>10, <2>1, <3>1
    <3>3. Lets(b0, c)
      BY <1>3, <3>2 DEF Grounded
    <3>4. PICK d \in AllDirs : Step(c, d) \in Cells /\ T0[Step(c, d)] >= T0[c] + Price(b0, c)
      BY <1>3, <3>2 DEF Grounded
    <3>5. Lets(b1, c) /\ Price(b1, c) = Price(b0, c)
      BY <1>10, <3>1, <3>3
    <3>6. CASE X[Step(c, d)] = T0[Step(c, d)]
      <4>. DEFINE a == Step(c, d)
      <4>1. /\ Held(b1, sky, X, a) >= X[a] /\ X[a] \in 0..MaxLevel
            /\ Held(b1, sky, X, a) \in 0..MaxLevel
        BY <1>0, <1>10, <3>4 DEF Held, Larger
      <4>2. X[a] >= X[c] + Price(b1, c) /\ X[c] \in 0..MaxLevel /\ Price(b1, c) \in 1..MaxLevel
        BY <1>10, <3>2, <3>4, <3>5, <3>6
      <4>. HIDE DEF a
      <4>3. Held(b1, sky, X, a) >= X[c] + Price(b1, c)
        BY <1>0, <4>1, <4>2
      <4>. QED  BY <3>4, <3>5, <4>3 DEF a
    <3>7. CASE X[Step(c, d)] # T0[Step(c, d)]
      <4>1. Step(c, d) = n /\ emission < lit[n]
        BY <1>9, <3>4, <3>7
      <4>2. e.level = T0[n]
        BY <1>4, <1>6, <4>1
      <4>3. Step(n, Back[d]) = c /\ Back[d] \in AllDirs
        BY <3>4, <4>1, StepBack, BackDir
      <4>4. X[c] <= e.level - 1
        <5>1. T0[n] >= X[c] + Price(b1, c) /\ T0[n] \in 0..MaxLevel /\ X[c] \in 0..MaxLevel
              /\ Price(b1, c) \in 1..MaxLevel
          BY <1>10, <3>2, <3>4, <3>5, <4>1
        <5>. QED  BY <1>0, <4>2, <5>1
      <4>. QED  BY <1>6, <4>3, <4>4 DEF Doomed
    <3>. QED  BY <3>6, <3>7
  <2>. QED  BY <2>1 DEF DecGround
<1>15. DecSpread(b1, sky, D, X, {e}, fresh)
  <2>1. ASSUME NEW c \in D, Lets(b1, c), NEW d \in AllDirs, Step(c, d) \in Cells
        PROVE  \/ Held(b1, sky, X, c) >= X[Step(c, d)] - Price(b1, c)
               \/ Reviewed({e}, c, d)
    <3>1. CASE c = n
      BY <1>6, <3>1 DEF Reviewed
    <3>2. CASE c # n
      <4>0. c \in Cells
        BY <1>1
      <4>1. Lets(b0, c) /\ X[c] = T0[c] /\ Price(b1, c) = Price(b0, c)
        BY <1>9, <1>10, <2>1, <3>2, <4>0
      <4>. DEFINE a == Step(c, d)
      <4>2. T0[c] >= T0[a] - Price(b0, c)
        BY <1>3, <2>1, <4>0, <4>1 DEF Spreads
      <4>3. /\ T0[a] \in 0..MaxLevel /\ X[a] \in 0..MaxLevel /\ X[a] <= T0[a]
            /\ T0[c] \in 0..MaxLevel /\ Price(b1, c) \in 1..MaxLevel
        BY <1>10, <2>1, <4>0
      <4>4. Held(b1, sky, X, c) >= X[c] /\ Held(b1, sky, X, c) \in 0..MaxLevel
        BY <1>0, <1>10, <4>0 DEF Held, Larger
      <4>. HIDE DEF a
      <4>5. Held(b1, sky, X, c) >= X[a] - Price(b1, c)
        BY <1>0, <4>1, <4>2, <4>3, <4>4
      <4>. QED  BY <4>5 DEF a
    <3>. QED  BY <3>1, <3>2
  <2>. QED  BY <2>1 DEF DecSpread
<1>16. DecDark(b1, sky, X, {e}, fresh)
  <2>1. X[n] = 0 \/ e.level <= 1
    BY <1>6, <1>9
  <2>. QED  BY <1>6, <2>1 DEF DecDark
<1>17. EmitsRight(b1, sky, fresh)
  BY <1>6, <1>11 DEF EmitsRight
<1>18. SourcesKept(b1, sky, X, fresh)
  <2>1. ASSUME NEW c \in Cells, c # n PROVE X[c] >= Source(b1, sky, c)
    BY <1>3, <1>9, <1>10, <2>1 DEF Spreads
  <2>2. X[n] >= Source(b1, sky, n) \/ \E u \in fresh : u.at = n /\ u.emit
    <3>1. CASE emission > 0
      BY <1>6, <3>1
    <3>2. CASE ~(emission > 0)
      BY <1>0, <1>4, <1>10, <1>11, <3>2
    <3>. QED  BY <3>1, <3>2
  <2>. QED  BY <2>1, <2>2 DEF SourcesKept
<1>19. DecParts(b1, sky, x, D, X, {e}, fresh)
  BY <1>12, <1>13, <1>14, <1>15, <1>16, <1>17, <1>18 DEF DecParts
<1>. QED  BY <1>7, <1>8, <1>19 DEF DecInv, X, sky, x, w, T1

\* The cells a change opens to the sky, and the ones it closes.
Opened(b0, b1) == {c \in Cells : ~SkySource(b0, c) /\ SkySource(b1, c)}
Closed(b0, b1) == {c \in Cells : SkySource(b0, c) /\ ~SkySource(b1, c)}

\* What the sky light's queues begin with, after b0 became b1 at n: T0 was the
\* light before, X is the light now.
SkyStart(b0, b1, n, T0, X, dec, inc) ==
    /\ X \in [Cells -> 0..MaxLevel]
    /\ \A c \in Cells : c # n =>
           X[c] = IF c \in Closed(b0, b1) THEN 0
                  ELSE IF c \in Opened(b0, b1) THEN MaxLevel ELSE T0[c]
    /\ X[n] = IF SkySource(b1, n) THEN MaxLevel ELSE 0
    /\ \A c \in Closed(b0, b1) : \E e \in dec :
           /\ e.at = c /\ e.level = MaxLevel /\ AllDirs \ {"up"} \subseteq e.dirs
           /\ "up" \in e.dirs \/ Step(c, "up") \in Closed(b0, b1)
    /\ \A c \in Opened(b0, b1) : \E e \in inc :
           e.at = c /\ e.level = MaxLevel /\ AllDirs \ {"up"} \subseteq e.dirs
    /\ \A e \in inc : ~e.emit
    /\ \A e \in dec :
           /\ e.level \in 1..MaxLevel
           /\ e.at = n \/ e.at \in Closed(b0, b1)
           /\ e.at = n /\ SkySource(b1, n) =>
                  \E u \in inc : u.at = n /\ u.level = MaxLevel /\ e.dirs \subseteq u.dirs
    /\ ~SkySource(b1, n) => \E e \in dec :
           /\ e.at = n /\ e.dirs = AllDirs
           /\ T0[n] > 0 /\ ~SkySource(b0, n) => e.level = T0[n]

\* The cell above one the sky reaches is reached by it.
LEMMA SkyAbove ==
  ASSUME NEW b \in [Cells -> States], NEW c \in Cells, Step(c, "up") \in Cells,
         SkySource(b, c)
  PROVE  SkySource(b, Step(c, "up"))
<1>1. Step(c, "up")[1] = c[1] /\ Step(c, "up")[2] = c[2] + 1
  <2>1. c[1] \in Columns /\ "up" \in AllDirs
    BY DEF Cells, AllDirs
  <2>2. Step(c, "up")[1] = Off(c[1], 0) /\ Step(c, "up")[2] = c[2] + 1
    BY <2>1, StepIs DEF ColumnStep, HeightStep
  <2>. QED  BY <2>1, <2>2, OffZero
<1>2. c[2] \in Nat /\ Height \in Nat
  BY LightAssumption DEF Cells, Heights
<1>. QED  BY <1>1, <1>2 DEF SkySource

\* Only the column of a change can open or close.
LEMMA SkyElsewhere ==
  ASSUME NEW b0 \in [Cells -> States], NEW b1 \in [Cells -> States],
         NEW n \in Cells, \A c \in Cells : c # n => b0[c] = b1[c],
         NEW c \in Cells, c[1] # n[1] \/ c[2] > n[2]
  PROVE  SkySource(b0, c) = SkySource(b1, c)
<1>1. c = <<c[1], c[2]>> /\ c[1] \in Columns /\ c[2] \in Heights /\ n[2] \in Heights
  BY DEF Cells
<1>2. \A y \in c[2]..(Height - 1) : <<c[1], y>> \in Cells /\ <<c[1], y>> # n
  BY <1>1, LightAssumption DEF Cells, Heights
<1>. QED  BY <1>2 DEF SkySource

\* Full sky light is the sky's own.
LEMMA SkyFull ==
  ASSUME NEW b \in [Cells -> States], NEW c \in Cells
  PROVE  /\ TrueLight(b, TRUE)[c] \in 0..MaxLevel
         /\ TrueLight(b, TRUE)[c] = MaxLevel <=> SkySource(b, c)
<1>. DEFINE sky == TRUE
            T == TrueLight(b, sky)
<1>0. sky \in BOOLEAN
  OBVIOUS
<1>2. Source(b, sky, c) = IF SkySource(b, c) THEN MaxLevel ELSE 0
  BY DEF Source
<1>. HIDE DEF sky
<1>1. T \in [Cells -> 0..MaxLevel] /\ Grounded(b, sky, T) /\ Spreads(b, sky, T)
  BY <1>0, TruthIs
<1>. HIDE DEF T
<1>3. MaxLevel \in Nat \ {0} /\ T[c] \in 0..MaxLevel /\ T[c] >= Source(b, sky, c)
  BY <1>1, LightAssumption DEF Spreads
<1>4. ASSUME T[c] = MaxLevel, ~SkySource(b, c) PROVE FALSE
  <2>1. PICK d \in AllDirs : Step(c, d) \in Cells /\ T[Step(c, d)] >= T[c] + Price(b, c)
    BY <1>1, <1>2, <1>3, <1>4 DEF Grounded
  <2>2. T[Step(c, d)] \in 0..MaxLevel /\ Price(b, c) \in 1..MaxLevel
    BY <1>0, <1>1, <2>1, LightTypes
  <2>. QED  BY <1>3, <1>4, <2>1, <2>2
<1>5. T[c] \in 0..MaxLevel /\ (T[c] = MaxLevel <=> SkySource(b, c))
  BY <1>2, <1>3, <1>4
<1>. QED  BY <1>5 DEF T, sky

\* The sky light's queues, begun so, satisfy what the decreases rest on.
LEMMA SkyParts ==
  ASSUME NEW b0 \in [Cells -> States], NEW b1 \in [Cells -> States],
         NEW n \in Cells, \A c \in Cells : c # n => b0[c] = b1[c],
         NEW D, D \subseteq Cells,
         NEW X, NEW dec, NEW inc,
         SkyStart(b0, b1, n, TrueLight(b0, TRUE), X, dec, inc)
  PROVE  DecParts(b1, TRUE, n[1], D, X, dec, inc)
<1>. DEFINE sky == TRUE
            T0 == TrueLight(b0, sky)
            Cl == Closed(b0, b1)
            Op == Opened(b0, b1)
<1>0. MaxLevel \in Nat \ {0} /\ sky \in BOOLEAN /\ n[1] \in Columns
  BY LightAssumption DEF Cells
<1>1. T0 \in [Cells -> 0..MaxLevel] /\ Grounded(b0, sky, T0) /\ Spreads(b0, sky, T0)
  <2>. HIDE DEF sky
  <2>. QED  BY <1>0, TruthIs
<1>2. ASSUME NEW c \in Cells
      PROVE  /\ T0[c] \in 0..MaxLevel /\ (T0[c] = MaxLevel <=> SkySource(b0, c))
             /\ X[c] \in 0..MaxLevel
             /\ Source(b1, sky, c) = IF SkySource(b1, c) THEN MaxLevel ELSE 0
             /\ Source(b0, sky, c) = IF SkySource(b0, c) THEN MaxLevel ELSE 0
             /\ Price(b1, c) \in 1..MaxLevel
             /\ c # n => Lets(b1, c) = Lets(b0, c) /\ Price(b1, c) = Price(b0, c)
             /\ Held(b1, sky, X, c) >= X[c] /\ Held(b1, sky, X, c) \in 0..MaxLevel
             /\ SkySource(b1, c) => Held(b1, sky, X, c) = MaxLevel
  <2>1. T0[c] \in 0..MaxLevel /\ (T0[c] = MaxLevel <=> SkySource(b0, c))
    BY SkyFull
  <2>2. X[c] \in 0..MaxLevel
    BY DEF SkyStart
  <2>3. /\ Source(b1, sky, c) = IF SkySource(b1, c) THEN MaxLevel ELSE 0
        /\ Source(b0, sky, c) = IF SkySource(b0, c) THEN MaxLevel ELSE 0
    BY DEF Source
  <2>4. Price(b1, c) \in 1..MaxLevel
    <3>. HIDE DEF sky
    <3>. QED  BY <1>0, LightTypes
  <2>5. c # n => Lets(b1, c) = Lets(b0, c) /\ Price(b1, c) = Price(b0, c)
    BY DEF Lets, Price
  <2>6. /\ Held(b1, sky, X, c) >= X[c] /\ Held(b1, sky, X, c) \in 0..MaxLevel
        /\ SkySource(b1, c) => Held(b1, sky, X, c) = MaxLevel
    <3>. HIDE DEF sky
    <3>. QED  BY <1>0, <2>2, <2>3 DEF Held, Larger
  <2>. QED  BY <2>1, <2>2, <2>3, <2>4, <2>5, <2>6
<1>3. /\ \A c \in Cells : c # n =>
           X[c] = IF c \in Cl THEN 0 ELSE IF c \in Op THEN MaxLevel ELSE T0[c]
      /\ X[n] = IF SkySource(b1, n) THEN MaxLevel ELSE 0
      /\ \A c \in Cl : \E e \in dec :
           /\ e.at = c /\ e.level = MaxLevel /\ AllDirs \ {"up"} \subseteq e.dirs
           /\ "up" \in e.dirs \/ Step(c, "up") \in Cl
      /\ \A c \in Op : \E e \in inc :
           e.at = c /\ e.level = MaxLevel /\ AllDirs \ {"up"} \subseteq e.dirs
      /\ \A e \in inc : ~e.emit
      /\ \A e \in dec :
           /\ e.level \in 1..MaxLevel
           /\ e.at = n \/ e.at \in Cl
           /\ e.at = n /\ SkySource(b1, n) =>
                  \E u \in inc : u.at = n /\ u.level = MaxLevel /\ e.dirs \subseteq u.dirs
      /\ ~SkySource(b1, n) => \E e \in dec :
           /\ e.at = n /\ e.dirs = AllDirs
           /\ T0[n] > 0 /\ ~SkySource(b0, n) => e.level = T0[n]
  BY DEF SkyStart
<1>. HIDE DEF T0, sky
<1>4. \A c \in Cells : /\ c \in Cl <=> SkySource(b0, c) /\ ~SkySource(b1, c)
                       /\ c \in Op <=> ~SkySource(b0, c) /\ SkySource(b1, c)
  BY DEF Closed, Opened
<1>5. Cl \subseteq Cells /\ Op \subseteq Cells
  BY DEF Closed, Opened
<1>. HIDE DEF Cl, Op
<1>6. ASSUME NEW c \in Cells
      PROVE  /\ SkySource(b1, c) => X[c] = MaxLevel
             /\ c \in Cl => X[c] = 0
             /\ ~SkySource(b1, c) /\ X[c] > 0 => c # n /\ ~SkySource(b0, c) /\ X[c] = T0[c]
  <2>1. CASE c = n
    BY <1>0, <1>3, <1>4, <2>1
  <2>2. CASE c # n
    BY <1>0, <1>2, <1>3, <1>4, <2>2
  <2>. QED  BY <2>1, <2>2
<1>7. DecReach(n[1], dec)
  <2>1. ASSUME NEW e \in dec PROVE e.level >= 1 /\ e.at[1] \in Close(n[1], MaxLevel - e.level)
    <3>1. e.level \in 1..MaxLevel
      BY <1>3
    <3>2. e.at[1] = n[1]
      <4>1. CASE e.at = n
        BY <4>1
      <4>2. CASE e.at # n
        <5>1. e.at \in Cells /\ SkySource(b0, e.at) # SkySource(b1, e.at)
          BY <1>3, <1>4, <1>5, <4>2
        <5>. QED  BY <5>1, SkyElsewhere
      <4>. QED  BY <4>1, <4>2
    <3>. DEFINE j == MaxLevel - e.level
    <3>3. j \in 0..MaxLevel
      BY <1>0, <3>1
    <3>. HIDE DEF j
    <3>4. n[1] \in Close(n[1], j)
      BY <1>0, <3>3, CloseSelf
    <3>. QED  BY <3>1, <3>2, <3>4 DEF j
  <2>. QED  BY <2>1 DEF DecReach
<1>8. DecSky(b1, sky, X)
  <2>1. \A c \in Cells : Source(b1, sky, c) > 0 => X[c] = MaxLevel
    BY <1>0, <1>2, <1>6
  <2>. QED  BY <2>1 DEF DecSky
<1>9. DecGround(b1, sky, X, dec)
  <2>. SUFFICES ASSUME NEW c \in Cells, X[c] > Source(b1, sky, c)
                PROVE  \/ /\ Lets(b1, c)
                          /\ \E d \in AllDirs : Step(c, d) \in Cells
                               /\ Held(b1, sky, X, Step(c, d)) >= X[c] + Price(b1, c)
                       \/ Doomed(X, dec, c)
    BY DEF DecGround
  <2>1. c # n /\ ~SkySource(b0, c) /\ ~SkySource(b1, c) /\ X[c] = T0[c] /\ X[c] > 0
    BY <1>0, <1>2, <1>6
  <2>2. T0[c] > Source(b0, sky, c)
    BY <1>0, <1>2, <2>1
  <2>3. Lets(b1, c) /\ Price(b1, c) = Price(b0, c)
    BY <1>1, <1>2, <2>1, <2>2 DEF Grounded
  <2>4. PICK d \in AllDirs : Step(c, d) \in Cells /\ T0[Step(c, d)] >= T0[c] + Price(b0, c)
    BY <1>1, <2>2 DEF Grounded
  <2>. DEFINE a == Step(c, d)
  <2>5. a \in Cells /\ T0[a] >= X[c] + Price(b1, c)
    BY <2>1, <2>3, <2>4
  <2>6. Step(a, Back[d]) = c /\ Back[d] \in AllDirs
    BY <2>4, StepBack, BackDir
  <2>x. /\ T0[a] \in 0..MaxLevel /\ X[a] \in 0..MaxLevel /\ X[c] \in 0..MaxLevel
        /\ Price(b1, c) \in 1..MaxLevel /\ Held(b1, sky, X, a) \in 0..MaxLevel
        /\ Held(b1, sky, X, a) >= X[a]
    <3>. HIDE DEF a
    <3>. QED  BY <1>2, <2>5
  <2>y. Step(c, d) = a
    OBVIOUS
  <2>. HIDE DEF a
  <2>7. CASE X[a] >= T0[a]
    <3>1. Held(b1, sky, X, a) >= X[c] + Price(b1, c)
      BY <1>0, <2>5, <2>x, <2>7
    <3>. QED  BY <2>3, <2>5, <2>y, <3>1
  <2>8. CASE ~(X[a] >= T0[a])
    <3>1. ~SkySource(b1, a)
      BY <1>0, <1>6, <2>5, <2>x, <2>8
    <3>2. CASE a \in Cl
      <4>1. PICK e \in dec : /\ e.at = a /\ e.level = MaxLevel /\ AllDirs \ {"up"} \subseteq e.dirs
                             /\ "up" \in e.dirs \/ Step(a, "up") \in Cl
        BY <1>3, <3>2
      <4>2. Back[d] \in e.dirs
        <5>1. ASSUME Back[d] = "up", Step(a, "up") \in Cl PROVE FALSE
          BY <1>4, <2>1, <2>6, <5>1
        <5>. QED  BY <2>6, <4>1, <5>1
      <4>3. X[c] <= e.level - 1
        BY <1>0, <2>x, <2>5, <4>1
      <4>. QED  BY <2>6, <4>1, <4>2, <4>3 DEF Doomed
    <3>3. CASE a \notin Cl
      <4>1. ~SkySource(b0, a) /\ a \notin Op
        BY <1>4, <2>5, <3>1, <3>3
      <4>2. a = n
        BY <1>0, <1>3, <2>5, <2>x, <2>8, <3>3, <4>1
      <4>3. T0[n] > 0
        BY <1>0, <2>5, <2>x, <4>2
      <4>4. PICK e \in dec : e.at = n /\ e.dirs = AllDirs /\ e.level = T0[n]
        BY <1>3, <3>1, <4>1, <4>2, <4>3
      <4>5. X[c] <= e.level - 1
        BY <1>0, <2>x, <2>5, <4>2, <4>4
      <4>. QED  BY <2>6, <4>2, <4>4, <4>5 DEF Doomed
    <3>. QED  BY <3>2, <3>3
  <2>. QED  BY <2>7, <2>8
<1>10. DecSpread(b1, sky, D, X, dec, inc)
  <2>. SUFFICES ASSUME NEW c \in D, Lets(b1, c), NEW d \in AllDirs, Step(c, d) \in Cells
                PROVE  \/ Held(b1, sky, X, c) >= X[Step(c, d)] - Price(b1, c)
                       \/ Promised(X, inc, c, d)
                       \/ Reviewed(dec, c, d)
    BY DEF DecSpread
  <2>. DEFINE a == Step(c, d)
  <2>1. c \in Cells /\ a \in Cells /\ Step(a, Back[d]) = c /\ Back[d] \in AllDirs
    BY StepBack, BackDir
  <2>x. /\ T0[a] \in 0..MaxLevel /\ X[a] \in 0..MaxLevel /\ X[c] \in 0..MaxLevel
        /\ T0[c] \in 0..MaxLevel
        /\ Price(b1, c) \in 1..MaxLevel /\ Held(b1, sky, X, c) \in 0..MaxLevel
        /\ Held(b1, sky, X, c) >= X[c]
    <3>. HIDE DEF a
    <3>. QED  BY <1>2, <2>1
  <2>y. Step(c, d) = a
    OBVIOUS
  <2>. HIDE DEF a
  <2>2. CASE SkySource(b1, c)
    <3>1. Held(b1, sky, X, c) = MaxLevel
      BY <1>2, <2>1, <2>2
    <3>2. Held(b1, sky, X, c) >= X[a] - Price(b1, c)
      BY <1>0, <2>x, <3>1
    <3>. QED  BY <2>y, <3>2
  <2>3. CASE c = n /\ ~SkySource(b1, n)
    BY <1>3, <2>3 DEF Reviewed
  <2>4. CASE c \in Cl
    <3>1. PICK e \in dec : /\ e.at = c /\ e.level = MaxLevel /\ AllDirs \ {"up"} \subseteq e.dirs
                           /\ "up" \in e.dirs \/ Step(c, "up") \in Cl
      BY <1>3, <2>4
    <3>2. CASE d \in e.dirs
      BY <3>1, <3>2 DEF Reviewed
    <3>3. CASE d \notin e.dirs
      <4>1. d = "up" /\ a \in Cl
        BY <2>y, <3>1, <3>3
      <4>2. X[a] = 0
        BY <1>6, <2>1, <4>1
      <4>3. Held(b1, sky, X, c) >= X[a] - Price(b1, c)
        BY <1>0, <2>x, <4>2
      <4>. QED  BY <2>y, <4>3
    <3>. QED  BY <3>2, <3>3
  <2>5. CASE c # n /\ ~SkySource(b1, c) /\ c \notin Cl
    <3>1. ~SkySource(b0, c) /\ c \notin Op
      BY <1>4, <2>1, <2>5
    <3>2. X[c] = T0[c]
      BY <1>3, <2>1, <2>5, <3>1
    <3>3. T0[c] >= T0[a] - Price(b0, c)
      BY <1>1, <1>2, <2>1, <2>5, <2>y DEF Spreads
    <3>4. Price(b1, c) = Price(b0, c)
      BY <1>2, <2>1, <2>5
    <3>5. CASE X[a] <= T0[a]
      <4>1. Held(b1, sky, X, c) >= X[a] - Price(b1, c)
        BY <1>0, <2>x, <3>2, <3>3, <3>4, <3>5
      <4>. QED  BY <2>y, <4>1
    <3>6. CASE ~(X[a] <= T0[a])
      <4>1. SkySource(b1, a) /\ X[a] = MaxLevel
        BY <1>0, <1>6, <2>1, <2>x, <3>6
      <4>2. a \in Op
        BY <1>0, <1>2, <1>4, <2>1, <3>6, <4>1, <2>x
      <4>3. PICK e \in inc : e.at = a /\ e.level = MaxLevel /\ AllDirs \ {"up"} \subseteq e.dirs
        BY <1>3, <4>2
      <4>4. Back[d] # "up"
        BY <2>1, <2>5, <4>1, SkyAbove
      <4>. QED  BY <2>1, <2>y, <4>1, <4>3, <4>4 DEF Promised
    <3>. QED  BY <3>5, <3>6
  <2>. QED  BY <2>2, <2>3, <2>4, <2>5
<1>11. DecDark(b1, sky, X, dec, inc)
  <2>1. ASSUME NEW e \in dec
        PROVE  \/ X[e.at] = 0
               \/ /\ X[e.at] = MaxLevel /\ Source(b1, sky, e.at) = MaxLevel
                  /\ \E u \in inc : u.at = e.at /\ u.level = MaxLevel /\ e.dirs \subseteq u.dirs
    <3>1. CASE e.at \in Cl
      BY <1>5, <1>6, <3>1
    <3>2. CASE e.at = n /\ ~SkySource(b1, n)
      BY <1>3, <3>2
    <3>3. CASE e.at = n /\ SkySource(b1, n)
      BY <1>2, <1>3, <3>3
    <3>. QED  BY <1>3, <3>1, <3>2, <3>3
  <2>. QED  BY <2>1 DEF DecDark
<1>12. EmitsRight(b1, sky, inc)
  BY <1>3 DEF EmitsRight
<1>13. SourcesKept(b1, sky, X, inc)
  BY <1>0, <1>2, <1>6 DEF SourcesKept
<1>. QED  BY <1>7, <1>8, <1>9, <1>10, <1>11, <1>12, <1>13 DEF DecParts, sky

\* The cells of column x from height i to height j.
Stretch(x, i, j) == {<<x, z>> : z \in i..j}

\* A stretch has a cell for each height.
LEMMA StretchIs ==
  ASSUME NEW x, NEW i \in Int, NEW j \in Int, i <= j + 1
  PROVE  Cardinality(Stretch(x, i, j)) = j + 1 - i /\ IsFiniteSet(Stretch(x, i, j))
<1>1. Stretch(x, i, j) = {x} \X (i..j)
  BY DEF Stretch
<1>2. IsFiniteSet({x}) /\ Cardinality({x}) = 1
  BY FS_Singleton
<1>. DEFINE k == Cardinality(i..j)
<1>3. IsFiniteSet(i..j) /\ k = IF i > j THEN 0 ELSE j - i + 1
  BY FS_Interval
<1>4. IsFiniteSet({x} \X (i..j)) /\ Cardinality({x} \X (i..j)) = 1 * k
  BY <1>2, <1>3, FS_Product
<1>. HIDE DEF k
<1>5. 1 * k = j + 1 - i
  BY <1>3
<1>. QED  BY <1>1, <1>4, <1>5

\* Going down while the cells are good.
LEMMA DownIs ==
  ASSUME NEW x, NEW y \in Int, y >= -1, NEW good
  PROVE  LET s == DownWhile(x, y, good)
             m == y + 1 - Cardinality(s)
         IN /\ m \in 0..(y + 1) /\ s = Stretch(x, m, y)
            /\ Cardinality(s) = y + 1 - m /\ Cardinality(s) \in Nat
            /\ \A z \in m..y : <<x, z>> \in good
            /\ m > 0 => <<x, m - 1>> \notin good
<1>. DEFINE Z == {z \in 0..y : \A u \in z..y : <<x, u>> \in good}
            top == y + 1
<1>1. top \in Nat /\ Z \union {top} \subseteq Nat /\ Z \union {top} # {}
  OBVIOUS
<1>. HIDE DEF Z
<1>2. PICK m \in Z \union {top} : \A z \in Z \union {top} : m <= z
  BY <1>1, Smallest
<1>3. m \in 0..top
  BY <1>1, <1>2
<1>4. \A z \in m..y : <<x, z>> \in good
  <2>1. CASE m = top
    BY <2>1
  <2>2. CASE m # top
    <3>1. m \in Z
      BY <1>2, <2>2
    <3>. QED  BY <3>1 DEF Z
  <2>. QED  BY <2>1, <2>2
<1>5. Z = m..y
  <2>1. ASSUME NEW z \in Z PROVE z \in m..y
    <3>1. z \in 0..y /\ m <= z
      BY <1>2, <2>1 DEF Z
    <3>. QED  BY <1>3, <3>1
  <2>2. ASSUME NEW z \in m..y PROVE z \in Z
    <3>1. z \in 0..y /\ \A u \in z..y : u \in m..y
      BY <1>3, <2>2
    <3>. QED  BY <1>4, <3>1 DEF Z
  <2>. QED  BY <2>1, <2>2
<1>6. DownWhile(x, y, good) = Stretch(x, m, y)
  <2>1. DownWhile(x, y, good) = {<<x, z>> : z \in Z}
    BY DEF DownWhile, Z
  <2>. QED  BY <1>5, <2>1 DEF Stretch
<1>7. Cardinality(DownWhile(x, y, good)) = y + 1 - m
  BY <1>3, <1>6, StretchIs
<1>8. m > 0 => <<x, m - 1>> \notin good
  <2>1. ASSUME m > 0, <<x, m - 1>> \in good PROVE FALSE
    <3>1. m - 1 \in 0..y
      BY <1>3, <2>1
    <3>2. \A u \in (m - 1)..y : u = m - 1 \/ u \in m..y
      BY <1>3
    <3>3. m - 1 \in Z
      BY <1>4, <2>1, <3>1, <3>2 DEF Z
    <3>. QED  BY <1>2, <1>3, <3>3
  <2>. QED  BY <2>1
<1>. DEFINE k == Cardinality(DownWhile(x, y, good))
<1>9. k = y + 1 - m
  BY <1>7
<1>. HIDE DEF k
<1>10. y + 1 - k = m /\ k \in Nat
  BY <1>3, <1>9
<1>. QED  BY <1>3, <1>4, <1>6, <1>8, <1>9, <1>10 DEF k

\* Going up while the cells are good.
LEMMA UpIs ==
  ASSUME NEW x, NEW y \in 0..Height, NEW good
  PROVE  LET s == UpWhile(x, y, good)
             k == Cardinality(s)
         IN /\ k \in Nat /\ y + k <= Height /\ s = Stretch(x, y, y + k - 1)
            /\ \A z \in y..(y + k - 1) : <<x, z>> \in good
            /\ y + k < Height => <<x, y + k>> \notin good
<1>. DEFINE Z == {z \in y..(Height - 1) : \A u \in y..z : <<x, u>> \in good}
            N == {z \in y..Height : z = Height \/ <<x, z>> \notin good}
<1>0. Height \in Nat
  BY LightAssumption
<1>1. N \subseteq Nat /\ N # {}
  BY <1>0
<1>. HIDE DEF N
<1>2. PICK m \in N : \A z \in N : m <= z
  BY <1>1, Smallest
<1>3. m \in y..Height /\ (m = Height \/ <<x, m>> \notin good)
  BY <1>2 DEF N
<1>4. ASSUME NEW z \in y..(m - 1) PROVE <<x, z>> \in good
  <2>1. z \in y..Height /\ ~(m <= z)
    BY <1>0, <1>3
  <2>2. z \notin N
    BY <1>2, <2>1
  <2>. QED  BY <2>1, <2>2 DEF N
<1>5. Z = y..(m - 1)
  <2>1. ASSUME NEW z \in Z PROVE z \in y..(m - 1)
    <3>1. z \in y..(Height - 1) /\ \A u \in y..z : <<x, u>> \in good
      OBVIOUS
    <3>2. ~(m <= z)
      <4>1. ASSUME m <= z PROVE FALSE
        <5>1. m \in y..z /\ m # Height
          BY <1>0, <1>3, <3>1, <4>1
        <5>. QED  BY <1>3, <3>1, <5>1
      <4>. QED  BY <4>1
    <3>. QED  BY <1>0, <1>3, <3>1, <3>2
  <2>2. ASSUME NEW z \in y..(m - 1) PROVE z \in Z
    <3>1. z \in y..(Height - 1) /\ \A u \in y..z : u \in y..(m - 1)
      BY <1>0, <1>3
    <3>. QED  BY <1>4, <3>1
  <2>. QED  BY <2>1, <2>2
<1>6. UpWhile(x, y, good) = Stretch(x, y, m - 1)
  <2>1. UpWhile(x, y, good) = {<<x, z>> : z \in Z}
    BY DEF UpWhile
  <2>. HIDE DEF Z
  <2>. QED  BY <1>5, <2>1 DEF Stretch
<1>. DEFINE k == Cardinality(UpWhile(x, y, good))
<1>7. k = m - 1 + 1 - y
  <2>1. m - 1 \in Int /\ y \in Int /\ y <= m - 1 + 1
    BY <1>0, <1>3
  <2>. QED  BY <1>6, <2>1, StretchIs
<1>. HIDE DEF k
<1>8. k \in Nat /\ y + k <= Height /\ y + k = m /\ y + k - 1 = m - 1
  BY <1>0, <1>3, <1>7
<1>9. y + k < Height => <<x, y + k>> \notin good
  BY <1>0, <1>3, <1>8
<1>. QED  BY <1>4, <1>6, <1>8, <1>9 DEF k

\* The names that CheckSkyNode works with.
Open(lit, n)    == n[2] = Height - 1 \/ lit[<<n[1], n[2] + 1>>] = MaxLevel
Clear(b, n)     == DownWhile(n[1], n[2], {c \in Cells : Filter[b[c]] = 0})
Lowest(b, n)    == n[2] + 1 - Cardinality(Clear(b, n))
Gone(b, lit, n) == IF Open(lit, n) THEN RemovedSources(lit, n[1], Lowest(b, n)) ELSE {}
New(b, lit, n)  == IF Open(lit, n) THEN AddedSources(lit, n[1], Lowest(b, n)) ELSE {}

\* The sources it removes and adds are the cells that closed and opened.
LEMMA SkyMoves ==
  ASSUME NEW b0 \in [Cells -> States], NEW b1 \in [Cells -> States],
         NEW n \in Cells, NEW D, NEW lit, Before(b0, b1, TRUE, n, D, lit)
  PROVE  /\ Gone(b1, lit, n) = Closed(b0, b1)
         /\ New(b1, lit, n) = Opened(b0, b1)
         /\ SkySource(b1, n) <=> Open(lit, n) /\ Clear(b1, n) # {}
         /\ \E k \in Nat : /\ Cardinality(Gone(b1, lit, n)) = k
                           /\ Gone(b1, lit, n) = Stretch(n[1], Lowest(b1, n) - k, Lowest(b1, n) - 1)
         /\ \E k \in Nat : /\ Cardinality(New(b1, lit, n)) = k
                           /\ New(b1, lit, n) = Stretch(n[1], Lowest(b1, n), Lowest(b1, n) + k - 1)
         /\ Lowest(b1, n) \in Int
<1>. DEFINE x == n[1]
            y == n[2]
            T0 == TrueLight(b0, TRUE)
            low == Lowest(b1, n)
            Is(z) == SkySource(b1, <<x, z>>)
            Was(z) == SkySource(b0, <<x, z>>)
            Z1 == {c \in Cells : Filter[b1[c]] = 0}
<1>0. /\ Height \in Nat \ {0} /\ x \in Columns /\ y \in 0..(Height - 1) /\ n = <<x, y>>
      /\ MaxLevel \in Nat \ {0}
  BY LightAssumption DEF Cells, Heights
<1>1. \A z \in 0..(Height - 1) : <<x, z>> \in Cells
  BY <1>0 DEF Cells, Heights
<1>2. /\ \A c \in Cells : c # n => b0[c] = b1[c]
      /\ \A c \in D : lit[c] = T0[c]
      /\ DOMAIN lit = D
  BY DEF Before
<1>3. D \subseteq Cells /\ \A c \in Cells : c[1] = x => c \in D
  <2>. DEFINE sky == TRUE
  <2>1. sky \in BOOLEAN /\ Before(b0, b1, sky, n, D, lit)
    OBVIOUS
  <2>. HIDE DEF sky
  <2>. QED  BY <2>1, WindowIs
<1>4. \A z \in 0..(Height - 1) :
        /\ <<x, z>> \in D /\ <<x, z>>[1] = x
        /\ lit[<<x, z>>] = MaxLevel <=> Was(z)
  <2>1. ASSUME NEW z \in 0..(Height - 1)
        PROVE  <<x, z>> \in D /\ <<x, z>>[1] = x /\ (lit[<<x, z>>] = MaxLevel <=> Was(z))
    <3>1. <<x, z>> \in Cells /\ <<x, z>>[1] = x
      BY <1>1
    <3>2. <<x, z>> \in D
      BY <1>3, <3>1
    <3>3. TrueLight(b0, TRUE)[<<x, z>>] = MaxLevel <=> SkySource(b0, <<x, z>>)
      BY <3>1, SkyFull
    <3>. QED  BY <1>2, <3>1, <3>2, <3>3
  <2>. QED  BY <2>1
<1>. HIDE DEF T0
<1>5. /\ \A z \in Int : Is(z) <=> \A u \in z..(Height - 1) : Filter[b1[<<x, u>>]] = 0
      /\ \A z \in Int : Was(z) <=> \A u \in z..(Height - 1) : Filter[b0[<<x, u>>]] = 0
  BY DEF SkySource
<1>6. \A z \in 0..(Height - 1) : z # y => b0[<<x, z>>] = b1[<<x, z>>]
  BY <1>0, <1>1, <1>2
<1>7. \A c \in Cells : c[1] # x => SkySource(b0, c) = SkySource(b1, c)
  BY <1>2, SkyElsewhere
<1>8. /\ Closed(b0, b1) = {<<x, z>> : z \in {z \in 0..(Height - 1) : Was(z) /\ ~Is(z)}}
      /\ Opened(b0, b1) = {<<x, z>> : z \in {z \in 0..(Height - 1) : ~Was(z) /\ Is(z)}}
  <2>1. \A c \in Cells : c[1] = x => c[2] \in 0..(Height - 1) /\ c = <<x, c[2]>>
    BY DEF Cells, Heights
  <2>. HIDE DEF Is, Was, x
  <2>2. \A c \in Cells : SkySource(b0, c) # SkySource(b1, c) =>
              \E z \in 0..(Height - 1) : c = <<x, z>>
    BY <1>7, <2>1
  <2>3. \A z \in 0..(Height - 1) : /\ Was(z) <=> SkySource(b0, <<x, z>>)
                                   /\ Is(z) <=> SkySource(b1, <<x, z>>)
    BY DEF Is, Was
  <2>. QED  BY <1>1, <2>2, <2>3 DEF Closed, Opened
<1>. HIDE DEF Is, Was
<1>9. \A z, u \in 0..(Height - 1) : z <= u => (Was(z) => Was(u)) /\ (Is(z) => Is(u))
  <2>1. ASSUME NEW z \in 0..(Height - 1), NEW u \in 0..(Height - 1), z <= u
        PROVE  (Was(z) => Was(u)) /\ (Is(z) => Is(u))
    <3>1. z \in Int /\ u \in Int /\ u..(Height - 1) \subseteq z..(Height - 1)
      BY <2>1, <1>0
    <3>. QED  BY <1>5, <3>1
  <2>. QED  BY <2>1
<1>10. /\ low \in 0..(y + 1)
       /\ Clear(b1, n) = Stretch(x, low, y)
       /\ \A z \in low..y : Filter[b1[<<x, z>>]] = 0
       /\ low > 0 => Filter[b1[<<x, low - 1>>]] # 0
  <2>1. /\ low \in 0..(y + 1) /\ Clear(b1, n) = Stretch(x, low, y)
        /\ \A z \in low..y : <<x, z>> \in Z1
        /\ low > 0 => <<x, low - 1>> \notin Z1
    <3>1. y \in Int /\ y >= -1
      BY <1>0
    <3>. HIDE DEF Z1
    <3>2. Clear(b1, n) = DownWhile(x, y, Z1)
      BY DEF Clear, Z1
    <3>3. low = y + 1 - Cardinality(DownWhile(x, y, Z1))
      BY <3>2 DEF Lowest
    <3>. HIDE DEF x, y, low
    <3>. QED  BY <3>1, <3>2, <3>3, DownIs
  <2>2. low > 0 => low - 1 \in 0..(Height - 1)
    BY <1>0, <2>1
  <2>. HIDE DEF low, x, y
  <2>. QED  BY <1>1, <2>1, <2>2
<1>. HIDE DEF low, Z1
<1>11. ASSUME Open(lit, n), NEW z \in (y + 1)..(Height - 1) PROVE Was(z) /\ Is(z)
  <2>1. Was(y + 1)
    <3>1. y # Height - 1 /\ y + 1 \in 0..(Height - 1)
      BY <1>0
    <3>. QED  BY <1>4, <1>11, <3>1 DEF Open
  <2>2. z \in 0..(Height - 1) /\ y + 1 \in 0..(Height - 1) /\ y + 1 <= z
    BY <1>0
  <2>3. Was(z)
    BY <1>9, <2>1, <2>2
  <2>4. \A u \in z..(Height - 1) : u \in 0..(Height - 1) /\ u # y
    BY <1>0
  <2>5. Is(z)
    BY <1>5, <1>6, <2>2, <2>3, <2>4
  <2>. QED  BY <2>3, <2>5
<1>12. ASSUME ~Open(lit, n)
       PROVE  /\ \A z \in 0..y : ~Was(z) /\ ~Is(z)
              /\ \A z \in (y + 1)..(Height - 1) : Was(z) <=> Is(z)
  <2>1. y + 1 \in 0..(Height - 1) /\ ~Was(y + 1)
    BY <1>0, <1>4, <1>12 DEF Open
  <2>2. PICK u \in (y + 1)..(Height - 1) : Filter[b0[<<x, u>>]] # 0
    BY <1>5, <2>1
  <2>3. Filter[b1[<<x, u>>]] # 0
    <3>1. u \in 0..(Height - 1) /\ u # y
      BY <1>0, <2>2
    <3>. QED  BY <1>6, <2>2, <3>1
  <2>4. ASSUME NEW z \in 0..y PROVE ~Was(z) /\ ~Is(z)
    <3>1. z \in Int /\ u \in z..(Height - 1)
      BY <1>0, <2>2
    <3>. QED  BY <1>5, <2>2, <2>3, <3>1
  <2>5. ASSUME NEW z \in (y + 1)..(Height - 1) PROVE Was(z) <=> Is(z)
    <3>1. z \in Int /\ \A v \in z..(Height - 1) : v \in 0..(Height - 1) /\ v # y
      BY <1>0
    <3>. QED  BY <1>5, <1>6, <3>1
  <2>. QED  BY <2>4, <2>5
<1>13. ASSUME Open(lit, n), NEW z \in 0..(Height - 1) PROVE Is(z) <=> low <= z
  <2>1. ASSUME low <= z PROVE Is(z)
    <3>1. CASE z > y
      <4>1. z \in (y + 1)..(Height - 1)
        BY <1>0, <3>1
      <4>. QED  BY <1>11, <1>13, <4>1
    <3>2. CASE ~(z > y)
      <4>1. ASSUME NEW u \in z..(Height - 1) PROVE Filter[b1[<<x, u>>]] = 0
        <5>1. CASE u <= y
          <6>1. u \in low..y
            BY <1>0, <1>10, <2>1, <5>1
          <6>. QED  BY <1>10, <6>1
        <5>2. CASE ~(u <= y)
          <6>1. u \in (y + 1)..(Height - 1) /\ u \in Int /\ u \in u..(Height - 1)
            BY <1>0, <5>2
          <6>2. Is(u)
            BY <1>11, <1>13, <6>1
          <6>. QED  BY <1>5, <6>1, <6>2
        <5>. QED  BY <5>1, <5>2
      <4>2. z \in Int
        OBVIOUS
      <4>. QED  BY <1>5, <4>1, <4>2
    <3>. QED  BY <3>1, <3>2
  <2>2. ASSUME ~(low <= z) PROVE ~Is(z)
    <3>1. z \in Int /\ low - 1 \in z..(Height - 1) /\ low > 0
      BY <1>0, <1>10, <2>2
    <3>. QED  BY <1>5, <1>10, <3>1
  <2>. QED  BY <2>1, <2>2
<1>14. SkySource(b1, n) <=> Open(lit, n) /\ Clear(b1, n) # {}
  <2>1. SkySource(b1, n) <=> Is(y)
    BY <1>0 DEF Is
  <2>2. CASE Open(lit, n)
    <3>1. Is(y) <=> low <= y
      BY <1>0, <1>13, <2>2
    <3>2. Clear(b1, n) # {} <=> low <= y
      <4>1. low \in Int /\ y \in Int
        BY <1>0, <1>10
      <4>. HIDE DEF y, x
      <4>2. Stretch(x, low, y) # {} <=> low <= y
        <5>1. ASSUME low <= y PROVE <<x, low>> \in Stretch(x, low, y)
          BY <4>1, <5>1 DEF Stretch
        <5>2. ASSUME ~(low <= y) PROVE Stretch(x, low, y) = {}
          BY <4>1, <5>2 DEF Stretch
        <5>. QED  BY <5>1, <5>2
      <4>. QED  BY <1>10, <4>2
    <3>. QED  BY <2>1, <2>2, <3>1, <3>2
  <2>3. CASE ~Open(lit, n)
    BY <1>0, <1>12, <2>1, <2>3
  <2>. QED  BY <2>2, <2>3
<1>15. CASE ~Open(lit, n)
  <2>1. Gone(b1, lit, n) = {} /\ New(b1, lit, n) = {}
    BY <1>15 DEF Gone, New
  <2>2. \A z \in 0..(Height - 1) : Was(z) <=> Is(z)
    <3>1. \A z \in 0..(Height - 1) : z \in 0..y \/ z \in (y + 1)..(Height - 1)
      BY <1>0
    <3>. QED  BY <1>12, <1>15, <3>1
  <2>3. Closed(b0, b1) = {} /\ Opened(b0, b1) = {}
    BY <1>8, <2>2
  <2>4. /\ {} = Stretch(x, low - 0, low - 1) /\ {} = Stretch(x, low, low + 0 - 1)
        /\ low \in Int /\ Cardinality({}) = 0 /\ 0 \in Nat
    <3>1. low \in Int
      BY <1>10
    <3>. QED  BY <3>1, FS_EmptySet DEF Stretch
  <2>. QED  BY <1>14, <2>1, <2>3, <2>4 DEF low
<1>16. CASE Open(lit, n)
  <2>. DEFINE gone == DownWhile(x, low - 1, Bright(lit))
              new  == UpWhile(x, low, DOMAIN lit \ Bright(lit))
              j == Cardinality(gone)
              k == Cardinality(new)
              m == low - j
  <2>1. Gone(b1, lit, n) = gone /\ New(b1, lit, n) = new
    BY <1>16 DEF Gone, New, RemovedSources, AddedSources, low
  <2>2. \A z \in 0..(Height - 1) : /\ <<x, z>> \in Bright(lit) <=> Was(z)
                                   /\ <<x, z>> \in DOMAIN lit \ Bright(lit) <=> ~Was(z)
    BY <1>2, <1>4 DEF Bright
  <2>3. /\ m \in 0..low /\ gone = Stretch(x, m, low - 1) /\ j \in Nat
        /\ \A z \in m..(low - 1) : <<x, z>> \in Bright(lit)
        /\ m > 0 => <<x, m - 1>> \notin Bright(lit)
    <3>. DEFINE h == low - 1
    <3>1. h \in Int /\ h >= -1 /\ h + 1 = low
      BY <1>10
    <3>0. m = low - Cardinality(DownWhile(x, h, Bright(lit)))
      OBVIOUS
    <3>. HIDE DEF h, x, m
    <3>2. LET s == DownWhile(x, h, Bright(lit))
              i == h + 1 - Cardinality(s)
          IN /\ i \in 0..(h + 1) /\ s = Stretch(x, i, h)
             /\ Cardinality(s) = h + 1 - i /\ Cardinality(s) \in Nat
             /\ \A z \in i..h : <<x, z>> \in Bright(lit)
             /\ i > 0 => <<x, i - 1>> \notin Bright(lit)
      BY <3>1, DownIs
    <3>3. m = h + 1 - Cardinality(DownWhile(x, h, Bright(lit)))
      <4>. DEFINE i == Cardinality(DownWhile(x, h, Bright(lit)))
      <4>1. i \in Nat /\ m = low - i
        BY <3>0, <3>2
      <4>. HIDE DEF i
      <4>2. m = h + 1 - i
        BY <3>1, <4>1
      <4>. QED  BY <4>2 DEF i
    <3>. QED  BY <3>1, <3>2, <3>3 DEF h
  <2>4. /\ k \in Nat /\ low + k <= Height /\ new = Stretch(x, low, low + k - 1)
        /\ \A z \in low..(low + k - 1) : <<x, z>> \in DOMAIN lit \ Bright(lit)
        /\ low + k < Height => <<x, low + k>> \notin DOMAIN lit \ Bright(lit)
    <3>1. low \in 0..Height
      BY <1>0, <1>10
    <3>. DEFINE good == DOMAIN lit \ Bright(lit)
    <3>. HIDE DEF x, good
    <3>2. LET s == UpWhile(x, low, good)
              i == Cardinality(s)
          IN /\ i \in Nat /\ low + i <= Height /\ s = Stretch(x, low, low + i - 1)
             /\ \A z \in low..(low + i - 1) : <<x, z>> \in good
             /\ low + i < Height => <<x, low + i>> \notin good
      BY <3>1, UpIs
    <3>. QED  BY <3>2 DEF good
  <2>. HIDE DEF gone, new, j, k
  <2>5. gone = Closed(b0, b1)
    <3>1. ASSUME NEW z \in 0..(Height - 1)
          PROVE  (Was(z) /\ ~Is(z)) <=> z \in m..(low - 1)
      <4>1. Is(z) <=> low <= z
        BY <1>13, <1>16
      <4>2. low \in 0..Height /\ m \in 0..low /\ Height \in Nat
        BY <1>0, <1>10, <2>3
      <4>. HIDE DEF m
      <4>3. ASSUME z \in m..(low - 1) PROVE Was(z)
        BY <2>2, <2>3, <4>3
      <4>4. ASSUME Was(z), z < m PROVE FALSE
        <5>1. m - 1 \in 0..(Height - 1) /\ z <= m - 1 /\ m > 0
          BY <4>2, <4>4
        <5>. QED  BY <1>9, <2>2, <2>3, <4>4, <5>1
      <4>5. z \in m..(low - 1) <=> ~(low <= z) /\ ~(z < m)
        BY <4>2
      <4>. QED  BY <4>1, <4>3, <4>4, <4>5
    <3>2. m..(low - 1) \subseteq 0..(Height - 1)
      BY <1>0, <1>10, <2>3
    <3>. HIDE DEF m
    <3>3. {z \in 0..(Height - 1) : Was(z) /\ ~Is(z)} = m..(low - 1)
      BY <3>1, <3>2
    <3>. QED  BY <1>8, <2>3, <3>3 DEF Stretch
  <2>6. new = Opened(b0, b1)
    <3>1. ASSUME NEW z \in 0..(Height - 1)
          PROVE  (~Was(z) /\ Is(z)) <=> z \in low..(low + k - 1)
      <4>1. Is(z) <=> low <= z
        BY <1>13, <1>16
      <4>2. low \in 0..Height /\ k \in Nat /\ low + k <= Height /\ Height \in Nat
        BY <1>0, <1>10, <2>4
      <4>3. ASSUME z \in low..(low + k - 1) PROVE ~Was(z)
        BY <2>2, <2>4, <4>3
      <4>4. ASSUME ~Was(z), low + k <= z PROVE FALSE
        <5>1. low + k \in 0..(Height - 1) /\ low + k < Height
          BY <4>2, <4>4
        <5>. QED  BY <1>9, <2>2, <2>4, <4>4, <5>1
      <4>5. z \in low..(low + k - 1) <=> low <= z /\ ~(low + k <= z)
        BY <4>2
      <4>. QED  BY <4>1, <4>3, <4>4, <4>5
    <3>2. low..(low + k - 1) \subseteq 0..(Height - 1)
      BY <1>0, <1>10, <2>4
    <3>3. {z \in 0..(Height - 1) : ~Was(z) /\ Is(z)} = low..(low + k - 1)
      BY <3>1, <3>2
    <3>. QED  BY <1>8, <2>4, <3>3 DEF Stretch
  <2>7. low \in Int
    BY <1>10
  <2>. QED  BY <1>14, <2>1, <2>3, <2>4, <2>5, <2>6, <2>7 DEF low, j, k
<1>. QED  BY <1>15, <1>16

\* The sky light's queues begin as the decreases need.
LEMMA SkyBegins ==
  ASSUME NEW b0 \in [Cells -> States], NEW b1 \in [Cells -> States],
         NEW n \in Cells, NEW D, NEW lit, Before(b0, b1, TRUE, n, D, lit)
  PROVE  DecInv(b1, TRUE, n[1], D, TrueLight(b1, TRUE), CheckSkyNode(b1, lit, n))
<1>. DEFINE sky == TRUE
            x == n[1]
            T0 == TrueLight(b0, sky)
            T1 == TrueLight(b1, sky)
            w == CheckSkyNode(b1, lit, n)
            low == Lowest(b1, n)
            gone == Gone(b1, lit, n)
            new == New(b1, lit, n)
            moved == [c \in DOMAIN lit |->
                        IF c \in gone THEN 0 ELSE IF c \in new THEN MaxLevel ELSE lit[c]]
            down == [i \in 1..Cardinality(gone) |->
                        Entry(<<x, low - i>>, MaxLevel,
                              IF i = 1 THEN AllDirs ELSE AllDirs \ {"up"})]
            up == [i \in 1..Cardinality(new) |->
                        Entry(<<x, low + i - 1>>, MaxLevel, AllDirs \ {"up"})]
            self == Entry(n, MaxLevel, AllDirs \ {"up"})
            own == Entry(n, IF moved[n] > 0 THEN moved[n] ELSE 1, AllDirs)
            X == Whole(w.lit, T1)
            reach == SkySource(b1, n)
<1>0. MaxLevel \in Nat \ {0} /\ sky \in BOOLEAN
  BY LightAssumption
<1>1. /\ D \subseteq Cells /\ n \in D /\ x \in Columns
      /\ \A c \in Cells : c[1] = x => c \in D
      /\ \A c \in Cells \ D : T1[c] = T0[c]
  <2>1. Before(b0, b1, sky, n, D, lit)
    OBVIOUS
  <2>. HIDE DEF sky
  <2>. QED  BY <1>0, <2>1, WindowIs
<1>2. /\ \A c \in Cells : c # n => b0[c] = b1[c]
      /\ lit \in [D -> 0..MaxLevel] /\ DOMAIN lit = D
      /\ \A c \in D : lit[c] = T0[c]
  BY DEF Before
<1>3. /\ T0 \in [Cells -> 0..MaxLevel] /\ T1 \in [Cells -> 0..MaxLevel]
  <2>. HIDE DEF sky
  <2>. QED  BY <1>0, TruthIs
<1>4. \A c \in Cells : T0[c] = MaxLevel <=> SkySource(b0, c)
  BY SkyFull
<1>. HIDE DEF T0, T1, sky
<1>5. /\ gone = Closed(b0, b1) /\ new = Opened(b0, b1)
      /\ reach <=> Open(lit, n) /\ Clear(b1, n) # {}
      /\ low \in Int
      /\ \E k \in Nat : Cardinality(gone) = k /\ gone = Stretch(x, low - k, low - 1)
      /\ \E k \in Nat : Cardinality(new) = k /\ new = Stretch(x, low, low + k - 1)
  <2>1. /\ Gone(b1, lit, n) = Closed(b0, b1)
        /\ New(b1, lit, n) = Opened(b0, b1)
        /\ SkySource(b1, n) <=> Open(lit, n) /\ Clear(b1, n) # {}
        /\ \E k \in Nat : /\ Cardinality(Gone(b1, lit, n)) = k
                          /\ Gone(b1, lit, n) = Stretch(n[1], Lowest(b1, n) - k, Lowest(b1, n) - 1)
        /\ \E k \in Nat : /\ Cardinality(New(b1, lit, n)) = k
                          /\ New(b1, lit, n) = Stretch(n[1], Lowest(b1, n), Lowest(b1, n) + k - 1)
        /\ Lowest(b1, n) \in Int
    BY SkyMoves, Zenon
  <2>. QED  BY <2>1
<1>6. PICK g \in Nat : Cardinality(gone) = g /\ gone = Stretch(x, low - g, low - 1)
  BY <1>5
<1>7. PICK k \in Nat : Cardinality(new) = k /\ new = Stretch(x, low, low + k - 1)
  BY <1>5
<1>8. /\ \A c \in Cells : c \in gone <=> SkySource(b0, c) /\ ~SkySource(b1, c)
      /\ \A c \in Cells : c \in new <=> ~SkySource(b0, c) /\ SkySource(b1, c)
      /\ gone \subseteq Cells /\ new \subseteq Cells
  BY <1>5 DEF Closed, Opened
<1>9. w = IF reach THEN [lit |-> moved, dec |-> Append(down, self), inc |-> Append(up, self)]
          ELSE [lit |-> IF moved[n] > 0 THEN [moved EXCEPT ![n] = 0] ELSE moved,
                dec |-> down \o <<own>>, inc |-> up]
  <2>1. CASE reach
    <3>1. Open(lit, n) /\ Clear(b1, n) # {}
      BY <1>5, <2>1
    <3>. HIDE DEF reach
    <3>. QED  BY <2>1, <3>1 DEF CheckSkyNode, Open, Clear, Lowest, Gone, New
  <2>2. CASE ~reach
    <3>1. ~(Open(lit, n) /\ Clear(b1, n) # {})
      BY <1>5, <2>2
    <3>2. w = [Recheck(moved, n) EXCEPT !.dec = down \o @, !.inc = up]
      <4>. HIDE DEF reach
      <4>. QED  BY <3>1 DEF CheckSkyNode, Open, Clear, Lowest, Gone, New
    <3>3. Recheck(moved, n) = [lit |-> IF moved[n] > 0 THEN [moved EXCEPT ![n] = 0] ELSE moved,
                               dec |-> <<own>>, inc |-> <<>>]
      <4>. HIDE DEF moved
      <4>. QED  BY DEF Recheck
    <3>. DEFINE l == IF moved[n] > 0 THEN [moved EXCEPT ![n] = 0] ELSE moved
                one == <<own>>
                cat == down \o one
    <3>. HIDE DEF moved, down, up, own, w
    <3>4. w = [[lit |-> l, dec |-> one, inc |-> <<>>] EXCEPT !.dec = down \o @, !.inc = up]
      BY <3>2, <3>3
    <3>5. w = [[lit |-> l, dec |-> one, inc |-> <<>>] EXCEPT !.dec = cat, !.inc = up]
      <4>. HIDE DEF l, one
      <4>. QED  BY <3>4
    <3>6. w = [lit |-> l, dec |-> cat, inc |-> up]
      <4>. HIDE DEF l, one, cat
      <4>. QED  BY <3>5
    <3>. QED  BY <2>2, <3>6
  <2>. QED  BY <2>1, <2>2
<1>. HIDE DEF w, gone, new, low, reach
<1>10. /\ moved \in [D -> 0..MaxLevel]
       /\ \A c \in D : moved[c] = IF c \in gone THEN 0 ELSE IF c \in new THEN MaxLevel ELSE T0[c]
  BY <1>0, <1>1, <1>2
<1>. HIDE DEF moved
<1>11. /\ moved[n] \in 0..MaxLevel
       /\ own \in Entries(D) /\ own.at = n /\ own.dirs = AllDirs /\ own.level \in 1..MaxLevel
       /\ own.level = IF moved[n] > 0 THEN moved[n] ELSE 1
       /\ self \in Entries(D) /\ self.at = n /\ self.level = MaxLevel
       /\ self.dirs = AllDirs \ {"up"} /\ ~self.emit
  <2>1. moved[n] \in 0..MaxLevel
    BY <1>1, <1>10
  <2>. DEFINE l == IF moved[n] > 0 THEN moved[n] ELSE 1
  <2>2. l \in 1..MaxLevel /\ l \in 0..MaxLevel
    BY <1>0, <2>1
  <2>3. own = Entry(n, l, AllDirs)
    OBVIOUS
  <2>. HIDE DEF l, own
  <2>4. own \in Entries(D) /\ own.at = n /\ own.dirs = AllDirs /\ own.level = l
    BY <1>0, <1>1, <2>2, <2>3 DEF Entry, Entries
  <2>5. self \in Entries(D) /\ self.at = n /\ self.level = MaxLevel
        /\ self.dirs = AllDirs \ {"up"} /\ self.emit = FALSE
    BY <1>0, <1>1 DEF Entry, Entries
  <2>. HIDE DEF self
  <2>. QED  BY <2>1, <2>2, <2>4, <2>5 DEF l
<1>. HIDE DEF own, self
<1>12. ASSUME NEW i \in 1..g
       PROVE  /\ <<x, low - i>> \in gone /\ <<x, low - i>> \in D /\ down[i] \in Entries(D)
              /\ down[i].at = <<x, low - i>> /\ down[i].level = MaxLevel
              /\ AllDirs \ {"up"} \subseteq down[i].dirs
              /\ i = 1 => "up" \in down[i].dirs
  <2>1. low - i \in (low - g)..(low - 1)
    BY <1>5
  <2>2. <<x, low - i>> \in gone
    BY <1>6, <2>1 DEF Stretch
  <2>3. <<x, low - i>> \in D
    BY <1>1, <1>8, <2>2
  <2>. DEFINE ds == IF i = 1 THEN AllDirs ELSE AllDirs \ {"up"}
  <2>4. down[i] = Entry(<<x, low - i>>, MaxLevel, ds)
    BY <1>6
  <2>5. ds \subseteq AllDirs /\ AllDirs \ {"up"} \subseteq ds /\ (i = 1 => "up" \in ds)
    BY DEF AllDirs
  <2>. HIDE DEF ds, down
  <2>. QED  BY <1>0, <2>2, <2>3, <2>4, <2>5 DEF Entry, Entries
<1>13. ASSUME NEW i \in 1..k
       PROVE  /\ <<x, low + i - 1>> \in new /\ <<x, low + i - 1>> \in D /\ up[i] \in Entries(D)
              /\ up[i].at = <<x, low + i - 1>> /\ up[i].level = MaxLevel
              /\ up[i].dirs = AllDirs \ {"up"} /\ ~up[i].emit
  <2>1. low + i - 1 \in low..(low + k - 1)
    BY <1>5
  <2>2. <<x, low + i - 1>> \in new
    BY <1>7, <2>1 DEF Stretch
  <2>3. <<x, low + i - 1>> \in D
    BY <1>1, <1>8, <2>2
  <2>4. up[i] = Entry(<<x, low + i - 1>>, MaxLevel, AllDirs \ {"up"})
    BY <1>7
  <2>. HIDE DEF up
  <2>5. up[i].emit = FALSE
    BY <2>4 DEF Entry
  <2>. QED  BY <1>0, <2>2, <2>3, <2>4, <2>5 DEF Entry, Entries
<1>14. /\ down \in Seq(Entries(D)) /\ Among(down) = {down[i] : i \in 1..g}
       /\ up \in Seq(Entries(D)) /\ Among(up) = {up[i] : i \in 1..k}
  <2>. DEFINE E == Entries(D)
  <2>1. /\ g \in Nat /\ down = [i \in 1..g |-> down[i]]
        /\ k \in Nat /\ up = [i \in 1..k |-> up[i]]
    BY <1>6, <1>7
  <2>2. /\ \A i \in 1..g : down[i] \in E
        /\ \A i \in 1..k : up[i] \in E
    BY <1>12, <1>13
  <2>. HIDE DEF down, up, E
  <2>3. down \in [1..g -> E] /\ up \in [1..k -> E]
    BY <2>1, <2>2
  <2>4. down \in Seq(E) /\ Len(down) = g /\ up \in Seq(E) /\ Len(up) = k
    BY <2>1, <2>3
  <2>5. /\ Among(down) = {down[i] : i \in 1..g}
        /\ Among(up) = {up[i] : i \in 1..k}
    BY <2>4 DEF Among
  <2>. QED  BY <2>4, <2>5 DEF E
<1>. HIDE DEF down, up
<1>15. /\ w \in Works(D)
       /\ Among(w.dec) = Among(down) \union {IF reach THEN self ELSE own}
       /\ Among(w.inc) = Among(up) \union (IF reach THEN {self} ELSE {})
       /\ \A c \in D : c # n => w.lit[c] = moved[c]
       /\ w.lit[n] = IF reach THEN moved[n] ELSE 0
  <2>1. /\ \A e : <<e>> \in Seq({e}) /\ Among(<<e>>) = {e}
        /\ <<self>> \in Seq(Entries(D)) /\ <<own>> \in Seq(Entries(D))
    BY <1>11, AmongSingle
  <2>2. CASE reach
    <3>0. Append(down, self) = down \o <<self>> /\ Append(up, self) = up \o <<self>>
      BY <1>14
    <3>1. /\ w = [lit |-> moved, dec |-> down \o <<self>>, inc |-> up \o <<self>>]
      BY <1>9, <2>2, <3>0
    <3>2. /\ down \o <<self>> \in Seq(Entries(D)) /\ up \o <<self>> \in Seq(Entries(D))
          /\ Among(down \o <<self>>) = Among(down) \union {self}
          /\ Among(up \o <<self>>) = Among(up) \union {self}
      <4>. DEFINE one == <<self>>
      <4>1. one \in Seq(Entries(D)) /\ Among(one) = {self}
        BY <2>1
      <4>. HIDE DEF one
      <4>2. /\ down \o one \in Seq(Entries(D)) /\ up \o one \in Seq(Entries(D))
            /\ Among(down \o one) = Among(down) \union Among(one)
            /\ Among(up \o one) = Among(up) \union Among(one)
        BY <1>14, <4>1, AmongConcat
      <4>3. Among(one) = {self}
        BY <4>1
      <4>. QED  BY <4>2, <4>3 DEF one
    <3>. QED  BY <1>10, <2>2, <3>1, <3>2 DEF Works
  <2>3. CASE ~reach
    <3>. DEFINE l == IF moved[n] > 0 THEN [moved EXCEPT ![n] = 0] ELSE moved
    <3>1. /\ w = [lit |-> l, dec |-> down \o <<own>>, inc |-> up]
      BY <1>9, <2>3
    <3>2. /\ down \o <<own>> \in Seq(Entries(D))
          /\ Among(down \o <<own>>) = Among(down) \union {own}
      <4>. DEFINE one == <<own>>
      <4>1. one \in Seq(Entries(D)) /\ Among(one) = {own}
        BY <2>1
      <4>. HIDE DEF one
      <4>2. /\ down \o one \in Seq(Entries(D))
            /\ Among(down \o one) = Among(down) \union Among(one)
        BY <1>14, <4>1, AmongConcat
      <4>. QED  BY <4>1, <4>2 DEF one
    <3>3. /\ l \in [D -> 0..MaxLevel] /\ \A c \in D : c # n => l[c] = moved[c]
          /\ l[n] = 0
      BY <1>0, <1>1, <1>10, <1>11
    <3>. HIDE DEF l
    <3>. QED  BY <1>14, <2>3, <3>1, <3>2, <3>3 DEF Works
  <2>. QED  BY <2>2, <2>3
<1>16. /\ X \in [Cells -> 0..MaxLevel]
       /\ \A c \in Cells : c # n =>
             X[c] = IF c \in gone THEN 0 ELSE IF c \in new THEN MaxLevel ELSE T0[c]
       /\ X[n] = IF reach THEN MaxLevel ELSE 0
  <2>1. /\ X \in [Cells -> 0..MaxLevel]
        /\ \A c \in D : X[c] = w.lit[c]
        /\ \A c \in Cells \ D : X[c] = T1[c]
    BY <1>1, <1>3, <1>15, WholeIs
  <2>. HIDE DEF X
  <2>2. ASSUME NEW c \in Cells, c # n
        PROVE  X[c] = IF c \in gone THEN 0 ELSE IF c \in new THEN MaxLevel ELSE T0[c]
    <3>1. CASE c \in D
      BY <1>10, <1>15, <2>1, <2>2, <3>1
    <3>2. CASE c \notin D
      <4>1. c[1] # x
        BY <1>1, <3>2
      <4>2. SkySource(b0, c) = SkySource(b1, c)
        BY <1>2, <4>1, SkyElsewhere
      <4>3. c \notin gone /\ c \notin new
        BY <1>8, <4>2
      <4>. QED  BY <1>1, <2>1, <3>2, <4>3
    <3>. QED  BY <3>1, <3>2
  <2>3. X[n] = IF reach THEN MaxLevel ELSE 0
    <3>1. CASE reach
      <4>1. moved[n] = MaxLevel
        <5>1. SkySource(b1, n)
          BY <3>1 DEF reach
        <5>2. n \notin gone /\ (n \in new \/ SkySource(b0, n))
          BY <1>8, <5>1
        <5>3. n \in new \/ T0[n] = MaxLevel
          BY <1>4, <5>2
        <5>. QED  BY <1>1, <1>10, <5>2, <5>3
      <4>. QED  BY <1>1, <1>15, <2>1, <3>1, <4>1
    <3>2. CASE ~reach
      BY <1>1, <1>15, <2>1, <3>2
    <3>. QED  BY <3>1, <3>2
  <2>. QED  BY <2>1, <2>2, <2>3
<1>. HIDE DEF X
<1>17. \A c \in gone : \E e \in Among(w.dec) :
           /\ e.at = c /\ e.level = MaxLevel /\ AllDirs \ {"up"} \subseteq e.dirs
           /\ "up" \in e.dirs \/ Step(c, "up") \in gone
  <2>1. ASSUME NEW c \in gone
        PROVE  \E e \in Among(w.dec) :
           /\ e.at = c /\ e.level = MaxLevel /\ AllDirs \ {"up"} \subseteq e.dirs
           /\ "up" \in e.dirs \/ Step(c, "up") \in gone
    <3>1. PICK z \in (low - g)..(low - 1) : c = <<x, z>>
      BY <1>6 DEF Stretch
    <3>. DEFINE i == low - z
    <3>2. i \in 1..g /\ low - i = z
      BY <1>5, <3>1
    <3>3. down[i].at = c /\ down[i] \in Among(w.dec)
      <4>. HIDE DEF i
      <4>. QED  BY <1>12, <1>14, <1>15, <3>1, <3>2
    <3>4. i # 1 => Step(c, "up") \in gone
      <4>1. i # 1 => z + 1 \in (low - g)..(low - 1)
        BY <1>5, <3>1, <3>2
      <4>2. i # 1 => <<x, z + 1>> \in gone
        BY <1>6, <4>1 DEF Stretch
      <4>3. Step(c, "up") = <<x, z + 1>>
        <5>1. c \in Cells /\ "up" \in AllDirs
          BY <1>8 DEF AllDirs
        <5>2. Step(c, "up") = <<Off(c[1], 0), c[2] + 1>>
          BY <5>1, StepIs DEF ColumnStep, HeightStep
        <5>3. Off(x, 0) = x
          BY <1>1, OffZero
        <5>. QED  BY <3>1, <5>2, <5>3
      <4>. QED  BY <4>2, <4>3
    <3>. HIDE DEF i
    <3>5. down[i].level = MaxLevel /\ AllDirs \ {"up"} \subseteq down[i].dirs
          /\ (i = 1 => "up" \in down[i].dirs)
      BY <1>12, <3>2
    <3>. QED  BY <3>3, <3>4, <3>5
  <2>. QED  BY <2>1
<1>18. \A c \in new : \E e \in Among(w.inc) :
           e.at = c /\ e.level = MaxLevel /\ AllDirs \ {"up"} \subseteq e.dirs
  <2>1. ASSUME NEW c \in new
        PROVE  \E e \in Among(w.inc) :
           e.at = c /\ e.level = MaxLevel /\ AllDirs \ {"up"} \subseteq e.dirs
    <3>1. PICK z \in low..(low + k - 1) : c = <<x, z>>
      BY <1>7 DEF Stretch
    <3>. DEFINE i == z - low + 1
    <3>2. i \in 1..k /\ low + i - 1 = z
      BY <1>5, <3>1
    <3>. HIDE DEF i
    <3>3. up[i].at = c /\ up[i] \in Among(w.inc)
      BY <1>13, <1>14, <1>15, <3>1, <3>2
    <3>4. up[i].level = MaxLevel /\ up[i].dirs = AllDirs \ {"up"}
      BY <1>13, <3>2
    <3>. QED  BY <3>3, <3>4
  <2>. QED  BY <2>1
<1>19. \A e \in Among(w.inc) : ~e.emit
  <2>1. \A e \in Among(up) : ~e.emit
    BY <1>13, <1>14
  <2>. QED  BY <1>11, <1>15, <2>1
<1>20. \A e \in Among(w.dec) :
           /\ e.level \in 1..MaxLevel
           /\ e.at = n \/ e.at \in gone
           /\ e.at = n /\ reach =>
                  \E u \in Among(w.inc) : u.at = n /\ u.level = MaxLevel /\ e.dirs \subseteq u.dirs
  <2>1. ASSUME NEW e \in Among(down) PROVE e.level \in 1..MaxLevel /\ e.at \in gone
    <3>1. PICK i \in 1..g : e = down[i]
      BY <1>14, <2>1
    <3>2. down[i].at \in gone /\ down[i].level = MaxLevel
      BY <1>12
    <3>. QED  BY <1>0, <3>1, <3>2
  <2>2. n \in gone => ~reach
    BY <1>8 DEF reach
  <2>3. ASSUME reach
        PROVE  \E u \in Among(w.inc) : u.at = n /\ u.level = MaxLevel /\ self.dirs \subseteq u.dirs
    BY <1>11, <1>15, <2>3
  <2>. QED  BY <1>0, <1>11, <1>15, <2>1, <2>2, <2>3
<1>21. ~reach => \E e \in Among(w.dec) :
           /\ e.at = n /\ e.dirs = AllDirs
           /\ T0[n] > 0 /\ ~SkySource(b0, n) => e.level = T0[n]
  <2>1. ASSUME ~reach, T0[n] > 0, ~SkySource(b0, n) PROVE own.level = T0[n]
    <3>1. n \notin gone /\ n \notin new
      BY <1>8, <2>1 DEF reach
    <3>2. moved[n] = T0[n]
      BY <1>1, <1>10, <3>1
    <3>. QED  BY <1>11, <2>1, <3>2
  <2>. QED  BY <1>11, <1>15, <2>1
<1>22. SkyStart(b0, b1, n, T0, X, Among(w.dec), Among(w.inc))
  <2>1. gone = Closed(b0, b1) /\ new = Opened(b0, b1) /\ (reach <=> SkySource(b1, n))
    BY <1>5 DEF reach
  <2>. HIDE DEF x
  <2>. QED  BY <1>16, <1>17, <1>18, <1>19, <1>20, <1>21, <2>1 DEF SkyStart
<1>23. DecParts(b1, TRUE, n[1], D, X, Among(w.dec), Among(w.inc))
  <2>1. SkyStart(b0, b1, n, TrueLight(b0, TRUE), X, Among(w.dec), Among(w.inc))
    BY <1>22 DEF T0, sky
  <2>. DEFINE dec == Among(w.dec)  inc == Among(w.inc)
  <2>. HIDE DEF dec, inc
  <2>2. DecParts(b1, TRUE, n[1], D, X, dec, inc)
    BY <1>1, <1>2, <2>1, SkyParts, Zenon DEF dec, inc
  <2>. QED  BY <2>2 DEF dec, inc
<1>24. DecInv(b1, sky, n[1], D, T1, w)
  <2>1. DecParts(b1, sky, n[1], D, X, Among(w.dec), Among(w.inc))
    BY <1>23 DEF sky
  <2>. QED  BY <1>15, <2>1 DEF DecInv, X
<1>. QED  BY <1>24 DEF w, T1, sky

\* The light of the cells D is what the blocks of the whole world give them.
Shows(l, D, b) ==
    \A c \in D : /\ l.sky[c] = TrueLight(b, TRUE)[c]
                /\ l.block[c] = TrueLight(b, FALSE)[c]

\* relightLocked: when the light of a window round cell n was right before n
\* changed, the two queues of the relight leave it right for what n is now.
THEOREM RelitIs ==
  ASSUME NEW b0 \in [Cells -> States], NEW b1 \in [Cells -> States], NEW n \in Cells,
         \A c \in Cells : c # n => b0[c] = b1[c],
         NEW D, Covers(n[1], D), NEW lit, Shows(lit, D, b0),
         lit.sky \in [D -> 0..MaxLevel], lit.block \in [D -> 0..MaxLevel]
  PROVE  Shows(Relit(b1, lit, n, b0[n]), D, b1)
<1>. DEFINE filter == Filter[b0[n]] # Filter[b1[n]]
            emission == Emission[b0[n]] # Emission[b1[n]]
            block == IF filter \/ emission
                     THEN Run(b1, FALSE, CheckBlockNode(b1, lit.block, n)) ELSE lit.block
            sky == IF filter THEN Run(b1, TRUE, CheckSkyNode(b1, lit.sky, n)) ELSE lit.sky
<1>1. Relit(b1, lit, n, b0[n]) = [block |-> block, sky |-> sky]
  BY Zenon DEF Relit
<1>2. n[1] \in Columns /\ D \subseteq Cells /\ Covers(n[1], D)
  BY DEF Cells, Covers
<1>3. /\ \A c \in D : lit.sky[c] = TrueLight(b0, TRUE)[c]
      /\ \A c \in D : lit.block[c] = TrueLight(b0, FALSE)[c]
  BY Zenon DEF Shows
<1>7. /\ Before(b0, b1, TRUE, n, D, lit.sky)
      /\ Before(b0, b1, FALSE, n, D, lit.block)
  BY <1>3, Zenon DEF Before
<1>4. ASSUME NEW c \in D PROVE block[c] = TrueLight(b1, FALSE)[c]
  <2>1. CASE filter \/ emission
    <3>1. DecInv(b1, FALSE, n[1], D, TrueLight(b1, FALSE), CheckBlockNode(b1, lit.block, n))
      BY <1>7, BlockBegins, Zenon
    <3>. DEFINE work == CheckBlockNode(b1, lit.block, n)  dark == FALSE
    <3>2. dark \in BOOLEAN /\ DecInv(b1, dark, n[1], D, TrueLight(b1, dark), work)
      BY <3>1
    <3>. HIDE DEF work, dark
    <3>3. Run(b1, dark, work)[c] = TrueLight(b1, dark)[c]
      BY <1>2, <3>2, RunIs
    <3>4. block = Run(b1, dark, work)
      BY <2>1 DEF work, dark
    <3>5. block[c] = TrueLight(b1, dark)[c]
      BY <3>3, <3>4
    <3>. QED  BY <3>5 DEF dark
  <2>2. CASE ~(filter \/ emission)
    <3>. DEFINE dark == FALSE
    <3>1. /\ \A a \in Cells : Filter[b0[a]] = Filter[b1[a]]
          /\ \A a \in Cells : Emission[b0[a]] = Emission[b1[a]]
          /\ dark \in BOOLEAN
      BY <1>3, <2>2
    <3>. HIDE DEF dark
    <3>2. TrueLight(b0, dark) = TrueLight(b1, dark)
      BY <3>1, TruthSame
    <3>3. TrueLight(b0, FALSE) = TrueLight(b1, FALSE)
      BY <3>2 DEF dark
    <3>. QED  BY <1>3, <2>2, <3>3
  <2>. QED  BY <2>1, <2>2
<1>5. ASSUME NEW c \in D PROVE sky[c] = TrueLight(b1, TRUE)[c]
  <2>1. CASE filter
    <3>1. DecInv(b1, TRUE, n[1], D, TrueLight(b1, TRUE), CheckSkyNode(b1, lit.sky, n))
      BY <1>7, SkyBegins, Zenon
    <3>. DEFINE work == CheckSkyNode(b1, lit.sky, n)  lamp == TRUE
    <3>2. lamp \in BOOLEAN /\ DecInv(b1, lamp, n[1], D, TrueLight(b1, lamp), work)
      BY <3>1
    <3>. HIDE DEF work, lamp
    <3>3. Run(b1, lamp, work)[c] = TrueLight(b1, lamp)[c]
      BY <1>2, <3>2, RunIs
    <3>4. sky = Run(b1, lamp, work)
      BY <2>1 DEF work, lamp
    <3>5. sky[c] = TrueLight(b1, lamp)[c]
      BY <3>3, <3>4
    <3>. QED  BY <3>5 DEF lamp
  <2>2. CASE ~filter
    <3>. DEFINE lamp == TRUE
    <3>1. /\ \A a \in Cells : Filter[b0[a]] = Filter[b1[a]]
          /\ lamp \in BOOLEAN /\ lamp
      BY <1>3, <2>2
    <3>. HIDE DEF lamp
    <3>2. TrueLight(b0, lamp) = TrueLight(b1, lamp)
      <4>1. lamp \/ \A a \in Cells : Emission[b0[a]] = Emission[b1[a]]
        BY <3>1, Zenon
      <4>. QED  BY <3>1, <4>1, TruthSame
    <3>3. TrueLight(b0, TRUE) = TrueLight(b1, TRUE)
      BY <3>2 DEF lamp
    <3>. QED  BY <1>3, <2>2, <3>3
  <2>. QED  BY <2>1, <2>2
<1>. HIDE DEF block, sky
<1>6. /\ Relit(b1, lit, n, b0[n]).sky = sky
      /\ Relit(b1, lit, n, b0[n]).block = block
  BY <1>1
<1>. QED  BY <1>4, <1>5, <1>6, Zenon DEF Shows

-----------------------------------------------------------------------------
(* The light cache.                                                        *)

\* The chunks beside a chunk of the ring.
LEMMA BesideIs ==
  ASSUME NEW k \in Chunks
  PROVE  /\ Beside(k, -1) = IF k = 0 THEN NChunks - 1 ELSE k - 1
         /\ Beside(k, 0) = k
         /\ Beside(k, 1) = IF k = NChunks - 1 THEN 0 ELSE k + 1
         /\ NChunks \in Nat /\ NChunks >= 4 /\ k \in 0..(NChunks - 1)
<1>1. NChunks \in Nat \ {0} /\ NChunks >= 4 /\ k \in 0..(NChunks - 1)
  BY LightAssumption DEF Chunks
<1>2. ASSUME NEW d \in {-1, 0, 1}
      PROVE  /\ k + NChunks + d < NChunks => Beside(k, d) = k + NChunks + d
             /\ NChunks <= k + NChunks + d /\ k + NChunks + d < 2 * NChunks => Beside(k, d) = k + d
             /\ 2 * NChunks <= k + NChunks + d => Beside(k, d) = k + d - NChunks
  <2>. DEFINE a == k + NChunks + d
  <2>1. a \in Int /\ 0 <= a /\ a < 3 * NChunks
    BY <1>1
  <2>2. Beside(k, d) = a % NChunks
    BY DEF Beside
  <2>. HIDE DEF a
  <2>3. /\ a < NChunks => a % NChunks = a
        /\ NChunks <= a /\ a < 2 * NChunks => a % NChunks = a - NChunks
        /\ 2 * NChunks <= a => a % NChunks = a - 2 * NChunks
    BY <1>1, <2>1, Remainder
  <2>4. a = k + NChunks + d
    BY DEF a
  <2>. QED  BY <1>1, <2>2, <2>3, <2>4
<1>. QED  BY <1>1, <1>2

\* To be beside a chunk is mutual.
LEMMA BesideBack ==
  ASSUME NEW k \in Chunks, NEW j \in Around(k)
  PROVE  k \in Around(j) /\ j \in Chunks
<1>1. j \in Chunks
  BY BesideType DEF Around
<1>2. j = Beside(k, -1) \/ j = k \/ j = Beside(k, 1)
  BY BesideIs DEF Around
<1>3. k = Beside(j, -1) \/ k = Beside(j, 0) \/ k = Beside(j, 1)
  BY <1>1, <1>2, BesideIs
<1>. QED  BY <1>1, <1>3 DEF Around

\* The window of an edit covers what its light can reach, within the 3x3.
LEMMA WindowCovers ==
  ASSUME NEW n \in Cells
  PROVE  /\ Covers(n[1], CellsOf(Window(n)))
         /\ Window(n) \subseteq Around(ChunkOf(n)) /\ Around(ChunkOf(n)) \subseteq Chunks
<1>. DEFINE x == n[1]
<1>1. x \in Columns
  BY DEF Cells
<1>2. Window(n) = {ChunkOf(<<Off(x, i), 0>>) : i \in (-MaxLevel)..MaxLevel}
  BY DEF Window, Off
<1>3. \A y : ChunkOf(<<y, 0>>) = y \div ChunkWidth
  BY DEF ChunkOf
<1>. HIDE DEF x
<1>4. Window(n) = {y \div ChunkWidth : y \in Close(x, MaxLevel)}
  BY <1>2, <1>3 DEF Close
<1>5. Window(n) \subseteq Around(x \div ChunkWidth)
  BY <1>1, <1>4, CloseChunk
<1>6. x \div ChunkWidth = ChunkOf(n) /\ ChunkOf(n) \in Chunks
  BY ChunkType DEF x, ChunkOf
<1>7. Around(ChunkOf(n)) \subseteq Chunks
  BY <1>6, BesideBack
<1>8. ASSUME NEW c \in Cells, c[1] \in Close(x, MaxLevel) PROVE c \in CellsOf(Window(n))
  BY <1>4, <1>8 DEF CellsOf, ChunkOf
<1>9. CellsOf(Window(n)) \subseteq Cells
  BY DEF CellsOf
<1>. QED  BY <1>5, <1>6, <1>7, <1>8, <1>9 DEF Covers, x

\* What a relight gives chunk k, of the window's new light.
Part(relit, k) == [sky   |-> [d \in CellsOf({k}) |-> relit.sky[d]],
                   block |-> [d \in CellsOf({k}) |-> relit.block[d]]]

\* A relight leaves the right light in the window, and light stays right away
\* from the edit: outside of the window, so also outside of the 3x3.
LEMMA RelightShows ==
  ASSUME NEW b0 \in [Cells -> States], NEW b1 \in [Cells -> States], NEW n \in Cells,
         \A c \in Cells : c # n => b0[c] = b1[c],
         NEW L, \A k \in DOMAIN L : Shows(L[k], CellsOf({k}), b0),
         DOMAIN L \subseteq Chunks, NEW k \in Chunks
  PROVE  LET W    == Window(n)
             old  == [sky   |-> [d \in CellsOf(W) |-> L[ChunkOf(d)].sky[d]],
                      block |-> [d \in CellsOf(W) |-> L[ChunkOf(d)].block[d]]]
             relit == Relit(b1, old, n, b0[n])
         IN /\ k \in DOMAIN L \ W => Shows(L[k], CellsOf({k}), b1)
            /\ W \subseteq DOMAIN L /\ k \in W => Shows(Part(relit, k), CellsOf({k}), b1)
<1>. DEFINE W    == Window(n)
            D    == CellsOf(W)
            sky  == [d \in D |-> L[ChunkOf(d)].sky[d]]
            block == [d \in D |-> L[ChunkOf(d)].block[d]]
            old  == [sky |-> sky, block |-> block]
            relit == Relit(b1, old, n, b0[n])
<1>1. Covers(n[1], D)
  BY WindowCovers
<1>2. ASSUME k \in DOMAIN L \ W PROVE Shows(L[k], CellsOf({k}), b1)
  <2>. SUFFICES ASSUME NEW c \in CellsOf({k})
                PROVE  /\ L[k].sky[c] = TrueLight(b1, TRUE)[c]
                       /\ L[k].block[c] = TrueLight(b1, FALSE)[c]
    BY DEF Shows
  <2>1. c \in Cells /\ c \notin D
    BY <1>2 DEF CellsOf
  <2>2. c[1] \notin Close(n[1], MaxLevel - 1)
    <3>. DEFINE j == MaxLevel - 1
    <3>1. j \in Int /\ j <= MaxLevel /\ MaxLevel \in Int
      BY LightAssumption
    <3>. HIDE DEF j
    <3>2. Close(n[1], j) \subseteq Close(n[1], MaxLevel)
      BY <3>1, CloseMono
    <3>3. c[1] \notin Close(n[1], j)
      BY <1>1, <2>1, <3>2 DEF Covers
    <3>. QED  BY <3>3 DEF j
  <2>3. ASSUME NEW v \in BOOLEAN PROVE TrueLight(b0, v)[c] = TrueLight(b1, v)[c]
    BY <2>1, <2>2, TruthFar
  <2>4. /\ TrueLight(b0, TRUE)[c] = TrueLight(b1, TRUE)[c]
        /\ TrueLight(b0, FALSE)[c] = TrueLight(b1, FALSE)[c]
    BY <2>3, Zenon
  <2>5. /\ L[k].sky[c] = TrueLight(b0, TRUE)[c]
        /\ L[k].block[c] = TrueLight(b0, FALSE)[c]
    BY <1>2, Zenon DEF Shows
  <2>. QED  BY <2>4, <2>5
<1>3. ASSUME W \subseteq DOMAIN L, k \in W PROVE Shows(Part(relit, k), CellsOf({k}), b1)
  <2>1. ASSUME NEW d \in D
        PROVE  /\ sky[d] = TrueLight(b0, TRUE)[d] /\ sky[d] \in 0..MaxLevel
               /\ block[d] = TrueLight(b0, FALSE)[d] /\ block[d] \in 0..MaxLevel
    <3>1. d \in Cells /\ ChunkOf(d) \in DOMAIN L /\ d \in CellsOf({ChunkOf(d)})
      BY <1>3 DEF CellsOf
    <3>2. /\ sky[d] = TrueLight(b0, TRUE)[d]
          /\ block[d] = TrueLight(b0, FALSE)[d]
      BY <3>1, Zenon DEF Shows
    <3>3. ASSUME NEW v \in BOOLEAN PROVE TrueLight(b0, v)[d] \in 0..MaxLevel
      BY <3>1, TruthIs
    <3>4. TrueLight(b0, TRUE)[d] \in 0..MaxLevel /\ TrueLight(b0, FALSE)[d] \in 0..MaxLevel
      BY <3>3, Zenon
    <3>. QED  BY <3>2, <3>4
  <2>2. sky \in [D -> 0..MaxLevel] /\ block \in [D -> 0..MaxLevel]
    BY <2>1
  <2>3. old.sky = sky /\ old.block = block
    OBVIOUS
  <2>. HIDE DEF sky, block, old, D
  <2>4. Shows(old, D, b0)
    BY <2>1, <2>3, Zenon DEF Shows
  <2>5. old.sky \in [D -> 0..MaxLevel] /\ old.block \in [D -> 0..MaxLevel]
    BY <2>2, <2>3
  <2>6. Shows(relit, D, b1)
    BY <1>1, <2>4, <2>5, RelitIs
  <2>7. CellsOf({k}) \subseteq D
    BY <1>3 DEF CellsOf, D
  <2>. HIDE DEF relit
  <2>8. \A c \in CellsOf({k}) : /\ Part(relit, k).sky[c] = relit.sky[c]
                                /\ Part(relit, k).block[c] = relit.block[c]
    BY DEF Part
  <2>9. \A c \in CellsOf({k}) : /\ relit.sky[c] = TrueLight(b1, TRUE)[c]
                                /\ relit.block[c] = TrueLight(b1, FALSE)[c]
    BY <2>6, <2>7, Zenon DEF Shows
  <2>. QED  BY <2>8, <2>9, Zenon DEF Shows
<1>. QED  BY <1>2, <1>3, Zenon

-----------------------------------------------------------------------------
(* What the light cache rests on, between the steps of edits and fills.    *)

\* Every cached chunk has the light that blocks b give it.
LitBy(b) == \A k \in DOMAIN light : Shows(light[k], CellsOf({k}), b)

\* The blocks as they were before the edit that thread t has yet to relight.
Was(t) == [Blocks EXCEPT ![job[t].cell] = job[t].old]

\* The chunks a fill of k reads, in order.
Reads(k) == <<Beside(k, -1), k, Beside(k, 1)>>

\* What a copy of an overlay says of a cell.
Says(saw, c) == IF c \in DOMAIN saw THEN saw[c] ELSE Terrain[c]

\* What a fill has read is still so, but for the cell whose relight is due.
Copied(t) ==
    \A i \in 1..Len(job[t].seen) : i <= 3 =>
        /\ DOMAIN job[t].seen[i] \subseteq CellsOf({Reads(job[t].chunk)[i]})
        /\ \A c \in CellsOf({Reads(job[t].chunk)[i]}) :
               \/ Says(job[t].seen[i], c) = At(c)
               \/ lightMu # NoOne /\ c = job[lightMu].cell

\* The cache has the light of the blocks; while a relight is due, that of the
\* blocks before its edit.  A fill that no relight overtook has read right.
LightInv ==
    /\ lightMu = NoOne => LitBy(Blocks)
    /\ lightMu # NoOne => job[lightMu].old \in States /\ LitBy(Was(lightMu))
    /\ \A t \in Fillers : pc[t] = "fill" => t \in overtaken \/ Copied(t)

\* The blocks are states.
LEMMA BlocksType ==
  ASSUME TypeInv
  PROVE  Blocks \in [Cells -> States] /\ \A c \in Cells : Blocks[c] = At(c)
  BY AtType DEF Blocks

\* The thread that holds the lock is an editor, about to relight its cell.
LEMMA HolderIs ==
  ASSUME TypeInv, NEW t \in Threads, pc[t] = "relight"
  PROVE  /\ lightMu = t /\ t \in Editors /\ t # NoOne
         /\ job[t].cell \in Cells /\ job[t].cell \in Sites
<1>1. lightMu = t
  BY DEF TypeInv, Locked
<1>2. t # NoOne
  BY CachesAssumption
<1>3. t \in Editors
  BY <1>1, <1>2 DEF TypeInv, Locked
<1>4. job[t].cell \in Sites
  BY DEF TypeInv, Threaded, Edits
<1>. QED  BY <1>1, <1>2, <1>3, <1>4, CachesAssumption

\* What changes neither blocks, lock nor cache, and no fill but one that reads.
LEMMA LightSteady ==
  ASSUME TypeInv, LightInv, NEW t \in Threads, pc[t] # "relight",
         \A c \in Cells : At(c)' = At(c), UNCHANGED <<lightMu, light>>,
         \A u \in Threads \ {t} : pc'[u] = pc[u] /\ job'[u] = job[u],
         \A u \in Fillers \ {t} : u \in overtaken => u \in overtaken',
         t \in Fillers /\ pc'[t] = "fill" => t \in overtaken' \/ Copied(t)'
  PROVE  LightInv'
<1>1. Blocks' = Blocks
  BY DEF Blocks
<1>2. lightMu # NoOne => /\ lightMu \in Editors /\ lightMu \in Threads /\ lightMu # t
                         /\ job'[lightMu] = job[lightMu]
  BY DEF TypeInv, Locked, Threads
<1>3. lightMu' = NoOne => LitBy(Blocks)'
  BY <1>1 DEF LightInv, LitBy
<1>4. lightMu' # NoOne => (job[lightMu].old \in States /\ LitBy(Was(lightMu)))'
  BY <1>1, <1>2 DEF LightInv, LitBy, Was
<1>5. ASSUME NEW u \in Fillers, pc'[u] = "fill", u \notin overtaken' PROVE Copied(u)'
  <2>1. CASE u = t
    BY <1>5, <2>1
  <2>2. CASE u # t
    <3>1. u \in Threads /\ pc[u] = "fill" /\ job'[u] = job[u] /\ u \notin overtaken
      BY <1>5, <2>2 DEF Threads
    <3>2. Copied(u)
      BY <3>1 DEF LightInv
    <3>3. ASSUME NEW i \in 1..Len(job[u].seen), i <= 3
          PROVE  /\ DOMAIN job[u].seen[i] \subseteq CellsOf({Reads(job[u].chunk)[i]})
                 /\ \A c \in CellsOf({Reads(job[u].chunk)[i]}) :
                        \/ Says(job[u].seen[i], c) = At(c)'
                        \/ lightMu' # NoOne /\ c = job'[lightMu'].cell
      BY <1>2, <3>2, <3>3 DEF Copied, CellsOf
    <3>4. \A saw, c : Says(saw, c)' = Says(saw', c')
      BY DEF Says
    <3>. QED  BY <3>1, <3>3 DEF Copied, Reads, Says, CellsOf, ChunkOf, Beside
  <2>. QED  BY <2>1, <2>2
<1>. QED  BY <1>3, <1>4, <1>5 DEF LightInv

\* An edit goes on to relight what was there, unless nothing changes.
LEMMA EditRelights ==
  ASSUME TypeInv, NEW t \in Editors, NEW c \in Sites,
         RevertEdit(t, c) \/ \E s \in Placeable[c] : SetBlock(t, c, s)
  PROVE  /\ lightMu' = NoOne => At(c)' = At(c)
         /\ lightMu' # NoOne => job'[t].old = At(c)
<1>1. t \in Threads /\ t # NoOne
  BY CachesAssumption DEF Threads
<1>2. ASSUME NEW now, NEW relights \in BOOLEAN, Write(t, c, now, relights)
      PROVE  /\ job'[t].old = At(c) /\ edits' = now
             /\ lightMu' = IF relights THEN t ELSE NoOne
  <2>. DEFINE step == IF relights THEN "relight" ELSE "index"
              what == [cell |-> c, old |-> At(c),
                       state |-> IF c \in DOMAIN now THEN now[c] ELSE Terrain[c]]
  <2>1. /\ step \in Phases /\ Become(t, step, what) /\ what.old = At(c)
        /\ edits' = now /\ lightMu' = IF relights THEN t ELSE NoOne
    BY <1>2 DEF Write, Phases
  <2>. HIDE DEF step, what
  <2>2. job'[t] = what
    BY <1>1, <2>1, Becoming DEF TypeInv
  <2>. QED  BY <2>1, <2>2
<1>3. ASSUME RevertEdit(t, c)
      PROVE  /\ lightMu' = NoOne => At(c)' = At(c)
             /\ lightMu' # NoOne => job'[t].old = At(c)
  <2>. DEFINE now == Without(edits, {c})  relights == c \in DOMAIN edits
  <2>1. relights \in BOOLEAN /\ Write(t, c, now, relights)
    BY <1>3 DEF RevertEdit
  <2>2. c \notin DOMAIN now /\ (lightMu' = NoOne => c \notin DOMAIN edits)
    <3>. HIDE DEF now
    <3>1. relights => lightMu' = t
      <4>. HIDE DEF relights
      <4>. QED  BY <1>2, <2>1
    <3>2. c \notin DOMAIN now
      BY DEF now, Without
    <3>. QED  BY <1>1, <3>1, <3>2
  <2>. HIDE DEF now, relights
  <2>3. job'[t].old = At(c) /\ edits' = now
    BY <1>2, <2>1
  <2>. QED  BY <2>2, <2>3 DEF At
<1>4. ASSUME NEW s \in Placeable[c], SetBlock(t, c, s)
      PROVE  /\ lightMu' = NoOne => At(c)' = At(c)
             /\ lightMu' # NoOne => job'[t].old = At(c)
  <2>1. CASE ChunkOf(c) \in loaded /\ Terrain[c] = s
    BY <1>3, <1>4, <2>1 DEF SetBlock
  <2>2. CASE ~(ChunkOf(c) \in loaded /\ Terrain[c] = s)
    <3>. DEFINE now == With(edits, c, s)  relights == TRUE
    <3>1. relights /\ relights \in BOOLEAN /\ Write(t, c, now, relights)
      BY <1>4, <2>2 DEF SetBlock
    <3>. HIDE DEF now, relights
    <3>. QED  BY <1>1, <1>2, <3>1
  <2>. QED  BY <2>1, <2>2
<1>. QED  BY <1>3, <1>4

\* While the relight is due, the cache has the light of before the edit, and
\* fills that read before it disagree with the blocks at the edited cell only.
LEMMA LightEdit ==
  ASSUME TypeInv, LightInv, NEW t \in Editors, NEW c \in Sites,
         RevertEdit(t, c) \/ \E s \in Placeable[c] : SetBlock(t, c, s)
  PROVE  LightInv'
<1>1. /\ t \in Threads /\ t # NoOne /\ c \in Cells
      /\ lightMu = NoOne /\ pc[t] = "idle" /\ lightMu' \in {t, NoOne}
      /\ pc'[t] \in {"relight", "index"}
      /\ \A u \in Threads \ {t} : pc'[u] = pc[u] /\ job'[u] = job[u]
      /\ job'[t].cell = c /\ UNCHANGED <<light, overtaken>>
      /\ \A d \in Cells \ {c} : At(d)' = At(d)
  BY EditOfOne, CachesAssumption DEF Edited, Threads
<1>2. /\ lightMu' = NoOne => At(c)' = At(c)
      /\ lightMu' # NoOne => job'[t].old = At(c)
  BY EditRelights
<1>3. CASE lightMu' = NoOne
  <2>1. \A d \in Cells : At(d)' = At(d)
    BY <1>1, <1>2, <1>3
  <2>. QED  BY <1>1, <1>3, <2>1, LightSteady
<1>4. CASE lightMu' = t
  <2>1. job'[t].old = At(c) /\ At(c) \in States
    BY <1>1, <1>2, <1>4, AtType
  <2>2. Was(t)' = Blocks
    <3>. DEFINE b == Blocks  new == Blocks'
    <3>1. /\ b = [d \in Cells |-> b[d]] /\ new = [d \in Cells |-> new[d]]
          /\ \A d \in Cells \ {c} : new[d] = b[d]
          /\ b[c] = At(c)
      BY <1>1 DEF Blocks
    <3>2. Was(t)' = [new EXCEPT ![c] = At(c)]
      BY <1>1, <2>1 DEF Was
    <3>. HIDE DEF b, new
    <3>3. [new EXCEPT ![c] = At(c)] = b
      BY <1>1, <3>1
    <3>. QED  BY <3>2, <3>3 DEF b
  <2>3. (job[lightMu].old \in States /\ LitBy(Was(lightMu)))'
    <3>1. LitBy(Blocks)
      BY <1>1 DEF LightInv
    <3>2. Was(lightMu)' = Was(t)'
      BY <1>4 DEF Was
    <3>. QED  BY <1>1, <1>4, <2>1, <2>2, <3>1, <3>2 DEF LitBy
  <2>4. ASSUME NEW u \in Fillers, pc'[u] = "fill", u \notin overtaken' PROVE Copied(u)'
    <3>1. u # t /\ u \in Threads /\ pc[u] = "fill" /\ u \notin overtaken /\ job'[u] = job[u]
      BY <1>1, <2>4 DEF Threads
    <3>2. Copied(u)
      BY <3>1 DEF LightInv
    <3>3. ASSUME NEW i \in 1..Len(job[u].seen), i <= 3
          PROVE  /\ DOMAIN job[u].seen[i] \subseteq CellsOf({Reads(job[u].chunk)[i]})
                 /\ \A d \in CellsOf({Reads(job[u].chunk)[i]}) :
                        \/ Says(job[u].seen[i], d) = At(d)'
                        \/ lightMu' # NoOne /\ d = job'[lightMu'].cell
      BY <1>1, <1>4, <3>2, <3>3 DEF Copied, CellsOf
    <3>. QED  BY <3>1, <3>3 DEF Copied, Reads, Says, CellsOf, ChunkOf, Beside
  <2>. QED  BY <1>1, <1>4, <2>3, <2>4 DEF LightInv
<1>. QED  BY <1>1, <1>3, <1>4

\* A relight brings the cache up to the blocks, and overtakes every fill that
\* may have read the cell as it was.
LEMMA LightRelight ==
  ASSUME TypeInv, LightInv, NEW t \in Editors, Relight(t)
  PROVE  LightInv'
<1>. DEFINE c     == job[t].cell
            W     == Window(c)
            old   == [sky   |-> [d \in CellsOf(W) |-> light[ChunkOf(d)].sky[d]],
                      block |-> [d \in CellsOf(W) |-> light[ChunkOf(d)].block[d]]]
            b0    == Was(t)
            b1    == Blocks
            relit == Relit(b1, old, c, b0[c])
<1>1. /\ t \in Threads /\ pc[t] = "relight" /\ Become(t, "index", job[t])
      /\ lightMu' = NoOne /\ UNCHANGED edits
      /\ overtaken' = overtaken \union
             {u \in Fillers : pc[u] = "fill" /\ job[u].chunk \in Around(ChunkOf(c))}
  BY DEF Relight, Threads
<1>2. /\ pc'[t] = "index" /\ \A u \in Threads : job'[u] = job[u]
      /\ \A u \in Threads \ {t} : pc'[u] = pc[u]
  BY <1>1, Becoming DEF TypeInv, Phases
<1>3. lightMu = t /\ t # NoOne /\ c \in Cells
  BY <1>1, HolderIs
<1>4. Blocks' = Blocks
  BY <1>1 DEF Blocks, At
<1>5. /\ b1 \in [Cells -> States] /\ b0 \in [Cells -> States] /\ b0[c] = job[t].old
      /\ \A d \in Cells : d # c => b0[d] = b1[d]
      /\ LitBy(b0)
  <2>1. job[t].old \in States /\ LitBy(b0)
    BY <1>3 DEF LightInv
  <2>2. b1 \in [Cells -> States]
    BY BlocksType
  <2>3. b0 = [b1 EXCEPT ![c] = job[t].old]
    BY DEF Was
  <2>. HIDE DEF b0, b1, c
  <2>. QED  BY <1>3, <2>1, <2>2, <2>3
<1>6. light' = IF W \subseteq DOMAIN light
               THEN [k \in DOMAIN light |-> IF k \in W THEN Part(relit, k) ELSE light[k]]
               ELSE Without(light, Around(ChunkOf(c)))
  <2>1. b0[c] = job[t].old
    BY <1>5
  <2>. HIDE DEF b0
  <2>. QED  BY <2>1 DEF Relight, Part
<1>7. W \subseteq Around(ChunkOf(c)) /\ DOMAIN light \subseteq Chunks
  BY <1>3, WindowCovers DEF TypeInv, TypeOK
<1>8. ASSUME NEW k \in DOMAIN light
      PROVE  /\ k \notin W => Shows(light[k], CellsOf({k}), b1)
             /\ W \subseteq DOMAIN light /\ k \in W => Shows(Part(relit, k), CellsOf({k}), b1)
  <2>1. \A l \in DOMAIN light : Shows(light[l], CellsOf({l}), b0)
    BY <1>5 DEF LitBy
  <2>2. k \in Chunks
    BY <1>7
  <2>. HIDE DEF b0, b1, c
  <2>. QED  BY <1>3, <1>5, <1>7, <2>1, <2>2, RelightShows
<1>. HIDE DEF relit, W, c
<1>9. LitBy(Blocks)'
  <2>1. ASSUME NEW k \in DOMAIN light' PROVE Shows(light'[k], CellsOf({k}), b1)
    <3>1. CASE W \subseteq DOMAIN light
      BY <1>6, <1>8, <2>1, <3>1
    <3>2. CASE ~(W \subseteq DOMAIN light)
      <4>1. k \in DOMAIN light \ Around(ChunkOf(c)) /\ light'[k] = light[k]
        BY <1>6, <2>1, <3>2 DEF Without
      <4>. QED  BY <1>7, <1>8, <4>1
    <3>. QED  BY <3>1, <3>2
  <2>. QED  BY <1>4, <2>1 DEF LitBy
<1>10. ASSUME NEW u \in Fillers, pc'[u] = "fill", u \notin overtaken' PROVE Copied(u)'
  <2>1. u # t /\ u \in Threads /\ pc[u] = "fill" /\ u \notin overtaken /\ job'[u] = job[u]
    BY <1>1, <1>2, <1>10 DEF Threads
  <2>2. job[u].chunk \in Chunks /\ job[u].chunk \notin Around(ChunkOf(c))
    BY <1>1, <1>10, <2>1 DEF TypeInv, Threaded, c
  <2>. DEFINE k == job[u].chunk
  <2>3. Copied(u)
    BY <2>1 DEF LightInv
  <2>4. ASSUME NEW i \in 1..3 PROVE Reads(k)[i] # ChunkOf(c)
    <3>1. Reads(k)[1] = Beside(k, -1) /\ Reads(k)[2] = k /\ Reads(k)[3] = Beside(k, 1)
      BY DEF Reads
    <3>2. Beside(k, 0) = k
      BY <2>2, BesideIs
    <3>. HIDE DEF k
    <3>3. Reads(k)[i] \in Around(k)
      BY <3>1, <3>2 DEF Around
    <3>. QED  BY <2>2, <3>3, BesideBack DEF k
  <2>5. \A i \in 1..3 : c \notin CellsOf({Reads(k)[i]})
    BY <2>4 DEF CellsOf
  <2>6. ASSUME NEW i \in 1..Len(job[u].seen), i <= 3
        PROVE  /\ DOMAIN job[u].seen[i] \subseteq CellsOf({Reads(k)[i]})
               /\ \A d \in CellsOf({Reads(k)[i]}) : Says(job[u].seen[i], d) = At(d)
    <3>1. i \in 1..3
      BY <2>6
    <3>. QED  BY <1>3, <2>3, <2>5, <2>6, <3>1 DEF Copied, c
  <2>7. \A d : At(d)' = At(d')
    BY <1>1 DEF At
  <2>. QED  BY <1>1, <2>1, <2>6 DEF Copied, Reads, Says, CellsOf, ChunkOf, Beside, At
<1>. QED  BY <1>1, <1>9, <1>10 DEF LightInv

\* A fill begins with nothing read.
LEMMA LightBegin ==
  ASSUME TypeInv, LightInv, NEW t \in Fillers, NEW k \in Asked, BeginFill(t, k)
  PROVE  LightInv'
<1>. DEFINE what == [cell |-> <<0, 0>>, chunk |-> k, seen |-> <<>>]
<1>1. /\ t \in Threads /\ pc[t] = "idle" /\ Become(t, "fill", what)
      /\ overtaken' = overtaken \ {t} /\ UNCHANGED <<edits, lightMu, light>>
  BY DEF BeginFill, Threads
<1>2. Len(what.seen) = 0
  OBVIOUS
<1>. HIDE DEF what
<1>3. /\ job'[t] = what
      /\ \A u \in Threads \ {t} : pc'[u] = pc[u] /\ job'[u] = job[u]
  BY <1>1, Becoming DEF TypeInv, Phases
<1>4. Copied(t)'
  BY <1>2, <1>3 DEF Copied
<1>5. \A c \in Cells : At(c)' = At(c)
  BY <1>1 DEF At
<1>. QED  BY <1>1, <1>3, <1>4, <1>5, LightSteady

\* What a fill reads of a chunk is what its blocks are.
LEMMA LightRead ==
  ASSUME TypeInv, LightInv, NEW t \in Fillers, ReadChunk(t)
  PROVE  LightInv'
<1>. DEFINE k    == job[t].chunk
            seen == job[t].seen
            n    == Len(seen) + 1
            D    == DOMAIN edits \intersect CellsOf({Reads(k)[n]})
            saw  == Restrict(edits, D)
            what == [job[t] EXCEPT !.seen = Append(@, saw)]
<1>1. /\ t \in Threads /\ pc[t] = "fill" /\ n <= 3 /\ Become(t, "fill", what)
      /\ UNCHANGED <<edits, lightMu, light, overtaken>>
  BY DEF ReadChunk, Threads, Reads
<1>2. seen \in Seq(Overlays)
  BY <1>1 DEF TypeInv, Threaded
<1>3. DOMAIN saw = D /\ \A c \in D : saw[c] = edits[c]
  BY DEF Restrict
<1>. HIDE DEF saw
<1>4. /\ job'[t] = what
      /\ \A u \in Threads \ {t} : pc'[u] = pc[u] /\ job'[u] = job[u]
  BY <1>1, Becoming DEF TypeInv, Phases
<1>5. job'[t].chunk = k /\ job'[t].seen = Append(seen, saw)
  <2>1. what.chunk = k /\ what.seen = Append(seen, saw)
    BY <1>2
  <2>. HIDE DEF what, k, seen
  <2>. QED  BY <1>4, <2>1
<1>. HIDE DEF what, k, seen
<1>6. ASSUME t \notin overtaken PROVE Copied(t)'
  <2>1. Copied(t)
    BY <1>1, <1>6 DEF LightInv
  <2>2. Len(Append(seen, saw)) = n /\ n \in Nat /\ n >= 1 /\ Len(seen) = n - 1
    BY <1>2
  <2>3. ASSUME NEW i \in 1..n, i <= 3
        PROVE  /\ DOMAIN Append(seen, saw)[i] \subseteq CellsOf({Reads(k)[i]})
               /\ \A c \in CellsOf({Reads(k)[i]}) :
                      \/ Says(Append(seen, saw)[i], c) = At(c)
                      \/ lightMu # NoOne /\ c = job[lightMu].cell
    <3>1. CASE i = n
      <4>1. Append(seen, saw)[i] = saw
        BY <1>2, <3>1
      <4>2. D \subseteq CellsOf({Reads(k)[i]})
        BY <3>1
      <4>3. ASSUME NEW c \in CellsOf({Reads(k)[i]}) PROVE Says(saw, c) = At(c)
        BY <1>3, <3>1 DEF Says, At
      <4>. HIDE DEF D, n
      <4>. QED  BY <1>3, <4>1, <4>2, <4>3
    <3>2. CASE i # n
      <4>1. i \in 1..Len(seen) /\ Append(seen, saw)[i] = seen[i]
        BY <1>2, <2>2, <3>2
      <4>. HIDE DEF n
      <4>. QED  BY <2>1, <2>3, <4>1 DEF Copied, k, seen
    <3>. QED  BY <3>1, <3>2
  <2>. HIDE DEF n
  <2>4. lightMu # NoOne => lightMu \in Threads /\ lightMu # t
    BY <1>1 DEF TypeInv, Locked, Threads
  <2>5. lightMu # NoOne => job'[lightMu] = job[lightMu]
    BY <1>4, <2>4
  <2>. QED  BY <1>1, <1>5, <2>2, <2>3, <2>5 DEF Copied, Reads, Says, CellsOf, ChunkOf, Beside, At
<1>7. \A c \in Cells : At(c)' = At(c)
  BY <1>1 DEF At
<1>. QED  BY <1>1, <1>4, <1>6, <1>7, LightSteady

\* A fill that has read its three chunks right has seen the blocks.
LEMMA SeenIs ==
  ASSUME TypeInv, NEW t \in Threads, pc[t] = "fill", Len(job[t].seen) = 3,
         Copied(t), lightMu = NoOne
  PROVE  /\ DOMAIN Seen(job[t]) = CellsOf(Around(job[t].chunk))
         /\ \A c \in CellsOf(Around(job[t].chunk)) : Seen(job[t])[c] = Blocks[c]
<1>. DEFINE k   == job[t].chunk
            R   == CellsOf(Around(k))
            saw == [i \in 1..3 |-> job[t].seen[i]]
            U   == UNION {DOMAIN saw[i] : i \in 1..3}
            first(c) == CHOOSE i \in 1..3 : c \in DOMAIN saw[i]
            all == [c \in U |-> saw[first(c)][c]]
<1>1. Seen(job[t]) = [c \in R |-> IF c \in DOMAIN all THEN all[c] ELSE Terrain[c]]
  BY Zenon DEF Seen
<1>2. k \in Chunks
  BY DEF TypeInv, Threaded
<1>3. ASSUME NEW i \in 1..3
      PROVE  /\ DOMAIN saw[i] \subseteq CellsOf({Reads(k)[i]})
             /\ \A c \in CellsOf({Reads(k)[i]}) : Says(saw[i], c) = At(c)
  <2>1. i \in 1..Len(job[t].seen) /\ i <= 3 /\ saw[i] = job[t].seen[i]
    OBVIOUS
  <2>2. /\ DOMAIN job[t].seen[i] \subseteq CellsOf({Reads(k)[i]})
        /\ \A c \in CellsOf({Reads(k)[i]}) : Says(job[t].seen[i], c) = At(c)
    BY <2>1 DEF Copied
  <2>. HIDE DEF saw, k
  <2>. QED  BY <2>1, <2>2
<1>4. ASSUME NEW c \in R PROVE (IF c \in U THEN saw[first(c)][c] ELSE Terrain[c]) = At(c)
  <2>1. CASE c \in U
    <3>. HIDE DEF saw
    <3>1. \E i \in 1..3 : c \in DOMAIN saw[i]
      BY <2>1
    <3>2. first(c) \in 1..3 /\ c \in DOMAIN saw[first(c)]
      BY <3>1
    <3>. HIDE DEF first
    <3>3. saw[first(c)][c] = At(c)
      BY <1>3, <3>2 DEF Says
    <3>. QED  BY <2>1, <3>3
  <2>2. CASE c \notin U
    <3>. HIDE DEF saw
    <3>1. c \in Cells /\ ChunkOf(c) \in Around(k)
      BY DEF CellsOf
    <3>2. Reads(k)[1] = Beside(k, -1) /\ Reads(k)[2] = k /\ Reads(k)[3] = Beside(k, 1)
      BY DEF Reads
    <3>3. Beside(k, 0) = k
      BY <1>2, BesideIs
    <3>. HIDE DEF k
    <3>4. PICK i \in 1..3 : ChunkOf(c) = Reads(k)[i]
      BY <3>1, <3>2, <3>3 DEF Around
    <3>5. c \in CellsOf({Reads(k)[i]}) /\ c \notin DOMAIN saw[i]
      BY <2>2, <3>1, <3>4 DEF CellsOf
    <3>6. Terrain[c] = At(c)
      BY <1>3, <3>5 DEF Says
    <3>. QED  BY <2>2, <3>6
  <2>. QED  BY <2>1, <2>2
<1>5. DOMAIN all = U /\ \A c \in U : all[c] = saw[first(c)][c]
  OBVIOUS
<1>6. \A c \in R : c \in Cells
  BY DEF CellsOf
<1>. HIDE DEF all, U, first, saw, R
<1>7. DOMAIN Seen(job[t]) = R /\ \A c \in R : Seen(job[t])[c] = Blocks[c]
  BY <1>1, <1>4, <1>5, <1>6 DEF Blocks
<1>. QED  BY <1>7 DEF R

\* A fill that is cached has the light of the blocks, and whatever the cap
\* drops, the rest of the cache is as it was.
LEMMA LightEndFill ==
  ASSUME TypeInv, LightInv, NEW t \in Fillers, EndFill(t)
  PROVE  LightInv'
<1>. DEFINE k   == job[t].chunk
            new == Fill(Seen(job[t]), k)
<1>1. /\ t \in Threads /\ pc[t] = "fill" /\ Become(t, "idle", Idle) /\ Len(job[t].seen) = 3
      /\ lightMu = NoOne /\ overtaken' = overtaken \ {t} /\ UNCHANGED <<edits, lightMu>>
      /\ light' = light \/ (t \notin overtaken /\ light' \in CacheTrimmed(With(light, k, new), k))
  BY DEF EndFill, Done, Overtaken, Threads
<1>2. /\ pc'[t] = "idle"
      /\ \A u \in Threads \ {t} : pc'[u] = pc[u] /\ job'[u] = job[u]
  BY <1>1, Becoming DEF TypeInv, Phases
<1>3. \A c \in Cells : At(c)' = At(c)
  BY <1>1 DEF At
<1>4. Blocks' = Blocks
  BY <1>3 DEF Blocks
<1>5. CASE light' = light
  BY <1>1, <1>2, <1>3, <1>5, LightSteady
<1>6. CASE t \notin overtaken /\ light' \in CacheTrimmed(With(light, k, new), k)
  <2>1. Shows(new, CellsOf({k}), Blocks)
    <3>1. Copied(t)
      BY <1>1, <1>6 DEF LightInv
    <3>2. /\ DOMAIN Seen(job[t]) = CellsOf(Around(k))
          /\ \A c \in CellsOf(Around(k)) : Seen(job[t])[c] = Blocks[c]
      BY <1>1, <3>1, SeenIs
    <3>3. k \in Chunks /\ Blocks \in [Cells -> States]
      BY <1>1, BlocksType DEF TypeInv, Threaded
    <3>. DEFINE s == Seen(job[t])  b == Blocks
    <3>. HIDE DEF s, b, k
    <3>4. \A c \in CellsOf({k}) : /\ Fill(s, k).sky[c] = TrueLight(b, TRUE)[c]
                                  /\ Fill(s, k).block[c] = TrueLight(b, FALSE)[c]
      BY <3>2, <3>3, FillIs, Zenon DEF s, b
    <3>. QED  BY <3>4, Zenon DEF Shows, s, b
  <2>. HIDE DEF new, k
  <2>2. LitBy(Blocks)
    BY <1>1 DEF LightInv
  <2>. DEFINE full == With(light, k, new)
  <2>3. \A l \in DOMAIN full : Shows(full[l], CellsOf({l}), Blocks)
    BY <2>1, <2>2 DEF With, LitBy
  <2>. HIDE DEF full
  <2>4. light' = full \/ \E old \in DOMAIN full : light' = Without(full, {old})
    BY <1>6 DEF CacheTrimmed, full
  <2>5. \A l \in DOMAIN light' : Shows(light'[l], CellsOf({l}), Blocks)
    BY <2>3, <2>4 DEF Without
  <2>6. LitBy(Blocks)'
    BY <1>4, <2>5 DEF LitBy
  <2>7. ASSUME NEW u \in Fillers, pc'[u] = "fill", u \notin overtaken' PROVE Copied(u)'
    <3>1. u # t /\ u \in Threads /\ pc[u] = "fill" /\ u \notin overtaken /\ job'[u] = job[u]
      BY <1>1, <1>2, <2>7 DEF Threads
    <3>2. Copied(u)
      BY <3>1 DEF LightInv
    <3>. QED  BY <1>1, <3>1, <3>2 DEF Copied, Reads, Says, CellsOf, ChunkOf, Beside, At
  <2>. QED  BY <1>1, <2>6, <2>7 DEF LightInv
<1>. QED  BY <1>1, <1>5, <1>6

\* Every step keeps what the light cache rests on.
LEMMA LightsKept == TypeInv /\ LightInv /\ [Next]_vars => LightInv'
<1>. SUFFICES ASSUME TypeInv, LightInv, [Next]_vars PROVE LightInv'
  OBVIOUS
<1>1. ASSUME NEW t \in Threads, NEW step \in Phases \ {"fill", "relight"}, NEW what,
             pc[t] # "relight", Become(t, step, what),
             UNCHANGED <<edits, lightMu, light, overtaken>>
      PROVE  LightInv'
  <2>1. pc'[t] = step /\ \A u \in Threads \ {t} : pc'[u] = pc[u] /\ job'[u] = job[u]
    BY <1>1, Becoming DEF TypeInv
  <2>2. \A c \in Cells : At(c)' = At(c)
    BY <1>1 DEF At
  <2>. QED  BY <1>1, <2>1, <2>2, LightSteady
<1>2. ASSUME UNCHANGED <<edits, lightMu, light, overtaken, pc, job>> PROVE LightInv'
  <2>1. \A c \in Cells : At(c)' = At(c)
    BY <1>2 DEF At
  <2>2. Blocks' = Blocks
    BY <2>1 DEF Blocks
  <2>3. lightMu' = NoOne => LitBy(Blocks)'
    BY <1>2, <2>2 DEF LightInv, LitBy
  <2>4. lightMu' # NoOne => (job[lightMu].old \in States /\ LitBy(Was(lightMu)))'
    BY <1>2, <2>2 DEF LightInv, LitBy, Was
  <2>5. ASSUME NEW t \in Fillers, pc'[t] = "fill", t \notin overtaken' PROVE Copied(t)'
    <3>1. Copied(t)
      BY <1>2, <2>5 DEF LightInv
    <3>. QED  BY <1>2, <3>1 DEF Copied, Reads, Says, CellsOf, ChunkOf, Beside, At
  <2>. QED  BY <2>3, <2>4, <2>5 DEF LightInv
<1>3. ASSUME NEW t \in Editors, Edit(t) PROVE LightInv'
  <2>1. ASSUME DropIndex(t) \/ UpdateHeight(t) PROVE LightInv'
    <3>1. /\ t \in Threads /\ pc[t] \in {"index", "height"}
          /\ UNCHANGED <<edits, lightMu, light, overtaken>>
          /\ \E step \in {"height", "idle"} : \E what : Become(t, step, what)
      BY <2>1 DEF DropIndex, UpdateHeight, Done, Threads
    <3>. QED  BY <1>1, <3>1 DEF Phases
  <2>. QED  BY <1>3, <2>1, LightEdit, LightRelight DEF Edit
<1>4. ASSUME NEW t \in Fillers, ReadLight(t) PROVE LightInv'
  BY <1>4, LightBegin, LightRead, LightEndFill DEF ReadLight
<1>5. ASSUME NEW t \in Askers, Ask(t) PROVE LightInv'
  <2>1. ASSUME NEW k \in Asked, PrimeHeights(t, k) PROVE LightInv'
    BY <1>2, <2>1 DEF PrimeHeights
  <2>2. ASSUME StorePoints(t) \/ \E k \in Asked : LookForPoints(t, k) PROVE LightInv'
    <3>1. /\ t \in Threads /\ pc[t] \in {"idle", "store"}
          /\ UNCHANGED <<edits, lightMu, light, overtaken>>
          /\ \E step \in {"idle", "store"} : \E what : Become(t, step, what)
      BY <2>2 DEF LookForPoints, StorePoints, Done, Threads
    <3>. QED  BY <1>1, <3>1 DEF Phases
  <2>. QED  BY <1>5, <2>1, <2>2 DEF Ask
<1>6. ASSUME NEW k \in Chunks, Load(k) \/ Unload(k) PROVE LightInv'
  BY <1>2, <1>6 DEF Load, Unload
<1>7. CASE UNCHANGED vars
  BY <1>2, <1>7 DEF vars
<1>. QED  BY <1>3, <1>4, <1>5, <1>6, <1>7 DEF Next

\* Whenever no edit holds the lock, every chunk in the light cache has exactly
\* the light that the blocks of the whole world give it: whatever fills and
\* edits went on at once, the full fill and the cell-by-cell relight end at the
\* same light, and no fill that an edit overtook is cached.
THEOREM LightAlways == Spec => []LightRight
<1>1. ASSUME Init PROVE LightInv
  <2>1. DOMAIN light = {} /\ lightMu = NoOne /\ \A t \in Fillers : pc[t] = "idle"
    BY <1>1 DEF Init, Threads
  <2>. QED  BY <2>1 DEF LightInv, LitBy
<1>2. ASSUME LightInv PROVE LightRight
  <2>1. SUFFICES ASSUME lightMu = NoOne, NEW k \in DOMAIN light, NEW c \in CellsOf({k})
                 PROVE  /\ light[k].sky[c] = TrueLight(Blocks, TRUE)[c]
                        /\ light[k].block[c] = TrueLight(Blocks, FALSE)[c]
    BY Zenon DEF LightRight
  <2>2. LitBy(Blocks)
    BY <1>2, <2>1 DEF LightInv
  <2>. QED  BY <2>2, Zenon DEF LitBy, Shows
<1>3. Spec => [](TypeInv /\ LightInv)
  BY <1>1, TypeInit, TypeStep, LightsKept, PTL DEF Spec
<1>. QED  BY <1>2, <1>3, PTL
=============================================================================
