------------------------------ MODULE MobStore ------------------------------
(***************************************************************************)
(* A pod's mobs and mobs.json.  A mob is in the live, ticking set or in    *)
(* the store's bucket of a chunk nobody is near.  Every tick loads the     *)
(* chunks that came into range and unloads the ones left behind            *)
(* (mobchunks.go); every 600 ticks, and when the pod stops, the live mobs  *)
(* are copied into the buckets of their chunks and the buckets are written *)
(* to mobs.json, by a background goroutine or by the hub itself            *)
(* (mobstore.go, storeio.go).                                              *)
(*                                                                         *)
(* The slices of the code are multisets: live[m][c], bucket[m][c] and so   *)
(* on count the copies of mob m in chunk c, for a mob saved twice is the   *)
(* fault this code once had.  What a saved mob remembers of its body, the  *)
(* entity id minted anew on each load, the pet's owner, the mobs that are  *)
(* never saved (bosses, NPCs) and the lists the same file keeps of         *)
(* populated structures are left out; a mob that leaves the pod's region   *)
(* is the hand-over's business (Handover).                                 *)
(***************************************************************************)
EXTENDS Integers, FiniteSets

CONSTANTS
    Mobs,          \* the mobs the pod persists (persistMob)
    Chunks,        \* chunks of all dimensions, {dim, cx, cz}
    ReloadBudget,  \* chunks reloaded for players in one tick (mobReloadBudget)
    UnloadGrace,   \* ticks a chunk is out of range before it unloads (mobUnloadGrace)
    MaxCrash       \* bound: how often the process dies without stopping

ASSUME MobStoreAssumption ==
    /\ ReloadBudget \in Nat \ {0}
    /\ UnloadGrace \in Nat \ {0}
    /\ MaxCrash \in Nat

VARIABLES
    hub,      \* "running"; "saving" or "stopping" (inside flush); "stopped" (saved, exiting)
    live,     \* hub.mobs
    active,   \* hub.activeChunks
    outFor,   \* ticks since hub.chunkOutAt was set, NotOut for no entry
    bucket,   \* mobStore.m.Chunks
    bg,       \* bgWriter: "idle", "queued" (running, not yet marshalled), "writing"
    again,    \* bgWriter.pending
    data,     \* the bytes the background goroutine marshalled
    file,     \* mobs.json
    alive,    \* history: the mobs the world has
    clean,    \* history: the file this process booted from held no mob twice
    crashes   \* how often the process has died

hubVars  == <<hub, live, active, outFor, bucket>>
bgVars   == <<bg, again, data>>
diskVars == <<file, alive, clean, crashes>>
vars     == <<hubVars, bgVars, diskVars>>

NotOut == -1
Nobody == [m \in Mobs |-> [c \in Chunks |-> 0]]

\* Every mob m of every chunk of cs as it is in src, the rest as in dst.
Copy(cs, src, dst) ==
    [m \in Mobs |-> [c \in Chunks |-> IF c \in cs THEN src[m][c] ELSE dst[m][c]]]

Init ==
    /\ hub = "running"
    /\ live = Nobody
    /\ active = {}
    /\ outFor = [c \in Chunks |-> NotOut]
    /\ bucket = Nobody
    /\ bg = "idle"
    /\ again = FALSE
    /\ data = Nobody
    /\ file = Nobody
    /\ alive = {}
    /\ clean = TRUE
    /\ crashes = 0

-----------------------------------------------------------------------------
(* The hub between and inside ticks: mobs come, move and go.               *)

\* A natural spawn, a breeding, a summon: anywhere, a loaded chunk or not.
Spawn(m, c) ==
    /\ hub = "running"
    /\ m \notin alive
    /\ live[m][c] = 0
    /\ live' = [live EXCEPT ![m][c] = 1]
    /\ alive' = alive \union {m}
    /\ UNCHANGED <<hub, active, outFor, bucket, bgVars, file, clean, crashes>>

\* A walk, a teleport, a portal, a ride: from any chunk to any other.
Move(m, c, d) ==
    /\ hub = "running"
    /\ c # d
    /\ live[m][c] > 0
    /\ live' = [live EXCEPT ![m][c] = @ - 1, ![m][d] = @ + 1]
    /\ UNCHANGED <<hub, active, outFor, bucket, bgVars, diskVars>>

\* A death or a despawn: persistMob refuses the mob from here on.
Kill(m, c) ==
    /\ hub = "running"
    /\ live[m][c] > 0
    /\ live' = [live EXCEPT ![m][c] = @ - 1]
    /\ alive' = alive \ {m}
    /\ UNCHANGED <<hub, active, outFor, bucket, bgVars, file, clean, crashes>>

-----------------------------------------------------------------------------
(* The tick's reconcileMobChunks.                                          *)

\* The chunks a tick may reload for the players: as many as the budget lets.
Reloads(range) ==
    LET absent == range \ active
    IN {cs \in SUBSET absent :
            \/ cs = absent /\ Cardinality(cs) <= ReloadBudget
            \/ Cardinality(cs) = ReloadBudget}

\* The chunks outside `on` that a live mob has wandered into.
StrayChunks(on) == {c \in Chunks \ on : \E m \in Mobs : live[m][c] > 0}

\* activateMobChunk: the bucket's mobs join the live ones, and leave it.
Reloaded(on) ==
    [m \in Mobs |-> [c \in Chunks |->
        IF c \in on THEN live[m][c] + bucket[m][c] ELSE live[m][c]]]
Taken(on) == Copy(on, Nobody, bucket)

\* The unload clock of every chunk, `on` being active and `range` in range.
Clock(on, range) ==
    [c \in Chunks |-> IF c \in on \ range THEN outFor[c] + 1 ELSE NotOut]

\* Fault: a chunk unloads one tick after its grace.
ExpiredLate(out) == {c \in Chunks : out[c] > UnloadGrace}
Expired(out) == {c \in Chunks : out[c] >= UnloadGrace}

\* Fault: the bucket's autosaved copy is merged with the live mobs.
StashMerged(evict, bodies, old) ==
    [m \in Mobs |-> [c \in Chunks |->
        IF c \in evict THEN bodies[m][c] + old[m][c] ELSE old[m][c]]]

\* mobStore.stash overwrites what the bucket held, an autosaved copy included.
Stash(evict, bodies, old) == Copy(evict, bodies, old)

Reconcile(range, reload) ==
    LET on     == reload \union StrayChunks(active \union reload)
        bodies == Reloaded(on)
        out    == Clock(active \union on, range)
        evict  == Expired(out)
    IN /\ hub = "running"
       /\ active' = (active \union on) \ evict
       /\ outFor' = [c \in Chunks |-> IF c \in evict THEN NotOut ELSE out[c]]
       /\ bucket' = Stash(evict, bodies, Taken(on))
       /\ live' = Copy(evict, Nobody, bodies)
       /\ UNCHANGED <<hub, bgVars, diskVars>>

-----------------------------------------------------------------------------
(* Saving.                                                                 *)

\* mobStore.bucketLive: the active chunks' buckets, and only theirs.
BucketLive == Copy(active, live, bucket)

\* The autosave: copy, and start the background writer or have it run again.
Autosave ==
    /\ hub = "running"
    /\ bucket' = BucketLive
    /\ bg' = IF bg = "idle" THEN "queued" ELSE bg
    /\ again' = (again \/ bg # "idle")
    /\ UNCHANGED <<hub, live, active, outFor, data, diskVars>>

\* The goroutine marshals whatever the store holds by now.
BgMarshal ==
    /\ bg = "queued"
    /\ bg' = "writing"
    /\ data' = bucket
    /\ UNCHANGED <<hubVars, again, diskVars>>

\* Fault: the request for another run is never taken back.
BgWriteForever ==
    /\ bg = "writing"
    /\ file' \in {data, file}
    /\ bg' = IF again THEN "queued" ELSE "idle"
    /\ data' = Nobody
    /\ UNCHANGED <<hubVars, again, alive, clean, crashes>>

\* The write lands, or fails and leaves the old file; then a pending run.
BgWrite ==
    /\ bg = "writing"
    /\ file' \in {data, file}
    /\ bg' = IF again THEN "queued" ELSE "idle"
    /\ again' = FALSE
    /\ data' = Nobody
    /\ UNCHANGED <<hubVars, alive, clean, crashes>>

\* evSaveState, from /save-all or from the stopping pod: copy, then wait.
Save(next) ==
    /\ hub = "running"
    /\ hub' = next
    /\ bucket' = BucketLive
    /\ UNCHANGED <<live, active, outFor, bgVars, diskVars>>

\* flush goes on when bgWriter.wait returns.
BgDone == bg = "idle"

\* The hub writes the file itself, with the background writer idle.
Flush ==
    /\ hub \in {"saving", "stopping"}
    /\ BgDone
    /\ \/ /\ file' = bucket
          /\ hub' = IF hub = "stopping" THEN "stopped" ELSE "running"
       \/ /\ file' = file        \* the write failed: logged, nobody is told;
          /\ hub' = "running"    \* a pod that stops now dies with the old file
    /\ UNCHANGED <<live, active, outFor, bucket, bgVars, alive, clean, crashes>>

-----------------------------------------------------------------------------
(* The process ends and another boots from mobs.json (newMobStore).        *)

Boot ==
    /\ hub' = "running"
    /\ live' = Nobody
    /\ active' = {}
    /\ outFor' = [c \in Chunks |-> NotOut]
    /\ bucket' = file
    /\ bg' = "idle"
    /\ again' = FALSE
    /\ data' = Nobody
    /\ file' = file

\* One copy of m, in one chunk, in a table of counts.
Once(table, m) ==
    \E c \in Chunks : /\ table[m][c] = 1
                      /\ \A d \in Chunks \ {c} : table[m][d] = 0
Never(table, m) == \A c \in Chunks : table[m][c] = 0

\* A live mob outside every active chunk.
Stray(m) == \E c \in Chunks \ active : live[m][c] > 0

\* The process exits after its last save.  A stray was left out of that save.
Exit ==
    /\ hub = "stopped"
    /\ Boot
    /\ alive' = {m \in alive : ~Stray(m)}
    /\ UNCHANGED <<clean, crashes>>

\* The process dies at any moment: the world is what the file says.
Crash ==
    /\ crashes < MaxCrash
    /\ Boot
    /\ alive' = {m \in Mobs : ~Never(file, m)}
    /\ clean' = \A m \in Mobs : Once(file, m) \/ Never(file, m)
    /\ crashes' = crashes + 1

Next ==
    \/ \E m \in Mobs, c \in Chunks : Spawn(m, c) \/ Kill(m, c)
    \/ \E m \in Mobs, c \in Chunks, d \in Chunks : Move(m, c, d)
    \/ \E range \in SUBSET Chunks :
            \E reload \in Reloads(range) : Reconcile(range, reload)
    \/ Autosave
    \/ Save("saving")
    \/ Save("stopping")
    \/ BgMarshal
    \/ BgWrite
    \/ Flush
    \/ Exit
    \/ Crash

Spec == Init /\ [][Next]_vars

\* The Go scheduler runs the background goroutine and the waiting hub.
Fairness == WF_vars(BgMarshal) /\ WF_vars(BgWrite) /\ WF_vars(Flush)
FairSpec == Spec /\ Fairness

-----------------------------------------------------------------------------
(* Properties.                                                             *)

Table == [Mobs -> [Chunks -> Nat]]

\* Type invariant.  An unload clock never outlives the grace: a chunk whose
\* clock reaches it leaves the active set in the same tick.
TypeOK ==
    /\ hub \in {"running", "saving", "stopping", "stopped"}
    /\ live \in Table /\ bucket \in Table /\ data \in Table /\ file \in Table
    /\ active \subseteq Chunks
    /\ outFor \in [Chunks -> NotOut..(UnloadGrace - 1)]
    /\ bg \in {"idle", "queued", "writing"}
    /\ again \in BOOLEAN /\ clean \in BOOLEAN
    /\ alive \subseteq Mobs
    /\ crashes \in 0..MaxCrash

\* The copies of a mob the pod would bring to life: the live ones, and the
\* ones waiting in the bucket of a chunk that is not active.
Copies ==
    [m \in Mobs |-> [c \in Chunks |->
        live[m][c] + IF c \in active THEN 0 ELSE bucket[m][c]]]

\* Every mob the world has is in one place, once, and a mob that died or was
\* despawned is nowhere: no order of autosaves, reloads, unloads, wanderings,
\* saves and stops doubles a mob, loses it or brings it back, and a clean stop
\* writes every mob that stands in an active chunk.  A crash starts over from
\* the file it finds, unless that file holds a mob twice.
ExactlyOnce ==
    clean => \A m \in Mobs : IF m \in alive THEN Once(Copies, m) ELSE Never(Copies, m)

\* A hub that asked for a save gets out of it: the background writer it waits
\* for is never handed another run while the hub waits.
SaveEnds == hub \in {"saving", "stopping"} ~> hub \in {"running", "stopped"}
=============================================================================
