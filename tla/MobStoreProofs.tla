--------------------------- MODULE MobStoreProofs ---------------------------
(***************************************************************************)
(* Every mob is in one place, once: ExactlyOnce for any mobs and chunks,   *)
(* any budget and grace, any number of saves, stops and crashes.           *)
(*                                                                         *)
(* Copies, the table the property is about, is what the proof follows: a   *)
(* reload, an unload and an autosave move numbers between live and bucket  *)
(* and leave Copies as it was, because a bucket counts only while its      *)
(* chunk is inactive.  The rest is the clean stop, where the file must be  *)
(* what the store held (Stopping, Stopped).                                *)
(***************************************************************************)
EXTENDS MobStore, TLAPS

\* The store mirrors the live mobs of the active chunks from an explicit save
\* until the process is gone.
Mirrored == \A m \in Mobs, c \in active : bucket[m][c] = live[m][c]

Stopping == hub = "stopping" => Mirrored
Stopped  == hub = "stopped" => Mirrored /\ file = bucket /\ bg = "idle"

StoreInv == TypeOK /\ ExactlyOnce /\ Stopping /\ Stopped

-----------------------------------------------------------------------------
(* Tables of counts.                                                       *)

LEMMA NobodyType == Nobody \in Table
  BY DEF Nobody, Table

LEMMA CopyType ==
  ASSUME NEW cs, NEW src \in Table, NEW dst \in Table
  PROVE  Copy(cs, src, dst) \in Table
  BY DEF Copy, Table

LEMMA ReloadedType ==
  ASSUME live \in Table, bucket \in Table, NEW on
  PROVE  Reloaded(on) \in Table
  BY DEF Reloaded, Table

LEMMA CopiesType ==
  ASSUME live \in Table, bucket \in Table
  PROVE  Copies \in Table
  BY DEF Copies, Table

\* A table is judged mob by mob, by its entries alone.
LEMMA SameCounts ==
  ASSUME NEW s, NEW t, NEW m, \A c \in Chunks : s[m][c] = t[m][c]
  PROVE  /\ Once(s, m) <=> Once(t, m)
         /\ Never(s, m) <=> Never(t, m)
  BY DEF Once, Never

LEMMA ClockType ==
  ASSUME TypeOK, NEW on, NEW range
  PROVE  Clock(on, range) \in [Chunks -> NotOut..UnloadGrace]
  BY MobStoreAssumption DEF TypeOK, Clock, NotOut

-----------------------------------------------------------------------------
\* No clock runs.
LEMMA NoClock == [c \in Chunks |-> NotOut] \in [Chunks -> NotOut..(UnloadGrace - 1)]
  BY MobStoreAssumption DEF NotOut

LEMMA InitInv == Init => StoreInv
<1> SUFFICES ASSUME Init PROVE StoreInv
  OBVIOUS
<1>1. TypeOK
  <2>1. alive \subseteq Mobs /\ active \subseteq Chunks /\ crashes \in 0..MaxCrash
    BY MobStoreAssumption DEF Init
  <2> QED BY <2>1, NobodyType, NoClock DEF Init, TypeOK
<1>2. ExactlyOnce
  BY DEF Init, ExactlyOnce, Never, Copies, Nobody
<1>3. Stopping /\ Stopped
  BY DEF Init, Stopping, Stopped
<1> QED BY <1>1, <1>2, <1>3 DEF StoreInv

\* A step that leaves every copy where it was, and the history with it.
LEMMA KeepsExactlyOnce ==
  ASSUME ExactlyOnce, UNCHANGED <<alive, clean>>,
         \A m \in Mobs, c \in Chunks : Copies'[m][c] = Copies[m][c]
  PROVE  ExactlyOnce'
<1> DEFINE old == Copies
           new == Copies'
<1>1. ASSUME NEW m \in Mobs
      PROVE  (Once(new, m) <=> Once(old, m)) /\ (Never(new, m) <=> Never(old, m))
  <2>1. \A c \in Chunks : new[m][c] = old[m][c]
    OBVIOUS
  <2> HIDE DEF old, new
  <2> QED BY <2>1, SameCounts
<1> QED BY <1>1 DEF ExactlyOnce, Once, Never

-----------------------------------------------------------------------------
(* Type correctness.                                                       *)

LEMMA TypeStep == TypeOK /\ [Next]_vars => TypeOK'
<1> SUFFICES ASSUME TypeOK, [Next]_vars PROVE TypeOK'
  OBVIOUS
<1> USE MobStoreAssumption
<1>1. ASSUME NEW m \in Mobs, NEW c \in Chunks, Spawn(m, c) PROVE TypeOK'
  BY <1>1 DEF TypeOK, Spawn, bgVars, Table
<1>2. ASSUME NEW m \in Mobs, NEW c \in Chunks, Kill(m, c) PROVE TypeOK'
  BY <1>2 DEF TypeOK, Kill, bgVars, Table
<1>3. ASSUME NEW m \in Mobs, NEW c \in Chunks, NEW d \in Chunks, Move(m, c, d)
      PROVE TypeOK'
  <2>1. live' \in Table
    BY <1>3 DEF TypeOK, Move, Table
  <2> QED BY <1>3, <2>1 DEF TypeOK, Move, bgVars, diskVars
<1>4. ASSUME NEW range \in SUBSET Chunks, NEW reload \in Reloads(range),
             Reconcile(range, reload)
      PROVE TypeOK'
  <2> DEFINE on     == reload \union StrayChunks(active \union reload)
             bodies == Reloaded(on)
             out    == Clock(active \union on, range)
             evict  == Expired(out)
  <2>1. bodies \in Table /\ Taken(on) \in Table
    BY NobodyType, CopyType, ReloadedType DEF TypeOK, Taken
  <2>2. bucket' \in Table /\ live' \in Table
    <3>1. bucket' = Copy(evict, bodies, Taken(on)) /\ live' = Copy(evict, Nobody, bodies)
      BY <1>4 DEF Reconcile, Stash
    <3> HIDE DEF evict, bodies, on
    <3> QED BY <2>1, <3>1, NobodyType, CopyType
  <2>3. out \in [Chunks -> NotOut..UnloadGrace]
    BY ClockType
  <2>4. outFor' = [c \in Chunks |-> IF c \in evict THEN NotOut ELSE out[c]]
    BY <1>4 DEF Reconcile
  <2>5. outFor' \in [Chunks -> NotOut..(UnloadGrace - 1)]
    <3> HIDE DEF out
    <3> QED BY <2>3, <2>4 DEF Expired, NotOut
  <2>6. active' \subseteq Chunks
    <3>1. reload \subseteq Chunks
      BY DEF Reloads
    <3>2. active' \subseteq active \union on
      BY <1>4 DEF Reconcile
    <3> QED BY <3>1, <3>2 DEF TypeOK, StrayChunks
  <2> QED BY <1>4, <2>2, <2>5, <2>6 DEF TypeOK, Reconcile, bgVars, diskVars
<1>5. CASE Autosave
  <2>1. bucket' \in Table
    BY <1>5, CopyType DEF TypeOK, Autosave, BucketLive
  <2> QED BY <1>5, <2>1 DEF TypeOK, Autosave, diskVars
<1>6. ASSUME NEW next \in {"saving", "stopping"}, Save(next) PROVE TypeOK'
  <2>1. bucket' \in Table
    BY <1>6, CopyType DEF TypeOK, Save, BucketLive
  <2> QED BY <1>6, <2>1 DEF TypeOK, Save, bgVars, diskVars
<1>7. CASE BgMarshal
  BY <1>7 DEF TypeOK, BgMarshal, hubVars, diskVars
<1>8. CASE BgWrite
  BY <1>8, NobodyType DEF TypeOK, BgWrite, hubVars
<1>9. CASE Flush
  BY <1>9 DEF TypeOK, Flush, bgVars
<1>10. CASE Exit
  BY <1>10, NobodyType, NoClock DEF TypeOK, Exit, Boot
<1>11. CASE Crash
  <2>1. clean' \in BOOLEAN /\ alive' \subseteq Mobs /\ crashes' \in 0..MaxCrash
    BY <1>11 DEF TypeOK, Crash
  <2> QED BY <1>11, <2>1, NobodyType, NoClock DEF TypeOK, Crash, Boot
<1>12. CASE UNCHANGED vars
  BY <1>12 DEF TypeOK, vars, hubVars, bgVars, diskVars
<1> QED BY <1>1, <1>2, <1>3, <1>4, <1>5, <1>6, <1>7, <1>8, <1>9, <1>10, <1>11, <1>12
        DEF Next

\* The store's variables keep their types, and an unload clock its bound.
THEOREM StoreTypeCorrect == Spec => []TypeOK
<1>1. Init => TypeOK
  BY InitInv DEF StoreInv
<1> QED BY <1>1, TypeStep, PTL DEF Spec

-----------------------------------------------------------------------------
(* The mobs.                                                               *)

\* A tick's reload and unload move mobs between the two sides of Copies.
LEMMA ReconcileKeeps ==
  ASSUME StoreInv, NEW range \in SUBSET Chunks, NEW reload \in Reloads(range),
         Reconcile(range, reload)
  PROVE  ExactlyOnce'
<1> DEFINE on     == reload \union StrayChunks(active \union reload)
           bodies == Reloaded(on)
           taken  == Taken(on)
           evict  == Expired(Clock(active \union on, range))
<1>1. on \intersect active = {}
  BY DEF Reloads, StrayChunks
<1>2. live' = Copy(evict, Nobody, bodies)
  BY DEF Reconcile
<1>3. bucket' = Copy(evict, bodies, taken)
  BY DEF Reconcile, Stash
<1>4. active' = (active \union on) \ evict
  BY DEF Reconcile
<1>5. evict \subseteq active \union on
  BY MobStoreAssumption DEF Expired, Clock, NotOut
<1>6. ASSUME NEW m \in Mobs, NEW c \in Chunks
      PROVE  Copies'[m][c] = Copies[m][c]
  <2>1. live[m][c] \in Nat /\ bucket[m][c] \in Nat
    BY DEF StoreInv, TypeOK, Table
  <2>2. bodies[m][c] = IF c \in on THEN live[m][c] + bucket[m][c] ELSE live[m][c]
    BY DEF Reloaded
  <2>3. taken[m][c] = IF c \in on THEN 0 ELSE bucket[m][c]
    BY DEF Taken, Copy, Nobody
  <2> HIDE DEF on, bodies, taken, evict
  <2>4. live'[m][c] = IF c \in evict THEN 0 ELSE bodies[m][c]
    BY <1>2 DEF Copy, Nobody
  <2>5. bucket'[m][c] = IF c \in evict THEN bodies[m][c] ELSE taken[m][c]
    BY <1>3 DEF Copy
  <2>6. Copies'[m][c] = live'[m][c] + IF c \in active' THEN 0 ELSE bucket'[m][c]
    BY DEF Copies
  <2>7. Copies[m][c] = live[m][c] + IF c \in active THEN 0 ELSE bucket[m][c]
    BY DEF Copies
  <2>8. /\ c \in on => c \notin active
        /\ c \in active' <=> (c \in active \/ c \in on) /\ c \notin evict
    BY <1>1, <1>4
  <2>9. CASE c \in evict
    <3>1. Copies'[m][c] = bodies[m][c]
      BY <2>1, <2>2, <2>4, <2>5, <2>6, <2>8, <2>9
    <3>2. c \in active \/ c \in on
      BY <1>5, <2>9
    <3> QED BY <2>1, <2>2, <2>7, <2>8, <3>1, <3>2
  <2>10. CASE c \notin evict
    BY <2>1, <2>2, <2>3, <2>4, <2>5, <2>6, <2>7, <2>8, <2>10
  <2> QED BY <2>9, <2>10
<1>7. UNCHANGED <<alive, clean>>
  BY DEF Reconcile, diskVars
<1> QED BY <1>6, <1>7, KeepsExactlyOnce DEF StoreInv

\* An autosave, or the copy an explicit save starts with, changes no bucket
\* that counts.
LEMMA BucketLiveKeeps ==
  ASSUME StoreInv, bucket' = BucketLive, UNCHANGED <<live, active, alive, clean>>
  PROVE  ExactlyOnce' /\ Mirrored'
<1>1. \A m \in Mobs, c \in Chunks : Copies'[m][c] = Copies[m][c]
  BY DEF Copies, BucketLive, Copy
<1>2. active \subseteq Chunks
  BY DEF StoreInv, TypeOK
<1>3. Mirrored'
  BY <1>2 DEF Mirrored, BucketLive, Copy
<1> QED BY <1>1, <1>3, KeepsExactlyOnce DEF StoreInv

\* One mob is put in, taken out or moved; the others stay.
LEMMA OthersStay ==
  ASSUME NEW m \in Mobs, NEW s, NEW t, NEW k \in Mobs, k # m,
         \A n \in Mobs \ {m} : \A c \in Chunks : s[n][c] = t[n][c]
  PROVE  (Once(s, k) <=> Once(t, k)) /\ (Never(s, k) <=> Never(t, k))
  BY SameCounts

\* A live mob is its only copy.
LEMMA LiveIsAlive ==
  ASSUME StoreInv, clean, NEW m \in Mobs, NEW c \in Chunks, live[m][c] > 0
  PROVE  /\ m \in alive
         /\ Copies[m][c] = 1
         /\ live[m][c] = 1
         /\ \A d \in Chunks \ {c} : Copies[m][d] = 0
<1>1. \A d \in Chunks : live[m][d] \in Nat /\ bucket[m][d] \in Nat
  BY DEF StoreInv, TypeOK, Table
<1>2. \A d \in Chunks :
        Copies[m][d] = live[m][d] + IF d \in active THEN 0 ELSE bucket[m][d]
  BY DEF Copies
<1>3. Copies[m][c] > 0
  BY <1>1, <1>2
<1>4. m \in alive /\ Once(Copies, m)
  BY <1>3 DEF StoreInv, ExactlyOnce, Never
<1>5. PICK e \in Chunks : Copies[m][e] = 1 /\ \A d \in Chunks \ {e} : Copies[m][d] = 0
  BY <1>4 DEF Once
<1>6. e = c
  BY <1>3, <1>5
<1> QED BY <1>1, <1>2, <1>4, <1>5, <1>6

LEMMA SpawnKeeps ==
  ASSUME StoreInv, NEW m \in Mobs, NEW c \in Chunks, Spawn(m, c)
  PROVE  ExactlyOnce'
<1> SUFFICES ASSUME clean, NEW k \in Mobs
             PROVE  IF k \in alive' THEN Once(Copies', k) ELSE Never(Copies', k)
  BY DEF ExactlyOnce, Spawn
<1>1. \A n \in Mobs, d \in Chunks :
        live'[n][d] = IF n = m /\ d = c THEN 1 ELSE live[n][d]
  BY DEF Spawn, StoreInv, TypeOK, Table
<1>2. \A n \in Mobs \ {m} : \A d \in Chunks : Copies'[n][d] = Copies[n][d]
  BY <1>1 DEF Copies, Spawn
<1>3. CASE k # m
  <2>1. k \in alive' <=> k \in alive
    BY <1>3 DEF Spawn
  <2>2. (Once(Copies', k) <=> Once(Copies, k)) /\ (Never(Copies', k) <=> Never(Copies, k))
    BY <1>2, <1>3, OthersStay
  <2> QED BY <2>1, <2>2 DEF StoreInv, ExactlyOnce
<1>4. CASE k = m
  <2>1. Never(Copies, m) /\ live[m][c] = 0
    BY DEF Spawn, StoreInv, ExactlyOnce
  <2>2. \A d \in Chunks : /\ live[m][d] \in Nat /\ bucket[m][d] \in Nat
                          /\ live[m][d] + (IF d \in active THEN 0 ELSE bucket[m][d]) = 0
    BY <2>1 DEF StoreInv, TypeOK, Table, Never, Copies
  <2>3. \A d \in Chunks : Copies'[m][d] = IF d = c THEN 1 ELSE 0
    BY <1>1, <2>2 DEF Copies, Spawn
  <2> QED BY <1>4, <2>3 DEF Once, Spawn
<1> QED BY <1>3, <1>4

LEMMA KillKeeps ==
  ASSUME StoreInv, NEW m \in Mobs, NEW c \in Chunks, Kill(m, c)
  PROVE  ExactlyOnce'
<1> SUFFICES ASSUME clean, NEW k \in Mobs
             PROVE  IF k \in alive' THEN Once(Copies', k) ELSE Never(Copies', k)
  BY DEF ExactlyOnce, Kill
<1>1. \A n \in Mobs, d \in Chunks :
        live'[n][d] = IF n = m /\ d = c THEN live[m][c] - 1 ELSE live[n][d]
  BY DEF Kill, StoreInv, TypeOK, Table
<1>2. \A n \in Mobs \ {m} : \A d \in Chunks : Copies'[n][d] = Copies[n][d]
  BY <1>1 DEF Copies, Kill
<1>3. CASE k # m
  <2>1. k \in alive' <=> k \in alive
    BY <1>3 DEF Kill
  <2>2. (Once(Copies', k) <=> Once(Copies, k)) /\ (Never(Copies', k) <=> Never(Copies, k))
    BY <1>2, <1>3, OthersStay
  <2> QED BY <2>1, <2>2 DEF StoreInv, ExactlyOnce
<1>4. CASE k = m
  <2>1. live[m][c] = 1 /\ Copies[m][c] = 1 /\ \A d \in Chunks \ {c} : Copies[m][d] = 0
    BY LiveIsAlive DEF Kill
  <2>2. \A d \in Chunks : live[m][d] \in Nat /\ bucket[m][d] \in Nat
    BY DEF StoreInv, TypeOK, Table
  <2>3. \A d \in Chunks : Copies'[m][d] = 0
    BY <1>1, <2>1, <2>2 DEF Copies, Kill
  <2> QED BY <1>4, <2>3 DEF Never, Kill
<1> QED BY <1>3, <1>4

LEMMA MoveKeeps ==
  ASSUME StoreInv, NEW m \in Mobs, NEW c \in Chunks, NEW d \in Chunks, Move(m, c, d)
  PROVE  ExactlyOnce'
<1> SUFFICES ASSUME clean, NEW k \in Mobs
             PROVE  IF k \in alive' THEN Once(Copies', k) ELSE Never(Copies', k)
  BY DEF ExactlyOnce, Move, diskVars
<1>0. bucket' = bucket /\ active' = active
  BY DEF Move
<1>1. \A n \in Mobs, e \in Chunks :
        live'[n][e] = IF n = m /\ e = c THEN live[m][c] - 1
                      ELSE IF n = m /\ e = d THEN live[m][d] + 1 ELSE live[n][e]
  BY DEF Move, StoreInv, TypeOK, Table
<1>2. \A n \in Mobs \ {m} : \A e \in Chunks : Copies'[n][e] = Copies[n][e]
  BY <1>0, <1>1 DEF Copies
<1>3. alive' = alive
  BY DEF Move, diskVars
<1>4. CASE k # m
  <2>1. (Once(Copies', k) <=> Once(Copies, k)) /\ (Never(Copies', k) <=> Never(Copies, k))
    BY <1>2, <1>4, OthersStay
  <2> QED BY <1>3, <2>1 DEF StoreInv, ExactlyOnce
<1>5. CASE k = m
  <2>1. /\ m \in alive /\ live[m][c] = 1 /\ Copies[m][c] = 1
        /\ \A e \in Chunks \ {c} : Copies[m][e] = 0
    BY LiveIsAlive DEF Move
  <2>2. \A e \in Chunks : live[m][e] \in Nat /\ bucket[m][e] \in Nat
    BY DEF StoreInv, TypeOK, Table
  <2>3. c # d
    BY DEF Move
  <2>4. \A e \in Chunks : Copies'[m][e] = IF e = d THEN 1 ELSE 0
    BY <1>0, <1>1, <2>1, <2>2, <2>3 DEF Copies
  <2> QED BY <1>3, <1>5, <2>1, <2>4 DEF Once
<1> QED BY <1>4, <1>5

-----------------------------------------------------------------------------
(* Saves, stops and crashes.                                               *)

\* What a boot loads is what the file holds.
LEMMA BootLoads ==
  ASSUME StoreInv, Boot
  PROVE  \A m \in Mobs, c \in Chunks : Copies'[m][c] = file[m][c]
<1>1. \A m \in Mobs, c \in Chunks :
        live'[m][c] = 0 /\ bucket'[m][c] = file[m][c] /\ file[m][c] \in Nat
  BY DEF Boot, Nobody, StoreInv, TypeOK, Table
<1>2. active' = {}
  BY DEF Boot
<1> QED BY <1>1, <1>2 DEF Copies

\* The last save holds every mob of the world but the strays.
LEMMA ExitKeeps == StoreInv /\ Exit => ExactlyOnce'
<1> SUFFICES ASSUME StoreInv, Exit, clean, NEW m \in Mobs
             PROVE  IF m \in alive' THEN Once(Copies', m) ELSE Never(Copies', m)
  BY DEF ExactlyOnce, Exit
<1>1. Mirrored /\ file = bucket
  BY DEF StoreInv, Stopped, Exit
<1>2. \A c \in Chunks : Copies'[m][c] = bucket[m][c]
  BY <1>1, BootLoads DEF Exit
<1>3. \A c \in Chunks :
        /\ live[m][c] \in Nat /\ bucket[m][c] \in Nat
        /\ Copies[m][c] = live[m][c] + IF c \in active THEN 0 ELSE bucket[m][c]
        /\ c \in active => bucket[m][c] = live[m][c]
  BY <1>1 DEF StoreInv, TypeOK, Table, Copies, Mirrored
<1>4. m \in alive' <=> m \in alive /\ \A c \in Chunks \ active : live[m][c] = 0
  <2>1. Stray(m) <=> ~ \A c \in Chunks \ active : live[m][c] = 0
    BY <1>3 DEF Stray
  <2> QED BY <2>1 DEF Exit
<1>5. CASE m \in alive'
  <2>1. Once(Copies, m)
    BY <1>4, <1>5 DEF StoreInv, ExactlyOnce
  <2>2. \A c \in Chunks : Copies[m][c] = bucket[m][c]
    BY <1>3, <1>4, <1>5
  <2> QED BY <1>2, <1>5, <2>1, <2>2 DEF Once
<1>6. CASE m \in alive /\ m \notin alive'
  <2>1. PICK c \in Chunks \ active : live[m][c] > 0
    BY <1>3, <1>4, <1>6
  <2>2. /\ live[m][c] = 1 /\ Copies[m][c] = 1
        /\ \A d \in Chunks \ {c} : Copies[m][d] = 0
    BY <2>1, LiveIsAlive
  <2>3. \A d \in Chunks : bucket[m][d] = 0
    BY <1>3, <2>1, <2>2
  <2> QED BY <1>2, <1>6, <2>3 DEF Never
<1>7. CASE m \notin alive
  <2>1. Never(Copies, m)
    BY <1>7 DEF StoreInv, ExactlyOnce
  <2>2. \A d \in Chunks : bucket[m][d] = 0
    BY <1>3, <2>1 DEF Never
  <2> QED BY <1>2, <1>4, <1>7, <2>2 DEF Never
<1> QED BY <1>5, <1>6, <1>7

\* After a crash the world is the file, and clean says whether it is sound.
LEMMA CrashKeeps == StoreInv /\ Crash => ExactlyOnce'
<1> SUFFICES ASSUME StoreInv, Crash, clean', NEW m \in Mobs
             PROVE  IF m \in alive' THEN Once(Copies', m) ELSE Never(Copies', m)
  BY DEF ExactlyOnce
<1>1. Once(file, m) \/ Never(file, m)
  BY DEF Crash
<1>2. m \in alive' <=> ~Never(file, m)
  BY DEF Crash
<1>3. \A c \in Chunks : Copies'[m][c] = file[m][c]
  BY BootLoads DEF Crash
<1>4. (Once(Copies', m) <=> Once(file, m)) /\ (Never(Copies', m) <=> Never(file, m))
  BY <1>3, SameCounts
<1> QED BY <1>1, <1>2, <1>4

\* A step that touches neither the mobs nor the history.
LEMMA FrameKeeps ==
  ASSUME StoreInv, UNCHANGED <<live, active, bucket, alive, clean>>
  PROVE  ExactlyOnce'
<1>1. \A m \in Mobs, c \in Chunks : Copies'[m][c] = Copies[m][c]
  BY DEF Copies
<1> QED BY <1>1, KeepsExactlyOnce DEF StoreInv

LEMMA NextInv == StoreInv /\ [Next]_vars => StoreInv'
<1> SUFFICES ASSUME StoreInv, [Next]_vars PROVE StoreInv'
  OBVIOUS
<1>0. TypeOK'
  BY TypeStep DEF StoreInv
<1>1. ASSUME hub = "running", hub' = "running", ExactlyOnce' PROVE StoreInv'
  BY <1>0, <1>1 DEF StoreInv, Stopping, Stopped
<1>2. ASSUME NEW m \in Mobs, NEW c \in Chunks, Spawn(m, c) \/ Kill(m, c) PROVE StoreInv'
  <2>1. ExactlyOnce'
    BY <1>2, SpawnKeeps, KillKeeps
  <2> QED BY <1>1, <1>2, <2>1 DEF Spawn, Kill
<1>3. ASSUME NEW m \in Mobs, NEW c \in Chunks, NEW d \in Chunks, Move(m, c, d)
      PROVE StoreInv'
  <2>1. ExactlyOnce'
    BY <1>3, MoveKeeps
  <2> QED BY <1>1, <1>3, <2>1 DEF Move
<1>4. ASSUME NEW range \in SUBSET Chunks, NEW reload \in Reloads(range),
             Reconcile(range, reload)
      PROVE StoreInv'
  <2>1. ExactlyOnce'
    BY <1>4, ReconcileKeeps
  <2> QED BY <1>1, <1>4, <2>1 DEF Reconcile
<1>5. CASE Autosave
  <2>1. ExactlyOnce'
    BY <1>5, BucketLiveKeeps DEF Autosave, diskVars
  <2> QED BY <1>1, <1>5, <2>1 DEF Autosave
<1>6. ASSUME NEW next \in {"saving", "stopping"}, Save(next) PROVE StoreInv'
  <2>1. ExactlyOnce' /\ Mirrored'
    BY <1>6, BucketLiveKeeps DEF Save, diskVars
  <2> QED BY <1>0, <1>6, <2>1 DEF Save, StoreInv, Stopping, Stopped
<1>7. CASE BgMarshal
  <2>1. ExactlyOnce'
    BY <1>7, FrameKeeps DEF BgMarshal, hubVars, diskVars
  <2>2. UNCHANGED <<hub, active, live, bucket, file>> /\ hub # "stopped"
    BY <1>7 DEF BgMarshal, hubVars, diskVars, StoreInv, Stopped
  <2> QED BY <1>0, <2>1, <2>2 DEF StoreInv, Stopping, Stopped, Mirrored
<1>8. CASE BgWrite
  <2>1. ExactlyOnce'
    BY <1>8, FrameKeeps DEF BgWrite, hubVars
  <2>2. UNCHANGED <<hub, active, live, bucket>> /\ hub # "stopped"
    BY <1>8 DEF BgWrite, hubVars, StoreInv, Stopped
  <2> QED BY <1>0, <2>1, <2>2 DEF StoreInv, Stopping, Stopped, Mirrored
<1>9. CASE Flush
  <2>1. ExactlyOnce'
    BY <1>9, FrameKeeps DEF Flush
  <2>2. UNCHANGED <<active, live, bucket>> /\ hub' # "stopping" /\ bg' = "idle"
    BY <1>9 DEF Flush, BgDone, bgVars
  <2>3. hub' = "stopped" => Mirrored /\ file' = bucket
    BY <1>9 DEF Flush, StoreInv, Stopping
  <2> QED BY <1>0, <2>1, <2>2, <2>3 DEF StoreInv, Stopping, Stopped, Mirrored
<1>10. CASE Exit
  BY <1>0, <1>10, ExitKeeps DEF Exit, Boot, StoreInv, Stopping, Stopped
<1>11. CASE Crash
  BY <1>0, <1>11, CrashKeeps DEF Crash, Boot, StoreInv, Stopping, Stopped
<1>12. CASE UNCHANGED vars
  <2>1. ExactlyOnce'
    BY <1>12, FrameKeeps DEF vars, hubVars, diskVars
  <2> QED BY <1>0, <1>12, <2>1
          DEF vars, hubVars, bgVars, diskVars, StoreInv, Stopping, Stopped, Mirrored
<1> QED BY <1>2, <1>3, <1>4, <1>5, <1>6, <1>7, <1>8, <1>9, <1>10, <1>11, <1>12 DEF Next

\* No order of autosaves, reloads, unloads, wanderings, saves, clean stops and
\* crashes doubles a mob, loses it or brings a dead one back, until the pod
\* boots from a file that holds a mob twice.
THEOREM MobsExactlyOnce == Spec => []ExactlyOnce
<1>1. StoreInv => ExactlyOnce
  BY DEF StoreInv
<1> QED BY <1>1, InitInv, NextInv, PTL DEF Spec
=============================================================================
