# TLA+ models of tachyne-world

tachyne-world is a Minecraft-compatible world engine in Go: a *pod* simulates
a world, or the regions of a world it owns, behind gateways that hold the game
clients.  This directory models the parts of it whose correctness depends on
order: who simulates a player while it crosses from one pod to another, what
becomes of a mob while chunks load, unload and are saved, what a session's
outbound queue promises, when an edit of the world is safe on disk, whether the
light, heights and points of interest kept beside the blocks agree with them,
how chunks and block updates reach a client by two roads, where every item
is while containers are broken under open windows, and whether what a pod mirrors of
its neighbours' entities is ever left behind.  TLC checks the models on
small instances; TLAPS proves the most important properties for every value of
the constants.

All paths below are relative to `src/` unless they name a module.

## 1. The system

### 1.1 Components

| component | code | state | operations |
|---|---|---|---|
| hub | `internal/server/hub.go` and some 500 files of game rules | players, mobs, items, containers of every dimension, one per process; all of it owned by one goroutine | one handler per event of `hub.events`, one `tick` every 50 ms |
| player and mob hand-over | `internal/server/handoff.go`, `shardown.go`, halves of `remote.go`, `hub.go`, `dimension.go` | `handoffs` (releases awaiting an ack), `pending` (snapshots held for a gateway), `migSeq`, `eidCounter`, `tracked.migrating` | cross a seam, hold, ack, release and re-home, refuse, claim by token, roll back; the mob version sends and forgets |
| peer mesh | `internal/server/peer.go` | one warm TCP link per neighbour | dial and redial, handshake, replace a stale link, read loop, send |
| cross-seam shadows | `internal/server/shadow.go` | read-only mirrors of a neighbour's entities near the border | push on every other tick, retract, mirror, give way to the real entity; nothing is cleaned up when a link is lost |
| session event queue | `internal/server/player.go`, `remote.go`, `commands2.go`, `idletimeout.go` | `out` (channel of 256), `crit` (overflow of 8192 with its mutex), `critWake`, `quit` | `trySendEv`, `sendEv`, `sendEvReliable`, kick, leave; the pump `decodeLoop` |
| attach sessions | `internal/attach/attach.go` | one connection of a gateway: reader, writer lock, chunk workers, the set of chunks sent | login or resume, Want, Move, Chat, ... |
| chunk streaming | `internal/attach/attach.go` | `wants` backlog, `sent` | enqueue what a Want lacks, build and send on a pool of workers |
| mob persistence | `internal/server/mobstore.go`, `mobchunks.go`, `mobreload.go`, `storeio.go` | live mobs, active chunks with unload clocks, buckets of saved mobs, a background writer, `mobs.json` | reload and unload on every tick, autosave, explicit save, boot |
| world edit store | `internal/world/world.go`, `store.go`, `servercmd/servercmd.go` | the overlay of edits of one dimension, `dirty`, the live file and its temporary | `SetBlock`, `RevertEdit`, `Save` (ticker, `/save-all`, bus, shutdown), `Load` |
| light, heightmaps, points of interest | `internal/world/light.go`, `lightinc.go`, `heightmap.go`, `poi.go` | `light` with its `lightVer`, `heightmap`, the index; each under a mutex of its own | flood fill, relight one cell, check a version, evict; count a column, move its top; scan, store, drop |
| chunk caches | `internal/world/chunkcache.go`, `chunkdir.go` | generated chunks in memory and on disk | generate, load, drop |
| containers and windows | `internal/server/crafting.go`, `chest.go`, `bin.go`, `windowvalid.go`, `inventory.go`, parts of `hub.go` | `chests`, `bins`; a player's inventory, cursor, grid, `winKind`, `viewChest` | open, click, close, spill, tick, pick up, toss, die, save on leaving |
| world generation | `internal/worldgen` | none: functions of a seed | generate a chunk |
| region file reader | `internal/anvil`, `worldread` | none | decode |
| attributes, plugins, bus | `internal/attribute`, `plugin`, `internal/server/bus*.go` | modifiers; subscriptions | called inside the hub |
| web map, commands, tools | `daemons`, `cmd`, `servercmd` | none of the simulation's | start-up, rendering, export |

### 1.2 How they interact

Everything that simulates runs in the hub's goroutine.  The others post to it:
an attach session posts `evJoin`, `evLeave`, `evMove`, `evDim`; a peer link's
reader posts the frames of its neighbour; a bus or console command posts
`evSaveState`.  What leaves the hub goes through three doors: frames for a
client go to that session's queue, from which the session's pump writes to the
gateway; frames for a neighbour are written to the peer link by the hub itself;
files are written by the hub (`flush`), by one background goroutine per file
(`bgWriter`), or, for the overlay of edits, by whichever goroutine calls
`World.Save`.  Connections do some work themselves, under locks: a session
digs and builds in the overlay, and owns its idea of the player's dimension,
which it then tells the hub of.

### 1.3 What is hard

* **Two pods, no shared store.**  A player exists in a pod's map, in a frame,
  in a held snapshot, in a token a gateway was told.  Links drop, pods restart
  with their counters at zero, and nothing fences an old owner but the order of
  hold, ack, release and claim.
* **Copies of one mob.**  An autosave leaves a mob both live and in a bucket; a
  reload, an unload, a stray in an inactive chunk and a slow write must not
  count it twice (`mobdup_test.go` is about one time they did).
* **Three goroutines and two mutexes round a session's queue.**  A frame is
  parked and the pump is woken in two steps; the queue has a fast and a slow
  path whose order matters; a kick races the pump.
* **A save with no lock from end to end.**  `World.Save` reads the mark, copies,
  clears the mark and writes, with edits and other saves in between, and the
  process may die at any step.
* **Back-pressure.**  Bounded queues with different answers to being full: drop,
  block, overflow, close the session, panic.

### 1.4 What makes each part correct

* Hand-over: one owner of an entity; a player only gets its own state back; no
  attached player is nowhere; a source lets go only of what the destination
  holds; a crossing ends; a mob is never in two places.
* Mob persistence: a mob of the world is in one place, once, whatever the order
  of saves, reloads and unloads; a dead one stays dead; a save ends.
* Session queue: a life-cycle frame (spawn, despawn, dimension switch) is
  never dropped while the session lives, overtakes an earlier one of its sender in
  one narrow window only, and is not left asleep; no sender hangs.
* World edit store: the live file is always whole; no edit is forgotten; a nil
  answer means the edits are in the file; every edit reaches the disk.
* Light, heights, points of interest: what is cached belongs to the blocks of now,
  whoever edited while it was computed.
* Chunk streaming: no hole that no later Want would fill; the window of a
  standing player fills; a block on the client's screen is the world's or about to
  be; an entity is shown only in a chunk the client holds; no worker is left behind.
* Containers and windows: no item is made or lost, whatever is broken, clicked,
  closed, saved or carried abroad in between.
* Peer mesh (not modelled): two hubs never wait for each other's queues.
* Shadows: a mirror is known to its owner or about to be retracted; the end of a mirror
  never hides the real entity; once all is still, a neighbour mirrors what is in reach
  and nothing else.

`PROJECT.json` lists the hazards behind these, each at its line, with the
properties that cover it, or a note where none does yet.

## 2. The plan

In order of importance; all but the ninth are done.

1. `Handover`: the crossing protocol between pods.  *Done*, with every safety
   property of its runs proved.
2. `MobStore`: live mobs against `mobs.json`.  *Done*, with exactly-once proved.
3. `SessionQueue`: the outbound queue of a session.  *Done*, with every safety
   property of its run proved.
4. `WorldStore`: the overlay of edits against its file.  *Done*, with every
   safety property of its passing run proved.
5. `EventFeed`: what a queue keeps of what its senders are told, and the proof that
   `SessionQueue` implements it.  *Done*.
6. `LightEngine` and `WorldCaches`: the light algorithms, and the caches that race
   the edits of the world.  *Done*, with every property of its runs proved, the light
   included.
7. `ChunkStream`: the Want handler, its backlog and workers, against the block
   updates of the session's queue.  *Done*, with every safety property of its runs
   proved.
8. `Windows`: containers, open windows and inventories.  *Done* for chests and
   bins (dispensers, droppers, hoppers and crafters), with every property of its run proved; furnaces and the machines with a
   result slot would follow.
9. `PeerMesh`: bounded sockets and hub queues between two pods, a reader per
   link that posts to its own hub; deadlock freedom, and which frames a
   replaced link may reorder.  `Handover`'s `wire`, unbounded and in order, is the
   abstract specification the mesh is to implement while a link lasts.
10. `Shadow`: mirrors across a seam over the same wires as `Handover`.  *Done*,
    with every safety property of its run proved.

Abstract specifications still worth stating: for `Handover`, a table from entity to
owner with an atomic transfer; for `WorldStore`, a register whose save copies the
memory to the disk atomically.  Theorems worth proving next: that `Handover` and
`WorldStore` implement these.

## 3. The modules

Each component has one specification, an `MC` module that gives it the small
values TLC needs, and a module of theorems, `<specification>Proofs`.  One action is what one goroutine does between two points at which another can run: a whole hub handler, a critical
section, a channel operation, a system call.  A definition whose comment begins
`Fault:` is a plausible mistake in the definition that follows it; the
specifications never use one, and each property is known to fail when one of them
takes that definition's place.

### 3.1 `Handover`

| variable | code |
|---|---|
| `ents` | the `players` map of every hub: entity id, session, `migrating`, state |
| `mobs`, `filed` | the mobs of every hub; the ones in its `mobs.json` |
| `handoffs` | `hub.handoffs`, by migration id |
| `pending` | `hub.pendingResume` |
| `ses` | attach sessions: whether `evJoin`, `evDim`, `evLeave` is queued, the connection's own dimension |
| `rehomes` | `Rehome` frames in a session's queue or read by its gateway |
| `home` | the gateway's side: the session a client plays on (external) |
| `links`, `wire` | peer links; frames written and not yet handled, per direction |
| `eidCtr`, `migSeq` | the counters of a pod, zero after a restart |
| `minted`, `faults` | history, and the bounds of the faults |

The handlers are `OnJoin`, `OnLeave`, `OnDimSwitch`, `LocalChange` (any event
that changes a player and does not cross), `CrossSeam` (`checkSeamCrossing` and
`beginHandover`, with the roll-back when the write fails), `MobMove`,
`ApplyMigration`, `ApplyMobMigration`, `FinishHandover` and `SaveMobs`; a
connection's `Login`, `Resume`, `SwitchDim`; the gateway's `Quit` and `Close`;
the faults `LinkDrop`, `LinkUp`, `Restart`.  A link that breaks loses any suffix
of the frames the other side had not read; what was read is in the hub's queue
and is still handled.  A restart loses everything but `mobs.json`.

Abstracted: the state of a player is whose it is, its entity id, its dimension
and a revision; regions and positions are the choice of the destination pod;
chat sessions, statistics, mounts and items ride in the state.  A hub queue is
the set of events it holds: handlers of different sessions may run in either
order, as their goroutines may post in either order.

### 3.2 `MobStore`

`live`, `bucket`, `data` and `file` count the copies of each mob in each chunk,
so a mob can be there twice: that is the mistake the code once made.  `active`
and `outFor` are `hub.activeChunks` and the unload clocks; `bg`, `again` are
`bgWriter.running` and `pending`; `hub` says whether the hub waits in `flush`.
`Reconcile` is the whole of `reconcileMobChunks` in one tick: it reloads at most
`ReloadBudget` chunks in range and every chunk a live mob strays into, advances
the clocks, and unloads (with the overwrite of the bucket, `Stash`) what has been out of
range for `UnloadGrace` ticks.  `Autosave`, `BgMarshal`, `BgWrite`, `Save` and
`Flush` are the two ways to `mobs.json`; `Exit` and `Crash` boot the next
process from it.  The background goroutine marshals when it runs, which may be
after the hub has gone on changing the buckets.

Abstracted: what a saved mob remembers, mounts and riders, mobs that are never
saved, and the once-only sweeps of old saves at boot.

### 3.3 `SessionQueue`

`out`, `crit`, `wake`, `quit` are the fields of `player`; `pc` and `hold` are
where each sender stands in `trySendEv`, `sendEv`, `sendEvReliable` or a kick, and
with which frame; `pump` and `batch` are the position of `decodeLoop` and what
`takeCrit` gave it.  Each call is split where the code lets go of `critMu` or
meets a channel: the look at the overflow and the probe of the channel
(`SendReliable`, `Probe`), the parking (`Overflow`), the wake-up (`WakeCrit`).  The
pump's blocking `select` is three actions, of which Go picks any that is ready.

Abstracted: what a frame says, the captured output of console commands, the
private drains of the console, and the moment between a receive and the write of the
frame.

`EventFeed` is the feed its senders have, without any of these: a frame is taken on,
perhaps parked, delivered or refused, and every rule of order is in `Deliver`.  It is
weaker than the comments in one point, which it names: the client turns (`Look`, `Turn`)
from what is not parked to what is, and what comes meanwhile is `late` and may be
overtaken.  `SessionQueue!Feed` is the refinement: `waiting` is what a queue has, `parked`
what lies in the overflow or in the pump's batch, `turning` the pump between its look at
`out` and `takeCrit`, `late` what `out` was given in between (a history variable).

### 3.4 `WorldStore`

The overlay is named by the number of edits that made it.  `marking` holds the
editors between their edit, made under the lock, and `dirty.Store(true)` after
it.  `saver` is each call of `Save`: the step it has reached, its copy, what its
caller is owed, and the file its descriptor reaches by now, because another
saver may have renamed or removed what it opened: all saves of a world share one
temporary name.  The actions are `Tick` (the autosave's look at
`saveOff`, which `SwitchSaving` changes and a restart forgets; no other saver heeds it),
`Begin` (the look at `dirty`), `CopyEdits`,
`ClearDirty`, `Create`, `Write`, `Rename`, the failures `FailWrite` and `FailName`
with the cleared mark put back by `Refuse`, and the process's `Exit`, `Kill` and
`Boot`.  `slipped` and `overlapped` are history: an edit lost its mark to a save that
does not hold it; two saves of the world were at work at once.

Abstracted: where the edits are, the caches they refresh, and power loss, which
the `fsync` before the rename is for.  The Valkey store (`valkey.go`) is not
modelled.

### 3.5 `LightEngine` and `WorldCaches`

`LightEngine` is the arithmetic of light.  `Fill` is `computeLight`: the seeds
and the waves of a flood fill over a chunk and its neighbours, until a wave raises
nothing (`Propagate`).  `Relit` is the
incremental engine of `lightinc.go`: `CheckBlockNode` and `CheckSkyNode` put
entries in the two queues, `PropagateDecrease` and `PropagateIncrease` work them off
one by one, in the order and with the direction sets the code keeps.  The loops are
recursive functions over all the states a loop can be in (`Waves`, `Works`), not
`RECURSIVE` operators, so that they can be proved about; that such a function exists,
which is that the loop ends, is part of the proof.
`TrueLight` is the reference both are held against: a cell is lit to `v` when it is a
source of `v`, or a neighbour is lit to `v` and the cost of the step.  The world is a
slice, one horizontal axis closed to a ring and a height; three dimensions add
directions and no new kind of step.

`WorldCaches` puts threads round it.  An edit (`SetBlock`, `RevertEdit`) is the
overlay write and the relight under `lightMu`, then the index (`DropIndex`), then
the heightmap (`UpdateHeight`), and other threads run between any two.  A light
fill notes the version of its chunk (`BeginFill`), reads three overlays one by one
(`ReadChunk`), and stores what it found if its version still stands (`EndFill`,
`Overtaken`); over the cap another entry goes (`CacheTrimmed`).
`PrimeHeights`, `LookForPoints` and `StorePoints` are what the hub asks for;
`Load` and `Unload` are the memory cache taking its light, heights and points with
it.  `missed` and `crossed` are history: a scan that an edit slipped past, a column
with two edits at once in one cell.

### 3.6 `ChunkStream`

The client, the connection's reader, its workers, the pump, the hub and whoever
edits the world.  `sent` is the reader's record of what it asked for and `view` the
hub's of what was written; `toServer`, `hubQueue`, `feed` and `out` are the four
queues between them; `job` is each worker's step.  A chunk goes world, worker, `out`
(`Take`, `Build`, `Send`, `Report`); a block update goes world, hub, event queue,
pump, `out` (`Edit` and `Post`, or `HubEdit`; `Broadcast`, `Pump`): neither road waits for
the other.  `ReadWant` is the whole handler: forget what is out of reach, ask for what
is missing nearest first, let the gate hold chunks back, unmark what the backlog has no
room for.  `SwitchDim`, `Reconfigure` and `ReadConfigured` clear both records from two
goroutines.  `ReaderEnds` and `CloseSession` end the session from either side.  A move
posted before a switch and handled after it puts the player, for the hub, at its
coordinates in the new dimension (`Hub`; `evMove` names no dimension), unless
`validateMove` finds that too far, until the client's next move.

Chunks lie on a line in each dimension, since every test of the code is one of
distance; of a chunk one block is followed, as the number of its changes, of which
there are at most `MaxEdits`.  `NearestFirst` gives each chunk of the window its rank
by distance and raster, which is what the stable sort does.  `Dims` are dimensions the
server has: the skip of a worker asked for one it has not (`attach.go:421`), which a
gateway that asks where it was sent never does, is left out, as are moves of a player that
`validateMove` refuses in the dimension they were made in.

### 3.7 `Windows`

One kind of item is counted wherever it can be: inventory, crafting grid, cursor,
storage of a container, ground, snapshot of a crossing, another pod.  `Total` sums
such numbers as the size of a pile that has each item once, with where it is.  A window on a
chest keeps a pointer to the storage; one on a bin, that is a dispenser, dropper, hopper
or crafter, looks the storage up at each click (`Behind`), and once it is gone finds no
slot of the window at all, the player's own included (`Blank`).  A connection breaks or places a block at once (`Dig`, `Place`) and
the hub learns of it later (`OnBlock`, which spills and forgets the storage,
`Spilt`, `Forgotten`); the hub's own breakage (`SimBreak`) does both in one step.  A
click is one action with the slots the client claims: it is kept only if nothing is
gained (`NoGain`), and what it has left over is thrown on the ground (`Thrown`).  A
`BlankClick` checks and sets the cursor only: what the client claims to have laid into
slots counts as a destination and is written nowhere, which `swallowed` counts.  A click is
taken to name each slot once, as the map of changed slots does that a client of the
game sends; `handleClick` itself (`crafting.go:511`) would count a slot named twice twice.
`Close`, `Die`, `OnLeave` fold grid and cursor back (`Folded`, `Dropped`); `Tick` is
`validateWindows`; `BeginHandover`, `FinishHandover` and `RefuseHandover` are the
crossing as far as it carries the inventory.

Abstracted: the slots of an inventory are one number; the craft result, the
furnace and the machines with a result slot are left out, and so are
stack sizes and kinds.  Double chests and hopper carts are left out as well: a furnace or
half of a double chest is looked up at each click like a bin, but only the storage's
own slots are lost with it.

### 3.8 `Shadow`

The mirrors of `shadow.go`, over the wires of a hand-over and with the crossing of a
player, which changes the owner of what is mirrored.

| variable | in the code |
|---|---|
| `at`, `dim`, `near` | the pod whose `players` or `h.mobs` holds the entity; its dimension; the neighbours `shadowTargets` would find |
| `mig`, `held`, `told` | `t.migrating`, `pendingResume`, a `Rehome` on its way |
| `out`, `mirror` | `hub.shadowOut`, `hub.shadowIn` (the dimension of each entry) |
| `tracked` | `t.tracked` of a player who stands near the seams of the pod |
| `links`, `wire` | `peerMesh.conns`; the frames between two hubs, a socket and an event queue together |
| `forgotten` | history: retractions that were lost, or that nobody sent |

`UpdateShadow` is `pushShadow` for one entity: it sends to the targets, retracts from whom
was one before, and forgets the latter whether or not the link took the frame.
`Vanish` is every way of leaving that ends in `shadowGoneAll` (`removeMob`,
`despawnMob`, an exploding creeper or sulfur cube, `onLeave`), `Convert` the one that
does not.  `ApplyShadow` and `ApplyShadowGone` are the neighbour's side, `Track` is
`syncTracking`.  `Cross`, `ApplyMigration`, `FinishHandover`, `Refused` and `Resume`
are `Handover`'s crossing with its tokens, roll-back and switches of dimension left
out: they are checked and proved there.  A mob that crosses is a `Vanish` here and an
`Appear` under a new id there.

Abstracted: a position is the set of neighbours in reach; every pod has one player who
is always in the overworld near the seams, so that the pod's hub ticks its entities and
somebody sees them.  A hub that meets a full socket does something else first, so the
waiting of two hubs for each other is not in this model (hazard `peer.go:167`).

## 4. What TLC checks

`PROJECT.json` lists the runs; each is `tlc -config <run>.cfg <module>`.

### 4.1 Runs that pass

| run | instance | properties | distinct states |
|---|---|---|---|
| `handover_safe` | 2 players, 2 pods, 3 sessions; 2 entity ids and 2 migrations per pod life; 1 link drop, 1 restart, 1 full queue, 1 late leave | `TypeOK`, `OneOwner`, `OwnState`, `NeverStranded`, `MakeBeforeBreak` | 618,037 |
| `handover_ends` | 1 player, 1 mob, 2 pods, one alone with a second dimension, 4 sessions, 1 crossing per pod life, 1 link drop, fair | `MobOnce`, `CrossingEnds` | 193,567 |
| `mobs_once` | 2 mobs, 2 chunks, reload budget 1, grace 1, 1 crash, fair | `TypeOK`, `ExactlyOnce`, `SaveEnds` | 766,618 |
| `queue_reliable` | the hub sends 3 frames, a connection 1; channel of 1, overflow of 2, fair | `TypeOK`, `Guaranteed`, `NoJump`, `NoLostWake`, `Delivered`, `SendersReturn`, `ImplementsFeed` | 178,876 |
| `world_save` | 1 editor, 2 edits, ticker and shutdown saving, `/save-off` and `/save-on`, 1 failed file operation, 1 kill, fair | `TypeOK`, `NeverTorn`, `NothingMissed`, `AnswerKept`, `EditsReachDisk` | 916,057 |
| `light_right` | 1 editor, 1 chunk builder; a ring of 4 chunks of 4 by 4 cells, light up to 3, 4 block states, 2 sites to edit, a cache of 3 chunks | `TypeOK`, `LightRight` | 45,051 |
| `indexes_right` | 2 editors of two cells of one column, one of which asks for heights and points of interest; the chunk may be unloaded | `HeightsRight`, `PointsRight` | 100,942 |
| `chunk_stream` | 2 dimensions of 2 chunks, 1 worker, 2 edits of one block, 2 travels, 1 lost update, 1 failed build | `TypeOK`, `HeldIsCurrent`, `ShownOnlyWhereHeld` | 1,624,091 |
| `chunk_fill` | a line of 5 chunks, radius 1, 2 workers, a backlog one Want can fill, a frame queue of 1, 1 travel, 1 end, fair | `NoSilentHole`, `DropsOnlyInBursts`, `FilledWhenStill`, `WorkersEnd` | 155,129 |
| `windows_keep` | 2 players, one of whom may cross a seam; a chest stocked with one item, a dispenser; every place holds one item | `TypeOK`, `Conserved`, `NothingBuried` | 732,565 |
| `shadow_mirrors` | 3 pods at a corner, one with the overworld only; 1 player or 1 mob; any 2 of crossings, moves, link drops, restarts; 2 frames on a wire, fair | `TypeOK`, `NoGhost`, `RealStays`, `Settled` | 171,236 |

What they show:

* **`handover_safe`.**  `OneOwner`: as long as no id is minted twice, no
  interleaving of crossings, roll-backs, drops, restarts and claims lets two pods, or
  two sessions of one pod, simulate one entity; the ack-gated release needs no
  fencing.  `OwnState`: a token claims the snapshot of the crossing it
  was issued for.  `NeverStranded`: a player whose gateway is attached is joining,
  simulated, or held under the token its gateway was told, wherever the
  link drops.  `MakeBeforeBreak`: no step removes a player that has not left unless
  another pod holds its state.  Two players, two pods and two migrations are the
  least with which a token can be confused with another player's, a crossing back can
  overtake the first crossing's leave, and a restart can mint ids again; three sessions
  give a player there, back, and another one beside it.
* **`handover_ends`.**  Refusals need a pod that does not run the player's
  dimension, hence the pod without the nether; each pod may start one crossing, so the
  player can come back and the mob can cross under it.  `CrossingEnds` promises nothing once
  a link has dropped: a lost ack leaves `migrating` set for good.  `MobOnce`: a mob
  crosses by fire and forget; it may be lost, and is never in two places until a pod
  is restored from an old `mobs.json`.  TLC checks it with one link drop; the theorem
  covers any number of mobs, crossings and drops.
* **`mobs_once`.**  `ExactlyOnce` is what `mobdup_test.go` and the comments on bug
  45 are about, over all orders of the operations.  Two chunks and a budget of one
  let one chunk wait while the other reloads, let a mob stray into a chunk that holds
  saved mobs, and let an autosave fall between any two of these.  A grace of one makes
  unloading as eager as it can be.  The constraint `SoundBoot` drops what follows
  a boot from a file that already holds a mob twice: that needs a crash between a
  late background write and the next, and `ExactlyOnce` promises nothing there.
* **`queue_reliable`.**  A channel of one is full at once, and an overflow of two has
  an inside: a frame can be parked behind another, refused, taken in a batch of
  two.  `Guaranteed` accounts for every frame, `NoJump` for the order of the life-cycle
  ones in both directions, through the channel past the overflow and through the overflow
  past the channel, `NoLostWake` for the two steps of parking and waking.
  `ImplementsFeed` says it all at once, and more: also plain frames keep their order in
  the channel.  The two overtakings the feed allows do happen: a parked frame is
  delivered before an older one of its sender, life-cycle or plain, that came to the
  channel while the pump turned from it to the overflow (`Late`), and a plain frame
  before an older parked one.  The first is not what the comments say (section 4.2).
* **`world_save`.**  Two edits tell a copy from a newer overlay and from an older
  file; two savers are enough to share the temporary, replace each other's file,
  and answer each other's mark.  The properties say "until two saves overlap" and
  "until a mark slips" because the code promises no more: without
  `~overlapped` TLC finds a torn live file, and without `~slipped` an edit
  no save will ever hold (section 4.2).  `EditsReachDisk` promises nothing of a server on
  which `/save-off` stays given, or is given again and again: there only a `/save-all`, a
  bus save or a stop writes the edits, and nobody is bound to ask for one.
* **`light_right`.**  A tunnel under a roof across a chunk border, with daylight at both
  mouths: the sites to edit are a hole in the roof on one side and a torch or wall below it
  on the other, so light comes and goes down, sideways and across the border, and one
  edit's decrease meets another's increase.  Light of 3 in chunks of 4 keeps what matters of
  15 in 16: what an edit changes reaches the next chunk and never the one after.
  `LightRight` compares every cached chunk with the reference after every step, so it
  judges the relight's queues and the races of fills at once.
* **`indexes_right`.**  The roof and what is under it, so that one edit decides what the other
  must find.  Two orders are excepted by history variables, since the code does not rule
  them out: two edits of one cell applying their heights in the other order, and an edit
  between a scan of points and its store (section 4.2).
* **`chunk_stream`.**  Two edits tell an older update from a newer; a radius of 0 with a
  margin of 1 has chunks held outside the window; the portal brings a block of the same
  place in another dimension.  `HeldIsCurrent` names in `stale` the orders in which
  the code leaves an old block on the screen: the update goes only as far as
  `viewRadius`, while the client keeps more; a chunk built from the older overlay is
  sent after the update; the event carries its writer's state; a block frame names no
  dimension.  Everything else is checked to heal.
* **`chunk_fill`.**  The second Want overfills the backlog while two workers hold a
  chunk each and the frame queue is full, which is the least with which a chunk can be
  marked as sent and lost.  One chunk nobody owns, and one the gate may hold back.
* **`windows_keep`.**  One item per place makes every place full at once: a second item
  (of a container that was broken and placed again) has nowhere to go.  One kind of item is
  enough to see one made or lost; two players see one another's window, break, pick up
  and toss.  The constraint `Sound` stops at the two cases `Conserved` excepts, a click
  through a window whose chest was forgotten and a crossing that leaves behind what
  the snapshot did not have (section 4.2).  What the window of a dispenser that is gone
  swallows is no such case: the runs go on, and every item missing is in `swallowed`.
* **`shadow_mirrors`.**  The third pod at the corner is where things overtake: it hears
  of one player from two owners over two links.  Two events are enough for a player to
  cross twice, with a mirror and its retraction by the first owner still on the wire when
  it becomes real at the third (`RealStays`); to cross and walk; to lose a link or a pod
  in the middle of either.  Two frames on a wire let a shadow and its retraction travel
  together.  `NoGhost` ties each mirror to its owner's memory, so nothing but the
  losses in `forgotten` can leave one behind; `Settled` says what every neighbour shows in the
  end, after any overtaking.  The two exceptions, and the one for dimensions, are told in
  section 4.2.

`CHECK_DEADLOCK FALSE` stands in the cfgs of `Handover` (sessions and ids are
bounded, so a run ends when they are used up), of `SessionQueue` (a closed
session whose pump has stopped does nothing more), of `world_save` (a live file
torn by overlapping saves stops every later boot), of `ChunkStream` (a session ends),
of `Windows` (a player who went abroad does not come back, and storages are bounded) and
of `Shadow` (what left does not come back, and ids are bounded).
`mobs_once` and the two runs of `WorldCaches` check deadlock.

### 4.2 Where the code and its comments part

One run ends in a counterexample: it states what a comment says and TLC refutes it; text
and lines are under `findings`.

| run | claim | what happens |
|---|---|---|
| `world_stop` | a clean stop never loses recent building (`servercmd.go:174`) | the last save finds the mark cleared by an autosave still at work, answers nil, and the exit kills the autosave |

The others are kept as exceptions of the properties above, by history variables or by
what the property says.  Each was met while modelling:

* `internal/server/handoff.go:47`, "The player is frozen locally (t.migrating) but
  NOT removed until the ack lands": only `checkSeamCrossing` tests the flag, so damage,
  pick-ups and clicks between snapshot and ack are lost at the release.
* `internal/server/shardown.go:64`, "session-stable across handovers and never collides
  with a shard's mob lane": the counter of each pod starts at zero at each boot and the
  lane of player ids is one for all pods, so two pods mint one id.  `OneOwner` is
  stated for runs in which no id is minted twice.
* `internal/server/dimension.go:11`, "The connection owns the client-facing sequence
  [...] then tells the hub via evDim so the authoritative record and everyone's entity
  views move": `ResumeRemote` (`remote.go:107`) makes a player whose own `dim` is zero
  whatever dimension the snapshot is in.
* `internal/server/mobstore.go:16`, "live mobs are saved to mobs.json and reconstructed
  at boot so entities survive a pod restart": `bucketLive` leaves out a mob outside the
  active chunks, at the last save too.
* `internal/server/player.go:201`, a life-cycle frame "must be delivered reliably and in
  order", `player.go:281`, "guaranteed, in-order delivery", and `remote.go:397`, frames in the
  overflow "are always temporally later": the pump finds `out` empty (`remote.go:400`),
  the hub fills `out`, a life-cycle frame among what fills it, and parks the next
  life-cycle frame; `takeCrit` comes before the next look at `out`, so the later frame is
  written first.  History: `late`; `NoJump` and the feed except the frames of that
  window and no others.
* `internal/server/player.go:242`, "back-pressure only ever stalls that one session, never
  the hub": the hub sends plain frames with the blocking `sendEv` as well (`dimension.go:169`,
  `dragon.go:539`, `scoreboard.go:201`), and waits while that session's channel is full.
  `SendBlocking` is an action of the hub for this reason; `SendersReturn` holds, since
  the pump goes on or the session ends.
* `internal/server/commands2.go:104`, "The disconnect SCREEN, with the reason on it": the
  frame is a plain one and may be dropped, and once the session is closed the pump's
  `select` may take `quit` before it (`remote.go:416`).
* `internal/world/poi.go:12`, "dropped when an edit lands in that chunk": `POIsInChunk`
  stores what it scanned earlier (`poi.go:104`), after the drop.  History: `missed`.
* `internal/server/chest.go:199`, "Anyone still viewing it gets a resync on their next
  click (stale window id path)": the window's id is reset by the next tick's
  `validateWindows`, and not at all if another container has been placed there by
  then; a click goes through the pointer to a chest that is nobody's.  History: `stale`.
* `internal/server/crafting.go:499`, "Every legitimate non-creative click conserves items",
  and `crafting.go:495-497`, "whatever no destination takes was thrown out of the window [...]
  and drops, whole": after a dispenser, dropper, hopper or crafter is broken, and before the
  tick that closes the window (or for as long as another one stands there that nobody has
  opened), `winSlotPtr` finds no slot of the window, the inventory's included
  (`crafting.go:314`, `:329`).  A client that lays the cursor down in its own inventory
  passes the check, its slot counts as the destination, nothing is written there
  (`crafting.go:572`), and the cursor is emptied (`crafting.go:616`): the item is gone.
  `Conserved` counts what is lost so in `swallowed`, item by item.
* `internal/server/decoratedpot.go:161`, "never restocked (the same rule a looted chest
  follows)": breaking a structure's chest forgets it, and one placed in its stead is
  stocked with the structure's loot again (`chest.go:136`).  `Conserved` counts
  it as supplied.
* A crossing carries the inventory as it was at the snapshot; what was moved between
  inventory and containers until the ack exists twice or not at all (history:
  `torn`).  The saved inventory of a player who logs in before the leave of an earlier
  session is handled is read before it is written (`hub.go:2689`), and inventories and
  containers are saved in separate files (`hub.go:1400`): both are left out of `Windows`,
  which lets a player in only after the leave and has no crashes.
* `internal/server/shadow.go:155`, "retracts an eid from every neighbour currently holding a
  shadow of it — called when the entity leaves this pod (despawn, death, ...)":
  `convertMob` (`drowned.go:56`: a zombie that drowns, a pig or villager struck by
  lightning, a sheared mooshroom) deletes the mob without calling it, so its mirror
  stays at the neighbours.  A retraction over a link that is down is lost just so:
  `shadow.go:88` and `shadow.go:163` ignore the error and forget the neighbour, and
  nothing removes the mirrors of a pod whose link or process has gone.  History:
  `forgotten`.
* `internal/server/shadow.go:14`, "retracts them (ShadowGone) as they drift out of range or
  leave": an entity that changes to a dimension the neighbour does not run keeps its
  mirror there in the old one, since `applyShadow` returns early and `shadowTargets` does
  not look at dimensions.  `Settled` leaves out entities in such a dimension.
* `internal/server/shadow.go:10`, "so their players SEE it": a mirror is spawned for the
  players near it when it is first heard of, and for those who join later; whoever
  walks up to it afterwards is sent its moves only.  Left out of `Shadow`, which has its
  viewer near the seam all along.

### 4.3 Fairness

Safety properties are checked under every interleaving.  The liveness
properties assume weak fairness, and only of steps somebody in the code is bound
to take:

* `Handover`: a hub handles the events and frames in its queue (`hub.run` is a
  loop over one channel), a gateway acts on a `Rehome` and hangs up what it has
  left.  Nobody is bound to move, switch dimension, log in, or keep links up; a lost ack
  leaves `migrating` set for good, which is listed as a hazard, and `CrossingEnds` speaks
  of the time before a link drops.
* `MobStore`: the Go scheduler runs the background goroutine, and the hub when
  what it waits for has happened.  File writes return.
* `SessionQueue`: the pump and a sender inside a call run when they can.  Nobody is
  bound to send.  `Delivered` is checked with a bounded number of frames, which
  stands for a pause of the senders: the channel has priority over the overflow, so
  senders that never pause can keep the overflow waiting.
* `WorldStore`: an editor marks what it edited, a call of `Save` runs to its end, and
  the autosave comes round again and saves (`Tick`, `Begin(Ticker)`).  `Tick` is enabled
  only while saving is on, since the loop goes on to its next tick otherwise
  (`server.go:826`); weak fairness owes it nothing while `/save-off` is in force, and
  `EditsReachDisk` has it as a premise that saving is on from some moment.  Operators'
  commands, failures and kills are nobody's duty.
* `ChunkStream`: `System`, the goroutines of the server and the client's reading of
  its connection, runs on while it can.  Moves, edits, failures and the end of a session
  are nobody's duty.
* `Shadow`: a hub handles its neighbours' frames and pushes its entities on every other
  tick (`hub.go:1202`, while a player or a ticket keeps its mobs ticking), the dialler of a
  lost link tries again for ever (`peer.go:94`), and a gateway resumes where it was told
  to.  Nobody is bound to move, leave, or spare a link.
* `WorldCaches` and `Windows` have no liveness properties and assume no fairness.

## 5. What TLAPS proves

Every theorem holds for all values of the constants that meet the assumptions.

| theorem | statement |
|---|---|
| `HandoverProofs!TypeCorrect` | `Spec => []TypeOK` |
| `HandoverProofs!MobOnceAlways` | `Spec => []MobOnce` |
| `HandoverProofs!OneOwnerAlways` | `Spec => []OneOwner` |
| `HandoverProofs!OwnStateAlways` | `Spec => []OwnState` |
| `HandoverProofs!NeverStrandedAlways` | `Spec => []NeverStranded` |
| `HandoverProofs!MakesBeforeBreaking` | `Spec => MakeBeforeBreak` |
| `MobStoreProofs!StoreTypeCorrect` | `Spec => []TypeOK` |
| `MobStoreProofs!MobsExactlyOnce` | `Spec => []ExactlyOnce` |
| `SessionQueueProofs!QueueTypeCorrect` | `Spec => []TypeOK` |
| `SessionQueueProofs!NeverSleepsOnOverflow` | `Spec => []NoLostWake` |
| `SessionQueueProofs!QueueImplementsFeed` | `Spec => ImplementsFeed` |
| `SessionQueueProofs!GuaranteedAlways` | `Spec => []Guaranteed` |
| `SessionQueueProofs!NoJumpAlways` | `Spec => []NoJump` |
| `WorldStoreProofs!StoreTypeCorrect` | `Spec => []TypeOK` |
| `WorldStoreProofs!NeverTornAlways` | `Spec => []NeverTorn` |
| `WorldStoreProofs!NothingMissedAlways` | `Spec => []NothingMissed` |
| `WorldStoreProofs!AnswerKeptAlways` | `Spec => []AnswerKept` |
| `WorldCachesProofs!TypeAlways` | `Spec => []TypeOK` |
| `WorldCachesProofs!HeightsAlways` | `Spec => []HeightsRight` |
| `WorldCachesProofs!PointsAlways` | `Spec => []PointsRight` |
| `WorldCachesProofs!LightAlways` | `Spec => []LightRight` |
| `WorldCachesProofs!FillIs` | a flood fill gives a chunk its true light |
| `WorldCachesProofs!RelitIs` | a relight after the change of one cell gives a window its true light |
| `ChunkStreamProofs!TypeAlways` | `Spec => []TypeOK` |
| `ChunkStreamProofs!NoHoleAlways` | `Spec => []NoSilentHole` |
| `ChunkStreamProofs!DropsAlways` | `Spec => DropsOnlyInBursts` |
| `ChunkStreamProofs!ShownAlways` | `Spec => []ShownOnlyWhereHeld` |
| `ChunkStreamProofs!HeldIsCurrentAlways` | `Spec => []HeldIsCurrent` |
| `WindowsProofs!TypeAlways` | `Spec => []TypeOK` |
| `WindowsProofs!NothingBuriedAlways` | `Spec => []NothingBuried` |
| `WindowsProofs!ConservedAlways` | `Spec => []Conserved` |
| `ShadowProofs!TypeAlways` | `Spec => []TypeOK` |
| `ShadowProofs!NoGhostAlways` | `Spec => []NoGhost` |
| `ShadowProofs!RealStaysAlways` | `Spec => RealStays` |

**Assumptions.**  `ConstantsAssumption`: login pods are pods, the overworld is a
dimension, each pod runs some dimensions, bounds are naturals.
`UnusedAssumption`: the mark of an unopened session is no session.
`OfflineAssumption`: neither is the mark of a player who is not connected.
`MobStoreAssumption`: the reload budget and the unload grace are positive.
`SessionQueueAssumption`: so are the capacities.  `WorldStoreAssumption`: the ticker
and the stopper are two savers, and no revision is mistaken for a torn or absent
file.  `LightAssumption`: filters and emissions are of the code's ranges, a chunk is
at least as wide as light reaches, and the ring has four chunks, so that a chunk and
its neighbours are not the whole of it.  `CachesAssumption`: the terrain and what is
placed are states, and the cache of lit chunks has room for one.  `StreamAssumption`:
the client keeps at least the margin the server remembers, and sizes and bounds are
naturals.  `WindowsAssumption`: players and places are finitely many, no place is both
a chest and a bin, and what is there at first fits.  `ShadowAssumption`: the overworld is
a dimension, no player is a mob, no pod is a neighbour of itself, and a socket holds a
frame.  TLC evaluates all of them.

**One owner.**  `OneOwner` is not inductive: it says nothing of the ways an entity
comes back.  `OwnerInv` adds the other owners an entity can have, a session whose
join is queued and a token a gateway was told of whose snapshot is held or on
its way (`Exclusive`); that while a release is open the only owner is the frozen
player at its source (`Frozen`), so that an ack can give the entity away and
nothing else can; that a token belongs to one release or one re-home of one entity
(`TokenOnce`); that players and releases are of the entity their session was
opened for (`Grounded`); and that whatever is in use was minted (`Known`), so
that a fresh id is nobody's.  All of it holds as long as no id has been minted twice
(`Unique`), which is the condition of `OneOwner` itself and is just what a
restart breaks.

**Own state.**  `OwnState` speaks of the state a session was opened with, which comes
from a snapshot another pod put under a token.  `StateInv` follows the snapshot there: what is
held, or flies, under the token of a release or a re-home is of the player whose
session the token was minted for (`OfTokens`), and sessions, the players they play and
the gateways at home on them agree on who that is (`OfSessions`).  It too holds
while no id is minted twice: a token minted again could be another player's.

**Make before break, and nobody stranded.**  A source removes its player on an ack, so
the ack has to be worth something: while a release is open, an ack of it that says yes
means that the snapshot is held under its token, the snapshot and its frame are only
ever at the pod the release names, and that pod is not the source (`Custody`).  A release
closes before the token can be claimed, because only the release tells it to the gateway;
hence the snapshot cannot be gone while an ack is under way.  `Attended` is
`NeverStranded` with what its induction needs besides, that an attached gateway's session is
open.  Both hold of runs without the four things the code does not survive, named in
`Regular`: ids minted twice, restarts, a full queue that drops the `Rehome`, and a
late leave.  Lost links and frames are not among them.

**Mobs.**  `MobOnce` speaks of pods; `Apart` counts the frames in flight as well, by their
place in their direction, since two frames with one mob in one queue would be two mobs.
What is written to a link, read from it and lost with it only moves the places
(`Moved`), and a mob is put on a link in the step that removes it.

**The feed.**  That `SessionQueue` implements `EventFeed` is a statement about order.
`FeedInv` numbers each sender's frames: the one it holds is its last (`Numbered`,
`Hands`), so what it puts in a queue is newer than all of its own there.  Each queue is
sorted by sender, the batch is older than the overflow, and a life-cycle frame in the
channel is older than any of its sender in the overflow (`Ordered`), since a
sender looks at the overflow before it tries the channel.  What comes to the channel once
the overflow has been taken is newer than the batch, so that what a batch passes over
was there before: it is late.  So what the pump takes is the oldest of its lane, as
`EventFeed!Deliver` demands, and every step is a step of the feed or none.  `Guaranteed` and `NoJump` follow from the same invariant.

**Exactly once.**  `Copies` counts a live mob, and a saved one only in a chunk that
is not active.  A reload, an unload and an autosave change `live` and `bucket`, and
leave `Copies` as it was; that is the heart of the proof.  What is added is the
clean stop: from the last copy to the exit the buckets of active chunks mirror the
live mobs (`Stopping`), and once stopped the file is the store and no background
write can land on it (`Stopped`).

**No lost wake-up.**  If the pump sleeps on an overflow, a token is in `critWake` or
a sender is between parking and waking.  The invariant, `Awake`, says the same of the
pump from the moment it has taken the overflow, which is empty then, until it looks
at the channel again: whoever parks a frame meanwhile goes on to wake the pump, and
only `WaitWake` consumes the token, after which the pump looks again.

**Edits and their file.**  `StoreInv` has two tiers.  While no two saves have met
there is at most one at work, its descriptor reaches the temporary it created, the
temporary holds its copy once it is written, and the live file is whole and no newer
than the copy (`Alone`, `InHand`, `Whole`): `NeverTorn`.  While, besides, no mark has
slipped, a saver that answered nil left what it owed in the file (`Kept`), and the
newest edit is in the file, marked, about to be marked, or carried by a save
(`Remembered`): `AnswerKept` and `NothingMissed`.

**Heights and points.**  `HeightsRight` is about the moments when no edit of a column
is under way.  `HeightInv` says of every moment that a stored height tops its column
but for the cells whose update is pending (`Topped`), and that a pending update carries
the state its cell has and no cell has two (`Fresh`), unless two edits of a cell have
crossed: then the update of a cell, whenever it comes, does to the height what
the scan would.  `PointInv` says the same of the index and of the scans under
way: what is found but not stored is right until an edit slips past it.

**Light.**  `TrueLight` is a definition by levels.  The proof first replaces it by two
conditions: a lighting is `Grounded` if what a cell has beyond its own source comes from
a neighbour that has at least the cost more, and it `Spreads` if a cell has what its
source and its neighbours send.  `TrueLight` does both (`TruthIs`), and a grounded
lighting is nowhere above a spreading one (`GroundedBelow`: look at the brightest cell
where it is), so there is only one that does both.  The same argument, counting
columns, shows that a changed cell moves no light further than `MaxLevel - 1` columns
(`TruthFar`), which is why a relight may work in a window and a fill in three chunks.

The loops are functions defined by recursion over infinitely many states.
`LoopExists` builds such a function from a measure that falls with every turn, and
`LoopInvariant` says that what a turn keeps holds at the end; both are proved from the
well-foundedness of the naturals, without an induction theorem, as a least counterexample.
What is to be raised falls in a wave (`GapFalls`); a decrease darkens cells, or shortens
its queue; an increase brightens one, or shortens the other queue.

The waves of a fill stay below the truth and keep that a cell that does not yet have what a
neighbour sends has the neighbour queued (`FillInv`).  The decreases keep `DecInv`: light
is grounded, or about to be darkened (`DecGround`); a cell has what its neighbours
send, or an entry will push it there or look again (`DecSpread`); a cell short of its
own source has an emission queued (`SourcesKept`); a queued cell is dark, or the
entry spares all, or the cell is a sky source that an increase will push from
(`DecDark`); and an entry of level `l` is so near the change that what it darkens is in
the window (`DecReach`).  That the queues begin so is `BlockBegins` and `SkyBegins`; the second
follows the column of the change, whose sources go or come in one stretch
(`SkyMoves`).  When no decrease is left the light is grounded, so at or below the truth;
the increases keep it there and end spread (`IncInv`).

`LightInv` puts threads round it.  The cache has the light of the blocks or, while a
relight is due, of the blocks before its edit; and what a fill has read is still so but
for the cell of that relight, unless the fill was overtaken (`Copied`).  The relight
overtakes the fills that may have read its cell and drops, or relights, the chunks its
light can reach; a fill that was not overtaken has seen the blocks (`SeenIs`).  TLC
finds `LightInv` true on the instance of `light_right`.

**Frames on one line.**  A chunk and the updates of its block come to the client by two
queues, the writer's and the session's, but whatever is in the second will be behind
what is in the first.  `ChunkStreamProofs` reads them as one, `Line`, in which a step
inserts one frame or takes the first.  `Switches` says that the respawns on the line
lead from the dimension the client is in to the one the session has, which tells
a block of a left dimension from one that will arrive in its own; `Staged`, that a
reconfiguration is in one place at a time, a frame, an answer, or an event, so that what
clears one record clears the other; `Located`, that the client is where its last Want
says; `RecordsNear`, `Cleared` and `HeldNear`, that records and client keep to their
windows, hence that what the client drops it will make the server forget.  With
these `Served` is inductive: what a record names is at the client, on the line, or
about to be forgotten (`Given`), or a worker or the backlog has it (`Coming`).  That is
`NoSilentHole` and `ShownOnlyWhereHeld`.  `Fresh` says of every state of a block that is
on the line, at a worker or at the client that it is the last, or that the last
follows it on the line, or has not come to the hub, or that the chunk is one of those
the code leaves stale: `HeldIsCurrent`.  All of it ends with the session, except
`TypeInv`.

**No item made or lost.**  `Conserved` is a sum over all the places an item can be, equal to
what was supplied less what was swallowed (`Owed`), and sums over sets are recursive.  Hence the piles: items are pairs of a place and a number,
a total is the size of a finite set of them, and what moves from a place to another is a
bijection, so that each step is a few instances of one lemma (`PileAdd`).  The invariant,
`Kept`, adds to the sum that a player is never here and abroad at once (`Travels`) and
that two places never share a storage (`Distinct`), without which the spilling of one
would be counted twice.  `NothingBuried` rests on `Reached`: a storage whose
block is gone has the change that will spill it posted, or was opened after it.

**No ghost.**  `NoGhost` speaks of mirrors; what makes them is in flight.  `Followed`
says of every shadow on a wire that its retraction is behind it on the same wire, or that
its sender still has the reader on its list, or that it is one of the retractions
that were lost or never sent.  `OneLife` says that an entity has one owner, and
that an id is given out, and a re-home claimed, once, so that the list of a new owner
never takes the place of that of an old one; `Aside`, that no pod is on its own list.
`RealStays` needs besides that the player of a pod has been sent entities of the
player's own dimension only (`Seeing`).

**Only model-checked.**  All liveness (`CrossingEnds`, `SaveEnds`, `Delivered`,
`SendersReturn`, `EditsReachDisk`, `FilledWhenStill`, `WorkersEnd`, `Settled`), which is
beyond the prover.  Every other property of a passing run is a theorem.

## 6. What is not modelled

* The rules of the game: single-threaded, large in data, and covered by the unit
  tests; they enter the models as the hub that handles its events.
* World generation, attributes: functions over floating-point numbers.
* The region file reader, the web map, the commands: input and output.
* Plugins and the bus: an interface for code outside the repository, called in the
  hub.  The one bus command whose promise depends on order, a save, is a saver of
  `WorldStore`.
* The peer mesh's handshake, its replacement of a stale link and its back-pressure: planned
  (section 2).
* Of shadows: the frames that show a mirror to clients, and the mobs that hunt a mirrored
  player.
* Of containers: the results of crafting, furnaces and the machines with a result slot,
  double chests, hopper carts and what hoppers move, shulker boxes, creative mode, and a
  crash between the two files that hold inventories and containers.
* Of the overlay: the migration of old edits and the Valkey store.
* The disk cache of generated chunks: what is missing or torn there is generated again.
