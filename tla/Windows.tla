------------------------------ MODULE Windows ------------------------------
(***************************************************************************)
(* Containers, the windows players have open on them, and what the players  *)
(* hold (crafting.go, chest.go, bin.go, windowvalid.go, inventory.go): where *)
(* every item is while blocks are broken and placed by connections, and     *)
(* their consequences are handled by the hub later.                         *)
(*                                                                         *)
(* A window on a chest keeps a pointer to the chest's storage (viewChest);  *)
(* one on a dispenser, dropper, hopper or crafter looks the storage up by   *)
(* position at every click.  The two differ when the block goes: the first  *)
(* still shows what was there, in the second no slot is found any more, not *)
(* even the player's own.                                                   *)
(*                                                                         *)
(* One kind of item is followed, as a number in each place it can be: an    *)
(* inventory's slots are one number, and so are a container's.              *)
(***************************************************************************)
EXTENDS Integers, Sequences, FiniteSets

CONSTANTS
    Players,
    Roamers,                \* the players who walk to a seam between pods
    Chests,                 \* positions of containers viewed by pointer
    Bins,                   \* positions of containers looked up
    Standing,               \* positions where a container stands at first
    InvCap, GridCap, HandCap, BoxCap,
    Stock,                  \* what a structure's container is stocked with
    Start,                  \* what each player has at first
    \* Bounds: storages made, evBlocks and requests to open in the queue.
    MaxBoxes, MaxPosts, MaxAsks

Places == Chests \cup Bins
Boxes == 1 .. MaxBoxes
None == 0

ASSUME WindowsAssumption ==
    /\ IsFiniteSet(Players) /\ Roamers \subseteq Players
    /\ IsFiniteSet(Places)
    /\ Chests \cap Bins = {} /\ Standing \subseteq Places
    /\ {InvCap, GridCap, HandCap, BoxCap, MaxBoxes, MaxPosts, MaxAsks} \subseteq Nat
    /\ Stock \in [Places -> 0 .. BoxCap] /\ Start \in [Players -> 0 .. InvCap]

VARIABLES
    block,      \* does the world have a container block at the place
    posts,      \* evBlocks the hub has not handled: place, and what is there
    boxes,      \* h.chests, h.bins: the storage of a place, or None
    slots,      \* what each storage holds
    made,       \* storages made so far
    ground,     \* items lying about
    here,       \* the players the hub tracks
    inv,        \* inventories; of a player who is not here, the saved one
    grid, hand, \* crafting grid and cursor
    asked,      \* the place a connection has posted evOpenChest for, or "none"
    win,        \* the window: its place, or "none", and viewChest
    crossing,   \* the inventory in the snapshot of a crossing under way
    abroad,     \* what a player took to another pod
    \* History, read by properties only.
    supplied,   \* items there ever were
    stale,      \* a click went through a window whose storage was forgotten
    torn,       \* a crossing left behind what the snapshot did not have
    swallowed,  \* items laid into slots that are not found any more
    ghosts      \* places opened when their block had gone already

store == <<block, posts, boxes, slots, made>>
held == <<inv, grid, hand>>
vars == <<store, ground, here, held, asked, win, crossing, abroad,
          supplied, stale, torn, swallowed, ghosts>>
history == <<supplied, stale, torn, swallowed, ghosts>>
away == <<crossing, abroad>>

NoCrossing == -1
NotAbroad == -1
NoWindow == [at |-> "none", box |-> None]
Least(a, b) == IF a <= b THEN a ELSE b

\* The items f puts at the members of S, one by one, and how many they are.
Pile(f, S) == UNION {{x} \X (1 .. f[x]) : x \in S}
Total(f, S) == Cardinality(Pile(f, S))

Init ==
    /\ block = [p \in Places |-> p \in Standing]
    /\ posts = <<>>
    /\ boxes = [p \in Places |-> None]
    /\ slots = [b \in Boxes |-> 0] /\ made = 0
    /\ ground = 0
    /\ here = {}
    /\ inv = Start
    /\ grid = [s \in Players |-> 0] /\ hand = [s \in Players |-> 0]
    /\ asked = [s \in Players |-> "none"]
    /\ win = [s \in Players |-> NoWindow]
    /\ crossing = [s \in Players |-> NoCrossing]
    /\ abroad = [s \in Players |-> NotAbroad]
    /\ supplied = Total(Start, Players)
    /\ stale = FALSE /\ torn = FALSE /\ swallowed = 0 /\ ghosts = {}

-----------------------------------------------------------------------------
(* Giving back what a screen held. *)

\* Fault: what is there already is not reckoned with.
WholeRoom(s) == InvCap

Room(s) == InvCap - inv[s]

\* reclaimCraft without players: grid and cursor go to the inventory as far as
\* it has room, the rest stays where it is.
Folded(s) ==
    LET g == Least(grid[s], Room(s))
        h == Least(hand[s], Room(s) - g)
    IN [inv |-> inv[s] + g + h, grid |-> grid[s] - g, hand |-> hand[s] - h]

\* Fault: what has no room is forgotten.
DropNothing(s) == 0

\* reclaimCraft with players: the rest falls to the ground.
Dropped(s) == Folded(s).grid + Folded(s).hand

Zeroed(f, S) == [s \in Players |-> IF s \in S THEN 0 ELSE f[s]]

\* closeWindow for the players of S.
CloseFor(S) ==
    /\ inv' = [s \in Players |-> IF s \in S THEN Folded(s).inv ELSE inv[s]]
    /\ grid' = Zeroed(grid, S) /\ hand' = Zeroed(hand, S)
    /\ win' = [s \in Players |-> IF s \in S THEN NoWindow ELSE win[s]]
    /\ ground' = ground + Total([s \in Players |-> Dropped(s)], S)

\* evCloseWin: it names no window, and closes the one open now.
Close(s) ==
    /\ s \in here
    /\ CloseFor({s})
    /\ UNCHANGED <<store, here, asked, away, history>>

-----------------------------------------------------------------------------
(* Logging in, leaving, and crossing to another pod.  The inventory store   *)
(* is read at login and written at leave, so one variable stands for it and *)
(* for the inventory; the autosave writes what nobody reads.                *)

Login(s) ==
    /\ s \notin here /\ abroad[s] = NotAbroad
    /\ here' = here \cup {s}
    /\ UNCHANGED <<store, ground, held, asked, win, away, history>>

\* What a player who is no longer tracked had open or under way.
Gone(s) ==
    /\ here' = here \ {s}
    /\ grid' = Zeroed(grid, {s}) /\ hand' = Zeroed(hand, {s})
    /\ win' = [win EXCEPT ![s] = NoWindow]
    /\ asked' = [asked EXCEPT ![s] = "none"]
    /\ crossing' = [crossing EXCEPT ![s] = NoCrossing]

\* Fault: the inventory is saved before the cursor and the grid are folded in.
SavedTooEarly(s) == inv[s]

SavedAtLeave(s) == Folded(s).inv

\* A crossing under way loses its session: what the neighbour holds of it is
\* never claimed.
OnLeave(s) ==
    /\ s \in here
    /\ Gone(s)
    /\ inv' = [inv EXCEPT ![s] = SavedAtLeave(s)]
    /\ ground' = ground + Dropped(s)
    /\ UNCHANGED <<store, abroad, history>>

\* beginHandover: the snapshot has the inventory, not the cursor or the grid.
BeginHandover(s) ==
    /\ s \in here \cap Roamers /\ crossing[s] = NoCrossing
    /\ crossing' = [crossing EXCEPT ![s] = inv[s]]
    /\ UNCHANGED <<store, ground, here, held, asked, win, abroad, history>>

\* finishHandover: the player is deleted, and no window closed.
FinishHandover(s) ==
    /\ crossing[s] # NoCrossing
    /\ Gone(s)
    /\ inv' = Zeroed(inv, {s})
    /\ abroad' = [abroad EXCEPT ![s] = crossing[s]]
    /\ torn' = (torn \/ crossing[s] # inv[s] + grid[s] + hand[s])
    /\ UNCHANGED <<store, ground, supplied, stale, swallowed, ghosts>>

\* finishHandover of a refusal.
RefuseHandover(s) ==
    /\ crossing[s] # NoCrossing
    /\ crossing' = [crossing EXCEPT ![s] = NoCrossing]
    /\ UNCHANGED <<store, ground, here, held, asked, win, abroad, history>>

-----------------------------------------------------------------------------
(* Blocks.  A connection changes the block and posts evBlock; what happens  *)
(* in the simulation changes it on the hub.                                 *)

CanPost == Len(posts) < MaxPosts

\* A player breaks the container.
Dig(p) ==
    /\ CanPost /\ block[p]
    /\ block' = [block EXCEPT ![p] = FALSE]
    /\ posts' = Append(posts, [at |-> p, stands |-> FALSE])
    /\ UNCHANGED <<boxes, slots, made, ground, here, held, asked, win, away, history>>

\* A player places one where none stands.
Place(p) ==
    /\ CanPost /\ ~block[p]
    /\ block' = [block EXCEPT ![p] = TRUE]
    /\ posts' = Append(posts, [at |-> p, stands |-> TRUE])
    /\ UNCHANGED <<boxes, slots, made, ground, here, held, asked, win, away, history>>

\* Fault: the storage outlives the items it spilled.
StillStored(p) == boxes

Forgotten(p) == [boxes EXCEPT ![p] = None]

\* Fault: a storage without its block is left as it is.
LeftThere(p) == UNCHANGED <<ground, boxes, ghosts>>

\* spillContainer: the items scatter and the storage is forgotten; whoever
\* points to it still does.
Spilt(p) ==
    /\ ground' = ground + (IF boxes[p] = None THEN 0 ELSE slots[boxes[p]])
    /\ boxes' = Forgotten(p)
    /\ ghosts' = ghosts \ {p}

OnBlock ==
    /\ posts # <<>>
    /\ posts' = Tail(posts)
    /\ LET e == Head(posts)
       IN IF e.stands THEN UNCHANGED <<ground, boxes, ghosts>> ELSE Spilt(e.at)
    /\ UNCHANGED <<block, slots, made, here, held, asked, win, away,
                   supplied, stale, torn, swallowed>>

\* setBlockAt: a blast, a piston, a fire.
SimBreak(p) ==
    /\ block[p]
    /\ block' = [block EXCEPT ![p] = FALSE]
    /\ Spilt(p)
    /\ UNCHANGED <<posts, slots, made, here, held, asked, win, away,
                   supplied, stale, torn, swallowed>>

-----------------------------------------------------------------------------
(* Windows. *)

\* The connection looks at the block, and posts.
Ask(s, p) ==
    /\ s \in here /\ asked[s] = "none" /\ block[p]
    /\ Cardinality({t \in Players : asked[t] # "none"}) < MaxAsks
    /\ asked' = [asked EXCEPT ![s] = p]
    /\ UNCHANGED <<store, ground, here, held, win, away, history>>

\* openChest, openBin: the hub does not look at the block again.  A storage
\* made here is stocked if a structure has a container at the place.
Open(s) ==
    LET p == asked[s]
        fresh == boxes[p] = None
        b == IF fresh THEN made + 1 ELSE boxes[p]
    IN /\ s \in here /\ p # "none"
       /\ fresh => made < MaxBoxes
       /\ asked' = [asked EXCEPT ![s] = "none"]
       /\ inv' = [inv EXCEPT ![s] = Folded(s).inv]
       /\ grid' = [grid EXCEPT ![s] = Folded(s).grid]
       /\ hand' = [hand EXCEPT ![s] = Folded(s).hand]
       /\ win' = [win EXCEPT ![s] = [at |-> p, box |-> IF p \in Chests THEN b ELSE None]]
       /\ boxes' = [boxes EXCEPT ![p] = b]
       /\ IF fresh
          THEN /\ made' = b
               /\ slots' = [slots EXCEPT ![b] = Stock[p]]
               /\ supplied' = supplied + Stock[p]
          ELSE UNCHANGED <<made, slots, supplied>>
       /\ ghosts' = IF block[p] THEN ghosts ELSE ghosts \cup {p}
       /\ UNCHANGED <<block, posts, ground, here, away, stale, torn, swallowed>>

\* winSlotPtr: the storage behind a window, None if it is looked up and gone.
Behind(s) == IF win[s].at \in Chests THEN win[s].box
             ELSE IF win[s].at \in Bins THEN boxes[win[s].at] ELSE None

\* No slot of the window is found, the inventory's included: it is looked up
\* through the storage, and that is gone.
Blank(s) == win[s].at # "none" /\ Behind(s) = None

\* The storage a window was opened on is no longer that of its place.
Forsaken(s) == win[s].at # "none" /\ boxes[win[s].at] # Behind(s)

\* Beside the inventory and the cursor, a click changes the grid, or with a
\* window open the storage behind it: its capacity, and what is found there.
SideCap(s) == IF win[s].at = "none" THEN GridCap ELSE BoxCap
Side(s) == IF win[s].at = "none" THEN grid[s] ELSE slots[Behind(s)]

Before(s) == hand[s] + inv[s] + Side(s)

\* Fault: the declared counts are taken as they come.
Unchecked(before, after) == TRUE

\* A click may not gain anything.
NoGain(before, after) == after <= before

\* Fault: what no destination takes is dropped from the books.
ThrowsNothing(before, after) == 0

\* clickCarry: what no destination takes was thrown out.
Thrown(before, after) == IF before > after THEN before - after ELSE 0

\* handleClick: the client names the slots it changed, each once, and declares
\* what is in them now, from a state of the storage it may have seen earlier.
\* A slot it does not name is one declared to hold what it holds.
Click(s) ==
    /\ s \in here /\ ~Blank(s)
    /\ \E i \in 0 .. InvCap, d \in 0 .. SideCap(s), c \in 0 .. HandCap :
          /\ NoGain(Before(s), c + i + d)
          /\ inv' = [inv EXCEPT ![s] = i]
          /\ hand' = [hand EXCEPT ![s] = c]
          /\ grid' = [grid EXCEPT ![s] = IF win[s].at = "none" THEN d ELSE @]
          /\ slots' = IF win[s].at = "none" THEN slots ELSE [slots EXCEPT ![Behind(s)] = d]
          /\ ground' = ground + Thrown(Before(s), c + i + d)
          /\ stale' = (stale \/ (Forsaken(s) /\ d # Side(s)))
    /\ UNCHANGED <<block, posts, boxes, made, here, asked, win, away,
                   supplied, torn, swallowed, ghosts>>

\* handleClick with no slot to be found: only the cursor is checked, and set.
\* The d items declared in slots are taken off it and written nowhere.
BlankClick(s) ==
    /\ s \in here /\ Blank(s)
    /\ \E d \in 0 .. InvCap + BoxCap, c \in 0 .. HandCap :
          /\ NoGain(hand[s], c)
          /\ hand' = [hand EXCEPT ![s] = c]
          /\ ground' = ground + Thrown(hand[s], c + d)
          /\ swallowed' = swallowed + (hand[s] - c - Thrown(hand[s], c + d))
    /\ UNCHANGED <<store, here, inv, grid, asked, win, away, supplied, stale, torn, ghosts>>

Viewers == {s \in here : win[s].at # "none"}

MenuBlockPresent(s) == block[win[s].at]

\* validateWindows, every tick: the menus whose block is gone, and those of
\* the players who walked out of reach, are closed.
Tick ==
    \E far \in SUBSET Viewers :
        /\ CloseFor(far \cup {s \in Viewers : ~MenuBlockPresent(s)})
        /\ UNCHANGED <<store, here, asked, away, history>>

-----------------------------------------------------------------------------
(* Items on the ground. *)

\* pickupItems: of an entity with n items, what the inventory has room for.
PickUp(s) ==
    /\ s \in here
    /\ \E n \in 1 .. Least(ground, Room(s)) :
         /\ inv' = [inv EXCEPT ![s] = @ + n]
         /\ ground' = ground - n
    /\ UNCHANGED <<store, here, grid, hand, asked, win, away, history>>

\* tossHeld: one of the held slot, or all of it.
Toss(s) ==
    /\ s \in here
    /\ \E n \in 1 .. inv[s] :
         /\ inv' = [inv EXCEPT ![s] = @ - n]
         /\ ground' = ground + n
    /\ UNCHANGED <<store, here, grid, hand, asked, win, away, history>>

\* dropInventory, at a death.
Die(s) ==
    /\ s \in here
    /\ ground' = ground + inv[s] + grid[s] + hand[s]
    /\ inv' = Zeroed(inv, {s}) /\ grid' = Zeroed(grid, {s}) /\ hand' = Zeroed(hand, {s})
    /\ UNCHANGED <<store, here, asked, win, away, history>>

-----------------------------------------------------------------------------
PlayerStep(s) ==
    \/ Login(s) \/ OnLeave(s) \/ Close(s) \/ Open(s) \/ Click(s) \/ BlankClick(s)
    \/ BeginHandover(s) \/ FinishHandover(s) \/ RefuseHandover(s)
    \/ PickUp(s) \/ Toss(s) \/ Die(s)
    \/ \E p \in Places : Ask(s, p)

WorldStep ==
    \/ OnBlock \/ Tick
    \/ \E p \in Places : Dig(p) \/ Place(p) \/ SimBreak(p)

Next == WorldStep \/ \E s \in Players : PlayerStep(s)

Spec == Init /\ [][Next]_vars

-----------------------------------------------------------------------------
\* Type invariant: no place holds more than it has room for, whatever a click
\* claims or is folded back, and windows and places name storages there are.
TypeOK ==
    /\ block \in [Places -> BOOLEAN]
    /\ posts \in Seq([at : Places, stands : BOOLEAN]) /\ Len(posts) <= MaxPosts
    /\ made \in 0 .. MaxBoxes
    /\ boxes \in [Places -> 0 .. made]
    /\ slots \in [Boxes -> 0 .. BoxCap]
    /\ ground \in Nat
    /\ here \subseteq Players
    /\ inv \in [Players -> 0 .. InvCap]
    /\ grid \in [Players -> 0 .. GridCap] /\ hand \in [Players -> 0 .. HandCap]
    /\ asked \in [Players -> Places \cup {"none"}]
    /\ win \in [Players -> [at : Places \cup {"none"}, box : 0 .. made]]
    /\ crossing \in [Players -> -1 .. InvCap] /\ abroad \in [Players -> -1 .. InvCap]
    /\ supplied \in Nat /\ swallowed \in Nat
    /\ {stale, torn} \subseteq BOOLEAN /\ ghosts \subseteq Places

-----------------------------------------------------------------------------
Stored == {p \in Places : boxes[p] # None}
Abroad == {s \in Players : abroad[s] # NotAbroad}

\* Every item: lying about, held by a player or saved for one, in a
\* container, or abroad.
Everything ==
    ground + Total([s \in Players |-> inv[s] + grid[s] + hand[s]], Players)
           + Total(abroad, Abroad)
           + Total([p \in Stored |-> slots[boxes[p]]], Stored)

\* No order of clicks (made against whatever the client believes), openings,
\* breaks, placements, ticks, pick-ups, deaths, logins and departures makes an
\* item, and none loses one but those laid into the window of a dispenser,
\* hopper or crafter whose storage is gone, counted one by one in swallowed:
\* handleClick, clickCarry, reclaimCraft, closeWindow, spillContainer, onLeave.
\* Two more things the code does not rule out are excepted by name: a click
\* through a window whose chest was forgotten, and a crossing that leaves
\* things behind.
Conserved == stale \/ torn \/ Everything + swallowed = supplied

\* A container that is gone keeps nothing: while no container stands at a
\* place and no evBlock about it waits, nothing is stored there, where nobody
\* would find it until a container is placed again (spillContainer, onBlock,
\* setBlockAt).  Excepted is a place somebody opened after its block had gone.
NothingBuried ==
    \A p \in Stored : slots[boxes[p]] > 0 =>
        block[p] \/ p \in ghosts \/ \E i \in DOMAIN posts : posts[i].at = p
=============================================================================
