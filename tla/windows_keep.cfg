SPECIFICATION Spec
CONSTANTS
    alice = alice
    bob = bob
    chest = chest
    dispenser = dispenser
    Players <- MCPlayers
    Roamers <- MCRoamers
    Chests <- MCChests
    Bins <- MCBins
    Standing <- MCChests
    Stock <- MCStock
    Start <- MCStart
    InvCap = 1
    GridCap = 1
    HandCap = 1
    BoxCap = 1
    MaxBoxes = 2
    MaxPosts = 1
    MaxAsks = 1
CONSTRAINT Sound
INVARIANTS TypeOK Conserved NothingBuried
CHECK_DEADLOCK FALSE
