SPECIFICATION FairSpec
CONSTANTS
    west = west
    east = east
    south = south
    alice = alice
    zombie = zombie
    overworld = overworld
    nether = nether
    none = none
    Pods <- MCPods
    Players <- MCPlayers
    Mobs <- MCMobs
    Dims <- MCDims
    Overworld = overworld
    DimsOf <- MCDimsOf
    NoDim = none
    Reaches <- MCReaches
    MaxBorn = 1
    MaxEvents = 2
    MaxWire = 2
INVARIANTS TypeOK NoGhost
PROPERTIES RealStays Settled
CHECK_DEADLOCK FALSE
