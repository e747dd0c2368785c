SPECIFICATION Spec
CONSTANTS
    overworld = overworld
    nether = nether
    w1 = w1
    w2 = w2
    Dims <- MCTwoDims
    Xs <- MCShort
    Home <- MCHome
    Owned <- MCTwoOwned
    Gates <- MCTwoGates
    Workers <- MCOneWorker
    Busy <- MCBusy
    Radius = 0
    Margin = 1
    ClientMargin = 1
    Interest = 0
    Spare = 0
    OutCap = 2
    MaxTravels = 2
    MaxEdits = 2
    MaxFails = 1
    MaxLost = 1
    MaxEnds = 0
INVARIANTS TypeOK HeldIsCurrent ShownOnlyWhereHeld
CHECK_DEADLOCK FALSE
