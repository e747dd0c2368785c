SPECIFICATION Spec
CONSTANTS
    overworld = overworld
    nether = nether
    w1 = w1
    w2 = w2
    Dims <- MCDims
    Xs <- MCLine
    Home <- MCMiddle
    Owned <- MCOwned
    Gates <- MCGates
    Workers <- MCWorkers
    Busy <- MCNone
    MaxEnds = 1
    Radius = 1
    Margin = 0
    ClientMargin = 0
    Interest = 1
    Spare = 0
    OutCap = 1
    MaxTravels = 1
    MaxEdits = 0
    MaxFails = 0
    MaxLost = 0
INVARIANTS NoSilentHole
PROPERTIES DropsOnlyInBursts FilledWhenStill WorkersEnd
CHECK_DEADLOCK FALSE
