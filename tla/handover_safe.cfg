SPECIFICATION Spec
CONSTANTS
  Pods = {p1, p2}
  LoginPods = {p1}
  Players = {alice, bob}
  Sessions = {s1, s2, s3}
  Unused = unused
  Mobs = {}
  Dims = {overworld}
  Overworld = overworld
  DimsOf <- MCDimsOf
  MaxEID = 2
  MaxMig = 2
  MaxRev = 1
  MaxDrops = 1
  MaxRestarts = 1
  MaxFull = 1
  MaxStale = 1
SYMMETRY Symmetric
INVARIANTS TypeOK OneOwner OwnState NeverStranded
PROPERTY MakeBeforeBreak
CHECK_DEADLOCK FALSE
