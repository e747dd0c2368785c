SPECIFICATION FairSpec
CONSTANTS
  Pods = {p1, p2}
  LoginPods = {p1}
  Players = {alice}
  Sessions = {s1, s2, s3, s4}
  Unused = unused
  Mobs = {m1}
  Dims = {overworld, nether}
  Overworld = overworld
  DimsOf <- MCDimsApart
  MaxEID = 1
  MaxMig = 1
  MaxRev = 0
  MaxDrops = 1
  MaxRestarts = 0
  MaxFull = 0
  MaxStale = 0
INVARIANT MobOnce
PROPERTY CrossingEnds
CHECK_DEADLOCK FALSE
