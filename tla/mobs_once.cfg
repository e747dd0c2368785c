CONSTANTS
  m1 = m1
  m2 = m2
  c1 = c1
  c2 = c2
  Mobs = {m1, m2}
  Chunks = {c1, c2}
  ReloadBudget = 1
  UnloadGrace = 1
  MaxCrash = 1
SPECIFICATION FairSpec
INVARIANT TypeOK
INVARIANT ExactlyOnce
CONSTRAINT SoundBoot
PROPERTY SaveEnds
