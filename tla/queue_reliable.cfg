CONSTANTS
  hub = hub
  conn = conn
  Hub = {hub}
  Conn = {conn}
  OutCap = 1
  CritCap = 2
  MaxFrames <- HubMostly
SPECIFICATION FairSpec
INVARIANT TypeOK
INVARIANT Guaranteed
INVARIANT NoJump
INVARIANT NoLostWake
PROPERTY Delivered
PROPERTY SendersReturn
PROPERTY ImplementsFeed
CHECK_DEADLOCK FALSE
