CONSTANTS
  air = air
  leaf = leaf
  stone = stone
  torch = torch
  hub = hub
  conn = conn
  builder = builder
  NoOne = NoOne
  ChunkWidth = 4
  NChunks = 4
  Height = 3
  MaxLevel = 3
  States = {air, leaf, stone, torch}
  Filter <- MCFilter
  Emission <- MCEmission
  Editors = {hub, conn}
  Fillers = {}
  Askers = {hub}
  Terrain <- Tunnel
  Placeable <- ColumnSites
  Blocking = {stone, leaf}
  Points = {torch}
  Ticketed = {0, 2, 3}
  Asked = {1}
  LightCap = 3
SPECIFICATION Spec
INVARIANT HeightsRight
INVARIANT PointsRight
