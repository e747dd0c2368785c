CONSTANTS
  air = air
  leaf = leaf
  stone = stone
  torch = torch
  hub = hub
  conn = conn
  builder = builder
  NoOne = NoOne
  ChunkWidth = 4
  NChunks = 4
  Height = 4
  MaxLevel = 3
  States = {air, leaf, stone, torch}
  Filter <- MCFilter
  Emission <- MCEmission
  Editors = {conn}
  Fillers = {builder}
  Askers = {}
  Terrain <- Tunnel
  Placeable <- BorderSites
  Blocking = {stone, leaf}
  Points = {torch}
  Ticketed = {0, 1, 2, 3}
  Asked = {0, 1, 2, 3}
  LightCap = 3
SPECIFICATION Spec
INVARIANT TypeOK
INVARIANT LightRight
