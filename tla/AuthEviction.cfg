\* Three clients and room for two: the table and its eviction.
CONSTANTS
  c1 = c1  c2 = c2  c3 = c3
  Clients = {c1, c2, c3}
  Ids = {0, 1, 2, 3}
  MaxClient = 2
  MaxLive = 2
  Lookback = 1
  MaxWindow = 2
  MaxJump = 2
  ActiveTime = 2
SPECIFICATION Spec
PROPERTY EvictsOnlyInactive
