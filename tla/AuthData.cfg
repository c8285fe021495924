\* Three clients and room for two; six ids, a window of three, jumps of four.
CONSTANTS
  c1 = c1  c2 = c2  c3 = c3
  Clients = {c1, c2, c3}
  Ids = {0, 1, 2, 3, 4, 5}
  MaxClient = 2
  MaxLive = 2
  Lookback = 1
  MaxWindow = 3
  MaxJump = 4
  ActiveTime = 1
SYMMETRY ClientSymmetry
SPECIFICATION Spec
INVARIANTS TypeOK NoReplay WindowBounded LateIdsWelcome 
