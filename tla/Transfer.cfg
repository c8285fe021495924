\* One user with a server of his own and the multi-user server, and another
\* user's row that keeps the multi-user server going.
CONSTANTS
  p1 = p1  p2 = p2
  Ports = {p1, p2}
  Quiet = {p2}
  BackEnds = {"v2", "v3", "json"}
  HasMu = TRUE
  Quota = 2  MinUpdate = 2  Step = 1
  MaxUsed = 2  MaxChanges = 2
SPECIFICATION Spec
INVARIANTS TypeOK   ClearCacheNeverFails
           ServersMatchRows
PROPERTY PendingIsBilled
