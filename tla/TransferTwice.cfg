\* Violated: see the finding on NeverBilledTwice.  The JSON file as database.
CONSTANTS
  p1 = p1  p2 = p2
  Ports = {p1, p2}
  Quiet = {p2}
  BackEnds = {"json"}
  HasMu = TRUE
  Quota = 2  MinUpdate = 2  Step = 1
  MaxUsed = 2  MaxChanges = 2
SPECIFICATION Spec
INVARIANT NeverBilledTwice
