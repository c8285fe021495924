\* Violated: see the finding on TakenDownOnce.  Two connections to one name.
CONSTANTS
  n1 = n1  n2 = n2  x1 = x1  x2 = x2
  NoHost = NoHost  NoFd = NoFd  Nobody = Nobody  Listener = Listener
  Hosts = {n1, n2}
  Callbacks = {x1, x2}
  Lossy = FALSE
  Zones = {{}, {"first"}}
  Fds = {3, 4, 5, 6, 7}
  HostFor <- SameName
  MaxBatch = 1
SPECIFICATION Spec
INVARIANT TakenDownOnce
CHECK_DEADLOCK FALSE
