\* Two connections to two names; five descriptors, one of them listening; the
\* port may be closed in any state.
CONSTANTS
  n1 = n1  n2 = n2  x1 = x1  x2 = x2
  NoHost = NoHost  NoFd = NoFd  Nobody = Nobody  Listener = Listener
  Hosts = {n1, n2}
  Callbacks = {x1, x2}
  Lossy = FALSE
  Zones = {{}, {"first"}}
  Fds = {3, 4, 5, 6, 7}
  HostFor <- OwnNames
  MaxBatch = 2
SPECIFICATION Spec
INVARIANTS TypeOK DescriptorsAgree ConnectionsCounted NothingLeaks Reclaimable
PROPERTY ClosedPortDrains
CHECK_DEADLOCK FALSE
