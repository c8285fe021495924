SPECIFICATION Spec
CONSTANTS
  ClientKeys = {k1, k2, k3}
  Fds = {1, 2}
  CacheSize = 1
  DnsSize = 1
  NoKey = NoKey
  NoFd = NoFd
  MaxBatch = 2
INVARIANTS
  TypeOK
  SocketsAgree
  OneCache
  ClosedReleases
PROPERTIES
  ClosingEnds
CHECK_DEADLOCK FALSE
