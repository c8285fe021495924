\* Two names, three clients; queries may be lost, clients may leave.
CONSTANTS
  n1 = n1  n2 = n2  c1 = c1  c2 = c2  c3 = c3  NoHost = NoHost
  Hosts = {n1, n2}
  Callbacks = {c1, c2, c3}
  Lossy = TRUE
  Zones = {{}, {"first"}, {"second"}, {"first", "second"}}
SPECIFICATION ClientsSpec
INVARIANTS  NobodyForgotten
PROPERTIES OnlyTrueErrors EveryoneAnswered
CHECK_DEADLOCK FALSE
