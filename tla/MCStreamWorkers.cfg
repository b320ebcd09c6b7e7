\* Two TCP workers with three connections, room for two and one of each
\* worker; or a UDP worker with one client and two sessions.
SPECIFICATION MCSpec
CONSTANTS
  w1 = w1
  w2 = w2
  c1 = c1
  c2 = c2
  c3 = c3
  s1 = s1
  s2 = s2
  Workers = {w1, w2}
  Conns = {c1, c2, c3}
  Target <- TwoAndOne
  Clients = {c1}
  Sessions = {s1, s2}
  GlobalLimit = 2
  RouteLimit = 1
  None = None
ACTION_CONSTRAINT
  InOrder
INVARIANTS
  NothingLeaks
  SessionsLeakNothing
PROPERTIES
  ImplementsStreamWorker
  StopTerminates
  UdpImplementsStreamWorker
  UdpStopTerminates
CHECK_DEADLOCK FALSE
