\* Two routes of one agent, two configuration changes, two faults, with fairness.
SPECIFICATION FairSpec
CONSTANTS
  a1 = a1
  i1 = i1
  i2 = i2
  Agents = {a1}
  RouteIds = {i1, i2}
  NoDomain = NoDomain
  RemotePorts = {1, 2}
  Requests <- TwoRoutes
  PublicHost = NoDomain
  ReservedSegments = {}
  ReservedPorts = {}
  EdgeProtocols = {"tcp", "udp"}
  WebPortsEnabled = TRUE
  Reported = {"up", "down", "error", "disabled"}
  MaxRevision = 2
  MaxFaults = 2
  NoIntent = NoIntent
ACTION_CONSTRAINT
  InOrder
INVARIANTS
  PublicationSound
  ReadyIsReported
  NeverRollback
  LiveReportAccepted
PROPERTIES
  PublicationPromise
  Converges
CHECK_DEADLOCK FALSE
