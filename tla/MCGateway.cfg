SPECIFICATION GatewaySpec
CONSTANTS
  Agents = {a1, a2}
  RouteIds = {r1, r2}
  a1 = a1
  a2 = a2
  r1 = r1
  r2 = r2
  shop = shop
  console = console
  NoDomain = NoDomain
  None = None
  RemotePorts = {1, 2}
  Requests <- MCRequests
  PublicHost = console
  ReservedSegments = {"api"}
  ReservedPorts = {80, 443}
  EdgeProtocols = {"tcp", "udp"}
  WebPortsEnabled = TRUE
  Reported = {"up", "disabled"}
  MaxRevision = 2
  Clients = {c1}
  Listeners <- MCListeners
  Segments = {"app", "api", ".well-known", "acme-challenge"}
  ChallengePrefix <- MCChallengePrefix
  Addresses = {x1, x2}
  Paths <- MCPaths
  Redirects = TRUE
  MaxIdle = 1
INVARIANTS
  EndpointsExclusive
  ConsoleReachable
  PublishedIsRouted
  NeverAnotherAgent
  DialReachesPublished
PROPERTIES
  ChangeAdvancesRevision
CONSTRAINT FewChanges
SYMMETRY Symmetry
CHECK_DEADLOCK FALSE
