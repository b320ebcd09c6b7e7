\* A route created on the port and target of one just deleted; nothing fails.
SPECIFICATION ReconcileSpec
CONSTANTS
  i1 = i1
  i2 = i2
  i3 = i3
  t1 = t1
  p1 = p1
  p2 = p2
  p3 = p3
  Ids = {i1, i2}
  Targets = {t1}
  RelayPorts = {p1, p2}
  RemotePort <- OnePort
  Settings <- TcpSettings
  Unset = Unset
  ManagedSSH = TRUE
  Ambiguous = {}
  MaxRevision = 3
  MaxFailures = 0
INVARIANTS
  TunnelUpExists
CHECK_DEADLOCK FALSE
