\* Three routes of which two share a port in turn, two desired states, one failure.
SPECIFICATION FairReconcileSpec
CONSTANTS
  i1 = i1
  i2 = i2
  i3 = i3
  t1 = t1
  p1 = p1
  p2 = p2
  p3 = p3
  Ids = {i1, i2, i3}
  Targets = {t1}
  RelayPorts = {p1, p2, p3}
  RemotePort <- SharedPorts
  Settings <- AllSettings
  Unset = Unset
  ManagedSSH = FALSE
  Ambiguous = {"forward", "cancel"}
  MaxRevision = 2
  MaxFailures = 1
INVARIANTS
  ReportMatchesActive
  WithdrawnIsGone
PROPERTIES
  ReportAllowed
  Converges
CHECK_DEADLOCK FALSE
