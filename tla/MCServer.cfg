\* Two routes on two ports, two faults, from an empty and from an older database.
SPECIFICATION ServerSpec
CONSTANTS
  r1 = r1
  r2 = r2
  p1 = p1
  p2 = p2
  Ids = {r1, r2}
  Ports = {p1, p2}
  None = None
  MaxFaults = 2
ACTION_CONSTRAINT
  SecondPortQuiet
INVARIANTS
  ListenersOwned
  SchemesKept
PROPERTIES
  ComesUp
CHECK_DEADLOCK FALSE
