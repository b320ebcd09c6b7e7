\* Two routes on two ports, one change, with fairness.
SPECIFICATION MCSpec
CONSTANTS
  i1 = i1
  i2 = i2
  p1 = p1
  p2 = p2
  w1 = w1
  w2 = w2
  w3 = w3
  s1 = s1
  Ids = {i1, i2}
  Ports = {p1, p2}
  Workers = {w1, w2, w3}
  Sessions = {s1}
  GlobalLimit = 1
  RouteLimit = 1
  None = None
  MaxChanges = 1
INVARIANTS
  ListenersOwned
  PublishedIsServed
PROPERTIES
  WithdrawnDrains
  Settles
CHECK_DEADLOCK FALSE
