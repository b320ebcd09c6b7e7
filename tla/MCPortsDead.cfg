\* One route, whose listener fails.
SPECIFICATION FairSpec
CONSTANTS
  r1 = r1
  r2 = r2
  p1 = p1
  p2 = p2
  Ids = {r1}
  Ports = {p1}
  None = None
  MaxFaults = 1
PROPERTIES
  PublishedIsServed
CHECK_DEADLOCK FALSE
