\* Three agents of which two collide, two keys, two faults, with fairness.
SPECIFICATION MCSpec
CONSTANTS
  a1 = a1
  a2 = a2
  a3 = a3
  k1 = k1
  k2 = k2
  Agents = {a1, a2, a3}
  Keys = {k1, k2}
  BindAddress <- CollidingAddresses
  Isolated = TRUE
  None = None
  MaxFaults = 2
INVARIANTS
  FileIsBound
  ReadyIsAuthorized
PROPERTIES
  NeverLocksOut
  AccessGranted
CHECK_DEADLOCK FALSE
