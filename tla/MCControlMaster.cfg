SPECIFICATION FairSpec
CONSTANTS
  Procs = {p1, p2}
  Masters = {m1, m2, m3}
  None = None
  Takeover = TRUE
  MaxFaults = 4
INVARIANTS
  OwnedIsLocked
  NoStrayMaster
PROPERTIES
  LiveSocketKept
  Recovers
CHECK_DEADLOCK FALSE
